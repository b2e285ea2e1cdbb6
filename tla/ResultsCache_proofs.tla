------------------------ MODULE ResultsCache_proofs -------------------------
(***************************************************************************)
(* For any number of requests and changes: a stored result which lacks a   *)
(* change is computed again, and rows hold their results in full; and,     *)
(* when requests are made one at a time, a page shows what was committed   *)
(* when it was asked for.                                                  *)
(*                                                                         *)
(* A snapshot is what was read in a transaction: data, with the time the   *)
(* transaction started and the changes that were open then. A change that  *)
(* is committed later is either younger than the transaction, so that the  *)
(* log tells of it, or was open. Whoever stores a result stores what he    *)
(* has read in one transaction, because nothing else is stored between     *)
(* the first statement of a result and its last one (IInv). PInv adds      *)
(* what a request has of the changes before it, TInv which parts of a      *)
(* result are read or still to come.                                       *)
(***************************************************************************)
EXTENDS ResultsCache, FiniteSetTheorems, WellFoundedInduction, SequenceTheorems, TLAPS

AllNames == {"info", "e1", "e2", "champ", "challenge"}
Plain == Results \ {"champ"}
Ops == [do : {"check", "read", "store", "load"}, name : AllNames, parts : SUBSET Parts]
Changes == Parts \X (1 .. clock)

Stores(op, n) == op.do = "store" /\ op.name = n

\* What is left of a script: a result is stored once and then loaded, and
\* nothing is stored between its statements and it.
BodyOK(ops) ==
    /\ ops \in Seq(Ops)
    /\ \A i, j \in DOMAIN ops : \A n \in AllNames : Stores(ops[i], n) /\ Stores(ops[j], n) => i = j
    /\ \A i \in DOMAIN ops : ops[i].do = "store" => i + 1 \in DOMAIN ops /\ ops[i + 1].do = "load"
    /\ \A i \in DOMAIN ops : ops[i].do = "check" =>
          \E j \in DOMAIN ops : i < j /\ Stores(ops[j], ops[i].name)
    /\ \A i \in DOMAIN ops : ops[i].do = "read" /\ ops[i].name # "champ" =>
          \E j \in DOMAIN ops : /\ i < j /\ Stores(ops[j], ops[i].name)
                                /\ \A k \in i .. j - 1 : ops[k].do # "store"

ScriptOK(ops) == BodyOK(ops) /\ ops # <<>> /\ ops[Len(ops)].do = "load"

Pending(ops, n) == \E j \in DOMAIN ops : Stores(ops[j], n)
IsFirst(ops, n) == \E j \in DOMAIN ops : Stores(ops[j], n) /\ \A k \in 1 .. j - 1 : ops[k].do # "store"

\* Changes of a part that were open and have been committed since.
Since(open, part) == {c \in open \ writing : c[1] = part}

Covered(data, start, open, n) == \A part \in Uses(n) : TableOf(part) \in Watched(n) =>
    \/ logged[TableOf(part)] > start
    \/ data[part] + Cardinality(Since(open, part)) >= version[part]

TransactionOK(start, open) ==
    /\ start \in {NoTransaction} \union 0 .. clock
    /\ open \subseteq Changes
    /\ \A c \in writing : c[2] <= start => c \in open

Fresh(data, n) == data = [part \in Uses(n) |-> Unread]

RowOK(row, n) ==
    /\ row.data \in [Uses(n) -> Nat]
    /\ TransactionOK(row.modified, row.open)
    /\ Covered(row.data, row.modified, row.open, n)

RowsOK == \A n \in Plain :
    stored[n] = <<>> \/ \E row \in {stored[n][1]} : stored[n] = <<row>> /\ RowOK(row, n)

Fields == {"name", "ops", "start", "open", "asked", "seen"}
RequestOK(q) ==
    /\ DOMAIN q = Fields /\ DOMAIN q.seen = Results
    /\ ScriptOK(q.ops)
    /\ q.start = NoTransaction => q.ops[1].do = "load"
    /\ TransactionOK(q.start, q.open)
    /\ \A n \in Plain : q.seen[n] \in [Uses(n) -> Nat]
    /\ \A n \in Plain : Pending(q.ops, n) =>
          \/ Fresh(q.seen[n], n)
          \/ /\ q.start # NoTransaction /\ IsFirst(q.ops, n)
             /\ Covered(q.seen[n], q.start, q.open, n)

\* Every committed change was begun.
Begun(part) == {c \in writing : c[1] = part}
TablesOK ==
    /\ clock \in 0 .. MaxWrites
    /\ version \in [Parts -> Nat] /\ logged \in [Logged -> 0 .. MaxWrites]
    /\ writing \subseteq Changes
    /\ \A part \in Parts : version[part] + Cardinality(Begun(part)) <= clock

RequestsOK == \A r \in Requests :
    request[r] = <<>> \/ \E q \in {request[r][1]} : request[r] = <<q>> /\ RequestOK(q)

IInv ==
    /\ TablesOK
    /\ DOMAIN stored = Results /\ RowsOK
    /\ DOMAIN request = Requests /\ RequestsOK

USE CacheAssumption

-----------------------------------------------------------------------------
(* Numbers and sets. *)

LEMMA FirstOf ==
  ASSUME NEW S \in SUBSET Nat, S # {}
  PROVE  \E i \in S : \A j \in S : i <= j
  <1>1. PICK i \in S : \A j \in S : ~(<<j, i>> \in OpToRel(<, Nat))
    BY NatLessThanWellFounded, WFMin
  <1>2. \A j \in S : ~(j < i)
    BY <1>1 DEF OpToRel
  <1>3. QED
    BY <1>2

LEMMA MinOf ==
  ASSUME NEW S \in SUBSET Nat, S # {}
  PROVE  Min(S) \in S
  BY FirstOf DEF Min

LEMMA MaxOf ==
  ASSUME NEW n \in Nat, NEW S \in SUBSET (0 .. n), S # {}
  PROVE  Max(S) \in S /\ \A x \in S : x <= Max(S)
  <1> DEFINE T == {n - x : x \in S}
  <1>1. T \in SUBSET Nat /\ T # {}
    <2>1. \A x \in S : x \in 0 .. n /\ n - x \in Nat
      OBVIOUS
    <2>2. PICK x \in S : TRUE
      OBVIOUS
    <2>3. n - x \in T
      OBVIOUS
    <2>4. \A t \in T : t \in Nat
      BY <2>1
    <2>5. QED
      BY <2>3, <2>4
  <1>2. PICK t \in T : \A u \in T : t <= u
    BY <1>1, FirstOf
  <1>3. \A x \in S : n - x \in T
    OBVIOUS
  <1>4. PICK m \in S : t = n - m
    BY <1>2
  <1>5. \A x \in S : m >= x
    BY <1>2, <1>3, <1>4
  <1>6. QED
    BY <1>5 DEF Max

LEMMA MaxOfTwo ==
  ASSUME NEW a \in Nat, NEW b \in Nat
  PROVE  Max({a, b}) \in {a, b} /\ Max({a, b}) >= a /\ Max({a, b}) >= b
  <1>1. \E x \in {a, b} : \A y \in {a, b} : x >= y
    <2>1. CASE a >= b
      BY <2>1
    <2>2. CASE b >= a
      BY <2>2
    <2>3. QED
      BY <2>1, <2>2
  <1>2. QED
    BY <1>1 DEF Max

LEMMA OfPartFinite ==
  ASSUME NEW part, NEW n \in Nat, NEW S, \A c \in S : c \in {part} \X (1 .. n)
  PROVE  IsFiniteSet(S) /\ Cardinality(S) \in Nat
  <1>1. IsFiniteSet({part}) /\ IsFiniteSet(1 .. n)
    BY FS_Singleton, FS_Interval
  <1>2. IsFiniteSet({part} \X (1 .. n))
    BY <1>1, FS_Product
  <1>3. S \in SUBSET ({part} \X (1 .. n))
    OBVIOUS
  <1>4. IsFiniteSet(S)
    BY <1>2, <1>3, FS_Subset
  <1>5. QED
    BY <1>4, FS_CardinalityType

LEMMA SinceFinite ==
  ASSUME TablesOK, NEW open \in SUBSET Changes, NEW part
  PROVE  IsFiniteSet(Since(open, part)) /\ Cardinality(Since(open, part)) \in Nat
  <1>1. \A c \in Since(open, part) : c \in {part} \X (1 .. clock)
    BY DEF Since, Changes
  <1>2. clock \in Nat
    BY DEF TablesOK
  <1>3. QED
    BY <1>1, <1>2, OfPartFinite

LEMMA BegunFinite ==
  ASSUME TablesOK, NEW part
  PROVE  IsFiniteSet(Begun(part)) /\ Cardinality(Begun(part)) \in Nat
  <1>1. \A c \in Begun(part) : c \in {part} \X (1 .. clock)
    BY DEF Begun, Changes, TablesOK
  <1>2. clock \in Nat
    BY DEF TablesOK
  <1>3. QED
    BY <1>1, <1>2, OfPartFinite

LEMMA VersionBound ==
  ASSUME TablesOK, NEW part \in Parts
  PROVE  version[part] \in Nat /\ version[part] <= clock /\ clock <= MaxWrites /\ clock \in Nat
  BY BegunFinite DEF TablesOK

-----------------------------------------------------------------------------
(* What is left of a script. *)

LEMMA SuffixOK ==
  ASSUME NEW ops, ScriptOK(ops), NEW k \in 1 .. Len(ops) - 1
  PROVE  LET rest == SubSeq(ops, k + 1, Len(ops))
         IN  /\ ScriptOK(rest)
             /\ \A n \in AllNames : Pending(rest, n) => Pending(ops, n)
             /\ \A n \in AllNames : Pending(rest, n) /\ IsFirst(ops, n) => IsFirst(rest, n)
  <1> DEFINE rest == SubSeq(ops, k + 1, Len(ops))
             m == Len(ops)
  <1>1. m \in Nat /\ k \in Nat /\ k < m /\ ops \in Seq(Ops) /\ DOMAIN ops = 1 .. m
    BY DEF ScriptOK, BodyOK
  <1>2. rest \in Seq(Ops) /\ Len(rest) = m - k /\ DOMAIN rest = 1 .. m - k
        /\ \A i \in 1 .. m - k : rest[i] = ops[i + k]
    BY <1>1
  <1> HIDE DEF rest, m
  <1>3. \A i \in DOMAIN rest : i + k \in DOMAIN ops /\ rest[i] = ops[i + k]
    BY <1>1, <1>2
  <1>4. rest # <<>> /\ rest[Len(rest)].do = "load"
    <2>1. Len(rest) \in 1 .. m - k /\ Len(rest) + k = m
      BY <1>1, <1>2
    <2>2. rest[Len(rest)] = ops[m]
      BY <1>2, <2>1
    <2>3. QED
      BY <2>1, <2>2, <1>1, <1>2 DEF ScriptOK, BodyOK, m
  <1>5. \A i, j \in DOMAIN rest : \A n \in AllNames : Stores(rest[i], n) /\ Stores(rest[j], n) => i = j
    <2>1. \A i, j \in DOMAIN rest : \A n \in AllNames :
             Stores(rest[i], n) /\ Stores(rest[j], n) => i + k = j + k
      BY <1>3 DEF ScriptOK, BodyOK
    <2>2. QED
      BY <2>1, <1>1, <1>2
  <1>6. \A i \in DOMAIN rest : rest[i].do = "store" => i + 1 \in DOMAIN rest /\ rest[i + 1].do = "load"
    <2> SUFFICES ASSUME NEW i \in DOMAIN rest, rest[i].do = "store"
                 PROVE  i + 1 \in DOMAIN rest /\ rest[i + 1].do = "load"
      OBVIOUS
    <2>1. i + k + 1 \in DOMAIN ops /\ ops[i + k + 1].do = "load"
      BY <1>3 DEF ScriptOK, BodyOK
    <2>2. i + 1 \in DOMAIN rest /\ (i + 1) + k = i + k + 1
      BY <2>1, <1>1, <1>2
    <2>3. QED
      BY <2>1, <2>2, <1>3
  <1>7. \A i \in DOMAIN rest : rest[i].do = "check" =>
           \E j \in DOMAIN rest : i < j /\ Stores(rest[j], rest[i].name)
    <2> SUFFICES ASSUME NEW i \in DOMAIN rest, rest[i].do = "check"
                 PROVE  \E j \in DOMAIN rest : i < j /\ Stores(rest[j], rest[i].name)
      OBVIOUS
    <2>1. PICK j \in DOMAIN ops : i + k < j /\ Stores(ops[j], rest[i].name)
      BY <1>3 DEF ScriptOK, BodyOK
    <2>2. j - k \in DOMAIN rest /\ (j - k) + k = j /\ i < j - k
      BY <2>1, <1>1, <1>2
    <2>3. QED
      BY <2>1, <2>2, <1>3
  <1>8. \A i \in DOMAIN rest : rest[i].do = "read" /\ rest[i].name # "champ" =>
           \E j \in DOMAIN rest : /\ i < j /\ Stores(rest[j], rest[i].name)
                                  /\ \A p \in i .. j - 1 : rest[p].do # "store"
    <2> SUFFICES ASSUME NEW i \in DOMAIN rest, rest[i].do = "read", rest[i].name # "champ"
                 PROVE  \E j \in DOMAIN rest : /\ i < j /\ Stores(rest[j], rest[i].name)
                                                /\ \A p \in i .. j - 1 : rest[p].do # "store"
      OBVIOUS
    <2>1. PICK j \in DOMAIN ops : /\ i + k < j /\ Stores(ops[j], rest[i].name)
                                  /\ \A p \in i + k .. j - 1 : ops[p].do # "store"
      BY <1>3 DEF ScriptOK, BodyOK
    <2>2. j - k \in DOMAIN rest /\ (j - k) + k = j /\ i < j - k
      BY <2>1, <1>1, <1>2
    <2>3. \A p \in i .. (j - k) - 1 : p \in DOMAIN rest /\ p + k \in i + k .. j - 1
      BY SMTT(30), <2>1, <2>2, <1>1, <1>2
    <2>4. \A p \in i .. (j - k) - 1 : rest[p].do # "store"
      BY <2>1, <2>3, <1>3
    <2>5. QED
      BY <2>1, <2>2, <2>4, <1>3
  <1>9. ScriptOK(rest)
    BY <1>2, <1>4, <1>5, <1>6, <1>7, <1>8 DEF ScriptOK, BodyOK
  <1>10. ASSUME NEW n \in AllNames, Pending(rest, n)
         PROVE  Pending(ops, n) /\ (IsFirst(ops, n) => IsFirst(rest, n))
    <2>1. PICK j \in DOMAIN rest : Stores(rest[j], n)
      BY <1>10 DEF Pending
    <2>2. Stores(ops[j + k], n) /\ j + k \in DOMAIN ops
      BY <2>1, <1>3
    <2>3. Pending(ops, n)
      BY <2>2 DEF Pending
    <2>4. ASSUME IsFirst(ops, n)
          PROVE  IsFirst(rest, n)
      <3>1. PICK f \in DOMAIN ops : Stores(ops[f], n) /\ \A p \in 1 .. f - 1 : ops[p].do # "store"
        BY <2>4 DEF IsFirst
      <3>2. f = j + k
        BY <3>1, <2>2 DEF ScriptOK, BodyOK
      <3>3. \A p \in 1 .. j - 1 : p \in DOMAIN rest /\ p + k \in 1 .. f - 1
        BY <3>2, <1>1, <1>2
      <3>4. \A p \in 1 .. j - 1 : rest[p].do # "store"
        BY <3>1, <3>3, <1>3
      <3>5. QED
        BY <3>4, <2>1 DEF IsFirst
    <2>5. QED
      BY <2>3, <2>4
  <1>11. QED
    BY <1>9, <1>10 DEF rest, m

LEMMA TailOK ==
  ASSUME NEW ops, ScriptOK(ops), Len(ops) # 1
  PROVE  /\ ScriptOK(Tail(ops))
         /\ \A n \in AllNames : Pending(Tail(ops), n) => Pending(ops, n)
         /\ \A n \in AllNames : Pending(Tail(ops), n) /\ IsFirst(ops, n) => IsFirst(Tail(ops), n)
  <1>1. ops \in Seq(Ops) /\ ops # <<>>
    BY DEF ScriptOK, BodyOK
  <1>2. Tail(ops) = SubSeq(ops, 2, Len(ops))
    BY <1>1, TailIsSubSeq
  <1>3. 1 \in 1 .. Len(ops) - 1 /\ 1 + 1 = 2
    <2>1. Len(ops) \in Nat /\ Len(ops) # 0
      BY <1>1
    <2>2. QED
      BY <2>1
  <1> DEFINE rest == SubSeq(ops, 1 + 1, Len(ops))
  <1>4. /\ ScriptOK(rest)
        /\ \A n \in AllNames : Pending(rest, n) => Pending(ops, n)
        /\ \A n \in AllNames : Pending(rest, n) /\ IsFirst(ops, n) => IsFirst(rest, n)
    BY <1>3, SuffixOK
  <1>5. rest = Tail(ops)
    BY <1>2, <1>3
  <1> HIDE DEF rest
  <1>6. QED
    BY <1>4, <1>5

LEMMA HeadNotLoad ==
  ASSUME NEW ops, ScriptOK(ops), Head(ops).do # "load"
  PROVE  /\ Len(ops) # 1 /\ Len(ops) \in Nat /\ Head(ops) = ops[1] /\ 1 \in DOMAIN ops
         /\ 2 \in DOMAIN ops /\ Tail(ops)[1] = ops[2]
  BY DEF ScriptOK, BodyOK

LEMMA AfterStoreOK ==
  ASSUME NEW ops, ScriptOK(ops), Head(ops).do = "check"
  PROVE  LET rest == AfterStore(ops, Head(ops).name)
         IN  /\ ScriptOK(rest)
             /\ \A n \in AllNames : Pending(rest, n) => Pending(ops, n)
             /\ \A n \in AllNames : Pending(rest, n) /\ IsFirst(ops, n) => IsFirst(rest, n)
  <1> DEFINE S == {i \in DOMAIN ops : ops[i].do = "store" /\ ops[i].name = Head(ops).name}
  <1>1. Head(ops) = ops[1] /\ 1 \in DOMAIN ops /\ ops \in Seq(Ops) /\ DOMAIN ops = 1 .. Len(ops) /\ Len(ops) \in Nat
    BY HeadNotLoad DEF ScriptOK, BodyOK
  <1>2. S # {} /\ S \in SUBSET Nat
    BY <1>1 DEF ScriptOK, BodyOK, Stores
  <1>3. Min(S) \in S
    BY <1>2, MinOf
  <1>4. Min(S) # Len(ops)
    BY <1>3 DEF ScriptOK, BodyOK
  <1>5. Min(S) \in 1 .. Len(ops) - 1
    BY <1>1, <1>3, <1>4
  <1>6. AfterStore(ops, Head(ops).name) = SubSeq(ops, Min(S) + 1, Len(ops))
    BY DEF AfterStore
  <1> HIDE DEF S
  <1> DEFINE k == Min(S)
             rest == SubSeq(ops, k + 1, Len(ops))
  <1>7. k \in 1 .. Len(ops) - 1
    BY <1>5
  <1> HIDE DEF k
  <1>8. /\ ScriptOK(rest)
        /\ \A n \in AllNames : Pending(rest, n) => Pending(ops, n)
        /\ \A n \in AllNames : Pending(rest, n) /\ IsFirst(ops, n) => IsFirst(rest, n)
    BY <1>7, SuffixOK
  <1>9. rest = AfterStore(ops, Head(ops).name)
    BY <1>6 DEF k
  <1> HIDE DEF rest
  <1>10. QED
    BY <1>8, <1>9

-----------------------------------------------------------------------------
(* The scripts. *)

LEMMA ConcatOK ==
  ASSUME NEW a, NEW b, BodyOK(a), BodyOK(b),
         \A n \in AllNames : ~(Pending(a, n) /\ Pending(b, n))
  PROVE  /\ BodyOK(a \o b) /\ Len(a \o b) = Len(a) + Len(b)
         /\ \A n \in AllNames : Pending(a \o b, n) => Pending(a, n) \/ Pending(b, n)
  <1> DEFINE ops == a \o b
             la == Len(a)
             lb == Len(b)
  <1>1. a \in Seq(Ops) /\ b \in Seq(Ops) /\ la \in Nat /\ lb \in Nat
        /\ DOMAIN a = 1 .. la /\ DOMAIN b = 1 .. lb
    BY DEF BodyOK
  <1>2. ops \in Seq(Ops) /\ Len(ops) = la + lb
        /\ \A i \in 1 .. la + lb : ops[i] = IF i <= la THEN a[i] ELSE b[i - la]
    BY <1>1, ConcatProperties
  <1> HIDE DEF ops, la, lb
  <1>3. DOMAIN ops = 1 .. la + lb
    BY <1>1, <1>2
  <1>4. \A i \in DOMAIN a : i \in DOMAIN ops /\ ops[i] = a[i]
    BY <1>1, <1>2, <1>3
  <1>5. \A i \in DOMAIN b : i + la \in DOMAIN ops /\ ops[i + la] = b[i]
    <2> SUFFICES ASSUME NEW i \in DOMAIN b PROVE i + la \in DOMAIN ops /\ ops[i + la] = b[i]
      OBVIOUS
    <2> DEFINE k == i + la
    <2>1. k \in 1 .. la + lb /\ ~(k <= la) /\ k - la = i
      BY <1>1
    <2> HIDE DEF k
    <2>2. k \in DOMAIN ops /\ ops[k] = b[k - la]
      BY <2>1, <1>2, <1>3
    <2>3. QED
      BY <2>1, <2>2 DEF k
  <1>6. \A i \in DOMAIN ops : \/ i \in DOMAIN a /\ ops[i] = a[i]
                              \/ i > la /\ i - la \in DOMAIN b /\ ops[i] = b[i - la]
    BY <1>1, <1>2, <1>3
  <1>7. \A n \in AllNames : Pending(ops, n) => Pending(a, n) \/ Pending(b, n)
    BY <1>6 DEF Pending
  <1>8. ASSUME NEW i \in DOMAIN ops, NEW j \in DOMAIN ops, NEW n \in AllNames,
               Stores(ops[i], n), Stores(ops[j], n)
        PROVE  i = j
    <2>1. CASE i \in DOMAIN a /\ ops[i] = a[i]
      <3>1. Pending(a, n)
        BY <2>1, <1>8 DEF Pending
      <3>2. ~(j > la /\ j - la \in DOMAIN b /\ ops[j] = b[j - la])
        BY <3>1, <1>8 DEF Pending
      <3>3. QED
        BY <2>1, <3>2, <1>6, <1>8 DEF BodyOK
    <2>2. CASE i > la /\ i - la \in DOMAIN b /\ ops[i] = b[i - la]
      <3>1. Pending(b, n)
        BY <2>2, <1>8 DEF Pending
      <3>2. ~(j \in DOMAIN a /\ ops[j] = a[j])
        BY <3>1, <1>8 DEF Pending
      <3>3. j > la /\ j - la \in DOMAIN b /\ ops[j] = b[j - la]
        BY <3>2, <1>6
      <3>4. i - la = j - la
        BY <2>2, <3>3, <1>8 DEF BodyOK
      <3>5. QED
        BY <3>4, <1>1, <1>3
    <2>3. QED
      BY <2>1, <2>2, <1>6
  <1>9. ASSUME NEW i \in DOMAIN ops, ops[i].do = "store"
        PROVE  i + 1 \in DOMAIN ops /\ ops[i + 1].do = "load"
    <2>1. CASE i \in DOMAIN a /\ ops[i] = a[i]
      BY <2>1, <1>4, <1>9 DEF BodyOK
    <2>2. CASE i > la /\ i - la \in DOMAIN b /\ ops[i] = b[i - la]
      <3>1. i - la + 1 \in DOMAIN b /\ b[i - la + 1].do = "load"
        BY <2>2, <1>9 DEF BodyOK
      <3>2. i - la + 1 + la = i + 1
        BY <1>1, <1>3
      <3>3. QED
        BY <3>1, <3>2, <1>5
    <2>3. QED
      BY <2>1, <2>2, <1>6
  <1>10. ASSUME NEW i \in DOMAIN ops, ops[i].do = "check"
         PROVE  \E j \in DOMAIN ops : i < j /\ Stores(ops[j], ops[i].name)
    <2>1. CASE i \in DOMAIN a /\ ops[i] = a[i]
      BY <2>1, <1>4, <1>10 DEF BodyOK
    <2>2. CASE i > la /\ i - la \in DOMAIN b /\ ops[i] = b[i - la]
      <3>1. PICK j \in DOMAIN b : i - la < j /\ Stores(b[j], ops[i].name)
        BY <2>2, <1>10 DEF BodyOK
      <3>2. i < j + la
        BY <3>1, <1>1, <1>3
      <3>3. QED
        BY <3>1, <3>2, <1>5
    <2>3. QED
      BY <2>1, <2>2, <1>6
  <1>11. ASSUME NEW i \in DOMAIN ops, ops[i].do = "read", ops[i].name # "champ"
         PROVE  \E j \in DOMAIN ops : /\ i < j /\ Stores(ops[j], ops[i].name)
                                      /\ \A k \in i .. j - 1 : ops[k].do # "store"
    <2>1. CASE i \in DOMAIN a /\ ops[i] = a[i]
      <3>1. PICK j \in DOMAIN a : /\ i < j /\ Stores(a[j], ops[i].name)
                                  /\ \A k \in i .. j - 1 : a[k].do # "store"
        BY <2>1, <1>11 DEF BodyOK
      <3>2. \A k \in i .. j - 1 : k \in DOMAIN a
        BY <2>1, <3>1, <1>1
      <3>3. \A k \in i .. j - 1 : ops[k].do # "store"
        BY <3>1, <3>2, <1>4
      <3>4. j \in DOMAIN ops /\ Stores(ops[j], ops[i].name)
        BY <3>1, <1>4
      <3>5. QED
        BY <3>1, <3>3, <3>4
    <2>2. CASE i > la /\ i - la \in DOMAIN b /\ ops[i] = b[i - la]
      <3>1. PICK j \in DOMAIN b : /\ i - la < j /\ Stores(b[j], ops[i].name)
                                  /\ \A k \in i - la .. j - 1 : b[k].do # "store"
        BY <2>2, <1>11 DEF BodyOK
      <3>2. i < j + la
        BY <3>1, <1>1, <1>3
      <3>3. \A k \in i .. (j + la) - 1 : k - la \in i - la .. j - 1 /\ k - la \in DOMAIN b /\ k - la + la = k
        BY <3>1, <2>2, <1>1, <1>3
      <3>4. \A k \in i .. (j + la) - 1 : ops[k].do # "store"
        BY <3>1, <3>3, <1>5
      <3>5. j + la \in DOMAIN ops /\ Stores(ops[j + la], ops[i].name)
        BY <3>1, <1>5
      <3> DEFINE t == j + la
      <3>6. i < t /\ t \in DOMAIN ops /\ Stores(ops[t], ops[i].name) /\ \A k \in i .. t - 1 : ops[k].do # "store"
        BY <3>2, <3>4, <3>5
      <3> HIDE DEF t
      <3>7. QED
        BY <3>6
    <2>3. QED
      BY <2>1, <2>2, <1>6
  <1>12. BodyOK(ops)
    BY <1>2, <1>8, <1>9, <1>10, <1>11 DEF BodyOK
  <1>13. QED
    BY <1>2, <1>7, <1>12 DEF ops, la, lb

LEMMA StatementsType ==
  ASSUME NEW n \in AllNames
  PROVE  Statements(n) \in Seq(SUBSET Parts)
  <1>1. CASE n = "info"
    BY <1>1 DEF Statements, Parts
  <1>2. CASE n = "e1"
    BY <1>2 DEF Statements, Parts
  <1>3. CASE n = "e2"
    BY <1>3 DEF Statements, Parts
  <1>4. CASE n = "challenge"
    BY <1>4 DEF Statements, Parts
  <1>5. CASE n = "champ"
    BY <1>5 DEF Statements, Parts
  <1>6. QED
    BY <1>1, <1>2, <1>3, <1>4, <1>5 DEF AllNames

LEMMA ReadingType ==
  ASSUME NEW n \in AllNames
  PROVE  /\ Reading(n) \in Seq(Ops)
         /\ \A i \in DOMAIN Reading(n) : Reading(n)[i].do = "read" /\ Reading(n)[i].name = n
  <1> DEFINE st == Statements(n)
  <1>1. st \in Seq(SUBSET Parts) /\ DOMAIN st = 1 .. Len(st) /\ Len(st) \in Nat
    BY StatementsType
  <1>2. \A i \in DOMAIN st : st[i] \in SUBSET Parts
    BY <1>1
  <1> HIDE DEF st
  <1>3. Reading(n) = [i \in 1 .. Len(st) |-> [do |-> "read", name |-> n, parts |-> st[i]]]
    BY <1>1 DEF Reading, Op, st
  <1>4. \A i \in 1 .. Len(st) : [do |-> "read", name |-> n, parts |-> st[i]] \in Ops
    BY <1>1, <1>2 DEF Ops
  <1>5. QED
    BY <1>1, <1>3, <1>4

LEMMA GettingItems ==
  ASSUME NEW n \in AllNames, NEW body \in Seq(Ops)
  PROVE  LET ops == Getting(n, body)
             lr == Len(Reading(n))
             lb == Len(body)
         IN  /\ ops \in Seq(Ops) /\ lr \in Nat /\ lb \in Nat /\ Len(ops) = lr + lb + 3
             /\ ops[1] = Op("check", n, {})
             /\ \A i \in 2 .. lr + 1 : ops[i].do = "read" /\ ops[i].name = n
             /\ \A i \in 1 .. lb : ops[lr + 1 + i] = body[i]
             /\ ops[lr + lb + 2] = Op("store", n, {})
             /\ ops[lr + lb + 3] = Op("load", n, {})
  <1> DEFINE check == <<Op("check", n, {})>>
             end == <<Op("store", n, {}), Op("load", n, {})>>
             reads == Reading(n)
             lr == Len(reads)
             lb == Len(body)
             one == check \o reads
             two == one \o body
             ops == two \o end
  <1>1. /\ check \in Seq(Ops) /\ Len(check) = 1 /\ check[1] = Op("check", n, {})
        /\ end \in Seq(Ops) /\ Len(end) = 2 /\ end[1] = Op("store", n, {}) /\ end[2] = Op("load", n, {})
    BY DEF Op, Ops
  <1>2. reads \in Seq(Ops) /\ lr \in Nat /\ lb \in Nat /\ DOMAIN reads = 1 .. lr
        /\ \A i \in 1 .. lr : reads[i].do = "read" /\ reads[i].name = n
    BY ReadingType
  <1> HIDE DEF check, end, reads, lr, lb
  <1>3. one \in Seq(Ops) /\ Len(one) = 1 + lr
        /\ \A i \in 1 .. 1 + lr : one[i] = IF i <= 1 THEN check[i] ELSE reads[i - 1]
    <2>1. one \in Seq(Ops) /\ Len(one) = Len(check) + Len(reads)
          /\ \A i \in 1 .. Len(check) + Len(reads) :
                one[i] = IF i <= Len(check) THEN check[i] ELSE reads[i - Len(check)]
      BY ZenonT(60), <1>1, <1>2, ConcatProperties
    <2> HIDE DEF one
    <2>2. QED
      BY <2>1, <1>1 DEF lr
  <1> HIDE DEF one
  <1>4. two \in Seq(Ops) /\ Len(two) = 1 + lr + lb
        /\ \A i \in 1 .. 1 + lr + lb : two[i] = IF i <= 1 + lr THEN one[i] ELSE body[i - (1 + lr)]
    <2>1. two \in Seq(Ops) /\ Len(two) = Len(one) + Len(body)
          /\ \A i \in 1 .. Len(one) + Len(body) :
                two[i] = IF i <= Len(one) THEN one[i] ELSE body[i - Len(one)]
      BY <1>3, ConcatProperties
    <2> HIDE DEF two
    <2>2. QED
      BY <2>1, <1>3 DEF lb
  <1> HIDE DEF two
  <1>5. ops \in Seq(Ops) /\ Len(ops) = 1 + lr + lb + 2
        /\ \A i \in 1 .. 1 + lr + lb + 2 :
              ops[i] = IF i <= 1 + lr + lb THEN two[i] ELSE end[i - (1 + lr + lb)]
    <2>1. ops \in Seq(Ops) /\ Len(ops) = Len(two) + Len(end)
          /\ \A i \in 1 .. Len(two) + Len(end) :
                ops[i] = IF i <= Len(two) THEN two[i] ELSE end[i - Len(two)]
      BY <1>1, <1>4, ConcatProperties
    <2> HIDE DEF ops
    <2>2. QED
      BY <2>1, <1>1, <1>4
  <1> HIDE DEF ops
  <1>6. ops[1] = Op("check", n, {})
    <2>1. ops[1] = two[1] /\ two[1] = one[1]
      BY <1>2, <1>4, <1>5
    <2>2. one[1] = check[1]
      BY <1>2, <1>3
    <2>3. QED
      BY <2>1, <2>2, <1>1
  <1>7. ASSUME NEW i \in 2 .. lr + 1
        PROVE  ops[i].do = "read" /\ ops[i].name = n
    <2>1. ops[i] = two[i] /\ two[i] = one[i]
      BY <1>2, <1>4, <1>5
    <2>2. one[i] = reads[i - 1] /\ i - 1 \in 1 .. lr
      BY <1>2, <1>3
    <2>3. QED
      BY <2>1, <2>2, <1>2
  <1>8. ASSUME NEW i \in 1 .. lb
        PROVE  ops[lr + 1 + i] = body[i]
    <2> DEFINE k == lr + 1 + i
    <2>1. /\ k \in 1 .. 1 + lr + lb /\ ~(k <= 1 + lr) /\ k - (1 + lr) = i
          /\ k \in 1 .. 1 + lr + lb + 2 /\ k <= 1 + lr + lb
      BY <1>2
    <2> HIDE DEF k
    <2>2. ops[k] = two[k]
      BY <2>1, <1>5
    <2>3. two[k] = body[i]
      BY <2>1, <1>4
    <2>4. QED
      BY <2>2, <2>3 DEF k
  <1>9. ops[lr + lb + 2] = Op("store", n, {})
    <2> DEFINE k == lr + lb + 2
    <2>1. k \in 1 .. 1 + lr + lb + 2 /\ ~(k <= 1 + lr + lb) /\ k - (1 + lr + lb) = 1
      BY <1>2
    <2> HIDE DEF k
    <2>2. ops[k] = end[1]
      BY <2>1, <1>5
    <2>3. QED
      BY <2>2, <1>1 DEF k
  <1>10. ops[lr + lb + 3] = Op("load", n, {})
    <2> DEFINE k == lr + lb + 3
    <2>1. k \in 1 .. 1 + lr + lb + 2 /\ ~(k <= 1 + lr + lb) /\ k - (1 + lr + lb) = 2
      BY <1>2
    <2> HIDE DEF k
    <2>2. ops[k] = end[2]
      BY <2>1, <1>5
    <2>3. QED
      BY <2>2, <1>1 DEF k
  <1>11. ops = Getting(n, body)
    BY DEF ops, two, one, check, end, reads, Getting
  <1>12. Len(ops) = lr + lb + 3
    BY <1>2, <1>5
  <1>13. QED
    BY <1>2, <1>5, <1>6, <1>7, <1>8, <1>9, <1>10, <1>11, <1>12 DEF lr, lb, reads

LEMMA GettingOK ==
  ASSUME NEW n \in AllNames, NEW body, BodyOK(body), ~Pending(body, n), n = "champ" \/ body = <<>>
  PROVE  /\ ScriptOK(Getting(n, body))
         /\ \A m \in AllNames : Pending(Getting(n, body), m) => m = n \/ Pending(body, m)
  <1> DEFINE ops == Getting(n, body)
             lr == Len(Reading(n))
             lb == Len(body)
  <1>1. body \in Seq(Ops) /\ DOMAIN body = 1 .. lb
    BY DEF BodyOK
  <1>2. /\ ops \in Seq(Ops) /\ lr \in Nat /\ lb \in Nat /\ Len(ops) = lr + lb + 3
        /\ ops[1] = Op("check", n, {})
        /\ \A i \in 2 .. lr + 1 : ops[i].do = "read" /\ ops[i].name = n
        /\ \A i \in 1 .. lb : ops[lr + 1 + i] = body[i]
        /\ ops[lr + lb + 2] = Op("store", n, {})
        /\ ops[lr + lb + 3] = Op("load", n, {})
    BY <1>1, GettingItems
  <1> HIDE DEF ops, lr, lb
  <1>3. DOMAIN ops = 1 .. lr + lb + 3
    BY <1>2
  <1>4. /\ ops[1].do = "check" /\ ops[1].name = n
        /\ ops[lr + lb + 2].do = "store" /\ ops[lr + lb + 2].name = n
        /\ ops[lr + lb + 3].do = "load"
    BY <1>2 DEF Op
  <1>5. \A i \in DOMAIN ops :
           \/ i = 1 \/ i \in 2 .. lr + 1
           \/ i - (lr + 1) \in DOMAIN body
           \/ i = lr + lb + 2 \/ i = lr + lb + 3
    BY <1>1, <1>2, <1>3
  <1>6. \A i \in DOMAIN body : lr + 1 + i \in DOMAIN ops /\ ops[lr + 1 + i] = body[i]
    BY <1>1, <1>2, <1>3
  <1>7. \A i \in DOMAIN ops : i - (lr + 1) \in DOMAIN body => ops[i] = body[i - (lr + 1)]
    <2> SUFFICES ASSUME NEW i \in DOMAIN ops, i - (lr + 1) \in DOMAIN body
                 PROVE  ops[i] = body[i - (lr + 1)]
      OBVIOUS
    <2>1. lr + 1 + (i - (lr + 1)) = i
      BY <1>2, <1>3
    <2>2. QED
      BY <2>1, <1>6
  <1>8. \A i \in DOMAIN ops : ops[i].do = "store" => i = lr + lb + 2 \/ i - (lr + 1) \in DOMAIN body
    BY <1>2, <1>4, <1>5
  <1>9. ASSUME NEW m \in AllNames, Pending(ops, m)
        PROVE  m = n \/ Pending(body, m)
    BY <1>9, <1>4, <1>7, <1>8 DEF Pending, Stores
  <1>10. ASSUME NEW i \in DOMAIN ops, NEW j \in DOMAIN ops, NEW m \in AllNames,
                Stores(ops[i], m), Stores(ops[j], m)
         PROVE  i = j
    <2>1. CASE m = n
      <3>1. ~(i - (lr + 1) \in DOMAIN body) /\ ~(j - (lr + 1) \in DOMAIN body)
        BY <2>1, <1>7, <1>10 DEF Pending
      <3>2. QED
        BY <3>1, <1>8, <1>10 DEF Stores
    <2>2. CASE m # n
      <3>1. i # lr + lb + 2 /\ j # lr + lb + 2
        BY <2>2, <1>4, <1>10 DEF Stores
      <3>2. i - (lr + 1) \in DOMAIN body /\ j - (lr + 1) \in DOMAIN body
        BY <3>1, <1>8, <1>10 DEF Stores
      <3>3. i - (lr + 1) = j - (lr + 1)
        BY <3>2, <1>7, <1>10 DEF BodyOK
      <3>4. QED
        BY <3>3, <1>2, <1>3
    <2>3. QED
      BY <2>1, <2>2
  <1>11. ASSUME NEW i \in DOMAIN ops, ops[i].do = "store"
         PROVE  i + 1 \in DOMAIN ops /\ ops[i + 1].do = "load"
    <2>1. CASE i = lr + lb + 2
      <3>1. i + 1 = lr + lb + 3 /\ i + 1 \in DOMAIN ops
        BY <2>1, <1>2, <1>3
      <3>2. QED
        BY <3>1, <1>4
    <2>2. CASE i - (lr + 1) \in DOMAIN body
      <3>1. i - (lr + 1) + 1 \in DOMAIN body /\ body[i - (lr + 1) + 1].do = "load"
        BY <2>2, <1>7, <1>11 DEF BodyOK
      <3>2. lr + 1 + (i - (lr + 1) + 1) = i + 1
        BY <1>2, <1>3
      <3>3. QED
        BY <3>1, <3>2, <1>6
    <2>3. QED
      BY <2>1, <2>2, <1>8, <1>11
  <1>12. ASSUME NEW i \in DOMAIN ops, ops[i].do = "check"
         PROVE  \E j \in DOMAIN ops : i < j /\ Stores(ops[j], ops[i].name)
    <2>1. CASE i = 1
      <3>1. lr + lb + 2 \in DOMAIN ops /\ i < lr + lb + 2
        BY <2>1, <1>2, <1>3
      <3>2. QED
        BY <2>1, <3>1, <1>4 DEF Stores
    <2>2. CASE i - (lr + 1) \in DOMAIN body
      <3>1. PICK j \in DOMAIN body : i - (lr + 1) < j /\ Stores(body[j], ops[i].name)
        BY <2>2, <1>7, <1>12 DEF BodyOK
      <3>2. i < lr + 1 + j
        BY <3>1, <1>1, <1>2, <1>3
      <3>3. QED
        BY <3>1, <3>2, <1>6
    <2>3. QED
      BY <2>1, <2>2, <1>2, <1>4, <1>5, <1>12
  <1>13. ASSUME NEW i \in DOMAIN ops, ops[i].do = "read", ops[i].name # "champ"
         PROVE  \E j \in DOMAIN ops : /\ i < j /\ Stores(ops[j], ops[i].name)
                                      /\ \A k \in i .. j - 1 : ops[k].do # "store"
    <2>1. CASE i \in 2 .. lr + 1
      <3>1. body = <<>> /\ ops[i].name = n
        BY <2>1, <1>2, <1>13
      <3>2. DOMAIN body = {}
        BY <3>1
      <3>3. \A k \in i .. (lr + lb + 2) - 1 : k \in DOMAIN ops /\ k # lr + lb + 2
        BY <2>1, <1>2, <1>3
      <3>4. \A k \in i .. (lr + lb + 2) - 1 : ops[k].do # "store"
        BY <3>2, <3>3, <1>8
      <3>5. lr + lb + 2 \in DOMAIN ops /\ i < lr + lb + 2
        BY <2>1, <1>2, <1>3
      <3>6. Stores(ops[lr + lb + 2], ops[i].name)
        BY <3>1, <1>4 DEF Stores
      <3> DEFINE t == lr + lb + 2
      <3>7. i < t /\ t \in DOMAIN ops /\ Stores(ops[t], ops[i].name) /\ \A k \in i .. t - 1 : ops[k].do # "store"
        BY <3>4, <3>5, <3>6
      <3> HIDE DEF t
      <3>8. QED
        BY <3>7
    <2>2. CASE i - (lr + 1) \in DOMAIN body
      <3>1. PICK j \in DOMAIN body : /\ i - (lr + 1) < j /\ Stores(body[j], ops[i].name)
                                     /\ \A k \in i - (lr + 1) .. j - 1 : body[k].do # "store"
        BY <2>2, <1>7, <1>13 DEF BodyOK
      <3>2. i < lr + 1 + j
        BY <3>1, <1>1, <1>2, <1>3
      <3>3. \A k \in i .. (lr + 1 + j) - 1 :
               /\ k - (lr + 1) \in i - (lr + 1) .. j - 1
               /\ k - (lr + 1) \in DOMAIN body /\ k \in DOMAIN ops
        BY <2>2, <3>1, <1>1, <1>2, <1>3
      <3>4. \A k \in i .. (lr + 1 + j) - 1 : ops[k].do # "store"
        BY <3>1, <3>3, <1>7
      <3>5. lr + 1 + j \in DOMAIN ops /\ Stores(ops[lr + 1 + j], ops[i].name)
        BY <3>1, <1>6
      <3> DEFINE t == lr + 1 + j
      <3>6. i < t /\ t \in DOMAIN ops /\ Stores(ops[t], ops[i].name) /\ \A k \in i .. t - 1 : ops[k].do # "store"
        BY <3>2, <3>4, <3>5
      <3> HIDE DEF t
      <3>7. QED
        BY <3>6
    <2>3. QED
      BY <2>1, <2>2, <1>4, <1>5, <1>13
  <1>14. BodyOK(ops)
    BY <1>2, <1>10, <1>11, <1>12, <1>13 DEF BodyOK
  <1>15. ops # <<>> /\ ops[Len(ops)].do = "load"
    BY <1>2, <1>4
  <1>16. QED
    BY <1>9, <1>14, <1>15 DEF ops, ScriptOK

LEMMA EmptyBody == BodyOK(<<>>) /\ \A n \in AllNames : ~Pending(<<>>, n)
  BY DEF BodyOK, Pending

LEMMA ScriptsOK ==
  ASSUME NEW n \in AllNames
  PROVE  ScriptOK(Script(n))
  <1>1. CASE n # "champ"
    BY <1>1, EmptyBody, GettingOK DEF Script
  <1>2. CASE n = "champ"
    <2> DEFINE one == Getting("e1", <<>>)
               two == Getting("e2", <<>>)
    <2>1. ScriptOK(one) /\ \A m \in AllNames : Pending(one, m) => m = "e1"
      BY EmptyBody, GettingOK DEF AllNames
    <2>2. ScriptOK(two) /\ \A m \in AllNames : Pending(two, m) => m = "e2"
      BY EmptyBody, GettingOK DEF AllNames
    <2> HIDE DEF one, two
    <2>3. BodyOK(one) /\ BodyOK(two)
      BY <2>1, <2>2 DEF ScriptOK
    <2>4. \A m \in AllNames : ~(Pending(one, m) /\ Pending(two, m))
      BY <2>1, <2>2
    <2>5. BodyOK(one \o two) /\ \A m \in AllNames : Pending(one \o two, m) => Pending(one, m) \/ Pending(two, m)
      BY <2>3, <2>4, ConcatOK
    <2>6. ~Pending(one \o two, "champ")
      BY <2>1, <2>2, <2>5 DEF AllNames
    <2>7. ScriptOK(Getting("champ", one \o two))
      BY <2>5, <2>6, GettingOK DEF AllNames
    <2>8. QED
      BY <1>2, <2>7 DEF Script, one, two
  <1>3. QED
    BY <1>1, <1>2

LEMMA UsesParts ==
  ASSUME NEW n \in AllNames
  PROVE  Uses(n) \subseteq Parts
  <1>1. Script(n) \in Seq(Ops)
    BY ScriptsOK DEF ScriptOK, BodyOK
  <1>2. \A op \in ToSet(Script(n)) : op \in Ops
    BY <1>1 DEF ToSet
  <1>3. \A op \in ToSet(Script(n)) : op.parts \subseteq Parts
    BY <1>2 DEF Ops
  <1>4. QED
    BY <1>3 DEF Uses

-----------------------------------------------------------------------------
(* The tables. *)

LEMMA WatchedLogged ==
  ASSUME NEW n \in AllNames
  PROVE  Watched(n) \subseteq Logged /\ Watched(n) # {}
  <1>1. /\ TableOf("classlist") = "classlist" /\ TableOf("indexlist") = "indexlist"
        /\ TableOf("events") = "events" /\ TableOf("settings") = "settings" /\ TableOf("cars") = "cars"
        /\ TableOf("runs1") = "runs" /\ TableOf("rounds") = "challengerounds"
        /\ TableOf("chruns") = "challengeruns"
    BY DEF TableOf
  <1>2. {"classlist", "indexlist", "events", "settings", "cars", "runs1", "rounds", "chruns"} \subseteq Parts
    BY DEF Parts
  <1>3. {"classlist", "indexlist", "events", "settings", "cars", "runs", "challengerounds",
         "challengeruns"} \subseteq Tables
    BY <1>1, <1>2 DEF Tables
  <1>4. QED
    BY <1>3 DEF Watched, Logged, AllNames

LEMMA PlainNames == Plain \subseteq AllNames /\ Results \subseteq AllNames /\ Names \subseteq AllNames
  BY DEF Plain, Results, AllNames, Events

LEMMA BegunByBegin ==
  ASSUME TablesOK, NEW part, BeginWrite(part), part \in Parts
  PROVE  TablesOK'
  <1>1. /\ clock \in 0 .. MaxWrites /\ clock' = clock + 1 /\ clock' \in 0 .. MaxWrites
        /\ version' = version /\ logged' = logged
        /\ writing' = writing \union {<<part, clock + 1>>}
    BY DEF BeginWrite, TablesOK
  <1>2. writing' \subseteq Changes'
    BY <1>1 DEF TablesOK, Changes
  <1>3. <<part, clock + 1>> \notin writing
    BY <1>1 DEF TablesOK, Changes
  <1>4. ASSUME NEW p \in Parts
        PROVE  version'[p] + Cardinality(Begun(p)') <= clock'
    <2>1. IsFiniteSet(Begun(p)) /\ Cardinality(Begun(p)) \in Nat
      BY BegunFinite
    <2>2. CASE p = part
      <3>1. Begun(p)' = Begun(p) \union {<<part, clock + 1>>} /\ <<part, clock + 1>> \notin Begun(p)
        BY <1>1, <1>3, <2>2 DEF Begun
      <3>2. Cardinality(Begun(p)') = Cardinality(Begun(p)) + 1
        BY <2>1, <3>1, FS_AddElement
      <3>3. QED
        BY <1>1, <2>1, <3>2 DEF TablesOK
    <2>3. CASE p # part
      <3>1. Begun(p)' = Begun(p)
        BY <1>1, <2>3 DEF Begun
      <3>2. QED
        BY <1>1, <2>1, <3>1 DEF TablesOK
    <2>4. QED
      BY <2>2, <2>3
  <1>5. QED
    BY <1>1, <1>2, <1>4 DEF TablesOK

LEMMA LoggedByCommit ==
  ASSUME TablesOK, NEW part \in Parts, NEW time \in 1 .. clock, Committed(part, time)
  PROVE  /\ version' = [version EXCEPT ![part] = @ + 1]
         /\ logged' \in [Logged -> 0 .. MaxWrites]
         /\ \A table \in Logged : logged'[table] >= logged[table]
         /\ TableOf(part) \in Logged => logged'[TableOf(part)] >= time
  <1>1. time \in Nat /\ time <= MaxWrites /\ logged \in [Logged -> 0 .. MaxWrites]
    BY DEF TablesOK
  <1>2. \A table \in Logged : logged[table] \in Nat /\ logged[table] <= MaxWrites
    BY <1>1
  <1>3. /\ version' = [version EXCEPT ![part] = @ + 1]
        /\ logged' = [table \in Logged |->
               IF table = TableOf(part) THEN Max({logged[table], time}) ELSE logged[table]]
    BY DEF Committed
  <1>4. \A table \in Logged : /\ Max({logged[table], time}) \in {logged[table], time}
                              /\ Max({logged[table], time}) >= logged[table]
                              /\ Max({logged[table], time}) >= time
    BY <1>1, <1>2, MaxOfTwo
  <1>5. \A table \in Logged : Max({logged[table], time}) \in 0 .. MaxWrites
    BY <1>1, <1>2, <1>4
  <1>6. logged' \in [Logged -> 0 .. MaxWrites]
    BY <1>1, <1>3, <1>5
  <1>7. \A table \in Logged : logged'[table] >= logged[table]
    BY <1>2, <1>3, <1>4
  <1>8. TableOf(part) \in Logged => logged'[TableOf(part)] >= time
    BY <1>3, <1>4
  <1>9. QED
    BY <1>3, <1>6, <1>7, <1>8

LEMMA BegunByCommit ==
  ASSUME TablesOK, NEW change \in writing, Committed(change[1], change[2]),
         writing' = writing \ {change}, clock' = clock
  PROVE  TablesOK'
  <1>1. /\ change[1] \in Parts /\ change[2] \in 1 .. clock /\ change = <<change[1], change[2]>>
        /\ clock \in Nat
    BY DEF TablesOK, Changes
  <1>2. version' = [version EXCEPT ![change[1]] = @ + 1] /\ logged' \in [Logged -> 0 .. MaxWrites]
    BY <1>1, LoggedByCommit
  <1>3. version' \in [Parts -> Nat]
    <2>1. version \in [Parts -> Nat] /\ version[change[1]] + 1 \in Nat
      BY <1>1 DEF TablesOK
    <2>2. QED
      BY <1>2, <2>1
  <1>4. ASSUME NEW p \in Parts
        PROVE  version'[p] + Cardinality(Begun(p)') <= clock'
    <2>1. IsFiniteSet(Begun(p)) /\ Cardinality(Begun(p)) \in Nat
      BY BegunFinite
    <2>2. version[p] \in Nat /\ version[p] + Cardinality(Begun(p)) <= clock
      BY DEF TablesOK
    <2>3. CASE p = change[1]
      <3>1. Begun(p)' = Begun(p) \ {change} /\ change \in Begun(p)
        BY <2>3 DEF Begun
      <3>2. Cardinality(Begun(p)') = Cardinality(Begun(p)) - 1
        BY <2>1, <3>1, FS_RemoveElement
      <3>3. version'[p] = version[p] + 1
        BY <1>2, <2>3 DEF TablesOK
      <3>4. QED
        BY <1>1, <2>1, <2>2, <3>2, <3>3
    <2>4. CASE p # change[1]
      <3>1. Begun(p)' = Begun(p)
        BY <2>4 DEF Begun
      <3>2. version'[p] = version[p]
        BY <1>2, <2>4 DEF TablesOK
      <3>3. QED
        BY <2>2, <3>1, <3>2
    <2>5. QED
      BY <2>3, <2>4
  <1>5. writing' \subseteq Changes'
    BY DEF TablesOK, Changes
  <1>6. QED
    BY <1>2, <1>3, <1>4, <1>5 DEF TablesOK

-----------------------------------------------------------------------------
(* Snapshots, when others write. *)

LEMMA SnapshotByBegin ==
  ASSUME TablesOK, NEW part \in Parts, BeginWrite(part), NEW n \in AllNames,
         NEW data \in [Uses(n) -> Nat], NEW start, NEW open, TransactionOK(start, open)
  PROVE  /\ TransactionOK(start, open)'
         /\ Covered(data, start, open, n) => Covered(data, start, open, n)'
  <1>1. /\ clock \in Nat /\ clock' = clock + 1 /\ version' = version /\ logged' = logged
        /\ writing' = writing \union {<<part, clock + 1>>}
    BY DEF BeginWrite, TablesOK
  <1>2. open \subseteq Changes /\ open \subseteq Changes'
    BY <1>1 DEF TransactionOK, Changes
  <1>3. <<part, clock + 1>> \notin open
    BY <1>1, <1>2 DEF Changes
  <1>4. \A p : Since(open, p)' = Since(open, p)
    BY <1>1, <1>3 DEF Since
  <1>5. start \in {NoTransaction} \union 0 .. clock' /\ start <= clock
    BY <1>1 DEF TransactionOK, NoTransaction
  <1>6. TransactionOK(start, open)'
    BY <1>1, <1>2, <1>5 DEF TransactionOK, NoTransaction
  <1>7. Covered(data, start, open, n) => Covered(data, start, open, n)'
    BY <1>1, <1>4 DEF Covered
  <1>8. QED
    BY <1>6, <1>7

LEMMA SnapshotByCommit ==
  ASSUME TablesOK, NEW change \in writing, Committed(change[1], change[2]),
         writing' = writing \ {change}, clock' = clock, NEW n \in AllNames,
         NEW data \in [Uses(n) -> Nat], NEW start, NEW open, TransactionOK(start, open)
  PROVE  /\ TransactionOK(start, open)'
         /\ Covered(data, start, open, n) => Covered(data, start, open, n)'
  <1>1. /\ change[1] \in Parts /\ change[2] \in 1 .. clock /\ change = <<change[1], change[2]>>
        /\ clock \in Nat
    BY DEF TablesOK, Changes
  <1>2. /\ version' = [version EXCEPT ![change[1]] = @ + 1]
        /\ logged' \in [Logged -> 0 .. MaxWrites]
        /\ \A table \in Logged : logged'[table] >= logged[table]
        /\ TableOf(change[1]) \in Logged => logged'[TableOf(change[1])] >= change[2]
    BY <1>1, LoggedByCommit
  <1>3. /\ open \in SUBSET Changes /\ start \in Int
        /\ change[2] <= start => change \in open
    BY <1>1 DEF TransactionOK, NoTransaction
  <1>4. TransactionOK(start, open)'
    BY DEF TransactionOK, Changes
  <1>5. ASSUME NEW p \in Uses(n), TableOf(p) \in Watched(n),
               \/ logged[TableOf(p)] > start
               \/ data[p] + Cardinality(Since(open, p)) >= version[p]
        PROVE  \/ logged'[TableOf(p)] > start
               \/ data[p] + Cardinality(Since(open, p)') >= version'[p]
    <2>1. p \in Parts /\ TableOf(p) \in Logged
      BY <1>5, UsesParts, WatchedLogged
    <2>2. logged[TableOf(p)] \in Int /\ logged'[TableOf(p)] \in Int /\ logged'[TableOf(p)] >= logged[TableOf(p)]
      BY <1>2, <2>1 DEF TablesOK
    <2>3. IsFiniteSet(Since(open, p)) /\ Cardinality(Since(open, p)) \in Nat
      BY <1>3, SinceFinite
    <2>4. CASE logged[TableOf(p)] > start
      BY <1>3, <2>2, <2>4
    <2>5. CASE data[p] + Cardinality(Since(open, p)) >= version[p] /\ p # change[1]
      <3>1. Since(open, p)' = Since(open, p)
        BY <2>5 DEF Since
      <3>2. version'[p] = version[p]
        BY <1>2, <2>1, <2>5 DEF TablesOK
      <3>3. QED
        BY <2>5, <3>1, <3>2
    <2>6. CASE data[p] + Cardinality(Since(open, p)) >= version[p] /\ p = change[1] /\ change[2] > start
      BY <1>1, <1>2, <1>3, <2>1, <2>2, <2>6
    <2>7. CASE data[p] + Cardinality(Since(open, p)) >= version[p] /\ p = change[1] /\ change[2] <= start
      <3>1. Since(open, p)' = Since(open, p) \union {change} /\ change \notin Since(open, p)
        BY <1>3, <2>7 DEF Since
      <3>2. Cardinality(Since(open, p)') = Cardinality(Since(open, p)) + 1
        BY <2>3, <3>1, FS_AddElement
      <3>3. version'[p] = version[p] + 1 /\ version[p] \in Nat
        BY <1>2, <2>1, <2>7 DEF TablesOK
      <3>4. data[p] \in Nat
        OBVIOUS
      <3>5. QED
        BY <2>3, <2>7, <3>2, <3>3, <3>4
    <2>8. QED
      BY <1>1, <1>3, <1>5, <2>4, <2>5, <2>6, <2>7
  <1>6. Covered(data, start, open, n) => Covered(data, start, open, n)'
    BY <1>5 DEF Covered
  <1>7. QED
    BY <1>4, <1>6

-----------------------------------------------------------------------------
(* The steps of a request. *)

LEMMA FreshCovers ==
  ASSUME TablesOK, NEW n \in AllNames, NEW data, Fresh(data, n), NEW start, NEW open \in SUBSET Changes
  PROVE  Covered(data, start, open, n)
  <1>1. ASSUME NEW p \in Uses(n)
        PROVE  data[p] + Cardinality(Since(open, p)) >= version[p]
    <2>1. data[p] = MaxWrites + 1
      BY DEF Fresh, Unread
    <2>2. p \in Parts
      BY UsesParts
    <2>3. version[p] \in Nat /\ version[p] <= MaxWrites /\ MaxWrites \in Nat
      BY <2>2, VersionBound
    <2>4. Cardinality(Since(open, p)) \in Nat
      BY SinceFinite
    <2>5. QED
      BY <2>1, <2>3, <2>4
  <1>2. QED
    BY <1>1 DEF Covered

LEMMA NewRequestOK ==
  ASSUME TablesOK, NEW name \in Names, NEW asked,
         NEW q, q = [name |-> name, ops |-> Script(name), start |-> clock, open |-> writing, asked |-> asked,
                     seen |-> [n \in Results |-> [part \in Uses(n) |-> Unread]]]
  PROVE  RequestOK(q)
  <1>1. DOMAIN q = Fields /\ q.ops = Script(name) /\ q.start = clock /\ q.open = writing
        /\ q.seen = [n \in Results |-> [part \in Uses(n) |-> Unread]]
    BY DEF Fields
  <1>2. ScriptOK(q.ops)
    BY <1>1, PlainNames, ScriptsOK
  <1>3. TransactionOK(q.start, q.open) /\ q.start # NoTransaction
    BY <1>1 DEF TransactionOK, TablesOK, NoTransaction
  <1>4. \A n \in Plain : q.seen[n] = [part \in Uses(n) |-> Unread]
    BY <1>1 DEF Plain
  <1>5. \A n \in Plain : Fresh(q.seen[n], n) /\ q.seen[n] \in [Uses(n) -> Nat]
    BY <1>4 DEF Fresh, Unread
  <1>6. DOMAIN q.seen = Results
    BY <1>1
  <1>7. QED
    BY <1>1, <1>2, <1>3, <1>5, <1>6 DEF RequestOK

LEMMA CheckGood ==
  ASSUME NEW q, RequestOK(q), Head(q.ops).do # "load", NEW rest, ScriptOK(rest),
         \A n \in AllNames : Pending(rest, n) => Pending(q.ops, n),
         \A n \in AllNames : Pending(rest, n) /\ IsFirst(q.ops, n) => IsFirst(rest, n),
         NEW next, next = [q EXCEPT !.ops = rest]
  PROVE  RequestOK(next)
  <1>1. DOMAIN q = Fields
    BY DEF RequestOK
  <1>2. DOMAIN next = Fields /\ next.ops = rest /\ next.start = q.start /\ next.open = q.open
        /\ next.seen = q.seen
    BY <1>1 DEF Fields
  <1>3. q.start # NoTransaction
    BY HeadNotLoad DEF RequestOK
  <1>4. ASSUME NEW n \in Plain, Pending(next.ops, n)
        PROVE  \/ Fresh(next.seen[n], n)
               \/ /\ next.start # NoTransaction /\ IsFirst(next.ops, n)
                  /\ Covered(next.seen[n], next.start, next.open, n)
    <2>1. n \in AllNames /\ Pending(q.ops, n)
      BY <1>2, <1>4, PlainNames
    <2>2. QED
      BY <1>2, <1>4, <2>1 DEF RequestOK
  <1>5. QED
    BY <1>2, <1>3, <1>4 DEF RequestOK

LEMMA ReadGood ==
  ASSUME TablesOK, NEW q, RequestOK(q), NEW name, NEW parts, Head(q.ops).do = "read", Head(q.ops).name = name,
         NEW next, next = [q EXCEPT !.ops = Tail(@),
                                    !.seen[name] = [p \in Uses(name) |->
                                       IF p \in parts THEN Oldest(@[p], version[p]) ELSE @[p]]]
  PROVE  RequestOK(next)
  <1>1. DOMAIN q = Fields /\ DOMAIN q.seen = Results /\ ScriptOK(q.ops)
    BY DEF RequestOK
  <1> DEFINE read == [p \in Uses(name) |->
                        IF p \in parts THEN Oldest(q.seen[name][p], version[p]) ELSE q.seen[name][p]]
  <1>2. DOMAIN next = Fields /\ next.ops = Tail(q.ops) /\ next.start = q.start /\ next.open = q.open
        /\ next.seen = [q.seen EXCEPT ![name] = read]
    BY <1>1 DEF Fields
  <1> HIDE DEF read
  <1>3. DOMAIN next.seen = Results /\ \A n \in Plain : next.seen[n] = IF n = name THEN read ELSE q.seen[n]
    BY <1>1, <1>2 DEF Plain
  <1>4. q.start # NoTransaction /\ Len(q.ops) # 1 /\ Head(q.ops) = q.ops[1] /\ 1 \in DOMAIN q.ops
    BY <1>1, HeadNotLoad DEF RequestOK
  <1>5. /\ ScriptOK(next.ops)
        /\ \A n \in AllNames : Pending(next.ops, n) => Pending(q.ops, n)
        /\ \A n \in AllNames : Pending(next.ops, n) /\ IsFirst(q.ops, n) => IsFirst(next.ops, n)
    BY <1>1, <1>2, <1>4, TailOK
  <1>6. TransactionOK(q.start, q.open) /\ q.open \in SUBSET Changes
    BY DEF RequestOK, TransactionOK
  <1>7. ASSUME name \in Plain
        PROVE  read \in [Uses(name) -> Nat]
    <2>1. q.seen[name] \in [Uses(name) -> Nat] /\ Uses(name) \subseteq Parts
      BY <1>7, PlainNames, UsesParts DEF RequestOK
    <2>2. \A p \in Uses(name) : q.seen[name][p] \in Nat /\ version[p] \in Nat
      BY <2>1 DEF TablesOK
    <2>3. QED
      BY <2>2 DEF read, Oldest
  <1>8. ASSUME name \in Plain, Covered(q.seen[name], q.start, q.open, name)
        PROVE  Covered(read, q.start, q.open, name)
    <2> SUFFICES ASSUME NEW p \in Uses(name), TableOf(p) \in Watched(name), ~(logged[TableOf(p)] > q.start)
                 PROVE  read[p] + Cardinality(Since(q.open, p)) >= version[p]
      BY DEF Covered
    <2>1. q.seen[name][p] + Cardinality(Since(q.open, p)) >= version[p]
      BY <1>8 DEF Covered
    <2>2. Cardinality(Since(q.open, p)) \in Nat
      BY <1>6, SinceFinite
    <2>3. q.seen[name][p] \in Nat /\ version[p] \in Nat
      BY <1>8, PlainNames, UsesParts DEF RequestOK, TablesOK
    <2>4. read[p] \in {q.seen[name][p], version[p]}
      BY DEF read, Oldest
    <2>5. QED
      BY <2>1, <2>2, <2>3, <2>4
  <1>9. ASSUME NEW n \in Plain, Pending(next.ops, n)
        PROVE  \/ Fresh(next.seen[n], n)
               \/ /\ next.start # NoTransaction /\ IsFirst(next.ops, n)
                  /\ Covered(next.seen[n], next.start, next.open, n)
    <2>1. n \in AllNames /\ Pending(q.ops, n) /\ n # "champ"
      BY <1>5, <1>9, PlainNames DEF Plain
    <2>2. \/ Fresh(q.seen[n], n)
          \/ q.start # NoTransaction /\ IsFirst(q.ops, n) /\ Covered(q.seen[n], q.start, q.open, n)
      BY <2>1 DEF RequestOK
    <2>3. CASE n # name
      BY <1>2, <1>3, <1>5, <1>9, <2>1, <2>2, <2>3
    <2>4. CASE n = name
      <3>1. IsFirst(q.ops, n)
        <4>1. PICK j \in DOMAIN q.ops : /\ 1 < j /\ Stores(q.ops[j], n)
                                        /\ \A k \in 1 .. j - 1 : q.ops[k].do # "store"
          BY <1>1, <1>4, <2>1, <2>4 DEF ScriptOK, BodyOK
        <4>2. QED
          BY <4>1 DEF IsFirst
      <3>2. IsFirst(next.ops, n)
        BY <1>5, <1>9, <2>1, <3>1
      <3>3. Covered(q.seen[n], q.start, q.open, n)
        BY <1>6, <2>1, <2>2, FreshCovers
      <3>4. Covered(next.seen[n], next.start, next.open, n)
        BY <1>2, <1>3, <1>8, <2>4, <3>3
      <3>5. QED
        BY <1>2, <1>4, <3>2, <3>4
    <2>5. QED
      BY <2>3, <2>4
  <1>10. \A n \in Plain : next.seen[n] \in [Uses(n) -> Nat]
    BY ZenonT(60), <1>3, <1>7 DEF RequestOK
  <1>11. QED
    BY <1>2, <1>3, <1>4, <1>5, <1>6, <1>9, <1>10 DEF RequestOK

LEMMA StoreGood ==
  ASSUME TablesOK, NEW q, RequestOK(q), NEW name, Head(q.ops).do = "store", Head(q.ops).name = name,
         NEW next, next = [q EXCEPT !.ops = Tail(@), !.start = NoTransaction]
  PROVE  /\ RequestOK(next)
         /\ name \in Plain => /\ q.seen[name] \in [Uses(name) -> Nat]
                              /\ TransactionOK(q.start, q.open)
                              /\ Covered(q.seen[name], q.start, q.open, name)
  <1>1. DOMAIN q = Fields /\ DOMAIN q.seen = Results /\ ScriptOK(q.ops)
    BY DEF RequestOK
  <1>2. DOMAIN next = Fields /\ next.ops = Tail(q.ops) /\ next.start = NoTransaction /\ next.open = q.open
        /\ next.seen = q.seen
    BY <1>1 DEF Fields
  <1>3. /\ Len(q.ops) # 1 /\ Head(q.ops) = q.ops[1] /\ 1 \in DOMAIN q.ops
        /\ 2 \in DOMAIN q.ops /\ next.ops[1] = q.ops[2]
    BY <1>1, <1>2, HeadNotLoad
  <1>4. /\ ScriptOK(next.ops)
        /\ \A n \in AllNames : Pending(next.ops, n) => Pending(q.ops, n)
        /\ \A n \in AllNames : Pending(next.ops, n) /\ IsFirst(q.ops, n) => IsFirst(next.ops, n)
    BY <1>1, <1>2, <1>3, TailOK
  <1>5. next.ops[1].do = "load"
    BY SMTT(40), <1>1, <1>3 DEF ScriptOK, BodyOK
  <1>6. TransactionOK(q.start, q.open) /\ q.open \in SUBSET Changes
    BY DEF RequestOK, TransactionOK
  <1>7. TransactionOK(next.start, next.open)
    BY <1>2, <1>6 DEF TransactionOK, NoTransaction, TablesOK, Changes
  <1>8. ASSUME NEW n \in Plain, Pending(next.ops, n)
        PROVE  Fresh(next.seen[n], n)
    <2>1. n \in AllNames
      BY PlainNames
    <2>2. PICK i \in DOMAIN next.ops : Stores(next.ops[i], n)
      BY <1>8 DEF Pending
    <2>3. i + 1 \in DOMAIN q.ops /\ next.ops[i] = q.ops[i + 1] /\ i + 1 # 1
      BY <1>1, <1>2, <1>3 DEF ScriptOK, BodyOK
    <2>4. n # name
      BY <1>1, <1>3, <2>1, <2>2, <2>3 DEF ScriptOK, BodyOK, Stores
    <2>5. ~IsFirst(q.ops, n)
      <3> SUFFICES ASSUME NEW j \in DOMAIN q.ops, Stores(q.ops[j], n), \A k \in 1 .. j - 1 : q.ops[k].do # "store"
                   PROVE  FALSE
        BY DEF IsFirst
      <3>1. j # 1 /\ j \in Nat \ {0}
        BY <1>1, <1>3, <2>4 DEF Stores, ScriptOK, BodyOK
      <3>2. 1 \in 1 .. j - 1
        BY <3>1
      <3>3. QED
        BY <1>3, <3>2
    <2>6. Pending(q.ops, n)
      BY <1>4, <1>8, <2>1
    <2>7. QED
      BY <1>2, <2>5, <2>6 DEF RequestOK
  <1>9. RequestOK(next)
    BY <1>1, <1>2, <1>4, <1>5, <1>7, <1>8 DEF RequestOK
  <1>10. ASSUME name \in Plain
         PROVE  q.seen[name] \in [Uses(name) -> Nat] /\ Covered(q.seen[name], q.start, q.open, name)
    <2>1. Pending(q.ops, name) /\ name \in AllNames
      BY <1>3, <1>10, PlainNames DEF Pending, Stores
    <2>2. QED
      BY <1>6, <1>10, <2>1, FreshCovers DEF RequestOK
  <1>11. QED
    BY <1>6, <1>9, <1>10

LEMMA LoadGood ==
  ASSUME TablesOK, NEW q, RequestOK(q), Len(q.ops) # 1, NEW loaded,
         NEW next, next = [q EXCEPT !.ops = Tail(@),
                                    !.start = IF @ = NoTransaction THEN clock ELSE @,
                                    !.open = IF q.start = NoTransaction THEN writing ELSE @,
                                    !.seen["champ"] = loaded]
  PROVE  RequestOK(next)
  <1>1. DOMAIN q = Fields /\ DOMAIN q.seen = Results /\ ScriptOK(q.ops)
    BY DEF RequestOK
  <1>2. /\ DOMAIN next = Fields /\ next.ops = Tail(q.ops)
        /\ next.start = IF q.start = NoTransaction THEN clock ELSE q.start
        /\ next.open = IF q.start = NoTransaction THEN writing ELSE q.open
        /\ next.seen = [q.seen EXCEPT !["champ"] = loaded]
    BY <1>1 DEF Fields
  <1>3. DOMAIN next.seen = Results /\ \A n \in Plain : next.seen[n] = q.seen[n]
    BY <1>1, <1>2 DEF Plain
  <1>4. /\ ScriptOK(next.ops)
        /\ \A n \in AllNames : Pending(next.ops, n) => Pending(q.ops, n)
        /\ \A n \in AllNames : Pending(next.ops, n) /\ IsFirst(q.ops, n) => IsFirst(next.ops, n)
    BY <1>1, <1>2, TailOK
  <1>5. next.start # NoTransaction
    BY <1>2 DEF TablesOK, NoTransaction
  <1>6. TransactionOK(next.start, next.open)
    BY <1>2 DEF RequestOK, TransactionOK, TablesOK
  <1>7. ASSUME NEW n \in Plain, Pending(next.ops, n)
        PROVE  \/ Fresh(next.seen[n], n)
               \/ /\ next.start # NoTransaction /\ IsFirst(next.ops, n)
                  /\ Covered(next.seen[n], next.start, next.open, n)
    <2>1. n \in AllNames /\ Pending(q.ops, n)
      BY <1>4, <1>7, PlainNames
    <2>2. QED
      BY <1>2, <1>3, <1>4, <1>5, <1>7, <2>1 DEF RequestOK
  <1>8. QED
    BY <1>2, <1>3, <1>4, <1>5, <1>6, <1>7 DEF RequestOK

-----------------------------------------------------------------------------
(* The invariant. *)

LEMMA RequestKept ==
  ASSUME NEW q, RequestOK(q), TransactionOK(q.start, q.open)',
         \A n \in Plain : Covered(q.seen[n], q.start, q.open, n) => Covered(q.seen[n], q.start, q.open, n)'
  PROVE  RequestOK(q)'
  BY DEF RequestOK

LEMMA UnchangedKept ==
  ASSUME UNCHANGED <<clock, version, logged, writing>>
  PROVE  /\ TablesOK => TablesOK'
         /\ \A q : RequestOK(q) => RequestOK(q)'
         /\ \A n \in Plain : \A row : RowOK(row, n) => RowOK(row, n)'
  <1>1. \A start, open : TransactionOK(start, open) => TransactionOK(start, open)'
    BY DEF TransactionOK, Changes
  <1>2. \A data, start, open : \A n \in Plain :
           Covered(data, start, open, n) => Covered(data, start, open, n)'
    BY DEF Covered, Since
  <1>3. TablesOK => TablesOK'
    BY DEF TablesOK, Changes, Begun
  <1>4. ASSUME NEW q, RequestOK(q)
        PROVE  RequestOK(q)'
    <2>1. TransactionOK(q.start, q.open)
      BY <1>4 DEF RequestOK
    <2>2. TransactionOK(q.start, q.open)'
      BY <1>1, <2>1
    <2>3. QED
      BY <1>2, <1>4, <2>2, RequestKept
  <1>5. ASSUME NEW n \in Plain, NEW row, RowOK(row, n)
        PROVE  RowOK(row, n)'
    BY <1>1, <1>2, <1>5 DEF RowOK
  <1>6. QED
    BY <1>3, <1>4, <1>5

LEMMA AllKept ==
  ASSUME IInv, UNCHANGED <<stored, request>>, TablesOK',
         \A q : RequestOK(q) => RequestOK(q)',
         \A n \in Plain : \A row : RowOK(row, n) => RowOK(row, n)'
  PROVE  IInv'
  <1>1. RowsOK'
    BY DEF IInv, RowsOK
  <1>2. RequestsOK'
    BY DEF IInv, RequestsOK
  <1>3. QED
    BY <1>1, <1>2 DEF IInv

LEMMA BeginWriteKeeps ==
  ASSUME IInv, NEW part \in Changing, BeginWrite(part)
  PROVE  IInv'
  <1>1. part \in Parts /\ TablesOK /\ UNCHANGED <<stored, request>>
    BY CacheAssumption DEF IInv, BeginWrite
  <1>2. TablesOK'
    BY <1>1, BegunByBegin
  <1>3. ASSUME NEW q, RequestOK(q)
        PROVE  RequestOK(q)'
    <2>1. TransactionOK(q.start, q.open) /\ \A n \in Plain : q.seen[n] \in [Uses(n) -> Nat]
      BY <1>3 DEF RequestOK
    <2>2. TransactionOK(q.start, q.open)'
      <3>1. [p \in Uses("info") |-> 0] \in [Uses("info") -> Nat] /\ "info" \in AllNames
        BY DEF AllNames
      <3>2. QED
        BY <1>1, <2>1, <3>1, SnapshotByBegin
    <2>3. \A n \in Plain : Covered(q.seen[n], q.start, q.open, n) => Covered(q.seen[n], q.start, q.open, n)'
      BY <1>1, <2>1, PlainNames, SnapshotByBegin
    <2>4. QED
      BY <1>3, <2>2, <2>3, RequestKept
  <1>4. ASSUME NEW n \in Plain, NEW row, RowOK(row, n)
        PROVE  RowOK(row, n)'
    <2>1. /\ row.data \in [Uses(n) -> Nat] /\ TransactionOK(row.modified, row.open)
          /\ Covered(row.data, row.modified, row.open, n) /\ n \in AllNames
      BY <1>4, PlainNames DEF RowOK
    <2>2. TransactionOK(row.modified, row.open)' /\ Covered(row.data, row.modified, row.open, n)'
      BY <1>1, <2>1, SnapshotByBegin
    <2>3. QED
      BY <2>1, <2>2 DEF RowOK
  <1>5. QED
    BY <1>1, <1>2, <1>3, <1>4, AllKept

LEMMA CommitWriteKeeps ==
  ASSUME IInv, CommitWrite
  PROVE  IInv'
  <1>1. TablesOK /\ UNCHANGED <<stored, request>>
    BY DEF IInv, CommitWrite
  <1>2. PICK change \in writing : Committed(change[1], change[2]) /\ writing' = writing \ {change} /\ clock' = clock
    BY DEF CommitWrite
  <1>3. TablesOK'
    BY <1>1, <1>2, BegunByCommit
  <1>4. ASSUME NEW q, RequestOK(q)
        PROVE  RequestOK(q)'
    <2>1. TransactionOK(q.start, q.open) /\ \A n \in Plain : q.seen[n] \in [Uses(n) -> Nat]
      BY <1>4 DEF RequestOK
    <2>2. TransactionOK(q.start, q.open)'
      <3>1. [p \in Uses("info") |-> 0] \in [Uses("info") -> Nat] /\ "info" \in AllNames
        BY DEF AllNames
      <3>2. QED
        BY <1>1, <1>2, <2>1, <3>1, SnapshotByCommit
    <2>3. \A n \in Plain : Covered(q.seen[n], q.start, q.open, n) => Covered(q.seen[n], q.start, q.open, n)'
      BY <1>1, <1>2, <2>1, PlainNames, SnapshotByCommit
    <2>4. QED
      BY <1>4, <2>2, <2>3, RequestKept
  <1>5. ASSUME NEW n \in Plain, NEW row, RowOK(row, n)
        PROVE  RowOK(row, n)'
    <2>1. /\ row.data \in [Uses(n) -> Nat] /\ TransactionOK(row.modified, row.open)
          /\ Covered(row.data, row.modified, row.open, n) /\ n \in AllNames
      BY <1>5, PlainNames DEF RowOK
    <2>2. TransactionOK(row.modified, row.open)' /\ Covered(row.data, row.modified, row.open, n)'
      BY <1>1, <1>2, <2>1, SnapshotByCommit
    <2>3. QED
      BY <2>1, <2>2 DEF RowOK
  <1>6. QED
    BY <1>1, <1>3, <1>4, <1>5, AllKept

LEMMA RequestSet ==
  ASSUME IInv, NEW r \in Requests, UNCHANGED <<clock, version, logged, writing>>,
         NEW entry, entry = <<>> \/ \E q : entry = <<q>> /\ RequestOK(q),
         request' = [request EXCEPT ![r] = entry]
  PROVE  DOMAIN request' = Requests /\ RequestsOK'
  <1>1. DOMAIN request' = Requests /\ \A s \in Requests : request'[s] = IF s = r THEN entry ELSE request[s]
    BY DEF IInv
  <1>2. ASSUME NEW s \in Requests, request'[s] # <<>>
        PROVE  \E q \in {request'[s][1]} : request'[s] = <<q>> /\ RequestOK(q)'
    <2>1. PICK q : request'[s] = <<q>> /\ RequestOK(q)
      BY <1>1, <1>2 DEF IInv, RequestsOK
    <2>2. RequestOK(q)'
      BY <2>1, UnchangedKept
    <2>3. QED
      BY <2>1, <2>2
  <1>3. QED
    BY <1>1, <1>2 DEF RequestsOK

LEMMA RowsStay ==
  ASSUME IInv, UNCHANGED <<clock, version, logged, writing, stored>>
  PROVE  TablesOK' /\ DOMAIN stored' = Results /\ RowsOK'
  BY UnchangedKept DEF IInv, RowsOK

LEMMA BeginKeeps ==
  ASSUME IInv, NEW r \in Requests, NEW name \in Names, Begin(r, name)
  PROVE  IInv'
  <1> DEFINE q == [name |-> name, ops |-> Script(name), start |-> clock, open |-> writing,
                   asked |-> [part \in Uses(name) |-> version[part]],
                   seen |-> [n \in Results |-> [part \in Uses(n) |-> Unread]]]
  <1>1. request' = [request EXCEPT ![r] = <<q>>] /\ UNCHANGED <<clock, version, logged, writing, stored>>
    BY DEF Begin
  <1>2. RequestOK(q)
    BY NewRequestOK DEF IInv
  <1> HIDE DEF q
  <1>3. DOMAIN request' = Requests /\ RequestsOK'
    BY <1>1, <1>2, RequestSet
  <1>4. QED
    BY <1>1, <1>3, RowsStay DEF IInv

LEMMA StepKeeps ==
  ASSUME IInv, NEW r \in Requests, Step(r)
  PROVE  IInv'
  <1>1. PICK q : request[r] = <<q>> /\ RequestOK(q)
    BY DEF IInv, RequestsOK, Step
  <1> DEFINE op == Head(q.ops)
  <1>2. /\ UNCHANGED <<clock, version, logged, writing>>
        /\ \/ op.do = "check" /\ Check(r, q, op.name)
           \/ op.do = "read" /\ Read(r, q, op.name, op.parts)
           \/ op.do = "store" /\ Store(r, q, op.name)
           \/ op.do = "load" /\ Load(r, q, op.name)
    BY <1>1 DEF Step
  <1>3. TablesOK /\ ScriptOK(q.ops)
    BY <1>1 DEF IInv, RequestOK
  <1>4. CASE op.do = "check" /\ Check(r, q, op.name)
    <2> DEFINE rest == IF NeedUpdate(op.name) THEN Tail(q.ops) ELSE AfterStore(q.ops, op.name)
               next == [q EXCEPT !.ops = rest]
    <2>1. stored' = stored /\ request' = [request EXCEPT ![r] = <<next>>]
      BY <1>4 DEF Check, Continue
    <2>2. Len(q.ops) # 1
      BY <1>3, <1>4, HeadNotLoad
    <2>3. /\ ScriptOK(rest)
          /\ \A n \in AllNames : Pending(rest, n) => Pending(q.ops, n)
          /\ \A n \in AllNames : Pending(rest, n) /\ IsFirst(q.ops, n) => IsFirst(rest, n)
      <3>1. CASE NeedUpdate(op.name)
        <4>1. rest = Tail(q.ops)
          BY <3>1
        <4>2. QED
          BY <1>3, <2>2, <4>1, TailOK
      <3>2. CASE ~NeedUpdate(op.name)
        <4>1. rest = AfterStore(q.ops, op.name)
          BY <3>2
        <4>2. QED
          BY <1>3, <1>4, <4>1, AfterStoreOK
      <3>3. QED
        BY <3>1, <3>2
    <2> HIDE DEF rest
    <2>4. RequestOK(next)
      BY <1>1, <1>4, <2>3, CheckGood
    <2> HIDE DEF next
    <2>5. DOMAIN request' = Requests /\ RequestsOK'
      BY <1>2, <2>1, <2>4, RequestSet
    <2>6. QED
      BY <1>2, <2>1, <2>5, RowsStay DEF IInv
  <1>5. CASE op.do = "read" /\ Read(r, q, op.name, op.parts)
    <2> DEFINE next == [q EXCEPT !.ops = Tail(@),
                                 !.seen[op.name] = [p \in Uses(op.name) |->
                                    IF p \in op.parts THEN Oldest(@[p], version[p]) ELSE @[p]]]
    <2>1. stored' = stored /\ request' = [request EXCEPT ![r] = <<next>>]
      BY <1>5 DEF Read, Continue
    <2>2. RequestOK(next)
      BY ZenonT(60), <1>1, <1>3, <1>5, ReadGood
    <2> HIDE DEF next
    <2>3. DOMAIN request' = Requests /\ RequestsOK'
      BY <1>2, <2>1, <2>2, RequestSet
    <2>4. QED
      BY <1>2, <2>1, <2>3, RowsStay DEF IInv
  <1>6. CASE op.do = "store" /\ Store(r, q, op.name)
    <2> DEFINE name == op.name
               next == [q EXCEPT !.ops = Tail(@), !.start = NoTransaction]
               row == [data |-> q.seen[name], modified |-> q.start, open |-> q.open]
    <2>1. stored' = [stored EXCEPT ![name] = <<row>>] /\ request' = [request EXCEPT ![r] = <<next>>]
      BY <1>6 DEF Store, Continue
    <2>2. /\ RequestOK(next)
          /\ name \in Plain => /\ q.seen[name] \in [Uses(name) -> Nat]
                               /\ TransactionOK(q.start, q.open)
                               /\ Covered(q.seen[name], q.start, q.open, name)
      BY <1>1, <1>3, <1>6, StoreGood
    <2>3. row.data = q.seen[name] /\ row.modified = q.start /\ row.open = q.open
      OBVIOUS
    <2> HIDE DEF next, row, name, op
    <2>4. name \in Plain => RowOK(row, name)
      BY <2>2, <2>3 DEF RowOK
    <2>5. DOMAIN stored' = Results /\ \A n \in Results : stored'[n] = IF n = name THEN <<row>> ELSE stored[n]
      BY <2>1 DEF IInv
    <2>6. ASSUME NEW n \in Plain, stored'[n] # <<>>
          PROVE  \E new \in {stored'[n][1]} : stored'[n] = <<new>> /\ RowOK(new, n)'
      <3>1. PICK new : stored'[n] = <<new>> /\ RowOK(new, n)
        BY <2>4, <2>5, <2>6 DEF IInv, RowsOK, Plain
      <3>2. RowOK(new, n)'
        BY <1>2, <3>1, UnchangedKept
      <3>3. QED
        BY <3>1, <3>2
    <2>7. DOMAIN request' = Requests /\ RequestsOK'
      BY <1>2, <2>1, <2>2, RequestSet
    <2>8. TablesOK'
      BY <1>2, <1>3, UnchangedKept
    <2>9. RowsOK'
      BY <2>6 DEF RowsOK
    <2>10. QED
      BY <2>5, <2>7, <2>8, <2>9 DEF IInv
  <1>7. CASE op.do = "load" /\ Load(r, q, op.name)
    <2> DEFINE loaded == [p \in DOMAIN q.seen["champ"] |->
                            IF p \in Uses(op.name) THEN Oldest(q.seen["champ"][p], stored[op.name][1].data[p])
                            ELSE q.seen["champ"][p]]
               next == [q EXCEPT !.ops = Tail(@),
                                 !.start = IF @ = NoTransaction THEN clock ELSE @,
                                 !.open = IF q.start = NoTransaction THEN writing ELSE @,
                                 !.seen["champ"] = loaded]
               entry == IF Len(q.ops) = 1 THEN <<>> ELSE <<next>>
    <2>1. stored' = stored /\ request' = [request EXCEPT ![r] = entry]
      BY <1>7 DEF Load
    <2> HIDE DEF loaded
    <2>2. Len(q.ops) # 1 => RequestOK(next)
      BY <1>1, <1>3, LoadGood
    <2> HIDE DEF next
    <2>3. entry = <<>> \/ \E p : entry = <<p>> /\ RequestOK(p)
      BY <2>2
    <2> HIDE DEF entry
    <2>4. DOMAIN request' = Requests /\ RequestsOK'
      BY <1>2, <2>1, <2>3, RequestSet
    <2>5. QED
      BY <1>2, <2>1, <2>4, RowsStay DEF IInv
  <1>8. QED
    BY <1>2, <1>4, <1>5, <1>6, <1>7

LEMMA InitGood == Init => IInv
  <1> SUFFICES ASSUME Init PROVE IInv
    OBVIOUS
  <1>1. \A part : Begun(part) = {}
    BY DEF Init, Begun
  <1>2. TablesOK
    <2>1. Cardinality({}) = 0 /\ MaxWrites \in Nat
      BY FS_EmptySet, CacheAssumption
    <2>2. clock = 0 /\ version = [part \in Parts |-> 0] /\ logged = [table \in Logged |-> 0] /\ writing = {}
      BY DEF Init
    <2>3. clock \in 0 .. MaxWrites /\ version \in [Parts -> Nat] /\ logged \in [Logged -> 0 .. MaxWrites]
      BY <2>1, <2>2
    <2>4. \A part \in Parts : version[part] + Cardinality(Begun(part)) <= clock
      BY <1>1, <2>1, <2>2
    <2>5. QED
      BY <2>2, <2>3, <2>4 DEF TablesOK
  <1>3. DOMAIN stored = Results /\ RowsOK
    BY DEF Init, RowsOK, Plain
  <1>4. DOMAIN request = Requests /\ RequestsOK
    BY DEF Init, RequestsOK
  <1>5. QED
    BY <1>2, <1>3, <1>4 DEF IInv

LEMMA StepGood ==
  ASSUME IInv, [Next]_vars
  PROVE  IInv'
  <1>1. CASE UNCHANGED vars
    BY <1>1, UnchangedKept, AllKept DEF vars, IInv
  <1>2. ASSUME NEW part \in Changing, BeginWrite(part) PROVE IInv'
    BY <1>2, BeginWriteKeeps
  <1>3. CASE CommitWrite
    BY <1>3, CommitWriteKeeps
  <1>4. ASSUME NEW r \in Requests, Step(r) PROVE IInv'
    BY <1>4, StepKeeps
  <1>5. ASSUME NEW r \in Requests, NEW name \in Names, Begin(r, name) PROVE IInv'
    BY <1>5, BeginKeeps
  <1>6. QED
    BY <1>1, <1>2, <1>3, <1>4, <1>5 DEF Next

LEMMA Inductive == Spec => []IInv
  <1>1. IInv /\ [Next]_vars => IInv'
    BY StepGood
  <1>2. QED
    BY <1>1, InitGood, PTL DEF Spec

-----------------------------------------------------------------------------
LEMMA GoodNotices == IInv => StaleIsNoticed
  <1> SUFFICES ASSUME IInv, NEW n \in Plain, ~NeedUpdate(n)
               PROVE  Covers(n, version)
    BY DEF StaleIsNoticed, Plain
  <1> DEFINE times == {logged[table] : table \in Watched(n)}
  <1>1. stored[n] # <<>> /\ ~(Max(times) > stored[n][1].modified)
    BY DEF NeedUpdate
  <1>2. RowOK(stored[n][1], n) /\ TablesOK
    BY <1>1 DEF IInv, RowsOK
  <1>3. PICK row : row = stored[n][1] /\ RowOK(row, n)
    BY <1>2
  <1>4. row.modified \in Int /\ row.open \in SUBSET Changes
    BY <1>2, <1>3 DEF RowOK, TransactionOK, TablesOK, NoTransaction
  <1>5. /\ times \in SUBSET (0 .. MaxWrites) /\ times # {} /\ MaxWrites \in Nat
        /\ Watched(n) \subseteq Logged
    BY <1>2, PlainNames, WatchedLogged, CacheAssumption DEF TablesOK
  <1>6. \A table \in Watched(n) : logged[table] \in times
    OBVIOUS
  <1> HIDE DEF times
  <1>7. Max(times) \in times /\ \A time \in times : time <= Max(times)
    BY <1>5, MaxOf
  <1>8. ASSUME NEW part \in Uses(n), TableOf(part) \in Watched(n)
        PROVE  row.data[part] + Cardinality({c \in row.open : c[1] = part}) >= version[part]
    <2> DEFINE all == {c \in row.open : c[1] = part}
    <2>1. ~(logged[TableOf(part)] > row.modified)
      <3> DEFINE time == logged[TableOf(part)]
                 newest == Max(times)
      <3>1. time \in times /\ newest \in times /\ ~(newest > row.modified)
        BY <1>1, <1>3, <1>6, <1>7, <1>8
      <3>2. time <= newest
        BY <1>7, <3>1
      <3>3. time \in 0 .. MaxWrites /\ newest \in 0 .. MaxWrites
        <4> HIDE DEF time, newest
        <4>1. QED
          BY <1>5, <3>1
      <3> HIDE DEF time, newest
      <3>4. ~(time > row.modified)
        BY <1>4, <1>5, <3>1, <3>2, <3>3
      <3>5. QED
        BY <3>4 DEF time
    <2>2. row.data[part] + Cardinality(Since(row.open, part)) >= version[part]
      BY <1>3, <1>8, <2>1 DEF RowOK, Covered
    <2>3. clock \in Nat /\ \A c \in all : c \in {part} \X (1 .. clock)
      BY <1>2, <1>4 DEF TablesOK, Changes
    <2>4. Since(row.open, part) \subseteq all
      BY DEF Since
    <2> HIDE DEF all
    <2>5. IsFiniteSet(all) /\ Cardinality(all) \in Nat
      BY <2>3, OfPartFinite
    <2>6. Cardinality(Since(row.open, part)) <= Cardinality(all) /\ Cardinality(Since(row.open, part)) \in Nat
      BY <1>2, <1>4, <2>4, <2>5, FS_Subset, SinceFinite
    <2>7. part \in Parts /\ row.data[part] \in Nat /\ version[part] \in Nat
      BY <1>2, <1>3, PlainNames, UsesParts DEF RowOK, TablesOK
    <2>8. QED
      BY <2>2, <2>5, <2>6, <2>7 DEF all
  <1>9. QED
    BY <1>1, <1>3, <1>8 DEF Covers

\* A stored result of an event, a challenge or the series that lacks a change of
\* a table it watches is computed again when it is next asked for (_needUpdate),
\* whatever else is asked for and changed meanwhile.
THEOREM StaleIsSeen == Spec => []StaleIsNoticed
  <1>1. QED
    BY GoodNotices, Inductive, PTL

-----------------------------------------------------------------------------
(* What a page shows, as long as one is asked for at a time: what the       *)
(* request has read, or what it found stored when it checked, contains what *)
(* was committed when it began.                                             *)

OnlyOf(ops, n) == \A i \in DOMAIN ops : ops[i].name = n

PageOK(q) ==
    /\ q.name \in Names
    /\ q.name \in Plain =>
          /\ OnlyOf(q.ops, q.name)
          /\ \A part \in Uses(q.name) :
                /\ q.asked[part] \in Nat /\ q.asked[part] <= version[part]
                /\ q.asked[part] <= q.seen[q.name][part]
          /\ Pending(q.ops, q.name) \/ Covers(q.name, q.asked)

PagesOK == \A r \in Requests : request[r] # <<>> => PageOK(request[r][1])

PInv == IInv /\ PagesOK

OneAtATime == \A r, s \in Requests : r = s

\* What a page of an ordinary result has to do is all about that result.
LEMMA ScriptOnly ==
  ASSUME NEW n \in Plain
  PROVE  OnlyOf(Script(n), n) /\ Pending(Script(n), n)
  <1>0. <<>> \in Seq(Ops) /\ Len(<<>>) = 0
    OBVIOUS
  <1>1. PICK body \in Seq(Ops) : body = <<>> /\ Len(body) = 0
    BY <1>0
  <1> DEFINE ops == Getting(n, body)
             lr == Len(Reading(n))
             lb == Len(body)
  <1>2. n \in AllNames /\ Script(n) = ops
    BY <1>1, PlainNames DEF Script, Plain
  <1>a. /\ ops \in Seq(Ops) /\ lr \in Nat /\ Len(ops) = lr + lb + 3
        /\ ops[1] = Op("check", n, {})
        /\ \A i \in 2 .. lr + 1 : ops[i].do = "read" /\ ops[i].name = n
        /\ ops[lr + lb + 2] = Op("store", n, {})
        /\ ops[lr + lb + 3] = Op("load", n, {})
    BY <1>2, GettingItems
  <1>3. /\ ops \in Seq(Ops) /\ lr \in Nat /\ Len(ops) = lr + 0 + 3
        /\ ops[1] = Op("check", n, {})
        /\ \A i \in 2 .. lr + 1 : ops[i].do = "read" /\ ops[i].name = n
        /\ ops[lr + 0 + 2] = Op("store", n, {})
        /\ ops[lr + 0 + 3] = Op("load", n, {})
    BY <1>1, <1>a
  <1> HIDE DEF ops, lr
  <1>4. DOMAIN ops = 1 .. lr + 3 /\ lr + 2 \in 1 .. lr + 3 /\ lr + 0 + 2 = lr + 2 /\ lr + 0 + 3 = lr + 3
    BY <1>3
  <1>5. \A i \in DOMAIN ops : i = 1 \/ i \in 2 .. lr + 1 \/ i = lr + 2 \/ i = lr + 3
    BY <1>3, <1>4
  <1>6. /\ ops[1].name = n /\ ops[lr + 2].name = n /\ ops[lr + 3].name = n
        /\ Stores(ops[lr + 2], n)
    BY <1>3, <1>4 DEF Op, Stores
  <1>7. OnlyOf(ops, n)
    BY <1>3, <1>5, <1>6 DEF OnlyOf
  <1>8. Pending(ops, n)
    BY <1>4, <1>6 DEF Pending
  <1>9. QED
    BY <1>2, <1>7, <1>8

\* What is left when the first operation is done.
LEMMA TailOnly ==
  ASSUME NEW ops, ScriptOK(ops), NEW n, OnlyOf(ops, n), Len(ops) # 1
  PROVE  /\ OnlyOf(Tail(ops), n)
         /\ Pending(ops, n) /\ ops[1].do # "store" => Pending(Tail(ops), n)
  <1>1. ops \in Seq(Ops) /\ ops # <<>> /\ Len(ops) \in Nat /\ DOMAIN ops = 1 .. Len(ops)
    BY DEF ScriptOK, BodyOK
  <1>2. /\ DOMAIN Tail(ops) = 1 .. Len(ops) - 1
        /\ \A i \in 1 .. Len(ops) - 1 : Tail(ops)[i] = ops[i + 1]
    BY <1>1
  <1>3. \A i \in 1 .. Len(ops) - 1 : i + 1 \in DOMAIN ops
    BY <1>1
  <1>4. OnlyOf(Tail(ops), n)
    BY <1>2, <1>3 DEF OnlyOf
  <1>5. ASSUME NEW j \in DOMAIN ops, Stores(ops[j], n), ops[1].do # "store"
        PROVE  Pending(Tail(ops), n)
    <2>1. j # 1 /\ j \in 1 .. Len(ops)
      BY <1>1, <1>5 DEF Stores
    <2>2. j - 1 \in 1 .. Len(ops) - 1 /\ (j - 1) + 1 = j
      BY <1>1, <2>1
    <2>3. Tail(ops)[j - 1] = ops[j]
      BY <1>2, <2>2
    <2>4. QED
      BY <1>2, <1>5, <2>2, <2>3 DEF Pending
  <1>6. QED
    BY <1>4, <1>5 DEF Pending

LEMMA AfterStoreOnly ==
  ASSUME NEW ops, ScriptOK(ops), NEW n, OnlyOf(ops, n), Head(ops).do = "check"
  PROVE  OnlyOf(AfterStore(ops, Head(ops).name), n)
  <1> DEFINE S == {i \in DOMAIN ops : ops[i].do = "store" /\ ops[i].name = Head(ops).name}
             k == Min(S)
  <1>1. Head(ops) = ops[1] /\ 1 \in DOMAIN ops /\ ops \in Seq(Ops) /\ DOMAIN ops = 1 .. Len(ops) /\ Len(ops) \in Nat
    BY HeadNotLoad DEF ScriptOK, BodyOK
  <1>2. S # {} /\ S \in SUBSET Nat
    BY <1>1 DEF ScriptOK, BodyOK, Stores
  <1>3. k \in S
    BY <1>2, MinOf
  <1>4. AfterStore(ops, Head(ops).name) = SubSeq(ops, k + 1, Len(ops))
    BY DEF AfterStore
  <1> HIDE DEF S
  <1>5. k \in 1 .. Len(ops)
    BY <1>1, <1>3 DEF S
  <1> HIDE DEF k
  <1> DEFINE rest == SubSeq(ops, k + 1, Len(ops))
  <1>6. DOMAIN rest = 1 .. Len(ops) - k /\ \A i \in 1 .. Len(ops) - k : rest[i] = ops[i + k]
    BY <1>1, <1>5
  <1> HIDE DEF rest
  <1>7. \A i \in 1 .. Len(ops) - k : i + k \in DOMAIN ops
    BY <1>1, <1>5
  <1>8. OnlyOf(rest, n)
    BY <1>6, <1>7 DEF OnlyOf
  <1>9. QED
    BY <1>4, <1>8 DEF rest

\* Changes that were open count for a row: how many they are is a number.
LEMMA OpenFinite ==
  ASSUME TablesOK, NEW open \in SUBSET Changes, NEW part
  PROVE  Cardinality({c \in open : c[1] = part}) \in Nat
  <1>1. \A c \in {d \in open : d[1] = part} : c \in {part} \X (1 .. clock)
    BY DEF Changes
  <1>2. clock \in Nat
    BY DEF TablesOK
  <1>3. QED
    BY <1>1, <1>2, OfPartFinite

\* A row that contains all there is contains what was there before.
LEMMA CoversLess ==
  ASSUME IInv, NEW n \in Plain, Covers(n, version), NEW asked,
         \A part \in Uses(n) : asked[part] \in Nat /\ asked[part] <= version[part]
  PROVE  Covers(n, asked)
  <1>1. PICK row : row = stored[n][1] /\ stored[n] = <<row>> /\ RowOK(row, n)
    BY DEF IInv, RowsOK, Covers
  <1>2. TablesOK /\ row.open \in SUBSET Changes
    BY <1>1 DEF IInv, RowOK, TransactionOK
  <1>3. ASSUME NEW part \in Uses(n), TableOf(part) \in Watched(n)
        PROVE  row.data[part] + Cardinality({c \in row.open : c[1] = part}) >= asked[part]
    <2>1. row.data[part] + Cardinality({c \in row.open : c[1] = part}) >= version[part]
      BY <1>1, <1>3 DEF Covers
    <2>2. part \in Parts /\ row.data[part] \in Nat
      BY <1>1, PlainNames, UsesParts DEF RowOK
    <2>3. version[part] \in Nat /\ asked[part] \in Nat /\ asked[part] <= version[part]
      BY <1>2, <2>2, VersionBound
    <2>4. Cardinality({c \in row.open : c[1] = part}) \in Nat
      BY <1>2, OpenFinite
    <2>5. QED
      BY <2>1, <2>2, <2>3, <2>4
  <1>4. QED
    BY <1>1, <1>3 DEF Covers

\* One step of the only request there is.
PageGoesOn(r, q) ==
    \/ \E next : request'[r] = <<next>> /\ PageOK(next)'
    \/ /\ request'[r] = <<>>
       /\ q.name # "champ" => Covers(q.name, q.asked)

LEMMA CoversStay ==
  ASSUME UNCHANGED stored, NEW n, NEW wanted, Covers(n, wanted)
  PROVE  Covers(n, wanted)'
  BY DEF Covers

LEMMA PageStep ==
  ASSUME IInv, NEW r \in Requests, Step(r), NEW q, request[r] = <<q>>, PageOK(q)
  PROVE  PageGoesOn(r, q)
  <1> DEFINE op == Head(q.ops)
             n == q.name
  <1>1. RequestOK(q) /\ TablesOK /\ r \in DOMAIN request
    BY DEF IInv, RequestsOK
  <1>2. /\ UNCHANGED <<clock, version, logged, writing>>
        /\ \/ op.do = "check" /\ Check(r, q, op.name)
           \/ op.do = "read" /\ Read(r, q, op.name, op.parts)
           \/ op.do = "store" /\ Store(r, q, op.name)
           \/ op.do = "load" /\ Load(r, q, op.name)
    BY DEF Step
  <1>3. /\ ScriptOK(q.ops) /\ DOMAIN q = Fields /\ DOMAIN q.seen = Results
        /\ op = q.ops[1] /\ 1 \in DOMAIN q.ops
    BY <1>1 DEF RequestOK, ScriptOK, BodyOK
  <1>4. n \in Names /\ (n # "champ" <=> n \in Plain)
    BY PlainNames DEF PageOK, Plain, Results
  <1>5. n \in Plain =>
          /\ OnlyOf(q.ops, n) /\ op.name = n
          /\ \A part \in Uses(n) :
                /\ q.asked[part] \in Nat /\ q.asked[part] <= version[part]
                /\ q.asked[part] <= q.seen[n][part]
          /\ Pending(q.ops, n) \/ Covers(n, q.asked)
    BY <1>3 DEF PageOK, OnlyOf
  <1>6. CASE op.do = "check" /\ Check(r, q, op.name)
    <2> DEFINE rest == IF NeedUpdate(op.name) THEN Tail(q.ops) ELSE AfterStore(q.ops, op.name)
               after == [q EXCEPT !.ops = rest]
    <2>0. PICK next : next = after
      OBVIOUS
    <2>1. stored' = stored /\ request'[r] = <<next>>
      BY <1>1, <1>6, <2>0 DEF Check, Continue
    <2>2. Len(q.ops) # 1
      BY <1>3, <1>6, HeadNotLoad
    <2>3. ASSUME n \in Plain
          PROVE  OnlyOf(rest, n) /\ (Pending(rest, n) \/ Covers(n, q.asked))
      <3>1. CASE NeedUpdate(n)
        <4>1. rest = Tail(q.ops)
          BY <1>5, <2>3, <3>1
        <4>2. q.ops[1].do # "store"
          BY <1>3, <1>6
        <4>3. QED
          BY <1>3, <1>5, <2>2, <2>3, <4>1, <4>2, TailOnly
      <3>2. CASE ~NeedUpdate(n)
        <4>1. rest = AfterStore(q.ops, op.name)
          BY <1>5, <2>3, <3>2
        <4>2. OnlyOf(rest, n)
          BY <1>3, <1>5, <1>6, <2>3, <4>1, AfterStoreOnly
        <4>3. Covers(n, version)
          BY <2>3, <3>2, GoodNotices DEF StaleIsNoticed, Plain
        <4>4. Covers(n, q.asked)
          BY <1>5, <2>3, <4>3, CoversLess
        <4>5. QED
          BY <4>2, <4>4
      <3>3. QED
        BY <3>1, <3>2
    <2> HIDE DEF rest
    <2>4. /\ next.name = n /\ next.ops = rest /\ next.seen = q.seen /\ next.asked = q.asked
      BY <1>3, <2>0 DEF Fields
    <2> HIDE DEF after
    <2>5. Covers(n, q.asked) => Covers(n, next.asked)'
      BY <2>1, <2>4, CoversStay
    <2>6. PageOK(next)'
      BY <1>2, <1>4, <1>5, <2>3, <2>4, <2>5 DEF PageOK
    <2>7. QED
      BY <2>1, <2>6 DEF PageGoesOn
  <1>7. CASE op.do = "read" /\ Read(r, q, op.name, op.parts)
    <2> DEFINE read == [p \in Uses(op.name) |->
                          IF p \in op.parts THEN Oldest(q.seen[op.name][p], version[p]) ELSE q.seen[op.name][p]]
               after == [q EXCEPT !.ops = Tail(@), !.seen[op.name] = [p \in Uses(op.name) |->
                                    IF p \in op.parts THEN Oldest(@[p], version[p]) ELSE @[p]]]
    <2>0. PICK next : next = after
      OBVIOUS
    <2>1. stored' = stored /\ request'[r] = <<next>>
      BY <1>1, <1>7, <2>0 DEF Read, Continue
    <2>2. Len(q.ops) # 1 /\ q.ops[1].do # "store"
      BY <1>3, <1>7, HeadNotLoad
    <2>3. /\ next.name = n /\ next.ops = Tail(q.ops) /\ next.asked = q.asked
          /\ next.seen = [q.seen EXCEPT ![op.name] = read]
      BY <1>3, <2>0 DEF Fields
    <2> HIDE DEF after
    <2>4. ASSUME n \in Plain
          PROVE  \A part \in Uses(n) : q.asked[part] <= next.seen[n][part]
      <3>1. n \in Results /\ next.seen[n] = read
        BY <1>3, <1>5, <2>3, <2>4 DEF Plain
      <3>2. \A part \in Uses(n) : read[part] \in {q.seen[n][part], version[part]}
        BY <1>5, <2>4 DEF Oldest
      <3> HIDE DEF read, n
      <3>3. QED
        BY <1>5, <2>4, <3>1, <3>2
    <2> HIDE DEF read, op
    <2>5. n \in Plain => OnlyOf(next.ops, n) /\ (Pending(q.ops, n) => Pending(next.ops, n))
      BY <1>3, <1>5, <2>2, <2>3, TailOnly
    <2>6. Covers(n, q.asked) => Covers(n, next.asked)'
      BY <2>1, <2>3, CoversStay
    <2>7. PageOK(next)'
      BY <1>2, <1>4, <1>5, <2>3, <2>4, <2>5, <2>6 DEF PageOK
    <2>8. QED
      BY <2>1, <2>7 DEF PageGoesOn
  <1>8. CASE op.do = "store" /\ Store(r, q, op.name)
    <2> DEFINE row == [data |-> q.seen[op.name], modified |-> q.start, open |-> q.open]
               next == [q EXCEPT !.ops = Tail(@), !.start = NoTransaction]
    <2>1. stored' = [stored EXCEPT ![op.name] = <<row>>] /\ request'[r] = <<next>>
      BY <1>1, <1>8 DEF Store, Continue
    <2>2. Len(q.ops) # 1
      BY <1>3, <1>8, HeadNotLoad
    <2>3. /\ next.name = n /\ next.ops = Tail(q.ops) /\ next.seen = q.seen /\ next.asked = q.asked
      BY <1>3 DEF Fields
    <2>4. row.data = q.seen[op.name] /\ row.open = q.open
      OBVIOUS
    <2> HIDE DEF next, row, op, n
    <2>5. q.open \in SUBSET Changes
      BY <1>1 DEF RequestOK, TransactionOK
    <2>6. ASSUME n \in Plain
          PROVE  Covers(n, next.asked)'
      <3>1. stored'[n] = <<row>>
        BY <1>5, <2>1, <2>6 DEF IInv, Plain
      <3>2. ASSUME NEW part \in Uses(n)
            PROVE  row.data[part] + Cardinality({c \in row.open : c[1] = part}) >= next.asked[part]
        <4>1. row.data[part] = q.seen[n][part] /\ next.asked[part] = q.asked[part]
          BY <1>5, <2>3, <2>4, <2>6
        <4>2. q.seen[n][part] \in Nat /\ q.asked[part] \in Nat /\ q.asked[part] <= q.seen[n][part]
          BY <1>1, <1>5, <2>6, <3>2 DEF RequestOK
        <4>3. Cardinality({c \in row.open : c[1] = part}) \in Nat
          BY <1>1, <2>4, <2>5, OpenFinite
        <4>4. QED
          BY <4>1, <4>2, <4>3
      <3>3. QED
        BY <3>1, <3>2 DEF Covers
    <2>7. n \in Plain => OnlyOf(next.ops, n)
      BY <1>3, <1>5, <2>2, <2>3, TailOnly
    <2>8. PageOK(next)'
      BY <1>2, <1>4, <1>5, <2>3, <2>6, <2>7 DEF PageOK
    <2>9. QED
      BY <2>1, <2>8 DEF PageGoesOn
  <1>9. CASE op.do = "load" /\ Load(r, q, op.name)
    <2>1. CASE Len(q.ops) = 1
      <3>1. request'[r] = <<>>
        BY <1>1, <1>9, <2>1 DEF Load
      <3>2. ~Pending(q.ops, n)
        <4>1. DOMAIN q.ops = {1} /\ q.ops[1].do = "load"
          BY <1>3, <1>9, <2>1 DEF ScriptOK, BodyOK
        <4>2. QED
          BY <4>1 DEF Pending, Stores
      <3>3. QED
        BY <1>4, <1>5, <3>1, <3>2 DEF PageGoesOn
    <2>2. CASE Len(q.ops) # 1
      <3> DEFINE loaded == [p \in DOMAIN q.seen["champ"] |->
                              IF p \in Uses(op.name)
                              THEN Oldest(q.seen["champ"][p], stored[op.name][1].data[p])
                              ELSE q.seen["champ"][p]]
                 after == [q EXCEPT !.ops = Tail(@),
                                    !.start = IF @ = NoTransaction THEN clock ELSE @,
                                    !.open = IF q.start = NoTransaction THEN writing ELSE @,
                                    !.seen["champ"] = loaded]
      <3>0. PICK next : next = after
        OBVIOUS
      <3>1. stored' = stored /\ request'[r] = <<next>>
        BY <1>1, <1>9, <2>2, <3>0 DEF Load
      <3> HIDE DEF loaded
      <3>2. /\ next.name = n /\ next.ops = Tail(q.ops) /\ next.asked = q.asked
            /\ next.seen = [q.seen EXCEPT !["champ"] = loaded]
        BY <1>3, <3>0 DEF Fields
      <3>3. q.ops[1].do # "store"
        BY <1>3, <1>9
      <3> HIDE DEF after, op
      <3>4. n \in Plain => next.seen[n] = q.seen[n]
        BY <3>2 DEF Plain
      <3>5. n \in Plain => OnlyOf(next.ops, n) /\ (Pending(q.ops, n) => Pending(next.ops, n))
        BY <1>3, <1>5, <2>2, <3>2, <3>3, TailOnly
      <3>6. Covers(n, q.asked) => Covers(n, next.asked)'
        BY <3>1, <3>2, CoversStay
      <3>7. PageOK(next)'
        BY <1>2, <1>4, <1>5, <3>2, <3>4, <3>5, <3>6 DEF PageOK
      <3>8. QED
        BY <3>1, <3>7 DEF PageGoesOn
    <2>3. QED
      BY <2>1, <2>2
  <1>10. QED
    BY <1>2, <1>6, <1>7, <1>8, <1>9

\* Committed changes are never taken back.
LEMMA VersionGrows ==
  ASSUME IInv, CommitWrite \/ \E part \in Changing : BeginWrite(part)
  PROVE  /\ UNCHANGED <<stored, request>>
         /\ \A part \in Parts : version[part] \in Nat /\ version'[part] \in Nat /\ version[part] <= version'[part]
  <1>1. version \in [Parts -> Nat]
    BY DEF IInv, TablesOK
  <1>2. CASE UNCHANGED <<version, stored, request>>
    BY <1>1, <1>2
  <1>3. CASE CommitWrite
    <2>1. UNCHANGED <<stored, request>> /\ \E change \in writing :
             version' = [version EXCEPT ![change[1]] = version[change[1]] + 1]
      BY <1>3 DEF CommitWrite, Committed
    <2>2. QED
      BY <1>1, <2>1
  <1>4. QED
    BY <1>2, <1>3 DEF BeginWrite

LEMMA PageWaits ==
  ASSUME NEW q, PageOK(q), UNCHANGED stored,
         \A part \in Parts : version[part] \in Nat /\ version'[part] \in Nat /\ version[part] <= version'[part]
  PROVE  PageOK(q)'
  <1>1. q.name \in Plain => \A part \in Uses(q.name) : part \in Parts
    BY PlainNames, UsesParts
  <1>2. \A part \in Parts : \A a \in Nat : a <= version[part] => a <= version'[part]
    OBVIOUS
  <1>3. Covers(q.name, q.asked) => Covers(q.name, q.asked)'
    BY CoversStay
  <1>4. QED
    BY <1>1, <1>2, <1>3 DEF PageOK

LEMMA PageBegins ==
  ASSUME IInv, NEW r \in Requests, NEW name \in Names, Begin(r, name)
  PROVE  \E q : request'[r] = <<q>> /\ PageOK(q)' /\ UNCHANGED stored
  <1> DEFINE asked == [part \in Uses(name) |-> version[part]]
             unread == [n \in Results |-> [part \in Uses(n) |-> Unread]]
             first == [name |-> name, ops |-> Script(name), start |-> clock, open |-> writing,
                       asked |-> asked, seen |-> unread]
  <1>1. r \in DOMAIN request /\ TablesOK
    BY DEF IInv
  <1>2. request'[r] = <<first>> /\ UNCHANGED <<stored, version>>
    BY <1>1 DEF Begin
  <1>3. PICK q : q = first
    OBVIOUS
  <1>4. q.name = name /\ q.ops = Script(name) /\ q.asked = asked /\ q.seen = unread
    BY <1>3
  <1> HIDE DEF first
  <1>5. ASSUME name \in Plain, NEW part \in Uses(name)
        PROVE  /\ q.asked[part] \in Nat /\ q.asked[part] <= version[part]
               /\ q.asked[part] <= q.seen[name][part]
    <2>1. name \in Results /\ part \in Parts
      BY <1>5, PlainNames, UsesParts DEF Plain
    <2>2. version[part] \in Nat /\ version[part] <= MaxWrites /\ MaxWrites \in Nat
      BY <1>1, <2>1, VersionBound
    <2>3. q.asked[part] = version[part] /\ q.seen[name][part] = MaxWrites + 1
      BY <1>4, <1>5, <2>1 DEF Unread
    <2>4. QED
      BY <2>2, <2>3
  <1>6. name \in Plain => OnlyOf(q.ops, name) /\ Pending(q.ops, name)
    BY <1>4, ScriptOnly
  <1> HIDE DEF asked, unread
  <1>7. PageOK(q)
    BY <1>4, <1>5, <1>6 DEF PageOK
  <1>8. PageOK(q)'
    BY <1>2, <1>7, CoversStay DEF PageOK
  <1>9. QED
    BY <1>2, <1>3, <1>8

LEMMA PagesKept ==
  ASSUME OneAtATime, PInv, [Next]_vars
  PROVE  PInv'
  <1>1. IInv /\ IInv' /\ PagesOK
    BY StepGood DEF PInv
  <1>2. ASSUME UNCHANGED <<stored, request>>,
               \A part \in Parts : version[part] \in Nat /\ version'[part] \in Nat /\ version[part] <= version'[part]
        PROVE  PagesOK'
    <2>1. ASSUME NEW r \in Requests, request'[r] # <<>>
          PROVE  PageOK(request[r][1])'
      <3>1. PICK q : q = request[r][1] /\ PageOK(q)
        BY <1>1, <1>2, <2>1 DEF PagesOK
      <3>2. PageOK(q)'
        BY <1>2, <3>1, PageWaits
      <3>3. q = request'[r][1]
        BY <1>2, <3>1
      <3>4. QED
        BY <3>2, <3>3
    <2>2. QED
      BY <2>1 DEF PagesOK
  <1>3. ASSUME NEW r \in Requests, Step(r) \/ \E name \in Names : Begin(r, name)
        PROVE  PagesOK'
    <2>1. request'[r] = <<>> \/ \E q : request'[r] = <<q>> /\ PageOK(q)'
      <3>1. CASE Step(r)
        <4>1. PICK q : request[r] = <<q>>
          BY <1>1, <3>1 DEF IInv, RequestsOK, Step
        <4>2. PageOK(q)
          BY <1>1, <4>1 DEF PagesOK
        <4>3. QED
          BY <1>1, <3>1, <4>1, <4>2, PageStep DEF PageGoesOn
      <3>2. CASE \E name \in Names : Begin(r, name)
        BY <1>1, <3>2, PageBegins
      <3>3. QED
        BY <1>3, <3>1, <3>2
    <2>2. \A s \in Requests : s = r
      BY DEF OneAtATime
    <2>3. CASE request'[r] = <<>>
      BY <2>2, <2>3 DEF PagesOK
    <2>4. ASSUME NEW q, request'[r] = <<q>>, PageOK(q)'
          PROVE  PagesOK'
      <3>1. q = request'[r][1]
        BY <2>4
      <3>2. PageOK(request[r][1])'
        BY <2>4, <3>1
      <3>3. QED
        BY <2>2, <3>2 DEF PagesOK
    <2>5. QED
      BY <2>1, <2>3, <2>4
  <1>4. PagesOK'
    <2>1. CASE UNCHANGED vars
      BY <1>1, <1>2, <2>1 DEF vars, IInv, TablesOK
    <2>2. CASE CommitWrite \/ \E part \in Changing : BeginWrite(part)
      BY <1>1, <1>2, <2>2, VersionGrows
    <2>3. QED
      BY <1>3, <2>1, <2>2 DEF Next
  <1>5. QED
    BY <1>1, <1>4 DEF PInv

\* A request that ends has shown its page.
LEMMA PageShown ==
  ASSUME PInv, [Next]_vars, NEW r \in Requests, request[r] # <<>>, request'[r] = <<>>,
         request[r][1].name # "champ"
  PROVE  Covers(request[r][1].name, request[r][1].asked)
  <1>1. IInv /\ PagesOK
    BY DEF PInv
  <1>2. PICK q : q = request[r][1] /\ request[r] = <<q>> /\ PageOK(q)
    BY <1>1 DEF IInv, RequestsOK, PagesOK
  <1>3. CASE Step(r)
    <2>1. PageGoesOn(r, q)
      BY <1>1, <1>2, <1>3, PageStep
    <2>2. \A next : request'[r] # <<next>>
      OBVIOUS
    <2>3. QED
      BY <1>2, <2>1, <2>2 DEF PageGoesOn
  <1>4. ASSUME NEW s \in Requests, s # r, Step(s)
        PROVE  request'[r] = request[r]
    <2>1. \E entry : request' = [request EXCEPT ![s] = entry]
      BY <1>4 DEF Step, Check, Read, Store, Load, Continue
    <2>2. QED
      BY <1>4, <2>1
  <1>5. ASSUME NEW s \in Requests, NEW name \in Names, Begin(s, name)
        PROVE  FALSE
    <2>1. s # r
      BY <1>5 DEF Begin
    <2>2. request'[r] = request[r]
      BY <1>5, <2>1 DEF Begin
    <2>3. QED
      BY <2>2
  <1>6. CASE CommitWrite \/ \E part \in Changing : BeginWrite(part)
    BY <1>1, <1>6, VersionGrows
  <1>7. CASE UNCHANGED vars
    BY <1>7 DEF vars
  <1>8. QED
    BY <1>3, <1>4, <1>5, <1>6, <1>7 DEF Next

\* A page shows every change of a watched table that was committed before the
\* page was asked for (get_event_results and its like), as long as pages are
\* asked for one after the other: another request could store, in between, a
\* row that it read before the change.
THEOREM PagesCurrent ==
  ASSUME OneAtATime
  PROVE  Spec => PageIsCurrent
  <1>1. Init => PInv
    BY InitGood DEF PInv, PagesOK, Init
  <1>2. PInv /\ [Next]_vars => PInv'
    BY PagesKept
  <1>3. PInv /\ [Next]_vars =>
          [\A r \in Requests : request[r] # <<>> /\ request'[r] = <<>> /\ request[r][1].name # "champ"
              => Covers(request[r][1].name, request[r][1].asked)]_vars
    BY PageShown
  <1>4. QED
    BY <1>1, <1>2, <1>3, PTL DEF Spec, PageIsCurrent

-----------------------------------------------------------------------------
(* What is in a row: a result is stored when each of its parts has been     *)
(* read, and loaded when it has been stored.                                *)

\* The operation brings a part into the result n.
Feeds(op, n, part) ==
    \/ op.do = "read" /\ op.name = n /\ part \in op.parts
    \/ n = "champ" /\ op.do = "load" /\ part \in Uses(op.name)
ToCome(ops, n, part) == \E i, j \in DOMAIN ops : i < j /\ Stores(ops[j], n) /\ Feeds(ops[i], n, part)

StoredBefore(ops, i) == \E j \in 1 .. i - 1 : Stores(ops[j], ops[i].name)

\* Between the check of a result and its row everything is about that result.
OneResult(ops, i, k) == \A x \in i .. k : ops[x].name = ops[i].name /\ ops[x].do # "load"

\* From the check of a result to its row everything is about it, or only its
\* page is left after that (the championship).
Nested(ops) ==
    /\ \A i \in DOMAIN ops : ops[i].name \in Results
    /\ \A i, k \in DOMAIN ops : i < k /\ ops[i].do = "check" /\ Stores(ops[k], ops[i].name) =>
          \/ OneResult(ops, i, k)
          \/ \A x \in k + 1 .. Len(ops) : ops[x].name = ops[i].name /\ ops[x].do = "load"

Whole(q) ==
    /\ Nested(q.ops)
    /\ \A n \in Results : q.seen[n] \in [Uses(n) -> 0 .. Unread]
    /\ \A n \in Results : Pending(q.ops, n) =>
          \A part \in Uses(n) : q.seen[n][part] <= MaxWrites \/ ToCome(q.ops, n, part)
    /\ \A i \in DOMAIN q.ops : q.ops[i].do = "load" =>
          stored[q.ops[i].name] # <<>> \/ StoredBefore(q.ops, i)

Full(row, n) == row.modified \in 0 .. MaxWrites /\ row.data \in [Uses(n) -> 0 .. MaxWrites]

RowsFull == \A n \in Results :
    stored[n] = <<>> \/ \E row \in {stored[n][1]} : stored[n] = <<row>> /\ Full(row, n)
RequestsWhole == \A r \in Requests : request[r] # <<>> => Whole(request[r][1])

TInv == IInv /\ RowsFull /\ RequestsWhole

\* A script of ordinary results.
Piece(ops) ==
    /\ ops \in Seq(Ops)
    /\ \A i, k \in DOMAIN ops : i < k /\ ops[i].do = "check" /\ Stores(ops[k], ops[i].name) =>
          OneResult(ops, i, k)
    /\ \A i \in DOMAIN ops : ops[i].do = "load" => StoredBefore(ops, i)
    /\ \A n \in AllNames : Pending(ops, n) => \A part \in Uses(n) : ToCome(ops, n, part)
    /\ \A i \in DOMAIN ops : \A part \in ops[i].parts :
          \E x \in DOMAIN ops : ops[x].do = "load" /\ part \in Uses(ops[x].name)

LEMMA UsesOf ==
  ASSUME NEW n, NEW part
  PROVE  part \in Uses(n) <=> \E i \in DOMAIN Script(n) : part \in Script(n)[i].parts
  BY DEF Uses, ToSet

LEMMA PieceOf ==
  ASSUME NEW n \in AllNames \ {"champ"}
  PROVE  Piece(Script(n)) /\ OnlyOf(Script(n), n)
  <1>0. <<>> \in Seq(Ops) /\ Len(<<>>) = 0
    OBVIOUS
  <1>1. PICK body \in Seq(Ops) : body = <<>> /\ Len(body) = 0
    BY <1>0
  <1> DEFINE ops == Getting(n, body)
             lr == Len(Reading(n))
             lb == Len(body)
  <1>2. Script(n) = ops
    BY <1>1 DEF Script
  <1>a. /\ ops \in Seq(Ops) /\ lr \in Nat /\ Len(ops) = lr + lb + 3
        /\ ops[1] = Op("check", n, {})
        /\ \A i \in 2 .. lr + 1 : ops[i].do = "read" /\ ops[i].name = n
        /\ ops[lr + lb + 2] = Op("store", n, {})
        /\ ops[lr + lb + 3] = Op("load", n, {})
    BY GettingItems
  <1>3. /\ ops \in Seq(Ops) /\ lr \in Nat /\ Len(ops) = lr + 0 + 3
        /\ ops[1] = Op("check", n, {})
        /\ \A i \in 2 .. lr + 1 : ops[i].do = "read" /\ ops[i].name = n
        /\ ops[lr + 0 + 2] = Op("store", n, {})
        /\ ops[lr + 0 + 3] = Op("load", n, {})
    BY <1>1, <1>a
  <1> HIDE DEF ops, lr
  <1>4. DOMAIN ops = 1 .. lr + 3 /\ lr + 0 + 2 = lr + 2 /\ lr + 0 + 3 = lr + 3
        /\ 1 \in DOMAIN ops /\ lr + 2 \in DOMAIN ops /\ lr + 3 \in DOMAIN ops
    BY <1>3
  <1>5. \A i \in DOMAIN ops : i = 1 \/ i \in 2 .. lr + 1 \/ i = lr + 2 \/ i = lr + 3
    BY <1>3, <1>4
  <1>6. /\ ops[1].name = n /\ ops[lr + 2].name = n /\ ops[lr + 3].name = n
        /\ ops[1].do = "check" /\ ops[lr + 2].do = "store" /\ ops[lr + 3].do = "load"
        /\ ops[1].parts = {} /\ ops[lr + 2].parts = {} /\ ops[lr + 3].parts = {}
    BY <1>3, <1>4 DEF Op
  <1>7. OnlyOf(ops, n)
    BY <1>3, <1>5, <1>6 DEF OnlyOf
  <1>8. \A i \in DOMAIN ops : /\ ops[i].do = "check" => i = 1
                              /\ ops[i].do = "store" => i = lr + 2
                              /\ ops[i].do = "load" => i = lr + 3
    BY <1>3, <1>5, <1>6
  <1>9. ASSUME NEW i \in DOMAIN ops, NEW k \in DOMAIN ops, ops[i].do = "check", Stores(ops[k], ops[i].name)
        PROVE  OneResult(ops, i, k)
    <2>1. i = 1 /\ k = lr + 2
      BY <1>8, <1>9 DEF Stores
    <2>2. \A x \in 1 .. lr + 2 : x \in DOMAIN ops /\ x # lr + 3
      BY <1>3, <1>4
    <2>3. QED
      BY <1>7, <1>8, <2>1, <2>2 DEF OneResult, OnlyOf
  <1>10. ASSUME NEW i \in DOMAIN ops, ops[i].do = "load" PROVE StoredBefore(ops, i)
    <2>1. i = lr + 3 /\ lr + 2 \in 1 .. i - 1
      BY <1>3, <1>8, <1>10
    <2>2. Stores(ops[lr + 2], ops[i].name)
      BY <1>6, <1>7 DEF Stores, OnlyOf
    <2>3. QED
      BY <2>1, <2>2 DEF StoredBefore
  <1>11. ASSUME NEW i \in DOMAIN ops, NEW part \in ops[i].parts
         PROVE  i \in 2 .. lr + 1 /\ part \in Uses(n)
    BY <1>2, <1>5, <1>6, <1>11, UsesOf
  <1>12. ASSUME NEW m \in AllNames, Pending(ops, m), NEW part \in Uses(m) PROVE ToCome(ops, m, part)
    <2>1. m = n
      BY <1>7, <1>12 DEF Pending, Stores, OnlyOf
    <2>2. PICK i \in DOMAIN ops : part \in ops[i].parts
      BY <1>2, <1>12, <2>1, UsesOf
    <2>3. i \in 2 .. lr + 1 /\ i < lr + 2
      BY <1>3, <1>11, <2>2
    <2>4. Feeds(ops[i], n, part) /\ Stores(ops[lr + 2], n)
      BY <1>3, <1>6, <2>2, <2>3 DEF Feeds, Stores
    <2>5. QED
      BY <1>4, <2>1, <2>3, <2>4 DEF ToCome
  <1>13. Piece(ops)
    BY <1>3, <1>4, <1>6, <1>9, <1>10, <1>11, <1>12 DEF Piece
  <1>14. QED
    BY <1>2, <1>7, <1>13

\* One page after the other.
LEMMA PieceConcat ==
  ASSUME NEW a, NEW b, Piece(a), Piece(b), NEW m, NEW n, m # n, OnlyOf(a, m), OnlyOf(b, n)
  PROVE  Piece(a \o b) /\ \A i \in DOMAIN (a \o b) : (a \o b)[i].name \in {m, n}
  <1> DEFINE ops == a \o b
             la == Len(a)
             lb == Len(b)
  <1>1. a \in Seq(Ops) /\ b \in Seq(Ops) /\ la \in Nat /\ lb \in Nat
        /\ DOMAIN a = 1 .. la /\ DOMAIN b = 1 .. lb
    BY DEF Piece
  <1>2. ops \in Seq(Ops) /\ Len(ops) = la + lb
        /\ \A i \in 1 .. la + lb : ops[i] = IF i <= la THEN a[i] ELSE b[i - la]
    BY <1>1, ConcatProperties
  <1> HIDE DEF ops, la, lb
  <1>3. DOMAIN ops = 1 .. la + lb
    BY <1>1, <1>2
  <1>4. \A i \in DOMAIN a : i \in DOMAIN ops /\ ops[i] = a[i]
    BY <1>1, <1>2, <1>3
  <1>5. \A i \in DOMAIN b : i + la \in DOMAIN ops /\ ops[i + la] = b[i]
    <2> SUFFICES ASSUME NEW i \in DOMAIN b PROVE i + la \in DOMAIN ops /\ ops[i + la] = b[i]
      OBVIOUS
    <2> DEFINE k == i + la
    <2>1. k \in 1 .. la + lb /\ ~(k <= la) /\ k - la = i
      BY <1>1
    <2> HIDE DEF k
    <2>2. k \in DOMAIN ops /\ ops[k] = b[k - la]
      BY <2>1, <1>2, <1>3
    <2>3. QED
      BY <2>1, <2>2 DEF k
  <1>6. \A i \in DOMAIN ops : \/ i \in DOMAIN a /\ ops[i] = a[i] /\ ops[i].name = m
                              \/ i > la /\ i - la \in DOMAIN b /\ ops[i] = b[i - la] /\ ops[i].name = n
    BY <1>1, <1>2, <1>3 DEF OnlyOf
  <1>7. ASSUME NEW i \in DOMAIN ops, NEW k \in DOMAIN ops, i < k, ops[i].do = "check",
               Stores(ops[k], ops[i].name)
        PROVE  OneResult(ops, i, k)
    <2>1. CASE i \in DOMAIN a /\ ops[i] = a[i] /\ ops[i].name = m
      <3>1. k \in DOMAIN a /\ ops[k] = a[k]
        BY <1>6, <1>7, <2>1 DEF Stores
      <3>2. OneResult(a, i, k)
        BY <1>7, <2>1, <3>1 DEF Piece
      <3>3. \A x \in i .. k : x \in DOMAIN a /\ ops[x] = a[x]
        BY <1>1, <1>4, <2>1, <3>1
      <3>4. QED
        BY <2>1, <3>2, <3>3 DEF OneResult
    <2>2. CASE i > la /\ i - la \in DOMAIN b /\ ops[i] = b[i - la] /\ ops[i].name = n
      <3>1. k > la /\ k - la \in DOMAIN b /\ ops[k] = b[k - la]
        BY <1>6, <1>7, <2>2 DEF Stores
      <3>2. i - la < k - la
        BY <1>1, <1>3, <1>7
      <3>3. OneResult(b, i - la, k - la)
        BY <1>7, <2>2, <3>1, <3>2 DEF Piece
      <3>4. \A x \in i .. k : x - la \in (i - la) .. (k - la) /\ x - la \in DOMAIN b /\ x - la + la = x
        BY <1>1, <1>3, <2>2, <3>1
      <3>5. \A x \in i .. k : ops[x] = b[x - la]
        BY <1>5, <3>4
      <3>6. QED
        BY <2>2, <3>3, <3>4, <3>5 DEF OneResult
    <2>3. QED
      BY <1>6, <2>1, <2>2
  <1>8. ASSUME NEW i \in DOMAIN ops, ops[i].do = "load" PROVE StoredBefore(ops, i)
    <2>1. CASE i \in DOMAIN a /\ ops[i] = a[i]
      <3>1. PICK j \in 1 .. i - 1 : Stores(a[j], a[i].name)
        BY <1>8, <2>1 DEF Piece, StoredBefore
      <3>2. j \in DOMAIN a
        BY <1>1, <2>1, <3>1
      <3>3. QED
        BY <1>4, <2>1, <3>1, <3>2 DEF StoredBefore
    <2>2. CASE i > la /\ i - la \in DOMAIN b /\ ops[i] = b[i - la]
      <3>1. PICK j \in 1 .. (i - la) - 1 : Stores(b[j], b[i - la].name)
        BY <1>8, <2>2 DEF Piece, StoredBefore
      <3>2. j \in DOMAIN b /\ j + la \in 1 .. i - 1
        BY <1>1, <1>3, <2>2, <3>1
      <3>3. QED
        BY <1>5, <2>2, <3>1, <3>2 DEF StoredBefore
    <2>3. QED
      BY <1>6, <2>1, <2>2
  <1>9. ASSUME NEW p \in AllNames, Pending(ops, p), NEW part \in Uses(p) PROVE ToCome(ops, p, part)
    <2>1. PICK j \in DOMAIN ops : Stores(ops[j], p)
      BY <1>9 DEF Pending
    <2>2. CASE j \in DOMAIN a /\ ops[j] = a[j]
      <3>1. ToCome(a, p, part)
        BY <1>9, <2>1, <2>2 DEF Piece, Pending
      <3>2. QED
        BY <1>4, <3>1 DEF ToCome
    <2>3. CASE j > la /\ j - la \in DOMAIN b /\ ops[j] = b[j - la]
      <3>1. ToCome(b, p, part)
        BY <1>9, <2>1, <2>3 DEF Piece, Pending
      <3>2. PICK x \in DOMAIN b, y \in DOMAIN b : x < y /\ Stores(b[y], p) /\ Feeds(b[x], p, part)
        BY <3>1 DEF ToCome
      <3>3. x + la < y + la
        BY <1>1, <3>2
      <3>4. QED
        BY <1>5, <3>2, <3>3 DEF ToCome
    <2>4. QED
      BY <1>6, <2>1, <2>2, <2>3
  <1>10. ASSUME NEW i \in DOMAIN ops, NEW part \in ops[i].parts
         PROVE  \E x \in DOMAIN ops : ops[x].do = "load" /\ part \in Uses(ops[x].name)
    <2>1. CASE i \in DOMAIN a /\ ops[i] = a[i]
      <3>1. PICK x \in DOMAIN a : a[x].do = "load" /\ part \in Uses(a[x].name)
        BY <1>10, <2>1 DEF Piece
      <3>2. QED
        BY <1>4, <3>1
    <2>2. CASE i > la /\ i - la \in DOMAIN b /\ ops[i] = b[i - la]
      <3>1. PICK x \in DOMAIN b : b[x].do = "load" /\ part \in Uses(b[x].name)
        BY <1>10, <2>2 DEF Piece
      <3>2. QED
        BY <1>5, <3>1
    <2>3. QED
      BY <1>6, <2>1, <2>2
  <1>11. QED
    BY <1>2, <1>6, <1>7, <1>8, <1>9, <1>10 DEF Piece, ops
\* What a script does for a request.
ScriptWhole(ops) ==
    /\ Nested(ops)
    /\ \A n \in AllNames : Pending(ops, n) => \A part \in Uses(n) : ToCome(ops, n, part)
    /\ \A i \in DOMAIN ops : ops[i].do = "load" => StoredBefore(ops, i)

LEMMA PageWhole ==
  ASSUME NEW n \in Plain
  PROVE  ScriptWhole(Script(n))
  <1>1. n \in AllNames \ {"champ"} /\ n \in Results
    BY PlainNames DEF Plain
  <1>2. Piece(Script(n)) /\ OnlyOf(Script(n), n)
    BY <1>1, PieceOf
  <1>3. Nested(Script(n))
    BY <1>1, <1>2 DEF Nested, Piece, OnlyOf
  <1>4. QED
    BY <1>2, <1>3 DEF ScriptWhole, Piece

LEMMA ChampWhole ==
  ASSUME "champ" \in Names
  PROVE  ScriptWhole(Script("champ"))
  <1> DEFINE one == Script("e1")
             two == Script("e2")
             body == one \o two
             ops == Getting("champ", body)
             lr == Len(Reading("champ"))
             lb == Len(body)
  <1>1. Script("champ") = ops
    BY DEF Script
  <1>2. Piece(body) /\ \A i \in DOMAIN body : body[i].name \in {"e1", "e2"}
    <2>1. Piece(one) /\ OnlyOf(one, "e1") /\ Piece(two) /\ OnlyOf(two, "e2")
      BY PieceOf DEF AllNames
    <2> HIDE DEF one, two
    <2>2. "e1" # "e2"
      OBVIOUS
    <2>3. QED
      BY <2>1, <2>2, PieceConcat
  <1> HIDE DEF body
  <1>3. body \in Seq(Ops) /\ DOMAIN body = 1 .. lb
    BY <1>2 DEF Piece
  <1>4. /\ ops \in Seq(Ops) /\ lr \in Nat /\ lb \in Nat /\ Len(ops) = lr + lb + 3
        /\ ops[1] = Op("check", "champ", {})
        /\ \A i \in 2 .. lr + 1 : ops[i].do = "read" /\ ops[i].name = "champ"
        /\ \A i \in 1 .. lb : ops[lr + 1 + i] = body[i]
        /\ ops[lr + lb + 2] = Op("store", "champ", {})
        /\ ops[lr + lb + 3] = Op("load", "champ", {})
    BY <1>3, GettingItems DEF AllNames
  <1> HIDE DEF ops, lr, lb
  <1>5. DOMAIN ops = 1 .. lr + lb + 3
    BY <1>4
  <1>6. /\ ops[1].do = "check" /\ ops[1].name = "champ" /\ ops[1].parts = {}
        /\ ops[lr + lb + 2].do = "store" /\ ops[lr + lb + 2].name = "champ" /\ ops[lr + lb + 2].parts = {}
        /\ ops[lr + lb + 3].do = "load" /\ ops[lr + lb + 3].name = "champ" /\ ops[lr + lb + 3].parts = {}
    BY <1>4 DEF Op
  <1>7. \A i \in DOMAIN body : lr + 1 + i \in DOMAIN ops /\ ops[lr + 1 + i] = body[i]
    <2> SUFFICES ASSUME NEW i \in DOMAIN body PROVE lr + 1 + i \in DOMAIN ops /\ ops[lr + 1 + i] = body[i]
      OBVIOUS
    <2>1. i \in 1 .. lb
      BY <1>3
    <2>2. ops[lr + 1 + i] = body[i]
      BY ONLY <1>4, <2>1
    <2>3. lr + 1 + i \in 1 .. lr + lb + 3
      BY ONLY <1>4, <2>1
    <2>4. QED
      BY <1>5, <2>2, <2>3
  <1>8. \A i \in DOMAIN ops :
           \/ i = 1 \/ i \in 2 .. lr + 1
           \/ \E x \in DOMAIN body : i = lr + 1 + x
           \/ i = lr + lb + 2 \/ i = lr + lb + 3
    <2> SUFFICES ASSUME NEW i \in DOMAIN ops, i \in lr + 2 .. lr + lb + 1
                 PROVE  \E x \in DOMAIN body : i = lr + 1 + x
      BY <1>4, <1>5
    <2>1. i - (lr + 1) \in DOMAIN body /\ i = lr + 1 + (i - (lr + 1))
      BY <1>3, <1>4
    <2>2. QED
      BY <2>1
  <1>9. \A i \in DOMAIN ops : ops[i].name \in {"champ", "e1", "e2"}
    BY <1>2, <1>4, <1>6, <1>7, <1>8
  <1>10. {"champ", "e1", "e2"} \subseteq Results
    BY DEF Results, Events
  \* Who stores the championship, and who an event.
  <1>11. \A k \in DOMAIN ops : Stores(ops[k], "champ") => k = lr + lb + 2
    BY <1>2, <1>4, <1>6, <1>7, <1>8 DEF Stores
  <1>12. \A k \in DOMAIN ops : \A n \in {"e1", "e2"} : Stores(ops[k], n) =>
            \E x \in DOMAIN body : k = lr + 1 + x /\ Stores(body[x], n)
    BY <1>4, <1>6, <1>7, <1>8 DEF Stores
  <1>13. ASSUME NEW i \in DOMAIN ops, NEW k \in DOMAIN ops, i < k, ops[i].do = "check",
                Stores(ops[k], ops[i].name)
         PROVE  \/ OneResult(ops, i, k)
                \/ \A x \in k + 1 .. Len(ops) : ops[x].name = ops[i].name /\ ops[x].do = "load"
    <2>1. i = 1 \/ \E x \in DOMAIN body : i = lr + 1 + x
      BY <1>4, <1>6, <1>8, <1>13
    <2>2. CASE i = 1
      <3>1. k = lr + lb + 2
        BY <1>6, <1>11, <1>13, <2>2
      <3>2. \A x \in k + 1 .. Len(ops) : x = lr + lb + 3
        BY <1>4, <3>1
      <3>3. QED
        BY <1>6, <2>2, <3>2
    <2>3. ASSUME NEW x \in DOMAIN body, i = lr + 1 + x PROVE OneResult(ops, i, k)
      <3>1. ops[i] = body[x] /\ body[x].name \in {"e1", "e2"}
        BY <1>2, <1>7, <2>3
      <3>2. PICK y \in DOMAIN body : k = lr + 1 + y /\ Stores(body[y], body[x].name)
        BY <1>12, <1>13, <3>1
      <3>3. x < y
        BY <1>3, <1>4, <1>13, <2>3, <3>2
      <3>4. OneResult(body, x, y)
        BY <1>2, <1>13, <3>1, <3>2, <3>3 DEF Piece
      <3>5. ASSUME NEW z \in i .. k
            PROVE  \E w \in x .. y : ops[z] = body[w]
        <4> DEFINE w == z - (lr + 1)
        <4>1. x \in Nat /\ y \in Nat /\ x \in 1 .. lb /\ y \in 1 .. lb
          BY <1>3, <1>4
        <4>2. w \in x .. y /\ lr + 1 + w = z
          BY ONLY <1>4, <2>3, <3>2, <4>1, z \in i .. k
        <4> HIDE DEF w
        <4>3. w \in DOMAIN body
          BY <1>3, <1>4, <4>1, <4>2
        <4>4. QED
          BY <1>7, <4>2, <4>3
      <3>6. QED
        BY <3>1, <3>4, <3>5 DEF OneResult
    <2>4. QED
      BY <2>1, <2>2, <2>3
  <1>14. Nested(ops)
    BY <1>9, <1>10, <1>13 DEF Nested
  <1>15. ASSUME NEW i \in DOMAIN ops, ops[i].do = "load" PROVE StoredBefore(ops, i)
    <2>1. i = lr + lb + 3 \/ \E x \in DOMAIN body : i = lr + 1 + x
      BY <1>4, <1>6, <1>8, <1>15
    <2>2. CASE i = lr + lb + 3
      <3>1. lr + lb + 2 \in 1 .. i - 1 /\ Stores(ops[lr + lb + 2], ops[i].name)
        BY <1>4, <1>6, <2>2 DEF Stores
      <3>2. QED
        BY <3>1 DEF StoredBefore
    <2>3. ASSUME NEW x \in DOMAIN body, i = lr + 1 + x PROVE StoredBefore(ops, i)
      <3>1. ops[i] = body[x]
        BY <1>7, <2>3
      <3>2. PICK j \in 1 .. x - 1 : Stores(body[j], body[x].name)
        BY <1>2, <1>15, <3>1 DEF Piece, StoredBefore
      <3>3. j \in DOMAIN body /\ lr + 1 + j \in 1 .. i - 1
        BY <1>3, <1>4, <2>3, <3>2
      <3>4. QED
        BY <1>7, <3>1, <3>2, <3>3 DEF StoredBefore
    <2>4. QED
      BY <2>1, <2>2, <2>3
  <1>16. ASSUME NEW n \in AllNames, Pending(ops, n), NEW part \in Uses(n) PROVE ToCome(ops, n, part)
    <2>1. n \in {"champ", "e1", "e2"}
      BY <1>9, <1>16 DEF Pending, Stores
    <2>2. CASE n # "champ"
      <3>1. PICK k \in DOMAIN ops : Stores(ops[k], n)
        BY <1>16 DEF Pending
      <3>2. Pending(body, n)
        BY <1>12, <2>1, <2>2, <3>1 DEF Pending
      <3>3. ToCome(body, n, part)
        BY <1>2, <1>16, <3>2 DEF Piece
      <3>4. PICK x \in DOMAIN body, y \in DOMAIN body : x < y /\ Stores(body[y], n) /\ Feeds(body[x], n, part)
        BY <3>3 DEF ToCome
      <3>5. lr + 1 + x < lr + 1 + y
        BY <1>3, <1>4, <3>4
      <3>6. QED
        BY <1>7, <3>4, <3>5 DEF ToCome
    <2>3. CASE n = "champ"
      <3>1. PICK i \in DOMAIN ops : part \in ops[i].parts
        BY <1>1, <1>16, <2>3, UsesOf
      <3>2. lr + lb + 2 \in DOMAIN ops /\ Stores(ops[lr + lb + 2], n)
        BY <1>4, <1>5, <1>6, <2>3 DEF Stores
      <3>3. i \in 2 .. lr + 1 \/ \E x \in DOMAIN body : i = lr + 1 + x
        BY <1>6, <1>8, <3>1
      <3>4. CASE i \in 2 .. lr + 1
        <4>1. Feeds(ops[i], n, part) /\ i < lr + lb + 2
          BY <1>4, <2>3, <3>1, <3>4 DEF Feeds
        <4>2. QED
          BY <3>2, <4>1 DEF ToCome
      <3>5. ASSUME NEW x \in DOMAIN body, i = lr + 1 + x PROVE ToCome(ops, n, part)
        <4>1. part \in body[x].parts
          BY <1>7, <3>1, <3>5
        <4>2. PICK y \in DOMAIN body : body[y].do = "load" /\ part \in Uses(body[y].name)
          BY <1>2, <4>1 DEF Piece
        <4> DEFINE z == lr + 1 + y
        <4>3. z \in DOMAIN ops /\ ops[z] = body[y] /\ z < lr + lb + 2
          BY <1>3, <1>4, <1>7
        <4> HIDE DEF z
        <4>4. Feeds(ops[z], n, part)
          BY <2>3, <4>2, <4>3 DEF Feeds
        <4>5. QED
          BY <3>2, <4>3, <4>4 DEF ToCome
      <3>6. QED
        BY <3>3, <3>4, <3>5
    <2>4. QED
      BY <2>2, <2>3
  <1>17. QED
    BY <1>1, <1>14, <1>15, <1>16 DEF ScriptWhole

\* What is left of a script, when what was done of it brought in what it had to.
LEMMA RestWhole ==
  ASSUME NEW q, RequestOK(q), Whole(q), NEW k \in 1 .. Len(q.ops) - 1,
         NEW next, next.ops = SubSeq(q.ops, k + 1, Len(q.ops)),
         \A n \in Results : next.seen[n] \in [Uses(n) -> 0 .. Unread],
         \A n \in Results : Pending(next.ops, n) => \A part \in Uses(n) :
            /\ next.seen[n][part] <= q.seen[n][part]
            /\ \A i \in 1 .. k : Feeds(q.ops[i], n, part) => next.seen[n][part] <= MaxWrites,
         \A n \in Results : stored[n] # <<>> => stored'[n] # <<>>,
         \A j \in 1 .. k, x \in DOMAIN next.ops :
            next.ops[x].do = "load" /\ Stores(q.ops[j], next.ops[x].name) => stored'[next.ops[x].name] # <<>>
  PROVE  Whole(next)'
  <1> DEFINE ops == q.ops
             rest == next.ops
             m == Len(ops)
  <1>1. m \in Nat /\ k \in Nat /\ k < m /\ ops \in Seq(Ops) /\ DOMAIN ops = 1 .. m
    BY DEF RequestOK, ScriptOK, BodyOK
  <1>2. rest \in Seq(Ops) /\ Len(rest) = m - k /\ DOMAIN rest = 1 .. m - k
        /\ \A i \in 1 .. m - k : rest[i] = ops[i + k]
    BY <1>1
  <1>3. Nested(ops)
    BY DEF Whole
  <1>4. \A n \in AllNames : Pending(rest, n) => Pending(ops, n)
    BY SuffixOK DEF RequestOK
  <1> HIDE DEF ops, rest, m
  <1>5. \A i \in DOMAIN rest : i + k \in DOMAIN ops /\ rest[i] = ops[i + k]
    BY <1>1, <1>2
  <1>6. \A i \in DOMAIN ops : i <= k \/ (i - k \in DOMAIN rest /\ (i - k) + k = i)
    BY <1>1, <1>2
  <1>7. \A i \in DOMAIN rest : rest[i].name \in Results
    BY <1>3, <1>5 DEF Nested
  <1>8. ASSUME NEW i \in DOMAIN rest, NEW j \in DOMAIN rest, i < j, rest[i].do = "check",
               Stores(rest[j], rest[i].name)
        PROVE  \/ OneResult(rest, i, j)
               \/ \A x \in j + 1 .. Len(rest) : rest[x].name = rest[i].name /\ rest[x].do = "load"
    <2>1. i + k < j + k
      BY <1>1, <1>2, <1>8
    <2>2. \/ OneResult(ops, i + k, j + k)
          \/ \A x \in (j + k) + 1 .. m : ops[x].name = ops[i + k].name /\ ops[x].do = "load"
      BY <1>3, <1>5, <1>8, <2>1 DEF Nested, m
    <2>3. \A x \in i .. j : x \in DOMAIN rest /\ x + k \in i + k .. j + k
      BY <1>1, <1>2
    <2>4. \A x \in j + 1 .. Len(rest) : x \in DOMAIN rest /\ x + k \in (j + k) + 1 .. m
      BY <1>1, <1>2
    <2>5. CASE OneResult(ops, i + k, j + k)
      <3>1. \A x \in i .. j : rest[x] = ops[x + k]
        BY <1>5, <2>3
      <3>2. \A x \in i .. j : ops[x + k].name = rest[i].name /\ ops[x + k].do # "load"
        BY <1>5, <2>3, <2>5 DEF OneResult
      <3>3. OneResult(rest, i, j)
        BY ONLY <3>1, <3>2 DEF OneResult
      <3>4. QED
        BY <3>3
    <2>6. CASE \A x \in (j + k) + 1 .. m : ops[x].name = ops[i + k].name /\ ops[x].do = "load"
      <3>1. \A x \in j + 1 .. Len(rest) : rest[x] = ops[x + k]
        BY <1>5, <2>4
      <3>2. \A x \in j + 1 .. Len(rest) : ops[x + k].name = rest[i].name /\ ops[x + k].do = "load"
        BY <1>5, <2>4, <2>6
      <3>3. QED
        BY ONLY <3>1, <3>2
    <2>7. QED
      BY <2>2, <2>5, <2>6
  <1>9. Nested(rest)
    BY <1>7, <1>8 DEF Nested
  <1>10. ASSUME NEW n \in Results, Pending(rest, n), NEW part \in Uses(n)
         PROVE  next.seen[n][part] <= MaxWrites \/ ToCome(rest, n, part)
    <2>1. Pending(ops, n)
      BY <1>4, <1>10, PlainNames
    <2>2. q.seen[n][part] <= MaxWrites \/ ToCome(ops, n, part)
      BY <1>10, <2>1 DEF Whole, ops
    <2>3. CASE q.seen[n][part] <= MaxWrites
      <3>1. q.seen[n] \in [Uses(n) -> 0 .. Unread] /\ next.seen[n] \in [Uses(n) -> 0 .. Unread]
        BY DEF Whole
      <3>2. q.seen[n][part] \in 0 .. Unread /\ next.seen[n][part] \in 0 .. Unread
        BY <3>1
      <3>3. next.seen[n][part] <= q.seen[n][part]
        BY <1>10 DEF rest
      <3>4. QED
        BY <2>3, <3>2, <3>3 DEF Unread
    <2>4. CASE ToCome(ops, n, part)
      <3>1. PICK i \in DOMAIN ops, j \in DOMAIN ops : i < j /\ Stores(ops[j], n) /\ Feeds(ops[i], n, part)
        BY <2>4 DEF ToCome
      <3>2. CASE i <= k
        <4>1. i \in 1 .. k
          BY <1>1, <3>2
        <4>2. QED
          BY <1>10, <3>1, <4>1 DEF rest, ops
      <3>3. CASE ~(i <= k)
        <4>1. ~(j <= k) /\ i - k < j - k
          BY <1>1, <3>1, <3>3
        <4>2. rest[i - k] = ops[i] /\ rest[j - k] = ops[j] /\ i - k \in DOMAIN rest /\ j - k \in DOMAIN rest
          BY <1>5, <1>6, <3>3, <4>1
        <4>3. QED
          BY <3>1, <4>1, <4>2 DEF ToCome
      <3>4. QED
        BY <3>2, <3>3
    <2>5. QED
      BY <2>2, <2>3, <2>4
  <1>11. ASSUME NEW i \in DOMAIN rest, rest[i].do = "load"
         PROVE  stored'[rest[i].name] # <<>> \/ StoredBefore(rest, i)
    <2>1. stored[rest[i].name] # <<>> \/ StoredBefore(ops, i + k)
      BY <1>5, <1>11 DEF Whole, ops
    <2>2. CASE stored[rest[i].name] # <<>>
      BY <1>7, <2>2
    <2>3. CASE StoredBefore(ops, i + k)
      <3>1. PICK j \in 1 .. (i + k) - 1 : Stores(ops[j], rest[i].name)
        BY <1>5, <2>3 DEF StoredBefore
      <3>2. j \in DOMAIN ops
        BY <1>1, <1>2, <3>1
      <3>3. CASE j <= k
        <4>1. j \in 1 .. k
          BY <1>1, <3>2, <3>3
        <4>2. QED
          BY <1>11, <3>1, <4>1 DEF rest, ops
      <3>4. CASE ~(j <= k)
        <4>1. j - k \in 1 .. i - 1 /\ rest[j - k] = ops[j]
          BY <1>1, <1>2, <1>5, <1>6, <3>1, <3>2, <3>4
        <4>2. QED
          BY <3>1, <4>1 DEF StoredBefore
      <3>5. QED
        BY <3>3, <3>4
    <2>4. QED
      BY <2>1, <2>2, <2>3
  <1>12. QED
    BY <1>9, <1>10, <1>11 DEF Whole, rest

LEMMA TailWhole ==
  ASSUME NEW q, RequestOK(q), Whole(q), Len(q.ops) # 1,
         NEW next, next.ops = Tail(q.ops),
         \A n \in Results : next.seen[n] \in [Uses(n) -> 0 .. Unread],
         \A n \in Results : Pending(next.ops, n) => \A part \in Uses(n) :
            /\ next.seen[n][part] <= q.seen[n][part]
            /\ Feeds(Head(q.ops), n, part) => next.seen[n][part] <= MaxWrites,
         \A n \in Results : stored[n] # <<>> => stored'[n] # <<>>,
         \A n \in Results : Stores(Head(q.ops), n) => stored'[n] # <<>>
  PROVE  Whole(next)'
  <1>1. q.ops \in Seq(Ops) /\ q.ops # <<>>
    BY DEF RequestOK, ScriptOK, BodyOK
  <1>2. /\ 1 \in 1 .. Len(q.ops) - 1 /\ Tail(q.ops) = SubSeq(q.ops, 1 + 1, Len(q.ops))
        /\ Head(q.ops) = q.ops[1]
    <2>1. Len(q.ops) \in Nat /\ Len(q.ops) # 0
      BY <1>1
    <2>2. Tail(q.ops) = SubSeq(q.ops, 2, Len(q.ops)) /\ 1 + 1 = 2
      BY <1>1, TailIsSubSeq
    <2>3. 1 \in 1 .. Len(q.ops) - 1
      <3>1. \A m \in Nat : m # 0 /\ m # 1 => 1 \in 1 .. m - 1
        OBVIOUS
      <3>2. QED
        BY <2>1, <3>1
    <2>4. Head(q.ops) = q.ops[1]
      BY <1>1
    <2>5. QED
      BY ONLY <2>2, <2>3, <2>4
  <1>3. \A i \in 1 .. 1 : q.ops[i] = Head(q.ops)
    BY <1>2
  <1>4. ScriptOK(Tail(q.ops)) /\ \A x \in DOMAIN Tail(q.ops) : Tail(q.ops)[x].name \in Results
    <2>1. ScriptOK(q.ops) /\ Nested(q.ops)
      BY DEF RequestOK, Whole
    <2>2. ScriptOK(Tail(q.ops))
      BY <2>1, TailOK
    <2>3. \A x \in DOMAIN Tail(q.ops) : x + 1 \in DOMAIN q.ops /\ Tail(q.ops)[x] = q.ops[x + 1]
      BY <1>1
    <2>4. QED
      BY <2>1, <2>2, <2>3 DEF Nested
  <1>5. \A n \in Results : Pending(next.ops, n) => \A part \in Uses(n) :
           /\ next.seen[n][part] <= q.seen[n][part]
           /\ \A i \in 1 .. 1 : Feeds(q.ops[i], n, part) => next.seen[n][part] <= MaxWrites
    BY <1>3
  <1>6. \A j \in 1 .. 1, x \in DOMAIN next.ops :
           next.ops[x].do = "load" /\ Stores(q.ops[j], next.ops[x].name) => stored'[next.ops[x].name] # <<>>
    BY <1>3, <1>4
  <1>7. QED
    BY <1>2, <1>5, <1>6, RestWhole

\* A row that is up to date.
LEMMA SkipWhole ==
  ASSUME NEW q, RequestOK(q), Whole(q), NEW name, Head(q.ops).do = "check", Head(q.ops).name = name,
         stored[name] # <<>>, stored' = stored,
         NEW next, next.ops = AfterStore(q.ops, name), next.seen = q.seen
  PROVE  Whole(next)'
  <1> DEFINE ops == q.ops
             S == {i \in DOMAIN ops : ops[i].do = "store" /\ ops[i].name = name}
  <1>1. /\ ScriptOK(ops) /\ Head(ops) = ops[1] /\ 1 \in DOMAIN ops /\ ops \in Seq(Ops)
        /\ DOMAIN ops = 1 .. Len(ops) /\ Len(ops) \in Nat
    BY HeadNotLoad DEF RequestOK, ScriptOK, BodyOK
  <1>2. S # {} /\ S \in SUBSET Nat
    BY <1>1 DEF ScriptOK, BodyOK, Stores
  <1>3. PICK k : k = Min(S)
    OBVIOUS
  <1>4. k \in S /\ k \in DOMAIN ops /\ ops[k].do = "store" /\ Stores(ops[k], name)
    BY <1>2, <1>3, MinOf DEF Stores
  <1>5. next.ops = SubSeq(ops, k + 1, Len(ops))
    BY <1>3 DEF AfterStore
  <1> HIDE DEF S
  <1>6. k \in 1 .. Len(ops) - 1 /\ 1 < k
    <2>1. k # Len(ops) /\ k # 1
      BY <1>1, <1>4 DEF ScriptOK, BodyOK
    <2>2. QED
      BY <1>1, <1>4, <2>1
  <1>7. \A x \in DOMAIN next.ops : x + k \in k + 1 .. Len(ops) /\ x + k \in DOMAIN ops /\ next.ops[x] = ops[x + k]
    <2>1. DOMAIN next.ops = 1 .. Len(ops) - k /\ \A x \in 1 .. Len(ops) - k : next.ops[x] = ops[x + k]
      BY <1>1, <1>5, <1>6
    <2> HIDE DEF ops
    <2>2. \A x \in 1 .. Len(ops) - k : x + k \in k + 1 .. Len(ops) /\ x + k \in 1 .. Len(ops)
      BY <1>1, <1>6
    <2>3. QED
      BY <1>1, <2>1, <2>2
  <1>8. \/ OneResult(ops, 1, k)
        \/ \A x \in k + 1 .. Len(ops) : ops[x].name = name /\ ops[x].do = "load"
    BY <1>1, <1>4, <1>6 DEF Whole, Nested
  <1>9. ASSUME NEW n \in Results, Pending(next.ops, n), NEW i \in 1 .. k, NEW part
        PROVE  ~Feeds(ops[i], n, part)
    <2>1. PICK x \in DOMAIN next.ops : Stores(next.ops[x], n)
      BY <1>9 DEF Pending
    <2>2. n \in AllNames /\ Stores(ops[x + k], n) /\ x + k \in DOMAIN ops /\ x + k \in k + 1 .. Len(ops)
      BY <1>7, <2>1, PlainNames
    <2>3. OneResult(ops, 1, k)
      BY <1>8, <2>2 DEF Stores
    <2>4. n # name
      <3>1. x + k # k
        BY <1>6, <2>2
      <3>2. QED
        BY <1>1, <1>4, <2>2, <3>1 DEF ScriptOK, BodyOK
    <2>5. ops[i].name = name /\ ops[i].do # "load"
      BY <1>1, <2>3 DEF OneResult
    <2>6. QED
      BY <2>4, <2>5 DEF Feeds
  <1>10. ASSUME NEW j \in 1 .. k, NEW x \in DOMAIN next.ops, next.ops[x].do = "load",
                Stores(ops[j], next.ops[x].name)
         PROVE  next.ops[x].name = name
    BY <1>1, <1>7, <1>8, <1>10 DEF OneResult, Stores
  <1>11. \A n \in Results : q.seen[n] \in [Uses(n) -> 0 .. Unread]
    BY DEF Whole
  <1>12. \A n \in Results : \A part \in Uses(n) : q.seen[n][part] <= q.seen[n][part]
    BY <1>11 DEF Unread
  <1> HIDE DEF ops
  <1>13. \A n \in Results : Pending(next.ops, n) => \A part \in Uses(n) :
            /\ next.seen[n][part] <= q.seen[n][part]
            /\ \A i \in 1 .. k : Feeds(q.ops[i], n, part) => next.seen[n][part] <= MaxWrites
    BY <1>9, <1>12 DEF ops
  <1>14. \A j \in 1 .. k, x \in DOMAIN next.ops :
            next.ops[x].do = "load" /\ Stores(q.ops[j], next.ops[x].name) => stored'[next.ops[x].name] # <<>>
    BY <1>10 DEF ops
  <1>15. k \in 1 .. Len(q.ops) - 1 /\ next.ops = SubSeq(q.ops, k + 1, Len(q.ops))
    BY <1>5, <1>6 DEF ops
  <1>16. QED
    BY <1>11, <1>13, <1>14, <1>15, RestWhole

LEMMA CheckWhole ==
  ASSUME NEW q, RequestOK(q), Whole(q), NEW name, Head(q.ops).do = "check", Head(q.ops).name = name,
         stored' = stored,
         NEW next, next.ops = IF NeedUpdate(name) THEN Tail(q.ops) ELSE AfterStore(q.ops, name),
         next.seen = q.seen
  PROVE  Whole(next)'
  <1>1. CASE ~NeedUpdate(name)
    BY <1>1, SkipWhole DEF NeedUpdate
  <1>2. CASE NeedUpdate(name)
    <2>1. next.ops = Tail(q.ops) /\ Len(q.ops) # 1
      BY <1>2, HeadNotLoad DEF RequestOK
    <2>2. \A n \in Results : q.seen[n] \in [Uses(n) -> 0 .. Unread]
      BY DEF Whole
    <2>3. \A n \in Results : \A part \in Uses(n) : q.seen[n][part] <= q.seen[n][part]
      BY <2>2 DEF Unread
    <2>4. \A n, part : ~Feeds(Head(q.ops), n, part) /\ ~Stores(Head(q.ops), n)
      BY DEF Feeds, Stores
    <2>5. QED
      BY <2>1, <2>2, <2>3, <2>4, TailWhole
  <1>3. QED
    BY <1>1, <1>2

LEMMA ReadWhole ==
  ASSUME TablesOK, NEW q, RequestOK(q), Whole(q), NEW name, NEW parts,
         Head(q.ops).do = "read", Head(q.ops).name = name, Head(q.ops).parts = parts, stored' = stored,
         NEW next, next = [q EXCEPT !.ops = Tail(@),
                                    !.seen[name] = [p \in Uses(name) |->
                                       IF p \in parts THEN Oldest(@[p], version[p]) ELSE @[p]]]
  PROVE  Whole(next)'
  <1> DEFINE read == [p \in Uses(name) |->
                        IF p \in parts THEN Oldest(q.seen[name][p], version[p]) ELSE q.seen[name][p]]
  <1>1. DOMAIN q = Fields /\ DOMAIN q.seen = Results /\ ScriptOK(q.ops)
    BY DEF RequestOK
  <1>2. next.ops = Tail(q.ops) /\ next.seen = [q.seen EXCEPT ![name] = read]
    BY <1>1 DEF Fields
  <1>3. \A p \in Uses(name) :
           read[p] = IF p \in parts THEN Oldest(q.seen[name][p], version[p]) ELSE q.seen[name][p]
    OBVIOUS
  <1>4. DOMAIN read = Uses(name) /\ read = [p \in Uses(name) |-> read[p]]
    OBVIOUS
  <1> HIDE DEF read
  <1>5. \A n \in Results : next.seen[n] = IF n = name THEN read ELSE q.seen[n]
    BY <1>1, <1>2
  <1>6. Len(q.ops) # 1 /\ Head(q.ops) = q.ops[1] /\ 1 \in DOMAIN q.ops
    BY <1>1, HeadNotLoad
  <1>7. name \in Results
    BY <1>6 DEF Whole, Nested
  <1>8. \A n \in Results : q.seen[n] \in [Uses(n) -> 0 .. Unread]
    BY DEF Whole
  <1>9. ASSUME NEW p \in Uses(name)
        PROVE  read[p] \in 0 .. Unread /\ read[p] <= q.seen[name][p] /\ (p \in parts => read[p] <= MaxWrites)
    <2>1. q.seen[name][p] \in 0 .. Unread
      BY <1>7, <1>8
    <2>2. p \in Parts
      BY <1>7, PlainNames, UsesParts
    <2>3. version[p] \in Nat /\ version[p] <= MaxWrites
      BY <2>2, VersionBound
    <2>4. QED
      BY <1>3, <2>1, <2>3 DEF Oldest, Unread
  <1>10. read \in [Uses(name) -> 0 .. Unread]
    BY <1>4, <1>9
  <1>11. ASSUME NEW n \in Results, NEW part \in Uses(n)
         PROVE  next.seen[n][part] <= q.seen[n][part]
    <2>1. q.seen[n][part] \in 0 .. Unread
      BY <1>8
    <2>2. QED
      BY <1>5, <1>9, <2>1 DEF Unread
  <1>12. ASSUME NEW n \in Results, NEW part \in Uses(n), Feeds(Head(q.ops), n, part)
         PROVE  next.seen[n][part] <= MaxWrites
    BY <1>5, <1>9, <1>12 DEF Feeds
  <1>13. \A n : ~Stores(Head(q.ops), n)
    BY DEF Stores
  <1>14. \A n \in Results : next.seen[n] \in [Uses(n) -> 0 .. Unread]
    BY <1>5, <1>8, <1>10
  <1>15. QED
    BY <1>2, <1>6, <1>11, <1>12, <1>13, <1>14, TailWhole

LEMMA StoreWhole ==
  ASSUME TablesOK, NEW q, RequestOK(q), Whole(q), NEW name, Head(q.ops).do = "store", Head(q.ops).name = name,
         \A n \in Results : stored[n] # <<>> => stored'[n] # <<>>, stored'[name] # <<>>,
         NEW next, next.ops = Tail(q.ops), next.seen = q.seen
  PROVE  /\ Whole(next)'
         /\ name \in Results /\ q.start \in 0 .. MaxWrites /\ q.seen[name] \in [Uses(name) -> 0 .. MaxWrites]
  <1>1. ScriptOK(q.ops) /\ Len(q.ops) # 1 /\ Head(q.ops) = q.ops[1] /\ 1 \in DOMAIN q.ops
    BY HeadNotLoad DEF RequestOK
  <1>2. name \in Results
    BY <1>1 DEF Whole, Nested
  <1>3. \A n \in Results : q.seen[n] \in [Uses(n) -> 0 .. Unread]
    BY DEF Whole
  <1>4. Whole(next)'
    <2>1. \A n \in Results : \A part \in Uses(n) : q.seen[n][part] <= q.seen[n][part]
      BY <1>3 DEF Unread
    <2>2. \A n, part : ~Feeds(Head(q.ops), n, part)
      BY DEF Feeds
    <2>3. \A n \in Results : Stores(Head(q.ops), n) => stored'[n] # <<>>
      BY DEF Stores
    <2>4. QED
      BY <1>1, <1>3, <2>1, <2>2, <2>3, TailWhole
  <1>5. q.start \in 0 .. MaxWrites
    <2>1. q.start # NoTransaction /\ TransactionOK(q.start, q.open)
      BY <1>1 DEF RequestOK
    <2>2. QED
      BY <2>1 DEF TransactionOK, TablesOK
  <1>6. ASSUME NEW part \in Uses(name) PROVE q.seen[name][part] \in 0 .. MaxWrites
    <2>1. Pending(q.ops, name)
      BY <1>1 DEF Pending, Stores
    <2>2. ~ToCome(q.ops, name, part)
      <3> SUFFICES ASSUME NEW i \in DOMAIN q.ops, NEW j \in DOMAIN q.ops, i < j, Stores(q.ops[j], name) PROVE FALSE
        BY DEF ToCome
      <3>1. Stores(q.ops[1], name) /\ name \in AllNames
        BY <1>1, <1>2, PlainNames DEF Stores
      <3>2. j = 1
        BY <1>1, <3>1 DEF ScriptOK, BodyOK
      <3>3. i \in Nat /\ i >= 1
        BY <1>1 DEF ScriptOK, BodyOK
      <3>4. QED
        BY <3>2, <3>3
    <2>3. q.seen[name][part] <= MaxWrites /\ q.seen[name][part] \in 0 .. Unread
      BY <1>2, <1>3, <2>1, <2>2 DEF Whole
    <2>4. QED
      BY <2>3 DEF Unread
  <1>7. q.seen[name] \in [Uses(name) -> 0 .. MaxWrites]
    BY <1>2, <1>3, <1>6
  <1>8. QED
    BY <1>2, <1>4, <1>5, <1>7

LEMMA LoadWhole ==
  ASSUME NEW q, RequestOK(q), Whole(q), RowsFull, NEW name, Head(q.ops).do = "load", Head(q.ops).name = name,
         Len(q.ops) # 1, stored' = stored,
         NEW loaded, loaded = [p \in DOMAIN q.seen["champ"] |->
                                 IF p \in Uses(name) THEN Oldest(q.seen["champ"][p], stored[name][1].data[p])
                                 ELSE q.seen["champ"][p]],
         NEW next, next.ops = Tail(q.ops), next.seen = [q.seen EXCEPT !["champ"] = loaded]
  PROVE  Whole(next)'
  <1>1. q.ops \in Seq(Ops) /\ q.ops # <<>> /\ DOMAIN q.seen = Results
    BY DEF RequestOK, ScriptOK, BodyOK
  <1>2. Head(q.ops) = q.ops[1] /\ 1 \in DOMAIN q.ops
    BY <1>1
  <1>3. name \in Results
    BY <1>2 DEF Whole, Nested
  <1>4. stored[name] # <<>>
    <2>1. ~StoredBefore(q.ops, 1)
      BY DEF StoredBefore
    <2>2. QED
      BY <1>2, <2>1 DEF Whole
  <1>5. PICK row : stored[name] = <<row>> /\ Full(row, name)
    BY <1>3, <1>4 DEF RowsFull
  <1>6. stored[name][1] = row /\ row.data \in [Uses(name) -> 0 .. MaxWrites]
    BY <1>5 DEF Full
  <1>7. \A n \in Results : q.seen[n] \in [Uses(n) -> 0 .. Unread]
    BY DEF Whole
  <1>8. \A n \in Results : next.seen[n] = IF n = "champ" THEN loaded ELSE q.seen[n]
    BY <1>1
  <1>9. ASSUME "champ" \in Results, NEW p \in Uses("champ")
        PROVE  /\ loaded[p] \in 0 .. Unread /\ loaded[p] <= q.seen["champ"][p]
               /\ p \in Uses(name) => loaded[p] <= MaxWrites
    <2>1. q.seen["champ"][p] \in 0 .. Unread /\ p \in DOMAIN q.seen["champ"]
      BY <1>7, <1>9
    <2>2. loaded[p] = IF p \in Uses(name) THEN Oldest(q.seen["champ"][p], row.data[p]) ELSE q.seen["champ"][p]
      BY <1>6, <2>1
    <2>3. p \in Uses(name) => row.data[p] \in 0 .. MaxWrites
      BY <1>6
    <2>4. QED
      BY <2>1, <2>2, <2>3 DEF Oldest, Unread
  <1>10. "champ" \in Results => loaded \in [Uses("champ") -> 0 .. Unread]
    <2>1. "champ" \in Results => DOMAIN q.seen["champ"] = Uses("champ")
      BY <1>7
    <2>2. loaded = [p \in DOMAIN q.seen["champ"] |-> loaded[p]]
      OBVIOUS
    <2>3. QED
      BY <1>9, <2>1, <2>2
  <1>11. ASSUME NEW n \in Results, NEW part \in Uses(n)
         PROVE  next.seen[n][part] <= q.seen[n][part]
    <2>1. q.seen[n][part] \in 0 .. Unread
      BY <1>7
    <2>2. QED
      BY <1>8, <1>9, <2>1 DEF Unread
  <1>12. ASSUME NEW n \in Results, NEW part \in Uses(n), Feeds(Head(q.ops), n, part)
         PROVE  next.seen[n][part] <= MaxWrites
    BY <1>8, <1>9, <1>12 DEF Feeds
  <1>13. \A n : ~Stores(Head(q.ops), n)
    BY DEF Stores
  <1>14. \A n \in Results : next.seen[n] \in [Uses(n) -> 0 .. Unread]
    BY <1>7, <1>8, <1>10
  <1>15. QED
    BY <1>11, <1>12, <1>13, <1>14, TailWhole

\* A request goes on, and the rows stay full.
RequestGoesOn(r, entry) ==
    /\ request' = [request EXCEPT ![r] = entry]
    /\ entry = <<>> \/ \E q : entry = <<q>> /\ Whole(q)'

LEMMA StepGoesOn ==
  ASSUME TInv, NEW r \in Requests, Step(r)
  PROVE  /\ RowsFull' /\ \A n \in Results : stored[n] # <<>> => stored'[n] # <<>>
         /\ \E entry : RequestGoesOn(r, entry)
  <1>1. PICK q : request[r] = <<q>> /\ RequestOK(q)
    BY DEF TInv, IInv, RequestsOK, Step
  <1>2. Whole(q)
    BY <1>1 DEF TInv, RequestsWhole
  <1> DEFINE op == Head(q.ops)
             name == op.name
  <1>3. \/ op.do = "check" /\ Check(r, q, op.name)
        \/ op.do = "read" /\ Read(r, q, op.name, op.parts)
        \/ op.do = "store" /\ Store(r, q, op.name)
        \/ op.do = "load" /\ Load(r, q, op.name)
    BY <1>1 DEF Step
  <1>4. TablesOK /\ RowsFull /\ DOMAIN q = Fields /\ DOMAIN stored = Results
    BY <1>1 DEF TInv, IInv, RequestOK
  <1>5. ASSUME stored' = stored
        PROVE  RowsFull' /\ \A n \in Results : stored[n] # <<>> => stored'[n] # <<>>
    BY <1>4, <1>5 DEF RowsFull
  <1>6. CASE op.do = "check" /\ Check(r, q, name)
    <2> PICK rest : rest = IF NeedUpdate(name) THEN Tail(q.ops) ELSE AfterStore(q.ops, name)
      OBVIOUS
    <2> PICK next : next = [q EXCEPT !.ops = rest]
      OBVIOUS
    <2>1. stored' = stored /\ request' = [request EXCEPT ![r] = <<next>>]
      BY <1>6 DEF Check, Continue
    <2>2. next.ops = rest /\ next.seen = q.seen
      BY <1>4 DEF Fields
    <2>3. Whole(next)'
      BY <1>1, <1>2, <1>6, <2>1, <2>2, CheckWhole
    <2>4. RequestGoesOn(r, <<next>>)
      BY <2>1, <2>3 DEF RequestGoesOn
    <2>5. QED
      BY <1>5, <2>1, <2>4
  <1>7. CASE op.do = "read" /\ Read(r, q, name, op.parts)
    <2> PICK next : next = [q EXCEPT !.ops = Tail(@),
                                     !.seen[name] = [p \in Uses(name) |->
                                        IF p \in op.parts THEN Oldest(@[p], version[p]) ELSE @[p]]]
      OBVIOUS
    <2>1. stored' = stored /\ request' = [request EXCEPT ![r] = <<next>>]
      BY <1>7 DEF Read, Continue
    <2>2. Whole(next)'
      BY ZenonT(60), <1>1, <1>2, <1>4, <1>7, <2>1, ReadWhole
    <2>3. RequestGoesOn(r, <<next>>)
      BY <2>1, <2>2 DEF RequestGoesOn
    <2>4. QED
      BY <1>5, <2>1, <2>3
  <1>8. CASE op.do = "store" /\ Store(r, q, name)
    <2> DEFINE next == [q EXCEPT !.ops = Tail(@), !.start = NoTransaction]
               row == [data |-> q.seen[name], modified |-> q.start, open |-> q.open]
    <2>1. stored' = [stored EXCEPT ![name] = <<row>>] /\ request' = [request EXCEPT ![r] = <<next>>]
      BY <1>8 DEF Store, Continue
    <2>2. next.ops = Tail(q.ops) /\ next.seen = q.seen /\ row.data = q.seen[name] /\ row.modified = q.start
      BY <1>4 DEF Fields
    <2>3. name \in Results
      <3>1. ScriptOK(q.ops)
        BY <1>1 DEF RequestOK
      <3>2. op = q.ops[1] /\ 1 \in DOMAIN q.ops
        BY <1>8, <3>1, HeadNotLoad
      <3>3. QED
        BY <1>2, <3>2 DEF Whole, Nested
    <2> HIDE DEF next, row
    <2>4. \A n \in Results : stored'[n] = IF n = name THEN <<row>> ELSE stored[n]
      BY <1>4, <2>1
    <2>5. stored'[name] # <<>> /\ \A n \in Results : stored[n] # <<>> => stored'[n] # <<>>
      BY <2>3, <2>4
    <2>6. /\ Whole(next)'
          /\ q.start \in 0 .. MaxWrites /\ q.seen[name] \in [Uses(name) -> 0 .. MaxWrites]
      BY <1>1, <1>2, <1>4, <1>8, <2>2, <2>5, StoreWhole
    <2>7. Full(row, name)
      BY <2>2, <2>6 DEF Full
    <2>8. RowsFull'
      <3> SUFFICES ASSUME NEW n \in Results, stored'[n] # <<>>
                   PROVE  \E new \in {stored'[n][1]} : stored'[n] = <<new>> /\ Full(new, n)
        BY DEF RowsFull, Full
      <3>1. PICK new : stored'[n] = <<new>> /\ Full(new, n)
        BY <1>4, <2>4, <2>7 DEF RowsFull
      <3>2. QED
        BY <3>1
    <2>9. RequestGoesOn(r, <<next>>)
      BY <2>1, <2>6 DEF RequestGoesOn
    <2>10. QED
      BY <2>5, <2>8, <2>9
  <1>9. CASE op.do = "load" /\ Load(r, q, name)
    <2> PICK loaded : loaded = [p \in DOMAIN q.seen["champ"] |->
                            IF p \in Uses(name) THEN Oldest(q.seen["champ"][p], stored[name][1].data[p])
                            ELSE q.seen["champ"][p]]
      OBVIOUS
    <2> DEFINE gone == [q EXCEPT !.ops = Tail(@),
                                 !.start = IF @ = NoTransaction THEN clock ELSE @,
                                 !.open = IF q.start = NoTransaction THEN writing ELSE @,
                                 !.seen["champ"] = [p \in DOMAIN @ |->
                                    IF p \in Uses(name) THEN Oldest(@[p], stored[name][1].data[p])
                                    ELSE @[p]]]
    <2>1. stored' = stored /\ request' = [request EXCEPT ![r] = IF Len(q.ops) = 1 THEN <<>> ELSE <<gone>>]
      BY <1>9 DEF Load
    <2>2. gone.ops = Tail(q.ops) /\ gone.seen = [q.seen EXCEPT !["champ"] = loaded]
      BY <1>4 DEF Fields
    <2> HIDE DEF gone
    <2> PICK next : next = gone
      OBVIOUS
    <2> DEFINE entry == IF Len(q.ops) = 1 THEN <<>> ELSE <<next>>
    <2>3. ASSUME Len(q.ops) # 1 PROVE Whole(next)'
      <3>1. next.ops = Tail(q.ops) /\ next.seen = [q.seen EXCEPT !["champ"] = loaded]
        BY <2>2
      <3>2. loaded = [p \in DOMAIN q.seen["champ"] |->
                        IF p \in Uses(name) THEN Oldest(q.seen["champ"][p], stored[name][1].data[p])
                        ELSE q.seen["champ"][p]]
        OBVIOUS
      <3>3. RequestOK(q) /\ Whole(q) /\ RowsFull /\ stored' = stored /\ Head(q.ops).do = "load"
        BY <1>1, <1>2, <1>4, <1>9, <2>1
      <3>4. Head(q.ops).name = name
        OBVIOUS
      <3> HIDE DEF name
      <3>5. QED
        BY ONLY SMTT(60), <2>3, <3>1, <3>2, <3>3, <3>4, LoadWhole
    <2>4. entry = <<>> \/ \E p : entry = <<p>> /\ Whole(p)'
      BY <2>3
    <2>5. RequestGoesOn(r, entry)
      BY <2>1, <2>4 DEF RequestGoesOn
    <2>6. QED
      BY <1>5, <2>1, <2>5
  <1>10. QED
    BY <1>3, <1>6, <1>7, <1>8, <1>9

LEMMA WholeStays ==
  ASSUME NEW q, Whole(q), \A n \in Results : stored[n] # <<>> => stored'[n] # <<>>
  PROVE  Whole(q)'
  BY DEF Whole, Nested

LEMMA BeginGoesOn ==
  ASSUME TInv, NEW r \in Requests, NEW name \in Names, Begin(r, name)
  PROVE  /\ stored' = stored /\ \E entry : RequestGoesOn(r, entry)
  <1> DEFINE made == [name |-> name, ops |-> Script(name), start |-> clock, open |-> writing,
                      asked |-> [part \in Uses(name) |-> version[part]],
                      seen |-> [n \in Results |-> [part \in Uses(n) |-> Unread]]]
  <1>1. stored' = stored /\ request' = [request EXCEPT ![r] = <<made>>]
    BY DEF Begin
  <1>2. made.ops = Script(name) /\ made.seen = [n \in Results |-> [part \in Uses(n) |-> Unread]]
    OBVIOUS
  <1> HIDE DEF made
  <1>3. PICK q : q = made
    OBVIOUS
  <1>4. ScriptWhole(Script(name))
    <2>1. name # "champ" => name \in Plain
      BY DEF Plain, Results
    <2>2. QED
      BY <2>1, PageWhole, ChampWhole
  <1>5. Whole(q)
    <2>1. \A n \in Results : q.seen[n] \in [Uses(n) -> 0 .. Unread]
      BY <1>2, <1>3 DEF Unread
    <2>2. q.ops = Script(name)
      BY <1>2, <1>3
    <2>3. QED
      BY <1>4, <2>1, <2>2, PlainNames DEF ScriptWhole, Whole
  <1>6. Whole(q)'
    BY <1>1, <1>5, WholeStays
  <1>7. RequestGoesOn(r, <<q>>)
    BY <1>1, <1>3, <1>6 DEF RequestGoesOn
  <1>8. QED
    BY <1>1, <1>7

LEMMA OthersWhole ==
  ASSUME TInv, NEW r \in Requests, \E entry : RequestGoesOn(r, entry),
         \A n \in Results : stored[n] # <<>> => stored'[n] # <<>>
  PROVE  RequestsWhole'
  <1>1. PICK entry : RequestGoesOn(r, entry)
    OBVIOUS
  <1>2. \A s \in Requests : request'[s] = IF s = r THEN entry ELSE request[s]
    BY <1>1 DEF RequestGoesOn, TInv, IInv
  <1> SUFFICES ASSUME NEW s \in Requests, request'[s] # <<>> PROVE Whole(request[s][1])'
    BY DEF RequestsWhole
  <1>3. CASE s = r
    <2>1. PICK q : entry = <<q>> /\ Whole(q)'
      BY <1>1, <1>2, <1>3 DEF RequestGoesOn
    <2>2. request'[s][1] = q
      BY <1>2, <1>3, <2>1
    <2>3. QED
      BY <2>1, <2>2 DEF Whole
  <1>4. CASE s # r
    <2>1. PICK q : q = request[s][1] /\ request'[s][1] = q
      BY <1>2, <1>4
    <2>2. Whole(q)
      BY <1>2, <1>4, <2>1 DEF TInv, RequestsWhole
    <2>3. Whole(q)'
      BY <2>2, WholeStays
    <2>4. QED
      BY <2>1, <2>3 DEF Whole
  <1>5. QED
    BY <1>3, <1>4

LEMMA RowsGrow ==
  ASSUME TInv, [Next]_vars
  PROVE  TInv'
  <1>1. IInv'
    BY StepGood DEF TInv
  <1>2. ASSUME stored' = stored, request' = request PROVE RowsFull' /\ RequestsWhole'
    <2>1. RowsFull'
      BY <1>2 DEF TInv, RowsFull
    <2>2. \A r \in Requests : request[r] # <<>> => Whole(request[r][1])'
      BY <1>2 DEF TInv, RequestsWhole, Whole
    <2>3. QED
      BY <1>2, <2>1, <2>2 DEF RequestsWhole
  <1>3. CASE UNCHANGED vars
    BY <1>1, <1>2, <1>3 DEF vars, TInv
  <1>4. ASSUME NEW part \in Changing, BeginWrite(part) PROVE TInv'
    BY <1>1, <1>2, <1>4 DEF BeginWrite, TInv
  <1>5. CASE CommitWrite
    BY <1>1, <1>2, <1>5 DEF CommitWrite, TInv
  <1>6. ASSUME NEW r \in Requests, Step(r) PROVE TInv'
    BY <1>1, <1>6, StepGoesOn, OthersWhole DEF TInv
  <1>7. ASSUME NEW r \in Requests, NEW name \in Names, Begin(r, name) PROVE TInv'
    <2>1. stored' = stored /\ \E entry : RequestGoesOn(r, entry)
      BY <1>7, BeginGoesOn
    <2>2. RequestsWhole'
      BY <2>1, OthersWhole
    <2>3. RowsFull'
      BY <2>1 DEF TInv, RowsFull
    <2>4. QED
      BY <1>1, <2>2, <2>3 DEF TInv
  <1>8. QED
    BY <1>3, <1>4, <1>5, <1>6, <1>7 DEF Next

LEMMA WholeIsTyped == TInv => TypeOK
  <1> SUFFICES ASSUME TInv PROVE TypeOK
    OBVIOUS
  <1>1. TablesOK /\ RowsFull /\ RequestsOK
    BY DEF TInv, IInv
  <1>2. clock \in 0 .. MaxWrites /\ logged \in [Logged -> 0 .. MaxWrites]
    BY <1>1 DEF TablesOK
  <1>3. version \in [Parts -> 0 .. MaxWrites]
    <2>1. version \in [Parts -> Nat]
      BY <1>1 DEF TablesOK
    <2>2. \A part \in Parts : version[part] \in 0 .. MaxWrites
      BY <1>1, VersionBound
    <2>3. QED
      BY <2>1, <2>2
  <1>4. writing \subseteq (Parts \X (1 .. MaxWrites))
    <2>1. 1 .. clock \subseteq 1 .. MaxWrites
      BY <1>2
    <2>2. QED
      BY <1>1, <2>1 DEF TablesOK, Changes
  <1>5. \A n \in Results : stored[n] = <<>> \/
           /\ stored[n][1].modified \in 0 .. MaxWrites
           /\ stored[n][1].data \in [Uses(n) -> 0 .. MaxWrites]
    BY <1>1 DEF RowsFull, Full
  <1>6. ASSUME NEW r \in Requests, request[r] # <<>>
        PROVE  request[r][1].start \in {NoTransaction} \cup 0 .. clock /\ request[r][1].ops # <<>>
    BY <1>1, <1>6 DEF RequestsOK, RequestOK, TransactionOK, ScriptOK
  <1>7. QED
    BY <1>2, <1>3, <1>4, <1>5, <1>6 DEF TypeOK

\* Every row of the table results holds its result in full: nothing is stored of
\* which a part was not read, nothing newer than what is committed, and no row
\* is loaded that is not there (_insertResults, _loadResults).
THEOREM RowsAreWhole == Spec => []TypeOK
  <1>1. Init => TInv
    <2>1. Init => RowsFull /\ RequestsWhole
      BY DEF Init, RowsFull, RequestsWhole
    <2>2. QED
      BY <2>1, InitGood DEF TInv
  <1>2. TInv /\ [Next]_vars => TInv'
    BY RowsGrow
  <1>3. TInv => TypeOK
    BY WholeIsTyped
  <1>4. QED
    BY <1>1, <1>2, <1>3, PTL DEF Spec
=============================================================================
