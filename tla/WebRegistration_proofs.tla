----------------------- MODULE WebRegistration_proofs -----------------------
(***************************************************************************)
(* Theorems about registering on the web with any number of requests at a  *)
(* time, of drivers, cars, connections and restarts of the database: the   *)
(* pool's count of connections, what a registration leaves behind, and the *)
(* limits.                                                                 *)
(*                                                                         *)
(* The invariant has two parts that do not need each other.  That of the   *)
(* pool says who holds a connection of which pool; that of the requests    *)
(* says that what a request has read still holds as long as nobody else    *)
(* has committed.                                                          *)
(***************************************************************************)
EXTENDS WebRegistration, FiniteSetTheorems, TLAPS

Unconnected == {"idle", "reset", "close", "create", "retry"}

\* A connection that works belongs to the pool or to a newer epoch; without
\* a database the pool is an old one.
Epochs ==
    /\ pool.epoch <= epoch /\ (~up => pool.epoch < epoch)
    /\ \A t \in Holding : pool.epoch <= db[t].epoch /\ db[t].epoch <= epoch

\* Who replaces the pool has the lock, and has closed the pool when he makes
\* the new one; of a closed pool nobody has a connection.
Replacing ==
    /\ \A t \in Threads : pc[t] \in {"close", "create"} => resetlock = t
    /\ \A t \in Threads : pc[t] = "create" => pool.closed
    /\ pool.closed => Holding = {} /\ pool.used = 0

Connected == \A t \in Threads : db[t] = NoConnection <=> pc[t] \in Unconnected

PoolInv == PoolTypeOK /\ pc \in [Threads -> Places]
           /\ NothingLeaks /\ Epochs /\ Replacing /\ Connected

\* A request at a place, r with what it has read, ch the drivers whose cars
\* changed since.
Requests == [driver : Drivers, cars : SUBSET Cars, mine : Nat, found : SUBSET Cars]

WithinLimits(r) ==
    /\ PerLimit > 0 => Cardinality(r.cars) <= PerLimit
    /\ TotLimit > 0 => Cardinality(r.cars) <= TotLimit - EntryCount + Cardinality(OfDriver(r.driver))
    /\ SinLimit > 0 /\ DriverCount >= SinLimit /\ OfDriver(r.driver) = {} => r.cars = {}

RequestOK(place, r, ch) ==
    /\ r.cars \subseteq CarsOf(r.driver) /\ r.found \subseteq CarsOf(r.driver)
    /\ place \notin Handling \ {"show"} => ch = {}
    /\ place = "count" /\ ch = {} => r.mine = Cardinality(OfDriver(r.driver))
    /\ place \in {"deleting", "insert", "commit"} /\ r.driver \notin ch
          => r.found = OfDriver(r.driver)
    /\ place \in {"delete", "deleting", "insert", "commit"} /\ ch = {} => WithinLimits(r)

RequestTypeOK ==
    /\ registered \subseteq Cars
    /\ request \in [Threads -> Requests] /\ changed \in [Threads -> SUBSET Drivers]

RequestInv == /\ RequestTypeOK
              /\ \A t \in Threads : RequestOK(pc[t], request[t], changed[t])

IInv == PoolInv /\ RequestInv

USE PoolAssumption, NoConnectionAssumption

-----------------------------------------------------------------------------
(* The pool. *)

LEMMA PlaceFacts ==
  /\ Unconnected \subseteq Places
  /\ {"serve", "return"} \union Handling \subseteq Places \ Unconnected
  /\ {"probe", "reprobe"} \subseteq Places \ Unconnected
  BY DEF Unconnected, Places, PoolPlaces, Handling

LEMMA HoldingFacts ==
  ASSUME PoolInv
  PROVE  /\ IsFiniteSet(Holding) /\ Holding \subseteq Threads
         /\ Cardinality(Holding) \in Nat
         /\ \A t \in Threads : t \in Holding => Cardinality(Holding) > 0
         /\ \A t \in Threads : t \in Holding <=> (db[t] # NoConnection /\ db[t].open)
  <1>1. Holding \subseteq Threads
    BY DEF Holding
  <1>2. IsFiniteSet(Holding) /\ Cardinality(Holding) \in Nat
    BY <1>1, FS_Subset, FS_CardinalityType
  <1>3. \A t \in Threads : t \in Holding => Cardinality(Holding) > 0
    BY <1>2, FS_EmptySet
  <1>4. QED
    BY <1>1, <1>2, <1>3 DEF Holding

\* The types, as the steps use them.
LEMMA PoolFacts ==
  ASSUME PoolInv
  PROVE  /\ up \in BOOLEAN /\ epoch \in 0 .. MaxRestarts
         /\ pool \in [epoch : 0 .. MaxRestarts, closed : BOOLEAN, used : 0 .. MaxConnections]
         /\ resetlock \in Threads \union {Nobody}
         /\ db \in [Threads -> Connections \union {NoConnection}]
         /\ pc \in [Threads -> Places]
         /\ \A t \in Threads : db[t] # NoConnection
               => db[t] \in Connections /\ db[t].epoch \in 0 .. MaxRestarts /\ db[t].open \in BOOLEAN
  BY DEF PoolInv, PoolTypeOK, Connections

\* A step of a request with its connection.
LEMMA RequestKeepsPool ==
  ASSUME PoolInv, NEW t \in Threads, UNCHANGED <<database, pool, resetlock, db>>,
         NEW place \in {"serve", "return"} \union Handling, Go(t, place),
         pc[t] \notin Unconnected
  PROVE  PoolInv'
  <1>1. /\ pc' = [pc EXCEPT ![t] = place] /\ place \in Places \ Unconnected
        /\ place \notin {"close", "create"}
    BY PlaceFacts DEF Go, Handling
  <1>2. Holding' = Holding /\ NothingLeaks' /\ Epochs' /\ PoolTypeOK'
    BY DEF Holding, NothingLeaks, Epochs, PoolTypeOK, PoolInv, database
  <1>3. pc' \in [Threads -> Places] /\ Connected'
    BY <1>1, PoolFacts DEF Connected, PoolInv
  <1>4. Replacing'
    BY <1>1, <1>2, PoolFacts DEF Replacing, PoolInv
  <1>5. QED
    BY <1>2, <1>3, <1>4 DEF PoolInv

\* A thread that holds nothing goes on with nothing.
LEMMA EmptyHandedKeepsPool ==
  ASSUME PoolInv, NEW t \in Threads, UNCHANGED <<database, pool, resetlock, db>>,
         NEW place \in {"idle", "reset", "retry"}, Go(t, place), pc[t] \in Unconnected
  PROVE  PoolInv'
  <1>1. /\ pc' = [pc EXCEPT ![t] = place] /\ place \in Unconnected /\ place \in Places
        /\ place \notin {"close", "create"}
    BY PlaceFacts DEF Go, Unconnected
  <1>2. Holding' = Holding /\ NothingLeaks' /\ Epochs' /\ PoolTypeOK'
    BY DEF Holding, NothingLeaks, Epochs, PoolTypeOK, PoolInv, database
  <1>3. pc' \in [Threads -> Places] /\ Connected'
    BY <1>1, PoolFacts DEF Connected, PoolInv
  <1>4. Replacing'
    BY <1>1, <1>2, PoolFacts DEF Replacing, PoolInv
  <1>5. QED
    BY <1>2, <1>3, <1>4 DEF PoolInv

LEMMA GetKeepsPool ==
  ASSUME PoolInv, NEW t \in Threads, Get(t)
  PROVE  PoolInv'
  <1>a. /\ pool.epoch \in 0 .. MaxRestarts /\ pool.used \in 0 .. MaxConnections
        /\ pool.epoch <= epoch /\ epoch \in 0 .. MaxRestarts
    BY PoolFacts DEF Epochs, PoolInv
  <1>1. /\ pc[t] \in {"idle", "retry"} /\ pc[t] \in Unconnected /\ db[t] = NoConnection
        /\ UNCHANGED <<database, resetlock>>
    BY DEF Get, Unconnected, Connected, PoolInv
  <1>2. CASE UNCHANGED pool
    <2>a. [db EXCEPT ![t] = NoConnection] = db
      BY <1>1, PoolFacts
    <2>b. pool' # [pool EXCEPT !.used = @ + 1]
      BY <1>a, <1>2, PoolFacts
    <2>1. PICK place \in {"idle", "reset"} : Go(t, place) /\ UNCHANGED db
      BY <2>a, <2>b DEF Get, End
    <2>2. QED
      BY <1>1, <1>2, <2>1, EmptyHandedKeepsPool
  <1>3. CASE ~UNCHANGED pool
    <2>1. /\ ~pool.closed /\ pool.used < MaxConnections
          /\ pool' = [pool EXCEPT !.used = @ + 1]
      BY <1>3 DEF Get
    <2>2. PICK e \in pool.epoch .. epoch :
                 db' = [db EXCEPT ![t] = [epoch |-> e, open |-> TRUE]]
      BY <1>3 DEF Get
    <2>3. PICK place \in {"probe", "reprobe"} : pc' = [pc EXCEPT ![t] = place]
      BY <1>3 DEF Get, Go
    <2>4. /\ place \in Places \ Unconnected /\ place \notin {"close", "create"}
      BY PlaceFacts
    <2>5. /\ e \in 0 .. MaxRestarts /\ pool.epoch <= e /\ e <= epoch
          /\ [epoch |-> e, open |-> TRUE] \in Connections
      <3>1. e \in 0 .. MaxRestarts /\ pool.epoch <= e /\ e <= epoch
        BY <1>a
      <3>2. QED
        BY <3>1 DEF Connections
    <2> DEFINE c == [epoch |-> e, open |-> TRUE]
    <2>c. c \in Connections /\ c # NoConnection /\ c.open /\ c.epoch = e
      BY <2>5
    <2>d. db' = [db EXCEPT ![t] = c]
      BY <2>2
    <2> HIDE DEF c
    <2>6. /\ Holding' = Holding \union {t} /\ t \notin Holding
          /\ \A u \in Threads : u # t => db'[u] = db[u]
          /\ db'[t] = c
      BY <1>1, <2>c, <2>d, PoolFacts DEF Holding
    <2>7. /\ Cardinality(Holding') = Cardinality(Holding) + 1
          /\ pool'.used = pool.used + 1 /\ pool'.epoch = pool.epoch /\ pool'.closed = pool.closed
      <3>1. Cardinality(Holding \union {t}) = Cardinality(Holding) + 1
        <4>1. IsFiniteSet(Holding)
          BY HoldingFacts
        <4>2. QED
          BY <2>6, <4>1, FS_AddElement
      <3>2. pool'.used = pool.used + 1 /\ pool'.epoch = pool.epoch /\ pool'.closed = pool.closed
        BY <2>1, PoolFacts
      <3>3. QED
        BY <2>6, <3>1, <3>2
    <2>8. PoolTypeOK' /\ pc' \in [Threads -> Places]
      <3>1. pool' \in [epoch : 0 .. MaxRestarts, closed : BOOLEAN, used : 0 .. MaxConnections]
        <4>1. pool.used + 1 \in 0 .. MaxConnections
          BY <1>a, <2>1
        <4>2. QED
          BY <2>1, <4>1, PoolFacts
      <3>2. db' \in [Threads -> Connections \union {NoConnection}]
        BY <2>c, <2>d, PoolFacts
      <3>3. QED
        BY PoolFacts, <1>1, <2>3, <2>4, <3>1, <3>2 DEF PoolTypeOK, database
    <2>9. NothingLeaks'
      BY <1>1, <1>a, <2>7, HoldingFacts DEF NothingLeaks, PoolInv, database
    <2>10. Epochs'
      <3>1. pool'.epoch <= epoch' /\ (~up' => pool'.epoch < epoch')
        BY <1>1, <2>7 DEF Epochs, PoolInv, database
      <3>2. ASSUME NEW u \in Holding'
            PROVE  pool'.epoch <= db'[u].epoch /\ db'[u].epoch <= epoch'
        <4>1. CASE u = t
          BY <1>1, <2>5, <2>c, <2>6, <2>7, <4>1 DEF database
        <4>2. CASE u # t
          BY <1>1, <2>6, <2>7, <4>2, HoldingFacts DEF Epochs, PoolInv, database
        <4>3. QED
          BY <4>1, <4>2
      <3>3. QED
        BY <3>1, <3>2 DEF Epochs
    <2>11. Replacing'
      BY <1>1, <2>1, <2>3, <2>4, <2>7, PoolFacts DEF Replacing, PoolInv
    <2>12. Connected'
      BY <2>3, <2>4, <2>c, <2>6, PoolFacts DEF Connected, PoolInv
    <2>13. QED
      BY <2>8, <2>9, <2>10, <2>11, <2>12 DEF PoolInv
  <1>4. QED
    BY <1>2, <1>3

\* A thread forgets its connection.  When that was one of the pool's, the pool
\* is older than the database, or the connection was given back.
LEMMA ForgettingKeepsPool ==
  ASSUME PoolInv, NEW t \in Threads, NEW place \in {"idle", "reset"}, Go(t, place),
         db' = [db EXCEPT ![t] = NoConnection], UNCHANGED <<database, resetlock>>,
         pc[t] \notin Unconnected,
         \/ UNCHANGED pool /\ ~Works(db[t])
         \/ t \in Holding /\ pool' = [pool EXCEPT !.used = @ - 1]
  PROVE  PoolInv'
  <1> USE PoolFacts, HoldingFacts
  <1>1. /\ pc' = [pc EXCEPT ![t] = place] /\ place \in Unconnected /\ place \in Places
        /\ place \notin {"close", "create"}
    BY PlaceFacts DEF Go, Unconnected
  <1>2. /\ Holding' = Holding \ {t}
        /\ \A u \in Threads : u # t => db'[u] = db[u]
        /\ db'[t] = NoConnection
    BY DEF Holding
  <1>3. Cardinality(Holding') = IF t \in Holding THEN Cardinality(Holding) - 1
                                ELSE Cardinality(Holding)
    BY <1>2, FS_RemoveElement
  <1>4. /\ pool'.epoch = pool.epoch /\ pool'.closed = pool.closed
        /\ pool'.used = pool.used \/ (t \in Holding /\ pool'.used = pool.used - 1)
    OBVIOUS
  <1>5. NothingLeaks'
    <2>1. CASE UNCHANGED pool /\ ~Works(db[t])
      <3>1. CASE t \in Holding
        <4>1. pool.epoch < epoch
          BY <2>1, <3>1 DEF Works, Epochs, PoolInv
        <4>2. QED
          BY <1>3, <2>1, <3>1, <4>1 DEF NothingLeaks, PoolInv, database
      <3>2. CASE t \notin Holding
        BY <1>3, <2>1, <3>2 DEF NothingLeaks, PoolInv, database
      <3>3. QED
        BY <3>1, <3>2
    <2>2. CASE t \in Holding /\ pool' = [pool EXCEPT !.used = @ - 1]
      BY <1>3, <2>2 DEF NothingLeaks, PoolInv, database
    <2>3. QED
      BY <2>1, <2>2
  <1>6. PoolTypeOK' /\ pc' \in [Threads -> Places]
    <2>1. pool' \in [epoch : 0 .. MaxRestarts, closed : BOOLEAN, used : 0 .. MaxConnections]
      BY DEF NothingLeaks, PoolInv
    <2>2. QED
      BY <1>1, <2>1 DEF PoolTypeOK, database
  <1>7. Epochs'
    BY <1>2, <1>4 DEF Epochs, PoolInv, database
  <1>8. Replacing'
    BY <1>1, <1>2, <1>4 DEF Replacing, PoolInv
  <1>9. Connected'
    BY <1>1, <1>2 DEF Connected, PoolInv
  <1>10. QED
    BY <1>5, <1>6, <1>7, <1>8, <1>9 DEF PoolInv

LEMMA ProbeKeepsPool ==
  ASSUME PoolInv, NEW t \in Threads, Probe(t)
  PROVE  PoolInv'
  <1>1. /\ pc[t] \in {"probe", "reprobe"} /\ pc[t] \notin Unconnected
        /\ UNCHANGED <<database, pool, resetlock>>
    BY DEF Probe, Unconnected
  <1>2. CASE Works(db[t])
    <2>1. Go(t, "serve") /\ UNCHANGED db
      BY <1>2 DEF Probe
    <2>2. QED
      BY <1>1, <2>1, RequestKeepsPool
  <1>3. CASE ~Works(db[t])
    <2>1. PICK place \in {"idle", "reset"} :
             Go(t, place) /\ db' = [db EXCEPT ![t] = NoConnection]
      BY <1>3 DEF Probe, End
    <2>2. QED
      BY <1>1, <1>3, <2>1, ForgettingKeepsPool
  <1>4. QED
    BY <1>2, <1>3

LEMMA ReturnKeepsPool ==
  ASSUME PoolInv, NEW t \in Threads, Return(t)
  PROVE  PoolInv'
  <1>1. /\ pc[t] = "return" /\ pc[t] \notin Unconnected /\ db[t] # NoConnection
        /\ UNCHANGED <<database, resetlock>>
        /\ Go(t, "idle") /\ db' = [db EXCEPT ![t] = NoConnection]
    BY DEF Return, End, Unconnected, Connected, PoolInv
  <1>2. CASE db[t].open
    <2>1. t \in Holding /\ pool' = [pool EXCEPT !.used = @ - 1]
      BY <1>1, <1>2 DEF Return, Holding
    <2>2. QED
      BY <1>1, <2>1, ForgettingKeepsPool
  <1>3. CASE ~db[t].open
    <2>1. UNCHANGED pool /\ ~Works(db[t])
      BY <1>3 DEF Return, Works
    <2>2. QED
      BY <1>1, <2>1, ForgettingKeepsPool
  <1>4. QED
    BY <1>2, <1>3

\* Whoever gets the lock replaces the pool, the others go on.
LEMMA ResetKeepsPool ==
  ASSUME PoolInv, NEW t \in Threads, Reset(t)
  PROVE  PoolInv'
  <1>1. /\ pc[t] = "reset" /\ pc[t] \in Unconnected
        /\ UNCHANGED <<database, pool, db>>
    BY DEF Reset, Unconnected
  <1>2. CASE resetlock # Nobody
    <2>1. Go(t, "retry") /\ UNCHANGED resetlock
      BY <1>2 DEF Reset
    <2>2. QED
      BY <1>1, <2>1, EmptyHandedKeepsPool
  <1>3. CASE resetlock = Nobody
    <2>1. resetlock' = t /\ pc' = [pc EXCEPT ![t] = "close"]
      BY <1>3 DEF Reset, Go
    <2>2. Holding' = Holding /\ NothingLeaks' /\ Epochs' /\ PoolTypeOK'
      BY <1>1, <2>1 DEF Holding, NothingLeaks, Epochs, PoolTypeOK, PoolInv, database
    <2>3. "close" \in Unconnected /\ "close" \in Places
      BY DEF Unconnected, Places, PoolPlaces
    <2>4. pc' \in [Threads -> Places] /\ Connected'
      BY <1>1, <2>1, <2>3, PoolFacts DEF Connected, PoolInv
    <2>5. \A u \in Threads : pc[u] \notin {"close", "create"}
      BY <1>3 DEF Replacing, PoolInv
    <2>6. Replacing'
      BY <1>1, <2>1, <2>2, <2>5, PoolFacts DEF Replacing, PoolInv
    <2>7. QED
      BY <2>2, <2>4, <2>6 DEF PoolInv
  <1>4. QED
    BY <1>2, <1>3

\* Nobody has an open connection afterwards.
LEMMA CloseKeepsPool ==
  ASSUME PoolInv, NEW t \in Threads, Close(t)
  PROVE  PoolInv'
  <1>1. /\ pc[t] = "close" /\ resetlock = t
        /\ pool' = [pool EXCEPT !.closed = TRUE, !.used = 0]
        /\ db' = [u \in Threads |-> IF db[u] = NoConnection THEN NoConnection
                                    ELSE [db[u] EXCEPT !.open = FALSE]]
        /\ pc' = [pc EXCEPT ![t] = "create"]
        /\ UNCHANGED <<database, resetlock>>
    BY DEF Close, Go, Replacing, PoolInv
  <1>2. pool' \in [epoch : 0 .. MaxRestarts, closed : BOOLEAN, used : 0 .. MaxConnections]
        /\ pool'.used = 0 /\ pool'.closed /\ pool'.epoch = pool.epoch
    <2>1. 0 \in 0 .. MaxConnections
      OBVIOUS
    <2>2. QED
      BY <1>1, <2>1, PoolFacts
  <1>3. ASSUME NEW u \in Threads
        PROVE  /\ db'[u] \in Connections \union {NoConnection}
               /\ db'[u] = NoConnection <=> db[u] = NoConnection
               /\ db'[u] # NoConnection => ~db'[u].open
    <2>1. CASE db[u] = NoConnection
      BY <1>1, <2>1
    <2>2. CASE db[u] # NoConnection
      <3>1. /\ db[u] \in Connections /\ db'[u] = [db[u] EXCEPT !.open = FALSE]
        BY <1>1, <2>2, PoolFacts
      <3>2. db'[u] \in Connections /\ ~db'[u].open
        BY <3>1 DEF Connections
      <3>3. QED
        BY <2>2, <3>2
    <2>3. QED
      BY <2>1, <2>2
  <1>4. Holding' = {} /\ Cardinality(Holding') = 0
    BY <1>3, FS_EmptySet DEF Holding
  <1>5. NothingLeaks' /\ Epochs'
    <2>1. NothingLeaks'
      BY <1>2, <1>4 DEF NothingLeaks
    <2>2. Epochs'
      BY <1>1, <1>2, <1>4 DEF Epochs, PoolInv, database
    <2>3. QED
      BY <2>1, <2>2
  <1>6. "create" \in Unconnected /\ "create" \in Places /\ "close" \in Unconnected
    BY DEF Unconnected, Places, PoolPlaces
  <1>7. PoolTypeOK' /\ pc' \in [Threads -> Places]
    <2>1. db' \in [Threads -> Connections \union {NoConnection}]
      BY <1>1, <1>3
    <2>2. QED
      BY <1>1, <1>2, <1>6, <2>1, PoolFacts DEF PoolTypeOK, database
  <1>8. Replacing'
    BY <1>1, <1>2, <1>4, PoolFacts DEF Replacing, PoolInv
  <1>9. Connected'
    BY <1>1, <1>3, <1>6, PoolFacts DEF Connected, PoolInv
  <1>10. QED
    BY <1>5, <1>7, <1>8, <1>9 DEF PoolInv

\* The new pool begins with nothing given out, as nobody holds anything.
LEMMA CreateKeepsPool ==
  ASSUME PoolInv, NEW t \in Threads, Create(t)
  PROVE  PoolInv'
  <1> DEFINE fresh == [epoch |-> epoch, closed |-> FALSE, used |-> 0]
  <1>1. /\ pc[t] = "create" /\ resetlock = t /\ pool.closed /\ Holding = {} /\ pool.used = 0
        /\ pool' = IF up THEN fresh ELSE pool
        /\ resetlock' = Nobody /\ pc' = [pc EXCEPT ![t] = "retry"]
        /\ UNCHANGED <<database, db>>
    BY DEF Create, Go, Replacing, PoolInv
  <1>2. Holding' = {} /\ Cardinality(Holding') = 0
    BY <1>1, FS_EmptySet DEF Holding
  <1>3. fresh \in [epoch : 0 .. MaxRestarts, closed : BOOLEAN, used : 0 .. MaxConnections]
        /\ fresh.epoch = epoch /\ fresh.used = 0 /\ ~fresh.closed
    <2>1. 0 \in 0 .. MaxConnections
      OBVIOUS
    <2>2. QED
      BY <2>1, PoolFacts
  <1> HIDE DEF fresh
  <1>4. /\ pool' \in [epoch : 0 .. MaxRestarts, closed : BOOLEAN, used : 0 .. MaxConnections]
        /\ pool'.used = 0 /\ pool'.epoch <= epoch /\ (~up => pool'.epoch < epoch)
    BY <1>1, <1>3, PoolFacts DEF Epochs, PoolInv
  <1>5. NothingLeaks'
    BY <1>2, <1>4 DEF NothingLeaks
  <1>6. Epochs'
    BY <1>1, <1>2, <1>4 DEF Epochs, database
  <1>7. "retry" \in Unconnected /\ "retry" \in Places /\ "create" \in Unconnected
    BY DEF Unconnected, Places, PoolPlaces
  <1>8. PoolTypeOK' /\ pc' \in [Threads -> Places]
    BY <1>1, <1>4, <1>7, PoolFacts DEF PoolTypeOK, database
  <1>9. Replacing'
    <2>1. \A u \in Threads : pc'[u] \notin {"close", "create"}
      BY <1>1, PoolFacts DEF Replacing, PoolInv
    <2>2. QED
      BY <1>2, <1>4, <2>1 DEF Replacing
  <1>10. Connected'
    BY <1>1, <1>7, PoolFacts DEF Connected, PoolInv
  <1>11. QED
    BY <1>5, <1>6, <1>8, <1>9, <1>10 DEF PoolInv

LEMMA PoolingKeepsPool ==
  ASSUME PoolInv, NEW t \in Threads, Pooling(t)
  PROVE  PoolInv'
  BY GetKeepsPool, ProbeKeepsPool, ResetKeepsPool, CloseKeepsPool, CreateKeepsPool,
     ReturnKeepsPool DEF Pooling

\* The database goes away: the pool is older than it from then on.
LEMMA DatabaseKeepsPool ==
  ASSUME PoolInv, GoesAway \/ ComesBack
  PROVE  PoolInv'
  <1>1. UNCHANGED <<pool, resetlock, pc, db>>
    BY DEF GoesAway, ComesBack
  <1>2. /\ up' \in BOOLEAN /\ epoch' \in 0 .. MaxRestarts /\ epoch <= epoch'
        /\ ~up' => epoch' = epoch + 1
        /\ epoch' # epoch => epoch' = epoch + 1
    <2>1. CASE GoesAway
      <3>1. up' = FALSE /\ epoch' = epoch + 1 /\ epoch < MaxRestarts
        BY <2>1, Zenon DEF GoesAway
      <3>2. epoch \in 0 .. MaxRestarts
        BY PoolFacts
      <3>3. up' \in BOOLEAN /\ (~up' => epoch' = epoch + 1)
        BY <3>1, Zenon
      <3>4. epoch' \in 0 .. MaxRestarts /\ epoch <= epoch' /\ (epoch' # epoch => epoch' = epoch + 1)
        <4> HIDE NoConnectionAssumption
        <4>1. epoch' = epoch + 1 /\ epoch < MaxRestarts
          BY <3>1
        <4>2. QED
          BY <3>2, <4>1
      <3>5. QED
        BY <3>3, <3>4
    <2>2. CASE ComesBack
      <3>1. up' = TRUE /\ epoch' = epoch
        BY <2>2, Zenon DEF ComesBack
      <3>2. epoch \in 0 .. MaxRestarts
        BY PoolFacts
      <3>3. up' \in BOOLEAN /\ (~up' => epoch' = epoch + 1)
        BY <3>1, Zenon
      <3>4. epoch' \in 0 .. MaxRestarts /\ epoch <= epoch' /\ (epoch' # epoch => epoch' = epoch + 1)
        <4> HIDE NoConnectionAssumption
        <4>1. epoch' = epoch
          BY <3>1
        <4>2. QED
          BY <3>2, <4>1
      <3>5. QED
        BY <3>3, <3>4
    <2>3. QED
      BY <2>1, <2>2
  <1>3. Holding' = Holding
    BY <1>1 DEF Holding
  <1>4. pool.epoch \in 0 .. MaxRestarts /\ epoch \in 0 .. MaxRestarts /\ pool.epoch <= epoch
    BY PoolFacts DEF Epochs, PoolInv
  <1>5. NothingLeaks'
    BY <1>1, <1>2, <1>3, <1>4 DEF NothingLeaks, PoolInv
  <1>6. Epochs'
    <2>1. \A t \in Holding : db[t].epoch \in 0 .. MaxRestarts
      BY PoolFacts, HoldingFacts
    <2>2. QED
      BY <1>1, <1>2, <1>3, <1>4, <2>1 DEF Epochs, PoolInv
  <1>7. PoolTypeOK' /\ Replacing' /\ Connected'
    BY <1>1, <1>2, <1>3 DEF PoolTypeOK, Replacing, Connected, PoolInv
  <1>8. QED
    BY <1>1, <1>5, <1>6, <1>7 DEF PoolInv

-----------------------------------------------------------------------------
(* The requests. *)

LEMMA CarFacts ==
  ASSUME RequestTypeOK
  PROVE  /\ IsFiniteSet(registered) /\ EntryCount \in Nat
         /\ \A d : /\ CarsOf(d) \subseteq Cars /\ IsFiniteSet(CarsOf(d))
                   /\ OfDriver(d) \subseteq registered /\ IsFiniteSet(OfDriver(d))
                   /\ Cardinality(OfDriver(d)) \in Nat
         /\ \A S \in SUBSET Cars : IsFiniteSet(S) /\ Cardinality(S) \in Nat
         /\ {SinLimit, PerLimit, TotLimit} \subseteq Nat
  <1>1. \A S \in SUBSET Cars : IsFiniteSet(S) /\ Cardinality(S) \in Nat
    BY LimitsAssumption, FS_Subset, FS_CardinalityType
  <1>2. \A d : CarsOf(d) \in SUBSET Cars /\ OfDriver(d) \in SUBSET Cars /\ OfDriver(d) \subseteq registered
    BY DEF CarsOf, OfDriver, RequestTypeOK
  <1>3. registered \in SUBSET Cars
    BY DEF RequestTypeOK
  <1>4. QED
    BY <1>1, <1>2, <1>3, LimitsAssumption DEF EntryCount

LEMMA NoRequestOK ==
  /\ NoRequest \in Requests
  /\ \A place \in Places \ {"count", "delete", "deleting", "insert", "commit"} :
        RequestOK(place, NoRequest, {})
  <1>1. NoRequest.driver \in Drivers /\ 0 \in Nat
    BY LimitsAssumption DEF NoRequest
  <1>2. NoRequest \in Requests /\ NoRequest.cars = {} /\ NoRequest.found = {}
    BY <1>1 DEF NoRequest, Requests
  <1>3. QED
    BY <1>2 DEF RequestOK

\* Only what one thread has read changes.
LEMMA OneRequest ==
  ASSUME RequestInv, pc \in [Threads -> Places], NEW t \in Threads, UNCHANGED registered,
         NEW place, pc' = [pc EXCEPT ![t] = place],
         NEW r \in Requests, request' = [request EXCEPT ![t] = r],
         NEW ch \in SUBSET Drivers, changed' = [changed EXCEPT ![t] = ch],
         RequestOK(place, r, ch)
  PROVE  RequestInv'
  <1>1. RequestTypeOK'
    BY DEF RequestTypeOK, RequestInv
  <1>2. \A p, q, c : RequestOK(p, q, c)' <=> RequestOK(p, q, c)
    BY DEF RequestOK, WithinLimits, OfDriver, EntryCount, DriverCount
  <1>3. ASSUME NEW u \in Threads
        PROVE  RequestOK(pc'[u], request'[u], changed'[u])
    <2>1. CASE u = t
      BY <2>1 DEF RequestTypeOK, RequestInv
    <2>2. CASE u # t
      BY <2>2 DEF RequestTypeOK, RequestInv
    <2>3. QED
      BY <2>1, <2>2
  <1>4. QED
    BY <1>1, <1>2, <1>3 DEF RequestInv

\* A request ends, or is decided.
LEMMA DecidedKeeps ==
  ASSUME RequestInv, pc \in [Threads -> Places], NEW t \in Threads, UNCHANGED registered,
         NEW place \in {"show", "return"}, Decided(t, place)
  PROVE  RequestInv'
  <1>1. /\ pc' = [pc EXCEPT ![t] = place]
        /\ request' = [request EXCEPT ![t] = NoRequest]
        /\ changed' = [changed EXCEPT ![t] = {}]
    BY DEF Decided, Go
  <1>2. RequestOK(place, NoRequest, {}) /\ NoRequest \in Requests /\ {} \in SUBSET Drivers
    <2>1. place \in Places \ {"count", "delete", "deleting", "insert", "commit"}
      BY DEF Places, PoolPlaces, Handling
    <2>2. QED
      BY <2>1, NoRequestOK
  <1>3. QED
    BY <1>1, <1>2, OneRequest

\* What the invariant says of one request.
LEMMA RequestFacts ==
  ASSUME RequestInv, NEW t \in Threads
  PROVE  /\ request[t] \in Requests /\ changed[t] \in SUBSET Drivers
         /\ request[t].driver \in Drivers /\ request[t].mine \in Nat
         /\ request[t].cars \in SUBSET Cars /\ request[t].found \in SUBSET Cars
         /\ RequestOK(pc[t], request[t], changed[t])
         /\ RequestTypeOK
  BY DEF RequestInv, RequestTypeOK, Requests

LEMMA ReadMineKeeps ==
  ASSUME RequestInv, pc \in [Threads -> Places], NEW t \in Threads, ReadMine(t)
  PROVE  RequestInv'
  <1>b. changed[t] = {}
    BY RequestFacts DEF ReadMine, Statement, RequestOK, Handling
  <1>a. PICK d \in Drivers : \E cars \in SUBSET CarsOf(d) :
           request' = [request EXCEPT ![t] = [driver |-> d, cars |-> cars,
                          mine |-> Cardinality(OfDriver(d)), found |-> {}]]
    BY DEF ReadMine
  <1>1. PICK cars \in SUBSET CarsOf(d) :
           request' = [request EXCEPT ![t] = [driver |-> d, cars |-> cars,
                          mine |-> Cardinality(OfDriver(d)), found |-> {}]]
    BY <1>a
  <1> DEFINE r == [driver |-> d, cars |-> cars, mine |-> Cardinality(OfDriver(d)), found |-> {}]
  <1>2. r \in Requests /\ r.driver = d /\ r.cars = cars /\ r.found = {}
        /\ r.mine = Cardinality(OfDriver(d))
    <2>1. cars \in SUBSET Cars /\ Cardinality(OfDriver(d)) \in Nat /\ {} \in SUBSET Cars
      BY CarFacts DEF RequestInv
    <2>2. QED
      BY <2>1 DEF Requests
  <1>3. request' = [request EXCEPT ![t] = r]
    BY <1>1
  <1> HIDE DEF r
  <1>4. /\ pc' = [pc EXCEPT ![t] = "count"] /\ UNCHANGED <<registered, changed>>
        /\ changed' = [changed EXCEPT ![t] = {}]
    BY <1>b DEF ReadMine, Go, RequestInv, RequestTypeOK
  <1>5. RequestOK("count", r, {})
    BY <1>2 DEF RequestOK, Handling
  <1>6. QED
    BY <1>2, <1>3, <1>4, <1>5, OneRequest

\* A request that is let through is within the limits.
LEMMA CountKeeps ==
  ASSUME RequestInv, pc \in [Threads -> Places], NEW t \in Threads, Count(t)
  PROVE  RequestInv'
  <1>1. UNCHANGED registered /\ pc[t] = "count"
    BY DEF Count, Statement
  <1>2. CASE \/ Uncounted
             \/ \E limit \in MyLimits(request[t].mine) : Cardinality(request[t].cars) > limit
    <2>1. PICK place \in {"show", "return"} : Decided(t, place)
      BY <1>2 DEF Count, Answer
    <2>2. QED
      BY <1>1, <2>1, DecidedKeeps
  <1>3. CASE /\ ~Uncounted
             /\ ~\E limit \in MyLimits(request[t].mine) : Cardinality(request[t].cars) > limit
    <2> DEFINE r == [request[t] EXCEPT !.mine = 0]
    <2>1. /\ pc' = [pc EXCEPT ![t] = "delete"] /\ UNCHANGED changed
          /\ request' = [request EXCEPT ![t].mine = 0]
      BY <1>3 DEF Count, Go
    <2>2. /\ r \in Requests /\ r.driver = request[t].driver /\ r.cars = request[t].cars
          /\ r.found = request[t].found
          /\ request' = [request EXCEPT ![t] = r]
      <3>1. request[t] \in Requests /\ 0 \in Nat
        BY RequestFacts
      <3>2. request' = [request EXCEPT ![t] = r]
        BY <2>1, <3>1 DEF RequestInv, RequestTypeOK
      <3>3. QED
        BY <3>1, <3>2 DEF Requests
    <2> HIDE DEF r
    <2>3. changed' = [changed EXCEPT ![t] = changed[t]] /\ changed[t] \in SUBSET Drivers
      BY <2>1, RequestFacts DEF RequestInv, RequestTypeOK
    <2>4. ASSUME changed[t] = {}
          PROVE  WithinLimits(r)
      <3> DEFINE n == Cardinality(r.cars)
                 mine == request[t].mine
      <3>1. mine = Cardinality(OfDriver(r.driver)) /\ mine \in Nat
        BY <1>1, <2>2, <2>4, RequestFacts DEF RequestOK
      <3>2. /\ n \in Nat /\ EntryCount \in Nat /\ IsFiniteSet(r.cars)
            /\ IsFiniteSet(OfDriver(r.driver))
        BY <2>2, CarFacts DEF Requests, RequestInv
      <3>3. \A limit \in MyLimits(mine) : ~(n > limit)
        BY <1>3, <2>2
      <3>4. PerLimit > 0 => n <= PerLimit
        <4>1. PerLimit > 0 => PerLimit \in MyLimits(mine)
          BY DEF MyLimits
        <4>2. PerLimit \in Nat
          BY LimitsAssumption
        <4>3. QED
          BY <3>2, <3>3, <4>1, <4>2
      <3>5. TotLimit > 0 => n <= TotLimit - EntryCount + mine
        <4>1. TotLimit > 0 => TotLimit - EntryCount + mine \in MyLimits(mine)
          BY DEF MyLimits
        <4>2. TotLimit \in Nat
          BY LimitsAssumption
        <4>3. QED
          BY <3>1, <3>2, <3>3, <4>1, <4>2
      <3>6. SinLimit > 0 /\ DriverCount >= SinLimit /\ OfDriver(r.driver) = {} => r.cars = {}
        <4> SUFFICES ASSUME SinLimit > 0, DriverCount >= SinLimit, OfDriver(r.driver) = {}
                     PROVE  r.cars = {}
          OBVIOUS
        <4>1. mine = 0
          BY <3>1, FS_EmptySet
        <4>2. 0 \in MyLimits(mine)
          BY <4>1 DEF MyLimits
        <4>3. n = 0
          BY <3>2, <3>3, <4>2
        <4>4. QED
          BY <3>2, <4>3, FS_EmptySet
      <3>7. QED
        BY <3>1, <3>4, <3>5, <3>6 DEF WithinLimits
    <2>5. RequestOK("delete", r, changed[t])
      BY <2>2, <2>4, RequestFacts DEF RequestOK, Handling
    <2>6. QED
      BY <1>1, <2>1, <2>2, <2>3, <2>5, OneRequest
  <1>4. QED
    BY <1>2, <1>3

\* The deletion finds the rows of the driver.
LEMMA FindKeeps ==
  ASSUME RequestInv, pc \in [Threads -> Places], NEW t \in Threads, Find(t)
  PROVE  RequestInv'
  <1> DEFINE r == [request[t] EXCEPT !.found = OfDriver(request[t].driver)]
  <1>1. /\ pc[t] = "delete" /\ pc' = [pc EXCEPT ![t] = "deleting"]
        /\ UNCHANGED <<registered, changed>>
        /\ request' = [request EXCEPT ![t].found = OfDriver(request[t].driver)]
    BY DEF Find, Statement, Go
  <1>2. /\ r \in Requests /\ r.driver = request[t].driver /\ r.cars = request[t].cars
        /\ r.found = OfDriver(r.driver)
        /\ request' = [request EXCEPT ![t] = r]
    <2>1. request[t] \in Requests /\ OfDriver(request[t].driver) \in SUBSET Cars
      BY RequestFacts, CarFacts DEF OfDriver, CarsOf
    <2>2. request' = [request EXCEPT ![t] = r]
      BY <1>1, <2>1 DEF RequestInv, RequestTypeOK
    <2>3. QED
      BY <2>1, <2>2 DEF Requests
  <1> HIDE DEF r
  <1>3. changed' = [changed EXCEPT ![t] = changed[t]] /\ changed[t] \in SUBSET Drivers
    BY <1>1, RequestFacts DEF RequestInv, RequestTypeOK
  <1>4. RequestOK("deleting", r, changed[t])
    <2>1. changed[t] = {} => WithinLimits(request[t])
      BY <1>1, RequestFacts DEF RequestOK
    <2>2. changed[t] = {} => WithinLimits(r)
      BY <1>2, <2>1 DEF WithinLimits
    <2>3. r.found \subseteq CarsOf(r.driver)
      BY <1>2 DEF OfDriver
    <2>4. QED
      BY <1>2, <2>2, <2>3, RequestFacts DEF RequestOK, Handling
  <1>5. QED
    BY <1>1, <1>2, <1>3, <1>4, OneRequest

\* Only the place of a request changes, from a place of which more was known.
LEMMA PlaceKeeps ==
  ASSUME RequestInv, pc \in [Threads -> Places], NEW t \in Threads,
         UNCHANGED <<registered, request, changed>>, NEW place, Go(t, place),
         \/ place \notin Handling /\ pc[t] \notin Handling
         \/ pc[t] = "deleting" /\ place = "insert"
         \/ pc[t] = "insert" /\ place = "commit"
  PROVE  RequestInv'
  <1>1. /\ pc' = [pc EXCEPT ![t] = place]
        /\ request' = [request EXCEPT ![t] = request[t]]
        /\ changed' = [changed EXCEPT ![t] = changed[t]]
        /\ request[t] \in Requests /\ changed[t] \in SUBSET Drivers
    BY RequestFacts DEF Go, RequestInv, RequestTypeOK
  <1>2. RequestOK(place, request[t], changed[t])
    BY RequestFacts DEF RequestOK, Handling
  <1>3. QED
    BY <1>1, <1>2, OneRequest

\* A commit replaces the rows of its driver by those that were asked for, if
\* nobody else has changed them.
LEMMA CommitFacts ==
  ASSUME RequestInv, NEW t \in Threads, Commit(t)
  PROVE  /\ pc[t] = "commit" /\ pc' = [pc EXCEPT ![t] = "show"]
         /\ registered' = (registered \ request[t].found) \union request[t].cars
         /\ registered' \subseteq Cars
         /\ \A d \in Drivers : d # request[t].driver => OfDriver(d)' = OfDriver(d)
         /\ request[t].driver \notin changed[t]
               => /\ request[t].found = OfDriver(request[t].driver)
                  /\ registered' \intersect CarsOf(request[t].driver) = request[t].cars
  <1>1. /\ pc[t] = "commit" /\ pc' = [pc EXCEPT ![t] = "show"]
        /\ registered' = (registered \ request[t].found) \union request[t].cars
    BY DEF Commit, Statement, Go, Deleted, Inserted
  <1>2. /\ request[t].cars \subseteq CarsOf(request[t].driver)
        /\ request[t].found \subseteq CarsOf(request[t].driver)
        /\ request[t].driver \notin changed[t] => request[t].found = OfDriver(request[t].driver)
        /\ registered \subseteq Cars
    BY <1>1, RequestFacts DEF RequestOK, RequestTypeOK
  <1>3. registered' \subseteq Cars
    BY <1>1, <1>2 DEF CarsOf
  <1>4. \A d \in Drivers : d # request[t].driver => OfDriver(d)' = OfDriver(d)
    BY <1>1, <1>2 DEF OfDriver, CarsOf
  <1>5. request[t].driver \notin changed[t]
           => registered' \intersect CarsOf(request[t].driver) = request[t].cars
    BY <1>1, <1>2 DEF OfDriver
  <1>6. QED
    BY <1>1, <1>2, <1>3, <1>4, <1>5

LEMMA CommitKeeps ==
  ASSUME RequestInv, pc \in [Threads -> Places], NEW t \in Threads, Commit(t)
  PROVE  RequestInv'
  <1> DEFINE d == request[t].driver
             gone == request[t].found
  <1>1. /\ pc[t] = "commit" /\ pc' = [pc EXCEPT ![t] = "show"]
        /\ request' = [Left(gone) EXCEPT ![t] = NoRequest]
        /\ changed' = [Told(d) EXCEPT ![t] = {}]
    BY CommitFacts DEF Commit, Deleted
  <1>2. /\ d \in Drivers /\ gone \subseteq CarsOf(d)
    BY RequestFacts DEF RequestOK
  <1> HIDE DEF d, gone
  <1>3. ASSUME NEW u \in Threads
        PROVE  /\ Left(gone)[u] = IF pc[u] = "deleting"
                                  THEN [request[u] EXCEPT !.found = @ \ gone] ELSE request[u]
               /\ Told(d)[u] = IF pc[u] \in Handling \ {"show"}
                               THEN changed[u] \union {d} ELSE changed[u]
               /\ Left(gone)[u] \in Requests /\ Told(d)[u] \in SUBSET Drivers
               /\ Left(gone)[u].driver = request[u].driver
               /\ Left(gone)[u].cars = request[u].cars
               /\ Left(gone)[u].found \subseteq request[u].found
               /\ d # request[u].driver /\ request[u].found \subseteq CarsOf(request[u].driver)
                     => Left(gone)[u].found = request[u].found
    <2>1. /\ Left(gone)[u] = IF pc[u] = "deleting"
                             THEN [request[u] EXCEPT !.found = @ \ gone] ELSE request[u]
          /\ Told(d)[u] = IF pc[u] \in Handling \ {"show"}
                          THEN changed[u] \union {d} ELSE changed[u]
      BY DEF Left, Told
    <2>2. request[u] \in Requests /\ changed[u] \in SUBSET Drivers
      BY RequestFacts
    <2>3. Told(d)[u] \in SUBSET Drivers
      BY <1>2, <2>1, <2>2
    <2>4. CASE pc[u] = "deleting"
      <3>1. Left(gone)[u] = [request[u] EXCEPT !.found = @ \ gone]
        BY <2>1, <2>4
      <3>2. /\ Left(gone)[u] \in Requests
            /\ Left(gone)[u].driver = request[u].driver /\ Left(gone)[u].cars = request[u].cars
            /\ Left(gone)[u].found = request[u].found \ gone
        BY <2>2, <3>1 DEF Requests
      <3>3. d # request[u].driver => CarsOf(d) \intersect CarsOf(request[u].driver) = {}
        BY DEF CarsOf
      <3>4. QED
        BY <1>2, <2>1, <2>3, <3>2, <3>3
    <2>5. CASE pc[u] # "deleting"
      BY <2>1, <2>2, <2>3, <2>5
    <2>6. QED
      BY <2>4, <2>5
  <1>4. request' \in [Threads -> Requests] /\ changed' \in [Threads -> SUBSET Drivers]
    <2>1. /\ Left(gone) \in [Threads -> Requests] /\ Told(d) \in [Threads -> SUBSET Drivers]
      <3>1. DOMAIN Left(gone) = Threads /\ DOMAIN Told(d) = Threads
            /\ Left(gone) = [u \in Threads |-> Left(gone)[u]]
            /\ Told(d) = [u \in Threads |-> Told(d)[u]]
        BY DEF Left, Told
      <3>2. QED
        BY <1>3, <3>1
    <2>2. QED
      BY <1>1, <2>1, NoRequestOK
  <1>5. RequestTypeOK'
    BY <1>4, CommitFacts DEF RequestTypeOK
  <1>6. ASSUME NEW u \in Threads
        PROVE  RequestOK(pc[u], request[u], changed[u])'
    <2>1. CASE u = t
      <3>1. /\ pc'[u] = "show" /\ request'[u] = NoRequest /\ changed'[u] = {}
            /\ NoRequest.cars = {} /\ NoRequest.found = {}
        <4>1. DOMAIN Left(gone) = Threads /\ DOMAIN Told(d) = Threads
          BY DEF Left, Told
        <4>2. QED
          BY <1>1, <2>1, <4>1 DEF NoRequest
      <3>2. QED
        BY <3>1 DEF RequestOK
    <2>2. CASE u # t
      <3>1. /\ pc'[u] = pc[u] /\ request'[u] = Left(gone)[u] /\ changed'[u] = Told(d)[u]
        <4>1. DOMAIN Left(gone) = Threads /\ DOMAIN Told(d) = Threads
          BY DEF Left, Told
        <4>2. QED
          BY <1>1, <2>2, <4>1
      <3>2. RequestOK(pc[u], request[u], changed[u])
        BY RequestFacts
      <3>3. CASE pc[u] \notin Handling \ {"show"}
        <4>1. changed'[u] = {} /\ request'[u] = request[u]
          BY <1>3, <3>1, <3>2, <3>3 DEF RequestOK, Handling
        <4>2. QED
          BY <3>1, <3>2, <3>3, <4>1 DEF RequestOK, Handling
      <3>4. CASE pc[u] \in Handling \ {"show"}
        <4>1. changed'[u] # {} /\ changed'[u] = changed[u] \union {d}
          BY <1>3, <3>1, <3>4
        <4>2. /\ request'[u].driver = request[u].driver /\ request'[u].cars = request[u].cars
              /\ request'[u].found \subseteq request[u].found
              /\ request[u].driver \in Drivers
          BY <1>3, <3>1, RequestFacts
        <4>3. request'[u].cars \subseteq CarsOf(request'[u].driver)
              /\ request'[u].found \subseteq CarsOf(request'[u].driver)
          BY <3>2, <4>2 DEF RequestOK
        <4>4. ASSUME pc[u] \in {"deleting", "insert", "commit"}, request'[u].driver \notin changed'[u]
              PROVE  request'[u].found = registered' \intersect CarsOf(request'[u].driver)
          <5>1. request[u].driver # d /\ request[u].driver \notin changed[u]
            BY <4>1, <4>2, <4>4
          <5>2. request[u].found = OfDriver(request[u].driver)
            BY <3>2, <4>4, <5>1 DEF RequestOK
          <5>3. request'[u].found = request[u].found
            BY <1>3, <3>1, <3>2, <5>1 DEF RequestOK
          <5>5. registered' \intersect CarsOf(request[u].driver) = OfDriver(request[u].driver)
            BY <4>2, <5>1, CommitFacts DEF OfDriver, d
          <5>6. QED
            BY <4>2, <5>2, <5>3, <5>5
        <4>5. QED
          BY <3>1, <3>4, <4>1, <4>3, <4>4 DEF RequestOK, OfDriver
      <3>5. QED
        BY <3>3, <3>4
    <2>3. QED
      BY <2>1, <2>2
  <1>7. QED
    BY <1>5, <1>6 DEF RequestInv

-----------------------------------------------------------------------------
(* Steps. *)

\* A step of a request leaves the pool alone and keeps its connection.
LEMMA RegisterKeeps ==
  ASSUME IInv, NEW t \in Threads, Register(t)
  PROVE  IInv'
  <1> USE DEF IInv
  <1>1. pc \in [Threads -> Places] /\ RequestInv /\ PoolInv
    BY DEF PoolInv
  <1>2. RequestInv' /\ UNCHANGED <<database, pool, resetlock, db>>
    <2>1. CASE Broken(t)
      BY <1>1, <2>1, DecidedKeeps DEF Broken
    <2>2. CASE ReadMine(t)
      BY <1>1, <2>2, ReadMineKeeps DEF ReadMine, Statement
    <2>3. CASE Count(t)
      BY <1>1, <2>3, CountKeeps DEF Count, Statement
    <2>4. CASE Find(t)
      BY <1>1, <2>4, FindKeeps DEF Find, Statement
    <2>5. CASE Delete(t)
      BY <1>1, <2>5, PlaceKeeps DEF Delete, Statement
    <2>6. CASE Insert(t)
      <3>1. /\ UNCHANGED <<database, pool, resetlock, db>> /\ UNCHANGED registered
            /\ pc[t] = "insert"
        BY <2>6 DEF Insert, Statement
      <3>2. \/ Go(t, "commit") /\ UNCHANGED <<request, changed>>
            \/ Decided(t, "return")
        BY <2>6 DEF Insert, Answer
      <3>3. QED
        BY <1>1, <3>1, <3>2, PlaceKeeps, DecidedKeeps
    <2>7. CASE Commit(t)
      BY <1>1, <2>7, CommitKeeps DEF Commit, Statement
    <2>8. CASE Show(t)
      BY <1>1, <2>8, DecidedKeeps DEF Show, Statement, Answer
    <2>9. QED
      BY <2>1, <2>2, <2>3, <2>4, <2>5, <2>6, <2>7, <2>8 DEF Register
  <1>3. PICK place \in {"serve", "return"} \union Handling : Go(t, place)
    <2> USE DEF Handling, Statement, Decided, Answer
    <2>1. CASE Broken(t)
      BY <2>1 DEF Broken
    <2>2. CASE ReadMine(t)
      BY <2>2 DEF ReadMine
    <2>3. CASE Count(t)
      BY <2>3 DEF Count
    <2>4. CASE Find(t) \/ Delete(t) \/ Commit(t) \/ Show(t)
      BY <2>4 DEF Find, Delete, Commit, Show
    <2>5. CASE Insert(t)
      BY <2>5 DEF Insert
    <2>6. QED
      BY <2>1, <2>2, <2>3, <2>4, <2>5 DEF Register
  <1>4. pc[t] \notin Unconnected
    BY DEF Register, Broken, ReadMine, Count, Find, Delete, Insert, Commit, Show, Statement,
           Unconnected, Handling
  <1>5. QED
    BY <1>1, <1>2, <1>3, <1>4, RequestKeepsPool

\* A step of the pool goes from place to place and leaves the requests alone.
LEMMA PoolPlacesOnly ==
  ASSUME NEW t \in Threads, Pooling(t)
  PROVE  /\ pc[t] \notin Handling
         /\ \E place \in PoolPlaces : Go(t, place)
         /\ PoolPlaces \intersect Handling = {}
  BY DEF Pooling, Get, Probe, Reset, Close, Create, Return, End, PoolPlaces, Handling

LEMMA StepKeeps ==
  ASSUME IInv, [Next]_vars
  PROVE  IInv'
  <1>1. ASSUME NEW t \in Threads, Register(t)
        PROVE  IInv'
    BY <1>1, RegisterKeeps
  <1>2. ASSUME NEW t \in Threads, Pooling(t), UNCHANGED handler
        PROVE  IInv'
    <2>1. PoolInv' /\ pc \in [Threads -> Places]
      BY <1>2, PoolingKeepsPool DEF IInv, PoolInv
    <2>2. UNCHANGED <<registered, request, changed>>
      BY <1>2 DEF handler
    <2>3. PICK place \in PoolPlaces : Go(t, place)
      BY <1>2, PoolPlacesOnly
    <2>4. RequestInv'
      BY <1>2, <2>1, <2>2, <2>3, PoolPlacesOnly, PlaceKeeps DEF IInv
    <2>5. QED
      BY <2>1, <2>4 DEF IInv
  <1>3. CASE (GoesAway \/ ComesBack) /\ UNCHANGED handler
    <2>1. PoolInv'
      BY <1>3, DatabaseKeepsPool DEF IInv
    <2>2. UNCHANGED <<registered, request, changed, pc>>
      BY <1>3 DEF handler, GoesAway, ComesBack
    <2>3. RequestInv'
      BY <2>2 DEF IInv, RequestInv, RequestTypeOK, RequestOK, WithinLimits, OfDriver,
                  EntryCount, DriverCount
    <2>4. QED
      BY <2>1, <2>3 DEF IInv
  <1>4. CASE UNCHANGED vars
    <2>1. UNCHANGED <<registered, request, changed, pc, db, pool, resetlock, up, epoch>>
      BY <1>4 DEF vars, handler, poolVars
    <2>2. PoolInv'
      BY <2>1 DEF IInv, PoolInv, PoolTypeOK, NothingLeaks, Holding, Epochs, Replacing, Connected
    <2>3. RequestInv'
      BY <2>1 DEF IInv, RequestInv, RequestTypeOK, RequestOK, WithinLimits, OfDriver,
                  EntryCount, DriverCount
    <2>4. QED
      BY <2>2, <2>3 DEF IInv
  <1>5. QED
    BY <1>1, <1>2, <1>3, <1>4 DEF Next

LEMMA InitOK ==
  ASSUME Init
  PROVE  IInv
  <1>1. /\ up = TRUE /\ epoch = 0 /\ pool = [epoch |-> 0, closed |-> FALSE, used |-> 0]
        /\ resetlock = Nobody /\ pc = [t \in Threads |-> "idle"]
        /\ db = [t \in Threads |-> NoConnection]
        /\ registered = AtFirst /\ request = [t \in Threads |-> NoRequest]
        /\ changed = [t \in Threads |-> {}]
    BY DEF Init, PoolInit
  <1>2. Holding = {} /\ Cardinality(Holding) = 0
    BY <1>1, FS_EmptySet DEF Holding
  <1>3. "idle" \in Places /\ "idle" \in Unconnected
    BY DEF Places, PoolPlaces, Unconnected
  <1>4. PoolInv
    <2>1. PoolTypeOK
      BY <1>1 DEF PoolTypeOK
    <2>2. NothingLeaks /\ Epochs /\ Replacing /\ Connected
      BY <1>1, <1>2, <1>3 DEF NothingLeaks, Epochs, Replacing, Connected
    <2>3. QED
      BY <1>1, <1>3, <2>1, <2>2 DEF PoolInv
  <1>5. RequestInv
    <2>1. RequestTypeOK
      BY <1>1, NoRequestOK, LimitsAssumption DEF RequestTypeOK
    <2>2. RequestOK("idle", NoRequest, {})
      BY <1>3, NoRequestOK
    <2>3. QED
      BY <1>1, <2>1, <2>2 DEF RequestInv
  <1>6. QED
    BY <1>4, <1>5 DEF IInv

\* Who goes from "commit" to "show" commits, and nothing else of his.
LEMMA CommitsIsCommit ==
  ASSUME IInv, Next, NEW t \in Threads, Commits(t)
  PROVE  Commit(t)
  <1>1. pc \in [Threads -> Places] /\ pc[t] = "commit" /\ pc'[t] = "show"
    BY DEF IInv, PoolInv, Commits
  <1>2. PICK u \in Threads : Register(u) \/ Pooling(u)
    BY <1>1 DEF Next, GoesAway, ComesBack
  <1>3. CASE Pooling(u)
    <2>1. PICK place \in PoolPlaces : pc' = [pc EXCEPT ![u] = place]
      BY <1>3, PoolPlacesOnly DEF Go
    <2>2. place # "show"
      BY <2>1 DEF PoolPlaces
    <2>3. QED
      BY <1>1, <2>1, <2>2
  <1>4. CASE Register(u) /\ u # t
    <2>1. PICK place : pc' = [pc EXCEPT ![u] = place]
      BY <1>4 DEF Register, Broken, ReadMine, Count, Find, Delete, Insert, Commit, Show,
                  Statement, Decided, Answer, Go
    <2>2. QED
      BY <1>1, <1>4, <2>1
  <1>5. CASE Register(t)
    <2>1. ~Broken(t)
      BY <1>1 DEF Broken, Decided, Go
    <2>2. QED
      BY <1>1, <1>5, <2>1 DEF Register, ReadMine, Count, Find, Delete, Insert, Show, Statement
  <1>6. QED
    BY <1>2, <1>3, <1>4, <1>5

\* The registrations change in commits only.
LEMMA OnlyCommits ==
  ASSUME IInv, [Next]_vars, registered' # registered
  PROVE  \E t \in Threads : Commit(t) /\ Commits(t)
  <1>1. PICK t \in Threads : Commit(t)
    BY DEF Next, vars, handler, Register, Broken, ReadMine, Count, Find, Delete, Insert, Show
  <1>2. pc[t] = "commit" /\ pc' = [pc EXCEPT ![t] = "show"] /\ pc \in [Threads -> Places]
    BY <1>1 DEF Commit, Statement, Go, IInv, PoolInv
  <1>3. QED
    BY <1>1, <1>2 DEF Commits

LEMMA AllOrNothingStep ==
  ASSUME IInv, [Next]_vars, NEW d \in Drivers
  PROVE  LET after == registered' \intersect CarsOf(d)
         IN  after = OfDriver(d)
             \/ \E t \in Threads : Commits(t) /\ request[t].driver = d
                                   /\ (d \in changed[t] \/ after = request[t].cars)
  <1>1. CASE registered' = registered
    BY <1>1 DEF OfDriver
  <1>2. CASE registered' # registered
    <2>1. PICK t \in Threads : Commit(t) /\ Commits(t)
      BY <1>2, OnlyCommits
    <2>2. RequestInv
      BY DEF IInv
    <2>3. CASE d # request[t].driver
      BY <2>1, <2>2, <2>3, CommitFacts DEF OfDriver
    <2>4. CASE d = request[t].driver
      BY <2>1, <2>2, <2>4, CommitFacts
    <2>5. QED
      BY <2>3, <2>4
  <1>3. QED
    BY <1>1, <1>2

\* The drivers of a set of cars.
DriversOf(cars) == {car[1] : car \in cars}

LEMMA DriversFinite ==
  ASSUME NEW S \in SUBSET Cars
  PROVE  IsFiniteSet(DriversOf(S)) /\ Cardinality(DriversOf(S)) \in Nat
  <1> DEFINE f == [car \in S |-> car[1]]
  <1>1. f \in Surjection(S, DriversOf(S))
    BY DEF Surjection, DriversOf
  <1>2. IsFiniteSet(S)
    BY LimitsAssumption, FS_Subset
  <1>3. QED
    BY <1>1, <1>2, FS_Surjection, FS_CardinalityType

\* A commit that nobody overtook, whose cars are within the limits.
LEMMA LimitsStep ==
  ASSUME RequestInv, NEW t \in Threads, Commit(t), changed[t] = {}
  PROVE  /\ TotLimit > 0 => \/ Cardinality(registered') <= TotLimit
                            \/ Cardinality(registered') <= Cardinality(registered)
         /\ SinLimit > 0 => \/ Cardinality(DriversOf(registered')) <= SinLimit
                            \/ Cardinality(DriversOf(registered')) <= Cardinality(DriversOf(registered))
         /\ PerLimit > 0 => Cardinality(registered' \intersect CarsOf(request[t].driver)) <= PerLimit
  <1> DEFINE d == request[t].driver
             new == request[t].cars
             old == OfDriver(d)
  <1>1. /\ registered' = (registered \ old) \union new
        /\ registered' \subseteq Cars /\ registered \subseteq Cars
        /\ registered' \intersect CarsOf(d) = new
        /\ new \subseteq CarsOf(d) /\ new \subseteq Cars
        /\ old \subseteq registered
        /\ d \in Drivers
    BY CommitFacts, RequestFacts DEF OfDriver, RequestOK, RequestTypeOK
  <1>2. WithinLimits(request[t])
    BY CommitFacts, RequestFacts DEF RequestOK
  <1>3. /\ IsFiniteSet(registered) /\ IsFiniteSet(new) /\ IsFiniteSet(old)
        /\ Cardinality(new) \in Nat /\ Cardinality(old) \in Nat
        /\ Cardinality(registered) \in Nat /\ EntryCount = Cardinality(registered)
        /\ Cardinality(registered') \in Nat
    BY <1>1, CarFacts DEF RequestInv, EntryCount
  <1>4. \A car \in CarsOf(d) : car[1] = d
    BY DEF CarsOf
  <1>5. SinLimit \in Nat /\ PerLimit \in Nat /\ TotLimit \in Nat
    BY LimitsAssumption
  <1> HIDE DEF d, new, old
  <1>6. PerLimit > 0 => Cardinality(registered' \intersect CarsOf(d)) <= PerLimit
    BY <1>1, <1>2 DEF WithinLimits, new
  <1>7. TotLimit > 0 => Cardinality(registered') <= TotLimit
    <2>1. /\ IsFiniteSet(registered \ old)
          /\ Cardinality(registered \ old) = Cardinality(registered) - Cardinality(old)
      <3>1. registered \intersect old = old
        BY <1>1
      <3>2. QED
        BY <1>3, <3>1, FS_Difference
    <2>2. Cardinality(registered') <= Cardinality(registered \ old) + Cardinality(new)
      <3>1. Cardinality(registered') = Cardinality(registered \ old) + Cardinality(new)
                                       - Cardinality((registered \ old) \intersect new)
        BY <1>1, <1>3, <2>1, FS_Union
      <3>2. Cardinality((registered \ old) \intersect new) \in Nat
        BY <2>1, FS_Intersection, FS_CardinalityType
      <3>3. Cardinality(registered \ old) \in Int
        BY <1>3, <2>1
      <3>4. QED
        BY <1>3, <3>1, <3>2, <3>3
    <2>3. TotLimit > 0 => Cardinality(new) <= TotLimit - Cardinality(registered) + Cardinality(old)
      BY <1>2, <1>3 DEF WithinLimits, new, old, d
    <2>4. QED
      BY <1>3, <1>5, <2>1, <2>2, <2>3
  <1>8. SinLimit > 0 => \/ Cardinality(DriversOf(registered')) <= SinLimit
                        \/ Cardinality(DriversOf(registered')) <= Cardinality(DriversOf(registered))
    <2>1. /\ IsFiniteSet(DriversOf(registered)) /\ Cardinality(DriversOf(registered)) \in Nat
          /\ Cardinality(DriversOf(registered')) \in Nat
      BY <1>1, DriversFinite
    <2>2. CASE old # {}
      <3>1. d \in DriversOf(registered)
        <4>1. PICK car \in old : TRUE
          BY <2>2
        <4>2. car \in registered /\ car[1] = d
          BY <1>1, <1>4, <4>1 DEF OfDriver, old
        <4>3. QED
          BY <4>2 DEF DriversOf
      <3>2. DriversOf(registered') \subseteq DriversOf(registered)
        BY <1>1, <1>4, <3>1 DEF DriversOf
      <3>3. QED
        BY <2>1, <3>2, FS_Subset
    <2>3. CASE old = {} /\ DriverCount >= SinLimit
      <3>1. SinLimit > 0 => registered' = registered
        BY <1>1, <1>2, <2>3 DEF WithinLimits, new, old, d
      <3>2. SinLimit > 0 => DriversOf(registered') = DriversOf(registered)
        BY <3>1 DEF DriversOf
      <3>3. QED
        BY <2>1, <3>2
    <2>4. CASE old = {} /\ ~(DriverCount >= SinLimit)
      <3>1. DriversOf(registered') \subseteq DriversOf(registered) \union {d}
        BY <1>1, <1>4 DEF DriversOf
      <3>2. /\ IsFiniteSet(DriversOf(registered) \union {d})
            /\ Cardinality(DriversOf(registered) \union {d}) <= Cardinality(DriversOf(registered)) + 1
        <4>1. IsFiniteSet(DriversOf(registered))
          BY <2>1
        <4>2. /\ IsFiniteSet(DriversOf(registered) \union {d})
              /\ Cardinality(DriversOf(registered) \union {d}) =
                    IF d \in DriversOf(registered) THEN Cardinality(DriversOf(registered))
                    ELSE Cardinality(DriversOf(registered)) + 1
          BY <4>1, FS_AddElement
        <4>3. QED
          BY <2>1, <4>2
      <3>3. Cardinality(DriversOf(registered')) <= Cardinality(DriversOf(registered) \union {d})
        BY <3>1, <3>2, FS_Subset
      <3>4. DriverCount = Cardinality(DriversOf(registered))
        BY DEF DriverCount, DriversOf
      <3>5. Cardinality(DriversOf(registered) \union {d}) \in Nat
        BY <3>2, FS_CardinalityType
      <3>6. QED
        BY <1>5, <2>1, <2>4, <3>2, <3>3, <3>4, <3>5
    <2>5. QED
      BY <2>2, <2>3, <2>4
  <1>9. QED
    BY <1>6, <1>7, <1>8 DEF d

-----------------------------------------------------------------------------

LEMMA Always == Spec => []IInv
  <1>1. Init => IInv
    BY InitOK
  <1>2. IInv /\ [Next]_vars => IInv'
    BY StepKeeps
  <1>3. QED
    BY <1>1, <1>2, PTL DEF Spec

\* No request ever reaches a state that the handlers do not know.
THEOREM TypeCorrect == Spec => []TypeOK
  <1>1. IInv => TypeOK
    BY DEF IInv, PoolInv, RequestInv, RequestTypeOK, Requests, TypeOK
  <1>2. QED
    BY <1>1, Always, PTL

\* However many threads notice at once that the database went away, and
\* whoever replaces the pool under whom: the pool's count of the connections
\* it has given out is not below what requests hold, and it is just that as
\* soon as the pool is of the database's last start.
THEOREM PoolCounts == Spec => []NothingLeaks
  <1>1. IInv => NothingLeaks
    BY DEF IInv, PoolInv
  <1>2. QED
    BY <1>1, Always, PTL

\* Any number of requests, of any drivers, over connections that may break at
\* every statement: a driver's registrations become what he has asked for or
\* stay as they were, unless another request of his was committed meanwhile.
THEOREM RegistrationsWhole == Spec => AllOrNothing
  <1>1. IInv /\ [Next]_vars =>
          [\A d \in Drivers :
             LET after == registered' \intersect CarsOf(d)
             IN  after = OfDriver(d)
                 \/ \E t \in Threads : Commits(t) /\ request[t].driver = d
                                       /\ (d \in changed[t] \/ after = request[t].cars)]_vars
    BY AllOrNothingStep
  <1>2. QED
    BY <1>1, Always, PTL DEF Spec, AllOrNothing

\* What a request has decided on the counts it read is within the limits when
\* it commits, if no other request was committed in between.
THEOREM LimitsKept == Spec => LimitsHold
  <1>1. ASSUME IInv, [Next]_vars
        PROVE  [\A t \in Threads : Commits(t) /\ changed[t] = {} =>
                 LET drivers(cars) == Cardinality({car[1] : car \in cars})
                 IN  /\ TotLimit > 0 => \/ Cardinality(registered') <= TotLimit
                                        \/ Cardinality(registered') <= Cardinality(registered)
                     /\ SinLimit > 0 => \/ drivers(registered') <= SinLimit
                                        \/ drivers(registered') <= drivers(registered)
                     /\ PerLimit > 0 => Cardinality(registered' \intersect CarsOf(request[t].driver)) <= PerLimit]_vars
    <2> SUFFICES ASSUME Next, NEW t \in Threads, Commits(t), changed[t] = {}
                 PROVE  LET drivers(cars) == Cardinality({car[1] : car \in cars})
                        IN  /\ TotLimit > 0 => \/ Cardinality(registered') <= TotLimit
                                               \/ Cardinality(registered') <= Cardinality(registered)
                            /\ SinLimit > 0 => \/ drivers(registered') <= SinLimit
                                               \/ drivers(registered') <= drivers(registered)
                            /\ PerLimit > 0 => Cardinality(registered' \intersect CarsOf(request[t].driver)) <= PerLimit
      BY <1>1
    <2>1. Commit(t) /\ RequestInv
      BY <1>1, CommitsIsCommit DEF IInv
    <2>2. QED
      BY <2>1, LimitsStep DEF DriversOf
  <1>2. QED
    BY <1>1, Always, PTL DEF Spec, LimitsHold
=============================================================================
