--------------------------- MODULE ProTimer_proofs --------------------------
(***************************************************************************)
(* Theorems about the ProTimer for any number of starts, of messages       *)
(* under way and of things the operator does: the rows stay well formed,   *)
(* no finish is ever written over another one, each lane is a RunSource,   *)
(* what waits for a finish is on the course, and the times in a row are    *)
(* of one car.                                                             *)
(*                                                                         *)
(* IInv adds to the properties that every time the timer sends is of a     *)
(* car. Agreement says that the messages under way lead from what the      *)
(* table shows to what the timer has, Settling that the row a reaction     *)
(* will go to has none of another car.                                     *)
(***************************************************************************)
EXTENDS ProTimer, SequenceTheorems, FiniteSetTheorems, WellFoundedInduction, TLAPS

Rows == [Sides -> Results]

\* The model alone: what the handlers of ResultsModel keep.
ModelOK ==
    /\ runs \in Seq(Rows)
    /\ nextFinish \in [Sides -> Nat \ {0}]
    /\ \A side \in Sides : nextFinish[side] <= Len(runs) + 1

LineOK == \A i \in DOMAIN line : line[i].kind # "tree" => line[i].car \in Cars

IInv == TypeOK /\ LineOK /\ NothingAhead

USE ProTimerAssumption

-----------------------------------------------------------------------------
(* Rows. *)

LEMMA CarFacts ==
  /\ Cars \subseteq Nat
  /\ NaN \notin Cars
  BY DEF Cars, NaN

LEMMA LeastNat ==
  ASSUME NEW S \in SUBSET Nat, S # {}
  PROVE  \E i \in S : \A j \in S : i <= j
  <1>1. PICK i \in S : \A j \in S : ~(<<j, i>> \in OpToRel(<, Nat))
    BY NatLessThanWellFounded, WFMin
  <1>2. \A j \in S : ~(j < i)
    BY <1>1 DEF OpToRel
  <1>3. QED
    BY <1>2

LEMMA NewRow == DualResult \in Rows /\ \A side \in Sides : DualResult[side].finish = NaN
  BY DEF DualResult, Result, Rows, Results

\* One row of the table is changed.
LEMMA RowChanged ==
  ASSUME NEW table \in Seq(Rows), NEW i \in 1 .. Len(table), NEW row \in Rows
  PROVE  /\ [table EXCEPT ![i] = row] \in Seq(Rows)
         /\ Len([table EXCEPT ![i] = row]) = Len(table)
         /\ DOMAIN [table EXCEPT ![i] = row] = 1 .. Len(table)
         /\ [table EXCEPT ![i] = row][i] = row
         /\ \A j \in 1 .. Len(table) : j # i => [table EXCEPT ![i] = row][j] = table[j]
  BY ExceptSeq, LenProperties, ElementOfSeq

\* A row is used again or appended: there is one then, and a finish is
\* before the last row only if it was in the table already.
LEMMA NewEntry ==
  ASSUME ModelOK, NothingAhead
  PROVE  /\ CreateNewEntry \in Seq(Rows)
         /\ Len(CreateNewEntry) \in Nat \ {0}
         /\ Len(CreateNewEntry) >= Len(runs)
         /\ \A side \in Sides : CreateNewEntry[Len(CreateNewEntry)][side].finish = NaN
         /\ \A side \in Sides, i \in 1 .. Len(CreateNewEntry) :
               CreateNewEntry[i][side].finish # NaN
                  => /\ i \in DOMAIN runs /\ i < Len(CreateNewEntry)
                     /\ CreateNewEntry[i] = runs[i]
  <1>1. Len(runs) \in Nat /\ DOMAIN runs = 1 .. Len(runs) /\ DualResult \in Rows
    BY NewRow, LenProperties DEF ModelOK
  <1>2. CASE runs # <<>> /\ \A side \in Sides : Last(runs)[side].rt = NaN
    <2>1. CreateNewEntry = runs
      BY <1>2 DEF CreateNewEntry
    <2> HIDE DEF CreateNewEntry
    <2>a. Len(runs) > 0
      BY <1>1, <1>2 DEF ModelOK
    <2>2. \A side \in Sides : runs[Len(runs)][side].finish = NaN
      BY <1>1, <1>2, <2>a DEF Last, NothingAhead
    <2>3. QED
      BY <1>1, <2>1, <2>a, <2>2 DEF ModelOK
  <1>3. CASE ~(runs # <<>> /\ \A side \in Sides : Last(runs)[side].rt = NaN)
    <2>1. CreateNewEntry = Append(runs, DualResult)
      BY <1>3 DEF CreateNewEntry
    <2>2. /\ CreateNewEntry \in Seq(Rows)
          /\ Len(CreateNewEntry) = Len(runs) + 1
          /\ \A i \in 1 .. Len(runs) : CreateNewEntry[i] = runs[i]
          /\ CreateNewEntry[Len(runs) + 1] = DualResult
      BY <1>1, <2>1, AppendProperties DEF ModelOK
    <2> HIDE DEF CreateNewEntry
    <2>3. QED
      BY <1>1, <2>2, NewRow
  <1>4. QED
    BY <1>2, <1>3

-----------------------------------------------------------------------------
(* The handlers of ResultsModel. *)

Kept == ModelOK' /\ NothingAhead'

LEMMA TreeKeeps ==
  ASSUME ModelOK, NothingAhead, runs' = CreateNewEntry, UNCHANGED nextFinish
  PROVE  Kept
  <1>1. Len(runs) \in Nat /\ DOMAIN runs' = 1 .. Len(runs')
    BY NewEntry, LenProperties DEF ModelOK
  <1>2. ModelOK'
    BY <1>1, NewEntry DEF ModelOK
  <1>3. NothingAhead'
    BY <1>1, NewEntry DEF NothingAhead
  <1>4. QED
    BY <1>2, <1>3 DEF Kept

LEMMA ResetKeeps ==
  ASSUME ModelOK, NothingAhead, ResetRows
  PROVE  Kept /\ Len(runs') \in Nat \ {0}
  <1>1. /\ runs' = CreateNewEntry
        /\ nextFinish' = [side \in Sides |-> Len(runs')]
    BY DEF ResetRows
  <1>2. DOMAIN runs' = 1 .. Len(runs')
    BY <1>1, NewEntry, LenProperties
  <1>3. ModelOK' /\ Len(runs') \in Nat \ {0}
    BY <1>1, NewEntry DEF ModelOK
  <1>4. NothingAhead'
    BY <1>1, <1>2, <1>3, NewEntry DEF NothingAhead
  <1>5. QED
    BY <1>3, <1>4 DEF Kept

\* A change of one row that neither makes a finish nor takes the reaction
\* beside one away.
LEMMA RowKeeps ==
  ASSUME ModelOK, NothingAhead, UNCHANGED nextFinish,
         NEW i \in 1 .. Len(runs), NEW row \in Rows,
         runs' = [runs EXCEPT ![i] = row],
         \A side \in Sides : row[side].finish # NaN
            => row[side].rt # NaN /\ runs[i][side].finish # NaN
  PROVE  Kept
  <1>1. Len(runs) \in Nat /\ DOMAIN runs = 1 .. Len(runs)
    BY LenProperties DEF ModelOK
  <1>2. ModelOK'
    BY RowChanged DEF ModelOK
  <1>3. NothingAhead'
    <2> SUFFICES ASSUME NEW side \in Sides, NEW j \in 1 .. Len(runs),
                        runs'[j][side].finish # NaN
                 PROVE  j < nextFinish[side] /\ runs'[j][side].rt # NaN
      BY RowChanged DEF ModelOK, NothingAhead
    <2>1. CASE j = i
      BY <1>1, <2>1, RowChanged DEF ModelOK, NothingAhead
    <2>2. CASE j # i
      BY <1>1, <2>2, RowChanged DEF ModelOK, NothingAhead
    <2>3. QED
      BY <2>1, <2>2
  <1>4. QED
    BY <1>2, <1>3 DEF Kept

\* A row whose results are of a type is one.
LEMMA LaneChanged ==
  ASSUME NEW row \in Rows, NEW side \in Sides, NEW result \in Results
  PROVE  /\ [row EXCEPT ![side] = result] \in Rows
         /\ [row EXCEPT ![side] = result][side] = result
         /\ \A other \in Sides : other # side => [row EXCEPT ![side] = result][other] = row[other]
  BY DEF Rows

LEMMA NothingKeeps ==
  ASSUME ModelOK, NothingAhead, UNCHANGED model
  PROVE  Kept
  BY DEF Kept, ModelOK, NothingAhead, model

LEMMA ReactionKeeps ==
  ASSUME ModelOK, NothingAhead, NEW side \in Sides, NEW car \in Cars, NEW red \in BOOLEAN,
         AddReaction(side, car, red)
  PROVE  Kept
  <1>1. CASE runs = <<>>
    BY <1>1, NothingKeeps DEF AddReaction, model
  <1>2. CASE runs # <<>>
    <2> DEFINE old == runs[Len(runs)][side]
               result == [old EXCEPT !.rt = car, !.red = IF red THEN car ELSE @]
               row == [runs[Len(runs)] EXCEPT ![side] = result]
    <2>1. Len(runs) \in 1 .. Len(runs) /\ runs[Len(runs)] \in Rows
      BY <1>2, LenProperties, EmptySeq, ElementOfSeq DEF ModelOK
    <2>2. old \in Results /\ result \in Results
      BY <2>1 DEF Rows, Results
    <2>3. result.rt = car /\ result.finish = old.finish
      BY <2>2 DEF Results
    <2>4. runs' = [runs EXCEPT ![Len(runs)] = row]
      BY <1>2, <2>1, <2>2 DEF AddReaction, Rows, Results
    <2> HIDE DEF result
    <2>5. /\ row \in Rows
          /\ row[side] = result
          /\ \A other \in Sides : other # side => row[other] = runs[Len(runs)][other]
      BY <2>1, <2>2, LaneChanged
    <2> HIDE DEF row
    <2>6. \A s \in Sides : row[s].finish # NaN
             => row[s].rt # NaN /\ runs[Len(runs)][s].finish # NaN
      BY <2>1, <2>3, <2>5, CarFacts, LenProperties DEF NothingAhead, ModelOK
    <2>7. QED
      BY <2>1, <2>4, <2>5, <2>6, RowKeeps DEF AddReaction
  <1>3. QED
    BY <1>1, <1>2

LEMMA SixtyKeeps ==
  ASSUME ModelOK, NothingAhead, NEW side \in Sides, NEW car \in Cars, AddSixty(side, car)
  PROVE  Kept
  <1>1. CASE runs = <<>>
    BY <1>1, NothingKeeps DEF AddSixty, model
  <1>2. CASE runs # <<>>
    <2> DEFINE old == runs[Len(runs)][side]
               result == [old EXCEPT !.sixty = car]
               row == [runs[Len(runs)] EXCEPT ![side] = result]
    <2>1. Len(runs) \in 1 .. Len(runs) /\ runs[Len(runs)] \in Rows
      BY <1>2, LenProperties, EmptySeq, ElementOfSeq DEF ModelOK
    <2>2. old \in Results /\ result \in Results
      BY <2>1 DEF Rows, Results
    <2>3. result.rt = old.rt /\ result.finish = old.finish
      BY <2>2 DEF Results
    <2>4. runs' = [runs EXCEPT ![Len(runs)] = row]
      BY <1>2, <2>1, <2>2 DEF AddSixty, Rows, Results
    <2> HIDE DEF result
    <2>5. /\ row \in Rows
          /\ row[side] = result
          /\ \A other \in Sides : other # side => row[other] = runs[Len(runs)][other]
      BY <2>1, <2>2, LaneChanged
    <2> HIDE DEF row
    <2>6. \A s \in Sides : row[s].finish # NaN
             => row[s].rt # NaN /\ runs[Len(runs)][s].finish # NaN
      BY <2>1, <2>3, <2>5, LenProperties DEF NothingAhead, ModelOK
    <2>7. QED
      BY <2>1, <2>4, <2>5, <2>6, RowKeeps DEF AddSixty
  <1>3. QED
    BY <1>1, <1>2

LEMMA DeleteStartKeeps ==
  ASSUME ModelOK, NothingAhead, NEW side \in Sides, DeleteStart(side)
  PROVE  Kept
  <1>1. CASE ~(runs # <<>> /\ Last(runs)[side].rt # NaN /\ Last(runs)[side].finish = NaN)
    BY <1>1, NothingKeeps DEF DeleteStart, model
  <1>2. CASE runs # <<>> /\ Last(runs)[side].rt # NaN /\ Last(runs)[side].finish = NaN
    <2> DEFINE old == runs[Len(runs)][side]
               result == [[old EXCEPT !.rt = NaN] EXCEPT !.sixty = NaN]
               row == [runs[Len(runs)] EXCEPT ![side] = result]
    <2>1. Len(runs) \in 1 .. Len(runs) /\ runs[Len(runs)] \in Rows
      BY <1>2, LenProperties, EmptySeq, ElementOfSeq DEF ModelOK
    <2>2. old \in Results /\ result \in Results
      BY <2>1 DEF Rows, Results
    <2>3. result.finish = NaN
      BY <1>2, <2>2 DEF Results, Last
    <2>4. runs' = [runs EXCEPT ![Len(runs)] = row]
      BY <1>2, <2>1, <2>2 DEF DeleteStart, Rows, Results
    <2> HIDE DEF result
    <2>5. /\ row \in Rows
          /\ row[side] = result
          /\ \A other \in Sides : other # side => row[other] = runs[Len(runs)][other]
      BY <2>1, <2>2, LaneChanged
    <2> HIDE DEF row
    <2>6. \A s \in Sides : row[s].finish # NaN
             => row[s].rt # NaN /\ runs[Len(runs)][s].finish # NaN
      BY <2>1, <2>3, <2>5, LenProperties DEF NothingAhead, ModelOK
    <2>7. QED
      BY <2>1, <2>4, <2>5, <2>6, RowKeeps DEF DeleteStart
  <1>3. QED
    BY <1>1, <1>2

\* The finish goes to a row that waits, or the pointer leaves the table.
LEMMA FinishKeeps ==
  ASSUME ModelOK, NothingAhead, NEW side \in Sides, NEW car \in Cars, AddFinish(side, car)
  PROVE  Kept
  <1> DEFINE waiting == {i \in nextFinish[side] .. Len(runs) : runs[i][side].rt # NaN}
             at == CHOOSE i \in waiting : \A j \in waiting : i <= j
  <1>1. Len(runs) \in Nat /\ DOMAIN runs = 1 .. Len(runs) /\ nextFinish[side] \in Nat \ {0}
    BY LenProperties DEF ModelOK
  <1>2. CASE waiting = {}
    <2>1. runs' = runs /\ nextFinish' = [nextFinish EXCEPT ![side] = Len(runs) + 1]
      BY <1>2 DEF AddFinish
    <2> HIDE DEF waiting
    <2>2. ModelOK'
      BY <1>1, <2>1 DEF ModelOK
    <2>3. NothingAhead'
      BY <1>1, <2>1 DEF ModelOK, NothingAhead
    <2>4. QED
      BY <2>2, <2>3 DEF Kept
  <1>3. CASE waiting # {}
    <2>1. at \in waiting
      <3>1. waiting \subseteq Nat
        BY <1>1
      <3>2. \E i \in waiting : \A j \in waiting : i <= j
        BY <1>3, <3>1, LeastNat
      <3> HIDE DEF waiting
      <3>3. QED
        BY <3>2
    <2> DEFINE old == runs[at][side]
               result == [old EXCEPT !.finish = car]
               row == [runs[at] EXCEPT ![side] = result]
    <2>2. runs' = [runs EXCEPT ![at][side].finish = car]
          /\ nextFinish' = [nextFinish EXCEPT ![side] = at + 1]
      BY <1>3 DEF AddFinish
    <2>3. /\ at \in 1 .. Len(runs) /\ at >= nextFinish[side] /\ runs[at] \in Rows
          /\ old.rt # NaN
      BY SMTT(30), <1>1, <2>1, ElementOfSeq DEF ModelOK
    <2> HIDE DEF waiting, at
    <2>4. old \in Results /\ result \in Results
      BY <2>3 DEF Rows, Results
    <2>5. result.rt # NaN
      BY <2>3, <2>4 DEF Results
    <2>6. runs' = [runs EXCEPT ![at] = row]
      BY <2>2, <2>3, <2>4 DEF Rows, Results
    <2> HIDE DEF result
    <2>7. /\ row \in Rows
          /\ row[side] = result
          /\ \A other \in Sides : other # side => row[other] = runs[at][other]
      BY <2>3, <2>4, LaneChanged
    <2> HIDE DEF row
    <2>8. ModelOK'
      <3>1. runs' \in Seq(Rows) /\ Len(runs') = Len(runs)
        BY <2>3, <2>6, <2>7, RowChanged DEF ModelOK
      <3>2. nextFinish' \in [Sides -> Nat \ {0}]
        BY <1>1, <2>2, <2>3 DEF ModelOK
      <3>3. \A s \in Sides : nextFinish'[s] <= Len(runs) + 1
        BY <1>1, <2>2, <2>3 DEF ModelOK
      <3>4. QED
        BY <3>1, <3>2, <3>3 DEF ModelOK
    <2>9. ASSUME NEW s \in Sides, NEW j \in 1 .. Len(runs), runs'[j][s].finish # NaN
          PROVE  j < nextFinish'[s] /\ runs'[j][s].rt # NaN
      <3>1. CASE j = at /\ s = side
        BY <1>1, <2>2, <2>3, <2>5, <2>6, <2>7, <3>1, RowChanged DEF ModelOK
      <3>2. CASE ~(j = at /\ s = side)
        <4>1. runs'[j][s] = runs[j][s]
          BY <2>3, <2>6, <2>7, <3>2, RowChanged DEF ModelOK
        <4>2. j < nextFinish[s] /\ runs[j][s].rt # NaN
          BY <1>1, <2>9, <4>1 DEF NothingAhead
        <4>3. nextFinish'[s] >= nextFinish[s]
          BY <1>1, <2>2, <2>3 DEF ModelOK
        <4>4. QED
          BY <1>1, <2>3, <2>8, <4>1, <4>2, <4>3 DEF ModelOK
      <3>3. QED
        BY <3>1, <3>2
    <2>10. DOMAIN runs' = 1 .. Len(runs)
      BY <2>3, <2>6, <2>7, RowChanged DEF ModelOK
    <2>11. QED
      BY <2>8, <2>9, <2>10 DEF Kept, NothingAhead
  <1>4. QED
    BY <1>2, <1>3

\* The row before the next one loses its finish and waits again.
LEMMA DeleteFinishKeeps ==
  ASSUME ModelOK, NothingAhead, NEW side \in Sides, DeleteFinish(side)
  PROVE  Kept
  <1> DEFINE at == nextFinish[side] - 1
  <1>1. Len(runs) \in Nat /\ DOMAIN runs = 1 .. Len(runs) /\ nextFinish[side] \in Nat \ {0}
    BY LenProperties DEF ModelOK
  <1>2. CASE at = 0 \/ runs[at][side].finish = NaN
    BY <1>2, NothingKeeps DEF DeleteFinish
  <1>3. CASE at # 0 /\ runs[at][side].finish # NaN
    <2> DEFINE old == runs[at][side]
               result == [old EXCEPT !.finish = NaN]
               row == [runs[at] EXCEPT ![side] = result]
    <2>1. runs' = [runs EXCEPT ![at][side].finish = NaN]
          /\ nextFinish' = [nextFinish EXCEPT ![side] = at]
      BY <1>3 DEF DeleteFinish
    <2>2. /\ at \in 1 .. Len(runs) /\ at = nextFinish[side] - 1 /\ runs[at] \in Rows
      BY <1>1, <1>3, ElementOfSeq DEF ModelOK
    <2> HIDE DEF at
    <2>4. old \in Results /\ result \in Results
      BY <2>2 DEF Rows, Results
    <2>5. result.finish = NaN
      BY <2>4 DEF Results
    <2>6. runs' = [runs EXCEPT ![at] = row]
      BY <2>1, <2>2, <2>4 DEF Rows, Results
    <2> HIDE DEF result
    <2>7. /\ row \in Rows
          /\ row[side] = result
          /\ \A other \in Sides : other # side => row[other] = runs[at][other]
      BY <2>2, <2>4, LaneChanged
    <2> HIDE DEF row
    <2>8. ModelOK'
      <3>1. runs' \in Seq(Rows) /\ Len(runs') = Len(runs)
        BY <2>2, <2>6, <2>7, RowChanged DEF ModelOK
      <3>2. nextFinish' \in [Sides -> Nat \ {0}]
        BY <1>1, <2>1, <2>2 DEF ModelOK
      <3>3. \A s \in Sides : nextFinish'[s] <= Len(runs) + 1
        BY <1>1, <2>1, <2>2 DEF ModelOK
      <3>4. QED
        BY <3>1, <3>2, <3>3 DEF ModelOK
    <2>9. ASSUME NEW s \in Sides, NEW j \in 1 .. Len(runs), runs'[j][s].finish # NaN
          PROVE  j < nextFinish'[s] /\ runs'[j][s].rt # NaN
      <3>1. ~(j = at /\ s = side)
        BY <2>2, <2>5, <2>6, <2>7, <2>9, RowChanged DEF ModelOK
      <3>2. runs'[j][s] = runs[j][s]
        BY <2>2, <2>6, <2>7, <3>1, RowChanged DEF ModelOK
      <3>3. j < nextFinish[s] /\ runs[j][s].rt # NaN
        BY <1>1, <2>9, <3>2 DEF NothingAhead
      <3>4. QED
        BY <1>1, <2>1, <2>2, <3>1, <3>2, <3>3 DEF ModelOK
    <2>10. DOMAIN runs' = 1 .. Len(runs)
      BY <2>2, <2>6, <2>7, RowChanged DEF ModelOK
    <2>11. QED
      BY <2>8, <2>9, <2>10 DEF Kept, NothingAhead
  <1>4. QED
    BY <1>2, <1>3

-----------------------------------------------------------------------------
(* Steps. *)

\* What every step takes for granted.
LEMMA StateFacts ==
  ASSUME IInv
  PROVE  /\ ModelOK /\ NothingAhead
         /\ line \in Seq(Messages) /\ Len(line) \in Nat /\ DOMAIN line = 1 .. Len(line)
         /\ started \in [Sides -> 0 .. MaxStarts] /\ MaxStarts \in Nat
         /\ course \in [Sides -> Seq(Cars)] /\ over \in [Sides -> Seq(Cars)]
         /\ launched \in [Sides -> Cars \union {NaN}]
  BY ProTimerAssumption, LenProperties DEF IInv, TypeOK, ModelOK, Rows

\* Together they make the type invariant.
LEMMA ModelIsTyped ==
  ModelOK <=> /\ runs \in Seq([Sides -> Results])
              /\ nextFinish \in [Sides -> Nat \ {0}]
              /\ \A side \in Sides : nextFinish[side] <= Len(runs) + 1
  BY DEF ModelOK, Rows

LEMMA SendKeepsLine ==
  ASSUME IInv, NEW m \in Messages, m.kind # "tree" => m.car \in Cars, Send(m)
  PROVE  /\ line' \in Seq(Messages) /\ Len(line') <= MaxLine
         /\ LineOK'
  <1>1. /\ line' = Append(line, m)
        /\ Len(line) < MaxLine
    BY DEF Send
  <1>2. /\ line' \in Seq(Messages)
        /\ Len(line') = Len(line) + 1
        /\ \A i \in 1 .. Len(line) : line'[i] = line[i]
        /\ line'[Len(line) + 1] = m
        /\ DOMAIN line' = 1 .. Len(line')
    BY <1>1, StateFacts, AppendProperties, LenProperties
  <1>3. Len(line') <= MaxLine
    BY <1>1, <1>2, StateFacts, ProTimerAssumption
  <1>4. LineOK'
    <2> SUFFICES ASSUME NEW i \in 1 .. Len(line) + 1, line'[i].kind # "tree"
                 PROVE  line'[i].car \in Cars
      BY <1>2 DEF LineOK
    <2>1. CASE i = Len(line) + 1
      BY <1>2, <2>1
    <2>2. CASE i # Len(line) + 1
      <3>1. i \in 1 .. Len(line) /\ DOMAIN line = 1 .. Len(line)
        BY <2>2, StateFacts
      <3>2. line'[i] = line[i]
        BY <1>2, <3>1
      <3>3. QED
        BY <3>1, <3>2 DEF LineOK, IInv
    <2>3. QED
      BY <2>1, <2>2
  <1>5. QED
    BY <1>2, <1>3, <1>4

LEMMA HandledKeeps ==
  ASSUME IInv, line # <<>>, Handled(Head(line))
  PROVE  Kept
  <1> DEFINE m == Head(line)
  <1>1. m \in Messages /\ m = line[1] /\ 1 \in DOMAIN line
    BY StateFacts, HeadTailProperties, LenProperties, EmptySeq
  <1>2. /\ m.kind \in Kinds /\ m.side \in Sides /\ m.red \in BOOLEAN
        /\ m.kind # "tree" => m.car \in Cars
    BY <1>1 DEF Messages, LineOK, IInv
  <1>3. Handled(m)
    OBVIOUS
  <1> HIDE DEF m
  <1>4. CASE m.kind = "tree"
    BY <1>3, <1>4, StateFacts, TreeKeeps DEF Handled
  <1>5. CASE m.kind = "rt"
    <2>1. AddReaction(m.side, m.car, m.red)
      BY <1>3, <1>5 DEF Handled
    <2>2. m.car \in Cars
      BY <1>2, <1>5
    <2>3. QED
      BY <1>2, <2>1, <2>2, StateFacts, ReactionKeeps
  <1>6. CASE m.kind = "sixty"
    <2>1. AddSixty(m.side, m.car)
      BY <1>3, <1>6 DEF Handled
    <2>2. m.car \in Cars
      BY <1>2, <1>6
    <2>3. QED
      BY <1>2, <2>1, <2>2, StateFacts, SixtyKeeps
  <1>7. CASE m.kind = "fin"
    <2>1. AddFinish(m.side, m.car)
      BY <1>3, <1>7 DEF Handled
    <2>2. m.car \in Cars
      BY <1>2, <1>7
    <2>3. QED
      BY <1>2, <2>1, <2>2, StateFacts, FinishKeeps
  <1>8. CASE m.kind = "ds"
    <2>1. DeleteStart(m.side)
      BY <1>3, <1>8 DEF Handled
    <2>2. QED
      BY <1>2, <2>1, StateFacts, DeleteStartKeeps
  <1>9. CASE m.kind = "df"
    <2>1. DeleteFinish(m.side)
      BY <1>3, <1>9 DEF Handled
    <2>2. QED
      BY <1>2, <2>1, StateFacts, DeleteFinishKeeps
  <1>10. QED
    BY <1>2, <1>4, <1>5, <1>6, <1>7, <1>8, <1>9 DEF Kinds

\* A step of the timer leaves the model alone.
LEMMA TimerStep ==
  ASSUME IInv, Elsewhere,
         line' \in Seq(Messages), Len(line') <= MaxLine, LineOK',
         ready' \subseteq Sides, started' \in [Sides -> 0 .. MaxStarts],
         launched' \in [Sides -> Cars \union {NaN}],
         course' \in [Sides -> Seq(Cars)], over' \in [Sides -> Seq(Cars)],
         undone' \in [Sides -> SUBSET Cars], acts' \in 0 .. MaxActs
  PROVE  IInv'
  <1>1. Kept
    BY StateFacts, NothingKeeps DEF Elsewhere
  <1>2. UNCHANGED <<astray, since>>
    BY DEF Elsewhere
  <1>3. QED
    BY <1>1, <1>2, ModelIsTyped DEF Kept, IInv, TypeOK, ModelOK, Rows

LEMMA ActFacts ==
  ASSUME IInv, Act
  PROVE  acts' \in 0 .. MaxActs
  BY DEF IInv, TypeOK, Act

LEMMA QueueFacts ==
  ASSUME NEW S, NEW queue \in Seq(S), queue # <<>>
  PROVE  /\ Head(queue) \in S /\ Tail(queue) \in Seq(S)
         /\ Last(queue) \in S /\ Front(queue) \in Seq(S)
  <1>1. Len(queue) \in Nat \ {0} /\ Len(queue) \in 1 .. Len(queue)
    BY LenProperties, EmptySeq
  <1>2. Last(queue) \in S
    BY <1>1, ElementOfSeq DEF Last
  <1>3. Front(queue) \in Seq(S)
    <2>1. \A i \in 1 .. (Len(queue) - 1) : queue[i] \in S
      BY <1>1, ElementOfSeq
    <2>2. QED
      BY <1>1, <2>1, SubSeqProperties DEF Front
  <1>4. QED
    BY <1>2, <1>3, HeadTailProperties

LEMMA StepKeeps ==
  ASSUME IInv, [Next]_vars
  PROVE  IInv'
  <1> USE StateFacts
  <1>1. CASE Tree
    <2>1. Message("tree", "left", NaN, FALSE) \in Messages
      BY DEF Message, Messages, Kinds, Sides
    <2>2. Message("tree", "left", NaN, FALSE).kind = "tree"
      BY DEF Message
    <2>3. line' \in Seq(Messages) /\ Len(line') <= MaxLine /\ LineOK'
      BY <1>1, <2>1, <2>2, SendKeepsLine DEF Tree
    <2>4. QED
      BY <1>1, <2>3, TimerStep DEF Tree, IInv, TypeOK
  <1>2. ASSUME NEW side \in Sides, NEW red \in BOOLEAN, Start(side, red)
        PROVE  IInv'
    <2> DEFINE car == started[side] + 1
               m == Message("rt", side, car, red)
    <2>1. /\ car \in Cars /\ car \in 0 .. MaxStarts /\ Send(m) /\ Elsewhere
          /\ ready' = ready \ {side} /\ started' = [started EXCEPT ![side] = car]
          /\ launched' = [launched EXCEPT ![side] = car]
          /\ course' = [course EXCEPT ![side] = Append(@, car)]
          /\ UNCHANGED <<over, undone, acts>>
      BY <1>2, CarFacts DEF Start, Cars
    <2> HIDE DEF car
    <2>2. m \in Messages /\ m.car \in Cars
      BY <2>1 DEF Message, Messages, Kinds
    <2>3. line' \in Seq(Messages) /\ Len(line') <= MaxLine /\ LineOK'
      BY <2>1, <2>2, SendKeepsLine
    <2>4. course' \in [Sides -> Seq(Cars)]
      <3>1. Append(course[side], car) \in Seq(Cars)
        BY <2>1, AppendProperties
      <3>2. QED
        BY <2>1, <3>1
    <2>5. /\ started' \in [Sides -> 0 .. MaxStarts]
          /\ launched' \in [Sides -> Cars \union {NaN}]
      BY <2>1
    <2>6. QED
      BY <2>1, <2>3, <2>4, <2>5, TimerStep DEF IInv, TypeOK
  <1>3. ASSUME NEW side \in Sides, Sixty(side)
        PROVE  IInv'
    <2> DEFINE m == Message("sixty", side, launched[side], FALSE)
    <2>1. m \in Messages /\ m.car \in Cars
      BY <1>3 DEF Sixty, Message, Messages, Kinds
    <2>2. line' \in Seq(Messages) /\ Len(line') <= MaxLine /\ LineOK'
      BY <1>3, <2>1, SendKeepsLine DEF Sixty
    <2>3. launched' \in [Sides -> Cars \union {NaN}]
      BY <1>3 DEF Sixty
    <2>4. QED
      BY <1>3, <2>2, <2>3, TimerStep DEF Sixty, IInv, TypeOK
  <1>4. ASSUME NEW side \in Sides, Finish(side)
        PROVE  IInv'
    <2> DEFINE car == Head(course[side])
               m == Message("fin", side, car, FALSE)
    <2>1. /\ course[side] # <<>> /\ Send(m) /\ Elsewhere
          /\ course' = [course EXCEPT ![side] = Tail(@)]
          /\ over' = [over EXCEPT ![side] = Append(@, car)]
          /\ UNCHANGED <<ready, started, launched, undone, acts>>
      BY <1>4 DEF Finish
    <2>2. car \in Cars /\ Tail(course[side]) \in Seq(Cars)
      BY <2>1, QueueFacts
    <2> HIDE DEF car
    <2>3. m \in Messages /\ m.car \in Cars
      BY <2>2 DEF Message, Messages, Kinds
    <2>4. line' \in Seq(Messages) /\ Len(line') <= MaxLine /\ LineOK'
      BY <2>1, <2>3, SendKeepsLine
    <2>5. course' \in [Sides -> Seq(Cars)] /\ over' \in [Sides -> Seq(Cars)]
      <3>1. Append(over[side], car) \in Seq(Cars)
        BY <2>2, AppendProperties
      <3>2. QED
        BY <2>1, <2>2, <3>1
    <2>6. QED
      BY <2>1, <2>4, <2>5, TimerStep DEF IInv, TypeOK
  <1>5. ASSUME NEW side \in Sides, TakeBackStart(side)
        PROVE  IInv'
    <2> DEFINE car == Last(course[side])
               m == Message("ds", side, car, FALSE)
    <2>1. /\ course[side] # <<>> /\ Act /\ Send(m) /\ Elsewhere
          /\ launched' = [launched EXCEPT ![side] = IF @ = car THEN NaN ELSE @]
          /\ undone' = [undone EXCEPT ![side] = @ \union {car}]
          /\ course' = [course EXCEPT ![side] = Front(@)]
          /\ UNCHANGED <<ready, started, over>>
      BY <1>5 DEF TakeBackStart
    <2>2. car \in Cars /\ Front(course[side]) \in Seq(Cars)
      BY <2>1, QueueFacts
    <2> HIDE DEF car
    <2>3. m \in Messages /\ m.car \in Cars
      BY <2>2 DEF Message, Messages, Kinds
    <2>4. line' \in Seq(Messages) /\ Len(line') <= MaxLine /\ LineOK'
      BY <2>1, <2>3, SendKeepsLine
    <2>5. /\ course' \in [Sides -> Seq(Cars)]
          /\ launched' \in [Sides -> Cars \union {NaN}]
          /\ undone' \in [Sides -> SUBSET Cars]
      BY <2>1, <2>2 DEF IInv, TypeOK
    <2>6. QED
      BY <2>1, <2>4, <2>5, ActFacts, TimerStep DEF IInv, TypeOK
  <1>6. ASSUME NEW side \in Sides, TakeBackFinish(side)
        PROVE  IInv'
    <2> DEFINE car == Last(over[side])
               m == Message("df", side, car, FALSE)
    <2>1. /\ over[side] # <<>> /\ Act /\ Send(m) /\ Elsewhere
          /\ course' = [course EXCEPT ![side] = <<car>> \o @]
          /\ over' = [over EXCEPT ![side] = Front(@)]
          /\ UNCHANGED <<ready, started, launched, undone>>
      BY <1>6 DEF TakeBackFinish
    <2>2. car \in Cars /\ Front(over[side]) \in Seq(Cars)
      BY <2>1, QueueFacts
    <2> HIDE DEF car
    <2>3. m \in Messages /\ m.car \in Cars
      BY <2>2 DEF Message, Messages, Kinds
    <2>4. line' \in Seq(Messages) /\ Len(line') <= MaxLine /\ LineOK'
      BY <2>1, <2>3, SendKeepsLine
    <2>5. course' \in [Sides -> Seq(Cars)] /\ over' \in [Sides -> Seq(Cars)]
      <3>1. <<car>> \in Seq(Cars)
        BY <2>2
      <3>2. <<car>> \o course[side] \in Seq(Cars)
        BY <3>1, ConcatProperties
      <3>3. QED
        BY <2>1, <2>2, <3>2
    <2>6. QED
      BY <2>1, <2>4, <2>5, ActFacts, TimerStep DEF IInv, TypeOK
  <1>7. CASE Event
    <2>1. Kept
      BY <1>7, HandledKeeps DEF Event
    <2>2. line # <<>> /\ line' = Tail(line)
      BY <1>7 DEF Event
    <2>3. /\ line' \in Seq(Messages) /\ Len(line') = Len(line) - 1
          /\ \A i \in 1 .. Len(line') : line'[i] = line[i + 1]
          /\ DOMAIN line' = 1 .. Len(line')
      BY <2>2, HeadTailProperties, LenProperties
    <2>4. LineOK'
      <3> SUFFICES ASSUME NEW i \in 1 .. Len(line'), line'[i].kind # "tree"
                   PROVE  line'[i].car \in Cars
        BY <2>3 DEF LineOK
      <3>1. i + 1 \in DOMAIN line /\ line'[i] = line[i + 1]
        BY <2>3
      <3>2. QED
        BY <3>1 DEF LineOK, IInv
    <2>5. Len(line') <= MaxLine
      BY <2>3, ProTimerAssumption DEF IInv, TypeOK
    <2>6. astray' \in [Sides -> BOOLEAN]
      <3>1. Unfound(Head(line)) \in BOOLEAN
        BY DEF Unfound
      <3>2. QED
        BY <1>7, <3>1 DEF Event, IInv, TypeOK
    <2>7. UNCHANGED <<timer, since, acts>>
      BY <1>7 DEF Event
    <2>8. QED
      BY <2>1, <2>3, <2>4, <2>5, <2>6, <2>7 DEF Kept, IInv, TypeOK, ModelOK, Rows, timer
  <1>8. CASE Reset
    <2>1. Kept /\ Len(runs') \in Nat \ {0}
      BY <1>8, ResetKeeps DEF Reset
    <2>2. /\ Act /\ ready' = {} /\ launched' = [side \in Sides |-> NaN]
          /\ course' = [side \in Sides |-> <<>>] /\ over' = [side \in Sides |-> <<>>]
          /\ UNCHANGED <<line, started, undone>>
      BY <1>8 DEF Reset
    <2>3. since' \in [Sides -> Nat \ {0}] /\ astray' \in [Sides -> BOOLEAN]
      BY <1>8, <2>1 DEF Reset
    <2>4. /\ launched' \in [Sides -> Cars \union {NaN}]
          /\ course' \in [Sides -> Seq(Cars)] /\ over' \in [Sides -> Seq(Cars)]
      BY <2>2, EmptySeq
    <2>5. LineOK'
      BY <2>2 DEF LineOK, IInv
    <2>6. QED
      BY <2>1, <2>2, <2>3, <2>4, <2>5, ActFacts DEF Kept, IInv, TypeOK, ModelOK, Rows
  <1>9. CASE Restart
    <2>1. /\ Act /\ UNCHANGED timer
          /\ runs' = <<>> /\ nextFinish' = [side \in Sides |-> 1] /\ line' = <<>>
      BY <1>9 DEF Restart
    <2>2. since' \in [Sides -> Nat \ {0}] /\ astray' \in [Sides -> BOOLEAN]
      BY <1>9 DEF Restart
    <2>3. Kept
      BY <2>1, EmptySeq DEF Kept, ModelOK, NothingAhead
    <2>4. line' \in Seq(Messages) /\ Len(line') <= MaxLine /\ LineOK'
      BY <2>1, EmptySeq, ProTimerAssumption DEF LineOK
    <2>5. QED
      BY <2>1, <2>2, <2>3, <2>4, ActFacts DEF Kept, IInv, TypeOK, ModelOK, Rows, timer
  <1>10. CASE UNCHANGED vars
    BY <1>10 DEF vars, model, timer, IInv, TypeOK, LineOK, NothingAhead
  <1>11. QED
    BY <1>1, <1>2, <1>3, <1>4, <1>5, <1>6, <1>7, <1>8, <1>9, <1>10 DEF Next

LEMMA InitOK ==
  ASSUME Init
  PROVE  IInv
  <1>1. ModelOK /\ NothingAhead
    BY EmptySeq DEF Init, ModelOK, NothingAhead
  <1>2. line \in Seq(Messages) /\ Len(line) <= MaxLine /\ LineOK
    BY EmptySeq, ProTimerAssumption DEF Init, LineOK
  <1>3. course \in [Sides -> Seq(Cars)] /\ over \in [Sides -> Seq(Cars)]
    BY EmptySeq DEF Init
  <1>4. QED
    BY <1>1, <1>2, <1>3, ModelIsTyped, ProTimerAssumption DEF Init, IInv, TypeOK

-----------------------------------------------------------------------------

\* The rows, the pointers and what is under way stay of their types: no
\* sequence of starts, finishes, deletions, resets and restarts puts a
\* pointer more than one row past the table.
THEOREM TypeCorrect == Spec => []TypeOK
  <1>1. Init => IInv
    BY InitOK
  <1>2. IInv /\ [Next]_vars => IInv'
    BY StepKeeps
  <1>3. IInv => TypeOK
    BY DEF IInv
  <1>4. QED
    BY <1>1, <1>2, <1>3, PTL DEF Spec

\* The row that the next finish goes to has none yet, and every row with a
\* finish has a reaction, whatever the timer sends and the operator does.
THEOREM NoFinishOverwritten == Spec => []NothingAhead
  <1>1. Init => IInv
    BY InitOK
  <1>2. IInv /\ [Next]_vars => IInv'
    BY StepKeeps
  <1>3. IInv => NothingAhead
    BY DEF IInv
  <1>4. QED
    BY <1>1, <1>2, <1>3, PTL DEF Spec

-----------------------------------------------------------------------------
(* Sets of numbers in their order: what InOrder returns.  The induction over*)
(* the set is by the least counterexample.                                  *)

IsOrdered(list, S) ==
    /\ \A m, n \in DOMAIN list : m < n => list[m] < list[n]
    /\ \A i \in S : \E n \in DOMAIN list : list[n] = i

Lists(list, S) == list \in [1 .. Cardinality(S) -> S] /\ IsOrdered(list, S)

\* There is one way to put a set in its order.
LEMMA SameList ==
  ASSUME NEW S \in SUBSET Nat, NEW p \in Nat, NEW q \in Nat,
         NEW a \in [1 .. p -> S], NEW b \in [1 .. q -> S], IsOrdered(a, S), IsOrdered(b, S)
  PROVE  p = q /\ a = b
  <1> DEFINE Bad == {k \in 1 .. p : k \notin 1 .. q \/ a[k] # b[k]}
  <1>1. /\ \A m, n \in 1 .. p : m < n => a[m] < a[n]
        /\ \A m, n \in 1 .. q : m < n => b[m] < b[n]
        /\ \A i \in S : \E n \in 1 .. p : a[n] = i
        /\ \A i \in S : \E n \in 1 .. q : b[n] = i
    BY DEF IsOrdered
  <1>2. /\ \A n \in 1 .. p : a[n] \in S /\ a[n] \in Nat
        /\ \A n \in 1 .. q : b[n] \in S /\ b[n] \in Nat
    OBVIOUS
  <1>3. Bad = {}
    <2> SUFFICES ASSUME Bad # {} PROVE FALSE
      OBVIOUS
    <2>1. Bad \in SUBSET Nat
      OBVIOUS
    <2>2. PICK k \in Bad : \A j \in Bad : k <= j
      BY <2>1, LeastNat
    <2>3. k \in 1 .. p /\ (k \notin 1 .. q \/ a[k] # b[k])
      OBVIOUS
    <2>4. ASSUME NEW j \in 1 .. p, j < k
          PROVE  j \in 1 .. q /\ a[j] = b[j]
      BY <2>2, <2>4
    <2> HIDE DEF Bad
    <2>5. PICK j \in 1 .. q : b[j] = a[k]
      BY <1>1, <1>2, <2>3
    <2>6. ~(j < k)
      <3>1. ASSUME j < k PROVE FALSE
        <4>1. j \in 1 .. p
          BY <2>3, <3>1
        <4>2. a[j] = b[j] /\ a[j] < a[k]
          BY <1>1, <2>3, <2>4, <3>1, <4>1
        <4>3. QED
          BY <1>2, <2>3, <2>5, <4>2
      <3>2. QED
        BY <3>1
    <2>7. k \in 1 .. q /\ k < j
      BY <2>3, <2>5, <2>6
    <2>8. b[k] < a[k]
      BY <1>1, <2>5, <2>7
    <2>9. PICK i \in 1 .. p : a[i] = b[k]
      BY <1>1, <1>2, <2>7
    <2>10. CASE i < k
      <3>1. b[i] = a[i] /\ i \in 1 .. q
        BY <2>4, <2>10
      <3>2. b[i] < b[k]
        BY <1>1, <2>7, <2>10, <3>1
      <3>3. QED
        BY <1>2, <2>7, <2>9, <3>1, <3>2
    <2>11. CASE i = k
      BY <1>2, <2>3, <2>8, <2>9, <2>11
    <2>12. CASE i > k
      <3>1. a[k] < a[i]
        BY <1>1, <2>3, <2>12
      <3>2. QED
        BY <1>2, <2>3, <2>7, <2>8, <2>9, <3>1
    <2>13. QED
      BY <2>3, <2>9, <2>10, <2>11, <2>12
  <1>4. \A k \in 1 .. p : k \in 1 .. q /\ a[k] = b[k]
    BY <1>3
  <1> HIDE DEF Bad
  <1>5. p <= q
    BY <1>4
  <1>6. ~(p < q)
    <2>1. ASSUME p < q PROVE FALSE
      <3>1. q \in 1 .. q
        BY <2>1
      <3>2. PICK j \in 1 .. p : a[j] = b[q]
        BY <1>1, <1>2, <3>1
      <3>3. j \in 1 .. q /\ b[j] = a[j] /\ j < q
        BY <1>4, <2>1, <3>2
      <3>4. b[j] < b[q]
        BY <1>1, <3>1, <3>3
      <3>5. QED
        BY <1>2, <3>1, <3>2, <3>3, <3>4
    <2>2. QED
      BY <2>1
  <1>7. p = q
    BY <1>5, <1>6
  <1>8. QED
    BY <1>4, <1>7

Longer(list, c, m) == [n \in 1 .. (c + 1) |-> IF n = c + 1 THEN m ELSE list[n]]

IsLonger(longer, S, list, c, m) ==
    /\ longer \in [1 .. (c + 1) -> S \union {m}]
    /\ \A n \in 1 .. c : list[n] \in S /\ longer[n] = list[n]
    /\ longer[c + 1] = m

LEMMA LongerFacts ==
  ASSUME NEW S, NEW c \in Nat, NEW list \in [1 .. c -> S], NEW m
  PROVE  IsLonger(Longer(list, c, m), S, list, c, m)
  <1>1. \A n \in 1 .. (c + 1) : n # c + 1 => n \in 1 .. c
    OBVIOUS
  <1>2. \A n \in 1 .. (c + 1) : (IF n = c + 1 THEN m ELSE list[n]) \in S \union {m}
    BY <1>1
  <1>3. \A n \in 1 .. c : n \in 1 .. (c + 1) /\ n # c + 1
    OBVIOUS
  <1>4. QED
    BY <1>2, <1>3 DEF Longer, IsLonger

\* A greatest element comes last.
LEMMA ListExtended ==
  ASSUME NEW S \in SUBSET Nat, IsFiniteSet(S), NEW list, Lists(list, S),
         NEW m \in Nat, \A i \in S : i < m
  PROVE  /\ IsFiniteSet(S \union {m}) /\ Cardinality(S \union {m}) = Cardinality(S) + 1
         /\ Lists(Longer(list, Cardinality(S), m), S \union {m})
  <1> DEFINE c == Cardinality(S)
             longer == Longer(list, c, m)
  <1>1. c \in Nat /\ m \notin S
    BY FS_CardinalityType
  <1>2. IsFiniteSet(S \union {m}) /\ Cardinality(S \union {m}) = c + 1
    BY <1>1, FS_AddElement
  <1>3. list \in [1 .. c -> S] /\ IsOrdered(list, S)
    BY DEF Lists
  <1> HIDE DEF c
  <1>4. /\ longer \in [1 .. (c + 1) -> S \union {m}] /\ DOMAIN longer = 1 .. (c + 1)
        /\ \A n \in 1 .. c : list[n] \in S /\ longer[n] = list[n]
        /\ longer[c + 1] = m
    <2>1. IsLonger(longer, S, list, c, m)
      BY <1>1, <1>3, LongerFacts
    <2> HIDE DEF longer
    <2>2. QED
      BY <2>1 DEF IsLonger
  <1>5. \A n \in 1 .. c : list[n] \in S /\ longer[n] = list[n]
    BY <1>4
  <1>6. longer[c + 1] = m /\ DOMAIN longer = 1 .. (c + 1)
    BY <1>4
  <1> HIDE DEF longer
  <1>8. ASSUME NEW i \in 1 .. (c + 1), NEW n \in 1 .. (c + 1), i < n
        PROVE  longer[i] < longer[n]
    <2>1. i \in 1 .. c
      BY <1>1, <1>8
    <2>2. CASE n = c + 1
      BY <1>5, <1>6, <2>1, <2>2
    <2>3. CASE n # c + 1
      <3>1. n \in 1 .. c
        BY <1>1, <2>3
      <3>2. QED
        BY <1>3, <1>5, <1>8, <2>1, <3>1 DEF IsOrdered
    <2>4. QED
      BY <2>2, <2>3
  <1>9. ASSUME NEW i \in S \union {m}
        PROVE  \E n \in 1 .. (c + 1) : longer[n] = i
    <2>1. CASE i = m
      BY <1>1, <1>6, <2>1
    <2>2. CASE i # m
      <3>1. PICK n \in 1 .. c : list[n] = i
        BY <1>3, <2>2 DEF IsOrdered
      <3>2. n \in 1 .. (c + 1) /\ longer[n] = i
        BY <1>1, <1>5, <3>1
      <3>3. QED
        BY <3>2
    <2>3. QED
      BY <2>1, <2>2
  <1>10. IsOrdered(longer, S \union {m})
    BY <1>6, <1>8, <1>9 DEF IsOrdered
  <1>11. QED
    BY <1>2, <1>4, <1>10 DEF Lists, c, longer

LEMMA ListsExist ==
  ASSUME NEW top \in Nat, NEW S \in SUBSET (1 .. top)
  PROVE  IsFiniteSet(S) /\ \E list : Lists(list, S)
  <1> DEFINE Bad == {n \in Nat : \E T \in SUBSET (1 .. n) :
                                    ~(IsFiniteSet(T) /\ \E list : Lists(list, T))}
  <1>1. Bad = {}
    <2> SUFFICES ASSUME Bad # {} PROVE FALSE
      OBVIOUS
    <2>1. PICK n \in Bad : \A k \in Bad : n <= k
      BY LeastNat
    <2>2. PICK T \in SUBSET (1 .. n) : ~(IsFiniteSet(T) /\ \E list : Lists(list, T))
      OBVIOUS
    <2>3. n \in Nat
      OBVIOUS
    <2>4. ASSUME NEW k \in Nat, k < n, NEW U \in SUBSET (1 .. k)
          PROVE  IsFiniteSet(U) /\ \E list : Lists(list, U)
      BY <2>1, <2>4
    <2> HIDE DEF Bad
    <2>5. CASE n \notin T
      <3>1. CASE n = 0
        <4>1. T = {}
          BY <2>3, <3>1
        <4>2. IsFiniteSet(T) /\ Cardinality(T) = 0
          BY <4>1, FS_EmptySet
        <4>3. <<>> \in [1 .. 0 -> T] /\ DOMAIN <<>> = 1 .. 0
          OBVIOUS
        <4>4. IsOrdered(<<>>, T)
          BY <4>1, <4>3 DEF IsOrdered
        <4>5. Lists(<<>>, T)
          BY <4>2, <4>3, <4>4 DEF Lists
        <4>6. QED
          BY <2>2, <4>2, <4>5
      <3>2. CASE n # 0
        <4>1. n - 1 \in Nat /\ n - 1 < n /\ T \in SUBSET (1 .. (n - 1))
          BY <2>3, <2>5, <3>2
        <4>2. QED
          BY <2>2, <2>4, <4>1
      <3>3. QED
        BY <3>1, <3>2
    <2>6. CASE n \in T
      <3> DEFINE U == T \ {n}
      <3>1. n - 1 \in Nat /\ n - 1 < n /\ U \in SUBSET (1 .. (n - 1))
        BY <2>3, <2>6
      <3>2. T = U \union {n} /\ U \in SUBSET Nat /\ \A i \in U : i < n
        BY <2>3, <2>6, <3>1
      <3>3. IsFiniteSet(U) /\ \E list : Lists(list, U)
        BY <2>4, <3>1
      <3> HIDE DEF U
      <3>4. PICK list : Lists(list, U)
        BY <3>3
      <3>6. IsFiniteSet(U \union {n}) /\ Lists(Longer(list, Cardinality(U), n), U \union {n})
        BY <2>3, <3>2, <3>3, <3>4, ListExtended
      <3>7. QED
        BY <2>2, <3>2, <3>6
    <2>7. QED
      BY <2>5, <2>6
  <1>2. QED
    BY <1>1

LEMMA InOrderLists ==
  ASSUME NEW top \in Nat, NEW S \in SUBSET (1 .. top)
  PROVE  /\ IsFiniteSet(S) /\ Cardinality(S) \in Nat
         /\ Lists(InOrder(S), S)
         /\ DOMAIN InOrder(S) = 1 .. Cardinality(S)
         /\ \A n \in 1 .. Cardinality(S) : InOrder(S)[n] \in S
  <1>1. IsFiniteSet(S) /\ \E list : Lists(list, S)
    BY ListsExist
  <1>2. Cardinality(S) \in Nat
    BY <1>1, FS_CardinalityType
  <1>3. \E list \in [1 .. Cardinality(S) -> S] :
            /\ \A m, n \in DOMAIN list : m < n => list[m] < list[n]
            /\ \A i \in S : \E n \in DOMAIN list : list[n] = i
    BY <1>1 DEF Lists, IsOrdered
  <1>4. Lists(InOrder(S), S)
    BY <1>3 DEF InOrder, Lists, IsOrdered
  <1>5. QED
    BY <1>1, <1>2, <1>4 DEF Lists

LEMMA InOrderIs ==
  ASSUME NEW top \in Nat, NEW S \in SUBSET (1 .. top), NEW list, Lists(list, S)
  PROVE  InOrder(S) = list
  <1>1. S \in SUBSET Nat
    OBVIOUS
  <1>2. /\ Cardinality(S) \in Nat
        /\ InOrder(S) \in [1 .. Cardinality(S) -> S] /\ IsOrdered(InOrder(S), S)
        /\ list \in [1 .. Cardinality(S) -> S] /\ IsOrdered(list, S)
    BY InOrderLists DEF Lists
  <1>3. QED
    BY <1>1, <1>2, SameList

\* With a new greatest element the list has one more entry, at its end.
LEMMA InOrderGrows ==
  ASSUME NEW top \in Nat, NEW S \in SUBSET (1 .. top), NEW m \in 1 .. top, \A i \in S : i < m
  PROVE  /\ Cardinality(S \union {m}) = Cardinality(S) + 1
         /\ \A n \in 1 .. Cardinality(S) : InOrder(S \union {m})[n] = InOrder(S)[n]
         /\ InOrder(S \union {m})[Cardinality(S) + 1] = m
  <1> DEFINE c == Cardinality(S)
             longer == Longer(InOrder(S), c, m)
  <1>1. S \in SUBSET Nat /\ m \in Nat /\ S \union {m} \in SUBSET (1 .. top)
    OBVIOUS
  <1>2. IsFiniteSet(S) /\ c \in Nat /\ Lists(InOrder(S), S)
    BY InOrderLists
  <1>3. Cardinality(S \union {m}) = c + 1 /\ Lists(longer, S \union {m})
    BY <1>1, <1>2, ListExtended
  <1>4. InOrder(S) \in [1 .. c -> S]
    BY <1>2 DEF Lists
  <1> HIDE DEF c
  <1>5. InOrder(S \union {m}) = longer
    BY <1>1, <1>3, InOrderIs
  <1>6. (\A n \in 1 .. c : longer[n] = InOrder(S)[n]) /\ longer[c + 1] = m
    <2>1. IsLonger(longer, S, InOrder(S), c, m)
      BY <1>2, <1>4, LongerFacts
    <2> HIDE DEF longer
    <2>2. QED
      BY <2>1 DEF IsLonger
  <1>7. QED
    BY <1>3, <1>5, <1>6 DEF c

-----------------------------------------------------------------------------
(* What the handlers do to a row.                                           *)

\* All results but one are as they were.
Others(r, side) ==
    /\ runs' \in Seq(Rows) /\ Len(runs') = Len(runs)
    /\ \A i \in 1 .. Len(runs), s \in Sides : i # r \/ s # side => runs'[i][s] = runs[i][s]

LEMMA ResultSet ==
  ASSUME ModelOK, NEW r \in 1 .. Len(runs), NEW side \in Sides, NEW result \in Results,
         runs' = [runs EXCEPT ![r] = [runs[r] EXCEPT ![side] = result]]
  PROVE  Others(r, side) /\ runs'[r][side] = result
  <1> DEFINE row == [runs[r] EXCEPT ![side] = result]
  <1>1. runs \in Seq(Rows) /\ Len(runs) \in Nat /\ runs[r] \in Rows
    BY LenProperties, ElementOfSeq DEF ModelOK
  <1>2. /\ row \in Rows /\ row[side] = result
        /\ \A s \in Sides : s # side => row[s] = runs[r][s]
    BY <1>1, LaneChanged
  <1>3. runs' = [runs EXCEPT ![r] = row]
    OBVIOUS
  <1> HIDE DEF row
  <1>4. /\ runs' \in Seq(Rows) /\ Len(runs') = Len(runs) /\ runs'[r] = row
        /\ \A i \in 1 .. Len(runs) : i # r => runs'[i] = runs[i]
    BY <1>1, <1>2, <1>3, RowChanged
  <1>5. QED
    BY <1>2, <1>4 DEF Others

LEMMA RowFacts ==
  ASSUME ModelOK
  PROVE  /\ Len(runs) \in Nat /\ DOMAIN runs = 1 .. Len(runs)
         /\ runs # <<>> <=> Len(runs) > 0
         /\ \A i \in 1 .. Len(runs), side \in Sides :
               /\ runs[i] \in Rows /\ runs[i][side] \in Results
               /\ runs[i][side].rt \in Cars \union {NaN}
               /\ runs[i][side].sixty \in Cars \union {NaN}
               /\ runs[i][side].finish \in Cars \union {NaN}
               /\ runs[i][side].red \in Cars \union {NaN}
         /\ \A side \in Sides : nextFinish[side] \in Nat \ {0} /\ nextFinish[side] <= Len(runs) + 1
  <1>1. Len(runs) \in Nat /\ DOMAIN runs = 1 .. Len(runs) /\ (runs # <<>> <=> Len(runs) > 0)
    BY LenProperties, EmptySeq DEF ModelOK
  <1>2. \A i \in 1 .. Len(runs) : runs[i] \in Rows
    BY ElementOfSeq DEF ModelOK
  <1>3. \A i \in 1 .. Len(runs), side \in Sides : runs[i][side] \in Results
    BY <1>2 DEF Rows
  <1>4. QED
    BY <1>1, <1>2, <1>3 DEF ModelOK, Results

LEMMA ReactionRow ==
  ASSUME ModelOK, NEW side \in Sides, NEW car \in Cars, NEW red \in BOOLEAN,
         AddReaction(side, car, red), runs # <<>>
  PROVE  /\ Others(Len(runs), side)
         /\ runs'[Len(runs)][side].rt = car
         /\ runs'[Len(runs)][side].sixty = runs[Len(runs)][side].sixty
         /\ runs'[Len(runs)][side].finish = runs[Len(runs)][side].finish
         /\ runs'[Len(runs)][side].red = IF red THEN car ELSE runs[Len(runs)][side].red
  <1> DEFINE old == runs[Len(runs)][side]
             result == [old EXCEPT !.rt = car, !.red = IF red THEN car ELSE @]
  <1>1. Len(runs) \in 1 .. Len(runs) /\ runs[Len(runs)] \in Rows /\ old \in Results
    BY RowFacts
  <1>2. /\ result \in Results /\ result.rt = car /\ result.sixty = old.sixty
        /\ result.finish = old.finish /\ result.red = IF red THEN car ELSE old.red
    BY <1>1 DEF Results
  <1>3. runs' = [runs EXCEPT ![Len(runs)] = [runs[Len(runs)] EXCEPT ![side] = result]]
    BY <1>1 DEF AddReaction, Rows, Results
  <1> HIDE DEF result
  <1>4. Others(Len(runs), side) /\ runs'[Len(runs)][side] = result
    BY <1>1, <1>2, <1>3, ResultSet
  <1>5. QED
    BY <1>2, <1>4

LEMMA SixtyRow ==
  ASSUME ModelOK, NEW side \in Sides, NEW car \in Cars, AddSixty(side, car), runs # <<>>
  PROVE  /\ Others(Len(runs), side)
         /\ runs'[Len(runs)][side].rt = runs[Len(runs)][side].rt
         /\ runs'[Len(runs)][side].sixty = car
         /\ runs'[Len(runs)][side].finish = runs[Len(runs)][side].finish
         /\ runs'[Len(runs)][side].red = runs[Len(runs)][side].red
  <1> DEFINE old == runs[Len(runs)][side]
             result == [old EXCEPT !.sixty = car]
  <1>1. Len(runs) \in 1 .. Len(runs) /\ runs[Len(runs)] \in Rows /\ old \in Results
    BY RowFacts
  <1>2. /\ result \in Results /\ result.rt = old.rt /\ result.sixty = car
        /\ result.finish = old.finish /\ result.red = old.red
    BY <1>1 DEF Results
  <1>3. runs' = [runs EXCEPT ![Len(runs)] = [runs[Len(runs)] EXCEPT ![side] = result]]
    BY <1>1 DEF AddSixty, Rows, Results
  <1> HIDE DEF result
  <1>4. Others(Len(runs), side) /\ runs'[Len(runs)][side] = result
    BY <1>1, <1>2, <1>3, ResultSet
  <1>5. QED
    BY <1>2, <1>4

\* The start in the last row is taken back.
StartDeleted(side) ==
    /\ runs # <<>> /\ runs[Len(runs)][side].rt # NaN /\ runs[Len(runs)][side].finish = NaN
    /\ Others(Len(runs), side)
    /\ runs'[Len(runs)][side].rt = NaN
    /\ runs'[Len(runs)][side].sixty = NaN
    /\ runs'[Len(runs)][side].finish = NaN
    /\ runs'[Len(runs)][side].red = runs[Len(runs)][side].red

LEMMA DeleteStartRow ==
  ASSUME ModelOK, NEW side \in Sides, DeleteStart(side)
  PROVE  \/ /\ runs = <<>> \/ runs[Len(runs)][side].rt = NaN
               \/ runs[Len(runs)][side].finish # NaN
            /\ runs' = runs
         \/ StartDeleted(side)
  <1>1. CASE ~(runs # <<>> /\ Last(runs)[side].rt # NaN /\ Last(runs)[side].finish = NaN)
    BY <1>1 DEF DeleteStart, Last
  <1>2. CASE runs # <<>> /\ Last(runs)[side].rt # NaN /\ Last(runs)[side].finish = NaN
    <2> DEFINE old == runs[Len(runs)][side]
               result == [[old EXCEPT !.rt = NaN] EXCEPT !.sixty = NaN]
    <2>1. Len(runs) \in 1 .. Len(runs) /\ runs[Len(runs)] \in Rows /\ old \in Results
      BY <1>2, RowFacts
    <2>2. /\ result \in Results /\ result.rt = NaN /\ result.sixty = NaN
          /\ result.finish = old.finish /\ result.red = old.red
      BY <2>1 DEF Results
    <2>3. runs' = [runs EXCEPT ![Len(runs)] = [runs[Len(runs)] EXCEPT ![side] = result]]
      BY <1>2, <2>1 DEF DeleteStart, Rows, Results
    <2> HIDE DEF result
    <2>4. Others(Len(runs), side) /\ runs'[Len(runs)][side] = result
      BY <2>1, <2>2, <2>3, ResultSet
    <2>5. QED
      BY <1>2, <2>2, <2>4 DEF StartDeleted, Last
  <1>3. QED
    BY <1>1, <1>2

\* The finish goes to the first row that waits.
FinishAdded(side, car, r) ==
    /\ r \in 1 .. Len(runs) /\ nextFinish[side] <= r
    /\ runs[r][side].rt # NaN
    /\ \A i \in nextFinish[side] .. (r - 1) : runs[i][side].rt = NaN
    /\ Others(r, side)
    /\ runs'[r][side].rt = runs[r][side].rt
    /\ runs'[r][side].sixty = runs[r][side].sixty
    /\ runs'[r][side].finish = car
    /\ runs'[r][side].red = runs[r][side].red
    /\ nextFinish' = [nextFinish EXCEPT ![side] = r + 1]

LEMMA AddFinishRow ==
  ASSUME ModelOK, NEW side \in Sides, NEW car \in Cars, AddFinish(side, car)
  PROVE  \/ /\ \A i \in nextFinish[side] .. Len(runs) : runs[i][side].rt = NaN
            /\ runs' = runs /\ nextFinish' = [nextFinish EXCEPT ![side] = Len(runs) + 1]
         \/ \E r \in 1 .. Len(runs) : FinishAdded(side, car, r)
  <1> DEFINE waiting == {i \in nextFinish[side] .. Len(runs) : runs[i][side].rt # NaN}
             r == CHOOSE i \in waiting : \A j \in waiting : i <= j
  <1>1. Len(runs) \in Nat /\ nextFinish[side] \in Nat \ {0}
    BY RowFacts
  <1>2. CASE waiting = {}
    <2>1. runs' = runs /\ nextFinish' = [nextFinish EXCEPT ![side] = Len(runs) + 1]
      BY <1>2 DEF AddFinish
    <2>2. \A i \in nextFinish[side] .. Len(runs) : runs[i][side].rt = NaN
      BY <1>2
    <2>3. QED
      BY <2>1, <2>2
  <1>3. CASE waiting # {}
    <2>1. r \in waiting /\ \A j \in waiting : r <= j
      <3>1. waiting \in SUBSET Nat
        BY <1>1
      <3>2. \E i \in waiting : \A j \in waiting : i <= j
        BY <1>3, <3>1, LeastNat
      <3> HIDE DEF waiting
      <3>3. QED
        BY <3>2
    <2>2. runs' = [runs EXCEPT ![r][side].finish = car]
          /\ nextFinish' = [nextFinish EXCEPT ![side] = r + 1]
      BY <1>3 DEF AddFinish
    <2> HIDE DEF r
    <2>3. /\ r \in 1 .. Len(runs) /\ nextFinish[side] <= r /\ runs[r][side].rt # NaN
      BY <1>1, <2>1
    <2>4. \A i \in nextFinish[side] .. (r - 1) : runs[i][side].rt = NaN
      <3> SUFFICES ASSUME NEW i \in nextFinish[side] .. (r - 1), runs[i][side].rt # NaN
                   PROVE  FALSE
        OBVIOUS
      <3>1. i \in waiting /\ i < r /\ i \in Nat
        BY <1>1, <2>3
      <3>2. QED
        BY <1>1, <2>1, <2>3, <3>1
    <2> HIDE DEF waiting
    <2> DEFINE old == runs[r][side]
               result == [old EXCEPT !.finish = car]
    <2>5. runs[r] \in Rows /\ old \in Results
      BY <2>3, RowFacts
    <2>6. /\ result \in Results /\ result.rt = old.rt /\ result.sixty = old.sixty
          /\ result.finish = car /\ result.red = old.red
      BY <2>5 DEF Results
    <2>7. runs' = [runs EXCEPT ![r] = [runs[r] EXCEPT ![side] = result]]
      BY <2>2, <2>3, <2>5 DEF Rows, Results
    <2> HIDE DEF result
    <2>8. Others(r, side) /\ runs'[r][side] = result
      BY <2>3, <2>6, <2>7, ResultSet
    <2>9. FinishAdded(side, car, r)
      BY <2>2, <2>3, <2>4, <2>6, <2>8 DEF FinishAdded
    <2>10. QED
      BY <2>3, <2>9
  <1>4. QED
    BY <1>2, <1>3

\* The row before the next one loses its finish.
FinishDeleted(side, r) ==
    /\ r \in 1 .. Len(runs) /\ nextFinish[side] = r + 1
    /\ runs[r][side].finish # NaN
    /\ Others(r, side)
    /\ runs'[r][side].rt = runs[r][side].rt
    /\ runs'[r][side].sixty = runs[r][side].sixty
    /\ runs'[r][side].finish = NaN
    /\ runs'[r][side].red = runs[r][side].red
    /\ nextFinish' = [nextFinish EXCEPT ![side] = r]

LEMMA DeleteFinishRow ==
  ASSUME ModelOK, NEW side \in Sides, DeleteFinish(side)
  PROVE  \/ /\ nextFinish[side] = 1 \/ runs[nextFinish[side] - 1][side].finish = NaN
            /\ UNCHANGED model
         \/ \E r \in 1 .. Len(runs) : FinishDeleted(side, r)
  <1> DEFINE r == nextFinish[side] - 1
  <1>1. /\ Len(runs) \in Nat /\ nextFinish[side] \in Nat \ {0} /\ nextFinish[side] <= Len(runs) + 1
    BY RowFacts
  <1>2. CASE r = 0 \/ runs[r][side].finish = NaN
    BY <1>1, <1>2 DEF DeleteFinish
  <1>3. CASE r # 0 /\ runs[r][side].finish # NaN
    <2> DEFINE old == runs[r][side]
               result == [old EXCEPT !.finish = NaN]
    <2>1. runs' = [runs EXCEPT ![r][side].finish = NaN]
          /\ nextFinish' = [nextFinish EXCEPT ![side] = r]
      BY <1>3 DEF DeleteFinish
    <2>2. r \in 1 .. Len(runs) /\ nextFinish[side] = r + 1 /\ runs[r][side].finish # NaN
      BY <1>1, <1>3
    <2> HIDE DEF r
    <2>3. runs[r] \in Rows /\ old \in Results
      BY <2>2, RowFacts
    <2>4. /\ result \in Results /\ result.rt = old.rt /\ result.sixty = old.sixty
          /\ result.finish = NaN /\ result.red = old.red
      BY <2>3 DEF Results
    <2>5. runs' = [runs EXCEPT ![r] = [runs[r] EXCEPT ![side] = result]]
      BY <2>1, <2>2, <2>3 DEF Rows, Results
    <2> HIDE DEF result
    <2>6. Others(r, side) /\ runs'[r][side] = result
      BY <2>2, <2>4, <2>5, ResultSet
    <2>7. FinishDeleted(side, r)
      BY <2>1, <2>2, <2>4, <2>6 DEF FinishDeleted
    <2>8. QED
      BY <2>2, <2>7
  <1>4. QED
    BY <1>2, <1>3

\* There is a row in which nobody started yet, the last one: an old one, or
\* a new one below the others.
Entered ==
    /\ runs' \in Seq(Rows) /\ Len(runs') \in {Len(runs), Len(runs) + 1} /\ Len(runs') > 0
    /\ \A i \in 1 .. Len(runs) : runs'[i] = runs[i]
    /\ \A side \in Sides : runs'[Len(runs')][side].rt = NaN
    /\ Len(runs') > Len(runs) => runs'[Len(runs')] = DualResult

LEMMA EntryRow ==
  ASSUME ModelOK, runs' = CreateNewEntry
  PROVE  Entered
  <1>1. Len(runs) \in Nat /\ runs \in Seq(Rows) /\ (runs # <<>> <=> Len(runs) > 0)
    BY RowFacts DEF ModelOK
  <1>2. CASE runs # <<>> /\ \A side \in Sides : Last(runs)[side].rt = NaN
    <2>1. runs' = runs
      BY <1>2 DEF CreateNewEntry
    <2>2. QED
      BY <1>1, <1>2, <2>1 DEF Entered, Last
  <1>3. CASE ~(runs # <<>> /\ \A side \in Sides : Last(runs)[side].rt = NaN)
    <2>1. runs' = Append(runs, DualResult) /\ DualResult \in Rows
      BY <1>3, NewRow DEF CreateNewEntry
    <2>2. /\ runs' \in Seq(Rows)
          /\ Len(runs') = Len(runs) + 1
          /\ \A i \in 1 .. Len(runs) : runs'[i] = runs[i]
          /\ runs'[Len(runs) + 1] = DualResult
      BY <1>1, <2>1, AppendProperties
    <2>3. \A side \in Sides : DualResult[side].rt = NaN
      BY DEF DualResult, Result
    <2>4. QED
      BY <1>1, <2>2, <2>3 DEF Entered
  <1>4. QED
    BY <1>2, <1>3

-----------------------------------------------------------------------------
(* What the listeners see of a lane, for any table.                         *)

Finished(table, side) == {i \in 1 .. Len(table) : table[i][side].finish # NaN}

Shown(table, side) ==
    [n \in 1 .. Cardinality(Finished(table, side)) |->
        table[InOrder(Finished(table, side))[n]][side].finish]

LEMMA ShownFacts ==
  ASSUME NEW table \in Seq(Rows), NEW side \in Sides
  PROVE  /\ Len(table) \in Nat /\ Finished(table, side) \in SUBSET (1 .. Len(table))
         /\ Shown(table, side) \in Seq(Cars)
         /\ Len(Shown(table, side)) = Cardinality(Finished(table, side))
         /\ Cardinality(Finished(table, side)) \in Nat
         /\ \A n \in 1 .. Cardinality(Finished(table, side)) :
               /\ InOrder(Finished(table, side))[n] \in Finished(table, side)
               /\ Shown(table, side)[n]
                     = table[InOrder(Finished(table, side))[n]][side].finish
  <1> DEFINE S == Finished(table, side)
             c == Cardinality(S)
  <1>1. Len(table) \in Nat
    BY LenProperties
  <1>2. S \in SUBSET (1 .. Len(table))
    BY DEF Finished
  <1>3. \A i \in S : table[i][side].finish \in Cars
    BY <1>2, ElementOfSeq DEF Finished, Rows, Results
  <1>4. Shown(table, side) = [n \in 1 .. c |-> table[InOrder(S)[n]][side].finish]
    BY DEF Shown
  <1> HIDE DEF S
  <1>5. c \in Nat /\ \A n \in 1 .. c : InOrder(S)[n] \in S
    BY <1>1, <1>2, InOrderLists
  <1> HIDE DEF c
  <1>6. \A n \in 1 .. c : table[InOrder(S)[n]][side].finish \in Cars
    BY <1>3, <1>5
  <1>7. Shown(table, side) \in [1 .. c -> Cars]
    BY <1>4, <1>6
  <1>8. Shown(table, side) \in Seq(Cars) /\ Len(Shown(table, side)) = c
    <2>1. Shown(table, side) \in Seq(Cars)
      BY <1>5, <1>7, IsASeq
    <2>2. DOMAIN Shown(table, side) = 1 .. c
      BY <1>7
    <2>3. QED
      BY <1>5, <2>1, <2>2, LenProperties, IsASeq
  <1>9. \A n \in 1 .. c : Shown(table, side)[n] = table[InOrder(S)[n]][side].finish
    BY <1>4
  <1>10. QED
    BY <1>1, <1>2, <1>5, <1>8, <1>9 DEF S, c

\* Equal finishes in the same rows are shown the same.
LEMMA ShownSame ==
  ASSUME NEW a \in Seq(Rows), NEW b \in Seq(Rows), NEW side \in Sides,
         Finished(a, side) = Finished(b, side),
         \A i \in Finished(a, side) : a[i][side].finish = b[i][side].finish
  PROVE  Shown(a, side) = Shown(b, side)
  <1>1. \A n \in 1 .. Cardinality(Finished(a, side)) :
            InOrder(Finished(a, side))[n] \in Finished(a, side)
    BY ShownFacts
  <1>2. QED
    BY <1>1 DEF Shown

\* Another finish below the others is one more run at the end.
LEMMA ShownGrows ==
  ASSUME NEW a \in Seq(Rows), NEW b \in Seq(Rows), NEW side \in Sides, NEW m \in 1 .. Len(b),
         Finished(b, side) = Finished(a, side) \union {m},
         \A i \in Finished(a, side) : i < m /\ a[i][side].finish = b[i][side].finish
  PROVE  /\ Shown(a, side) \in Seq(Cars) /\ Shown(b, side) \in Seq(Cars)
         /\ Len(Shown(b, side)) = Len(Shown(a, side)) + 1
         /\ \A n \in 1 .. Len(Shown(a, side)) : Shown(b, side)[n] = Shown(a, side)[n]
  <1> DEFINE S == Finished(a, side)
             T == Finished(b, side)
             c == Cardinality(S)
  <1>1. Len(b) \in Nat /\ T \in SUBSET (1 .. Len(b))
    BY ShownFacts
  <1>2. T = S \union {m} /\ \A i \in S : i < m /\ a[i][side].finish = b[i][side].finish
    OBVIOUS
  <1>3. /\ Shown(a, side) \in Seq(Cars) /\ Len(Shown(a, side)) = c /\ c \in Nat
        /\ \A n \in 1 .. c : /\ InOrder(S)[n] \in S
                             /\ Shown(a, side)[n] = a[InOrder(S)[n]][side].finish
    BY ShownFacts
  <1>4. /\ Shown(b, side) \in Seq(Cars) /\ Len(Shown(b, side)) = Cardinality(T)
        /\ \A n \in 1 .. Cardinality(T) : Shown(b, side)[n] = b[InOrder(T)[n]][side].finish
    BY ShownFacts
  <1> HIDE DEF S, T
  <1>5. S \in SUBSET (1 .. Len(b)) /\ m \in 1 .. Len(b) /\ \A i \in S : i < m
    BY <1>1, <1>2
  <1>6. /\ Cardinality(S \union {m}) = c + 1
        /\ \A n \in 1 .. c : InOrder(S \union {m})[n] = InOrder(S)[n]
    BY ONLY <1>1, <1>5, InOrderGrows
  <1>7. Cardinality(T) = c + 1 /\ \A n \in 1 .. c : InOrder(T)[n] = InOrder(S)[n]
    BY <1>2, <1>6
  <1> HIDE DEF c
  <1>8. \A n \in 1 .. c : n \in 1 .. (c + 1)
    BY <1>3
  <1>9. ASSUME NEW n \in 1 .. c
        PROVE  Shown(b, side)[n] = Shown(a, side)[n]
    <2>1. InOrder(S)[n] \in S /\ InOrder(T)[n] = InOrder(S)[n]
      BY <1>3, <1>7
    <2>2. Shown(b, side)[n] = b[InOrder(S)[n]][side].finish
      BY <1>4, <1>7, <1>8, <2>1
    <2>3. QED
      BY <1>2, <1>3, <2>1, <2>2
  <1>10. QED
    BY <1>3, <1>4, <1>7, <1>9

LEMMA ShownRuns ==
  ASSUME NEW side \in Sides, NEW table \in Seq(Rows)
  PROVE  LET list == InOrder({i \in DOMAIN table : table[i][side].finish # NaN})
         IN  [n \in DOMAIN list |-> table[list[n]][side].finish] = Shown(table, side)
  <1>1. DOMAIN table = 1 .. Len(table) /\ Len(table) \in Nat
    BY LenProperties
  <1>2. {i \in DOMAIN table : table[i][side].finish # NaN} = Finished(table, side)
    BY <1>1 DEF Finished
  <1>3. DOMAIN InOrder(Finished(table, side)) = 1 .. Cardinality(Finished(table, side))
    BY <1>1, InOrderLists DEF Finished
  <1>4. QED
    BY <1>2, <1>3 DEF Shown

\* What a lane shows to its listeners from one table to the next.
SourceStep(side, a, b) ==
    \/ Shown(b, side) = Shown(a, side)
    \/ /\ Len(Shown(b, side)) = Len(Shown(a, side)) + 1
       /\ \A n \in 1 .. Len(Shown(a, side)) : Shown(b, side)[n] = Shown(a, side)[n]
    \/ /\ Shown(a, side) # <<>>
       /\ Shown(b, side) = SubSeq(Shown(a, side), 1, Len(Shown(a, side)) - 1)
    \/ Shown(b, side) = <<>>

LEMMA TablesSame ==
  ASSUME NEW a \in Seq(Rows), NEW b \in Seq(Rows), NEW side \in Sides,
         Finished(a, side) = Finished(b, side),
         \A i \in Finished(a, side) : a[i][side].finish = b[i][side].finish
  PROVE  SourceStep(side, a, b)
  BY ShownSame DEF SourceStep

LEMMA EntryShows ==
  ASSUME ModelOK, Entered, NEW side \in Sides
  PROVE  SourceStep(side, runs, runs')
  <1>1. /\ runs \in Seq(Rows) /\ runs' \in Seq(Rows) /\ Len(runs) \in Nat
        /\ Len(runs') \in {Len(runs), Len(runs) + 1}
        /\ \A i \in 1 .. Len(runs) : runs'[i] = runs[i]
        /\ Len(runs') > Len(runs) => runs'[Len(runs')] = DualResult
    BY RowFacts DEF ModelOK, Entered
  <1>2. DualResult[side].finish = NaN
    BY NewRow
  <1>3. \A i \in 1 .. Len(runs') : runs'[i][side].finish # NaN => i \in 1 .. Len(runs)
    BY <1>1, <1>2
  <1>4. \A i \in 1 .. Len(runs) : i \in 1 .. Len(runs')
    BY <1>1
  <1>5. Finished(runs, side) = Finished(runs', side)
    BY <1>1, <1>3, <1>4 DEF Finished
  <1>6. \A i \in Finished(runs, side) : runs[i][side].finish = runs'[i][side].finish
    BY <1>1 DEF Finished
  <1>7. QED
    BY <1>1, <1>5, <1>6, TablesSame

LEMMA OtherShows ==
  ASSUME ModelOK, NEW s \in Sides, NEW side \in Sides, NEW r \in 1 .. Len(runs), Others(r, s),
         s # side \/ runs'[r][s].finish = runs[r][s].finish
  PROVE  SourceStep(side, runs, runs')
  <1>1. /\ runs \in Seq(Rows) /\ runs' \in Seq(Rows) /\ Len(runs') = Len(runs)
        /\ \A i \in 1 .. Len(runs) : runs[i][side].finish = runs'[i][side].finish
    BY DEF ModelOK, Others
  <1>2. Finished(runs, side) = Finished(runs', side)
    BY <1>1 DEF Finished
  <1>3. QED
    BY <1>1, <1>2, TablesSame DEF Finished

LEMMA FinishShows ==
  ASSUME ModelOK, NothingAhead, NEW side \in Sides, NEW car \in Cars, NEW r \in 1 .. Len(runs),
         FinishAdded(side, car, r)
  PROVE  SourceStep(side, runs, runs')
  <1>1. /\ runs \in Seq(Rows) /\ runs' \in Seq(Rows) /\ Len(runs') = Len(runs)
        /\ \A i \in 1 .. Len(runs) : i # r => runs'[i][side] = runs[i][side]
        /\ runs'[r][side].finish # NaN
    BY CarFacts DEF ModelOK, FinishAdded, Others
  <1>2. \A i \in Finished(runs, side) : i < r
    <2>1. Len(runs) \in Nat /\ nextFinish[side] \in Nat /\ nextFinish[side] <= r
      BY RowFacts DEF FinishAdded
    <2>2. \A i \in Finished(runs, side) : i \in 1 .. Len(runs) /\ i < nextFinish[side]
      BY RowFacts DEF Finished, NothingAhead
    <2>3. QED
      BY <2>1, <2>2
  <1>3. Finished(runs', side) = Finished(runs, side) \union {r}
    BY <1>1 DEF Finished
  <1>4. \A i \in Finished(runs, side) : i < r /\ runs[i][side].finish = runs'[i][side].finish
    <2>1. \A i \in Finished(runs, side) : i \in 1 .. Len(runs) /\ i < r
      BY <1>2 DEF Finished
    <2>2. \A i \in Finished(runs, side) : i # r
      BY <2>1
    <2>3. QED
      BY <1>1, <2>1, <2>2
  <1>5. r \in 1 .. Len(runs')
    BY <1>1
  <1>6. QED
    BY <1>1, <1>3, <1>4, <1>5, ShownGrows DEF SourceStep

LEMMA DeletionShows ==
  ASSUME ModelOK, NothingAhead, NEW side \in Sides, NEW r \in 1 .. Len(runs),
         FinishDeleted(side, r)
  PROVE  SourceStep(side, runs, runs')
  <1>1. /\ runs \in Seq(Rows) /\ runs' \in Seq(Rows) /\ Len(runs') = Len(runs)
        /\ \A i \in 1 .. Len(runs) : i # r => runs'[i][side] = runs[i][side]
        /\ runs'[r][side].finish = NaN /\ runs[r][side].finish # NaN
    BY DEF ModelOK, FinishDeleted, Others
  <1>2. \A i \in Finished(runs', side) : i \in 1 .. Len(runs) /\ i # r
    BY <1>1 DEF Finished
  <1>3. \A i \in Finished(runs', side) : i < r
    <2>1. Len(runs) \in Nat /\ nextFinish[side] = r + 1
      BY RowFacts DEF FinishDeleted
    <2>2. \A i \in Finished(runs', side) : i < nextFinish[side]
      BY <1>1, <1>2, RowFacts DEF Finished, NothingAhead
    <2>3. QED
      BY <1>2, <2>1, <2>2
  <1>4. Finished(runs, side) = Finished(runs', side) \union {r}
    BY <1>1 DEF Finished
  <1>5. \A i \in Finished(runs', side) : i < r /\ runs'[i][side].finish = runs[i][side].finish
    BY <1>1, <1>2, <1>3
  <1>6. /\ Shown(runs', side) \in Seq(Cars) /\ Shown(runs, side) \in Seq(Cars)
        /\ Len(Shown(runs, side)) = Len(Shown(runs', side)) + 1
        /\ \A n \in 1 .. Len(Shown(runs', side)) : Shown(runs, side)[n] = Shown(runs', side)[n]
    BY <1>1, <1>4, <1>5, ShownGrows
  <1> DEFINE a == Shown(runs, side)
             b == Shown(runs', side)
  <1>7. /\ b \in Seq(Cars) /\ a \in Seq(Cars) /\ Len(a) = Len(b) + 1
        /\ \A n \in 1 .. Len(b) : a[n] = b[n]
    BY <1>6
  <1>8. (a # <<>> /\ b = SubSeq(a, 1, Len(a) - 1)) => SourceStep(side, runs, runs')
    BY DEF SourceStep
  <1> HIDE DEF a, b
  <1>9. Len(b) \in Nat /\ Len(a) \in Nat /\ Len(a) - 1 = Len(b) /\ a # <<>>
    BY <1>7, LenProperties, EmptySeq
  <1>10. \A n \in 1 .. Len(b) : a[n] \in Cars
    BY <1>7, LenProperties
  <1>11. /\ SubSeq(a, 1, Len(b)) \in Seq(Cars) /\ Len(SubSeq(a, 1, Len(b))) = Len(b)
         /\ \A n \in 1 .. Len(b) : SubSeq(a, 1, Len(b))[n] = a[n]
    BY <1>9, <1>10, SubSeqProperties
  <1>12. SubSeq(a, 1, Len(b)) = b
    BY <1>7, <1>11, SeqEqual
  <1>13. QED
    BY <1>8, <1>9, <1>12

LEMMA HandledShows ==
  ASSUME IInv, line # <<>>, Handled(Head(line)), NEW side \in Sides
  PROVE  SourceStep(side, runs, runs')
  <1> DEFINE m == Head(line)
  <1>1. m \in Messages /\ m = line[1] /\ 1 \in DOMAIN line
    BY StateFacts, HeadTailProperties, LenProperties, EmptySeq
  <1>2. /\ m.kind \in Kinds /\ m.side \in Sides /\ m.red \in BOOLEAN
        /\ m.kind # "tree" => m.car \in Cars
    BY <1>1 DEF Messages, LineOK, IInv
  <1>3. Handled(m)
    OBVIOUS
  <1> HIDE DEF m
  <1>4. ModelOK /\ NothingAhead /\ runs \in Seq(Rows)
    BY StateFacts DEF ModelOK
  <1>5. ASSUME runs' = runs
        PROVE  SourceStep(side, runs, runs')
    BY <1>5 DEF SourceStep
  <1>6. runs # <<>> => Len(runs) \in 1 .. Len(runs)
    BY <1>4, RowFacts
  <1>7. CASE m.kind = "tree"
    <2>1. runs' = CreateNewEntry
      BY <1>3, <1>7 DEF Handled
    <2>2. QED
      BY <1>4, <2>1, EntryRow, EntryShows
  <1>8. CASE m.kind = "rt"
    <2>1. AddReaction(m.side, m.car, m.red) /\ m.car \in Cars
      BY <1>2, <1>3, <1>8 DEF Handled
    <2>2. CASE runs = <<>>
      BY <1>5, <2>1, <2>2 DEF AddReaction
    <2>3. CASE runs # <<>>
      BY <1>2, <1>4, <1>6, <2>1, <2>3, ReactionRow, OtherShows
    <2>4. QED
      BY <2>2, <2>3
  <1>9. CASE m.kind = "sixty"
    <2>1. AddSixty(m.side, m.car) /\ m.car \in Cars
      BY <1>2, <1>3, <1>9 DEF Handled
    <2>2. CASE runs = <<>>
      BY <1>5, <2>1, <2>2 DEF AddSixty
    <2>3. CASE runs # <<>>
      BY <1>2, <1>4, <1>6, <2>1, <2>3, SixtyRow, OtherShows
    <2>4. QED
      BY <2>2, <2>3
  <1>10. CASE m.kind = "fin"
    <2>1. AddFinish(m.side, m.car) /\ m.car \in Cars
      BY <1>2, <1>3, <1>10 DEF Handled
    <2>2. CASE runs' = runs
      BY <1>5, <2>2
    <2>3. CASE runs' # runs
      <3>1. PICK r \in 1 .. Len(runs) : FinishAdded(m.side, m.car, r)
        BY <1>2, <1>4, <2>1, <2>3, AddFinishRow
      <3>2. CASE m.side = side
        <4>1. FinishAdded(side, m.car, r)
          BY <3>1, <3>2
        <4>2. QED
          BY <1>4, <2>1, <4>1, FinishShows
      <3>3. CASE m.side # side
        <4>1. Others(r, m.side)
          BY <3>1 DEF FinishAdded
        <4>2. QED
          BY <1>2, <1>4, <3>3, <4>1, OtherShows
      <3>4. QED
        BY <3>2, <3>3
    <2>4. QED
      BY <2>2, <2>3
  <1>11. CASE m.kind = "ds"
    <2>1. DeleteStart(m.side)
      BY <1>3, <1>11 DEF Handled
    <2>2. CASE runs' = runs
      BY <1>5, <2>2
    <2>3. CASE runs' # runs
      <3>1. StartDeleted(m.side)
        BY <1>2, <1>4, <2>1, <2>3, DeleteStartRow
      <3>2. /\ runs # <<>> /\ Others(Len(runs), m.side)
            /\ runs'[Len(runs)][m.side].finish = runs[Len(runs)][m.side].finish
        BY <3>1 DEF StartDeleted
      <3>3. QED
        BY <1>2, <1>4, <1>6, <3>2, OtherShows
    <2>4. QED
      BY <2>2, <2>3
  <1>12. CASE m.kind = "df"
    <2>1. DeleteFinish(m.side)
      BY <1>3, <1>12 DEF Handled
    <2>2. CASE runs' = runs
      BY <1>5, <2>2
    <2>3. CASE runs' # runs
      <3>1. PICK r \in 1 .. Len(runs) : FinishDeleted(m.side, r)
        BY <1>2, <1>4, <2>1, <2>3, DeleteFinishRow DEF model
      <3>2. CASE m.side = side
        <4>1. FinishDeleted(side, r)
          BY <3>1, <3>2
        <4>2. QED
          BY <1>4, <4>1, DeletionShows
      <3>3. CASE m.side # side
        <4>1. Others(r, m.side)
          BY <3>1 DEF FinishDeleted
        <4>2. QED
          BY <1>2, <1>4, <3>3, <4>1, OtherShows
      <3>4. QED
        BY <3>2, <3>3
    <2>4. QED
      BY <2>2, <2>3
  <1>13. QED
    BY <1>2, <1>7, <1>8, <1>9, <1>10, <1>11, <1>12 DEF Kinds

LEMMA StepShows ==
  ASSUME IInv, [Next]_vars, NEW side \in Sides
  PROVE  SourceStep(side, runs, runs')
  <1>1. ASSUME runs' = runs
        PROVE  SourceStep(side, runs, runs')
    BY <1>1 DEF SourceStep
  <1>2. CASE Event
    BY <1>2, HandledShows DEF Event
  <1>3. CASE Reset
    BY <1>3, StateFacts, EntryRow, EntryShows DEF Reset, ResetRows
  <1>4. CASE Restart
    <2>1. runs' = <<>> /\ <<>> \in Seq(Rows) /\ Len(<<>>) = 0
      BY <1>4, EmptySeq DEF Restart
    <2>2. Finished(<<>>, side) = {}
      BY <2>1 DEF Finished
    <2>3. Len(Shown(<<>>, side)) = 0 /\ Shown(<<>>, side) \in Seq(Cars)
      BY <2>1, <2>2, ShownFacts, FS_EmptySet
    <2>4. Shown(<<>>, side) = <<>>
      BY <2>3, EmptySeq
    <2>5. QED
      BY <2>1, <2>4 DEF SourceStep
  <1>5. CASE Tree
    BY <1>1, <1>5 DEF Tree, Elsewhere, model
  <1>6. ASSUME NEW s \in Sides, NEW red \in BOOLEAN, Start(s, red)
        PROVE  SourceStep(side, runs, runs')
    BY <1>1, <1>6 DEF Start, Elsewhere, model
  <1>7. ASSUME NEW s \in Sides,
               Sixty(s) \/ Finish(s) \/ TakeBackStart(s) \/ TakeBackFinish(s)
        PROVE  SourceStep(side, runs, runs')
    BY <1>1, <1>7 DEF Sixty, Finish, TakeBackStart, TakeBackFinish, Elsewhere, model
  <1>8. CASE UNCHANGED vars
    BY <1>1, <1>8 DEF vars, model
  <1>9. QED
    BY <1>2, <1>3, <1>4, <1>5, <1>6, <1>7, <1>8 DEF Next

\* Each lane is a timer to its listeners: from its first step on, its list of
\* finished runs grows by one run, loses its last one or is forgotten, also
\* while the program and the timer disagree.
THEOREM LanesShowSources == Spec => LanesAreSources
  <1> DEFINE Shows(side) ==
                \/ FinishedRuns(side)' = FinishedRuns(side)
                \/ /\ Len(FinishedRuns(side)') = Len(FinishedRuns(side)) + 1
                   /\ \A row \in 1 .. Len(FinishedRuns(side)) :
                         FinishedRuns(side)'[row] = FinishedRuns(side)[row]
                \/ /\ FinishedRuns(side) # <<>>
                   /\ FinishedRuns(side)'
                         = SubSeq(FinishedRuns(side), 1, Len(FinishedRuns(side)) - 1)
                \/ FinishedRuns(side)' = <<>>
  <1>1. Init => IInv
    BY InitOK
  <1>2. IInv /\ [Next]_vars => IInv'
    BY StepKeeps
  <1>3. ASSUME Init, NEW side \in Sides
        PROVE  FinishedRuns(side) = <<>>
    <2>1. ModelOK /\ runs = <<>> /\ <<>> \in Seq(Rows) /\ Len(<<>>) = 0
      BY <1>1, <1>3, StateFacts, EmptySeq DEF Init
    <2>2. Finished(<<>>, side) = {}
      BY <2>1 DEF Finished
    <2>3. Len(Shown(<<>>, side)) = 0 /\ Shown(<<>>, side) \in Seq(Cars)
      BY <2>1, <2>2, ShownFacts, FS_EmptySet
    <2>4. QED
      BY <2>1, <2>3, ShownRuns, EmptySeq DEF FinishedRuns, FinishedRows
  <1>4. ASSUME IInv, [Next]_vars, NEW side \in Sides
        PROVE  Shows(side)
    <2>1. runs \in Seq(Rows) /\ runs' \in Seq(Rows)
      BY <1>2, <1>4 DEF IInv, TypeOK, Rows
    <2>2. FinishedRuns(side) = Shown(runs, side) /\ FinishedRuns(side)' = Shown(runs', side)
      BY <2>1, ShownRuns DEF FinishedRuns, FinishedRows
    <2>3. QED
      BY <1>4, <2>2, StepShows DEF SourceStep
  <1>5. "left" \in Sides /\ "right" \in Sides
    BY DEF Sides
  <1>6. Init => Left!Init /\ Right!Init
    BY <1>3, <1>5 DEF Left!Init, Right!Init
  <1>7. IInv /\ [Next]_vars
           => [Left!Next]_(FinishedRuns("left")) /\ [Right!Next]_(FinishedRuns("right"))
    BY <1>4, <1>5 DEF Left!Next, Left!Announce, Left!TakeBack, Left!Forget,
                      Right!Next, Right!Announce, Right!TakeBack, Right!Forget
  <1>8. QED
    BY <1>1, <1>2, <1>6, <1>7, PTL DEF Spec, LanesAreSources, Left!Spec, Right!Spec

-----------------------------------------------------------------------------
(* Queues of cars in the order of their starts.                             *)

Values(queue) == {queue[i] : i \in 1 .. Len(queue)}
Rising(queue) == \A i, j \in 1 .. Len(queue) : i < j => queue[i] < queue[j]

LEMMA ValuesAreCars ==
  ASSUME NEW queue \in Seq(Cars)
  PROVE  Values(queue) \in SUBSET Cars /\ Values(queue) \in SUBSET Nat
  <1>1. \A i \in 1 .. Len(queue) : queue[i] \in Cars
    BY LenProperties
  <1>2. \A c \in Values(queue) : c \in Cars
    BY <1>1 DEF Values
  <1>3. QED
    BY <1>2, CarFacts

LEMMA NoValues == Values(<<>>) = {} /\ Rising(<<>>)
  BY EmptySeq DEF Values, Rising

LEMMA RisingAppend ==
  ASSUME NEW queue \in Seq(Cars), Rising(queue), NEW car \in Cars, \A c \in Values(queue) : c < car
  PROVE  Rising(Append(queue, car)) /\ Values(Append(queue, car)) = Values(queue) \union {car}
  <1> DEFINE longer == Append(queue, car)
  <1>1. /\ Len(queue) \in Nat /\ Len(longer) = Len(queue) + 1
        /\ \A i \in 1 .. Len(queue) : longer[i] = queue[i]
        /\ longer[Len(queue) + 1] = car
    BY LenProperties, AppendProperties
  <1> HIDE DEF longer
  <1>2. \A i \in 1 .. Len(queue) : queue[i] < car
    BY DEF Values
  <1>3. \A i \in 1 .. (Len(queue) + 1) : i # Len(queue) + 1 => i \in 1 .. Len(queue)
    BY <1>1
  <1>4. Rising(longer)
    <2> SUFFICES ASSUME NEW i \in 1 .. Len(longer), NEW j \in 1 .. Len(longer), i < j
                 PROVE  longer[i] < longer[j]
      BY DEF Rising
    <2>1. i \in 1 .. Len(queue)
      BY <1>1
    <2>2. CASE j = Len(queue) + 1
      BY <1>1, <1>2, <2>1, <2>2
    <2>3. CASE j # Len(queue) + 1
      <3>1. j \in 1 .. Len(queue)
        BY <1>1, <2>3
      <3>2. QED
        BY <1>1, <2>1, <3>1 DEF Rising
    <2>4. QED
      BY <2>2, <2>3
  <1>5. Values(longer) = Values(queue) \union {car}
    <2>1. \A i \in 1 .. Len(queue) : i \in 1 .. (Len(queue) + 1)
      BY <1>1
    <2>2. Len(queue) + 1 \in 1 .. (Len(queue) + 1)
      BY <1>1
    <2>3. Values(longer) \subseteq Values(queue) \union {car}
      BY <1>1, <1>3 DEF Values
    <2>4. Values(queue) \union {car} \subseteq Values(longer)
      BY <1>1, <2>1, <2>2 DEF Values
    <2>5. QED
      BY <2>3, <2>4
  <1>6. QED
    BY <1>4, <1>5 DEF longer

LEMMA RisingTail ==
  ASSUME NEW queue \in Seq(Cars), Rising(queue), queue # <<>>
  PROVE  /\ Rising(Tail(queue)) /\ Values(Tail(queue)) = Values(queue) \ {Head(queue)}
         /\ Head(queue) \in Values(queue) /\ \A c \in Values(queue) : Head(queue) <= c
  <1> DEFINE rest == Tail(queue)
  <1>1. /\ Len(queue) \in Nat /\ Len(queue) > 0 /\ Len(rest) = Len(queue) - 1
        /\ \A i \in 1 .. Len(rest) : rest[i] = queue[i + 1]
        /\ Head(queue) = queue[1]
    BY LenProperties, HeadTailProperties, EmptySeq
  <1>2. \A i \in 1 .. Len(queue) : queue[i] \in Nat
    BY LenProperties, CarFacts
  <1> HIDE DEF rest
  <1>3. \A i \in 2 .. Len(queue) : queue[1] < queue[i]
    BY <1>1 DEF Rising
  <1>4. Rising(rest)
    <2> SUFFICES ASSUME NEW i \in 1 .. Len(rest), NEW j \in 1 .. Len(rest), i < j
                 PROVE  rest[i] < rest[j]
      BY DEF Rising
    <2>1. i + 1 \in 1 .. Len(queue) /\ j + 1 \in 1 .. Len(queue) /\ i + 1 < j + 1
      BY <1>1
    <2>2. QED
      BY <1>1, <2>1 DEF Rising
  <1>5. 1 \in 1 .. Len(queue)
    BY <1>1
  <1>6. \A c \in Values(queue) : queue[1] <= c
    BY <1>1, <1>2, <1>3, <1>5 DEF Values
  <1>7. Values(rest) \subseteq Values(queue) \ {queue[1]}
    <2> SUFFICES ASSUME NEW i \in 1 .. Len(rest)
                 PROVE  rest[i] \in Values(queue) /\ rest[i] # queue[1]
      BY DEF Values
    <2>1. i + 1 \in 1 .. Len(queue) /\ i + 1 \in 2 .. Len(queue)
      BY <1>1
    <2>2. rest[i] = queue[i + 1]
      BY <1>1
    <2>3. QED
      BY <1>2, <1>3, <1>5, <2>1, <2>2 DEF Values
  <1>8. Values(queue) \ {queue[1]} \subseteq Values(rest)
    <2> SUFFICES ASSUME NEW i \in 1 .. Len(queue), i # 1
                 PROVE  queue[i] \in Values(rest)
      BY DEF Values
    <2>1. i - 1 \in 1 .. Len(rest) /\ (i - 1) + 1 = i
      BY <1>1
    <2>2. rest[i - 1] = queue[i]
      BY <1>1, <2>1
    <2>3. QED
      BY <2>1, <2>2 DEF Values
  <1>9. Values(rest) = Values(queue) \ {queue[1]}
    BY <1>7, <1>8
  <1>10. QED
    BY <1>1, <1>4, <1>5, <1>6, <1>9 DEF Values, rest

LEMMA RisingFront ==
  ASSUME NEW queue \in Seq(Cars), Rising(queue), queue # <<>>
  PROVE  /\ Rising(Front(queue)) /\ Values(Front(queue)) = Values(queue) \ {Last(queue)}
         /\ Last(queue) \in Values(queue) /\ \A c \in Values(queue) : c <= Last(queue)
  <1> DEFINE n == Len(queue)
             rest == Front(queue)
  <1>1. n \in Nat /\ n > 0 /\ Last(queue) = queue[n]
    BY LenProperties, EmptySeq DEF Last
  <1>2. \A i \in 1 .. n : queue[i] \in Nat /\ queue[i] \in Cars
    BY LenProperties, CarFacts
  <1>3. Rising(queue) => \A i, j \in 1 .. n : i < j => queue[i] < queue[j]
    BY DEF Rising
  <1>4. rest = SubSeq(queue, 1, n - 1)
    BY DEF Front
  <1>5. Values(queue) = {queue[i] : i \in 1 .. n}
    BY DEF Values
  <1> HIDE DEF n
  <1>6. Len(rest) = n - 1 /\ \A i \in 1 .. (n - 1) : rest[i] = queue[i]
    <2>1. \A i \in 1 .. (n - 1) : queue[i] \in Cars
      BY <1>1, <1>2
    <2>2. QED
      BY <1>1, <1>4, <2>1, SubSeqProperties
  <1> HIDE DEF rest
  <1>7. \A i \in 1 .. (n - 1) : i \in 1 .. n /\ i < n /\ queue[i] < queue[n]
    BY <1>1, <1>3
  <1>8. \A i \in 1 .. n : i # n => i \in 1 .. (n - 1)
    BY <1>1
  <1>9. n \in 1 .. n
    BY <1>1
  <1>10. Rising(rest)
    BY <1>1, <1>3, <1>6 DEF Rising
  <1>11. \A c \in Values(queue) : c <= queue[n]
    BY <1>2, <1>5, <1>7, <1>8, <1>9
  <1>12. Values(rest) = {rest[i] : i \in 1 .. (n - 1)}
    BY <1>6 DEF Values
  <1>13. Values(rest) \subseteq Values(queue) \ {queue[n]}
    <2> SUFFICES ASSUME NEW i \in 1 .. (n - 1)
                 PROVE  rest[i] \in Values(queue) /\ rest[i] # queue[n]
      BY <1>12
    <2>1. rest[i] = queue[i] /\ i \in 1 .. n /\ queue[i] < queue[n]
      BY <1>6, <1>7
    <2>2. QED
      BY <1>2, <1>5, <1>9, <2>1
  <1>14. Values(queue) \ {queue[n]} \subseteq Values(rest)
    <2> SUFFICES ASSUME NEW i \in 1 .. n, i # n
                 PROVE  queue[i] \in Values(rest)
      BY <1>5
    <2>1. i \in 1 .. (n - 1)
      BY <1>8
    <2>2. QED
      BY <1>6, <1>12, <2>1
  <1>15. Values(rest) = Values(queue) \ {queue[n]}
    BY <1>13, <1>14
  <1>16. QED
    BY <1>1, <1>5, <1>9, <1>10, <1>11, <1>15 DEF rest

LEMMA RisingPush ==
  ASSUME NEW queue \in Seq(Cars), Rising(queue), NEW car \in Cars, \A c \in Values(queue) : car < c
  PROVE  Rising(<<car>> \o queue) /\ Values(<<car>> \o queue) = Values(queue) \union {car}
  <1> DEFINE longer == <<car>> \o queue
  <1>1. /\ Len(queue) \in Nat /\ Len(longer) = 1 + Len(queue)
        /\ longer[1] = car
        /\ \A i \in 2 .. (1 + Len(queue)) : longer[i] = queue[i - 1]
    <2>1. <<car>> \in Seq(Cars) /\ Len(<<car>>) = 1 /\ <<car>>[1] = car
      OBVIOUS
    <2>2. Len(queue) \in Nat
      BY LenProperties
    <2>3. QED
      BY <2>1, <2>2, ConcatProperties
  <1> HIDE DEF longer
  <1>2. \A i \in 1 .. Len(queue) : car < queue[i]
    BY DEF Values
  <1>3. \A i \in 1 .. (1 + Len(queue)) : i # 1 => i \in 2 .. (1 + Len(queue)) /\ i - 1 \in 1 .. Len(queue)
    BY <1>1
  <1>4. Rising(longer)
    <2> SUFFICES ASSUME NEW i \in 1 .. Len(longer), NEW j \in 1 .. Len(longer), i < j
                 PROVE  longer[i] < longer[j]
      BY DEF Rising
    <2>1. j # 1 /\ j - 1 \in 1 .. Len(queue) /\ longer[j] = queue[j - 1]
      BY <1>1, <1>3
    <2>2. CASE i = 1
      BY <1>1, <1>2, <2>1, <2>2
    <2>3. CASE i # 1
      <3>1. i - 1 \in 1 .. Len(queue) /\ longer[i] = queue[i - 1] /\ i - 1 < j - 1
        BY <1>1, <1>3, <2>3
      <3>2. QED
        BY <2>1, <3>1 DEF Rising
    <2>4. QED
      BY <2>2, <2>3
  <1>5. Values(longer) \subseteq Values(queue) \union {car}
    BY <1>1, <1>3 DEF Values
  <1>6. Values(queue) \union {car} \subseteq Values(longer)
    <2>1. 1 \in 1 .. Len(longer)
      BY <1>1
    <2>2. ASSUME NEW i \in 1 .. Len(queue)
          PROVE  queue[i] \in Values(longer)
      <3>1. i + 1 \in 2 .. (1 + Len(queue)) /\ i + 1 \in 1 .. Len(longer) /\ (i + 1) - 1 = i
        BY <1>1
      <3>2. longer[i + 1] = queue[i]
        BY <1>1, <3>1
      <3>3. QED
        BY <3>1, <3>2 DEF Values
    <2>3. QED
      BY <1>1, <2>1, <2>2 DEF Values
  <1>7. QED
    BY <1>4, <1>5, <1>6 DEF longer

-----------------------------------------------------------------------------
(* A lane of the timer, and what one message says about it.                 *)

Lanes == [open : SUBSET Cars, over : SUBSET Cars, launched : Cars \union {NaN}, ready : BOOLEAN]

Lane(side) == [open |-> Values(course[side]), over |-> Values(over[side]),
               launched |-> launched[side], ready |-> side \in ready]

TreeDown(L, M) ==
    L.launched = NaN /\ M.open = L.open /\ M.over = L.over /\ M.launched = NaN /\ M.ready
Starts(L, M, car) ==
    /\ L.ready /\ ~M.ready
    /\ \A c \in L.open \union L.over : c < car
    /\ M.open = L.open \union {car} /\ M.over = L.over /\ M.launched = car
PassesSixty(L, M, car) ==
    /\ L.launched = car
    /\ M.open = L.open /\ M.over = L.over /\ M.launched = NaN /\ M.ready = L.ready
Finishes(L, M, car) ==
    /\ car \in L.open /\ car # L.launched
    /\ \A c \in L.open : car <= c
    /\ \A c \in L.over : c < car
    /\ M.open = L.open \ {car} /\ M.over = L.over \union {car}
    /\ M.launched = L.launched /\ M.ready = L.ready
StartBack(L, M, car) ==
    /\ car \in L.open /\ L.launched \in {NaN, car}
    /\ \A c \in L.open : c <= car
    /\ M.open = L.open \ {car} /\ M.over = L.over
    /\ M.launched = NaN /\ M.ready = L.ready
FinishBack(L, M, car) ==
    /\ car \in L.over
    /\ \A c \in L.over : c <= car
    /\ \A c \in L.open : car < c
    /\ M.open = L.open \union {car} /\ M.over = L.over \ {car}
    /\ M.launched = L.launched /\ M.ready = L.ready

Passes(L, M, m, side) ==
    \/ m.kind = "tree" /\ TreeDown(L, M)
    \/ m.kind # "tree" /\ m.side # side /\ M = L
    \/ m.kind = "rt" /\ m.side = side /\ Starts(L, M, m.car)
    \/ m.kind = "sixty" /\ m.side = side /\ PassesSixty(L, M, m.car)
    \/ m.kind = "fin" /\ m.side = side /\ Finishes(L, M, m.car)
    \/ m.kind = "ds" /\ m.side = side /\ StartBack(L, M, m.car)
    \/ m.kind = "df" /\ m.side = side /\ FinishBack(L, M, m.car)

\* The timer keeps its cars in the order of their starts; the car between
\* start and sixty feet is the last one on the course.
Timed(side) ==
    /\ Rising(course[side]) /\ Rising(over[side])
    /\ \A c \in Values(over[side]), d \in Values(course[side]) : c < d
    /\ \A c \in Values(over[side]) \union Values(course[side]) : c <= started[side]
    /\ launched[side] # NaN => /\ launched[side] \in Values(course[side])
                               /\ \A c \in Values(course[side]) : c <= launched[side]
    /\ side \in ready => launched[side] = NaN

TimerOK == \A side \in Sides : Timed(side)

\* A step of the timer is one move of its lane, told by the message.
Moved(side, m) == Timed(side)' /\ Passes(Lane(side), Lane(side)', m, side)

LEMMA LaneFacts ==
  ASSUME IInv, NEW side \in Sides
  PROVE  /\ Lane(side) \in Lanes
         /\ course[side] \in Seq(Cars) /\ over[side] \in Seq(Cars)
         /\ Values(course[side]) \in SUBSET Nat /\ Values(over[side]) \in SUBSET Nat
         /\ Values(course[side]) \in SUBSET Cars /\ Values(over[side]) \in SUBSET Cars
         /\ launched[side] \in Cars \union {NaN} /\ started[side] \in Nat
  <1>1. /\ course[side] \in Seq(Cars) /\ over[side] \in Seq(Cars)
        /\ launched[side] \in Cars \union {NaN} /\ started[side] \in Nat
    BY DEF IInv, TypeOK
  <1>2. /\ Values(course[side]) \in SUBSET Nat /\ Values(over[side]) \in SUBSET Nat
        /\ Values(course[side]) \in SUBSET Cars /\ Values(over[side]) \in SUBSET Cars
    BY <1>1, ValuesAreCars
  <1>3. QED
    BY <1>1, <1>2 DEF Lane, Lanes

\* The lane beside the one that the message is about.
LEMMA OtherMoved ==
  ASSUME NEW side \in Sides, NEW m, m.kind # "tree", m.side # side, Timed(side),
         UNCHANGED <<course[side], over[side], launched[side], started[side]>>,
         side \in ready' <=> side \in ready
  PROVE  Moved(side, m)
  BY DEF Moved, Timed, Passes, Lane

LEMMA TreeMoved ==
  ASSUME IInv, TimerOK, Tree, NEW side \in Sides
  PROVE  Moved(side, Message("tree", "left", NaN, FALSE))
  <1>1. /\ launched[side] = NaN /\ ready' = Sides /\ UNCHANGED <<started, launched, course, over>>
    BY DEF Tree
  <1>2. Timed(side)'
    BY <1>1 DEF TimerOK, Timed
  <1>3. TreeDown(Lane(side), Lane(side)')
    BY <1>1 DEF TreeDown, Lane
  <1>4. Passes(Lane(side), Lane(side)', Message("tree", "left", NaN, FALSE), side)
    BY <1>3 DEF Passes, Message
  <1>5. QED
    BY <1>2, <1>4 DEF Moved

LEMMA StartMoved ==
  ASSUME IInv, TimerOK, NEW side \in Sides, NEW red \in BOOLEAN, Start(side, red),
         NEW s \in Sides
  PROVE  Moved(s, Message("rt", side, started[side] + 1, red))
  <1> DEFINE car == started[side] + 1
             m == Message("rt", side, car, red)
  <1>1. /\ side \in ready /\ car \in Cars
        /\ ready' = ready \ {side}
        /\ started' = [started EXCEPT ![side] = car]
        /\ launched' = [launched EXCEPT ![side] = car]
        /\ course' = [course EXCEPT ![side] = Append(@, car)]
        /\ UNCHANGED over
    BY DEF Start
  <1>2. /\ started \in [Sides -> 0 .. MaxStarts] /\ launched \in [Sides -> Cars \union {NaN}]
        /\ course \in [Sides -> Seq(Cars)]
    BY StateFacts
  <1>3. m.kind = "rt" /\ m.side = side /\ m.car = car
    BY DEF Message
  <1>4. car = started[side] + 1
    OBVIOUS
  <1> HIDE DEF car, m
  <1>5. ASSUME s # side PROVE Moved(s, m)
    <2>1. /\ UNCHANGED <<course[s], over[s], launched[s], started[s]>>
          /\ s \in ready' <=> s \in ready
      BY <1>1, <1>2, <1>5
    <2>2. QED
      BY <1>3, <1>5, <2>1, OtherMoved DEF TimerOK
  <1>6. ASSUME s = side PROVE Moved(s, m)
    <2> DEFINE open == Values(course[side])
               done == Values(over[side])
    <2>1. /\ course'[side] = Append(course[side], car) /\ over'[side] = over[side]
          /\ launched'[side] = car /\ started'[side] = car /\ side \notin ready'
      BY <1>1, <1>2
    <2>2. /\ Rising(course[side]) /\ Rising(over[side]) /\ course[side] \in Seq(Cars)
          /\ \A c \in open \union done : c <= started[side]
          /\ \A c \in done, d \in open : c < d
          /\ open \in SUBSET Nat /\ done \in SUBSET Nat /\ started[side] \in Nat
      BY LaneFacts DEF TimerOK, Timed
    <2>a. Values(course[side]) = open /\ Values(over[side]) = done
      OBVIOUS
    <2> HIDE DEF open, done
    <2>3. car \in Nat /\ car # NaN /\ \A c \in open \union done : c < car
      BY <1>1, <1>4, <2>2, CarFacts
    <2>4. Rising(course'[side]) /\ Values(course'[side]) = open \union {car}
      BY <1>1, <2>1, <2>2, <2>3, <2>a, RisingAppend
    <2>5. Values(over'[side]) = done /\ Rising(over'[side])
      BY <2>1, <2>2, <2>a
    <2>6. Timed(side)'
      <3>1. \A c \in done, d \in open \union {car} : c < d
        BY <2>2, <2>3
      <3>2. \A c \in done \union (open \union {car}) : c <= car
        BY <2>2, <2>3
      <3>3. QED
        BY <2>1, <2>4, <2>5, <3>1, <3>2 DEF Timed
    <2>7. Starts(Lane(side), Lane(side)', car)
      BY <1>1, <2>1, <2>3, <2>4, <2>5, <2>a DEF Starts, Lane
    <2>8. QED
      BY <1>3, <1>6, <2>6, <2>7 DEF Moved, Passes
  <1>7. QED
    BY <1>5, <1>6 DEF car, m

LEMMA SixtyMoved ==
  ASSUME IInv, TimerOK, NEW side \in Sides, Sixty(side), NEW s \in Sides
  PROVE  Moved(s, Message("sixty", side, launched[side], FALSE))
  <1> DEFINE m == Message("sixty", side, launched[side], FALSE)
  <1>1. /\ launched' = [launched EXCEPT ![side] = NaN]
        /\ UNCHANGED <<ready, started, course, over>>
    BY DEF Sixty
  <1>2. launched \in [Sides -> Cars \union {NaN}]
    BY StateFacts
  <1>3. m.kind = "sixty" /\ m.side = side /\ m.car = launched[side]
    BY DEF Message
  <1> HIDE DEF m
  <1>4. ASSUME s # side PROVE Moved(s, m)
    <2>1. /\ UNCHANGED <<course[s], over[s], launched[s], started[s]>>
          /\ s \in ready' <=> s \in ready
      BY <1>1, <1>2, <1>4
    <2>2. QED
      BY <1>3, <1>4, <2>1, OtherMoved DEF TimerOK
  <1>5. ASSUME s = side PROVE Moved(s, m)
    <2>1. Timed(side)'
      BY <1>1, <1>2 DEF TimerOK, Timed
    <2>2. PassesSixty(Lane(side), Lane(side)', launched[side])
      BY <1>1, <1>2 DEF PassesSixty, Lane
    <2>3. QED
      BY <1>3, <1>5, <2>1, <2>2 DEF Moved, Passes
  <1>6. QED
    BY <1>4, <1>5 DEF m

LEMMA FinishMoved ==
  ASSUME IInv, TimerOK, NEW side \in Sides, Finish(side), NEW s \in Sides
  PROVE  Moved(s, Message("fin", side, Head(course[side]), FALSE))
  <1> DEFINE car == Head(course[side])
             m == Message("fin", side, car, FALSE)
  <1>1. /\ course[side] # <<>> /\ launched[side] # car
        /\ course' = [course EXCEPT ![side] = Tail(@)]
        /\ over' = [over EXCEPT ![side] = Append(@, car)]
        /\ UNCHANGED <<ready, started, launched>>
    BY DEF Finish
  <1>2. /\ over \in [Sides -> Seq(Cars)] /\ course \in [Sides -> Seq(Cars)]
    BY StateFacts
  <1>3. m.kind = "fin" /\ m.side = side /\ m.car = car
    BY DEF Message
  <1>4. car = Head(course[side])
    OBVIOUS
  <1> HIDE DEF car, m
  <1>5. ASSUME s # side PROVE Moved(s, m)
    <2>1. /\ UNCHANGED <<course[s], over[s], launched[s], started[s]>>
          /\ s \in ready' <=> s \in ready
      BY <1>1, <1>2, <1>5
    <2>2. QED
      BY <1>3, <1>5, <2>1, OtherMoved DEF TimerOK
  <1>6. ASSUME s = side PROVE Moved(s, m)
    <2> DEFINE open == Values(course[side])
               done == Values(over[side])
    <2>1. /\ course'[side] = Tail(course[side]) /\ over'[side] = Append(over[side], car)
          /\ launched'[side] = launched[side] /\ started'[side] = started[side]
          /\ side \in ready' <=> side \in ready
      BY <1>1, <1>2
    <2>2. /\ Rising(course[side]) /\ Rising(over[side])
          /\ course[side] \in Seq(Cars) /\ over[side] \in Seq(Cars)
          /\ \A c \in done, d \in open : c < d
          /\ \A c \in open \union done : c <= started[side]
          /\ open \in SUBSET Nat /\ done \in SUBSET Nat /\ open \in SUBSET Cars
      BY LaneFacts DEF TimerOK, Timed
    <2>3. launched[side] # NaN => launched[side] \in open /\ \A c \in open : c <= launched[side]
      BY DEF TimerOK, Timed
    <2>a. Values(course[side]) = open /\ Values(over[side]) = done
      OBVIOUS
    <2> HIDE DEF open, done
    <2>4. /\ Rising(course'[side]) /\ Values(course'[side]) = open \ {car}
          /\ car \in open /\ \A c \in open : car <= c
      BY <1>1, <1>4, <2>1, <2>2, <2>a, RisingTail
    <2>5. car \in Cars /\ \A c \in done : c < car
      BY <2>2, <2>4
    <2>6. Rising(over'[side]) /\ Values(over'[side]) = done \union {car}
      BY <2>1, <2>2, <2>5, <2>a, RisingAppend
    <2>7. Timed(side)'
      <3>1. \A c \in done \union {car}, d \in open \ {car} : c < d
        <4>1. \A d \in open \ {car} : car < d
          BY <2>2, <2>4
        <4>2. QED
          BY <2>2, <4>1
      <3>2. \A c \in (done \union {car}) \union (open \ {car}) : c <= started[side]
        BY <2>2, <2>4
      <3>3. launched[side] # NaN => /\ launched[side] \in open \ {car}
                                    /\ \A c \in open \ {car} : c <= launched[side]
        BY <1>1, <2>3
      <3>4. side \in ready => launched[side] = NaN
        BY DEF TimerOK, Timed
      <3>5. QED
        BY <2>1, <2>4, <2>6, <3>1, <3>2, <3>3, <3>4 DEF Timed
    <2>8. Finishes(Lane(side), Lane(side)', car)
      BY <1>1, <2>1, <2>4, <2>5, <2>6, <2>a DEF Finishes, Lane
    <2>9. QED
      BY <1>3, <1>6, <2>7, <2>8 DEF Moved, Passes
  <1>7. QED
    BY <1>5, <1>6 DEF car, m

LEMMA TakeBackStartMoved ==
  ASSUME IInv, TimerOK, NEW side \in Sides, TakeBackStart(side), NEW s \in Sides
  PROVE  Moved(s, Message("ds", side, Last(course[side]), FALSE))
  <1> DEFINE car == Last(course[side])
             m == Message("ds", side, car, FALSE)
  <1>1. /\ course[side] # <<>>
        /\ launched' = [launched EXCEPT ![side] = IF @ = car THEN NaN ELSE @]
        /\ course' = [course EXCEPT ![side] = Front(@)]
        /\ UNCHANGED <<ready, started, over>>
    BY DEF TakeBackStart
  <1>2. /\ launched \in [Sides -> Cars \union {NaN}] /\ course \in [Sides -> Seq(Cars)]
    BY StateFacts
  <1>3. m.kind = "ds" /\ m.side = side /\ m.car = car
    BY DEF Message
  <1>4. car = Last(course[side])
    OBVIOUS
  <1> HIDE DEF car, m
  <1>5. ASSUME s # side PROVE Moved(s, m)
    <2>1. /\ UNCHANGED <<course[s], over[s], launched[s], started[s]>>
          /\ s \in ready' <=> s \in ready
      BY <1>1, <1>2, <1>5
    <2>2. QED
      BY <1>3, <1>5, <2>1, OtherMoved DEF TimerOK
  <1>6. ASSUME s = side PROVE Moved(s, m)
    <2> DEFINE open == Values(course[side])
               done == Values(over[side])
    <2>1. /\ course'[side] = Front(course[side]) /\ over'[side] = over[side]
          /\ launched'[side] = IF launched[side] = car THEN NaN ELSE launched[side]
          /\ started'[side] = started[side]
          /\ side \in ready' <=> side \in ready
      BY <1>1, <1>2
    <2>2. /\ Rising(course[side]) /\ Rising(over[side])
          /\ course[side] \in Seq(Cars)
          /\ \A c \in done, d \in open : c < d
          /\ \A c \in open \union done : c <= started[side]
          /\ open \in SUBSET Nat /\ done \in SUBSET Nat
      BY LaneFacts DEF TimerOK, Timed
    <2>3. launched[side] # NaN => launched[side] \in open /\ \A c \in open : c <= launched[side]
      BY DEF TimerOK, Timed
    <2>a. Values(course[side]) = open /\ Values(over[side]) = done
      OBVIOUS
    <2> HIDE DEF open, done
    <2>4. /\ Rising(course'[side]) /\ Values(course'[side]) = open \ {car}
          /\ car \in open /\ \A c \in open : c <= car
      BY <1>1, <1>4, <2>1, <2>2, <2>a, RisingFront
    <2>5. launched[side] # NaN => launched[side] = car
      <3>1. launched[side] # NaN => car <= launched[side] /\ launched[side] <= car
        BY <2>3, <2>4
      <3>2. car \in Nat /\ (launched[side] # NaN => launched[side] \in Nat)
        BY <2>2, <2>3, <2>4
      <3>3. QED
        BY <3>1, <3>2
    <2>6. launched'[side] = NaN
      BY <2>1, <2>5
    <2>7. Timed(side)'
      BY <2>1, <2>2, <2>4, <2>6, <2>a DEF Timed
    <2>8. StartBack(Lane(side), Lane(side)', car)
      BY <2>1, <2>4, <2>5, <2>6, <2>a DEF StartBack, Lane
    <2>9. QED
      BY <1>3, <1>6, <2>7, <2>8 DEF Moved, Passes
  <1>7. QED
    BY <1>5, <1>6 DEF car, m

LEMMA TakeBackFinishMoved ==
  ASSUME IInv, TimerOK, NEW side \in Sides, TakeBackFinish(side), NEW s \in Sides
  PROVE  Moved(s, Message("df", side, Last(over[side]), FALSE))
  <1> DEFINE car == Last(over[side])
             m == Message("df", side, car, FALSE)
  <1>1. /\ over[side] # <<>>
        /\ course' = [course EXCEPT ![side] = <<car>> \o @]
        /\ over' = [over EXCEPT ![side] = Front(@)]
        /\ UNCHANGED <<ready, started, launched>>
    BY DEF TakeBackFinish
  <1>2. /\ over \in [Sides -> Seq(Cars)] /\ course \in [Sides -> Seq(Cars)]
    BY StateFacts
  <1>3. m.kind = "df" /\ m.side = side /\ m.car = car
    BY DEF Message
  <1>4. car = Last(over[side])
    OBVIOUS
  <1> HIDE DEF car, m
  <1>5. ASSUME s # side PROVE Moved(s, m)
    <2>1. /\ UNCHANGED <<course[s], over[s], launched[s], started[s]>>
          /\ s \in ready' <=> s \in ready
      BY <1>1, <1>2, <1>5
    <2>2. QED
      BY <1>3, <1>5, <2>1, OtherMoved DEF TimerOK
  <1>6. ASSUME s = side PROVE Moved(s, m)
    <2> DEFINE open == Values(course[side])
               done == Values(over[side])
    <2>1. /\ course'[side] = <<car>> \o course[side] /\ over'[side] = Front(over[side])
          /\ launched'[side] = launched[side] /\ started'[side] = started[side]
          /\ side \in ready' <=> side \in ready
      BY <1>1, <1>2
    <2>2. /\ Rising(course[side]) /\ Rising(over[side])
          /\ course[side] \in Seq(Cars) /\ over[side] \in Seq(Cars)
          /\ \A c \in done, d \in open : c < d
          /\ \A c \in open \union done : c <= started[side]
          /\ open \in SUBSET Nat /\ done \in SUBSET Nat /\ done \in SUBSET Cars
      BY LaneFacts DEF TimerOK, Timed
    <2>3. launched[side] # NaN => launched[side] \in open /\ \A c \in open : c <= launched[side]
      BY DEF TimerOK, Timed
    <2>a. Values(course[side]) = open /\ Values(over[side]) = done
      OBVIOUS
    <2> HIDE DEF open, done
    <2>4. /\ Rising(over'[side]) /\ Values(over'[side]) = done \ {car}
          /\ car \in done /\ \A c \in done : c <= car
      BY <1>1, <1>4, <2>1, <2>2, <2>a, RisingFront
    <2>5. car \in Cars /\ \A c \in open : car < c
      BY <2>2, <2>4
    <2>6. Rising(course'[side]) /\ Values(course'[side]) = open \union {car}
      BY <2>1, <2>2, <2>5, <2>a, RisingPush
    <2>7. Timed(side)'
      <3>1. \A c \in done \ {car}, d \in open \union {car} : c < d
        <4>1. ASSUME NEW c \in done, c # car PROVE c < car
          <5>1. c \in Nat /\ car \in Nat /\ c <= car
            BY <2>2, <2>4
          <5>2. QED
            BY <4>1, <5>1
        <4>2. QED
          BY <2>2, <4>1
      <3>2. \A c \in (done \ {car}) \union (open \union {car}) : c <= started[side]
        BY <2>2, <2>4
      <3>3. launched[side] # NaN => /\ launched[side] \in open \union {car}
                                    /\ \A c \in open \union {car} : c <= launched[side]
        <4>1. launched[side] # NaN => car < launched[side] /\ launched[side] \in Nat /\ car \in Nat
          BY <2>2, <2>3, <2>4, <2>5
        <4>2. QED
          BY <2>3, <4>1
      <3>4. side \in ready => launched[side] = NaN
        BY DEF TimerOK, Timed
      <3>5. QED
        BY <2>1, <2>4, <2>6, <3>1, <3>2, <3>3, <3>4 DEF Timed
    <2>8. FinishBack(Lane(side), Lane(side)', car)
      BY <1>1, <2>1, <2>4, <2>5, <2>6, <2>a DEF FinishBack, Lane
    <2>9. QED
      BY <1>3, <1>6, <2>7, <2>8 DEF Moved, Passes
  <1>7. QED
    BY <1>5, <1>6 DEF car, m

\* A step of the timer sends one message, and every lane makes the move of
\* that message.  A start that was taken back is remembered.
Told(m) ==
    /\ Send(m) /\ Elsewhere
    /\ m.kind # "tree" => m.car \in Cars
    /\ \A side \in Sides : Moved(side, m) /\ undone[side] \subseteq undone'[side]
    /\ m.kind = "ds" => m.car \in undone'[m.side]

TimerActs ==
    \/ Tree
    \/ \E side \in Sides : \/ \E red \in BOOLEAN : Start(side, red)
                           \/ Sixty(side) \/ Finish(side)
                           \/ TakeBackStart(side) \/ TakeBackFinish(side)

LEMMA TimerTells ==
  ASSUME IInv, TimerOK, TimerActs
  PROVE  \E m \in Messages : Told(m)
  <1>1. CASE Tree
    <2> DEFINE m == Message("tree", "left", NaN, FALSE)
    <2>1. m \in Messages /\ m.kind = "tree"
      BY DEF Message, Messages, Kinds, Sides
    <2>2. Send(m) /\ Elsewhere /\ undone' = undone
      BY <1>1 DEF Tree
    <2>3. \A side \in Sides : Moved(side, m)
      BY <1>1, TreeMoved
    <2> HIDE DEF m
    <2>4. Told(m)
      BY <2>1, <2>2, <2>3 DEF Told
    <2>5. QED
      BY <2>1, <2>4
  <1>2. ASSUME NEW side \in Sides, NEW red \in BOOLEAN, Start(side, red)
        PROVE  \E m \in Messages : Told(m)
    <2> DEFINE m == Message("rt", side, started[side] + 1, red)
    <2>1. started[side] + 1 \in Cars /\ Send(m) /\ Elsewhere /\ undone' = undone
      BY <1>2 DEF Start
    <2>2. m \in Messages /\ m.kind = "rt" /\ m.car \in Cars
      BY <2>1 DEF Message, Messages, Kinds
    <2>3. \A s \in Sides : Moved(s, m)
      BY <1>2, StartMoved
    <2> HIDE DEF m
    <2>4. Told(m)
      BY <2>1, <2>2, <2>3 DEF Told
    <2>5. QED
      BY <2>2, <2>4
  <1>3. ASSUME NEW side \in Sides, Sixty(side)
        PROVE  \E m \in Messages : Told(m)
    <2> DEFINE m == Message("sixty", side, launched[side], FALSE)
    <2>1. launched[side] \in Cars /\ Send(m) /\ Elsewhere /\ undone' = undone
      BY <1>3, LaneFacts DEF Sixty
    <2>2. m \in Messages /\ m.kind = "sixty" /\ m.car \in Cars
      BY <2>1 DEF Message, Messages, Kinds
    <2>3. \A s \in Sides : Moved(s, m)
      BY <1>3, SixtyMoved
    <2> HIDE DEF m
    <2>4. Told(m)
      BY <2>1, <2>2, <2>3 DEF Told
    <2>5. QED
      BY <2>2, <2>4
  <1>4. ASSUME NEW side \in Sides, Finish(side)
        PROVE  \E m \in Messages : Told(m)
    <2> DEFINE m == Message("fin", side, Head(course[side]), FALSE)
    <2>1. course[side] # <<>> /\ Send(m) /\ Elsewhere /\ undone' = undone
      BY <1>4 DEF Finish
    <2>2. Head(course[side]) \in Cars
      BY <2>1, LaneFacts, QueueFacts
    <2>3. m \in Messages /\ m.kind = "fin" /\ m.car \in Cars
      BY <2>2 DEF Message, Messages, Kinds
    <2>4. \A s \in Sides : Moved(s, m)
      BY <1>4, FinishMoved
    <2> HIDE DEF m
    <2>5. Told(m)
      BY <2>1, <2>3, <2>4 DEF Told
    <2>6. QED
      BY <2>3, <2>5
  <1>5. ASSUME NEW side \in Sides, TakeBackStart(side)
        PROVE  \E m \in Messages : Told(m)
    <2> DEFINE car == Last(course[side])
               m == Message("ds", side, car, FALSE)
    <2>1. /\ course[side] # <<>> /\ Send(m) /\ Elsewhere
          /\ undone' = [undone EXCEPT ![side] = @ \union {car}]
      BY <1>5 DEF TakeBackStart
    <2>2. car \in Cars
      BY <2>1, LaneFacts, QueueFacts
    <2>3. m \in Messages /\ m.kind = "ds" /\ m.car = car /\ m.side = side
      BY <2>2 DEF Message, Messages, Kinds
    <2>4. \A s \in Sides : Moved(s, m)
      BY <1>5, TakeBackStartMoved
    <2> HIDE DEF m, car
    <2>5. car \in undone'[side] /\ \A s \in Sides : undone[s] \subseteq undone'[s]
      BY <2>1 DEF IInv, TypeOK
    <2>6. Told(m)
      BY <2>1, <2>2, <2>3, <2>4, <2>5 DEF Told
    <2>7. QED
      BY <2>3, <2>6
  <1>6. ASSUME NEW side \in Sides, TakeBackFinish(side)
        PROVE  \E m \in Messages : Told(m)
    <2> DEFINE m == Message("df", side, Last(over[side]), FALSE)
    <2>1. over[side] # <<>> /\ Send(m) /\ Elsewhere /\ undone' = undone
      BY <1>6 DEF TakeBackFinish
    <2>2. Last(over[side]) \in Cars
      BY <2>1, LaneFacts, QueueFacts
    <2>3. m \in Messages /\ m.kind = "df" /\ m.car \in Cars
      BY <2>2 DEF Message, Messages, Kinds
    <2>4. \A s \in Sides : Moved(s, m)
      BY <1>6, TakeBackFinishMoved
    <2> HIDE DEF m
    <2>5. Told(m)
      BY <2>1, <2>3, <2>4 DEF Told
    <2>6. QED
      BY <2>3, <2>5
  <1>7. QED
    BY <1>1, <1>2, <1>3, <1>4, <1>5, <1>6 DEF TimerActs

LEMMA NextIs ==
  ASSUME [Next]_vars
  PROVE  TimerActs \/ Event \/ Reset \/ Restart \/ UNCHANGED vars
  BY DEF Next, TimerActs

LEMMA TimerKept ==
  ASSUME IInv, TimerOK, [Next]_vars
  PROVE  TimerOK'
  <1>1. CASE TimerActs
    BY <1>1, TimerTells DEF Told, Moved, TimerOK
  <1>2. CASE Reset
    <2>1. /\ course' = [side \in Sides |-> <<>>] /\ over' = [side \in Sides |-> <<>>]
          /\ launched' = [side \in Sides |-> NaN] /\ ready' = {}
      BY <1>2 DEF Reset
    <2>2. QED
      BY <2>1, NoValues DEF TimerOK, Timed
  <1>3. CASE UNCHANGED timer
    BY <1>3 DEF timer, TimerOK, Timed
  <1>4. QED
    BY <1>1, <1>2, <1>3, NextIs DEF Event, Restart, vars

LEMMA InitTimed ==
  ASSUME Init
  PROVE  TimerOK
  BY NoValues DEF Init, TimerOK, Timed

-----------------------------------------------------------------------------
(* One lane of the table, and what program and timer agree on: row is the   *)
(* column of its results, n its length, next the row that the next finish   *)
(* goes to and first the row from which they agree.                         *)

\* The starts of the lane are in their order.
Placed(row, n, next, first) ==
    /\ first <= next /\ (n = 0 \/ first <= n)
    /\ n = 0 \/ next <= n \/ row[n].rt # NaN
    /\ \A i, j \in first .. n :
          i < j /\ row[i].rt # NaN /\ row[j].rt # NaN => row[i].rt < row[j].rt

\* The rows that wait are those of the cars on the course.
Waits(row, n, next, L) ==
    /\ \A i \in next .. n : row[i].rt # NaN => row[i].rt \in L.open
    /\ \A car \in L.open : \E i \in next .. n : row[i].rt = car

\* The rows before are those of the cars with a finish, of which the program
\* may have lost the first ones.
Settles(row, next, first, L) ==
    /\ \A i \in first .. (next - 1) :
          row[i].rt # NaN => row[i].finish # NaN /\ row[i].rt \in L.over
    /\ \A car \in L.over :
          \/ \E i \in first .. (next - 1) : row[i].rt = car
          \/ /\ first = 1
             /\ \A i \in first .. (next - 1) : row[i].rt # NaN => car < row[i].rt

\* The times beside a finish are of its car.
Sound(row, n, first) ==
    \A i \in first .. n : row[i].finish # NaN
        => row[i].finish = row[i].rt /\ row[i].sixty = row[i].rt

\* All waiting cars but the launched one passed sixty feet; it is in the last
\* row, and so is the one that starts next.
Timely(row, n, next, L) ==
    /\ \A i \in next .. n : row[i].rt \notin {NaN, L.launched} => row[i].sixty = row[i].rt
    /\ L.launched # NaN => n > 0 /\ row[n].rt = L.launched
    /\ L.ready => n > 0 /\ row[n].rt = NaN /\ next <= n

Own(row, n, next, first, L) ==
    /\ Placed(row, n, next, first) /\ Waits(row, n, next, L) /\ Settles(row, next, first, L)
    /\ Sound(row, n, first) /\ Timely(row, n, next, L)

\* The types, and NothingAhead for the lane.
Columns(row, n, next, first) ==
    /\ n \in Nat /\ next \in Nat \ {0} /\ first \in Nat \ {0} /\ next <= n + 1
    /\ \A i \in 1 .. n : /\ row[i].rt \in Nat /\ row[i].sixty \in Nat /\ row[i].finish \in Nat
                         /\ row[i].finish # NaN => i < next /\ row[i].rt # NaN

LEMMA LanesAreOfCars ==
  ASSUME NEW L \in Lanes
  PROVE  /\ L.open \in SUBSET Nat /\ L.over \in SUBSET Nat /\ L.launched \in Nat
         /\ NaN \notin L.open /\ NaN \notin L.over
  <1>1. L.open \in SUBSET Cars /\ L.over \in SUBSET Cars /\ L.launched \in Cars \union {NaN}
    BY DEF Lanes
  <1>2. NaN \in Nat
    BY DEF NaN
  <1>3. QED
    BY <1>1, <1>2, CarFacts

LEMMA StartsOwn ==
  ASSUME NEW row, NEW new, NEW n, NEW next, NEW first, Columns(row, n, next, first),
         NEW L \in Lanes, NEW M \in Lanes, NEW car \in Cars,
         Own(row, n, next, first, L), Starts(L, M, car),
         \A i \in 1 .. n : i # n => new[i] = row[i],
         new[n].rt = car, new[n].finish = row[n].finish
  PROVE  Own(new, n, next, first, M)
  <1>1. /\ n \in Nat /\ next \in Nat \ {0} /\ first \in Nat \ {0}
        /\ n > 0 /\ next <= n /\ first <= n /\ first <= next
    BY DEF Columns, Own, Timely, Placed, Starts
  <1>2. /\ \A i \in 1 .. n : row[i].rt \in Nat
        /\ row[n].rt = NaN /\ row[n].finish = NaN
    BY <1>1 DEF Columns, Own, Timely, Starts
  <1>3. /\ car # NaN /\ car \in Nat /\ L.open \in SUBSET Nat /\ L.over \in SUBSET Nat
        /\ \A c \in L.open \union L.over : c < car
        /\ M.open = L.open \union {car} /\ M.over = L.over /\ M.launched = car /\ ~M.ready
    BY CarFacts, LanesAreOfCars DEF Starts
  <1>4. L.launched = NaN
    BY <1>2 DEF Own, Timely
  <1>5. /\ \A i \in first .. n : i \in 1 .. n /\ (i # n => new[i] = row[i])
        /\ \A i \in next .. n : i \in 1 .. n /\ i \in first .. n /\ (i # n => new[i] = row[i])
        /\ \A i \in first .. (next - 1) : i \in 1 .. n /\ i # n /\ new[i] = row[i]
        /\ \A i \in 1 .. n : i <= n
        /\ \A i \in first .. n : i \in next .. n \/ i \in first .. (next - 1)
    BY <1>1
  <1>6. Placed(new, n, next, first)
    <2>1. ASSUME NEW i \in first .. n, NEW j \in first .. n, i < j,
                 new[i].rt # NaN, new[j].rt # NaN
          PROVE  new[i].rt < new[j].rt
      <3>1. i # n /\ new[i] = row[i]
        BY <1>1, <1>5, <2>1
      <3>2. CASE j = n
        <4>1. row[i].rt \in L.open \union L.over
          BY <1>5, <2>1, <3>1 DEF Own, Waits, Settles
        <4>2. QED
          BY <1>3, <3>1, <3>2, <4>1
      <3>3. CASE j # n
        BY <1>5, <2>1, <3>1, <3>3 DEF Own, Placed
      <3>4. QED
        BY <3>2, <3>3
    <2>2. QED
      BY <1>1, <2>1 DEF Placed
  <1>7. Waits(new, n, next, M)
    <2>1. \A i \in next .. n : new[i].rt # NaN => new[i].rt \in M.open
      BY <1>3, <1>5 DEF Own, Waits
    <2>2. n \in next .. n
      BY <1>1
    <2>3. \A c \in L.open : c # NaN
      BY LanesAreOfCars
    <2>4. \A c \in L.open : \E i \in next .. n : row[i].rt = c /\ i # n
      BY <1>2, <2>3 DEF Own, Waits
    <2>5. \A c \in M.open : \E i \in next .. n : new[i].rt = c
      BY <1>3, <1>5, <2>2, <2>4
    <2>6. QED
      BY <2>1, <2>5 DEF Waits
  <1>8. Settles(new, next, first, M)
    BY <1>3, <1>5 DEF Own, Settles
  <1>9. Sound(new, n, first)
    BY <1>2, <1>5 DEF Own, Sound
  <1>10. Timely(new, n, next, M)
    <2>1. \A i \in next .. n : new[i].rt \notin {NaN, car} => new[i].sixty = new[i].rt
      BY <1>4, <1>5 DEF Own, Timely
    <2>2. QED
      BY <1>1, <1>3, <2>1 DEF Timely
  <1>11. QED
    BY <1>6, <1>7, <1>8, <1>9, <1>10 DEF Own

LEMMA SixtyOwn ==
  ASSUME NEW row, NEW new, NEW n, NEW next, NEW first, Columns(row, n, next, first),
         NEW L \in Lanes, NEW M \in Lanes, NEW car \in Cars,
         Own(row, n, next, first, L), PassesSixty(L, M, car),
         \A i \in 1 .. n : i # n => new[i] = row[i],
         new[n].rt = row[n].rt, new[n].sixty = car, new[n].finish = row[n].finish
  PROVE  Own(new, n, next, first, M)
  <1>1. /\ n \in Nat /\ next \in Nat \ {0} /\ first \in Nat \ {0} /\ first <= next
        /\ car # NaN /\ car \in Nat
    BY CarFacts DEF Columns, Own, Placed
  <1>2. /\ M.open = L.open /\ M.over = L.over /\ M.launched = NaN /\ L.launched = car
        /\ M.ready = L.ready
    BY DEF PassesSixty
  <1>3. n > 0 /\ row[n].rt = car
    BY <1>1, <1>2 DEF Own, Timely
  <1>4. \A i \in 1 .. n : /\ row[i].rt \in Nat
                          /\ new[i].rt = row[i].rt /\ new[i].finish = row[i].finish
                          /\ i # n => new[i].sixty = row[i].sixty
    BY DEF Columns
  <1>5. /\ \A i \in first .. n : i \in 1 .. n
        /\ \A i \in next .. n : i \in 1 .. n /\ i \in first .. n /\ (i # n => i < n)
        /\ \A i \in first .. (next - 1) : i \in 1 .. n
        /\ n \in 1 .. n
    BY <1>1, <1>3 DEF Columns
  <1>6. Placed(new, n, next, first)
    <2>1. \A i, j \in first .. n :
             i < j /\ new[i].rt # NaN /\ new[j].rt # NaN => new[i].rt < new[j].rt
      BY <1>4, <1>5 DEF Own, Placed
    <2>2. QED
      BY <1>1, <1>3, <1>4, <1>5, <2>1 DEF Own, Placed
  <1>7. Waits(new, n, next, M)
    BY <1>2, <1>4, <1>5 DEF Own, Waits
  <1>8. Settles(new, next, first, M)
    BY <1>2, <1>4, <1>5 DEF Own, Settles
  <1>9. Sound(new, n, first)
    BY <1>3, <1>4, <1>5 DEF Own, Sound
  <1>10. Timely(new, n, next, M)
    <2>1. ASSUME NEW i \in next .. n, new[i].rt # NaN
          PROVE  new[i].sixty = new[i].rt
      <3>1. CASE i = n
        BY <1>3, <3>1
      <3>2. CASE i # n
        <4>1. row[i].rt < car
          <5>1. i \in first .. n /\ n \in first .. n /\ i < n /\ row[i].rt # NaN
            BY <1>1, <1>3, <1>4, <1>5, <2>1, <3>2
          <5>2. QED
            BY <1>1, <1>3, <5>1 DEF Own, Placed
        <4>2. row[i].rt \notin {NaN, car}
          BY <1>1, <1>4, <1>5, <2>1, <4>1
        <4>3. QED
          BY <1>2, <1>4, <1>5, <3>2, <4>2 DEF Own, Timely
      <3>3. QED
        BY <3>1, <3>2
    <2>2. M.ready => n > 0 /\ new[n].rt = NaN /\ next <= n
      BY <1>2, <1>4, <1>5 DEF Own, Timely
    <2>3. QED
      BY <1>2, <2>1, <2>2 DEF Timely
  <1>11. QED
    BY <1>6, <1>7, <1>8, <1>9, <1>10 DEF Own

\* The finish goes to the row of the first car on the course.
LEMMA FinishesOwn ==
  ASSUME NEW row, NEW new, NEW n, NEW next, NEW first, Columns(row, n, next, first),
         NEW L \in Lanes, NEW M \in Lanes, NEW car \in Cars, NEW r \in 1 .. n,
         Own(row, n, next, first, L), Finishes(L, M, car),
         next <= r, row[r].rt # NaN, \A i \in next .. (r - 1) : row[i].rt = NaN,
         \A i \in 1 .. n : i # r => new[i] = row[i],
         new[r].rt = row[r].rt, new[r].sixty = row[r].sixty, new[r].finish = car
  PROVE  Own(new, n, r + 1, first, M)
  <1>1. /\ n \in Nat /\ next \in Nat \ {0} /\ first \in Nat \ {0} /\ first <= next
        /\ car # NaN /\ car \in Nat /\ r \in Nat /\ r <= n /\ next <= r
    BY CarFacts DEF Columns, Own, Placed
  <1>2. /\ M.open = L.open \ {car} /\ M.over = L.over \union {car}
        /\ M.launched = L.launched /\ M.ready = L.ready
        /\ car \in L.open /\ car # L.launched
        /\ \A c \in L.open : car <= c
        /\ \A c \in L.over : c < car
    BY DEF Finishes
  <1>3. \A i \in 1 .. n : /\ row[i].rt \in Nat
                          /\ new[i].rt = row[i].rt /\ new[i].sixty = row[i].sixty
                          /\ i # r => new[i].finish = row[i].finish
    BY DEF Columns
  <1>4. /\ \A i \in first .. n : i \in 1 .. n
        /\ \A i \in next .. n : i \in first .. n /\ i \in 1 .. n
        /\ \A i \in (r + 1) .. n : i \in next .. n /\ i # r /\ r < i
        /\ \A i \in next .. n : i \in next .. (r - 1) \/ i = r \/ i \in (r + 1) .. n
        /\ \A i \in first .. ((r + 1) - 1) :
              i \in 1 .. n /\ ((i \in first .. (next - 1) /\ i # r) \/ i \in next .. (r - 1) \/ i = r)
        /\ \A i \in first .. (next - 1) : i \in first .. ((r + 1) - 1)
        /\ r \in next .. n /\ r \in first .. n /\ r \in first .. ((r + 1) - 1)
    BY <1>1
  <1>5. row[r].rt = car
    <2>1. row[r].rt \in L.open /\ car <= row[r].rt
      BY <1>2, <1>4 DEF Own, Waits
    <2>2. PICK i \in next .. n : row[i].rt = car
      BY <1>2 DEF Own, Waits
    <2>3. CASE i \in next .. (r - 1)
      BY <1>1, <2>2, <2>3
    <2>4. CASE i = r
      BY <2>2, <2>4
    <2>5. CASE i \in (r + 1) .. n
      <3>1. row[r].rt < row[i].rt
        <4>1. r \in first .. n /\ i \in first .. n /\ r < i /\ row[i].rt # NaN
          BY <1>1, <1>4, <2>2, <2>5
        <4>2. QED
          BY <4>1 DEF Own, Placed
      <3>2. row[r].rt \in Nat
        BY <1>3
      <3>3. QED
        BY <1>1, <2>1, <2>2, <3>1, <3>2
    <2>6. QED
      BY <1>4, <2>3, <2>4, <2>5
  <1>6. Placed(new, n, r + 1, first)
    <2>1. \A i, j \in first .. n :
             i < j /\ new[i].rt # NaN /\ new[j].rt # NaN => new[i].rt < new[j].rt
      BY <1>3, <1>4 DEF Own, Placed
    <2>2. r + 1 <= n \/ new[n].rt # NaN
      <3>1. CASE r = n
        BY <1>1, <1>5, <3>1
      <3>2. CASE r # n
        BY <1>1, <3>2
      <3>3. QED
        BY <3>1, <3>2
    <2>3. first <= r + 1 /\ first <= n
      BY <1>1
    <2>4. QED
      BY <2>1, <2>2, <2>3 DEF Placed
  <1>7. Waits(new, n, r + 1, M)
    <2>1. ASSUME NEW i \in (r + 1) .. n, new[i].rt # NaN
          PROVE  new[i].rt \in M.open
      <3>1. i \in next .. n /\ row[i].rt # NaN /\ new[i].rt = row[i].rt
        BY <1>3, <1>4, <2>1
      <3>2. row[i].rt \in L.open
        BY <3>1 DEF Own, Waits
      <3>3. row[r].rt < row[i].rt
        BY <1>4, <2>1, <3>1 DEF Own, Placed
      <3>4. QED
        BY <1>1, <1>2, <1>5, <3>1, <3>2, <3>3
    <2>2. ASSUME NEW c \in M.open
          PROVE  \E i \in (r + 1) .. n : new[i].rt = c
      <3>1. c \in L.open /\ c # car /\ c # NaN
        BY <1>2, LanesAreOfCars
      <3>2. PICK i \in next .. n : row[i].rt = c
        BY <3>1 DEF Own, Waits
      <3>3. i \in (r + 1) .. n
        BY <1>4, <1>5, <3>1, <3>2
      <3>4. QED
        BY <1>3, <1>4, <3>2, <3>3
    <2>3. QED
      BY <2>1, <2>2 DEF Waits
  <1>8. Settles(new, r + 1, first, M)
    <2>1. ASSUME NEW i \in first .. ((r + 1) - 1), new[i].rt # NaN
          PROVE  new[i].finish # NaN /\ new[i].rt \in M.over
      <3>1. CASE i = r
        BY <1>1, <1>2, <1>5, <3>1
      <3>2. CASE i \in next .. (r - 1)
        BY <1>3, <1>4, <2>1, <3>2
      <3>3. CASE i \in first .. (next - 1) /\ i # r
        BY <1>2, <1>3, <1>4, <2>1, <3>3 DEF Own, Settles
      <3>4. QED
        BY <1>4, <3>1, <3>2, <3>3
    <2>2. ASSUME NEW c \in M.over
          PROVE  \/ \E i \in first .. ((r + 1) - 1) : new[i].rt = c
                 \/ /\ first = 1
                    /\ \A i \in first .. ((r + 1) - 1) : new[i].rt # NaN => c < new[i].rt
      <3>1. CASE c = car
        BY <1>4, <1>5, <3>1
      <3>2. CASE c # car
        <4>1. c \in L.over /\ c < car
          BY <1>2, <3>2
        <4>2. CASE \E i \in first .. (next - 1) : row[i].rt = c
          BY <1>3, <1>4, <4>2
        <4>3. CASE /\ first = 1
                   /\ \A i \in first .. (next - 1) : row[i].rt # NaN => c < row[i].rt
          <5>1. ASSUME NEW i \in first .. ((r + 1) - 1), new[i].rt # NaN
                PROVE  c < new[i].rt
            <6>1. new[i].rt = row[i].rt
              BY <1>3, <1>4
            <6>2. i \in first .. (next - 1) \/ i = r
              BY <1>4, <5>1, <6>1
            <6>3. QED
              BY <1>5, <4>1, <4>3, <5>1, <6>1, <6>2
          <5>2. QED
            BY <4>3, <5>1
        <4>4. QED
          BY <4>1, <4>2, <4>3 DEF Own, Settles
      <3>3. QED
        BY <3>1, <3>2
    <2>3. QED
      BY <2>1, <2>2 DEF Settles
  <1>9. Sound(new, n, first)
    <2>1. row[r].sixty = car
      <3>1. row[r].rt \notin {NaN, L.launched}
        BY <1>1, <1>2, <1>5
      <3>2. QED
        BY <1>4, <1>5, <3>1 DEF Own, Timely
    <2>2. QED
      BY <1>3, <1>4, <1>5, <2>1 DEF Own, Sound
  <1>10. Timely(new, n, r + 1, M)
    <2>1. \A i \in (r + 1) .. n : new[i].rt \notin {NaN, M.launched} => new[i].sixty = new[i].rt
      BY <1>2, <1>3, <1>4 DEF Own, Timely
    <2>2. M.launched # NaN => n > 0 /\ new[n].rt = M.launched
      <3>1. n \in 1 .. n
        BY <1>1
      <3>2. QED
        BY <1>2, <1>3, <3>1 DEF Own, Timely
    <2>3. ASSUME M.ready
          PROVE  n > 0 /\ new[n].rt = NaN /\ r + 1 <= n
      <3>1. n > 0 /\ row[n].rt = NaN
        BY <1>2, <2>3 DEF Own, Timely
      <3>2. r # n
        BY <3>1
      <3>3. n \in 1 .. n
        BY <1>1, <3>1
      <3>4. QED
        BY <1>1, <1>3, <3>1, <3>2, <3>3
    <2>4. QED
      BY <2>1, <2>2, <2>3 DEF Timely
  <1>11. QED
    BY <1>6, <1>7, <1>8, <1>9, <1>10 DEF Own

\* The last start of the lane is in the last row.
LEMMA StartBackOwn ==
  ASSUME NEW row, NEW new, NEW n, NEW next, NEW first, Columns(row, n, next, first),
         NEW L \in Lanes, NEW M \in Lanes, NEW car \in Cars,
         Own(row, n, next, first, L), StartBack(L, M, car), n > 0, row[n].rt # NaN,
         \A i \in 1 .. n : i # n => new[i] = row[i],
         new[n].rt = NaN, new[n].finish = row[n].finish
  PROVE  /\ next <= n /\ row[n].rt = car
         /\ Own(new, n, next, first, M)
  <1>1. /\ n \in Nat /\ next \in Nat \ {0} /\ first \in Nat \ {0} /\ first <= next
        /\ car # NaN /\ car \in Nat /\ n > 0
    BY CarFacts DEF Columns, Own, Placed
  <1>2. /\ M.open = L.open \ {car} /\ M.over = L.over
        /\ M.launched = NaN /\ M.ready = L.ready /\ L.launched \in {NaN, car}
        /\ car \in L.open
        /\ \A c \in L.open : c <= car
    BY DEF StartBack
  <1>3. \A i \in 1 .. n : row[i].rt \in Nat
    BY DEF Columns
  <1>4. PICK at \in next .. n : row[at].rt = car
    BY <1>2 DEF Own, Waits
  <1>5. next <= n /\ n \in next .. n /\ n \in 1 .. n /\ n \in first .. n
    BY <1>1, <1>4
  <1>6. row[n].rt = car
    <2>1. row[n].rt \in L.open /\ row[n].rt <= car
      BY <1>2, <1>5 DEF Own, Waits
    <2>2. CASE at = n
      BY <1>4, <2>2
    <2>3. CASE at # n
      <3>1. at \in first .. n /\ at < n /\ row[at].rt # NaN
        BY <1>1, <1>4, <2>3
      <3>2. row[at].rt < row[n].rt
        BY <1>5, <3>1 DEF Own, Placed
      <3>3. QED
        BY <1>1, <1>3, <1>4, <1>5, <2>1, <3>2
    <2>4. QED
      BY <2>2, <2>3
  <1>7. row[n].finish = NaN
    BY <1>1, <1>5 DEF Columns
  <1>8. /\ \A i \in first .. n : i \in 1 .. n /\ (i # n => new[i] = row[i] /\ i < n)
        /\ \A i \in next .. n : i \in first .. n
        /\ \A i \in first .. (next - 1) : i \in first .. n /\ i # n
    BY <1>1, <1>5
  <1>9. Placed(new, n, next, first)
    <2>1. \A i, j \in first .. n :
             i < j /\ new[i].rt # NaN /\ new[j].rt # NaN => new[i].rt < new[j].rt
      BY <1>8 DEF Own, Placed
    <2>2. QED
      BY <1>1, <1>5, <2>1 DEF Placed
  <1>10. Waits(new, n, next, M)
    <2>1. ASSUME NEW i \in next .. n, new[i].rt # NaN
          PROVE  new[i].rt \in M.open
      <3>1. i # n /\ new[i] = row[i] /\ i < n /\ i \in first .. n /\ i \in 1 .. n
        BY <1>8, <2>1
      <3>2. row[i].rt \in L.open
        BY <2>1, <3>1 DEF Own, Waits
      <3>3. row[i].rt < car
        BY <1>1, <1>5, <1>6, <2>1, <3>1 DEF Own, Placed
      <3>4. QED
        BY <1>1, <1>2, <1>3, <3>1, <3>2, <3>3
    <2>2. \A c \in M.open : \E i \in next .. n : row[i].rt = c /\ i # n
      BY <1>2, <1>6 DEF Own, Waits
    <2>3. \A c \in M.open : \E i \in next .. n : new[i].rt = c
      BY <1>8, <2>2
    <2>4. QED
      BY <2>1, <2>3 DEF Waits
  <1>11. Settles(new, next, first, M)
    BY <1>2, <1>8 DEF Own, Settles
  <1>12. Sound(new, n, first)
    BY <1>7, <1>8 DEF Own, Sound
  <1>13. Timely(new, n, next, M)
    <2>1. ASSUME NEW i \in next .. n, new[i].rt # NaN
          PROVE  new[i].sixty = new[i].rt
      <3>1. i # n /\ new[i] = row[i] /\ i < n /\ i \in first .. n /\ i \in 1 .. n
        BY <1>8, <2>1
      <3>2. row[i].rt < car
        BY <1>1, <1>5, <1>6, <2>1, <3>1 DEF Own, Placed
      <3>3. row[i].rt \notin {NaN, L.launched}
        BY <1>1, <1>2, <1>3, <2>1, <3>1, <3>2
      <3>4. QED
        BY <3>1, <3>3 DEF Own, Timely
    <2>2. ~M.ready
      BY <1>2 DEF Own, Timely
    <2>3. QED
      BY <1>2, <2>1, <2>2 DEF Timely
  <1>14. QED
    BY <1>5, <1>6, <1>9, <1>10, <1>11, <1>12, <1>13 DEF Own

\* The last finish of the lane is in the row before the next one.
LEMMA FinishBackOwn ==
  ASSUME NEW row, NEW new, NEW n, NEW next, NEW first, Columns(row, n, next, first),
         NEW L \in Lanes, NEW M \in Lanes, NEW car \in Cars, NEW r \in 1 .. n,
         Own(row, n, next, first, L), FinishBack(L, M, car), next = r + 1, row[r].rt # NaN,
         \A i \in 1 .. n : i # r => new[i] = row[i],
         new[r].rt = row[r].rt, new[r].sixty = row[r].sixty, new[r].finish = NaN
  PROVE  Own(new, n, r, first, M)
  <1>1. /\ n \in Nat /\ next \in Nat \ {0} /\ first \in Nat \ {0} /\ first <= next
        /\ car # NaN /\ car \in Nat /\ r \in Nat /\ r <= n /\ r > 0 /\ r = next - 1
    BY CarFacts DEF Columns, Own, Placed
  <1>2. /\ M.open = L.open \union {car} /\ M.over = L.over \ {car}
        /\ M.launched = L.launched /\ M.ready = L.ready
        /\ car \in L.over
        /\ \A c \in L.over : c <= car
        /\ \A c \in L.open : car < c
    BY DEF FinishBack
  <1>3. \A i \in 1 .. n : /\ row[i].rt \in Nat
                          /\ new[i].rt = row[i].rt /\ new[i].sixty = row[i].sixty
                          /\ i # r => new[i].finish = row[i].finish
    BY DEF Columns
  <1>4. first <= r
    <2>1. ASSUME first = next PROVE FALSE
      <3>1. first .. (next - 1) = {}
        BY <1>1, <2>1
      <3>2. first = 1
        BY <1>2, <3>1 DEF Own, Settles
      <3>3. QED
        BY <1>1, <2>1, <3>2
    <2>2. QED
      BY <1>1, <2>1
  <1>5. /\ \A i \in first .. n : i \in 1 .. n
        /\ \A i \in r .. n : i = r \/ i \in next .. n
        /\ \A i \in next .. n : i \in r .. n /\ i \in 1 .. n /\ i # r
        /\ \A i \in first .. (next - 1) : i \in first .. n /\ i \in 1 .. n
        /\ \A i \in first .. (next - 1) : i = r \/ (i \in first .. (r - 1) /\ i < r)
        /\ \A i \in first .. (r - 1) : i \in first .. (next - 1) /\ i # r /\ i < r
        /\ r \in first .. (next - 1) /\ r \in r .. n /\ r \in first .. n
    BY <1>1, <1>4
  <1>6. row[r].rt = car
    <2>1. row[r].rt \in L.over /\ row[r].rt <= car
      BY <1>2, <1>5 DEF Own, Settles
    <2>2. CASE \E i \in first .. (next - 1) : row[i].rt = car
      <3>1. PICK i \in first .. (next - 1) : row[i].rt = car
        BY <2>2
      <3>2. CASE i = r
        BY <3>1, <3>2
      <3>3. CASE i # r
        <4>1. row[i].rt < row[r].rt
          BY <1>1, <1>5, <3>1, <3>3 DEF Own, Placed
        <4>2. QED
          BY <1>1, <1>3, <2>1, <3>1, <4>1
      <3>4. QED
        BY <3>2, <3>3
    <2>3. CASE \A i \in first .. (next - 1) : row[i].rt # NaN => car < row[i].rt
      BY <1>1, <1>3, <1>5, <2>1, <2>3
    <2>4. QED
      BY <1>2, <2>2, <2>3 DEF Own, Settles
  <1>7. Placed(new, n, r, first)
    <2>1. \A i, j \in first .. n :
             i < j /\ new[i].rt # NaN /\ new[j].rt # NaN => new[i].rt < new[j].rt
      BY <1>3, <1>5 DEF Own, Placed
    <2>2. QED
      BY <1>1, <1>4, <2>1 DEF Placed
  <1>8. Waits(new, n, r, M)
    <2>1. \A i \in r .. n : new[i].rt # NaN => new[i].rt \in M.open
      BY <1>2, <1>3, <1>5, <1>6 DEF Own, Waits
    <2>2. \A c \in M.open : \E i \in r .. n : new[i].rt = c
      BY <1>2, <1>3, <1>5, <1>6 DEF Own, Waits
    <2>3. QED
      BY <2>1, <2>2 DEF Waits
  <1>9. Settles(new, r, first, M)
    <2>1. ASSUME NEW i \in first .. (r - 1), new[i].rt # NaN
          PROVE  new[i].finish # NaN /\ new[i].rt \in M.over
      <3>1. /\ i \in first .. (next - 1) /\ i \in first .. n /\ i \in 1 .. n
            /\ i # r /\ i < r /\ row[i].rt # NaN
        BY <1>3, <1>5, <2>1
      <3>2. row[i].finish # NaN /\ row[i].rt \in L.over
        BY <3>1 DEF Own, Settles
      <3>3. row[i].rt < car
        BY <1>1, <1>5, <1>6, <3>1 DEF Own, Placed
      <3>4. QED
        BY <1>1, <1>2, <1>3, <3>1, <3>2, <3>3
    <2>2. ASSUME NEW c \in M.over
          PROVE  \/ \E i \in first .. (r - 1) : new[i].rt = c
                 \/ /\ first = 1
                    /\ \A i \in first .. (r - 1) : new[i].rt # NaN => c < new[i].rt
      <3>1. c \in L.over /\ c # car
        BY <1>2
      <3>2. CASE \E i \in first .. (next - 1) : row[i].rt = c
        BY <1>3, <1>5, <1>6, <3>1, <3>2
      <3>3. CASE /\ first = 1
                 /\ \A i \in first .. (next - 1) : row[i].rt # NaN => c < row[i].rt
        BY <1>3, <1>5, <3>3
      <3>4. QED
        BY <3>1, <3>2, <3>3 DEF Own, Settles
    <2>3. QED
      BY <2>1, <2>2 DEF Settles
  <1>10. Sound(new, n, first)
    BY <1>3, <1>5 DEF Own, Sound
  <1>11. Timely(new, n, r, M)
    <2>1. row[r].finish # NaN /\ row[r].sixty = row[r].rt
      BY <1>5 DEF Own, Settles, Sound
    <2>2. \A i \in r .. n : new[i].rt \notin {NaN, M.launched} => new[i].sixty = new[i].rt
      BY <1>2, <1>3, <1>5, <2>1 DEF Own, Timely
    <2>3. n \in 1 .. n
      BY <1>1
    <2>4. QED
      BY <1>1, <1>2, <1>3, <2>2, <2>3 DEF Own, Timely
  <1>12. QED
    BY <1>7, <1>8, <1>9, <1>10, <1>11 DEF Own

\* The row for the next starts: an old one or a new one, the last one.
LEMMA TreeOwn ==
  ASSUME NEW row, NEW new, NEW n, NEW next, NEW first, Columns(row, n, next, first),
         NEW L \in Lanes, NEW M \in Lanes, NEW m \in {n, n + 1},
         Own(row, n, next, first, L), TreeDown(L, M),
         m > 0, \A i \in 1 .. n : new[i] = row[i],
         new[m].rt = NaN, m > n => new[m].finish = NaN
  PROVE  Own(new, m, next, first, M)
  <1>1. /\ n \in Nat /\ next \in Nat \ {0} /\ first \in Nat \ {0} /\ first <= next
        /\ next <= n + 1 /\ m \in Nat /\ (m = n \/ m = n + 1)
    BY DEF Columns, Own, Placed
  <1>2. M.open = L.open /\ M.over = L.over /\ M.launched = NaN /\ L.launched = NaN
    BY DEF TreeDown
  <1>3. /\ \A i \in first .. m : i \in first .. n \/ i = m
        /\ \A i \in next .. m : i \in next .. n \/ i = m
        /\ \A i \in first .. n : i \in 1 .. n /\ i \in first .. m
        /\ \A i \in next .. n : i \in 1 .. n /\ i \in next .. m
        /\ \A i \in first .. (next - 1) : i \in 1 .. n
    BY <1>1
  <1>4. first <= m /\ next <= m
    <2>1. CASE m = n + 1
      BY <1>1, <2>1
    <2>2. CASE m = n
      <3>1. n # 0 /\ row[n].rt = NaN
        <4>1. n \in 1 .. n
          BY <1>1, <2>2
        <4>2. QED
          BY <2>2, <4>1
      <3>2. QED
        BY <2>2, <3>1 DEF Own, Placed
    <2>3. QED
      BY <1>1, <2>1, <2>2
  <1>5. Placed(new, m, next, first)
    <2>1. ASSUME NEW i \in first .. m, NEW j \in first .. m, i < j,
                 new[i].rt # NaN, new[j].rt # NaN
          PROVE  new[i].rt < new[j].rt
      <3>1. i \in first .. n /\ j \in first .. n /\ new[i] = row[i] /\ new[j] = row[j]
        BY <1>3, <2>1
      <3>2. QED
        BY <2>1, <3>1 DEF Own, Placed
    <2>2. QED
      BY <1>1, <1>4, <2>1 DEF Placed
  <1>6. Waits(new, m, next, M)
    <2>1. \A i \in next .. m : new[i].rt # NaN => new[i].rt \in M.open
      BY <1>2, <1>3 DEF Own, Waits
    <2>2. \A c \in M.open : \E i \in next .. m : new[i].rt = c
      BY <1>2, <1>3 DEF Own, Waits
    <2>3. QED
      BY <2>1, <2>2 DEF Waits
  <1>7. Settles(new, next, first, M)
    BY <1>2, <1>3 DEF Own, Settles
  <1>8. Sound(new, m, first)
    <2>1. ASSUME NEW i \in first .. m, new[i].finish # NaN
          PROVE  i \in first .. n /\ new[i] = row[i]
      <3>1. CASE i \in first .. n
        BY <1>3, <3>1
      <3>2. CASE i = m /\ m = n
        <4>1. i \in 1 .. n /\ new[i] = row[i] /\ row[i].rt = NaN
          BY <1>1, <1>3, <3>2
        <4>2. QED
          BY <2>1, <4>1 DEF Columns
      <3>3. CASE i = m /\ m = n + 1
        BY <1>1, <2>1, <3>3
      <3>4. QED
        BY <1>1, <1>3, <3>1, <3>2, <3>3
    <2>2. QED
      BY <2>1 DEF Own, Sound
  <1>9. Timely(new, m, next, M)
    <2>1. \A i \in next .. m : new[i].rt \notin {NaN, M.launched} => new[i].sixty = new[i].rt
      BY <1>2, <1>3 DEF Own, Timely
    <2>2. QED
      BY <1>2, <1>4, <2>1 DEF Timely
  <1>10. QED
    BY <1>5, <1>6, <1>7, <1>8, <1>9 DEF Own

-----------------------------------------------------------------------------
(* A message is handled: the lane of the table makes its move.              *)

Column(table, side) == [i \in 1 .. Len(table) |-> table[i][side]]

InStep(table, nexts, first, side, L) ==
    Own(Column(table, side), Len(table), nexts[side], first, L)

LEMMA ColumnFacts ==
  ASSUME IInv, NEW side \in Sides
  PROVE  /\ Columns(Column(runs, side), Len(runs), nextFinish[side], since[side])
         /\ \A i \in 1 .. Len(runs) : Column(runs, side)[i] = runs[i][side]
         /\ Len(runs) \in Nat
  <1>1. ModelOK /\ NothingAhead /\ since[side] \in Nat \ {0}
    BY StateFacts DEF IInv, TypeOK
  <1>2. /\ Len(runs) \in Nat /\ DOMAIN runs = 1 .. Len(runs)
        /\ nextFinish[side] \in Nat \ {0} /\ nextFinish[side] <= Len(runs) + 1
    BY <1>1, RowFacts
  <1>3. \A i \in 1 .. Len(runs) : Column(runs, side)[i] = runs[i][side]
    BY DEF Column
  <1>4. \A i \in 1 .. Len(runs) :
           /\ runs[i][side].rt \in Nat /\ runs[i][side].sixty \in Nat /\ runs[i][side].finish \in Nat
    <2>1. Cars \union {NaN} \subseteq Nat
      BY CarFacts DEF NaN
    <2>2. QED
      BY <1>1, <2>1, RowFacts
  <1>5. \A i \in 1 .. Len(runs) :
           runs[i][side].finish # NaN => i < nextFinish[side] /\ runs[i][side].rt # NaN
    BY <1>1, <1>2 DEF NothingAhead
  <1>6. QED
    BY <1>1, <1>2, <1>3, <1>4, <1>5 DEF Columns

\* Nothing changed in the lane.
LEMMA LaneKept ==
  ASSUME NEW side \in Sides, NEW L, InStep(runs, nextFinish, since[side], side, L),
         Len(runs') = Len(runs), \A i \in 1 .. Len(runs) : runs'[i][side] = runs[i][side],
         nextFinish'[side] = nextFinish[side]
  PROVE  InStep(runs', nextFinish', since[side], side, L)
  <1>1. Column(runs', side) = Column(runs, side)
    BY DEF Column
  <1>2. QED
    BY <1>1 DEF InStep

LEMMA OtherKept ==
  ASSUME IInv, NEW side \in Sides, NEW s \in Sides, s # side, NEW r \in 1 .. Len(runs), Others(r, s),
         nextFinish'[side] = nextFinish[side],
         NEW L, InStep(runs, nextFinish, since[side], side, L)
  PROVE  InStep(runs', nextFinish', since[side], side, L)
  BY LaneKept DEF Others

\* What Handled says, by the kind of the message.
LEMMA HandledAs ==
  ASSUME IInv, line # <<>>, Handled(Head(line))
  PROVE  \E m \in Messages : /\ m = Head(line) /\ m = line[1] /\ m.side \in Sides /\ m.red \in BOOLEAN
                             /\ m.kind # "tree" => m.car \in Cars
                             /\ m.kind \in Kinds
                             /\ m.kind = "tree" => runs' = CreateNewEntry /\ UNCHANGED nextFinish
                             /\ m.kind = "rt" => AddReaction(m.side, m.car, m.red)
                             /\ m.kind = "sixty" => AddSixty(m.side, m.car)
                             /\ m.kind = "fin" => AddFinish(m.side, m.car)
                             /\ m.kind = "ds" => DeleteStart(m.side)
                             /\ m.kind = "df" => DeleteFinish(m.side)
  <1> DEFINE m == Head(line)
  <1>1. m \in Messages /\ m = line[1] /\ 1 \in DOMAIN line /\ m = Head(line)
    BY StateFacts, HeadTailProperties, LenProperties, EmptySeq
  <1>2. /\ m.kind \in Kinds /\ m.side \in Sides /\ m.red \in BOOLEAN
        /\ m.kind # "tree" => m.car \in Cars
    BY <1>1 DEF Messages, LineOK, IInv
  <1>3. Handled(m)
    OBVIOUS
  <1> HIDE DEF m
  <1>4. /\ m.kind = "tree" => runs' = CreateNewEntry /\ UNCHANGED nextFinish
        /\ m.kind = "rt" => AddReaction(m.side, m.car, m.red)
        /\ m.kind = "sixty" => AddSixty(m.side, m.car)
        /\ m.kind = "fin" => AddFinish(m.side, m.car)
        /\ m.kind = "ds" => DeleteStart(m.side)
        /\ m.kind = "df" => DeleteFinish(m.side)
    BY <1>3 DEF Handled
  <1>5. QED
    BY <1>1, <1>2, <1>4

\* One result of the lane changed.
LEMMA ColumnChanged ==
  ASSUME IInv, NEW side \in Sides, NEW r \in 1 .. Len(runs), Others(r, side)
  PROVE  /\ Len(runs') = Len(runs) /\ Len(runs) \in Nat
         /\ \A i \in 1 .. Len(runs) : Column(runs', side)[i] = runs'[i][side]
         /\ \A i \in 1 .. Len(runs) : i # r => Column(runs', side)[i] = Column(runs, side)[i]
         /\ Column(runs, side)[r] = runs[r][side]
  BY ColumnFacts DEF Others, Column

LEMMA TreeInStep ==
  ASSUME IInv, NEW side \in Sides, NEW L \in Lanes, NEW M \in Lanes,
         InStep(runs, nextFinish, since[side], side, L),
         Entered, nextFinish'[side] = nextFinish[side], TreeDown(L, M)
  PROVE  InStep(runs', nextFinish', since[side], side, M)
  <1> DEFINE row == Column(runs, side)
             new == Column(runs', side)
             n == Len(runs)
             m == Len(runs')
  <1>1. /\ Columns(row, n, nextFinish[side], since[side]) /\ n \in Nat
        /\ \A i \in 1 .. n : row[i] = runs[i][side]
    BY ColumnFacts
  <1>2. /\ m \in {n, n + 1} /\ m > 0 /\ \A i \in 1 .. n : runs'[i] = runs[i]
        /\ runs'[m][side].rt = NaN /\ (m > n => runs'[m] = DualResult)
    BY DEF Entered
  <1>3. \A i \in 1 .. m : new[i] = runs'[i][side]
    BY DEF Column
  <1>4. DualResult[side].finish = NaN
    BY NewRow
  <1>5. Own(row, n, nextFinish[side], since[side], L)
    BY DEF InStep
  <1>6. Own(new, m, nextFinish[side], since[side], M) => InStep(runs', nextFinish', since[side], side, M)
    BY DEF InStep
  <1> HIDE DEF row, new, n, m
  <1>7. \A i \in 1 .. n : new[i] = row[i]
    BY <1>1, <1>2, <1>3
  <1>8. new[m].rt = NaN /\ (m > n => new[m].finish = NaN)
    BY <1>1, <1>2, <1>3, <1>4
  <1>9. QED
    BY <1>1, <1>2, <1>5, <1>6, <1>7, <1>8, TreeOwn

LEMMA StartInStep ==
  ASSUME IInv, NEW side \in Sides, NEW L \in Lanes, NEW M \in Lanes, NEW car \in Cars,
         NEW red \in BOOLEAN,
         InStep(runs, nextFinish, since[side], side, L),
         AddReaction(side, car, red), Starts(L, M, car)
  PROVE  InStep(runs', nextFinish', since[side], side, M)
  <1> DEFINE row == Column(runs, side)
             new == Column(runs', side)
             n == Len(runs)
  <1>1. Columns(row, n, nextFinish[side], since[side]) /\ n \in Nat
    BY ColumnFacts
  <1>2. Own(row, n, nextFinish[side], since[side], L)
    BY DEF InStep
  <1>3. n > 0
    BY <1>2 DEF Own, Timely, Starts
  <1>4. runs # <<>> /\ ModelOK /\ n \in 1 .. n
    BY <1>1, <1>3, StateFacts, RowFacts
  <1>5. /\ Others(n, side) /\ runs'[n][side].rt = car /\ runs'[n][side].finish = runs[n][side].finish
    BY <1>4, ReactionRow
  <1>6. /\ Len(runs') = n /\ new[n] = runs'[n][side] /\ row[n] = runs[n][side]
        /\ \A i \in 1 .. n : i # n => new[i] = row[i]
    BY <1>4, <1>5, ColumnChanged
  <1>7. nextFinish' = nextFinish
    BY DEF AddReaction
  <1>8. Own(new, n, nextFinish[side], since[side], M) => InStep(runs', nextFinish', since[side], side, M)
    BY <1>6, <1>7 DEF InStep
  <1> HIDE DEF row, new, n
  <1>9. new[n].rt = car /\ new[n].finish = row[n].finish
    BY <1>5, <1>6
  <1>10. QED
    BY <1>1, <1>2, <1>6, <1>8, <1>9, StartsOwn

LEMMA SixtyInStep ==
  ASSUME IInv, NEW side \in Sides, NEW L \in Lanes, NEW M \in Lanes, NEW car \in Cars,
         InStep(runs, nextFinish, since[side], side, L),
         AddSixty(side, car), PassesSixty(L, M, car)
  PROVE  InStep(runs', nextFinish', since[side], side, M)
  <1> DEFINE row == Column(runs, side)
             new == Column(runs', side)
             n == Len(runs)
  <1>1. Columns(row, n, nextFinish[side], since[side]) /\ n \in Nat
    BY ColumnFacts
  <1>2. Own(row, n, nextFinish[side], since[side], L)
    BY DEF InStep
  <1>3. n > 0
    BY <1>2, CarFacts DEF Own, Timely, PassesSixty
  <1>4. runs # <<>> /\ ModelOK /\ n \in 1 .. n
    BY <1>1, <1>3, StateFacts, RowFacts
  <1>5. /\ Others(n, side) /\ runs'[n][side].rt = runs[n][side].rt
        /\ runs'[n][side].sixty = car /\ runs'[n][side].finish = runs[n][side].finish
    BY <1>4, SixtyRow
  <1>6. /\ Len(runs') = n /\ new[n] = runs'[n][side] /\ row[n] = runs[n][side]
        /\ \A i \in 1 .. n : i # n => new[i] = row[i]
    BY <1>4, <1>5, ColumnChanged
  <1>7. nextFinish' = nextFinish
    BY DEF AddSixty
  <1>8. Own(new, n, nextFinish[side], since[side], M) => InStep(runs', nextFinish', since[side], side, M)
    BY <1>6, <1>7 DEF InStep
  <1> HIDE DEF row, new, n
  <1>9. new[n].rt = row[n].rt /\ new[n].sixty = car /\ new[n].finish = row[n].finish
    BY <1>5, <1>6
  <1>10. QED
    BY <1>1, <1>2, <1>6, <1>8, <1>9, SixtyOwn

LEMMA FinishInStep ==
  ASSUME IInv, NEW side \in Sides, NEW L \in Lanes, NEW M \in Lanes, NEW car \in Cars,
         InStep(runs, nextFinish, since[side], side, L),
         AddFinish(side, car), Finishes(L, M, car)
  PROVE  InStep(runs', nextFinish', since[side], side, M)
  <1> DEFINE row == Column(runs, side)
             new == Column(runs', side)
             n == Len(runs)
  <1>1. /\ Columns(row, n, nextFinish[side], since[side]) /\ n \in Nat /\ ModelOK
        /\ \A i \in 1 .. n : row[i] = runs[i][side]
    BY ColumnFacts, StateFacts
  <1>2. Own(row, n, nextFinish[side], since[side], L)
    BY DEF InStep
  <1>3. PICK at \in nextFinish[side] .. n : row[at].rt = car
    BY <1>2 DEF Own, Waits, Finishes
  <1>4. at \in 1 .. n /\ runs[at][side].rt # NaN
    BY <1>1, <1>3, CarFacts DEF Columns
  <1>5. PICK r \in 1 .. n : FinishAdded(side, car, r)
    BY <1>1, <1>3, <1>4, AddFinishRow
  <1>6. /\ nextFinish[side] <= r /\ runs[r][side].rt # NaN
        /\ \A i \in nextFinish[side] .. (r - 1) : runs[i][side].rt = NaN
        /\ Others(r, side)
        /\ runs'[r][side].rt = runs[r][side].rt
        /\ runs'[r][side].sixty = runs[r][side].sixty
        /\ runs'[r][side].finish = car
        /\ nextFinish' = [nextFinish EXCEPT ![side] = r + 1]
    BY <1>5 DEF FinishAdded
  <1>7. /\ Len(runs') = n /\ new[r] = runs'[r][side] /\ row[r] = runs[r][side]
        /\ \A i \in 1 .. n : i # r => new[i] = row[i]
    BY <1>6, ColumnChanged
  <1>8. nextFinish'[side] = r + 1
    BY <1>1, <1>6 DEF ModelOK
  <1>9. Own(new, n, r + 1, since[side], M) => InStep(runs', nextFinish', since[side], side, M)
    BY <1>7, <1>8 DEF InStep
  <1>10. \A i \in nextFinish[side] .. (r - 1) : i \in 1 .. n
    BY <1>1 DEF Columns
  <1> HIDE DEF row, new, n
  <1>11. \A i \in nextFinish[side] .. (r - 1) : row[i].rt = NaN
    BY <1>1, <1>6, <1>10
  <1>12. /\ row[r].rt # NaN /\ new[r].rt = row[r].rt /\ new[r].sixty = row[r].sixty
         /\ new[r].finish = car
    BY <1>6, <1>7
  <1>13. QED
    BY <1>1, <1>2, <1>6, <1>7, <1>9, <1>11, <1>12, FinishesOwn

LEMMA StartBackInStep ==
  ASSUME IInv, NEW side \in Sides, NEW L \in Lanes, NEW M \in Lanes, NEW car \in Cars,
         InStep(runs, nextFinish, since[side], side, L),
         DeleteStart(side), StartBack(L, M, car),
         runs # <<>>, runs[Len(runs)][side].rt # NaN
  PROVE  InStep(runs', nextFinish', since[side], side, M)
  <1> DEFINE row == Column(runs, side)
             new == Column(runs', side)
             n == Len(runs)
  <1>1. /\ Columns(row, n, nextFinish[side], since[side]) /\ n \in Nat /\ ModelOK
        /\ \A i \in 1 .. n : row[i] = runs[i][side]
    BY ColumnFacts, StateFacts
  <1>2. Own(row, n, nextFinish[side], since[side], L)
    BY DEF InStep
  <1>3. n > 0 /\ n \in 1 .. n /\ row[n].rt # NaN
    BY <1>1, RowFacts
  <1>4. StartDeleted(side)
    <2>1. PICK at \in nextFinish[side] .. n : row[at].rt = car
      BY <1>2 DEF Own, Waits, StartBack
    <2>2. nextFinish[side] <= n
      BY <1>1, <2>1 DEF Columns
    <2>3. runs[n][side].finish = NaN
      BY <1>1, <1>3, <2>2 DEF Columns
    <2>4. QED
      BY <1>1, <2>3, DeleteStartRow
  <1>5. /\ Others(n, side) /\ runs'[n][side].rt = NaN
        /\ runs'[n][side].finish = runs[n][side].finish
    BY <1>4 DEF StartDeleted
  <1>6. /\ Len(runs') = n /\ new[n] = runs'[n][side] /\ row[n] = runs[n][side]
        /\ \A i \in 1 .. n : i # n => new[i] = row[i]
    BY <1>3, <1>5, ColumnChanged
  <1>7. nextFinish' = nextFinish
    BY DEF DeleteStart
  <1>8. Own(new, n, nextFinish[side], since[side], M) => InStep(runs', nextFinish', since[side], side, M)
    BY <1>6, <1>7 DEF InStep
  <1> HIDE DEF row, new, n
  <1>9. new[n].rt = NaN /\ new[n].finish = row[n].finish
    BY <1>5, <1>6
  <1>10. QED
    BY <1>1, <1>2, <1>3, <1>6, <1>8, <1>9, StartBackOwn

LEMMA FinishBackInStep ==
  ASSUME IInv, NEW side \in Sides, NEW L \in Lanes, NEW M \in Lanes, NEW car \in Cars,
         InStep(runs, nextFinish, since[side], side, L),
         DeleteFinish(side), FinishBack(L, M, car),
         nextFinish[side] # 1, runs[nextFinish[side] - 1][side].rt # NaN
  PROVE  InStep(runs', nextFinish', since[side], side, M)
  <1> DEFINE row == Column(runs, side)
             new == Column(runs', side)
             n == Len(runs)
             at == nextFinish[side] - 1
  <1>1. /\ Columns(row, n, nextFinish[side], since[side]) /\ n \in Nat /\ ModelOK
        /\ \A i \in 1 .. n : row[i] = runs[i][side]
    BY ColumnFacts, StateFacts
  <1>2. Own(row, n, nextFinish[side], since[side], L)
    BY DEF InStep
  <1>3. at \in 1 .. n /\ row[at].rt # NaN
    BY <1>1 DEF Columns
  <1>4. runs[at][side].finish # NaN
    <2>1. since[side] <= nextFinish[side] /\ since[side] \in Nat /\ nextFinish[side] \in Nat
      BY <1>1, <1>2 DEF Own, Placed, Columns
    <2>2. since[side] # nextFinish[side]
      <3>1. ASSUME since[side] = nextFinish[side] PROVE FALSE
        <4>1. since[side] .. (nextFinish[side] - 1) = {}
          BY <2>1, <3>1
        <4>2. since[side] = 1
          BY <1>2, <4>1 DEF Own, Settles, FinishBack
        <4>3. QED
          BY <3>1, <4>2
      <3>2. QED
        BY <3>1
    <2>3. at \in since[side] .. (nextFinish[side] - 1)
      BY <2>1, <2>2
    <2>4. row[at].finish # NaN
      BY <1>2, <1>3, <2>3 DEF Own, Settles
    <2>5. QED
      BY <1>1, <1>3, <2>4
  <1>5. PICK r \in 1 .. n : FinishDeleted(side, r)
    BY <1>1, <1>4, DeleteFinishRow
  <1>6. /\ nextFinish[side] = r + 1
        /\ Others(r, side)
        /\ runs'[r][side].rt = runs[r][side].rt
        /\ runs'[r][side].sixty = runs[r][side].sixty
        /\ runs'[r][side].finish = NaN
        /\ nextFinish' = [nextFinish EXCEPT ![side] = r]
    BY <1>5 DEF FinishDeleted
  <1>7. /\ Len(runs') = n /\ new[r] = runs'[r][side] /\ row[r] = runs[r][side]
        /\ \A i \in 1 .. n : i # r => new[i] = row[i]
    BY <1>6, ColumnChanged
  <1>8. nextFinish'[side] = r /\ at = r
    BY <1>1, <1>6 DEF ModelOK
  <1>9. Own(new, n, r, since[side], M) => InStep(runs', nextFinish', since[side], side, M)
    BY <1>7, <1>8 DEF InStep
  <1> HIDE DEF row, new, n, at
  <1>10. /\ row[r].rt # NaN /\ new[r].rt = row[r].rt /\ new[r].sixty = row[r].sixty
         /\ new[r].finish = NaN
    BY <1>3, <1>6, <1>7, <1>8
  <1>11. QED
    BY <1>1, <1>2, <1>6, <1>7, <1>9, <1>10, FinishBackOwn

\* As long as the program can find what it is told to take back, the lane of
\* the table makes the move of the timer.
LEMMA HandledInStep ==
  ASSUME IInv, line # <<>>, Handled(Head(line)), NEW side \in Sides,
         Head(line).side = side => ~Unfound(Head(line)),
         NEW L \in Lanes, NEW M \in Lanes, Passes(L, M, Head(line), side),
         InStep(runs, nextFinish, since[side], side, L)
  PROVE  InStep(runs', nextFinish', since[side], side, M)
  <1>1. PICK m \in Messages :
          /\ m = Head(line) /\ m = line[1] /\ m.side \in Sides /\ m.red \in BOOLEAN
          /\ m.kind # "tree" => m.car \in Cars
          /\ m.kind \in Kinds
          /\ m.kind = "tree" => runs' = CreateNewEntry /\ UNCHANGED nextFinish
          /\ m.kind = "rt" => AddReaction(m.side, m.car, m.red)
          /\ m.kind = "sixty" => AddSixty(m.side, m.car)
          /\ m.kind = "fin" => AddFinish(m.side, m.car)
          /\ m.kind = "ds" => DeleteStart(m.side)
          /\ m.kind = "df" => DeleteFinish(m.side)
    BY HandledAs
  <1>2. ModelOK /\ nextFinish \in [Sides -> Nat \ {0}] /\ (runs # <<>> => Len(runs) \in 1 .. Len(runs))
    BY StateFacts, RowFacts DEF ModelOK
  <1>3. Passes(L, M, m, side) /\ (m.side = side => ~Unfound(m))
    BY <1>1
  <1>4. CASE m.kind = "tree"
    <2>1. TreeDown(L, M)
      BY <1>3, <1>4 DEF Passes
    <2>2. QED
      BY <1>1, <1>2, <1>4, <2>1, EntryRow, TreeInStep
  <1>5. CASE m.kind # "tree" /\ m.side # side
    <2>1. M = L
      BY <1>3, <1>5 DEF Passes
    <2>2. CASE runs' = runs /\ nextFinish'[side] = nextFinish[side]
      BY <2>1, <2>2, LaneKept
    <2>3. CASE \E r \in 1 .. Len(runs) : Others(r, m.side) /\ nextFinish'[side] = nextFinish[side]
      BY <1>1, <1>5, <2>1, <2>3, OtherKept
    <2>4. CASE m.kind = "rt"
      <3>1. AddReaction(m.side, m.car, m.red) /\ m.car \in Cars /\ nextFinish' = nextFinish
        BY <1>1, <2>4 DEF AddReaction
      <3>2. CASE runs = <<>>
        BY <2>2, <3>1, <3>2 DEF AddReaction
      <3>3. CASE runs # <<>>
        BY <1>1, <1>2, <2>3, <3>1, <3>3, ReactionRow
      <3>4. QED
        BY <3>2, <3>3
    <2>5. CASE m.kind = "sixty"
      <3>1. AddSixty(m.side, m.car) /\ m.car \in Cars /\ nextFinish' = nextFinish
        BY <1>1, <2>5 DEF AddSixty
      <3>2. CASE runs = <<>>
        BY <2>2, <3>1, <3>2 DEF AddSixty
      <3>3. CASE runs # <<>>
        BY <1>1, <1>2, <2>3, <3>1, <3>3, SixtyRow
      <3>4. QED
        BY <3>2, <3>3
    <2>6. CASE m.kind = "fin"
      <3>1. \/ runs' = runs /\ nextFinish' = [nextFinish EXCEPT ![m.side] = Len(runs) + 1]
            \/ \E r \in 1 .. Len(runs) : FinishAdded(m.side, m.car, r)
        BY <1>1, <1>2, <2>6, AddFinishRow
      <3>2. CASE runs' = runs /\ nextFinish' = [nextFinish EXCEPT ![m.side] = Len(runs) + 1]
        BY <1>2, <1>5, <2>2, <3>2
      <3>3. CASE \E r \in 1 .. Len(runs) : FinishAdded(m.side, m.car, r)
        BY <1>2, <1>5, <2>3, <3>3 DEF FinishAdded
      <3>4. QED
        BY <3>1, <3>2, <3>3
    <2>7. CASE m.kind = "ds"
      <3>1. nextFinish' = nextFinish /\ (runs' = runs \/ StartDeleted(m.side))
        BY <1>1, <1>2, <2>7, DeleteStartRow DEF DeleteStart
      <3>2. CASE runs' = runs
        BY <2>2, <3>1, <3>2
      <3>3. CASE StartDeleted(m.side)
        BY <1>2, <2>3, <3>1, <3>3 DEF StartDeleted
      <3>4. QED
        BY <3>1, <3>2, <3>3
    <2>8. CASE m.kind = "df"
      <3>1. UNCHANGED model \/ \E r \in 1 .. Len(runs) : FinishDeleted(m.side, r)
        BY <1>1, <1>2, <2>8, DeleteFinishRow
      <3>2. CASE UNCHANGED model
        BY <2>2, <3>2 DEF model
      <3>3. CASE \E r \in 1 .. Len(runs) : FinishDeleted(m.side, r)
        BY <1>2, <1>5, <2>3, <3>3 DEF FinishDeleted
      <3>4. QED
        BY <3>1, <3>2, <3>3
    <2>9. QED
      BY <1>1, <1>5, <2>4, <2>5, <2>6, <2>7, <2>8 DEF Kinds
  <1>6. CASE m.side = side /\ m.kind = "rt"
    <2>1. Starts(L, M, m.car)
      BY <1>3, <1>6 DEF Passes
    <2>2. QED
      BY <1>1, <1>6, <2>1, StartInStep
  <1>7. CASE m.side = side /\ m.kind = "sixty"
    <2>1. PassesSixty(L, M, m.car)
      BY <1>3, <1>7 DEF Passes
    <2>2. QED
      BY <1>1, <1>7, <2>1, SixtyInStep
  <1>8. CASE m.side = side /\ m.kind = "fin"
    <2>1. Finishes(L, M, m.car)
      BY <1>3, <1>8 DEF Passes
    <2>2. QED
      BY <1>1, <1>8, <2>1, FinishInStep
  <1>9. CASE m.side = side /\ m.kind = "ds"
    <2>1. StartBack(L, M, m.car)
      BY <1>3, <1>9 DEF Passes
    <2>2. runs # <<>> /\ runs[Len(runs)][side].rt # NaN
      BY <1>3, <1>9 DEF Unfound, Last
    <2>3. QED
      BY <1>1, <1>9, <2>1, <2>2, StartBackInStep
  <1>10. CASE m.side = side /\ m.kind = "df"
    <2>1. FinishBack(L, M, m.car)
      BY <1>3, <1>10 DEF Passes
    <2>2. nextFinish[side] # 1 /\ runs[nextFinish[side] - 1][side].rt # NaN
      BY <1>3, <1>10 DEF Unfound
    <2>3. QED
      BY <1>1, <1>10, <2>1, <2>2, FinishBackInStep
  <1>11. QED
    BY <1>1, <1>4, <1>5, <1>6, <1>7, <1>8, <1>9, <1>10 DEF Kinds

-----------------------------------------------------------------------------
(* Program and timer agree on a lane if the messages under way lead from    *)
(* what the table shows to what the timer has.  After a reset a tree can    *)
(* still be under way that the timer forgot.                                *)

AtEnd(side, L) ==
    /\ L.open = Values(course[side]) /\ L.over = Values(over[side])
    /\ L.launched = launched[side]
    /\ side \in ready => L.ready

Agreed(side) == \E view \in [0 .. Len(line) -> Lanes] :
    /\ \A k \in 1 .. Len(line) : Passes(view[k - 1], view[k], line[k], side)
    /\ InStep(runs, nextFinish, since[side], side, view[0])
    /\ AtEnd(side, view[Len(line)])

Agreement == \A side \in Sides : ~astray[side] => Agreed(side)

AInv == IInv /\ TimerOK /\ Agreement

\* A move does not depend on a tree that the timer forgot.
LEMMA PassesReady ==
  ASSUME NEW side \in Sides, NEW L \in Lanes, NEW M \in Lanes, NEW V \in Lanes, NEW m,
         Passes(L, M, m, side), V.open = L.open, V.over = L.over, V.launched = L.launched,
         L.ready => V.ready
  PROVE  \E W \in Lanes : /\ Passes(V, W, m, side)
                          /\ W.open = M.open /\ W.over = M.over /\ W.launched = M.launched
                          /\ M.ready => W.ready
  <1> DEFINE W == [M EXCEPT !.ready = V.ready]
  <1>1. /\ W \in Lanes /\ W.open = M.open /\ W.over = M.over /\ W.launched = M.launched
        /\ W.ready = V.ready
    BY DEF Lanes
  <1> HIDE DEF W
  <1>2. CASE m.kind = "tree" /\ TreeDown(L, M)
    BY <1>2 DEF TreeDown, Passes
  <1>3. CASE m.kind # "tree" /\ m.side # side /\ M = L
    BY <1>3 DEF Passes
  <1>4. CASE m.kind = "rt" /\ m.side = side /\ Starts(L, M, m.car)
    BY <1>4 DEF Starts, Passes
  <1>5. CASE m.kind = "sixty" /\ m.side = side /\ PassesSixty(L, M, m.car)
    BY <1>1, <1>5 DEF PassesSixty, Passes
  <1>6. CASE m.kind = "fin" /\ m.side = side /\ Finishes(L, M, m.car)
    BY <1>1, <1>6 DEF Finishes, Passes
  <1>7. CASE m.kind = "ds" /\ m.side = side /\ StartBack(L, M, m.car)
    BY <1>1, <1>7 DEF StartBack, Passes
  <1>8. CASE m.kind = "df" /\ m.side = side /\ FinishBack(L, M, m.car)
    BY <1>1, <1>8 DEF FinishBack, Passes
  <1>9. QED
    BY <1>2, <1>3, <1>4, <1>5, <1>6, <1>7, <1>8 DEF Passes

LEMMA ToldAgrees ==
  ASSUME IInv, IInv', NEW m \in Messages, Told(m), NEW side \in Sides, Agreed(side)
  PROVE  Agreed(side)'
  <1> DEFINE n == Len(line)
  <1>1. PICK view \in [0 .. n -> Lanes] :
           /\ \A k \in 1 .. n : Passes(view[k - 1], view[k], line[k], side)
           /\ InStep(runs, nextFinish, since[side], side, view[0])
           /\ AtEnd(side, view[n])
    BY DEF Agreed
  <1>2. /\ line' = Append(line, m) /\ Passes(Lane(side), Lane(side)', m, side)
        /\ UNCHANGED <<model, astray, since>>
    BY DEF Told, Send, Moved, Elsewhere
  <1>3. /\ n \in Nat /\ Len(line') = n + 1
        /\ \A k \in 1 .. n : line'[k] = line[k]
        /\ line'[n + 1] = m
    BY <1>2, StateFacts, AppendProperties
  <1>4. Lane(side) \in Lanes
    BY LaneFacts
  <1>5. Lane(side)' \in Lanes
    <2>1. /\ course'[side] \in Seq(Cars) /\ over'[side] \in Seq(Cars)
          /\ launched'[side] \in Cars \union {NaN}
      BY DEF IInv, TypeOK
    <2>2. Values(course'[side]) \in SUBSET Cars /\ Values(over'[side]) \in SUBSET Cars
      BY <2>1, ValuesAreCars
    <2>3. QED
      BY <2>1, <2>2 DEF Lane, Lanes
  <1>6. view[n] \in Lanes
    BY <1>1, <1>3
  <1>7. /\ view[n].open = Lane(side).open /\ view[n].over = Lane(side).over
        /\ view[n].launched = Lane(side).launched /\ (Lane(side).ready => view[n].ready)
    BY <1>1 DEF AtEnd, Lane
  <1>8. PICK W \in Lanes : /\ Passes(view[n], W, m, side)
                           /\ W.open = Lane(side)'.open /\ W.over = Lane(side)'.over
                           /\ W.launched = Lane(side)'.launched
                           /\ Lane(side)'.ready => W.ready
    BY <1>2, <1>4, <1>5, <1>6, <1>7, PassesReady
  <1>9. AtEnd(side, W)'
    BY <1>8 DEF AtEnd, Lane
  <1> DEFINE next == [k \in 0 .. (n + 1) |-> IF k = n + 1 THEN W ELSE view[k]]
  <1> HIDE DEF n
  <1>10. next \in [0 .. (n + 1) -> Lanes]
    <2>1. \A k \in 0 .. (n + 1) : k = n + 1 \/ k \in 0 .. n
      BY <1>3
    <2>2. QED
      BY <1>1, <2>1
  <1>11. \A k \in 0 .. n : k \in 0 .. (n + 1) /\ k # n + 1
    BY <1>3
  <1>12. n + 1 \in 0 .. (n + 1) /\ 0 \in 0 .. n /\ n \in 0 .. n
    BY <1>3
  <1>13. (\A k \in 0 .. n : next[k] = view[k]) /\ next[n + 1] = W
    BY <1>11, <1>12
  <1> HIDE DEF next
  <1>14. ASSUME NEW k \in 1 .. (n + 1)
         PROVE  Passes(next[k - 1], next[k], line'[k], side)
    <2>1. CASE k = n + 1
      <3>1. k - 1 = n
        BY <1>3, <2>1
      <3>2. QED
        BY <1>3, <1>8, <1>12, <1>13, <2>1, <3>1
    <2>2. CASE k # n + 1
      <3>1. k \in 1 .. n /\ k \in 0 .. n /\ k - 1 \in 0 .. n
        BY <1>3, <2>2
      <3>2. QED
        BY <1>1, <1>3, <1>13, <3>1
    <2>3. QED
      BY <2>1, <2>2
  <1>15. InStep(runs', nextFinish', since'[side], side, next[0])
    BY <1>1, <1>2, <1>12, <1>13 DEF model
  <1>16. next[n + 1] = W
    BY <1>13
  <1>17. QED
    BY <1>3, <1>9, <1>10, <1>14, <1>15, <1>16 DEF Agreed

LEMMA EventAgrees ==
  ASSUME IInv, Event, NEW side \in Sides, ~astray[side], Agreed(side), ~astray'[side]
  PROVE  Agreed(side)'
  <1> DEFINE n == Len(line)
  <1>1. PICK view \in [0 .. n -> Lanes] :
           /\ \A k \in 1 .. n : Passes(view[k - 1], view[k], line[k], side)
           /\ InStep(runs, nextFinish, since[side], side, view[0])
           /\ AtEnd(side, view[n])
    BY DEF Agreed
  <1>2. /\ line # <<>> /\ line' = Tail(line) /\ Handled(Head(line))
        /\ astray' = [astray EXCEPT ![Head(line).side] = @ \/ Unfound(Head(line))]
        /\ UNCHANGED <<timer, since>>
    BY DEF Event
  <1>3. /\ n \in Nat /\ n > 0 /\ Len(line') = n - 1
        /\ \A k \in 1 .. (n - 1) : line'[k] = line[k + 1]
        /\ Head(line) = line[1]
    BY <1>2, StateFacts, HeadTailProperties, EmptySeq
  <1>4. Head(line).side = side => ~Unfound(Head(line))
    BY <1>2 DEF IInv, TypeOK
  <1> DEFINE next == [k \in 0 .. (n - 1) |-> view[k + 1]]
  <1> HIDE DEF n
  <1>5. \A k \in 0 .. (n - 1) : k + 1 \in 0 .. n /\ k + 1 \in 1 .. n
    BY <1>3
  <1>6. next \in [0 .. (n - 1) -> Lanes]
    BY <1>1, <1>5
  <1>7. \A k \in 0 .. (n - 1) : next[k] = view[k + 1]
    OBVIOUS
  <1> HIDE DEF next
  <1>8. 0 \in 0 .. (n - 1) /\ n - 1 \in 0 .. (n - 1) /\ (n - 1) + 1 = n /\ 1 \in 1 .. n /\ 0 + 1 = 1
    BY <1>3
  <1>9. next[0] = view[1] /\ next[n - 1] = view[n]
    BY <1>7, <1>8
  <1>10. ASSUME NEW k \in 1 .. (n - 1)
         PROVE  Passes(next[k - 1], next[k], line'[k], side)
    <2>1. k - 1 \in 0 .. (n - 1) /\ k \in 0 .. (n - 1) /\ (k - 1) + 1 = k /\ k + 1 \in 1 .. n
          /\ (k + 1) - 1 = k
      BY <1>3
    <2>2. next[k - 1] = view[k] /\ next[k] = view[k + 1] /\ line'[k] = line[k + 1]
      BY <1>3, <1>7, <2>1
    <2>3. QED
      BY <1>1, <2>1, <2>2
  <1>11. InStep(runs', nextFinish', since'[side], side, next[0])
    <2>1. view[0] \in Lanes /\ view[1] \in Lanes
      BY <1>1, <1>3
    <2>2. 1 - 1 = 0
      OBVIOUS
    <2>3. Passes(view[0], view[1], Head(line), side)
      BY <1>1, <1>3, <1>8, <2>2
    <2>4. InStep(runs', nextFinish', since[side], side, view[1])
      BY <1>1, <1>2, <1>4, <2>1, <2>3, HandledInStep
    <2>5. QED
      BY <1>2, <1>9, <2>4
  <1>12. PICK E \in Lanes : E = view[n] /\ AtEnd(side, E)
    <2>1. n \in 0 .. n
      BY <1>3
    <2>2. QED
      BY <1>1, <2>1
  <1>13. AtEnd(side, E)'
    BY <1>2, <1>12 DEF AtEnd, timer
  <1>14. next[n - 1] = E
    BY <1>9, <1>12
  <1>15. QED
    BY <1>3, <1>6, <1>10, <1>11, <1>13, <1>14 DEF Agreed

\* After a reset the table has an empty row for the lane, and every message
\* under way is about the other one.
LEMMA ResetAgrees ==
  ASSUME IInv, IInv', Reset, NEW side \in Sides, ~astray'[side]
  PROVE  Agreed(side)'
  <1> DEFINE n == Len(runs')
             row == Column(runs', side)
  <1>1. /\ runs' = CreateNewEntry /\ nextFinish' = [s \in Sides |-> n]
        /\ line' = line /\ since' = [s \in Sides |-> n]
        /\ course' = [s \in Sides |-> <<>>] /\ over' = [s \in Sides |-> <<>>]
        /\ launched' = [s \in Sides |-> NaN] /\ ready' = {}
        /\ \A i \in DOMAIN line : line[i].side # side
    BY DEF Reset, ResetRows
  <1>2. Entered
    BY <1>1, StateFacts, EntryRow
  <1>3. /\ n \in Nat /\ n > 0 /\ runs'[n][side].rt = NaN
        /\ DOMAIN runs' = 1 .. n /\ n \in 1 .. n
    <2>1. n \in Nat /\ DOMAIN runs' = 1 .. n
      BY <1>2, LenProperties DEF Entered
    <2>2. n > 0 /\ runs'[n][side].rt = NaN
      BY <1>2 DEF Entered
    <2> HIDE DEF n
    <2>3. QED
      BY <2>1, <2>2
  <1>4. runs'[n][side].finish = NaN
    <2>1. NothingAhead'
      BY DEF IInv
    <2>2. QED
      BY <1>3, <2>1 DEF NothingAhead
  <1> DEFINE L == [open |-> {}, over |-> {}, launched |-> NaN, ready |-> TRUE]
  <1>5. L \in Lanes
    BY DEF Lanes
  <1>6. L.open = {} /\ L.over = {} /\ L.launched = NaN /\ L.ready
    OBVIOUS
  <1>7. InStep(runs', nextFinish', since'[side], side, L)
    <2>1. row[n].rt = NaN /\ row[n].finish = NaN
      BY <1>3, <1>4 DEF Column
    <2>2. nextFinish'[side] = n /\ since'[side] = n
      BY <1>1
    <2> HIDE DEF row, L
    <2>a. Own(row, n, n, n, L) => InStep(runs', nextFinish', since'[side], side, L)
      BY <2>2 DEF InStep, row
    <2> HIDE DEF n
    <2>3. \A i \in n .. n : i = n
      BY <1>3
    <2>4. n .. (n - 1) = {}
      BY <1>3
    <2>5. Placed(row, n, n, n)
      BY <1>3, <2>3 DEF Placed
    <2>6. Waits(row, n, n, L)
      BY <1>6, <2>1, <2>3 DEF Waits
    <2>7. Settles(row, n, n, L)
      BY <1>6, <2>4 DEF Settles
    <2>8. Sound(row, n, n)
      BY <2>1, <2>3 DEF Sound
    <2>9. Timely(row, n, n, L)
      BY <1>3, <1>6, <2>1, <2>3 DEF Timely
    <2>10. QED
      BY <2>5, <2>6, <2>7, <2>8, <2>9, <2>a DEF Own
  <1>8. AtEnd(side, L)'
    <2>1. /\ course'[side] = <<>> /\ over'[side] = <<>> /\ launched'[side] = NaN
          /\ side \notin ready'
      BY <1>1
    <2>2. QED
      BY <1>6, <2>1, NoValues DEF AtEnd
  <1> DEFINE view == [k \in 0 .. Len(line) |-> L]
  <1>9. view \in [0 .. Len(line') -> Lanes]
    BY <1>1, <1>5
  <1>10. Len(line') = Len(line) /\ Len(line) \in Nat /\ DOMAIN line = 1 .. Len(line)
    BY <1>1, StateFacts
  <1> HIDE DEF L
  <1>11. \A k \in 0 .. Len(line) : view[k] = L
    OBVIOUS
  <1> HIDE DEF view
  <1>12. ASSUME NEW k \in 1 .. Len(line')
         PROVE  Passes(view[k - 1], view[k], line'[k], side)
    <2>1. k \in 0 .. Len(line) /\ k - 1 \in 0 .. Len(line) /\ k \in DOMAIN line /\ line'[k] = line[k]
      BY <1>1, <1>10
    <2>2. view[k - 1] = L /\ view[k] = L /\ line[k].side # side
      BY <1>1, <1>11, <2>1
    <2>3. CASE line[k].kind = "tree"
      BY <1>6, <2>1, <2>2, <2>3 DEF Passes, TreeDown
    <2>4. CASE line[k].kind # "tree"
      BY <2>1, <2>2, <2>4 DEF Passes
    <2>5. QED
      BY <2>3, <2>4
  <1>13. view[0] = L /\ view[Len(line')] = L
    <2>1. 0 \in 0 .. Len(line) /\ Len(line) \in 0 .. Len(line)
      BY <1>10
    <2>2. QED
      BY <1>10, <1>11, <2>1
  <1>14. QED
    BY <1>7, <1>8, <1>9, <1>12, <1>13 DEF Agreed

\* Without rows and messages they agree on an empty course.
LEMMA NothingAgrees ==
  ASSUME NEW side \in Sides, NEW L \in Lanes, L.open = {}, L.launched = NaN, ~L.ready
  PROVE  InStep(<<>>, [s \in Sides |-> 1], 1, side, L)
  <1> DEFINE row == Column(<<>>, side)
  <1>1. Len(<<>>) = 0 /\ [s \in Sides |-> 1][side] = 1
    BY EmptySeq
  <1>2. 1 .. 0 = {} /\ 1 .. (1 - 1) = {}
    OBVIOUS
  <1>3. Own(row, 0, 1, 1, L) => InStep(<<>>, [s \in Sides |-> 1], 1, side, L)
    BY <1>1 DEF InStep
  <1> HIDE DEF row
  <1>4. Placed(row, 0, 1, 1) /\ Waits(row, 0, 1, L)
    BY <1>2 DEF Placed, Waits
  <1>5. Settles(row, 1, 1, L)
    BY <1>2 DEF Settles
  <1>6. Sound(row, 0, 1) /\ Timely(row, 0, 1, L)
    BY <1>2 DEF Sound, Timely
  <1>7. QED
    BY <1>3, <1>4, <1>5, <1>6 DEF Own

LEMMA RestartAgrees ==
  ASSUME IInv, TimerOK, Restart, NEW side \in Sides, ~astray'[side]
  PROVE  Agreed(side)'
  <1>1. /\ runs' = <<>> /\ nextFinish' = [s \in Sides |-> 1] /\ line' = <<>>
        /\ since' = [s \in Sides |-> 1] /\ UNCHANGED timer
        /\ course[side] = <<>> /\ side \notin ready
    BY DEF Restart
  <1> DEFINE L == Lane(side)
  <1>2. L \in Lanes
    BY LaneFacts
  <1>3. L.open = {} /\ L.launched = NaN /\ ~L.ready
    <2>1. Values(course[side]) = {}
      BY <1>1, NoValues
    <2>2. launched[side] = NaN
      BY <2>1 DEF TimerOK, Timed
    <2>3. QED
      BY <1>1, <2>1, <2>2 DEF Lane
  <1>4. AtEnd(side, L)
    BY DEF AtEnd, Lane
  <1> HIDE DEF L
  <1>5. PICK E \in Lanes : E = L
    BY <1>2
  <1>6. AtEnd(side, E)'
    BY <1>1, <1>4, <1>5 DEF AtEnd, timer
  <1>7. InStep(runs', nextFinish', since'[side], side, E)
    <2>1. InStep(<<>>, [s \in Sides |-> 1], 1, side, E)
      BY <1>2, <1>3, <1>5, NothingAgrees
    <2>2. since'[side] = 1
      BY <1>1
    <2>3. QED
      BY <1>1, <2>1, <2>2
  <1> DEFINE view == [k \in 0 .. 0 |-> E]
  <1>8. Len(line') = 0
    BY <1>1, EmptySeq
  <1>9. view \in [0 .. 0 -> Lanes] /\ view[0] = E
    OBVIOUS
  <1> HIDE DEF view
  <1>10. QED
    BY <1>6, <1>7, <1>8, <1>9 DEF Agreed

LEMMA AgreementKept ==
  ASSUME AInv, [Next]_vars
  PROVE  AInv'
  <1>1. IInv /\ TimerOK /\ Agreement
    BY DEF AInv
  <1>2. IInv' /\ TimerOK'
    BY <1>1, StepKeeps, TimerKept
  <1>3. ASSUME NEW side \in Sides, ~astray'[side]
        PROVE  Agreed(side)'
    <2>1. CASE TimerActs
      <3>1. PICK m \in Messages : Told(m)
        BY <1>1, <2>1, TimerTells
      <3>2. astray' = astray
        BY <3>1 DEF Told, Elsewhere
      <3>3. Agreed(side)
        BY <1>1, <1>3, <3>2 DEF Agreement
      <3>4. QED
        BY <1>1, <1>2, <3>1, <3>3, ToldAgrees
    <2>2. CASE Event
      <3>1. ~astray[side]
        <4>1. astray' = [astray EXCEPT ![Head(line).side] = @ \/ Unfound(Head(line))]
          BY <2>2 DEF Event
        <4>2. astray \in [Sides -> BOOLEAN]
          BY <1>1 DEF IInv, TypeOK
        <4>3. QED
          BY <1>3, <4>1, <4>2
      <3>2. Agreed(side)
        BY <1>1, <3>1 DEF Agreement
      <3>3. QED
        BY <1>1, <1>3, <2>2, <3>1, <3>2, EventAgrees
    <2>3. CASE Reset
      BY <1>1, <1>2, <1>3, <2>3, ResetAgrees
    <2>4. CASE Restart
      BY <1>1, <1>3, <2>4, RestartAgrees
    <2>5. CASE UNCHANGED vars
      <3>1. UNCHANGED <<runs, nextFinish, line, course, over, launched, ready, astray, since>>
        BY <2>5 DEF vars, model, timer
      <3>2. Agreed(side)
        BY <1>1, <1>3, <3>1 DEF Agreement
      <3>3. QED
        BY <3>1, <3>2 DEF Agreed, AtEnd
    <2>6. QED
      BY <2>1, <2>2, <2>3, <2>4, <2>5, NextIs
  <1>4. Agreement'
    BY <1>3 DEF Agreement
  <1>5. QED
    BY <1>2, <1>4 DEF AInv

LEMMA InitAgrees ==
  ASSUME Init
  PROVE  AInv
  <1>1. IInv /\ TimerOK
    BY InitOK, InitTimed
  <1>2. ASSUME NEW side \in Sides
        PROVE  Agreed(side)
    <2> DEFINE L == Lane(side)
    <2>1. L \in Lanes
      BY <1>1, LaneFacts
    <2>2. /\ runs = <<>> /\ nextFinish = [s \in Sides |-> 1] /\ line = <<>> /\ since[side] = 1
          /\ course[side] = <<>> /\ launched[side] = NaN /\ side \notin ready
      BY DEF Init
    <2>3. L.open = {} /\ L.launched = NaN /\ ~L.ready
      BY <2>2, NoValues DEF Lane
    <2>4. AtEnd(side, L)
      BY DEF AtEnd, Lane
    <2> HIDE DEF L
    <2>5. InStep(runs, nextFinish, since[side], side, L)
      BY <2>1, <2>2, <2>3, NothingAgrees
    <2> DEFINE view == [k \in 0 .. 0 |-> L]
    <2>6. Len(line) = 0
      BY <2>2, EmptySeq
    <2>7. view \in [0 .. 0 -> Lanes] /\ view[0] = L
      BY <2>1
    <2> HIDE DEF view
    <2>8. QED
      BY <2>4, <2>5, <2>6, <2>7 DEF Agreed
  <1>3. QED
    BY <1>1, <1>2 DEF AInv, Agreement

\* Both the rows that wait and the cars on the course are in the order of the
\* starts: there is one way to put them in it.
LEMMA CourseShown ==
  ASSUME AInv, NEW side \in Sides, line = <<>>, ~astray[side]
  PROVE  Waiting(side) = course[side]
  <1> DEFINE W == WaitingRows(side)
             list == InOrder(W)
             p == Cardinality(W)
             f == [n \in 1 .. p |-> runs[list[n]][side].rt]
             n == Len(runs)
             next == nextFinish[side]
  <1>1. PICK view \in [0 .. Len(line) -> Lanes] :
           /\ InStep(runs, nextFinish, since[side], side, view[0])
           /\ AtEnd(side, view[Len(line)])
    BY DEF AInv, Agreement, Agreed
  <1>2. Len(line) = 0
    BY EmptySeq
  <1>3. PICK L \in Lanes : L = view[0] /\ InStep(runs, nextFinish, since[side], side, L) /\ AtEnd(side, L)
    BY <1>1, <1>2
  <1>4. IInv /\ Timed(side)
    BY DEF AInv, TimerOK
  <1>5. /\ n \in Nat /\ next \in Nat \ {0} /\ since[side] \in Nat \ {0}
        /\ \A i \in 1 .. n : Column(runs, side)[i] = runs[i][side]
        /\ \A i \in 1 .. n : runs[i][side].rt \in Nat
    BY <1>4, ColumnFacts DEF Columns
  <1>6. /\ since[side] <= next
        /\ \A i, j \in since[side] .. n : i < j /\ runs[i][side].rt # NaN /\ runs[j][side].rt # NaN
              => runs[i][side].rt < runs[j][side].rt
        /\ \A i \in next .. n : runs[i][side].rt # NaN => runs[i][side].rt \in L.open
        /\ \A c \in L.open : \E i \in next .. n : runs[i][side].rt = c
    <2>1. Placed(Column(runs, side), n, next, since[side]) /\ Waits(Column(runs, side), n, next, L)
      BY <1>3 DEF InStep, Own
    <2>2. since[side] <= next
      BY <2>1 DEF Placed
    <2>3. /\ \A i \in since[side] .. n : i \in 1 .. n
          /\ \A i \in next .. n : i \in 1 .. n
      BY <1>5
    <2> HIDE DEF n, next
    <2>4. /\ \A i \in since[side] .. n : Column(runs, side)[i] = runs[i][side]
          /\ \A i \in next .. n : Column(runs, side)[i] = runs[i][side]
      BY <1>5, <2>3
    <2>5. \A i, j \in since[side] .. n : i < j /\ runs[i][side].rt # NaN /\ runs[j][side].rt # NaN
              => runs[i][side].rt < runs[j][side].rt
      BY <2>1, <2>4 DEF Placed
    <2>6. /\ \A i \in next .. n : runs[i][side].rt # NaN => runs[i][side].rt \in L.open
          /\ \A c \in L.open : \E i \in next .. n : runs[i][side].rt = c
      BY <2>1, <2>4 DEF Waits
    <2>7. QED
      BY <2>2, <2>5, <2>6
  <1>7. W = {i \in next .. n : runs[i][side].rt # NaN}
    BY DEF WaitingRows
  <1>8. L.open \in SUBSET Nat /\ L.open = Values(course[side]) /\ NaN \notin L.open
    BY <1>3, LanesAreOfCars DEF AtEnd
  <1>9. course[side] \in Seq(Cars) /\ Rising(course[side]) /\ Len(course[side]) \in Nat
        /\ DOMAIN course[side] = 1 .. Len(course[side])
    BY <1>4, LaneFacts, LenProperties DEF Timed
  <1>10. Waiting(side) = [m \in DOMAIN list |-> runs[list[m]][side].rt]
    BY DEF Waiting
  <1> HIDE DEF W, n, next
  <1>11. W \in SUBSET (1 .. n) /\ W \in SUBSET (since[side] .. n) /\ W \in SUBSET Nat
    BY <1>5, <1>6, <1>7
  <1>12. /\ p \in Nat /\ DOMAIN list = 1 .. p /\ Lists(list, W)
         /\ \A m \in 1 .. p : list[m] \in W
    BY <1>5, <1>11, InOrderLists
  <1>13. Waiting(side) = f
    BY <1>10, <1>12
  <1>14. \A i \in W : runs[i][side].rt \in L.open /\ runs[i][side].rt # NaN
    BY <1>6, <1>7
  <1>15. (\A m \in 1 .. p : f[m] = runs[list[m]][side].rt) /\ DOMAIN f = 1 .. p
    OBVIOUS
  <1>16. f \in [1 .. p -> L.open]
    BY <1>12, <1>14
  <1>17. /\ \A i, j \in 1 .. p : i < j => list[i] < list[j]
         /\ \A i \in W : \E m \in 1 .. p : list[m] = i
    BY <1>12 DEF Lists, IsOrdered
  <1> HIDE DEF list, p, f
  <1>18. IsOrdered(f, L.open)
    <2>1. ASSUME NEW i \in 1 .. p, NEW j \in 1 .. p, i < j
          PROVE  f[i] < f[j]
      <3>1. /\ list[i] \in since[side] .. n /\ list[j] \in since[side] .. n /\ list[i] < list[j]
            /\ runs[list[i]][side].rt # NaN /\ runs[list[j]][side].rt # NaN
        BY <1>11, <1>12, <1>14, <1>17, <2>1
      <3>2. runs[list[i]][side].rt < runs[list[j]][side].rt
        BY <1>6, <3>1
      <3>3. QED
        BY <1>15, <3>2
    <2>2. ASSUME NEW c \in L.open
          PROVE  \E m \in 1 .. p : f[m] = c
      <3>1. PICK i \in next .. n : runs[i][side].rt = c
        BY <1>6
      <3>2. i \in W
        BY <1>7, <1>8, <3>1
      <3>3. PICK m \in 1 .. p : list[m] = i
        BY <1>17, <3>2
      <3>4. QED
        BY <1>15, <3>1, <3>3
    <2>3. QED
      BY <1>15, <2>1, <2>2 DEF IsOrdered
  <1>19. course[side] \in [1 .. Len(course[side]) -> L.open]
    <2>1. \A i \in 1 .. Len(course[side]) : course[side][i] \in L.open
      BY <1>8 DEF Values
    <2>2. course[side] \in [1 .. Len(course[side]) -> Cars]
      BY <1>9, LenProperties
    <2>3. QED
      BY <2>1, <2>2
  <1>20. IsOrdered(course[side], L.open)
    BY <1>8, <1>9 DEF IsOrdered, Rising, Values
  <1>21. f = course[side]
    BY <1>8, <1>9, <1>12, <1>16, <1>18, <1>19, <1>20, SameList
  <1>22. QED
    BY <1>13, <1>21

\* Whenever the program has handled everything that the timer said, the rows
\* that wait for a finish are those of the cars on the course, in their order,
\* unless it was told to take back what it could not find.
THEOREM CourseKnown == Spec => []CourseIsKnown
  <1>1. Init => AInv
    BY InitAgrees
  <1>2. AInv /\ [Next]_vars => AInv'
    BY AgreementKept
  <1>3. AInv => CourseIsKnown
    BY CourseShown DEF CourseIsKnown
  <1>4. QED
    BY <1>1, <1>2, <1>3, PTL DEF Spec

-----------------------------------------------------------------------------
(* Red lights: what a row keeps of a car that left it is of a start that was*)
(* taken back.  A lane is settled at a place in the queue when every start  *)
(* of it that was handled, or is under way before that place, is followed by*)
(* a tree or is of one of the given cars.                                   *)

TreeIn(queue, i, j) == \E k \in i .. j : queue[k].kind = "tree"
StartAt(queue, k, side) == queue[k].kind = "rt" /\ queue[k].side = side

Settled(table, queue, side, k, cars) ==
    /\ \A j \in 1 .. (k - 1) : StartAt(queue, j, side)
          => TreeIn(queue, j + 1, k - 1) \/ queue[j].car \in cars
    /\ TreeIn(queue, 1, k - 1) \/ table = <<>> \/ table[Len(table)][side].rt \in {NaN} \union cars

OnLane(side) == Values(course[side]) \union Values(over[side])

RedsOwn(side) == \A i \in 1 .. Len(runs) :
    runs[i][side].red \in {NaN, runs[i][side].rt} \union undone[side]

\* No start or deletion is sent, and no car is ready, while another start is
\* not settled; the only car besides that can be so is the last one.
Settling(side) ==
    /\ \A k \in 1 .. Len(line) : line[k].side = side /\ line[k].kind \in {"rt", "ds"}
          => Settled(runs, line, side, k, undone[side])
    /\ side \in ready => Settled(runs, line, side, Len(line) + 1, undone[side])
    /\ \A car \in OnLane(side) : (\A c \in OnLane(side) : c <= car)
          => Settled(runs, line, side, Len(line) + 1, undone[side] \union {car})

RInv == AInv /\ \A side \in Sides : RedsOwn(side) /\ Settling(side)

\* A message comes after the place.
LEMMA SettledBefore ==
  ASSUME NEW table, NEW queue \in Seq(Messages), NEW m \in Messages, NEW side,
         NEW k \in 1 .. (Len(queue) + 1), NEW cars, NEW more, cars \subseteq more,
         Settled(table, queue, side, k, cars)
  PROVE  Settled(table, Append(queue, m), side, k, more)
  <1> DEFINE longer == Append(queue, m)
  <1>1. Len(queue) \in Nat /\ \A i \in 1 .. Len(queue) : longer[i] = queue[i]
    BY LenProperties, AppendProperties
  <1> HIDE DEF longer
  <1>2. \A i \in 1 .. (k - 1) : i \in 1 .. Len(queue) /\ longer[i] = queue[i]
    BY <1>1
  <1>3. \A j \in 1 .. (k - 1) : \A i \in (j + 1) .. (k - 1) : i \in 1 .. (k - 1)
    OBVIOUS
  <1>4. \A j \in 1 .. (k - 1) : TreeIn(queue, j + 1, k - 1) => TreeIn(longer, j + 1, k - 1)
    BY <1>2, <1>3 DEF TreeIn
  <1>5. TreeIn(queue, 1, k - 1) => TreeIn(longer, 1, k - 1)
    BY <1>2 DEF TreeIn
  <1>6. \A j \in 1 .. (k - 1) : StartAt(longer, j, side)
           => TreeIn(longer, j + 1, k - 1) \/ longer[j].car \in more
    BY <1>2, <1>4 DEF Settled, StartAt
  <1>7. TreeIn(longer, 1, k - 1) \/ table = <<>>
           \/ table[Len(table)][side].rt \in {NaN} \union more
    BY <1>5 DEF Settled
  <1>8. QED
    BY <1>6, <1>7 DEF Settled, longer

\* A message comes before the place, the last one of the queue.
LEMMA SettledAfter ==
  ASSUME NEW table, NEW queue \in Seq(Messages), NEW m \in Messages, NEW side,
         NEW cars, NEW more, cars \subseteq more,
         Settled(table, queue, side, Len(queue) + 1, cars),
         m.kind = "rt" /\ m.side = side => m.car \in more
  PROVE  Settled(table, Append(queue, m), side, Len(queue) + 2, more)
  <1> DEFINE longer == Append(queue, m)
             n == Len(queue)
  <1>1. n \in Nat /\ (\A i \in 1 .. n : longer[i] = queue[i]) /\ longer[n + 1] = m
    BY LenProperties, AppendProperties
  <1>2. Settled(table, queue, side, n + 1, cars)
    OBVIOUS
  <1> HIDE DEF longer, n
  <1>3. (n + 1) - 1 = n /\ (n + 2) - 1 = n + 1
    BY <1>1
  <1>4. /\ \A j \in 1 .. (n + 1) : j \in 1 .. n \/ j = n + 1
        /\ \A j \in 1 .. n : \A i \in (j + 1) .. n : i \in 1 .. n /\ i \in (j + 1) .. (n + 1)
        /\ \A i \in 1 .. n : i \in 1 .. (n + 1)
    BY <1>1
  <1>5. \A j \in 1 .. n : TreeIn(queue, j + 1, n) => TreeIn(longer, j + 1, n + 1)
    BY <1>1, <1>4 DEF TreeIn
  <1>6. TreeIn(queue, 1, n) => TreeIn(longer, 1, n + 1)
    BY <1>1, <1>4 DEF TreeIn
  <1>7. ASSUME NEW j \in 1 .. (n + 1), StartAt(longer, j, side)
        PROVE  TreeIn(longer, j + 1, n + 1) \/ longer[j].car \in more
    <2>1. CASE j = n + 1
      BY <1>1, <1>7, <2>1 DEF StartAt
    <2>2. CASE j \in 1 .. n
      BY <1>1, <1>2, <1>3, <1>5, <1>7, <2>2 DEF Settled, StartAt
    <2>3. QED
      BY <1>4, <2>1, <2>2
  <1>8. TreeIn(longer, 1, n + 1) \/ table = <<>>
           \/ table[Len(table)][side].rt \in {NaN} \union more
    BY <1>2, <1>3, <1>6 DEF Settled
  <1>9. Settled(table, longer, side, n + 2, more)
    BY <1>3, <1>7, <1>8 DEF Settled
  <1>10. QED
    BY <1>9 DEF longer, n

\* A tree settles all starts before it.
LEMMA SettledByTree ==
  ASSUME NEW table, NEW queue \in Seq(Messages), NEW m \in Messages, NEW side, NEW cars,
         m.kind = "tree"
  PROVE  Settled(table, Append(queue, m), side, Len(queue) + 2, cars)
  <1> DEFINE longer == Append(queue, m)
             n == Len(queue)
  <1>1. n \in Nat /\ longer[n + 1] = m
    BY LenProperties, AppendProperties
  <1> HIDE DEF longer, n
  <1>2. (n + 2) - 1 = n + 1
    BY <1>1
  <1>3. ASSUME NEW j \in 1 .. (n + 1), StartAt(longer, j, side)
        PROVE  TreeIn(longer, j + 1, n + 1)
    <2>1. j # n + 1
      BY <1>1, <1>3 DEF StartAt
    <2>2. n + 1 \in (j + 1) .. (n + 1)
      BY <1>1, <2>1
    <2>3. QED
      BY <1>1, <2>2 DEF TreeIn
  <1>4. TreeIn(longer, 1, n + 1)
    <2>1. n + 1 \in 1 .. (n + 1)
      BY <1>1
    <2>2. QED
      BY <1>1, <2>1 DEF TreeIn
  <1>5. Settled(table, longer, side, n + 2, cars)
    BY <1>2, <1>3, <1>4 DEF Settled
  <1>6. QED
    BY <1>5 DEF longer, n

\* What handling a message does to the reaction in the last row.
TopAfter(old, new, m, side) ==
    \/ new = <<>>
    \/ new[Len(new)][side].rt = NaN
    \/ /\ m.kind # "tree" /\ old # <<>>
       /\ ~(m.kind = "rt" /\ m.side = side)
       /\ new[Len(new)][side].rt = old[Len(old)][side].rt
    \/ m.kind = "rt" /\ m.side = side /\ new[Len(new)][side].rt = m.car

\* The first message is handled.
LEMMA SettledTail ==
  ASSUME NEW old, NEW new, NEW queue \in Seq(Messages), queue # <<>>, NEW side, NEW cars,
         NEW k \in 1 .. Len(queue), Settled(old, queue, side, k + 1, cars),
         TopAfter(old, new, queue[1], side)
  PROVE  Settled(new, Tail(queue), side, k, cars)
  <1> DEFINE rest == Tail(queue)
             n == Len(queue)
  <1>1. n \in Nat /\ n > 0 /\ \A i \in 1 .. (n - 1) : rest[i] = queue[i + 1]
    BY LenProperties, HeadTailProperties, EmptySeq
  <1>2. k \in 1 .. n
    OBVIOUS
  <1> HIDE DEF rest, n
  <1>3. (k + 1) - 1 = k /\ k \in Nat
    BY <1>1, <1>2
  <1>4. /\ \A j \in 1 .. (k - 1) : j + 1 \in 1 .. k /\ rest[j] = queue[j + 1]
        /\ \A i \in 2 .. k : i - 1 \in 1 .. (k - 1) /\ (i - 1) + 1 = i
        /\ \A i \in 1 .. k : i = 1 \/ i \in 2 .. k
        /\ 1 \in 1 .. k /\ 1 + 1 = 2
    BY <1>1, <1>2
  <1>a. \A i \in 2 .. k : rest[i - 1] = queue[i]
    BY <1>4
  <1>5. ASSUME NEW j \in 1 .. (k - 1), TreeIn(queue, (j + 1) + 1, k)
        PROVE  TreeIn(rest, j + 1, k - 1)
    <2>1. PICK i \in ((j + 1) + 1) .. k : queue[i].kind = "tree"
      BY <1>5 DEF TreeIn
    <2>2. i - 1 \in (j + 1) .. (k - 1) /\ i \in 2 .. k
      BY <1>3, <2>1
    <2>3. rest[i - 1].kind = "tree"
      BY <1>a, <2>1, <2>2
    <2>4. QED
      BY <2>2, <2>3 DEF TreeIn
  <1>6. ASSUME TreeIn(queue, 2, k)
        PROVE  TreeIn(rest, 1, k - 1)
    <2>1. PICK i \in 2 .. k : queue[i].kind = "tree"
      BY <1>6 DEF TreeIn
    <2>2. i - 1 \in 1 .. (k - 1) /\ rest[i - 1].kind = "tree"
      BY <1>3, <1>a, <2>1
    <2>3. QED
      BY <2>2 DEF TreeIn
  <1>7. \A j \in 1 .. k : StartAt(queue, j, side) => TreeIn(queue, j + 1, k) \/ queue[j].car \in cars
    BY <1>3 DEF Settled
  <1>8. ASSUME NEW j \in 1 .. (k - 1), StartAt(rest, j, side)
        PROVE  TreeIn(rest, j + 1, k - 1) \/ rest[j].car \in cars
    <2>1. StartAt(queue, j + 1, side) /\ rest[j] = queue[j + 1] /\ j + 1 \in 1 .. k
      BY <1>4, <1>8 DEF StartAt
    <2>2. TreeIn(queue, (j + 1) + 1, k) \/ queue[j + 1].car \in cars
      BY <1>7, <2>1
    <2>3. QED
      BY <1>5, <2>1, <2>2
  <1>9. ASSUME ~TreeIn(queue, 2, k), new # <<>>
        PROVE  new[Len(new)][side].rt \in {NaN} \union cars
    <2>1. CASE queue[1].kind = "rt" /\ queue[1].side = side /\ new[Len(new)][side].rt = queue[1].car
      <3>1. queue[1].car \in cars
        BY <1>4, <1>7, <1>9, <2>1 DEF StartAt
      <3>2. QED
        BY <2>1, <3>1
    <2>2. CASE /\ queue[1].kind # "tree" /\ old # <<>>
               /\ new[Len(new)][side].rt = old[Len(old)][side].rt
      <3>1. ~TreeIn(queue, 1, k)
        BY <1>4, <1>9, <2>2 DEF TreeIn
      <3>2. QED
        BY <1>3, <2>2, <3>1 DEF Settled
    <2>3. QED
      BY <1>9, <2>1, <2>2 DEF TopAfter
  <1>10. TreeIn(rest, 1, k - 1) \/ new = <<>> \/ new[Len(new)][side].rt \in {NaN} \union cars
    BY <1>6, <1>9
  <1>11. QED
    BY <1>8, <1>10 DEF Settled, rest

LEMMA ToldSettles ==
  ASSUME IInv, TimerOK, NEW m \in Messages, Told(m), NEW side \in Sides, Settling(side)
  PROVE  Settling(side)'
  <1> DEFINE n == Len(line)
             cars == undone[side]
             more == undone'[side]
             lane == OnLane(side)
             now == OnLane(side)'
  <1>1. /\ line' = Append(line, m) /\ Passes(Lane(side), Lane(side)', m, side)
        /\ runs' = runs /\ cars \subseteq more
        /\ m.kind = "ds" /\ m.side = side => m.car \in more
        /\ m.kind # "tree" => m.car \in Cars
    BY DEF Told, Send, Moved, Elsewhere, model
  <1>2. /\ line \in Seq(Messages) /\ n \in Nat /\ Len(line') = n + 1
        /\ \A k \in 1 .. n : line'[k] = line[k]
        /\ line'[n + 1] = m
    BY <1>1, StateFacts, AppendProperties
  <1>3. /\ \A k \in 1 .. n : line[k].side = side /\ line[k].kind \in {"rt", "ds"}
              => Settled(runs, line, side, k, cars)
        /\ side \in ready => Settled(runs, line, side, n + 1, cars)
        /\ \A car \in lane : (\A c \in lane : c <= car) => Settled(runs, line, side, n + 1, cars \union {car})
    BY DEF Settling
  <1>4. /\ lane = Lane(side).open \union Lane(side).over
        /\ now = Lane(side)'.open \union Lane(side)'.over
        /\ Lane(side).ready <=> side \in ready
        /\ Lane(side)'.ready <=> side \in ready'
    BY DEF OnLane, Lane
  <1>5. /\ lane \in SUBSET Nat
        /\ \A c \in Lane(side).over, d \in Lane(side).open : c < d
        /\ Lane(side).open \in SUBSET Nat /\ Lane(side).over \in SUBSET Nat
    BY LaneFacts DEF TimerOK, Timed, OnLane, Lane
  <1>6. n = Len(line) /\ cars = undone[side] /\ more = undone'[side] /\ now = OnLane(side)'
    OBVIOUS
  <1> HIDE DEF n, cars, more, lane, now
  <1>7. CASE m.kind = "tree"
    <2>1. \A set : Settled(runs', line', side, (n + 1) + 1, set)
      <3>1. \A set : Settled(runs, Append(line, m), side, Len(line) + 2, set)
        BY <1>2, <1>7, SettledByTree
      <3>2. (n + 1) + 1 = n + 2
        BY <1>2
      <3>3. QED
        BY <1>1, <1>6, <3>1, <3>2
    <2>2. ASSUME NEW k \in 1 .. (n + 1), line'[k].side = side, line'[k].kind \in {"rt", "ds"}
          PROVE  Settled(runs', line', side, k, more)
      <3>1. k \in 1 .. n /\ line'[k] = line[k]
        BY <1>2, <1>7, <2>2
      <3>2. Settled(runs, line, side, k, cars)
        BY <1>3, <2>2, <3>1
      <3>3. k \in 1 .. (Len(line) + 1)
        BY <1>6, <3>1
      <3>4. QED
        BY <1>1, <1>2, <3>2, <3>3, SettledBefore
    <2>3. QED
      BY <1>2, <1>6, <2>1, <2>2 DEF Settling
  <1>8. CASE m.kind # "tree"
    <2>1. m.kind = "rt" /\ m.side = side => Lane(side).ready /\ Starts(Lane(side), Lane(side)', m.car)
      BY <1>1 DEF Passes, Starts
    <2>2. m.kind = "ds" /\ m.side = side => StartBack(Lane(side), Lane(side)', m.car)
      BY <1>1 DEF Passes
    <2>3. ASSUME m.kind = "ds", m.side = side
          PROVE  m.car \in lane /\ \A c \in lane : c <= m.car
      <3>1. m.car \in Lane(side).open /\ \A c \in Lane(side).open : c <= m.car
        BY <2>2, <2>3 DEF StartBack
      <3>2. \A c \in Lane(side).over : c <= m.car
        BY <1>5, <3>1
      <3>3. QED
        BY <1>4, <3>1, <3>2
    <2>4. m.side = side /\ m.kind \in {"rt", "ds"} => Settled(runs, line, side, n + 1, more)
      <3>1. CASE m.side = side /\ m.kind = "rt"
        <4>1. Settled(runs, line, side, n + 1, cars)
          BY <1>3, <1>4, <2>1, <3>1
        <4>2. QED
          BY <1>1, <4>1 DEF Settled
      <3>2. CASE m.side = side /\ m.kind = "ds"
        <4>1. Settled(runs, line, side, n + 1, cars \union {m.car})
          BY <1>3, <2>3, <3>2
        <4>2. cars \union {m.car} \subseteq more
          BY <1>1, <3>2
        <4>3. QED
          BY <4>1, <4>2 DEF Settled
      <3>3. QED
        BY <3>1, <3>2
    <2>5. ASSUME NEW k \in 1 .. (n + 1), line'[k].side = side, line'[k].kind \in {"rt", "ds"}
          PROVE  Settled(runs', line', side, k, more)
      <3>1. CASE k = n + 1
        <4>1. Settled(runs, line, side, n + 1, more)
          BY <1>2, <2>4, <2>5, <3>1
        <4>2. n + 1 \in 1 .. (Len(line) + 1)
          BY <1>2, <1>6
        <4>3. QED
          BY <1>1, <1>2, <3>1, <4>1, <4>2, SettledBefore
      <3>2. CASE k # n + 1
        <4>1. k \in 1 .. n /\ line'[k] = line[k]
          BY <1>2, <3>2
        <4>2. Settled(runs, line, side, k, cars)
          BY <1>3, <2>5, <4>1
        <4>3. k \in 1 .. (Len(line) + 1)
          BY <1>6, <4>1
        <4>4. QED
          BY <1>1, <1>2, <4>2, <4>3, SettledBefore
      <3>3. QED
        BY <3>1, <3>2
    <2>6. ASSUME NEW old, NEW set, Settled(runs, line, side, n + 1, old), old \subseteq set,
                 m.kind = "rt" /\ m.side = side => m.car \in set
          PROVE  Settled(runs', line', side, (n + 1) + 1, set)
      <3>1. Settled(runs, Append(line, m), side, Len(line) + 2, set)
        BY <1>2, <1>6, <2>6, SettledAfter
      <3>2. (n + 1) + 1 = n + 2
        BY <1>2
      <3>3. QED
        BY <1>1, <1>6, <3>1, <3>2
    <2>7. ASSUME side \in ready'
          PROVE  Settled(runs', line', side, (n + 1) + 1, more)
      <3>1. ~(m.kind = "rt" /\ m.side = side)
        BY <1>4, <2>1, <2>7 DEF Starts
      <3>2. side \in ready
        BY <1>1, <1>4, <1>8, <2>7, <3>1
           DEF Passes, PassesSixty, Finishes, StartBack, FinishBack
      <3>3. Settled(runs, line, side, n + 1, cars)
        BY <1>3, <3>2
      <3>4. QED
        BY <1>1, <2>6, <3>1, <3>3
    <2>8. ASSUME NEW car \in now, \A c \in now : c <= car
          PROVE  Settled(runs', line', side, (n + 1) + 1, more \union {car})
      <3>1. CASE m.kind = "rt" /\ m.side = side
        <4>1. /\ \A c \in lane : c < m.car
              /\ now = lane \union {m.car}
          BY <1>4, <2>1, <3>1 DEF Starts
        <4>2. car = m.car
          <5>1. m.car \in Nat /\ m.car <= car
            BY <1>1, <1>8, <2>8, <4>1, CarFacts
          <5>2. car \in lane => car < m.car /\ car \in Nat
            BY <1>5, <4>1
          <5>3. QED
            BY <2>8, <4>1, <5>1, <5>2
        <4>3. Settled(runs, line, side, n + 1, cars)
          BY <1>3, <1>4, <2>1, <3>1
        <4>4. cars \subseteq more \union {car} /\ m.car \in more \union {car}
          BY <1>1, <4>2
        <4>5. QED
          BY <2>6, <4>3, <4>4
      <3>2. CASE m.kind = "ds" /\ m.side = side
        <4>1. Settled(runs, line, side, n + 1, cars \union {m.car})
          BY <1>3, <2>3, <3>2
        <4>2. cars \union {m.car} \subseteq more \union {car}
          BY <1>1, <3>2
        <4>3. QED
          BY <2>6, <3>2, <4>1, <4>2
      <3>3. CASE m.side = side => m.kind \notin {"rt", "ds"}
        <4>1. now = lane
          BY <1>1, <1>4, <1>8, <3>3 DEF Passes, PassesSixty, Finishes, FinishBack
        <4>2. Settled(runs, line, side, n + 1, cars \union {car})
          BY <1>3, <2>8, <4>1
        <4>3. cars \union {car} \subseteq more \union {car}
          BY <1>1
        <4>4. QED
          BY <2>6, <3>3, <4>2, <4>3
      <3>4. QED
        BY <3>1, <3>2, <3>3
    <2>9. QED
      BY <1>2, <1>6, <2>5, <2>7, <2>8 DEF Settling
  <1>9. QED
    BY <1>7, <1>8

\* The starts and the red lights of a lane stay as they are.
StartsStand(side) ==
    /\ Len(runs') = Len(runs)
    /\ \A i \in 1 .. Len(runs) : /\ runs'[i][side].rt = runs[i][side].rt
                                 /\ runs'[i][side].red = runs[i][side].red

\* What a message does to the starts of a lane.
StartsAfter(m, side) ==
    \/ m.kind = "tree" /\ Entered
    \/ m.kind # "tree" /\ ~(m.kind = "rt" /\ m.side = side) /\ StartsStand(side)
    \/ m.kind = "rt" /\ m.side = side /\ runs = <<>> /\ runs' = runs
    \/ /\ m.kind = "rt" /\ m.side = side /\ runs # <<>> /\ Others(Len(runs), side)
       /\ runs'[Len(runs)][side].rt = m.car
       /\ runs'[Len(runs)][side].red \in {m.car, runs[Len(runs)][side].red}
    \/ m.kind = "ds" /\ m.side = side /\ StartDeleted(side)

LEMMA StandBeside ==
  ASSUME NEW side \in Sides, NEW s \in Sides, NEW r \in 1 .. Len(runs), Others(r, s),
         s # side \/ (/\ runs'[r][s].rt = runs[r][s].rt
                      /\ runs'[r][s].red = runs[r][s].red)
  PROVE  StartsStand(side)
  BY DEF Others, StartsStand

LEMMA HandledStarts ==
  ASSUME IInv, line # <<>>, Handled(Head(line)), NEW side \in Sides
  PROVE  line[1] \in Messages /\ StartsAfter(line[1], side)
  <1>1. PICK m \in Messages :
          /\ m = Head(line) /\ m = line[1] /\ m.side \in Sides /\ m.red \in BOOLEAN
          /\ m.kind # "tree" => m.car \in Cars
          /\ m.kind \in Kinds
          /\ m.kind = "tree" => runs' = CreateNewEntry /\ UNCHANGED nextFinish
          /\ m.kind = "rt" => AddReaction(m.side, m.car, m.red)
          /\ m.kind = "sixty" => AddSixty(m.side, m.car)
          /\ m.kind = "fin" => AddFinish(m.side, m.car)
          /\ m.kind = "ds" => DeleteStart(m.side)
          /\ m.kind = "df" => DeleteFinish(m.side)
    BY HandledAs
  <1>2. ModelOK /\ Len(runs) \in Nat /\ (runs # <<>> => Len(runs) \in 1 .. Len(runs))
    BY StateFacts, RowFacts DEF IInv
  <1>3. runs' = runs => StartsStand(side)
    BY DEF StartsStand
  <1>4. CASE m.kind = "tree"
    BY <1>1, <1>2, <1>4, EntryRow DEF StartsAfter
  <1>5. CASE m.kind = "rt"
    <2>1. CASE runs = <<>>
      <3>1. runs' = runs
        BY <1>1, <1>5, <2>1 DEF AddReaction
      <3>2. QED
        BY <1>1, <1>3, <1>5, <2>1, <3>1 DEF StartsAfter
    <2>2. CASE runs # <<>>
      <3>1. /\ Others(Len(runs), m.side)
            /\ runs'[Len(runs)][m.side].rt = m.car
            /\ runs'[Len(runs)][m.side].red \in {m.car, runs[Len(runs)][m.side].red}
        BY <1>1, <1>2, <1>5, <2>2, ReactionRow
      <3>2. m.side # side => StartsStand(side)
        BY <1>1, <1>2, <2>2, <3>1, StandBeside
      <3>3. QED
        BY <1>1, <1>5, <2>2, <3>1, <3>2 DEF StartsAfter
    <2>3. QED
      BY <2>1, <2>2
  <1>6. CASE m.kind = "sixty"
    <2>1. StartsStand(side)
      <3>1. CASE runs = <<>>
        BY <1>1, <1>3, <1>6, <3>1 DEF AddSixty
      <3>2. CASE runs # <<>>
        <4>1. /\ Others(Len(runs), m.side)
              /\ runs'[Len(runs)][m.side].rt = runs[Len(runs)][m.side].rt
              /\ runs'[Len(runs)][m.side].red = runs[Len(runs)][m.side].red
          BY <1>1, <1>2, <1>6, <3>2, SixtyRow
        <4>2. QED
          BY <1>1, <1>2, <3>2, <4>1, StandBeside
      <3>3. QED
        BY <3>1, <3>2
    <2>2. QED
      BY <1>1, <1>6, <2>1 DEF StartsAfter
  <1>7. CASE m.kind = "fin"
    <2>1. runs' = runs \/ \E r \in 1 .. Len(runs) : FinishAdded(m.side, m.car, r)
      BY <1>1, <1>2, <1>7, AddFinishRow
    <2>2. ASSUME NEW r \in 1 .. Len(runs), FinishAdded(m.side, m.car, r)
          PROVE  StartsStand(side)
      BY <1>1, <2>2, StandBeside DEF FinishAdded
    <2>3. QED
      BY <1>1, <1>3, <1>7, <2>1, <2>2 DEF StartsAfter
  <1>8. CASE m.kind = "ds"
    <2>1. runs' = runs \/ StartDeleted(m.side)
      BY <1>1, <1>2, <1>8, DeleteStartRow
    <2>2. ASSUME StartDeleted(m.side), m.side # side
          PROVE  StartsStand(side)
      BY <1>1, <1>2, <2>2, StandBeside DEF StartDeleted
    <2>3. QED
      BY <1>1, <1>3, <1>8, <2>1, <2>2 DEF StartsAfter
  <1>9. CASE m.kind = "df"
    <2>1. runs' = runs \/ \E r \in 1 .. Len(runs) : FinishDeleted(m.side, r)
      BY <1>1, <1>2, <1>9, DeleteFinishRow DEF model
    <2>2. ASSUME NEW r \in 1 .. Len(runs), FinishDeleted(m.side, r)
          PROVE  StartsStand(side)
      BY <1>1, <2>2, StandBeside DEF FinishDeleted
    <2>3. QED
      BY <1>1, <1>3, <1>9, <2>1, <2>2 DEF StartsAfter
  <1>10. QED
    BY <1>1, <1>4, <1>5, <1>6, <1>7, <1>8, <1>9 DEF Kinds

LEMMA TopIsAfter ==
  ASSUME IInv, NEW side \in Sides, NEW m, StartsAfter(m, side)
  PROVE  TopAfter(runs, runs', m, side)
  <1>1. ModelOK /\ Len(runs) \in Nat /\ (runs # <<>> <=> Len(runs) > 0)
    BY StateFacts, RowFacts DEF IInv
  <1>2. CASE m.kind = "tree" /\ Entered
    BY <1>2 DEF Entered, TopAfter
  <1>3. CASE m.kind # "tree" /\ ~(m.kind = "rt" /\ m.side = side) /\ StartsStand(side)
    <2>1. CASE runs = <<>>
      BY <1>1, <1>3, <2>1 DEF StartsStand, TopAfter
    <2>2. CASE runs # <<>>
      <3>1. Len(runs) \in 1 .. Len(runs)
        BY <1>1, <2>2
      <3>2. QED
        BY <1>3, <2>2, <3>1 DEF StartsStand, TopAfter
    <2>3. QED
      BY <2>1, <2>2
  <1>4. CASE m.kind = "rt" /\ m.side = side /\ runs = <<>> /\ runs' = runs
    BY <1>4 DEF TopAfter
  <1>5. CASE /\ m.kind = "rt" /\ m.side = side /\ runs # <<>> /\ Others(Len(runs), side)
             /\ runs'[Len(runs)][side].rt = m.car
    BY <1>5 DEF TopAfter, Others
  <1>6. CASE m.kind = "ds" /\ m.side = side /\ StartDeleted(side)
    BY <1>6 DEF TopAfter, StartDeleted, Others
  <1>7. QED
    BY <1>2, <1>3, <1>4, <1>5, <1>6 DEF StartsAfter

\* A start is handled, or taken back, only when the car that the last row
\* had before has left it for good.
LEMMA EventReds ==
  ASSUME IInv, Event, NEW side \in Sides, RedsOwn(side), Settling(side)
  PROVE  RedsOwn(side)'
  <1>1. /\ line # <<>> /\ Handled(Head(line)) /\ undone' = undone
        /\ Len(line) \in Nat /\ 1 \in 1 .. Len(line)
    BY StateFacts, EmptySeq DEF Event, timer
  <1>2. PICK m \in Messages : m = line[1] /\ StartsAfter(m, side)
    BY <1>1, HandledStarts
  <1>3. /\ Len(runs) \in Nat /\ (runs # <<>> => Len(runs) \in 1 .. Len(runs))
        /\ \A i \in 1 .. Len(runs) : runs[i][side].red \in {NaN, runs[i][side].rt} \union undone[side]
    BY StateFacts, RowFacts DEF RedsOwn
  <1>4. ASSUME m.kind \in {"rt", "ds"}, m.side = side, runs # <<>>
        PROVE  runs[Len(runs)][side].red \in {NaN} \union undone[side]
    <2>1. Settled(runs, line, side, 1, undone[side])
      BY <1>1, <1>2, <1>4 DEF Settling
    <2>2. ~TreeIn(line, 1, 1 - 1)
      BY DEF TreeIn
    <2>3. runs[Len(runs)][side].rt \in {NaN} \union undone[side]
      BY <1>4, <2>1, <2>2 DEF Settled
    <2>4. QED
      BY <1>3, <1>4, <2>3
  <1>5. CASE m.kind = "tree" /\ Entered
    <2>1. Len(runs') \in {Len(runs), Len(runs) + 1} /\ \A i \in 1 .. Len(runs) : runs'[i] = runs[i]
      BY <1>5 DEF Entered
    <2>2. Len(runs') > Len(runs) => runs'[Len(runs')][side].red = NaN
      BY <1>5 DEF Entered, DualResult, Result
    <2>3. \A i \in 1 .. Len(runs') : i \in 1 .. Len(runs) \/ (i = Len(runs') /\ Len(runs') > Len(runs))
      BY <1>3, <2>1
    <2>4. QED
      BY <1>1, <1>3, <2>1, <2>2, <2>3 DEF RedsOwn
  <1>6. CASE StartsStand(side)
    BY <1>1, <1>3, <1>6 DEF StartsStand, RedsOwn
  <1>7. CASE runs' = runs
    BY <1>1, <1>3, <1>7 DEF RedsOwn
  <1>8. CASE /\ m.kind = "rt" /\ m.side = side /\ runs # <<>> /\ Others(Len(runs), side)
             /\ runs'[Len(runs)][side].rt = m.car
             /\ runs'[Len(runs)][side].red \in {m.car, runs[Len(runs)][side].red}
    <2>1. runs'[Len(runs)][side].red \in {NaN, runs'[Len(runs)][side].rt} \union undone[side]
      BY <1>4, <1>8
    <2>2. Len(runs') = Len(runs)
          /\ \A i \in 1 .. Len(runs) : i # Len(runs) => runs'[i][side] = runs[i][side]
      BY <1>8 DEF Others
    <2>3. QED
      BY <1>1, <1>3, <2>1, <2>2 DEF RedsOwn
  <1>9. CASE m.kind = "ds" /\ m.side = side /\ StartDeleted(side)
    <2>1. /\ runs # <<>> /\ Others(Len(runs), side)
          /\ runs'[Len(runs)][side].red = runs[Len(runs)][side].red
      BY <1>9 DEF StartDeleted
    <2>2. runs'[Len(runs)][side].red \in {NaN} \union undone[side]
      BY <1>4, <1>9, <2>1
    <2>3. Len(runs') = Len(runs)
          /\ \A i \in 1 .. Len(runs) : i # Len(runs) => runs'[i][side] = runs[i][side]
      BY <2>1 DEF Others
    <2>4. QED
      BY <1>1, <1>3, <2>2, <2>3 DEF RedsOwn
  <1>10. QED
    BY <1>2, <1>5, <1>6, <1>7, <1>8, <1>9 DEF StartsAfter

LEMMA EventSettles ==
  ASSUME IInv, Event, NEW side \in Sides, Settling(side)
  PROVE  Settling(side)'
  <1> DEFINE n == Len(line)
             rest == Tail(line)
  <1>1. /\ line # <<>> /\ Handled(Head(line)) /\ line' = rest
        /\ undone' = undone /\ ready' = ready /\ course' = course /\ over' = over
    BY DEF Event, timer
  <1>2. /\ line \in Seq(Messages) /\ n \in Nat /\ n > 0 /\ Len(rest) = n - 1
        /\ \A k \in 1 .. (n - 1) : rest[k] = line[k + 1]
    BY <1>1, StateFacts, HeadTailProperties, EmptySeq
  <1>3. TopAfter(runs, runs', line[1], side)
    BY <1>1, HandledStarts, TopIsAfter
  <1>4. \A k \in 1 .. n : \A cars :
           Settled(runs, line, side, k + 1, cars) => Settled(runs', line', side, k, cars)
    BY <1>1, <1>2, <1>3, SettledTail
  <1>5. OnLane(side)' = OnLane(side)
    BY <1>1 DEF OnLane
  <1>6. /\ \A k \in 1 .. n : line[k].side = side /\ line[k].kind \in {"rt", "ds"}
              => Settled(runs, line, side, k, undone[side])
        /\ side \in ready => Settled(runs, line, side, n + 1, undone[side])
        /\ \A car \in OnLane(side) : (\A c \in OnLane(side) : c <= car)
              => Settled(runs, line, side, n + 1, undone[side] \union {car})
    BY DEF Settling
  <1> DEFINE cars == undone[side]
             lane == OnLane(side)
  <1>7. Len(line') = n - 1 /\ cars = undone[side] /\ cars = undone'[side]
        /\ lane = OnLane(side) /\ lane = OnLane(side)'
    BY <1>1, <1>2, <1>5
  <1>8. \A k \in 1 .. (n - 1) : line'[k] = line[k + 1]
    BY <1>1, <1>2
  <1> HIDE DEF n, rest, cars, lane
  <1>9. ASSUME NEW k \in 1 .. (n - 1), line'[k].side = side, line'[k].kind \in {"rt", "ds"}
        PROVE  Settled(runs', line', side, k, cars)
    <2>1. k \in 1 .. n /\ k + 1 \in 1 .. n /\ line'[k] = line[k + 1]
      BY <1>2, <1>8
    <2>2. Settled(runs, line, side, k + 1, cars)
      BY <1>6, <1>7, <1>9, <2>1
    <2>3. QED
      BY <1>4, <2>1, <2>2
  <1>10. \A set : Settled(runs, line, side, n + 1, set) => Settled(runs', line', side, (n - 1) + 1, set)
    <2>1. n \in 1 .. n /\ (n - 1) + 1 = n
      BY <1>2
    <2>2. QED
      BY <1>4, <2>1
  <1>11. side \in ready' => Settled(runs', line', side, (n - 1) + 1, cars)
    BY <1>1, <1>6, <1>7, <1>10
  <1>12. \A car \in lane : (\A c \in lane : c <= car)
           => Settled(runs', line', side, (n - 1) + 1, cars \union {car})
    BY <1>6, <1>7, <1>10
  <1>13. QED
    BY <1>7, <1>9, <1>11, <1>12 DEF Settling

\* The last row after a reset is empty: what is settled then, is settled by
\* the trees that are under way.
LEMMA ResetReds ==
  ASSUME IInv, Reset, NEW side \in Sides, RedsOwn(side), Settling(side)
  PROVE  RedsOwn(side)' /\ Settling(side)'
  <1>1. /\ runs' = CreateNewEntry /\ line' = line /\ undone' = undone /\ ready' = {}
        /\ course' = [s \in Sides |-> <<>>] /\ over' = [s \in Sides |-> <<>>]
    BY DEF Reset, ResetRows
  <1>2. Entered /\ Len(runs) \in Nat
    BY <1>1, StateFacts, EntryRow, RowFacts DEF IInv
  <1>3. \A i \in 1 .. Len(runs) : runs[i][side].red \in {NaN, runs[i][side].rt} \union undone[side]
    BY DEF RedsOwn
  <1>4. RedsOwn(side)'
    <2>1. Len(runs') \in {Len(runs), Len(runs) + 1} /\ \A i \in 1 .. Len(runs) : runs'[i] = runs[i]
      BY <1>2 DEF Entered
    <2>2. Len(runs') > Len(runs) => runs'[Len(runs')][side].red = NaN
      BY <1>2 DEF Entered, DualResult, Result
    <2>3. \A i \in 1 .. Len(runs') : i \in 1 .. Len(runs) \/ (i = Len(runs') /\ Len(runs') > Len(runs))
      BY <1>2, <2>1
    <2>4. QED
      BY <1>1, <1>3, <2>1, <2>2, <2>3 DEF RedsOwn
  <1>5. OnLane(side)' = {}
    BY <1>1, NoValues DEF OnLane
  <1>6. \A k \in 1 .. Len(line) :
           Settled(runs, line, side, k, undone[side]) => Settled(runs', line, side, k, undone[side])
    BY <1>2 DEF Settled, Entered
  <1>7. Settling(side)'
    BY <1>1, <1>5, <1>6 DEF Settling
  <1>8. QED
    BY <1>4, <1>7

\* Without rows and messages everything is settled.
LEMMA NothingSettled ==
  ASSUME NEW side \in Sides, runs = <<>>, line = <<>>
  PROVE  RedsOwn(side) /\ Settling(side)
  <1>1. Len(runs) = 0 /\ Len(line) = 0
    BY EmptySeq
  <1>2. \A cars : Settled(runs, line, side, Len(line) + 1, cars)
    BY <1>1 DEF Settled
  <1>3. QED
    BY <1>1, <1>2 DEF RedsOwn, Settling

LEMMA RestartSettled ==
  ASSUME Restart, NEW side \in Sides
  PROVE  RedsOwn(side)' /\ Settling(side)'
  <1>1. runs' = <<>> /\ line' = <<>>
    BY DEF Restart
  <1>2. Len(runs') = 0 /\ Len(line') = 0
    BY <1>1, EmptySeq
  <1>3. \A cars : Settled(runs', line', side, Len(line') + 1, cars)
    BY <1>1, <1>2 DEF Settled
  <1>4. QED
    BY <1>2, <1>3 DEF RedsOwn, Settling

LEMMA RedsKept ==
  ASSUME RInv, [Next]_vars
  PROVE  RInv'
  <1>1. AInv /\ IInv /\ TimerOK /\ \A side \in Sides : RedsOwn(side) /\ Settling(side)
    BY DEF RInv, AInv
  <1>2. AInv'
    BY <1>1, AgreementKept
  <1>3. ASSUME NEW side \in Sides
        PROVE  RedsOwn(side)' /\ Settling(side)'
    <2>1. CASE TimerActs
      <3>1. PICK m \in Messages : Told(m)
        BY <1>1, <2>1, TimerTells
      <3>2. runs' = runs /\ undone[side] \subseteq undone'[side]
        BY <3>1 DEF Told, Elsewhere, model
      <3>3. RedsOwn(side)'
        BY <1>1, <3>2 DEF RedsOwn
      <3>4. QED
        BY <1>1, <3>1, <3>3, ToldSettles
    <2>2. CASE Event
      BY <1>1, <2>2, EventReds, EventSettles
    <2>3. CASE Reset
      BY <1>1, <2>3, ResetReds
    <2>4. CASE Restart
      BY <2>4, RestartSettled
    <2>5. CASE UNCHANGED vars
      <3>1. UNCHANGED <<runs, line, course, over, ready, undone>>
        BY <2>5 DEF vars, model, timer
      <3>2. RedsOwn(side) /\ Settling(side)
        BY <1>1
      <3>3. QED
        BY <3>1, <3>2 DEF RedsOwn, Settling, OnLane
    <2>6. QED
      BY <2>1, <2>2, <2>3, <2>4, <2>5, NextIs
  <1>4. QED
    BY <1>2, <1>3 DEF RInv

LEMMA OwnRows ==
  ASSUME RInv
  PROVE  RowsAreOwn
  <1>1. IInv /\ Agreement /\ \A side \in Sides : RedsOwn(side)
    BY DEF RInv, AInv
  <1>2. ASSUME NEW side \in Sides, ~astray[side], NEW i \in since[side] .. Len(runs)
        PROVE  /\ runs[i][side].finish # NaN => /\ runs[i][side].finish = runs[i][side].rt
                                                /\ runs[i][side].sixty = runs[i][side].rt
               /\ runs[i][side].red \in {NaN, runs[i][side].rt} \union undone[side]
    <2>1. PICK view : InStep(runs, nextFinish, since[side], side, view[0])
      BY <1>1, <1>2 DEF Agreement, Agreed
    <2>2. Sound(Column(runs, side), Len(runs), since[side])
      BY <2>1 DEF InStep, Own
    <2>3. /\ since[side] \in Nat \ {0} /\ Len(runs) \in Nat
          /\ \A j \in 1 .. Len(runs) : Column(runs, side)[j] = runs[j][side]
      BY <1>1, ColumnFacts DEF Columns
    <2>4. i \in 1 .. Len(runs)
      BY <1>2, <2>3
    <2>5. Column(runs, side)[i] = runs[i][side]
      BY <2>3, <2>4
    <2>6. QED
      BY <1>1, <1>2, <2>2, <2>4, <2>5 DEF Sound, RedsOwn
  <1>3. QED
    BY <1>2 DEF RowsAreOwn

\* The times beside a finish are of one car, whatever was taken back, however
\* far one lane is ahead of the other and whichever lane was empty; a red
\* light can also be left from a car whose start was taken back.
THEOREM RowsOwned == Spec => []RowsAreOwn
  <1>1. Init => RInv
    <2>1. Init => AInv
      BY InitAgrees
    <2>2. Init => \A side \in Sides : RedsOwn(side) /\ Settling(side)
      BY NothingSettled DEF Init
    <2>3. QED
      BY <2>1, <2>2 DEF RInv
  <1>2. RInv /\ [Next]_vars => RInv'
    BY RedsKept
  <1>3. RInv => RowsAreOwn
    BY OwnRows
  <1>4. QED
    BY <1>1, <1>2, <1>3, PTL DEF Spec
=============================================================================
