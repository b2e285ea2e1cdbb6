------------------------------ MODULE ProTimer ------------------------------
(***************************************************************************)
(* The ProTimer program: two lanes of a ProSolo.  The timer, a device on a *)
(* serial line, sends a line of text when the tree comes down, for the     *)
(* reaction, the sixty foot time and the finish of a car, and when a start *)
(* or a finish was taken back.  None of these says which car it is about:  *)
(* ResultsModel keeps a row for each tree and gives a time to the row that *)
(* it works out.                                                           *)
(*                                                                         *)
(* The model numbers the cars of each lane in the order of their starts,   *)
(* and puts the number where the program puts a time.                      *)
(***************************************************************************)
EXTENDS Integers, Sequences, FiniteSets

CONSTANTS
    MaxStarts,   \* bound on the starts of a lane
    MaxLine,     \* bound on messages under way
    MaxActs      \* bound on what the operator does

ASSUME ProTimerAssumption == MaxStarts \in Nat /\ MaxLine \in Nat /\ MaxActs \in Nat

Sides == {"left", "right"}
Cars == 1 .. MaxStarts
NaN == 0         \* Double.NaN: no car

VARIABLES
    runs,         \* ResultsModel.runs: one row per tree
    nextFinish,   \* nextLeftFinish and nextRightFinish, counted from 1
    line,         \* messages of the timer that were not handled yet
    ready,        \* the timer: lanes of the last tree that did not start yet
    started,      \* the timer: number of starts
    launched,     \* the timer: the car that is between start and sixty feet
    course,       \* the timer: cars without a finish, in their order
    over,         \* the timer: cars with a finish
    undone,       \* history: cars whose start was taken back
    astray,       \* history: program and timer may disagree until the next reset
    since,        \* history: the first row since program and timer agree
    acts          \* how often the operator did something (for MaxActs)

model == <<runs, nextFinish>>
timer == <<ready, started, launched, course, over, undone>>
vars == <<model, line, timer, astray, since, acts>>

Results == [rt : Cars \union {NaN}, sixty : Cars \union {NaN}, finish : Cars \union {NaN},
            red : Cars \union {NaN}]
Kinds == {"tree", "rt", "sixty", "fin", "ds", "df"}
Messages == [kind : Kinds, side : Sides, car : Cars \union {NaN}, red : BOOLEAN]

Message(kind, side, car, red) == [kind |-> kind, side |-> side, car |-> car, red |-> red]
Front(queue) == SubSeq(queue, 1, Len(queue) - 1)
Last(queue) == queue[Len(queue)]

-----------------------------------------------------------------------------
(* ResultsModel.  In the table, red is the car that put the state of a     *)
(* result to REDLIGHT or NOTSTAGED.                                        *)

Result == [rt |-> NaN, sixty |-> NaN, finish |-> NaN, red |-> NaN]
DualResult == [side \in Sides |-> Result]

\* A row in which nobody started yet is used again.
CreateNewEntry ==
    IF runs # <<>> /\ \A side \in Sides : Last(runs)[side].rt = NaN
    THEN runs ELSE Append(runs, DualResult)

\* Reactions and sixty foot times go to the last row; without one the
\* handler ends with an exception.  A state is set, and never set back.
AddReaction(side, car, red) ==
    /\ runs' = IF runs = <<>> THEN runs
               ELSE [runs EXCEPT ![Len(runs)][side].rt = car,
                                 ![Len(runs)][side].red = IF red THEN car ELSE @]
    /\ UNCHANGED nextFinish

AddSixty(side, car) ==
    /\ runs' = IF runs = <<>> THEN runs ELSE [runs EXCEPT ![Len(runs)][side].sixty = car]
    /\ UNCHANGED nextFinish

\* Mutant: the search goes past the last row.
AddFinishPast(side, car) ==
    LET waiting == {i \in nextFinish[side] .. Len(runs) : runs[i][side].rt # NaN}
        row == CHOOSE i \in waiting : \A j \in waiting : i <= j
    IN  IF waiting = {}
        THEN /\ UNCHANGED runs
             /\ nextFinish' = [nextFinish EXCEPT ![side] = Len(runs) + 2]
        ELSE /\ runs' = [runs EXCEPT ![row][side].finish = car]
             /\ nextFinish' = [nextFinish EXCEPT ![side] = row + 1]

\* Mutant: the next finish goes to the same row.
AddFinishStays(side, car) ==
    LET waiting == {i \in nextFinish[side] .. Len(runs) : runs[i][side].rt # NaN}
        row == CHOOSE i \in waiting : \A j \in waiting : i <= j
    IN  IF waiting = {}
        THEN /\ UNCHANGED runs
             /\ nextFinish' = [nextFinish EXCEPT ![side] = Len(runs) + 1]
        ELSE /\ runs' = [runs EXCEPT ![row][side].finish = car]
             /\ nextFinish' = [nextFinish EXCEPT ![side] = row]

\* Mutant: rows in which the lane was empty are not passed over.
AddFinishHere(side, car) ==
    LET row == nextFinish[side]
    IN  IF row > Len(runs) THEN UNCHANGED model
        ELSE /\ runs' = [runs EXCEPT ![row][side].finish = car]
             /\ nextFinish' = [nextFinish EXCEPT ![side] = row + 1]

\* A finish goes to the next row with a reaction in its lane.  When there is
\* none, the search has run past the last row and stays there.
AddFinish(side, car) ==
    LET waiting == {i \in nextFinish[side] .. Len(runs) : runs[i][side].rt # NaN}
        row == CHOOSE i \in waiting : \A j \in waiting : i <= j
    IN  IF waiting = {}
        THEN /\ UNCHANGED runs
             /\ nextFinish' = [nextFinish EXCEPT ![side] = Len(runs) + 1]
        ELSE /\ runs' = [runs EXCEPT ![row][side].finish = car]
             /\ nextFinish' = [nextFinish EXCEPT ![side] = row + 1]

\* Only the row before the next one is looked at.
DeleteFinish(side) ==
    LET row == nextFinish[side] - 1
    IN  IF row = 0 THEN UNCHANGED model
        ELSE IF runs[row][side].finish = NaN THEN UNCHANGED model
        ELSE /\ runs' = [runs EXCEPT ![row][side].finish = NaN]
             /\ nextFinish' = [nextFinish EXCEPT ![side] = row]

\* Mutant: the reaction is kept.
DeleteStartSixty(side) ==
    /\ runs' = IF runs = <<>> THEN runs ELSE [runs EXCEPT ![Len(runs)][side].sixty = NaN]
    /\ UNCHANGED nextFinish

\* Only the last row is looked at, and its state stays.
DeleteStart(side) ==
    /\ runs' = IF runs # <<>> /\ Last(runs)[side].rt # NaN /\ Last(runs)[side].finish = NaN
               THEN [runs EXCEPT ![Len(runs)][side].rt = NaN, ![Len(runs)][side].sixty = NaN]
               ELSE runs
    /\ UNCHANGED nextFinish

\* Mutant: the lanes begin at the first row again.
ResetToFirst == runs' = CreateNewEntry /\ nextFinish' = [side \in Sides |-> 1]

\* INPUT_RESET_SOFT, INPUT_RESET_HARD.
ResetRows ==
    /\ runs' = CreateNewEntry
    /\ nextFinish' = [side \in Sides |-> Len(runs')]

Handled(m) ==
    CASE m.kind = "tree" -> runs' = CreateNewEntry /\ UNCHANGED nextFinish
      [] m.kind = "rt" -> AddReaction(m.side, m.car, m.red)
      [] m.kind = "sixty" -> AddSixty(m.side, m.car)
      [] m.kind = "fin" -> AddFinish(m.side, m.car)
      [] m.kind = "ds" -> DeleteStart(m.side)
      [] m.kind = "df" -> DeleteFinish(m.side)

\* What cannot be found: a start that is not in the last row, and a finish
\* above which there is a row that its lane sat out.
Unfound(m) ==
    \/ m.kind = "ds" /\ (runs = <<>> \/ Last(runs)[m.side].rt = NaN)
    \/ /\ m.kind = "df"
       /\ nextFinish[m.side] = 1 \/ runs[nextFinish[m.side] - 1][m.side].rt = NaN

-----------------------------------------------------------------------------
(* The timer, and the line to the program.                                 *)

Init ==
    /\ runs = <<>> /\ nextFinish = [side \in Sides |-> 1]
    /\ line = <<>> /\ ready = {} /\ acts = 0
    /\ started = [side \in Sides |-> 0] /\ launched = [side \in Sides |-> NaN]
    /\ course = [side \in Sides |-> <<>>] /\ over = [side \in Sides |-> <<>>]
    /\ undone = [side \in Sides |-> {}]
    /\ astray = [side \in Sides |-> FALSE] /\ since = [side \in Sides |-> 1]

Send(m) == Len(line) < MaxLine /\ line' = Append(line, m)
Elsewhere == UNCHANGED <<model, astray, since>>

\* The tree comes down when the cars before have left the start.
Tree ==
    /\ \A side \in Sides : launched[side] = NaN
    /\ \E side \in Sides : started[side] < MaxStarts
    /\ Send(Message("tree", "left", NaN, FALSE))
    /\ ready' = Sides
    /\ Elsewhere /\ UNCHANGED <<started, launched, course, over, undone, acts>>

Start(side, red) ==
    LET car == started[side] + 1
    IN  /\ side \in ready /\ car \in Cars
        /\ Send(Message("rt", side, car, red))
        /\ ready' = ready \ {side}
        /\ started' = [started EXCEPT ![side] = car]
        /\ launched' = [launched EXCEPT ![side] = car]
        /\ course' = [course EXCEPT ![side] = Append(@, car)]
        /\ Elsewhere /\ UNCHANGED <<over, undone, acts>>

Sixty(side) ==
    /\ launched[side] # NaN
    /\ Send(Message("sixty", side, launched[side], FALSE))
    /\ launched' = [launched EXCEPT ![side] = NaN]
    /\ Elsewhere /\ UNCHANGED <<ready, started, course, over, undone, acts>>

Finish(side) ==
    /\ course[side] # <<>> /\ launched[side] # Head(course[side])
    /\ Send(Message("fin", side, Head(course[side]), FALSE))
    /\ course' = [course EXCEPT ![side] = Tail(@)]
    /\ over' = [over EXCEPT ![side] = Append(@, Head(course[side]))]
    /\ Elsewhere /\ UNCHANGED <<ready, started, launched, undone, acts>>

Act == acts < MaxActs /\ acts' = acts + 1

\* The operator has the last start of a lane taken back.
TakeBackStart(side) ==
    /\ course[side] # <<>> /\ Act
    /\ LET car == Last(course[side])
       IN  /\ Send(Message("ds", side, car, FALSE))
           /\ launched' = [launched EXCEPT ![side] = IF @ = car THEN NaN ELSE @]
           /\ undone' = [undone EXCEPT ![side] = @ \union {car}]
    /\ course' = [course EXCEPT ![side] = Front(@)]
    /\ Elsewhere /\ UNCHANGED <<ready, started, over>>

\* ... or the last finish: its car is on the course again.
TakeBackFinish(side) ==
    /\ over[side] # <<>> /\ Act
    /\ Send(Message("df", side, Last(over[side]), FALSE))
    /\ course' = [course EXCEPT ![side] = <<Last(over[side])>> \o @]
    /\ over' = [over EXCEPT ![side] = Front(@)]
    /\ Elsewhere /\ UNCHANGED <<ready, started, launched, undone>>

Event ==
    /\ line # <<>>
    /\ line' = Tail(line)
    /\ Handled(Head(line))
    /\ astray' = [astray EXCEPT ![Head(line).side] = @ \/ Unfound(Head(line))]
    /\ UNCHANGED <<timer, since, acts>>

\* The program changes its rows and sends the command to the timer, which
\* forgets its cars.  Messages that were under way are handled afterwards.
Reset ==
    /\ Act
    /\ ResetRows
    /\ ready' = {} /\ launched' = [side \in Sides |-> NaN]
    /\ course' = [side \in Sides |-> <<>>] /\ over' = [side \in Sides |-> <<>>]
    /\ astray' = [side \in Sides |-> \E i \in DOMAIN line : line[i].side = side]
    /\ since' = [side \in Sides |-> Len(runs')]
    /\ UNCHANGED <<line, started, undone>>

\* The program ends and is started again: rows and messages are gone.
Restart ==
    /\ Act
    /\ runs' = <<>> /\ nextFinish' = [side \in Sides |-> 1] /\ line' = <<>>
    /\ astray' = [side \in Sides |-> course[side] # <<>> \/ side \in ready]
    /\ since' = [side \in Sides |-> 1]
    /\ UNCHANGED timer

Next ==
    \/ Tree
    \/ \E side \in Sides : \/ \E red \in BOOLEAN : Start(side, red)
                           \/ Sixty(side) \/ Finish(side)
                           \/ TakeBackStart(side) \/ TakeBackFinish(side)
    \/ Event \/ Reset \/ Restart

Spec == Init /\ [][Next]_vars

-----------------------------------------------------------------------------

TypeOK ==
    /\ runs \in Seq([Sides -> Results])
    /\ nextFinish \in [Sides -> Nat \ {0}]
    /\ \A side \in Sides : nextFinish[side] <= Len(runs) + 1
    /\ line \in Seq(Messages) /\ Len(line) <= MaxLine
    /\ ready \subseteq Sides /\ started \in [Sides -> 0 .. MaxStarts]
    /\ launched \in [Sides -> Cars \union {NaN}]
    /\ course \in [Sides -> Seq(Cars)] /\ over \in [Sides -> Seq(Cars)]
    /\ undone \in [Sides -> SUBSET Cars]
    /\ astray \in [Sides -> BOOLEAN] /\ since \in [Sides -> Nat \ {0}] /\ acts \in 0 .. MaxActs

\* The times beside a finish are of one car, whatever was taken back, however
\* far one lane is ahead of the other and whichever lane was empty; a red
\* light can also be left from a car whose start was taken back.
RowsAreOwn == \A side \in Sides : ~astray[side] => \A i \in since[side] .. Len(runs) :
    LET row == runs[i][side]
    IN  /\ row.finish # NaN => row.finish = row.rt /\ row.sixty = row.rt
        /\ row.red \in {NaN, row.rt} \union undone[side]

\* When everything the timer said was handled, the rows that wait for a
\* finish are those of the cars on the course, in their order; a reset makes
\* up for what the program could not find.
InOrder(rows) == CHOOSE list \in [1 .. Cardinality(rows) -> rows] :
    /\ \A m, n \in DOMAIN list : m < n => list[m] < list[n]
    /\ \A i \in rows : \E n \in DOMAIN list : list[n] = i
WaitingRows(side) == {i \in nextFinish[side] .. Len(runs) : runs[i][side].rt # NaN}
Waiting(side) == LET list == InOrder(WaitingRows(side))
                 IN  [n \in DOMAIN list |-> runs[list[n]][side].rt]
CourseIsKnown == \A side \in Sides :
    line = <<>> /\ ~astray[side] => Waiting(side) = course[side]

\* Every finish stands before the row that the next one goes to, in a row
\* that has a reaction: no finish is written over another one.
NothingAhead == \A side \in Sides, i \in DOMAIN runs :
    runs[i][side].finish # NaN => i < nextFinish[side] /\ runs[i][side].rt # NaN

\* To those who listen, each lane is a timer as RunSource describes it, also
\* when program and timer disagree.
FinishedRows(side) == {i \in DOMAIN runs : runs[i][side].finish # NaN}
FinishedRuns(side) == LET list == InOrder(FinishedRows(side))
                      IN  [n \in DOMAIN list |-> runs[list[n]][side].finish]
Left == INSTANCE RunSource WITH finished <- FinishedRuns("left")
Right == INSTANCE RunSource WITH finished <- FinishedRuns("right")
LanesAreSources == Left!Spec /\ Right!Spec
=============================================================================
