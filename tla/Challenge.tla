----------------------------- MODULE Challenge -----------------------------
(***************************************************************************)
(* The challenge of a ProSolo: a bracket of rounds in which two cars run   *)
(* against each other, one on each course, and then change courses.        *)
(* ChallengeModel keeps the rounds in memory and writes every change to    *)
(* the series database; the timer's runs go to the targets that the        *)
(* operator staged; the winner of a round moves on with a new dialin.      *)
(*                                                                         *)
(* Every handler runs on the Swing event thread and is one step.  What     *)
(* others see are the database rows: the application when it starts again, *)
(* and the web server, which works out the winner a second time.           *)
(***************************************************************************)
EXTENDS Integers, Sequences

CONSTANTS
    Rounds,      \* the rounds of the challenge: 0 .. size - 1, and 99
    Contested,   \* the rounds whose places the operator changes
    Opened,      \* the rounds that he stages and whose runs he corrects
    Cars,
    None,        \* no car yet: NULL in the database
    Nullid,      \* IdGenerator.nullid: the car was taken out
    NoRun,       \* a run that is not there
    Times,       \* raw times of the timer, in units fine enough for dialins
    Typed,       \* raw times that the operator types
    Cones,       \* penalties (gates cost more and are handled in the same way)
    Statuses,    \* of a run
    ConePenalty,
    Dials,       \* dialins of the cars that the operator puts into the bracket
    MaxRuns,     \* bound on runs that are taken and corrected
    MaxMoves,    \* bound on what else the operator does
    MaxTargets   \* bound on the targets of a course when a round is staged

NaN == -1        \* Double.NaN
Missing == 999   \* 999.999, the time of what has no time

ASSUME ChallengeAssumption ==
    /\ Rounds \subseteq Nat /\ 0 \in Rounds /\ 99 \in Rounds
    /\ \A r \in Rounds \ {99} : r \div 2 \in Rounds
    /\ Contested \subseteq Rounds \ {0} /\ Opened \subseteq Rounds \ {0}
    /\ "OK" \in Statuses /\ Statuses \subseteq {"OK", "RL", "NS", "DNF"}
    /\ None # Nullid /\ {None, Nullid} \intersect Cars = {}
    /\ Times \subseteq Nat /\ Typed \subseteq Nat /\ Cones \subseteq Nat /\ 0 \in Cones /\ Dials \subseteq Nat
    /\ ConePenalty \in Nat /\ MaxRuns \in Nat /\ MaxMoves \in Nat /\ MaxTargets \in Nat

Levels == {"upper", "lower"}
Sides == {"left", "right"}
Places == Cars \union {None, Nullid}
Runs == [car : Places, raw : Times \union Typed \union {NaN}, cones : Cones, status : Statuses]
Entries == [car : Places, dial : Int, left : Runs \union {NoRun}, right : Runs \union {NoRun}]
ChallengeRounds == [swapped : BOOLEAN, upper : Entries, lower : Entries]
EntryColumns == [car : Places, dial : Int]
RoundColumns == [swapped : BOOLEAN, upper : EntryColumns, lower : EntryColumns]
OpenedTargets == [round : Opened, level : Levels, side : Sides]

ASSUME NoRunAssumption == NoRun \notin Runs

VARIABLES
    rounds,       \* ChallengeModel.rounds
    stored,       \* the tables challengerounds and challengeruns
    targets,      \* leftTargets and rightTargets
    done,         \* how many runs and moves there were (for MaxRuns and MaxMoves)
    mixed,        \* history: rounds in which a car was replaced although runs exist
    parted        \* history: a single target was taken out of the queues

vars == <<rounds, stored, targets, done, mixed, parted>>

Other(level) == IF level = "upper" THEN "lower" ELSE "upper"
Across(side) == IF side = "left" THEN "right" ELSE "left"

-----------------------------------------------------------------------------
(* Id and ChallengeRound. *)

Target(r, level, side) == [round |-> r, level |-> level, side |-> side]

\* Where the winner of a round goes.
AdvancesTo(r) == IF r = 99 THEN [round |-> 0, level |-> "lower"]
                 ELSE [round |-> r \div 2, level |-> IF r % 2 # 0 THEN "upper" ELSE "lower"]

\* The losers of the semifinals meet in round 99.
HasThird(r) == r \in {2, 3}
AdvanceThird(r) == [round |-> 99, level |-> IF r = 2 THEN "lower" ELSE "upper"]

\* getState: which of the four runs have a time.
Timed(round) == {p \in Levels \X Sides :
                    round[p[1]][p[2]] # NoRun /\ round[p[1]][p[2]].raw # NaN}
HalfNormal(round) == Timed(round) = {<<"upper", "left">>, <<"lower", "right">>}
HalfInverse(round) == Timed(round) = {<<"upper", "right">>, <<"lower", "left">>}
Done(round) == Timed(round) = Levels \X Sides

\* applyRun: a run belongs to the first entry that has its car.
ApplyRun(round, side, run) ==
    IF run.car = None THEN round
    ELSE IF round.upper.car = run.car THEN [round EXCEPT !.upper[side] = run]
    ELSE IF round.lower.car = run.car THEN [round EXCEPT !.lower[side] = run]
    ELSE round

StatusLevel(run) == IF run.status \in {"RL", "NS"} THEN 2
                    ELSE IF run.status = "DNF" THEN 1 ELSE 0

-----------------------------------------------------------------------------
(* The database.  A statement that breaks a constraint fails, is logged,   *)
(* and changes nothing: a car id must be NULL or the id of a car, and a    *)
(* run has a car.                                                          *)

Columns(round) == [swapped |-> round.swapped,
                   upper |-> [car |-> round.upper.car, dial |-> round.upper.dial],
                   lower |-> [car |-> round.lower.car, dial |-> round.lower.dial]]

\* updateChallengeRound.
UpdateRound(db, r, round) ==
    IF Nullid \in {round.upper.car, round.lower.car} THEN db
    ELSE [db EXCEPT !.rounds[r] = Columns(round)]

\* setChallengeRun: insert, or update on conflict.
SetChallengeRun(db, r, side, run) ==
    IF run.car \in Cars THEN [db EXCEPT !.runs[<<r, run.car, side>>] = run] ELSE db

\* deleteChallengeRun.
DeleteRun(db, r, side, run) ==
    IF run # NoRun /\ run.car \in Cars
    THEN [db EXCEPT !.runs[<<r, run.car, side>>] = NoRun] ELSE db

\* loadEventData: the rounds and the runs that belong to a car of theirs;
\* swappedstart is not read.
LoadedRun(db, r, car, side) == IF r \in Opened /\ car \in Cars THEN db.runs[<<r, car, side>>] ELSE NoRun
LoadedRound(db, r) ==
    LET columns == db.rounds[r]
        twice == columns.lower.car = columns.upper.car
        lower(side) == IF twice THEN NoRun ELSE LoadedRun(db, r, columns.lower.car, side)
    IN  [swapped |-> FALSE,
         upper |-> [car |-> columns.upper.car, dial |-> columns.upper.dial,
                    left |-> LoadedRun(db, r, columns.upper.car, "left"),
                    right |-> LoadedRun(db, r, columns.upper.car, "right")],
         lower |-> [car |-> columns.lower.car, dial |-> columns.lower.dial,
                    left |-> lower("left"), right |-> lower("right")]]

-----------------------------------------------------------------------------
(* Results. *)

\* Mutant: the penalties of a run are forgotten.
RawOnly(run) == run.raw

PenSum(run) == run.raw + ConePenalty * run.cones

Complete(entry) == entry.left # NoRun /\ entry.right # NoRun
Counts(entry) == Complete(entry) /\ NaN \notin {entry.left.raw, entry.right.raw}
Total(entry) == PenSum(entry.left) + PenSum(entry.right)
Result(entry) == Total(entry) - 2 * entry.dial

\* getNewDial: who was faster than the dialin gets half as much again off it.
\* Nothing compares with NaN.
NewDial(entry) ==
    IF Counts(entry) /\ Total(entry) < 2 * entry.dial
    THEN entry.dial - (3 * (2 * entry.dial - Total(entry))) \div 4
    ELSE entry.dial

\* checkForWinner: the level of the car that wins, if one does.
Worse(round, level, side) ==
    StatusLevel(round[level][side]) > StatusLevel(round[Other(level)][Across(side)])
Level(entry) == StatusLevel(entry.left) + StatusLevel(entry.right)

Winner(round) ==
    CASE HalfNormal(round) -> IF Worse(round, "lower", "right") THEN "upper"
                              ELSE IF Worse(round, "upper", "left") THEN "lower" ELSE "nobody"
      [] HalfInverse(round) -> IF Worse(round, "lower", "left") THEN "lower"
                               ELSE IF Worse(round, "upper", "right") THEN "upper" ELSE "nobody"
      [] Done(round) ->
           IF Level(round.upper) > 1 /\ Level(round.lower) > 1 THEN "nobody"
           ELSE IF Level(round.upper) > 0 THEN "lower"
           ELSE IF Level(round.lower) > 0 THEN "upper"
           ELSE IF Result(round.upper) < Result(round.lower) THEN "upper"
           ELSE IF Result(round.lower) < Result(round.upper) THEN "lower" ELSE "nobody"
      [] OTHER -> "nobody"

\* Memory and database together, as a handler changes them.
State == [rounds |-> rounds, db |-> stored]

\* A place of the bracket is given to a car, and its round is stored.
SetTo(s, place, car, dial) ==
    LET round == [s.rounds[place.round] EXCEPT ![place.level].car = car,
                                               ![place.level].dial = dial]
    IN  [rounds |-> [s.rounds EXCEPT ![place.round] = round],
         db |-> UpdateRound(s.db, place.round, round)]

\* An entry goes on with a new dialin.  Without both runs getNewDial meets a
\* null, and the exception ends the handler.
Advance(s, place, entry) ==
    IF Complete(entry) THEN SetTo(s, place, entry.car, NewDial(entry)) ELSE s

\* Mutant: the third place round is filled once.
CheckForWinnerOnce(s, r) ==
    LET round == s.rounds[r]
        winner == Winner(round)
        checked == [s EXCEPT !.db = UpdateRound(s.db, r, round)]
        advanced == Advance(checked, AdvancesTo(r), round[winner])
        third == AdvanceThird(r)
    IN  IF winner = "nobody" THEN checked
        ELSE IF HasThird(r) /\ Complete(round[winner]) /\ s.rounds[99][third.level].car = None
        THEN Advance(advanced, third, round[Other(winner)])
        ELSE advanced

CheckForWinner(s, r) ==
    LET round == s.rounds[r]
        winner == Winner(round)
        checked == [s EXCEPT !.db = UpdateRound(s.db, r, round)]
        advanced == Advance(checked, AdvancesTo(r), round[winner])
    IN  IF winner = "nobody" THEN checked
        ELSE IF HasThird(r) /\ Complete(round[winner])
        THEN Advance(advanced, AdvanceThird(r), round[Other(winner)])
        ELSE advanced

\* A run is made or changed, stored, and the round is looked at.
Changed(s, r, side, run) ==
    [rounds |-> s.rounds, db |-> SetChallengeRun(s.db, r, side, run)]
NewRun(s, t, run) ==
    Changed([s EXCEPT !.rounds[t.round] = ApplyRun(@, t.side, run)], t.round, t.side, run)
\* Mutant: a run that is changed is not stored again.
EditRunUnstored(s, t, run) == [s EXCEPT !.rounds[t.round][t.level][t.side] = run]

EditRun(s, t, run) ==
    Changed([s EXCEPT !.rounds[t.round][t.level][t.side] = run], t.round, t.side, run)

-----------------------------------------------------------------------------

OfRounds(some) == [round : some, level : Levels]
NoEntry == [car |-> None, dial |-> Missing, left |-> NoRun, right |-> NoRun]
NoRound == [swapped |-> FALSE, upper |-> NoEntry, lower |-> NoEntry]

\* A new challenge: the rounds are there, nobody is in them.
Init ==
    /\ rounds = [r \in Rounds |-> NoRound]
    /\ stored = [rounds |-> [r \in Rounds |-> Columns(NoRound)],
                 runs |-> [key \in Opened \X Cars \X Sides |-> NoRun]]
    /\ targets = [side \in Sides |-> <<>>]
    /\ done = [runs |-> 0, moves |-> 0] /\ mixed = {} /\ parted = FALSE

HasRuns(round, db, r) ==
    \/ \E level \in Levels, side \in Sides : round[level][side] # NoRun
    \/ r \in Opened /\ \E car \in Cars, side \in Sides : db.runs[<<r, car, side>>] # NoRun
SameCars(one, two) == \A level \in Levels : one[level].car = two[level].car

\* The step of a handler that ends in s.
Become(s) ==
    /\ rounds' = s.rounds /\ stored' = s.db
    /\ mixed' = mixed \union {r \in Rounds : /\ ~SameCars(rounds[r], s.rounds[r])
                                             /\ HasRuns(rounds[r], stored, r)}

\* What leaves everything as it was is not counted.
Count(what, bound) == done[what] < bound /\ done' = [done EXCEPT ![what] = @ + 1]
Counted(s, what, bound) ==
    done[what] < bound /\ done' = IF s = State THEN done ELSE [done EXCEPT ![what] = @ + 1]
Run(s) == Counted(s, "runs", MaxRuns) /\ Become(s)
Move(s) == Counted(s, "moves", MaxMoves) /\ Become(s)

\* Mutant: both courses begin with the same car.
StagedAlike(r, topleft) ==
    LET first == IF topleft THEN "upper" ELSE "lower"
    IN  [left |-> <<Target(r, first, "left"), Target(r, Other(first), "left")>>,
         right |-> <<Target(r, first, "right"), Target(r, Other(first), "right")>>]

\* Queues of targets.  Staged(r, topleft): the entry at the left start first.
Staged(r, topleft) ==
    LET first == IF topleft THEN "upper" ELSE "lower"
    IN  [left |-> <<Target(r, first, "left"), Target(r, Other(first), "left")>>,
         right |-> <<Target(r, Other(first), "right"), Target(r, first, "right")>>]

\* makeActive: only the left queue is asked whether to start afresh.
Activated(t) ==
    LET more == Staged(t.round, (t.level = "upper") <=> (t.side = "left"))
        kept == IF Len(targets.left) > 1 THEN [side \in Sides |-> <<>>] ELSE targets
    IN  [side \in Sides |-> kept[side] \o more[side]]

Activate(t) ==
    /\ \A side \in Sides : Len(targets[side]) <= MaxTargets
    /\ Count("moves", MaxMoves)
    /\ targets' = Activated(t)
    /\ UNCHANGED <<rounds, stored, mixed>>
    /\ parted' = (parted /\ Len(targets.left) <= 1)

\* The Stage button also sends the dialins to the timer.  (A timer is
\* connected; without one the button does nothing and no runs come.)
Stage(r) == Activate(Target(r, "upper", IF rounds[r].swapped THEN "right" ELSE "left"))

\* LinkedList.remove takes out the first that is equal.
Without(queue, t) ==
    LET at == CHOOSE i \in DOMAIN queue : queue[i] = t /\ \A j \in 1 .. i - 1 : queue[j] # t
    IN  SubSeq(queue, 1, at - 1) \o SubSeq(queue, at + 1, Len(queue))

Deactivate(t) ==
    /\ \E i \in DOMAIN targets[t.side] : targets[t.side][i] = t
    /\ targets' = [targets EXCEPT ![t.side] = Without(@, t)]
    /\ parted' = TRUE
    /\ UNCHANGED <<rounds, stored, done, mixed>>

\* setRun: the run of the timer goes to the first target of its course, and a
\* run with a time takes that target away and may end the round.  Without a
\* target the handler fails and nothing changes.
TimerRun(side, raw, status) ==
    /\ targets[side] # <<>>
    /\ LET t == Head(targets[side])
           entry == rounds[t.round][t.level]
           new == [car |-> entry.car, raw |-> raw, cones |-> 0, status |-> status]
           s == IF entry[side] = NoRun THEN NewRun(State, t, new)
                ELSE EditRun(State, t, [entry[side] EXCEPT !.raw = raw, !.status = status])
       IN  IF raw = 0
           THEN Run(s) /\ UNCHANGED targets
           ELSE Run(CheckForWinner(s, t.round)) /\ targets' = [targets EXCEPT ![side] = Tail(@)]
    /\ UNCHANGED parted

\* setTime: typed by the operator; an emptied field is NaN.
SetTime(t, raw) ==
    /\ LET entry == rounds[t.round][t.level]
           new == [car |-> entry.car, raw |-> raw, cones |-> 0, status |-> "OK"]
           s == IF entry[t.side] = NoRun THEN NewRun(State, t, new)
                ELSE EditRun(State, t, [entry[t.side] EXCEPT !.raw = raw])
       IN  Run(CheckForWinner(s, t.round))
    /\ UNCHANGED <<targets, parted>>

\* setCones, setGates and setStatus change a run that is there, and look at
\* the round in any case.
Correct(t, corrected(_)) ==
    /\ LET run == rounds[t.round][t.level][t.side]
           s == IF run = NoRun THEN State ELSE EditRun(State, t, corrected(run))
       IN  Run(CheckForWinner(s, t.round))
    /\ UNCHANGED <<targets, parted>>

SetCones(t, cones) == Correct(t, LAMBDA run : [run EXCEPT !.cones = cones])

SetStatus(t, status) == Correct(t, LAMBDA run : [run EXCEPT !.status = status])

\* setEntrant: a car is dropped on a place, or dragged out of it.
SetEntrant(place, car, dial) ==
    /\ Move(SetTo(State, place, car, dial))
    /\ UNCHANGED <<targets, parted>>
RemoveEntrant(place) == SetEntrant(place, Nullid, 0)

\* Two places of different rounds at one depth change their cars.
Depth(r) == CASE r < 2 -> 1 [] r \in 2 .. 3 -> 2 [] r \in 4 .. 7 -> 3
              [] r \in 8 .. 15 -> 4 [] r \in 16 .. 31 -> 5 [] OTHER -> 6
SwapEntrants(one, two) ==
    LET a == rounds[one.round][one.level]
        b == rounds[two.round][two.level]
        car(entry) == IF entry.car = None THEN Nullid ELSE entry.car
        dial(entry) == IF entry.car \in Cars THEN entry.dial ELSE 0
    IN  /\ a.car \in Cars /\ one.round # two.round /\ Depth(one.round) = Depth(two.round)
        /\ Move(SetTo(SetTo(State, one, car(b), dial(b)), two, a.car, a.dial))
        /\ UNCHANGED <<targets, parted>>

\* setEntrants: the bracket is filled from the list of entrants, in one transaction.
Preload ==
    /\ rounds = [r \in Rounds |-> NoRound]
    /\ \E cars \in [OfRounds(Opened) -> Cars], dials \in [Cars -> Dials] :
         LET car(r, level) == cars[[round |-> r, level |-> level]]
             entry(r, level) ==
                 IF r \in Opened
                 THEN [NoEntry EXCEPT !.car = car(r, level), !.dial = dials[car(r, level)]]
                 ELSE NoEntry
             filled(r) == [NoRound EXCEPT !.upper = entry(r, "upper"), !.lower = entry(r, "lower")]
         IN  /\ \A p, q \in OfRounds(Opened) : cars[p] = cars[q] => p = q
             /\ Become([rounds |-> [r \in Rounds |-> filled(r)],
                        db |-> [stored EXCEPT !.rounds =
                                   [r \in Rounds |-> IF r \in Opened THEN Columns(filled(r)) ELSE @[r]]]])
    /\ UNCHANGED <<targets, done, parted>>

OverrideDial(place, dial) == SetEntrant(place, rounds[place.round][place.level].car, dial)

\* AUTO_WIN, which needs both runs as well.
AutoWin(place) ==
    /\ Move(Advance(State, AdvancesTo(place.round), rounds[place.round][place.level]))
    /\ UNCHANGED <<targets, parted>>

\* resetRound: the runs of both entries are deleted.
ResetRound(r) ==
    LET round == rounds[r]
        cleared == [level \in Levels |-> [round[level] EXCEPT !.left = NoRun, !.right = NoRun]]
        next == [round EXCEPT !.upper = cleared["upper"], !.lower = cleared["lower"]]
        without(db, level) == DeleteRun(DeleteRun(db, r, "left", round[level].left),
                                        r, "right", round[level].right)
    IN  /\ Run([rounds |-> [rounds EXCEPT ![r] = next],
                   db |-> UpdateRound(without(without(stored, "upper"), "lower"), r, next)])
        /\ UNCHANGED <<targets, parted>>

\* The Swapped Start box changes the round in memory only.
SwapStart(r) ==
    /\ Move([State EXCEPT !.rounds[r].swapped = ~@])
    /\ UNCHANGED <<targets, parted>>

\* EVENT_CHANGED and NEW_CHALLENGE read everything again; the targets stay.
Reload ==
    /\ Move([rounds |-> [r \in Rounds |-> LoadedRound(stored, r)], db |-> stored])
    /\ UNCHANGED <<targets, parted>>

\* The application ends, at any time, and is started again.
Restart ==
    /\ Move([rounds |-> [r \in Rounds |-> LoadedRound(stored, r)], db |-> stored])
    /\ targets' = [side \in Sides |-> <<>>]
    /\ parted' = FALSE

-----------------------------------------------------------------------------

Staging == \/ \E r \in Opened : Stage(r) \/ SwapStart(r)
           \/ \E t \in OpenedTargets : Activate(t) \/ Deactivate(t)

Running == \/ \E side \in Sides, raw \in Times, status \in Statuses \ {"DNF"} : TimerRun(side, raw, status)
           \/ \E t \in OpenedTargets :
                 \/ \E raw \in Typed \union {NaN} : SetTime(t, raw)
                 \/ \E cones \in Cones : SetCones(t, cones)
                 \/ \E status \in Statuses : SetStatus(t, status)
           \/ \E r \in Opened : ResetRound(r)

Seeding == \/ Preload
           \/ \E place \in OfRounds(Contested) :
                 \/ \E car \in Cars, dial \in Dials : SetEntrant(place, car, dial)
                 \/ \E dial \in Dials : OverrideDial(place, dial)
                 \/ RemoveEntrant(place) \/ AutoWin(place)
           \/ \E one, two \in OfRounds(Contested) : SwapEntrants(one, two)

Next == Staging \/ Running \/ Seeding \/ Reload \/ Restart

Spec == Init /\ [][Next]_vars

-----------------------------------------------------------------------------
(* The web server's view of a round (result.py). *)

WebPenalty == 2
WebNet(run) == IF run.status = "OK" /\ run.raw + WebPenalty * run.cones # 0
               THEN run.raw + WebPenalty * run.cones ELSE Missing
WebResult(entry) == WebNet(entry.left) + WebNet(entry.right) - 2 * entry.dial
WebNewDial(entry) == IF WebResult(entry) < 0
                     THEN entry.dial - (3 * (0 - WebResult(entry))) \div 4 ELSE entry.dial

AtFault(round, level, side) == round[level][side] # NoRun /\ round[level][side].status # "OK"
Has(round, level, side) == round[level][side] # NoRun

\* A round of which every run is in; the first run at fault decides.
WebWinner(round) ==
    IF AtFault(round, "upper", "left") THEN "lower"
    ELSE IF AtFault(round, "lower", "right") THEN "upper"
    ELSE IF AtFault(round, "upper", "right") THEN "lower"
    ELSE IF AtFault(round, "lower", "left") THEN "upper"
    ELSE IF WebResult(round.upper) < WebResult(round.lower) THEN "upper"
    ELSE IF WebResult(round.lower) < WebResult(round.upper) THEN "lower" ELSE "nobody"

-----------------------------------------------------------------------------

TypeOK ==
    /\ rounds \in [Rounds -> ChallengeRounds]
    /\ stored \in [rounds : [Rounds -> RoundColumns],
                   runs : [Opened \X Cars \X Sides -> Runs \union {NoRun}]]
    /\ targets \in [Sides -> Seq(OpenedTargets)]
    /\ parted \in BOOLEAN
    /\ done \in [runs : 0 .. MaxRuns, moves : 0 .. MaxMoves] /\ mixed \subseteq Rounds

\* What is read from the database is what the operator sees: an application
\* that is started again shows every round as it was.  Except for the swapped
\* start, for a round from which a car was taken out and not replaced (the
\* database refuses that), and for one whose cars changed while it had runs.
Settled(r) == r \notin mixed /\ Nullid \notin {rounds[r].upper.car, rounds[r].lower.car}
RestartKeeps == \A r \in Rounds : Settled(r) =>
    LoadedRound(stored, r) = [rounds[r] EXCEPT !.swapped = FALSE]

\* While nobody takes single targets out, the two courses wait for the two
\* cars of one round, counted from the ends of the queues, however far one
\* course is ahead of the other.
CoursesOppose == parted \/ \A i \in 0 .. Len(targets.left) - 1 : i < Len(targets.right) =>
    LET l == targets.left[Len(targets.left) - i]
        r == targets.right[Len(targets.right) - i]
    IN  l.round = r.round /\ l.level # r.level

\* A step that leaves all four runs of a round with times and changes one.
Fair(round) ==
    /\ Done(round)
    /\ \A level \in Levels, side \in Sides : round[level][side].raw > 0
    /\ \E level \in Levels : Level(round[level]) = 0
RunsOf(round) == [level \in Levels |-> <<round[level].left, round[level].right>>]
Finishes(r) == Fair(rounds'[r]) /\ RunsOf(rounds[r]) # RunsOf(rounds'[r])
At(bracket, place) == bracket[place.round][place.level]

\* Whatever the order in which runs arrive and are corrected, the car that
\* stands in the next round is the winner that the web server shows, with the
\* new dialin it shows; after a tie the next round is left alone.
ResultStands == [][\A r \in Contested : Finishes(r) /\ Settled(r)' =>
    LET shown == LoadedRound(stored', r)
        winner == WebWinner(shown)
        next == At(rounds', AdvancesTo(r))
    IN  IF winner = "nobody" THEN next = At(rounds, AdvancesTo(r))
        ELSE /\ next.car = shown[winner].car
             /\ (Level(shown.upper) + Level(shown.lower) = 0)
                   => next.dial = WebNewDial(shown[winner])]_vars

\* Whoever does not go to the final of the two cars of a semifinal goes to
\* the third place round, also when the result of the semifinal is corrected.
\* (A round whose cars changed under their runs is not looked at: runs of a
\* car that was taken out can come back when everything is read again, and
\* reading works out no winner.)
SemifinalSplits == [][\A r \in Contested :
    HasThird(r) /\ Finishes(r) /\ r \notin mixed' /\ Winner(rounds'[r]) # "nobody" =>
    /\ At(rounds', AdvancesTo(r)).car = rounds'[r][Winner(rounds'[r])].car
    /\ At(rounds', AdvanceThird(r)).car = rounds'[r][Other(Winner(rounds'[r]))].car]_vars
=============================================================================
