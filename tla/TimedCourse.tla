----------------------------- MODULE TimedCourse ----------------------------
(***************************************************************************)
(* The BWTimer at an event: cars on the course trip its lights in the      *)
(* order they started, lights trip for no reason, and the operator         *)
(* corrects what he sees.  A car is named by the stamp of its start; stamps*)
(* grow with every hit.  What is assumed of the operator: he deletes a     *)
(* false start or finish before the next hit of that light and before he   *)
(* does anything else, deletes the start of the last car to start if it    *)
(* stops on the course, fakes the finish of another one when its turn has  *)
(* come, and resets the timer when the course is empty.                    *)
(***************************************************************************)
EXTENDS TimerModel, SequencesExt

CONSTANT MaxTime  \* bound on hits and updates

ASSUME TimeAssumption == MaxTime \in Nat

VARIABLES
    who,      \* who[t]: the car behind the stamp t, 0 if none
    course,   \* cars on the course, first to start first
    phantom,  \* the light that has tripped for no reason and waits for correction
    flawed    \* since the last reset a segment light has failed, a car was
              \* overtaken, a false finish was taken or a start was deleted

vars == <<timerVars, who, course, phantom, flawed>>

now == Len(who)
Cars == [car : Nat, next : Nat, stopped : BOOLEAN]

Init == /\ lights \in LightCounts
        /\ timestamps = [s \in Sensors |-> <<>>]
        /\ lasttick = 0
        /\ who = <<>> /\ course = <<>> /\ phantom = "none" /\ flawed = FALSE

Hit(sensor, car) ==
    /\ now < MaxTime
    /\ who' = Append(who, car)
    /\ Event(sensor, now + 1)

-----------------------------------------------------------------------------
(* The course. *)

CarStarts ==
    /\ phantom # "start"
    /\ Hit(0, now + 1)
    /\ course' = Append(course, [car |-> now + 1, next |-> 1, stopped |-> FALSE])
    /\ UNCHANGED <<phantom, flawed>>

\* A car passes a segment light, which may miss it.  Only a car that stopped
\* before the light is overtaken.
CarPasses(i, sensor, seen) ==
    LET ahead == {j \in 1..(i - 1) : course[j].next <= sensor}
    IN  /\ ~course[i].stopped /\ course[i].next = sensor
        /\ \A j \in ahead : course[j].stopped
        /\ course' = [course EXCEPT ![i].next = @ + 1]
        /\ IF seen THEN Hit(sensor, course[i].car) ELSE UNCHANGED <<timerVars, who>>
        /\ flawed' = (flawed \/ ~seen \/ ahead # {})
        /\ UNCHANGED phantom

CarFinishes ==
    /\ course # <<>> /\ ~course[1].stopped /\ course[1].next = finish
    /\ phantom # "finish"
    /\ Hit(finish, course[1].car)
    /\ course' = Tail(course)
    /\ UNCHANGED <<phantom, flawed>>

\* A car leaves the course, or the finish light misses it.
CarStops(i) ==
    /\ ~course[i].stopped
    /\ course' = [course EXCEPT ![i].stopped = TRUE]
    /\ UNCHANGED <<timerVars, who, phantom, flawed>>

\* A light trips for no reason, maybe one that is wired but not used.
FalseHit(sensor) ==
    /\ phantom = "none"
    /\ Hit(sensor, 0)
    /\ phantom' = IF sensor = 0 THEN "start"
                  ELSE IF sensor = finish /\ course # <<>> THEN "finish"
                  ELSE "none"
    /\ flawed' = (flawed \/ sensor \in Inner \/ phantom' = "finish")
    /\ UNCHANGED course

Tick ==
    /\ now < MaxTime
    /\ who' = Append(who, 0)
    /\ UpdateRunningTimers(now + 1)
    /\ UNCHANGED <<course, phantom, flawed>>

-----------------------------------------------------------------------------
(* The operator. *)

PressDeleteStart ==
    /\ \/ phantom = "start" /\ UNCHANGED course
       \/ phantom = "none" /\ course # <<>> /\ Last(course).stopped
          /\ course' = Front(course)
    /\ DeleteStart
    /\ phantom' = "none" /\ flawed' = TRUE
    /\ UNCHANGED who

PressDeleteFinish ==
    /\ phantom = "finish"
    /\ DeleteFinish
    /\ phantom' = "none"
    /\ UNCHANGED <<who, course, flawed>>

PressFakeFinish ==
    /\ phantom = "none"
    /\ course # <<>> /\ course[1].stopped
    /\ FakeFinish
    /\ course' = Tail(course)
    /\ UNCHANGED <<who, phantom, flawed>>

PressReset(count) ==
    /\ phantom = "none" /\ course = <<>>
    /\ SetLights(count)
    /\ flawed' = FALSE
    /\ UNCHANGED <<who, course, phantom>>

Next == \/ CarStarts \/ CarFinishes \/ Tick
        \/ \E i \in DOMAIN course :
              \/ CarStops(i)
              \/ \E sensor \in Inner, seen \in BOOLEAN : CarPasses(i, sensor, seen)
        \/ \E sensor \in 0..lights : FalseHit(sensor)
        \/ PressDeleteStart \/ PressDeleteFinish \/ PressFakeFinish
        \/ \E count \in LightCounts : PressReset(count)

Spec == Init /\ [][Next]_vars

-----------------------------------------------------------------------------
(* What it promises. *)

TypeOK ==
    /\ lights \in LightCounts
    /\ timestamps \in [Sensors -> Seq(Nat)]
    /\ lasttick \in Nat
    /\ who \in Seq(Nat)
    /\ course \in Seq(Cars)
    /\ phantom \in {"none", "start", "finish"}
    /\ flawed \in BOOLEAN

\* Every finished row is complete: getRun finds a stamp, or a zero, in every
\* list, whatever was deleted, missed or faked before.
Aligned == \A s \in Sensors : Len(timestamps[finish]) <= Len(timestamps[s])

Without1(stamps) == SubSeq(stamps, 1, Len(stamps) - 1)
Starts == IF phantom = "start" THEN Without1(timestamps[0]) ELSE timestamps[0]
Finishes == IF phantom = "finish" THEN Without1(timestamps[finish]) ELSE timestamps[finish]

\* The rows are the cars, in the order they started: apart from a hit that is
\* about to be deleted, every finished row has the start and the finish (or a
\* faked one) of one car, and the open rows are the cars on the course.
Pairing ==
    /\ Len(Starts) = Len(Finishes) + Len(course)
    /\ \A i \in DOMAIN course : Starts[Len(Finishes) + i] = course[i].car
    /\ \A i \in DOMAIN Finishes :
          LET t == Finishes[i] IN t # 0 /\ who[t] # 0 => who[t] = Starts[i]

\* As long as the segment lights work and no false hit was taken, the
\* segments of a row are those of its car, although cars were given finishes
\* without having passed the segment lights.
SegmentsOwn ==
    ~flawed => \A s \in Inner : \A i \in DOMAIN timestamps[s] :
                  LET t == timestamps[s][i] IN t # 0 => who[t] = Starts[i]

\* Those who listen to the timer see a list of runs that do not change once
\* announced and are taken back from the end: deleteRun(getRun(last)) names a
\* run that was sent, though it is computed again from lists that moved on.
RS == INSTANCE RunSource WITH finished <- FinishedRuns

AnnouncesRuns == RS!Spec
=============================================================================
