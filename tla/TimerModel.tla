------------------------------ MODULE TimerModel ----------------------------
(***************************************************************************)
(* The BWTimer model: one list of time stamps per light.  The n-th stamp   *)
(* of every list is taken to be of the n-th car to start, so a run is a    *)
(* row across the lists.  Light 0 is the start and the last one the finish.*)
(***************************************************************************)
EXTENDS Integers, Sequences

CONSTANT LightCounts  \* how many lights the menu offers

ASSUME LightsAssumption == LightCounts \subseteq Nat \ {0, 1}

VARIABLES
    lights,      \* lights in use
    timestamps,  \* timestamps[s]: stamps of light s; 0 stands for none
    lasttick     \* stamp of the last update of the running timers

timerVars == <<lights, timestamps, lasttick>>

finish == lights - 1
Inner == 1..(finish - 1)
Sensors == 0..finish

\* setLights, reset: everything is forgotten.
SetLights(count) ==
    /\ lights' = count
    /\ timestamps' = [s \in 0..(count - 1) |-> <<>>]
    /\ lasttick' = 0

UpdateRunningTimers(time) ==
    /\ lasttick' = time
    /\ UNCHANGED <<lights, timestamps>>

DoStart(time) ==
    /\ timestamps' = [timestamps EXCEPT ![0] = Append(@, time)]
    /\ UNCHANGED <<lights, lasttick>>

\* Mutant: the wrong end of the list.
DeleteStartOldest ==
    /\ timestamps' = IF Len(timestamps[0]) > Len(timestamps[finish])
                     THEN [timestamps EXCEPT ![0] = Tail(@)]
                     ELSE timestamps
    /\ UNCHANGED <<lights, lasttick>>

\* deleteStart: the last start, if it has no finish yet.  What the car hit
\* since then stays.
DeleteStart ==
    /\ timestamps' = IF Len(timestamps[0]) > Len(timestamps[finish])
                     THEN [timestamps EXCEPT ![0] = SubSeq(@, 1, Len(@) - 1)]
                     ELSE timestamps
    /\ UNCHANGED <<lights, lasttick>>

\* "impossible finish/segment before previous": such a hit is dropped.
DoSegment(s, time) ==
    /\ timestamps' = IF Len(timestamps[s]) >= Len(timestamps[s - 1])
                     THEN timestamps
                     ELSE [timestamps EXCEPT ![s] = Append(@, time)]
    /\ UNCHANGED <<lights, lasttick>>

Padded(stamps, count) == stamps \o [i \in 1..(count - Len(stamps)) |-> 0]

\* Mutant: the segments of the finished car are not filled.
DoFinishUnpadded(time) ==
    /\ timestamps' = IF Len(timestamps[finish]) >= Len(timestamps[0])
                     THEN timestamps
                     ELSE [timestamps EXCEPT ![finish] = Append(@, time)]
    /\ UNCHANGED <<lights, lasttick>>

\* doFinish: the finish of the first car that has none; segments it has not
\* hit by now stay empty.
DoFinish(time) ==
    /\ timestamps' = IF Len(timestamps[finish]) >= Len(timestamps[0])
                     THEN timestamps
                     ELSE LET count == Len(timestamps[finish]) + 1
                          IN  [s \in Sensors |->
                                 IF s = finish THEN Append(timestamps[s], time)
                                 ELSE IF s = 0 THEN timestamps[s]
                                 ELSE Padded(timestamps[s], count)]
    /\ UNCHANGED <<lights, lasttick>>

FakeFinish == DoFinish(lasttick)

\* Mutant: the wrong end of the list.
DeleteFinishOldest ==
    /\ timestamps' = IF timestamps[finish] # <<>>
                     THEN [timestamps EXCEPT ![finish] = Tail(@)]
                     ELSE timestamps
    /\ UNCHANGED <<lights, lasttick>>

\* deleteFinish: the last finish.
DeleteFinish ==
    /\ timestamps' = IF timestamps[finish] # <<>>
                     THEN [timestamps EXCEPT ![finish] = SubSeq(@, 1, Len(@) - 1)]
                     ELSE timestamps
    /\ UNCHANGED <<lights, lasttick>>

\* event(SERIAL_TIMESTAMP): a hit of a light.
Event(sensor, time) ==
    IF sensor > finish THEN UNCHANGED timerVars
    ELSE IF sensor = 0 THEN DoStart(time)
    ELSE IF sensor = finish THEN DoFinish(time)
    ELSE DoSegment(sensor, time)

\* getRun: the time from start to finish, and the segments that have both
\* ends; Run.setSegment keeps positive values only.
GetRun(row) ==
    LET stamp(s) == timestamps[s][row]
        segments == {s \in 1..finish : /\ lights > 2
                                       /\ stamp(s - 1) # 0 /\ stamp(s) # 0
                                       /\ stamp(s) > stamp(s - 1)}
    IN  [raw |-> stamp(finish) - stamp(0),
         segment |-> [s \in segments |-> stamp(s) - stamp(s - 1)]]

FinishedRuns == [row \in 1..Len(timestamps[finish]) |-> GetRun(row)]
=============================================================================
