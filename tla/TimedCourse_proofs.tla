------------------------- MODULE TimedCourse_proofs -------------------------
(***************************************************************************)
(* Theorems about the BWTimer at an event of any length, with any number   *)
(* of lights: its rows stay complete, what it announces is a RunSource,    *)
(* and rows and segments are of one car. IInv is the type of the timer     *)
(* together with Aligned; it does not depend on what the cars and the      *)
(* operator do. PInv adds what starts and finishes have to do with the     *)
(* cars, SInv the same of the segment lights.                              *)
(***************************************************************************)
EXTENDS TimedCourse, SequenceTheorems, TLAPS

TimerTypeOK ==
    /\ lights \in LightCounts
    /\ timestamps \in [Sensors -> Seq(Nat)]
    /\ lasttick \in Nat

IInv == TimerTypeOK /\ Aligned

\* What a step of the timer shows to those who listen.
Shows == [RS!Next]_FinishedRuns

USE LightsAssumption, TimeAssumption

-----------------------------------------------------------------------------
(* The lists. *)

LEMMA SensorFacts ==
  ASSUME lights \in LightCounts
  PROVE  /\ lights \in Nat /\ lights >= 2
         /\ finish \in Nat \ {0} /\ finish \in Sensors /\ 0 \in Sensors
         /\ Inner \subseteq Sensors
         /\ Sensors = 0..(lights - 1)
  BY DEF finish, Sensors, Inner

LEMMA PaddedFacts ==
  ASSUME NEW stamps \in Seq(Nat), NEW count \in Nat
  PROVE  /\ Padded(stamps, count) \in Seq(Nat)
         /\ Len(Padded(stamps, count)) >= count
         /\ Len(Padded(stamps, count)) >= Len(stamps)
         /\ \A i \in 1..Len(stamps) : Padded(stamps, count)[i] = stamps[i]
  <1> DEFINE zeros == [i \in 1..(count - Len(stamps)) |-> 0]
  <1>1. Len(stamps) \in Nat
    BY LenProperties
  <1>2. ASSUME count - Len(stamps) >= 0
        PROVE  /\ zeros \in Seq(Nat)
               /\ Len(zeros) \in Nat
               /\ Len(zeros) >= count - Len(stamps)
    <2>1. /\ count - Len(stamps) \in Nat
          /\ zeros \in [1..(count - Len(stamps)) -> Nat]
      BY <1>1, <1>2
    <2>2. zeros \in Seq(Nat)
      BY <2>1, SeqDef
    <2>3. Len(zeros) = count - Len(stamps)
      BY <2>1, <2>2, LenProperties
    <2> HIDE DEF zeros
    <2>4. QED
      BY <1>1, <1>2, <2>2, <2>3
  <1>3. ASSUME ~(count - Len(stamps) >= 0)
        PROVE  /\ zeros \in Seq(Nat)
               /\ Len(zeros) \in Nat
               /\ Len(zeros) >= count - Len(stamps)
    <2>1. zeros = <<>>
      BY <1>1, <1>3
    <2> HIDE DEF zeros
    <2>2. zeros \in Seq(Nat) /\ Len(zeros) = 0
      BY <2>1, EmptySeq
    <2>3. QED
      BY <1>1, <1>3, <2>2
  <1> HIDE DEF zeros
  <1>4. Padded(stamps, count) = stamps \o zeros
    BY DEF Padded, zeros
  <1>5. /\ zeros \in Seq(Nat)
        /\ Len(zeros) \in Nat
        /\ Len(zeros) >= count - Len(stamps)
    BY <1>1, <1>2, <1>3
  <1>6. QED
    BY <1>1, <1>4, <1>5, ConcatProperties

LEMMA ListFacts ==
  ASSUME IInv, NEW s \in Sensors
  PROVE  /\ timestamps[s] \in Seq(Nat)
         /\ Len(timestamps[s]) \in Nat
         /\ Len(timestamps[finish]) \in Nat
         /\ Len(timestamps[finish]) <= Len(timestamps[s])
  <1>1. finish \in Sensors
    BY SensorFacts DEF IInv, TimerTypeOK
  <1>2. QED
    BY <1>1, LenProperties DEF IInv, TimerTypeOK, Aligned

-----------------------------------------------------------------------------
(* What is shown. *)

\* A row that no list changed gives the same run as before.
LEMMA SameRun ==
  ASSUME NEW row, lights \in LightCounts, lights' = lights,
         \A s \in Sensors : timestamps'[s][row] = timestamps[s][row]
  PROVE  GetRun(row)' = GetRun(row)
  BY SensorFacts DEF GetRun, finish, Sensors, Inner

\* A step that leaves the finished rows as they are shows nothing.
LEMMA ShowsNothing ==
  ASSUME IInv, IInv', lights' = lights,
         Len(timestamps'[finish]) = Len(timestamps[finish]),
         \A s \in Sensors, row \in 1..Len(timestamps[finish]) :
            timestamps'[s][row] = timestamps[s][row]
  PROVE  FinishedRuns' = FinishedRuns
  <1>1. lights \in LightCounts /\ finish' = finish
    BY DEF IInv, TimerTypeOK, finish
  <1>2. \A row \in 1..Len(timestamps[finish]) : GetRun(row)' = GetRun(row)
    <2>1. TAKE row \in 1..Len(timestamps[finish])
    <2>2. QED
      BY <1>1, SameRun
  <1>3. QED
    BY <1>1, <1>2 DEF FinishedRuns

\* A step that adds one finished row announces its run.
LEMMA ShowsRun ==
  ASSUME IInv, IInv', lights' = lights,
         Len(timestamps'[finish]) = Len(timestamps[finish]) + 1,
         \A s \in Sensors, row \in 1..Len(timestamps[finish]) :
            timestamps'[s][row] = timestamps[s][row]
  PROVE  Shows
  <1>1. /\ lights \in LightCounts /\ finish' = finish
        /\ Len(timestamps[finish]) \in Nat
    BY SensorFacts, ListFacts DEF IInv, TimerTypeOK, finish
  <1>2. \A row \in 1..Len(timestamps[finish]) : GetRun(row)' = GetRun(row)
    <2>1. TAKE row \in 1..Len(timestamps[finish])
    <2>2. QED
      BY <1>1, SameRun
  <1>3. /\ Len(FinishedRuns) = Len(timestamps[finish])
        /\ Len(FinishedRuns') = Len(timestamps[finish]) + 1
        /\ \A row \in 1..Len(timestamps[finish]) : FinishedRuns'[row] = FinishedRuns[row]
    BY <1>1, <1>2 DEF FinishedRuns
  <1>4. QED
    BY <1>1, <1>3 DEF Shows, RS!Next, RS!Announce

\* A step that drops the last finish takes its run back.
LEMMA ShowsTakeBack ==
  ASSUME IInv, IInv', lights' = lights,
         timestamps[finish] # <<>>,
         Len(timestamps'[finish]) = Len(timestamps[finish]) - 1,
         \A s \in Sensors, row \in 1..(Len(timestamps[finish]) - 1) :
            timestamps'[s][row] = timestamps[s][row]
  PROVE  Shows
  <1> DEFINE count == Len(timestamps[finish])
  <1>1. /\ lights \in LightCounts /\ finish' = finish
        /\ count \in Nat \ {0}
    BY SensorFacts, ListFacts, EmptySeq DEF IInv, TimerTypeOK, finish
  <1>2. \A row \in 1..(count - 1) : GetRun(row)' = GetRun(row)
    <2>1. TAKE row \in 1..(count - 1)
    <2>2. QED
      BY <1>1, SameRun
  <1>3. /\ FinishedRuns = [row \in 1..count |-> GetRun(row)]
        /\ FinishedRuns' = [row \in 1..(count - 1) |-> GetRun(row)']
    BY <1>1 DEF FinishedRuns
  <1>4. FinishedRuns' = [row \in 1..(count - 1) |-> FinishedRuns[row]]
    BY <1>1, <1>2, <1>3
  <1>5. Len(FinishedRuns) = count /\ FinishedRuns # <<>>
    BY <1>1, <1>3
  <1>6. SubSeq(FinishedRuns, 1, count - 1) = [row \in 1..(count - 1) |-> FinishedRuns[row]]
    BY <1>1
  <1>7. QED
    BY <1>4, <1>5, <1>6 DEF Shows, RS!Next, RS!TakeBack

-----------------------------------------------------------------------------
(* The operations of the timer. *)

LEMMA SetLightsStep ==
  ASSUME NEW count \in LightCounts, IInv, SetLights(count)
  PROVE  IInv' /\ Shows
  <1>1. /\ count \in Nat /\ count >= 2
        /\ finish' = count - 1 /\ Sensors' = 0..(count - 1)
        /\ timestamps' = [s \in 0..(count - 1) |-> <<>>]
        /\ lights' = count /\ lasttick' = 0
    BY DEF SetLights, finish, Sensors
  <1>2. TimerTypeOK'
    BY <1>1, EmptySeq DEF TimerTypeOK
  <1>3. Aligned'
    BY <1>1, EmptySeq DEF Aligned
  <1>4. FinishedRuns' = <<>>
    <2>1. timestamps'[finish'] = <<>>
      BY <1>1
    <2>2. FinishedRuns' = [row \in 1..0 |-> GetRun(row)']
      BY <2>1, EmptySeq DEF FinishedRuns
    <2>3. QED
      BY <2>2
  <1>5. QED
    BY <1>2, <1>3, <1>4 DEF IInv, Shows, RS!Next, RS!Forget

LEMMA DoStartStep ==
  ASSUME NEW time \in Nat, IInv, DoStart(time)
  PROVE  IInv' /\ Shows
  <1>1. /\ finish # 0 /\ finish' = finish /\ Sensors' = Sensors
        /\ finish \in Sensors /\ 0 \in Sensors
        /\ lights \in LightCounts /\ lights' = lights /\ lasttick' = lasttick
    BY SensorFacts DEF IInv, TimerTypeOK, DoStart, finish, Sensors
  <1>2. /\ timestamps' \in [Sensors -> Seq(Nat)]
        /\ \A s \in Sensors : Len(timestamps'[s]) >= Len(timestamps[s])
        /\ timestamps'[finish] = timestamps[finish]
        /\ \A s \in Sensors : \A row \in 1..Len(timestamps[s]) :
              timestamps'[s][row] = timestamps[s][row]
    BY <1>1, ListFacts, AppendProperties DEF IInv, TimerTypeOK, DoStart
  <1>3. IInv'
    BY <1>1, <1>2, ListFacts, LenProperties DEF IInv, TimerTypeOK, Aligned
  <1>4. FinishedRuns' = FinishedRuns
    BY <1>1, <1>2, <1>3, ListFacts, ShowsNothing
  <1>5. QED
    BY <1>3, <1>4 DEF Shows

\* What removing the last element does to any list.
LEMMA Shortened ==
  ASSUME NEW S, NEW list \in Seq(S), list # <<>>
  PROVE  /\ Len(list) \in Nat \ {0}
         /\ SubSeq(list, 1, Len(list) - 1) \in Seq(S)
         /\ Len(SubSeq(list, 1, Len(list) - 1)) = Len(list) - 1
         /\ DOMAIN SubSeq(list, 1, Len(list) - 1) = 1..(Len(list) - 1)
         /\ \A i \in 1..(Len(list) - 1) : SubSeq(list, 1, Len(list) - 1)[i] = list[i]
  <1> DEFINE n == Len(list) - 1
  <1>1. Len(list) \in Nat \ {0}
    BY EmptySeq
  <1>2. n \in Int /\ \A i \in 1..n : list[i] \in S
    BY <1>1, ElementOfSeq
  <1> HIDE DEF n
  <1>3. /\ SubSeq(list, 1, n) \in Seq(S)
        /\ Len(SubSeq(list, 1, n)) = IF 1 <= n THEN n - 1 + 1 ELSE 0
        /\ \A i \in 1..(n - 1 + 1) : SubSeq(list, 1, n)[i] = list[1 + i - 1]
    BY <1>2, SubSeqProperties
  <1>4. n \in Nat /\ n = Len(list) - 1
    BY <1>1 DEF n
  <1>5. /\ SubSeq(list, 1, n) \in Seq(S)
        /\ Len(SubSeq(list, 1, n)) = n
        /\ \A i \in 1..n : SubSeq(list, 1, n)[i] = list[i]
    BY <1>3, <1>4
  <1>6. DOMAIN SubSeq(list, 1, n) = 1..n
    BY <1>5, LenProperties
  <1>7. QED
    BY <1>1, <1>4, <1>5, <1>6

LEMMA DeleteStartStep ==
  ASSUME IInv, DeleteStart
  PROVE  IInv' /\ Shows
  <1>1. /\ finish # 0 /\ finish' = finish /\ Sensors' = Sensors
        /\ finish \in Sensors /\ 0 \in Sensors
        /\ lights \in LightCounts /\ lights' = lights /\ lasttick' = lasttick
    BY SensorFacts DEF IInv, TimerTypeOK, DeleteStart, finish, Sensors
  <1>2. CASE ~(Len(timestamps[0]) > Len(timestamps[finish]))
    <2>1. timestamps' = timestamps
      BY <1>2 DEF DeleteStart
    <2>2. IInv' /\ FinishedRuns' = FinishedRuns
      BY <1>1, <2>1, SameRun DEF IInv, TimerTypeOK, Aligned, FinishedRuns
    <2>3. QED
      BY <2>2 DEF Shows
  <1>3. CASE Len(timestamps[0]) > Len(timestamps[finish])
    <2> DEFINE shorter == SubSeq(timestamps[0], 1, Len(timestamps[0]) - 1)
    <2>1. timestamps' = [timestamps EXCEPT ![0] = shorter]
      BY <1>3 DEF DeleteStart
    <2>2. /\ timestamps[0] \in Seq(Nat) /\ timestamps[0] # <<>>
          /\ Len(timestamps[0]) \in Nat /\ Len(timestamps[finish]) \in Nat
      BY <1>1, <1>3, ListFacts, EmptySeq
    <2>3. /\ shorter \in Seq(Nat) /\ Len(shorter) = Len(timestamps[0]) - 1
          /\ \A i \in 1..(Len(timestamps[0]) - 1) : shorter[i] = timestamps[0][i]
      BY <2>2, Shortened
    <2> HIDE DEF shorter
    <2>4. \A row \in 1..Len(timestamps[finish]) : row \in 1..(Len(timestamps[0]) - 1)
      BY <1>3, <2>2
    <2>5. Len(shorter) >= Len(timestamps[finish])
      BY <1>3, <2>2, <2>3
    <2>6. /\ shorter \in Seq(Nat)
          /\ Len(shorter) >= Len(timestamps[finish])
          /\ \A row \in 1..Len(timestamps[finish]) : shorter[row] = timestamps[0][row]
      BY <2>3, <2>4, <2>5
    <2>7. /\ timestamps' \in [Sensors -> Seq(Nat)]
          /\ timestamps'[finish] = timestamps[finish]
          /\ \A s \in Sensors : timestamps'[s] = IF s = 0 THEN shorter ELSE timestamps[s]
      BY <1>1, <2>1, <2>6 DEF IInv, TimerTypeOK
    <2>8. IInv'
      BY <1>1, <2>6, <2>7, ListFacts, LenProperties DEF IInv, TimerTypeOK, Aligned
    <2>9. FinishedRuns' = FinishedRuns
      BY <1>1, <2>6, <2>7, <2>8, ListFacts, ShowsNothing
    <2>10. QED
      BY <2>8, <2>9 DEF Shows
  <1>4. QED
    BY <1>2, <1>3

LEMMA DoSegmentStep ==
  ASSUME NEW time \in Nat, NEW light \in Inner, IInv, DoSegment(light, time)
  PROVE  IInv' /\ Shows
  <1>1. /\ finish # light /\ finish' = finish /\ Sensors' = Sensors
        /\ finish \in Sensors /\ light \in Sensors
        /\ lights \in LightCounts /\ lights' = lights /\ lasttick' = lasttick
    BY SensorFacts DEF IInv, TimerTypeOK, DoSegment, finish, Sensors, Inner
  <1>2. CASE timestamps' = timestamps
    <2>1. IInv' /\ FinishedRuns' = FinishedRuns
      BY <1>1, <1>2, SameRun DEF IInv, TimerTypeOK, Aligned, FinishedRuns
    <2>2. QED
      BY <2>1 DEF Shows
  <1>3. CASE timestamps' = [timestamps EXCEPT ![light] = Append(@, time)]
    <2>1. /\ timestamps' \in [Sensors -> Seq(Nat)]
          /\ \A s \in Sensors : Len(timestamps'[s]) >= Len(timestamps[s])
          /\ timestamps'[finish] = timestamps[finish]
          /\ \A s \in Sensors : \A row \in 1..Len(timestamps[s]) :
                timestamps'[s][row] = timestamps[s][row]
      BY <1>1, <1>3, ListFacts, AppendProperties DEF IInv, TimerTypeOK
    <2>2. IInv'
      BY <1>1, <2>1, ListFacts, LenProperties DEF IInv, TimerTypeOK, Aligned
    <2>3. FinishedRuns' = FinishedRuns
      BY <1>1, <2>1, <2>2, ListFacts, ShowsNothing
    <2>4. QED
      BY <2>2, <2>3 DEF Shows
  <1>4. QED
    BY <1>2, <1>3 DEF DoSegment

LEMMA DoFinishStep ==
  ASSUME NEW time \in Nat, IInv, DoFinish(time)
  PROVE  IInv' /\ Shows
  <1> DEFINE count == Len(timestamps[finish]) + 1
  <1>1. /\ finish # 0 /\ finish' = finish /\ Sensors' = Sensors
        /\ finish \in Sensors /\ 0 \in Sensors
        /\ lights \in LightCounts /\ lights' = lights /\ lasttick' = lasttick
        /\ count \in Nat
    BY SensorFacts, ListFacts DEF IInv, TimerTypeOK, DoFinish, finish, Sensors
  <1>2. CASE Len(timestamps[finish]) >= Len(timestamps[0])
    <2>1. timestamps' = timestamps
      BY <1>2 DEF DoFinish
    <2>2. IInv' /\ FinishedRuns' = FinishedRuns
      BY <1>1, <2>1, SameRun DEF IInv, TimerTypeOK, Aligned, FinishedRuns
    <2>3. QED
      BY <2>2 DEF Shows
  <1>3. CASE ~(Len(timestamps[finish]) >= Len(timestamps[0]))
    <2>1. \A s \in Sensors :
             timestamps'[s] = IF s = finish THEN Append(timestamps[s], time)
                              ELSE IF s = 0 THEN timestamps[s]
                              ELSE Padded(timestamps[s], count)
      BY <1>3 DEF DoFinish
    <2>2. ASSUME NEW s \in Sensors
          PROVE  /\ timestamps'[s] \in Seq(Nat)
                 /\ Len(timestamps'[s]) >= count
                 /\ \A row \in 1..Len(timestamps[finish]) :
                       timestamps'[s][row] = timestamps[s][row]
      <3>1. /\ timestamps[s] \in Seq(Nat) /\ Len(timestamps[s]) \in Nat
            /\ Len(timestamps[finish]) \in Nat
            /\ Len(timestamps[finish]) <= Len(timestamps[s])
        BY ListFacts
      <3>2. CASE s = finish
        <4>1. timestamps'[s] = Append(timestamps[s], time)
          BY <2>1, <3>2
        <4>2. QED
          BY <3>1, <3>2, <4>1, AppendProperties
      <3>3. CASE s # finish /\ s = 0
        BY <1>1, <1>3, <2>1, <3>1, <3>3
      <3>4. CASE s # finish /\ s # 0
        <4>1. timestamps'[s] = Padded(timestamps[s], count)
          BY <2>1, <3>4
        <4>2. /\ Padded(timestamps[s], count) \in Seq(Nat)
              /\ Len(Padded(timestamps[s], count)) >= count
              /\ \A row \in 1..Len(timestamps[s]) :
                    Padded(timestamps[s], count)[row] = timestamps[s][row]
          BY <1>1, <3>1, PaddedFacts
        <4>3. \A row \in 1..Len(timestamps[finish]) : row \in 1..Len(timestamps[s])
          BY <3>1
        <4>4. QED
          BY <4>1, <4>2, <4>3
      <3>5. QED
        BY <3>2, <3>3, <3>4
    <2>3. Len(timestamps'[finish]) = count
      <3>1. timestamps'[finish] = Append(timestamps[finish], time)
        BY <1>1, <2>1
      <3>2. timestamps[finish] \in Seq(Nat)
        BY <1>1, ListFacts
      <3>3. QED
        BY <3>1, <3>2, AppendProperties
    <2>4. timestamps' \in [Sensors -> Seq(Nat)]
      <3>1. DOMAIN timestamps' = Sensors /\ timestamps' = [s \in Sensors |-> timestamps'[s]]
        BY <1>3 DEF DoFinish
      <3>2. QED
        BY <2>2, <3>1
    <2>5. IInv'
      BY <1>1, <2>2, <2>3, <2>4 DEF IInv, TimerTypeOK, Aligned
    <2>6. QED
      BY <1>1, <2>2, <2>3, <2>5, ShowsRun
  <1>4. QED
    BY <1>2, <1>3

LEMMA DeleteFinishStep ==
  ASSUME IInv, DeleteFinish
  PROVE  IInv' /\ Shows
  <1>1. /\ finish # 0 /\ finish' = finish /\ Sensors' = Sensors
        /\ finish \in Sensors
        /\ lights \in LightCounts /\ lights' = lights /\ lasttick' = lasttick
    BY SensorFacts DEF IInv, TimerTypeOK, DeleteFinish, finish, Sensors
  <1>2. CASE timestamps[finish] = <<>>
    <2>1. timestamps' = timestamps
      BY <1>2 DEF DeleteFinish
    <2>2. IInv' /\ FinishedRuns' = FinishedRuns
      BY <1>1, <2>1, SameRun DEF IInv, TimerTypeOK, Aligned, FinishedRuns
    <2>3. QED
      BY <2>2 DEF Shows
  <1>3. CASE timestamps[finish] # <<>>
    <2> DEFINE count == Len(timestamps[finish])
               shorter == SubSeq(timestamps[finish], 1, count - 1)
    <2>1. timestamps' = [timestamps EXCEPT ![finish] = shorter]
      BY <1>3 DEF DeleteFinish
    <2>2. /\ count \in Nat \ {0}
          /\ shorter \in Seq(Nat) /\ Len(shorter) = count - 1
          /\ \A row \in 1..(count - 1) : shorter[row] = timestamps[finish][row]
      BY <1>1, <1>3, ListFacts, Shortened
    <2> HIDE DEF shorter
    <2>3. /\ timestamps' \in [Sensors -> Seq(Nat)]
          /\ \A s \in Sensors : timestamps'[s] = IF s = finish THEN shorter ELSE timestamps[s]
      BY <1>1, <2>1, <2>2 DEF IInv, TimerTypeOK
    <2>4. TimerTypeOK'
      BY <1>1, <2>3 DEF IInv, TimerTypeOK
    <2>5. Aligned'
      <3>1. \A s \in Sensors : /\ Len(timestamps[s]) \in Nat
                               /\ count <= Len(timestamps[s])
        BY ListFacts
      <3>2. ASSUME NEW s \in Sensors
            PROVE  count - 1 <= Len(timestamps'[s])
        <4>1. CASE s = finish
          BY <2>2, <2>3, <4>1
        <4>2. CASE s # finish
          <5>1. timestamps'[s] = timestamps[s]
            BY <2>3, <4>2
          <5>2. QED
            BY <2>2, <3>1, <5>1
        <4>3. QED
          BY <4>1, <4>2
      <3>3. QED
        BY <1>1, <2>2, <2>3, <3>2 DEF Aligned
    <2>6. QED
      BY <1>1, <1>3, <2>2, <2>3, <2>4, <2>5, ShowsTakeBack DEF IInv
  <1>4. QED
    BY <1>2, <1>3

LEMMA EventStep ==
  ASSUME NEW sensor \in Nat, NEW time \in Nat, IInv, Event(sensor, time)
  PROVE  IInv' /\ Shows
  <1>1. CASE sensor > finish
    <2>1. UNCHANGED timerVars
      BY <1>1 DEF Event
    <2>2. IInv' /\ FinishedRuns' = FinishedRuns
      BY <2>1 DEF timerVars, IInv, TimerTypeOK, Aligned, FinishedRuns, GetRun,
                  Sensors, finish
    <2>3. QED
      BY <2>2 DEF Shows
  <1>2. CASE ~(sensor > finish)
    <2>1. finish \in Nat \ {0}
      BY SensorFacts DEF IInv, TimerTypeOK
    <2>2. CASE sensor = 0
      BY <1>2, <2>2, DoStartStep DEF Event
    <2>3. CASE sensor # 0 /\ sensor = finish
      BY <1>2, <2>3, DoFinishStep DEF Event
    <2>4. CASE sensor # 0 /\ sensor # finish
      <3>1. sensor \in Inner
        BY <1>2, <2>1, <2>4 DEF Inner
      <3>2. QED
        BY <1>2, <2>4, <3>1, DoSegmentStep DEF Event
    <2>5. QED
      BY <2>2, <2>3, <2>4
  <1>3. QED
    BY <1>1, <1>2

LEMMA TickStep ==
  ASSUME NEW time \in Nat, IInv, UpdateRunningTimers(time)
  PROVE  IInv' /\ Shows
  <1>1. IInv' /\ FinishedRuns' = FinishedRuns
    BY DEF UpdateRunningTimers, IInv, TimerTypeOK, Aligned, FinishedRuns, GetRun,
           Sensors, finish
  <1>2. QED
    BY <1>1 DEF Shows

-----------------------------------------------------------------------------
(* The course. *)

\* What the timer needs of the course: the types.
CourseOK ==
    /\ who \in Seq(Nat)
    /\ course \in Seq(Cars)
    /\ phantom \in {"none", "start", "finish"}
    /\ flawed \in BOOLEAN

LEMMA TypeSplit == TypeOK <=> TimerTypeOK /\ CourseOK
  BY DEF TypeOK, TimerTypeOK, CourseOK

LEMMA HitStep ==
  ASSUME NEW sensor \in Nat, NEW car \in Nat, IInv, CourseOK, Hit(sensor, car)
  PROVE  IInv' /\ Shows /\ who' \in Seq(Nat)
  <1>1. who \in Seq(Nat) /\ now + 1 \in Nat
    BY LenProperties DEF CourseOK, now
  <1>2. who' \in Seq(Nat)
    BY <1>1, AppendProperties DEF Hit
  <1>3. QED
    BY <1>1, <1>2, EventStep DEF Hit

LEMMA FrontTailType ==
  ASSUME NEW S, NEW list \in Seq(S), list # <<>>
  PROVE  Tail(list) \in Seq(S) /\ Front(list) \in Seq(S)
  BY Shortened, HeadTailProperties DEF Front

LEMMA IndexedCar ==
  ASSUME CourseOK, NEW i \in DOMAIN course
  PROVE  /\ i \in 1..Len(course) /\ Len(course) \in Nat
         /\ course[i] \in Cars
  BY LenProperties, ElementOfSeq DEF CourseOK

LEMMA StepFacts ==
  ASSUME IInv, CourseOK, [Next]_vars
  PROVE  IInv' /\ CourseOK' /\ Shows
  <1> USE DEF CourseOK
  <1>1. lights \in Nat /\ finish \in Nat /\ Inner \subseteq Nat
    BY SensorFacts DEF IInv, TimerTypeOK, Inner
  <1>2. now + 1 \in Nat
    BY LenProperties DEF now
  <1>3. CASE CarStarts
    <2>1. IInv' /\ Shows /\ who' \in Seq(Nat)
      BY <1>2, <1>3, HitStep DEF CarStarts
    <2>2. [car |-> now + 1, next |-> 1, stopped |-> FALSE] \in Cars
      BY <1>2 DEF Cars
    <2>3. course' \in Seq(Cars)
      BY <1>3, <2>2, AppendProperties DEF CarStarts
    <2>4. QED
      BY <1>3, <2>1, <2>3 DEF CarStarts
  <1>4. CASE CarFinishes
    <2>1. 1 \in DOMAIN course
      BY <1>4, LenProperties, EmptySeq DEF CarFinishes
    <2>2. course[1].car \in Nat
      BY <2>1, IndexedCar DEF Cars
    <2>3. IInv' /\ Shows /\ who' \in Seq(Nat)
      BY <1>1, <1>4, <2>2, HitStep DEF CarFinishes
    <2>4. course' \in Seq(Cars)
      BY <1>4, FrontTailType DEF CarFinishes
    <2>5. QED
      BY <1>4, <2>3, <2>4 DEF CarFinishes
  <1>5. CASE Tick
    <2>1. IInv' /\ Shows
      BY <1>2, <1>5, TickStep DEF Tick
    <2>2. who' \in Seq(Nat)
      BY <1>5, AppendProperties DEF Tick
    <2>3. QED
      BY <1>5, <2>1, <2>2 DEF Tick
  <1>6. ASSUME NEW i \in DOMAIN course, CarStops(i)
        PROVE  IInv' /\ CourseOK' /\ Shows
    <2>1. course' \in Seq(Cars)
      <3>1. /\ i \in 1..Len(course)
            /\ [course[i] EXCEPT !.stopped = TRUE] \in Cars
        BY <1>6, IndexedCar DEF Cars
      <3>2. course' = [course EXCEPT ![i] = [course[i] EXCEPT !.stopped = TRUE]]
        BY <1>6 DEF CarStops
      <3>3. QED
        BY <3>1, <3>2, ExceptSeq
    <2>2. UNCHANGED timerVars
      BY <1>6 DEF CarStops
    <2>3. IInv' /\ FinishedRuns' = FinishedRuns
      BY <2>2 DEF timerVars, IInv, TimerTypeOK, Aligned, FinishedRuns, GetRun,
                  Sensors, finish
    <2>4. QED
      BY <1>6, <2>1, <2>3 DEF CarStops, Shows
  <1>7. ASSUME NEW i \in DOMAIN course, NEW sensor \in Inner, NEW seen \in BOOLEAN,
               CarPasses(i, sensor, seen)
        PROVE  IInv' /\ CourseOK' /\ Shows
    <2>1. /\ i \in 1..Len(course) /\ course[i].car \in Nat
          /\ [course[i] EXCEPT !.next = @ + 1] \in Cars
      <3>1. i \in 1..Len(course) /\ course[i] \in Cars
        BY IndexedCar
      <3>2. course[i].car \in Nat /\ course[i].next + 1 \in Nat
        BY <3>1 DEF Cars
      <3>3. QED
        BY <3>1, <3>2 DEF Cars
    <2>2. course' \in Seq(Cars)
      <3>1. course' = [course EXCEPT ![i] = [course[i] EXCEPT !.next = @ + 1]]
        BY <1>7 DEF CarPasses
      <3>2. QED
        BY <2>1, <3>1, ExceptSeq
    <2>3. CASE seen
      <3>1. IInv' /\ Shows /\ who' \in Seq(Nat)
        BY <1>1, <1>7, <2>1, <2>3, HitStep DEF CarPasses
      <3>2. QED
        BY <1>7, <2>2, <3>1 DEF CarPasses
    <2>4. CASE ~seen
      <3>1. UNCHANGED <<timerVars, who>>
        BY <1>7, <2>4 DEF CarPasses
      <3>2. IInv' /\ FinishedRuns' = FinishedRuns
        BY <3>1 DEF timerVars, IInv, TimerTypeOK, Aligned, FinishedRuns, GetRun,
                    Sensors, finish
      <3>3. QED
        BY <1>7, <2>2, <3>1, <3>2 DEF CarPasses, Shows
    <2>5. QED
      BY <2>3, <2>4
  <1>8. ASSUME NEW sensor \in 0..lights, FalseHit(sensor)
        PROVE  IInv' /\ CourseOK' /\ Shows
    <2>1. IInv' /\ Shows /\ who' \in Seq(Nat)
      BY <1>1, <1>8, HitStep DEF FalseHit
    <2>2. QED
      BY <1>8, <2>1 DEF FalseHit
  <1>9. CASE PressDeleteStart
    <2>1. IInv' /\ Shows
      BY <1>9, DeleteStartStep DEF PressDeleteStart
    <2>2. course' \in Seq(Cars)
      BY <1>9, FrontTailType DEF PressDeleteStart
    <2>3. QED
      BY <1>9, <2>1, <2>2 DEF PressDeleteStart
  <1>10. CASE PressDeleteFinish
    BY <1>10, DeleteFinishStep DEF PressDeleteFinish
  <1>11. CASE PressFakeFinish
    <2>1. IInv' /\ Shows
      BY <1>11, DoFinishStep DEF PressFakeFinish, FakeFinish, IInv, TimerTypeOK
    <2>2. course' \in Seq(Cars)
      BY <1>11, FrontTailType DEF PressFakeFinish
    <2>3. QED
      BY <1>11, <2>1, <2>2 DEF PressFakeFinish
  <1>12. ASSUME NEW count \in LightCounts, PressReset(count)
         PROVE  IInv' /\ CourseOK' /\ Shows
    BY <1>12, SetLightsStep DEF PressReset
  <1>13. CASE UNCHANGED vars
    <2>1. IInv' /\ FinishedRuns' = FinishedRuns
      BY <1>13 DEF vars, timerVars, IInv, TimerTypeOK, Aligned, FinishedRuns, GetRun,
                   Sensors, finish
    <2>2. QED
      BY <1>13, <2>1 DEF vars, Shows
  <1>14. QED
    BY <1>3, <1>4, <1>5, <1>6, <1>7, <1>8, <1>9, <1>10, <1>11, <1>12, <1>13 DEF Next

LEMMA InitFacts ==
  ASSUME Init
  PROVE  IInv /\ CourseOK /\ RS!Init
  <1>1. TimerTypeOK /\ CourseOK
    BY EmptySeq DEF Init, TimerTypeOK, CourseOK
  <1>2. \A s \in Sensors : timestamps[s] = <<>>
    BY DEF Init
  <1>3. finish \in Sensors
    BY <1>1, SensorFacts DEF TimerTypeOK
  <1>4. Aligned
    BY <1>2, <1>3, EmptySeq DEF Aligned
  <1>5. FinishedRuns = [row \in 1..0 |-> GetRun(row)]
    BY <1>2, <1>3, EmptySeq DEF FinishedRuns
  <1>6. QED
    BY <1>1, <1>4, <1>5 DEF IInv, RS!Init

-----------------------------------------------------------------------------
(* The theorems. *)

\* Every reachable state is well typed, and every finished row is complete:
\* getRun never reaches past the end of a list.
THEOREM RowsComplete == Spec => [](TypeOK /\ Aligned)
  <1>1. Init => IInv /\ CourseOK
    BY InitFacts
  <1>2. IInv /\ CourseOK /\ [Next]_vars => (IInv /\ CourseOK)'
    BY StepFacts
  <1>3. IInv /\ CourseOK => TypeOK /\ Aligned
    BY TypeSplit DEF IInv
  <1>4. QED
    BY <1>1, <1>2, <1>3, PTL DEF Spec

\* The timer implements the source of runs its listeners rely on: announced
\* runs do not change, grow at the end and are taken back from the end.
THEOREM TimerIsRunSource == Spec => AnnouncesRuns
  <1>1. Init => IInv /\ CourseOK /\ RS!Init
    BY InitFacts
  <1>2. IInv /\ CourseOK /\ [Next]_vars => (IInv /\ CourseOK)'
    BY StepFacts
  <1>3. IInv /\ CourseOK /\ [Next]_vars => [RS!Next]_FinishedRuns
    BY StepFacts DEF Shows
  <1>4. QED
    BY <1>1, <1>2, <1>3, PTL DEF Spec, AnnouncesRuns, RS!Spec

-----------------------------------------------------------------------------
(* The rows are the cars.  The strengthening of Pairing: a false hit that   *)
(* waits for correction is the last stamp of its list, stamps are not of the*)
(* future, and no car is behind the stamp of a faked finish.                *)

PInv ==
    /\ phantom = "start" => timestamps[0] # <<>>
    /\ phantom = "finish" => timestamps[finish] # <<>>
    /\ \A i \in DOMAIN Finishes : Finishes[i] <= now
    /\ lasttick <= now
    /\ lasttick # 0 => who[lasttick] = 0
    /\ Pairing

AllInv == IInv /\ CourseOK /\ PInv

LEMMA LedgerTypes ==
  ASSUME AllInv
  PROVE  /\ 0 \in Sensors /\ finish \in Sensors /\ finish # 0
         /\ timestamps[0] \in Seq(Nat) /\ timestamps[finish] \in Seq(Nat)
         /\ Starts \in Seq(Nat) /\ Finishes \in Seq(Nat)
         /\ Len(Starts) \in Nat /\ Len(Finishes) \in Nat
         /\ Len(course) \in Nat /\ now \in Nat
         /\ DOMAIN Starts = 1..Len(Starts) /\ DOMAIN Finishes = 1..Len(Finishes)
         /\ DOMAIN course = 1..Len(course)
         /\ Len(Starts) = Len(Finishes) + Len(course)
  <1>1. /\ 0 \in Sensors /\ finish \in Sensors /\ finish # 0
        /\ timestamps[0] \in Seq(Nat) /\ timestamps[finish] \in Seq(Nat)
    BY SensorFacts DEF AllInv, IInv, TimerTypeOK
  <1>2. Starts \in Seq(Nat) /\ Finishes \in Seq(Nat)
    BY <1>1, Shortened DEF Starts, Finishes, Without1, AllInv, PInv
  <1>3. course \in Seq(Cars) /\ who \in Seq(Nat)
    BY DEF AllInv, CourseOK
  <1>4. QED
    BY <1>1, <1>2, <1>3, LenProperties DEF AllInv, PInv, Pairing, now

LEMMA Appended ==
  ASSUME NEW S, NEW list \in Seq(S), NEW e \in S
  PROVE  /\ Len(Append(list, e)) = Len(list) + 1
         /\ Append(list, e)[Len(list) + 1] = e
         /\ \A i \in 1..Len(list) : Append(list, e)[i] = list[i]
         /\ DOMAIN Append(list, e) = 1..(Len(list) + 1)
  BY AppendProperties, LenProperties

\* A hit does not change what is known of the earlier ones.
LEMMA WhoKept ==
  ASSUME AllInv, NEW car \in Nat, who' = who \/ who' = Append(who, car)
  PROVE  /\ now' \in Nat /\ now <= now'
         /\ \A t \in 1..now : who'[t] = who[t]
  BY LenProperties, AppendProperties DEF AllInv, CourseOK, now

\* What a step must do to the rows and to the course so that the rows stay
\* the cars: keep them, add a start, add a finish, or drop the last start.
Kept == /\ Starts' = Starts /\ Finishes' = Finishes
        /\ DOMAIN course' = DOMAIN course /\ Len(course') = Len(course)
        /\ \A i \in DOMAIN course : course'[i].car = course[i].car

Started == /\ Starts' = Append(Starts, now + 1) /\ Finishes' = Finishes
           /\ \E car : course' = Append(course, car) /\ car \in Cars /\ car.car = now + 1

Finished(t) == /\ Starts' = Starts /\ Finishes' = Append(Finishes, t)
               /\ course # <<>> /\ course' = Tail(course)

Dropped == /\ Starts' = Without1(Starts) /\ Finishes' = Finishes
           /\ course # <<>> /\ course' = Front(course)

LEMMA KeptPairs ==
  ASSUME AllInv, NEW car \in Nat, who' = who \/ who' = Append(who, car), Kept
  PROVE  Pairing' /\ \A i \in DOMAIN Finishes' : Finishes'[i] <= now'
  <1>1. /\ Len(Starts') = Len(Finishes') + Len(course')
        /\ \A i \in DOMAIN course' : Starts'[Len(Finishes') + i] = course'[i].car
    BY DEF AllInv, PInv, Pairing, Kept
  <1>2. ASSUME NEW i \in DOMAIN Finishes'
        PROVE  /\ Finishes'[i] <= now'
               /\ Finishes'[i] # 0 /\ who'[Finishes'[i]] # 0 => who'[Finishes'[i]] = Starts'[i]
    <2>1. /\ i \in DOMAIN Finishes /\ Finishes[i] \in Nat
          /\ Finishes[i] <= now /\ now \in Nat
      BY LedgerTypes, ElementOfSeq DEF AllInv, PInv, Kept
    <2>2. Finishes[i] # 0 => who'[Finishes[i]] = who[Finishes[i]]
      BY <2>1, WhoKept
    <2>3. Finishes[i] <= now'
      BY <2>1, WhoKept
    <2>4. QED
      BY <2>1, <2>2, <2>3 DEF AllInv, PInv, Pairing, Kept
  <1>3. QED
    BY <1>1, <1>2 DEF Pairing

LEMMA StartedPairs ==
  ASSUME AllInv, NEW car \in Nat, who' = who \/ who' = Append(who, car), Started
  PROVE  Pairing' /\ \A i \in DOMAIN Finishes' : Finishes'[i] <= now'
  <1> PICK new \in Cars : course' = Append(course, new) /\ new.car = now + 1
    BY DEF Started
  <1>1. /\ Starts \in Seq(Nat) /\ now + 1 \in Nat /\ Finishes' = Finishes
        /\ course \in Seq(Cars)
        /\ Len(Starts) \in Nat /\ Len(Finishes) \in Nat /\ Len(course) \in Nat
        /\ Len(Starts) = Len(Finishes) + Len(course)
    BY LedgerTypes DEF Started, AllInv, CourseOK
  <1>2. /\ Len(Starts') = Len(Starts) + 1
        /\ Starts'[Len(Starts) + 1] = now + 1
        /\ \A i \in 1..Len(Starts) : Starts'[i] = Starts[i]
    <2>1. Starts' = Append(Starts, now + 1)
      BY DEF Started
    <2>2. /\ Len(Append(Starts, now + 1)) = Len(Starts) + 1
          /\ Append(Starts, now + 1)[Len(Starts) + 1] = now + 1
          /\ \A i \in 1..Len(Starts) : Append(Starts, now + 1)[i] = Starts[i]
      <3>1. Starts \in Seq(Nat) /\ now + 1 \in Nat
        BY <1>1
      <3>2. QED
        BY <3>1, Appended
    <2>3. QED
      BY <2>1, <2>2
  <1>3. /\ Len(course') = Len(course) + 1 /\ DOMAIN course' = 1..(Len(course) + 1)
        /\ course'[Len(course) + 1].car = now + 1
        /\ \A i \in 1..Len(course) : course'[i] = course[i]
    BY <1>1, Appended
  <1>4. ASSUME NEW i \in DOMAIN course'
        PROVE  Starts'[Len(Finishes') + i] = course'[i].car
    <2>1. CASE i = Len(course) + 1
      BY <1>1, <1>2, <1>3, <2>1
    <2>2. CASE i # Len(course) + 1
      <3>1. i \in 1..Len(course) /\ i \in DOMAIN course
        BY <1>1, <1>3, <2>2
      <3>2. Len(Finishes) + i \in 1..Len(Starts)
        BY <1>1, <3>1
      <3>3. Starts[Len(Finishes) + i] = course[i].car
        BY <3>1 DEF AllInv, PInv, Pairing
      <3>4. QED
        BY <1>1, <1>2, <1>3, <3>1, <3>2, <3>3
    <2>3. QED
      BY <2>1, <2>2
  <1>5. ASSUME NEW i \in DOMAIN Finishes'
        PROVE  /\ Finishes'[i] <= now'
               /\ Finishes'[i] # 0 /\ who'[Finishes'[i]] # 0 => who'[Finishes'[i]] = Starts'[i]
    <2>1. /\ i \in DOMAIN Finishes /\ Finishes[i] \in Nat
          /\ Finishes[i] <= now /\ now \in Nat
          /\ i \in 1..Len(Starts)
      <3>1. i \in 1..Len(Finishes) /\ i \in DOMAIN Finishes /\ now \in Nat
        BY <1>1, LedgerTypes
      <3>2. Finishes[i] \in Nat
        BY <3>1, LedgerTypes, ElementOfSeq
      <3>3. Finishes[i] <= now
        BY <3>1 DEF AllInv, PInv
      <3>4. QED
        BY <1>1, <3>1, <3>2, <3>3
    <2>2. Finishes[i] # 0 => who'[Finishes[i]] = who[Finishes[i]]
      BY <2>1, WhoKept
    <2>3. Finishes[i] <= now'
      BY <2>1, WhoKept
    <2>4. QED
      BY <1>1, <1>2, <2>1, <2>2, <2>3 DEF AllInv, PInv, Pairing
  <1>6. QED
    BY <1>1, <1>2, <1>3, <1>4, <1>5 DEF Pairing

LEMMA FinishedPairs ==
  ASSUME AllInv, NEW car \in Nat, who' = who \/ who' = Append(who, car),
         NEW t \in Nat, Finished(t), t <= now',
         t # 0 /\ who'[t] # 0 => who'[t] = course[1].car
  PROVE  Pairing' /\ \A i \in DOMAIN Finishes' : Finishes'[i] <= now'
  <1> DEFINE count == Len(Finishes)
  <1>1. /\ Starts' = Starts /\ Finishes' = Append(Finishes, t) /\ course' = Tail(course)
        /\ Finishes \in Seq(Nat) /\ course \in Seq(Cars) /\ course # <<>>
        /\ count \in Nat /\ Len(course) \in Nat \ {0}
        /\ DOMAIN course = 1..Len(course)
        /\ Len(Starts) = count + Len(course)
    BY LedgerTypes, EmptySeq DEF Finished, AllInv, CourseOK
  <1>2. /\ Len(Finishes') = count + 1
        /\ Finishes'[count + 1] = t
        /\ \A i \in 1..count : Finishes'[i] = Finishes[i]
        /\ DOMAIN Finishes' = 1..(count + 1)
    BY <1>1, Appended
  <1>3. /\ Len(course') = Len(course) - 1 /\ DOMAIN course' = 1..(Len(course) - 1)
        /\ \A i \in 1..(Len(course) - 1) : course'[i] = course[i + 1]
    <2>1. /\ Tail(course) \in Seq(Cars) /\ Len(Tail(course)) = Len(course) - 1
          /\ \A i \in 1..Len(Tail(course)) : Tail(course)[i] = course[i + 1]
      BY <1>1, HeadTailProperties
    <2>2. DOMAIN Tail(course) = 1..Len(Tail(course))
      BY <2>1, LenProperties
    <2>3. QED
      BY <1>1, <2>1, <2>2
  <1>4. \A i \in 1..Len(course) : Starts[count + i] = course[i].car
    BY <1>1 DEF AllInv, PInv, Pairing
  <1>5. ASSUME NEW i \in DOMAIN course'
        PROVE  Starts'[Len(Finishes') + i] = course'[i].car
    <2>1. i + 1 \in 1..Len(course) /\ count + (i + 1) = (count + 1) + i
      BY <1>1, <1>3
    <2>2. Starts[count + (i + 1)] = course[i + 1].car
      BY <1>4, <2>1
    <2>3. QED
      BY <1>1, <1>2, <1>3, <2>1, <2>2
  <1>6. ASSUME NEW i \in DOMAIN Finishes'
        PROVE  /\ Finishes'[i] <= now'
               /\ Finishes'[i] # 0 /\ who'[Finishes'[i]] # 0 => who'[Finishes'[i]] = Starts'[i]
    <2>1. CASE i = count + 1
      <3>1. Starts[count + 1] = course[1].car
        BY <1>1, <1>4
      <3>2. QED
        BY <1>1, <1>2, <2>1, <3>1
    <2>2. CASE i # count + 1
      <3>1. i \in 1..count /\ i \in DOMAIN Finishes /\ now \in Nat
        <4>1. DOMAIN Finishes = 1..count /\ now \in Nat
          BY LedgerTypes
        <4>2. QED
          BY <1>1, <1>2, <2>2, <4>1
      <3>2. Finishes[i] \in Nat /\ Finishes[i] <= now
        BY <1>1, <3>1, ElementOfSeq DEF AllInv, PInv
      <3>3. Finishes[i] <= now' /\ (Finishes[i] # 0 => who'[Finishes[i]] = who[Finishes[i]])
        BY <3>1, <3>2, WhoKept
      <3>4. QED
        BY <1>1, <1>2, <3>1, <3>3 DEF AllInv, PInv, Pairing
    <2>3. QED
      BY <2>1, <2>2
  <1>7. Len(Starts') = Len(Finishes') + Len(course')
    BY <1>1, <1>2, <1>3
  <1>8. QED
    BY <1>5, <1>6, <1>7 DEF Pairing

LEMMA DroppedPairs ==
  ASSUME AllInv, who' = who, Dropped
  PROVE  Pairing' /\ \A i \in DOMAIN Finishes' : Finishes'[i] <= now'
  <1> DEFINE count == Len(Finishes)
  <1>1. /\ Starts' = Without1(Starts) /\ Finishes' = Finishes /\ course' = Front(course)
        /\ Starts \in Seq(Nat) /\ course \in Seq(Cars) /\ course # <<>>
        /\ count \in Nat /\ Len(course) \in Nat \ {0}
        /\ DOMAIN course = 1..Len(course) /\ DOMAIN Finishes = 1..count
        /\ Len(Starts) = count + Len(course)
    BY LedgerTypes, EmptySeq DEF Dropped, AllInv, CourseOK
  <1>2. Starts # <<>>
    BY <1>1, EmptySeq
  <1>3. /\ Len(Starts') = Len(Starts) - 1
        /\ \A i \in 1..(Len(Starts) - 1) : Starts'[i] = Starts[i]
    BY <1>1, <1>2, Shortened DEF Without1
  <1>4. /\ Len(course') = Len(course) - 1 /\ DOMAIN course' = 1..(Len(course) - 1)
        /\ \A i \in 1..(Len(course) - 1) : course'[i] = course[i]
    BY <1>1, Shortened DEF Front
  <1>5. ASSUME NEW i \in DOMAIN course'
        PROVE  Starts'[Len(Finishes') + i] = course'[i].car
    <2>1. i \in 1..Len(course) /\ i \in 1..(Len(course) - 1) /\ count + i \in 1..(Len(Starts) - 1)
      BY SMTT(30), <1>1, <1>4
    <2>2. Starts[count + i] = course[i].car
      BY <1>1, <2>1 DEF AllInv, PInv, Pairing
    <2>3. QED
      BY <1>1, <1>3, <1>4, <2>1, <2>2
  <1>6. ASSUME NEW i \in DOMAIN Finishes'
        PROVE  /\ Finishes'[i] <= now'
               /\ Finishes'[i] # 0 /\ who'[Finishes'[i]] # 0 => who'[Finishes'[i]] = Starts'[i]
    <2>1. i \in DOMAIN Finishes /\ i \in 1..(Len(Starts) - 1) /\ now' = now
      BY <1>1 DEF now
    <2>2. QED
      BY <1>1, <1>3, <2>1 DEF AllInv, PInv, Pairing
  <1>7. Len(Starts') = Len(Finishes') + Len(course')
    BY <1>1, <1>3, <1>4
  <1>8. QED
    BY <1>5, <1>6, <1>7 DEF Pairing

\* What the timer does to the start and the finish list.
LEMMA StartTaken ==
  ASSUME AllInv, NEW time \in Nat, Event(0, time)
  PROVE  /\ timestamps'[0] = Append(timestamps[0], time)
         /\ timestamps'[finish] = timestamps[finish]
         /\ finish' = finish /\ lasttick' = lasttick
  <1>1. finish \in Nat \ {0} /\ 0 \in Sensors /\ finish \in Sensors
    BY SensorFacts DEF AllInv, IInv, TimerTypeOK
  <1>2. DoStart(time)
    BY <1>1 DEF Event
  <1>3. QED
    BY <1>1, <1>2 DEF DoStart, AllInv, IInv, TimerTypeOK, finish

LEMMA FinishTaken ==
  ASSUME AllInv, NEW time \in Nat, DoFinish(time),
         Len(timestamps[0]) > Len(timestamps[finish])
  PROVE  /\ timestamps'[finish] = Append(timestamps[finish], time)
         /\ timestamps'[0] = timestamps[0]
         /\ finish' = finish /\ lasttick' = lasttick
  <1>1. /\ 0 \in Sensors /\ finish \in Sensors /\ finish # 0
        /\ Len(timestamps[0]) \in Nat /\ Len(timestamps[finish]) \in Nat
    BY LedgerTypes, LenProperties
  <1>2. ~(Len(timestamps[finish]) >= Len(timestamps[0]))
    BY <1>1
  <1>3. QED
    BY <1>1, <1>2 DEF DoFinish, finish

LEMMA OtherHit ==
  ASSUME AllInv, NEW sensor \in Nat \ {0}, NEW time \in Nat, Event(sensor, time),
         \/ sensor # finish
         \/ Len(timestamps[0]) = Len(timestamps[finish])
  PROVE  /\ timestamps'[0] = timestamps[0]
         /\ timestamps'[finish] = timestamps[finish]
         /\ finish' = finish /\ lasttick' = lasttick
  <1>1. finish \in Nat \ {0} /\ 0 \in Sensors /\ finish \in Sensors
    BY SensorFacts DEF AllInv, IInv, TimerTypeOK
  <1>2. CASE sensor > finish
    BY <1>2 DEF Event, timerVars, finish
  <1>3. CASE sensor = finish
    <2>1. DoFinish(time) /\ Len(timestamps[0]) = Len(timestamps[finish])
      BY <1>1, <1>3 DEF Event
    <2>2. Len(timestamps[0]) \in Nat
      BY LedgerTypes, LenProperties
    <2>3. QED
      BY <2>1, <2>2 DEF DoFinish, finish
  <1>4. CASE ~(sensor > finish) /\ sensor # finish
    <2>1. DoSegment(sensor, time) /\ sensor # 0 /\ sensor \in Sensors
      BY <1>1, <1>4 DEF Event, Sensors
    <2>2. QED
      BY <1>1, <1>4, <2>1 DEF DoSegment, AllInv, IInv, TimerTypeOK, finish
  <1>5. QED
    BY <1>2, <1>3, <1>4

\* Taking back what was just added.
LEMMA AddedAndRemoved ==
  ASSUME NEW list \in Seq(Nat), NEW t \in Nat
  PROVE  /\ Without1(Append(list, t)) = list
         /\ Append(list, t) # <<>>
  <1>1. Append(list, t) # <<>> /\ Append(list, t) \in Seq(Nat)
    BY AppendProperties
  <1>2. /\ Len(Append(list, t)) = Len(list) + 1 /\ Len(list) \in Nat
        /\ \A i \in 1..Len(list) : Append(list, t)[i] = list[i]
    BY Appended, LenProperties
  <1>3. /\ Without1(Append(list, t)) \in Seq(Nat)
        /\ Len(Without1(Append(list, t))) = Len(list)
        /\ \A i \in 1..Len(list) : Without1(Append(list, t))[i] = list[i]
    BY <1>1, <1>2, Shortened DEF Without1
  <1>4. QED
    BY <1>1, <1>3, SeqEqual

\* A step that keeps the lists, the false hit and the cars keeps the rows.
LEMMA KeptLists ==
  ASSUME timestamps'[0] = timestamps[0], finish' = finish,
         timestamps'[finish] = timestamps[finish], phantom' = phantom,
         DOMAIN course' = DOMAIN course, Len(course') = Len(course),
         \A i \in DOMAIN course : course'[i].car = course[i].car
  PROVE  Kept
  BY DEF Kept, Starts, Finishes, Without1

LEMMA TickKept ==
  ASSUME AllInv, NEW car \in Nat, who' = who \/ who' = Append(who, car),
         lasttick' = lasttick
  PROVE  /\ lasttick' <= now'
         /\ lasttick' # 0 => who'[lasttick'] = 0
  <1>1. lasttick \in Nat /\ lasttick <= now /\ now \in Nat
    BY LedgerTypes DEF AllInv, IInv, TimerTypeOK, PInv
  <1>2. QED
    BY <1>1, WhoKept DEF AllInv, PInv

LEMMA CarStartsPairs ==
  ASSUME AllInv, CarStarts
  PROVE  PInv'
  <1>1. /\ now + 1 \in Nat /\ who' = Append(who, now + 1)
        /\ Event(0, now + 1) /\ phantom # "start" /\ phantom' = phantom
    BY LedgerTypes DEF CarStarts, Hit
  <1>2. /\ timestamps'[0] = Append(timestamps[0], now + 1)
        /\ timestamps'[finish] = timestamps[finish]
        /\ finish' = finish /\ lasttick' = lasttick
    BY <1>1, StartTaken
  <1>3. Started
    <2>1. /\ Starts' = Append(Starts, now + 1) /\ Finishes' = Finishes
      BY <1>1, <1>2 DEF Starts, Finishes, Without1
    <2>2. [car |-> now + 1, next |-> 1, stopped |-> FALSE] \in Cars
      BY <1>1 DEF Cars
    <2>3. QED
      BY <2>1, <2>2 DEF CarStarts, Started
  <1>4. QED
    BY <1>1, <1>2, <1>3, StartedPairs, TickKept DEF PInv, AllInv

\* While a car is on the course, a row waits for its finish.
LEMMA OpenRow ==
  ASSUME AllInv, phantom # "finish", course # <<>>
  PROVE  Len(timestamps[0]) > Len(timestamps[finish])
  <1>1. Finishes = timestamps[finish]
    BY DEF Finishes
  <1>2. /\ Len(Starts) \in Nat /\ Len(Finishes) \in Nat
        /\ Len(Starts) = Len(Finishes) + Len(course) /\ Len(course) \in Nat \ {0}
    BY LedgerTypes, EmptySeq DEF AllInv, CourseOK
  <1>3. Len(timestamps[0]) \in Nat /\ Len(timestamps[0]) >= Len(Starts)
    <2>1. CASE phantom = "start"
      BY <2>1, LedgerTypes, Shortened DEF AllInv, PInv, Starts, Without1
    <2>2. CASE phantom # "start"
      BY <2>2, <1>2 DEF Starts
    <2>3. QED
      BY <2>1, <2>2
  <1>4. QED
    BY <1>1, <1>2, <1>3

LEMMA FinishPairs ==
  ASSUME AllInv, phantom # "finish", course # <<>>, course' = Tail(course),
         phantom' = phantom, NEW time \in Nat, DoFinish(time),
         NEW car \in Nat, who' = who \/ who' = Append(who, car),
         time <= now', time # 0 /\ who'[time] # 0 => who'[time] = course[1].car
  PROVE  PInv'
  <1>1. Finishes = timestamps[finish]
    BY DEF Finishes
  <1>2. Len(timestamps[0]) > Len(timestamps[finish])
    BY OpenRow
  <1>3. /\ timestamps'[finish] = Append(timestamps[finish], time)
        /\ timestamps'[0] = timestamps[0]
        /\ finish' = finish /\ lasttick' = lasttick
    BY <1>2, FinishTaken
  <1>4. Finished(time)
    BY <1>1, <1>3 DEF Finished, Starts, Finishes, Without1
  <1>5. QED
    BY <1>3, <1>4, FinishedPairs, TickKept DEF PInv, AllInv

LEMMA KeptStep ==
  ASSUME AllInv, NEW car \in Nat, who' = who \/ who' = Append(who, car),
         timestamps'[0] = timestamps[0], finish' = finish, lasttick' = lasttick,
         timestamps'[finish] = timestamps[finish], phantom' = phantom,
         DOMAIN course' = DOMAIN course, Len(course') = Len(course),
         \A i \in DOMAIN course : course'[i].car = course[i].car
  PROVE  PInv'
  <1>1. Kept
    BY KeptLists
  <1>2. QED
    BY <1>1, KeptPairs, TickKept DEF PInv, AllInv

LEMMA FalseHitPairs ==
  ASSUME AllInv, NEW sensor \in 0..lights, FalseHit(sensor)
  PROVE  PInv'
  <1>1. /\ now + 1 \in Nat /\ who' = Append(who, 0) /\ Event(sensor, now + 1)
        /\ phantom = "none" /\ course' = course /\ sensor \in Nat
    BY SMTT(30), LedgerTypes, SensorFacts DEF FalseHit, Hit, AllInv, IInv, TimerTypeOK
  <1>2. /\ Starts = timestamps[0] /\ Finishes = timestamps[finish]
        /\ timestamps[0] \in Seq(Nat) /\ timestamps[finish] \in Seq(Nat)
        /\ finish \in Nat \ {0}
    BY <1>1, LedgerTypes, SensorFacts DEF Starts, Finishes, AllInv, IInv, TimerTypeOK
  <1>3. CASE sensor = 0
    <2>1. /\ timestamps'[0] = Append(timestamps[0], now + 1)
          /\ timestamps'[finish] = timestamps[finish]
          /\ finish' = finish /\ lasttick' = lasttick /\ phantom' = "start"
      BY <1>1, <1>3, StartTaken DEF FalseHit
    <2>2. Starts' = Starts /\ timestamps'[0] # <<>>
      BY <1>1, <1>2, <2>1, AddedAndRemoved DEF Starts, Without1
    <2>3. Kept
      BY <1>1, <1>2, <2>1, <2>2 DEF Kept, Finishes
    <2>4. QED
      BY <1>1, <2>1, <2>2, <2>3, KeptPairs, TickKept DEF PInv, AllInv
  <1>4. CASE sensor = finish /\ course # <<>>
    <2>1. DoFinish(now + 1) /\ phantom' = "finish"
      BY <1>1, <1>2, <1>4 DEF Event, FalseHit
    <2>2. Len(timestamps[0]) > Len(timestamps[finish])
      <3>1. /\ Len(Starts) \in Nat /\ Len(Finishes) \in Nat
            /\ Len(Starts) = Len(Finishes) + Len(course) /\ Len(course) \in Nat \ {0}
        BY <1>4, LedgerTypes, EmptySeq DEF AllInv, CourseOK
      <3>2. QED
        BY <1>2, <3>1
    <2>3. /\ timestamps'[finish] = Append(timestamps[finish], now + 1)
          /\ timestamps'[0] = timestamps[0]
          /\ finish' = finish /\ lasttick' = lasttick
      BY <1>1, <2>1, <2>2, FinishTaken
    <2>4. Finishes' = Finishes /\ timestamps'[finish'] # <<>>
      BY <1>1, <1>2, <2>1, <2>3, AddedAndRemoved DEF Finishes, Without1
    <2>5. Kept
      BY <1>1, <1>2, <2>1, <2>3, <2>4 DEF Kept, Starts
    <2>6. QED
      BY <1>1, <2>1, <2>3, <2>4, <2>5, KeptPairs, TickKept DEF PInv, AllInv
  <1>5. CASE sensor # 0 /\ ~(sensor = finish /\ course # <<>>)
    <2>1. sensor # finish \/ Len(timestamps[0]) = Len(timestamps[finish])
      <3>1. course = <<>> => Len(course) = 0
        BY EmptySeq
      <3>2. /\ Len(Starts) \in Nat /\ Len(Finishes) \in Nat
            /\ Len(Starts) = Len(Finishes) + Len(course)
        BY LedgerTypes
      <3>3. QED
        BY <1>2, <1>5, <3>1, <3>2
    <2>2. /\ timestamps'[0] = timestamps[0]
          /\ timestamps'[finish] = timestamps[finish]
          /\ finish' = finish /\ lasttick' = lasttick
      BY <1>1, <1>5, <2>1, OtherHit
    <2>3. phantom' = phantom
      BY <1>1, <1>5 DEF FalseHit
    <2>4. QED
      BY <1>1, <2>2, <2>3, KeptStep
  <1>6. QED
    BY <1>3, <1>4, <1>5

LEMMA DeleteStartPairs ==
  ASSUME AllInv, PressDeleteStart
  PROVE  PInv'
  <1>1. /\ finish' = finish /\ lasttick' = lasttick /\ who' = who /\ phantom' = "none"
        /\ 0 \in Sensors /\ finish \in Sensors /\ finish # 0
        /\ timestamps[0] \in Seq(Nat)
        /\ Len(Starts) \in Nat /\ Len(Finishes) \in Nat
        /\ Len(Starts) = Len(Finishes) + Len(course) /\ Len(course) \in Nat
    BY LedgerTypes DEF PressDeleteStart, DeleteStart, finish
  <1>2. CASE phantom = "start"
    <2>1. /\ Starts = Without1(timestamps[0]) /\ Finishes = timestamps[finish]
          /\ timestamps[0] # <<>> /\ course' = course
      BY <1>2 DEF Starts, Finishes, AllInv, PInv, PressDeleteStart
    <2>2. Len(timestamps[0]) > Len(timestamps[finish])
      BY <1>1, <2>1, Shortened DEF Without1
    <2>3. timestamps' = [timestamps EXCEPT ![0] = Without1(timestamps[0])]
      BY <2>2 DEF PressDeleteStart, DeleteStart, Without1
    <2>4. timestamps'[0] = Without1(timestamps[0]) /\ timestamps'[finish] = timestamps[finish]
      BY <1>1, <2>3 DEF AllInv, IInv, TimerTypeOK
    <2>5. Kept
      BY <1>1, <2>1, <2>4 DEF Kept, Starts, Finishes
    <2>6. QED
      BY <1>1, <2>5, KeptPairs, TickKept DEF PInv, AllInv
  <1>3. CASE phantom # "start"
    <2>1. /\ phantom = "none" /\ course # <<>> /\ course' = Front(course)
          /\ Starts = timestamps[0] /\ Finishes = timestamps[finish]
      BY <1>3 DEF Starts, Finishes, PressDeleteStart
    <2>2. Len(timestamps[0]) > Len(timestamps[finish])
      BY <1>1, <2>1, EmptySeq DEF AllInv, CourseOK
    <2>3. timestamps' = [timestamps EXCEPT ![0] = Without1(timestamps[0])]
      BY <2>2 DEF PressDeleteStart, DeleteStart, Without1
    <2>4. timestamps'[0] = Without1(timestamps[0]) /\ timestamps'[finish] = timestamps[finish]
      BY <1>1, <2>3 DEF AllInv, IInv, TimerTypeOK
    <2>5. Dropped
      BY <1>1, <2>1, <2>4 DEF Dropped, Starts, Finishes
    <2>6. QED
      BY <1>1, <2>5, DroppedPairs, TickKept DEF PInv, AllInv
  <1>4. QED
    BY <1>2, <1>3

LEMMA DeleteFinishPairs ==
  ASSUME AllInv, PressDeleteFinish
  PROVE  PInv'
  <1>1. /\ finish' = finish /\ lasttick' = lasttick /\ who' = who /\ phantom' = "none"
        /\ course' = course /\ phantom = "finish" /\ timestamps[finish] # <<>>
        /\ 0 \in Sensors /\ finish \in Sensors /\ finish # 0
    BY LedgerTypes DEF PressDeleteFinish, DeleteFinish, finish, AllInv, PInv
  <1>2. timestamps' = [timestamps EXCEPT ![finish] = Without1(timestamps[finish])]
    BY <1>1 DEF PressDeleteFinish, DeleteFinish, Without1
  <1>3. timestamps'[finish] = Without1(timestamps[finish]) /\ timestamps'[0] = timestamps[0]
    BY <1>1, <1>2 DEF AllInv, IInv, TimerTypeOK
  <1>4. Kept
    BY <1>1, <1>3 DEF Kept, Starts, Finishes
  <1>5. QED
    BY <1>1, <1>4, KeptPairs, TickKept DEF PInv, AllInv

LEMMA ResetPairs ==
  ASSUME AllInv, NEW count \in LightCounts, PressReset(count)
  PROVE  PInv'
  <1>1. /\ phantom' = "none" /\ course' = <<>> /\ lasttick' = 0 /\ who' = who
        /\ finish' = count - 1 /\ count \in Nat \ {0, 1}
        /\ timestamps' = [s \in 0..(count - 1) |-> <<>>]
    BY DEF PressReset, SetLights, finish
  <1>2. timestamps'[0] = <<>> /\ timestamps'[finish'] = <<>>
    BY <1>1
  <1>3. Starts' = <<>> /\ Finishes' = <<>>
    BY <1>1, <1>2 DEF Starts, Finishes
  <1>4. now' \in Nat
    BY <1>1, LedgerTypes DEF now
  <1>5. QED
    BY <1>1, <1>2, <1>3, <1>4, EmptySeq DEF PInv, Pairing

LEMMA PairsStep ==
  ASSUME AllInv, [Next]_vars
  PROVE  PInv'
  <1>1. /\ now + 1 \in Nat /\ finish \in Nat \ {0} /\ lasttick \in Nat /\ lasttick <= now
        /\ Len(course) \in Nat /\ DOMAIN course = 1..Len(course)
    BY SMTT(30), LedgerTypes, SensorFacts DEF AllInv, IInv, TimerTypeOK, PInv
  <1>2. CASE CarStarts
    BY <1>2, CarStartsPairs
  <1>3. CASE CarFinishes
    <2>1. /\ who' = Append(who, course[1].car) /\ Event(finish, now + 1)
          /\ phantom # "finish" /\ phantom' = phantom
          /\ course # <<>> /\ course' = Tail(course)
      BY <1>3 DEF CarFinishes, Hit
    <2>2. DoFinish(now + 1)
      BY <1>1, <2>1 DEF Event
    <2>3. course[1].car \in Nat
      <3>1. 1 \in DOMAIN course
        BY <2>1, <1>1, EmptySeq DEF AllInv, CourseOK
      <3>2. QED
        BY <3>1, IndexedCar DEF AllInv, Cars
    <2>4. now' = now + 1 /\ who'[now + 1] = course[1].car
      BY <2>1, <2>3, Appended DEF now, AllInv, CourseOK
    <2> DEFINE time == now + 1
               car == course[1].car
    <2>5. /\ time \in Nat /\ car \in Nat /\ time <= now' /\ DoFinish(time)
          /\ time # 0 /\ who'[time] # 0 => who'[time] = course[1].car
          /\ who' = who \/ who' = Append(who, car)
      BY <1>1, <2>1, <2>2, <2>3, <2>4
    <2> HIDE DEF time, car
    <2>6. QED
      BY <2>1, <2>5, FinishPairs
  <1>4. CASE Tick
    <2>1. /\ who' = Append(who, 0) /\ lasttick' = now + 1 /\ UNCHANGED <<lights, timestamps>>
          /\ course' = course /\ phantom' = phantom
      BY <1>4 DEF Tick, UpdateRunningTimers
    <2>2. now' = now + 1 /\ who'[now + 1] = 0
      BY <2>1, Appended DEF now, AllInv, CourseOK
    <2>3. Kept
      BY <2>1 DEF Kept, Starts, Finishes, finish
    <2>4. Pairing' /\ \A i \in DOMAIN Finishes' : Finishes'[i] <= now'
      BY <2>1, <2>3, KeptPairs
    <2>5. lasttick' <= now' /\ who'[lasttick'] = 0
      <3>1. lasttick' = now' /\ now' \in Nat
        BY <1>1, <2>1, <2>2
      <3>2. who'[lasttick'] = who'[now + 1]
        BY <2>1
      <3>3. QED
        BY <2>2, <3>1, <3>2
    <2>6. /\ phantom' = "start" => timestamps'[0] # <<>>
          /\ phantom' = "finish" => timestamps'[finish'] # <<>>
      BY <2>1 DEF PInv, AllInv, finish
    <2>7. QED
      BY <2>4, <2>5, <2>6 DEF PInv
  <1>5. ASSUME NEW i \in DOMAIN course, CarStops(i)
        PROVE  PInv'
    <2>1. /\ who' = who /\ UNCHANGED timerVars /\ phantom' = phantom
          /\ course' = [course EXCEPT ![i].stopped = TRUE]
      BY <1>5 DEF CarStops
    <2>2. /\ DOMAIN course' = DOMAIN course
          /\ \A j \in DOMAIN course : course'[j].car = course[j].car
      BY <2>1
    <2>3. course \in Seq(Cars) /\ course' \in Seq(Cars)
      BY <1>5, StepFacts DEF AllInv, CourseOK, Next
    <2>4. Len(course') = Len(course)
      BY <2>2, <2>3, LenProperties
    <2>5. QED
      BY <2>1, <2>2, <2>4, KeptStep DEF timerVars, finish
  <1>6. ASSUME NEW i \in DOMAIN course, NEW sensor \in Inner, NEW seen \in BOOLEAN,
               CarPasses(i, sensor, seen)
        PROVE  PInv'
    <2>1. /\ phantom' = phantom /\ course' = [course EXCEPT ![i].next = @ + 1]
          /\ course[i].car \in Nat
      BY <1>6, IndexedCar DEF CarPasses, AllInv, Cars
    <2>2. /\ DOMAIN course' = DOMAIN course
          /\ \A j \in DOMAIN course : course'[j].car = course[j].car
      BY <2>1
    <2>3. course \in Seq(Cars) /\ course' \in Seq(Cars)
      BY <1>6, StepFacts DEF AllInv, CourseOK, Next
    <2>4. Len(course') = Len(course)
      BY <2>2, <2>3, LenProperties
    <2>5. /\ who' = who \/ who' = Append(who, course[i].car)
          /\ timestamps'[0] = timestamps[0] /\ timestamps'[finish] = timestamps[finish]
          /\ finish' = finish /\ lasttick' = lasttick
      <3>1. CASE seen
        <4>1. /\ who' = Append(who, course[i].car) /\ Event(sensor, now + 1)
              /\ sensor \in Nat \ {0} /\ sensor # finish
          BY <1>1, <1>6, <3>1 DEF CarPasses, Hit, Inner
        <4>2. QED
          BY <1>1, <4>1, OtherHit
      <3>2. CASE ~seen
        BY <1>6, <3>2 DEF CarPasses, timerVars, finish
      <3>3. QED
        BY <3>1, <3>2
    <2>6. QED
      BY <2>1, <2>2, <2>4, <2>5, KeptStep
  <1>7. ASSUME NEW sensor \in 0..lights, FalseHit(sensor)
        PROVE  PInv'
    BY <1>7, FalseHitPairs
  <1>8. CASE PressDeleteStart
    BY <1>8, DeleteStartPairs
  <1>9. CASE PressDeleteFinish
    BY <1>9, DeleteFinishPairs
  <1>10. CASE PressFakeFinish
    <2>1. /\ phantom # "finish" /\ phantom' = phantom /\ course # <<>>
          /\ course' = Tail(course) /\ DoFinish(lasttick) /\ who' = who
      BY <1>10 DEF PressFakeFinish, FakeFinish
    <2>2. lasttick <= now' /\ (lasttick # 0 => who'[lasttick] = 0)
      BY <1>1, <2>1 DEF AllInv, PInv, now
    <2>3. who' = who \/ who' = Append(who, 0)
      BY <2>1
    <2>4. lasttick # 0 /\ who'[lasttick] # 0 => who'[lasttick] = course[1].car
      BY <2>2
    <2>5. QED
      BY <1>1, <2>1, <2>2, <2>3, <2>4, FinishPairs
  <1>11. ASSUME NEW count \in LightCounts, PressReset(count)
         PROVE  PInv'
    BY <1>11, ResetPairs
  <1>12. CASE UNCHANGED vars
    <2>1. /\ who' = who \/ who' = Append(who, 0)
          /\ timestamps' = timestamps /\ finish' = finish /\ lasttick' = lasttick
          /\ phantom' = phantom /\ course' = course
      BY <1>12 DEF vars, timerVars, finish
    <2>2. QED
      BY <2>1, KeptStep
  <1>13. QED
    BY <1>2, <1>3, <1>4, <1>5, <1>6, <1>7, <1>8, <1>9, <1>10, <1>11, <1>12 DEF Next

LEMMA InitPairs ==
  ASSUME Init
  PROVE  PInv
  <1>1. /\ phantom = "none" /\ course = <<>> /\ who = <<>> /\ lasttick = 0
        /\ timestamps = [s \in Sensors |-> <<>>] /\ lights \in LightCounts
    BY DEF Init
  <1>2. timestamps[0] = <<>> /\ timestamps[finish] = <<>>
    BY <1>1, SensorFacts
  <1>3. Starts = <<>> /\ Finishes = <<>> /\ now = 0
    BY <1>1, <1>2, EmptySeq DEF Starts, Finishes, now
  <1>4. QED
    BY <1>1, <1>3, EmptySeq DEF PInv, Pairing

\* The rows are the cars in the order they started: a finish is never given to
\* another car than the one whose start is in its row, whatever false hits,
\* failed lights, stopped cars and corrections came before, provided the
\* operator corrects as TimedCourse assumes.
THEOREM RowsAreCars == Spec => []Pairing
  <1>1. Init => AllInv
    BY InitFacts, InitPairs DEF AllInv
  <1>2. AllInv /\ [Next]_vars => AllInv'
    BY StepFacts, PairsStep DEF AllInv
  <1>3. AllInv => Pairing
    BY DEF AllInv, PInv
  <1>4. QED
    BY <1>1, <1>2, <1>3, PTL DEF Spec

-----------------------------------------------------------------------------
(* The segments are the cars' own.  While nothing went wrong, the cars that *)
(* have passed a light are the first ones on the course, and its list ends  *)
(* with their stamps.                                                       *)

SegmentInv(s) ==
    /\ Len(timestamps[s]) <= Len(timestamps[finish]) + Len(course)
    /\ \A j \in DOMAIN course :
          course[j].next > s <=> Len(timestamps[finish]) + j <= Len(timestamps[s])
    /\ \A i \in DOMAIN timestamps[s] :
          /\ timestamps[s][i] <= now
          /\ timestamps[s][i] # 0 => who[timestamps[s][i]] = Starts[i]

SInv == ~flawed => phantom # "finish" /\ \A s \in Inner : SegmentInv(s)

LEMMA SegmentTypes ==
  ASSUME AllInv, NEW s \in Inner
  PROVE  /\ s \in Nat /\ s > 0 /\ s < finish /\ s \in Sensors /\ s - 1 \in Sensors
         /\ finish \in Nat
         /\ timestamps[s] \in Seq(Nat) /\ Len(timestamps[s]) \in Nat
         /\ DOMAIN timestamps[s] = 1..Len(timestamps[s])
         /\ Len(timestamps[finish]) \in Nat
         /\ Len(timestamps[finish]) <= Len(timestamps[s])
         /\ phantom # "finish" => Len(Starts) = Len(timestamps[finish]) + Len(course)
  <1>1. /\ s \in Nat /\ s > 0 /\ s < finish /\ s \in Sensors /\ s - 1 \in Sensors
        /\ finish \in Nat
    BY SensorFacts DEF AllInv, IInv, TimerTypeOK, Inner, Sensors
  <1>2. QED
    BY <1>1, ListFacts, LedgerTypes, LenProperties DEF AllInv, Finishes

\* The stamps a light has keep their cars.
LEMMA StampsKept ==
  ASSUME AllInv, NEW s \in Inner, SegmentInv(s), phantom # "finish",
         NEW car \in Nat, who' = who \/ who' = Append(who, car),
         \A i \in 1..Len(Starts) : Starts'[i] = Starts[i],
         NEW i \in 1..Len(timestamps[s])
  PROVE  /\ timestamps[s][i] <= now'
         /\ timestamps[s][i] # 0 => who'[timestamps[s][i]] = Starts'[i]
  <1> DEFINE t == timestamps[s][i]
  <1>0. Len(timestamps[s]) <= Len(timestamps[finish]) + Len(course)
    BY DEF SegmentInv
  <1>1. t \in Nat /\ i \in 1..Len(Starts)
    <2>1. /\ timestamps[s] \in Seq(Nat) /\ Len(timestamps[s]) \in Nat
          /\ Len(Starts) = Len(timestamps[finish]) + Len(course) /\ Len(Starts) \in Nat
      BY SegmentTypes, LedgerTypes
    <2>2. QED
      BY <1>0, <2>1, ElementOfSeq
  <1>2. t <= now /\ (t # 0 => who[t] = Starts[i])
    BY SegmentTypes DEF SegmentInv
  <1> HIDE DEF t
  <1>3. now \in Nat /\ now' \in Nat /\ now <= now' /\ \A u \in 1..now : who'[u] = who[u]
    BY WhoKept, LedgerTypes
  <1>4. t <= now' /\ (t # 0 => who'[t] = Starts'[i])
    BY <1>1, <1>2, <1>3
  <1>5. QED
    BY <1>4 DEF t

\* No car passes the light, and none leaves the course.
LEMMA SegmentKept ==
  ASSUME AllInv, NEW s \in Inner, SegmentInv(s), phantom # "finish",
         NEW car \in Nat, who' = who \/ who' = Append(who, car),
         timestamps'[s] = timestamps[s], timestamps'[finish] = timestamps[finish],
         finish' = finish,
         \A i \in 1..Len(Starts) : Starts'[i] = Starts[i],
         Len(course') \in Nat, Len(course') >= Len(course), DOMAIN course' = 1..Len(course'),
         \A j \in DOMAIN course' :
            course'[j].next > s <=> j \in DOMAIN course /\ course[j].next > s
  PROVE  SegmentInv(s)'
  <1>1. /\ Len(course) \in Nat /\ DOMAIN course = 1..Len(course)
        /\ Len(timestamps[s]) \in Nat /\ Len(timestamps[finish]) \in Nat
        /\ DOMAIN timestamps[s] = 1..Len(timestamps[s])
        /\ Len(timestamps[s]) <= Len(timestamps[finish]) + Len(course)
    BY LedgerTypes, SegmentTypes DEF SegmentInv
  <1>2. ASSUME NEW j \in DOMAIN course'
        PROVE  course'[j].next > s <=> Len(timestamps[finish]) + j <= Len(timestamps[s])
    BY <1>1 DEF SegmentInv
  <1>3. ASSUME NEW i \in 1..Len(timestamps[s])
        PROVE  /\ timestamps[s][i] <= now'
               /\ timestamps[s][i] # 0 => who'[timestamps[s][i]] = Starts'[i]
    BY StampsKept
  <1>4. QED
    BY <1>1, <1>2, <1>3 DEF SegmentInv

\* The next car passes the light.
LEMMA SegmentHit ==
  ASSUME AllInv, NEW s \in Inner, SegmentInv(s), phantom # "finish",
         s - 1 \in Inner => SegmentInv(s - 1),
         NEW i \in DOMAIN course, course[i].next = s,
         \A j \in 1..(i - 1) : course[j].next > s,
         DoSegment(s, now + 1), who' = Append(who, course[i].car), phantom' = phantom,
         course' = [course EXCEPT ![i].next = @ + 1], Len(course') = Len(course)
  PROVE  SegmentInv(s)'
  <1> DEFINE count == Len(timestamps[finish])
  <1>1. /\ Len(course) \in Nat /\ DOMAIN course = 1..Len(course) /\ i \in 1..Len(course)
        /\ Len(timestamps[s]) \in Nat /\ count \in Nat /\ count <= Len(timestamps[s])
        /\ timestamps[s] \in Seq(Nat) /\ s \in Nat /\ s > 0 /\ s # finish
        /\ DOMAIN timestamps[s] = 1..Len(timestamps[s])
        /\ Len(timestamps[s]) <= count + Len(course)
        /\ Len(Starts) = count + Len(course) /\ s \in Sensors /\ s - 1 \in Sensors
        /\ now \in Nat /\ who \in Seq(Nat)
    BY LedgerTypes, SegmentTypes DEF SegmentInv, AllInv, CourseOK
  <1>a. \A j \in DOMAIN course : course[j].next > s <=> count + j <= Len(timestamps[s])
    BY DEF SegmentInv
  <1>b. count = Len(timestamps[finish])
    OBVIOUS
  <1> HIDE DEF count
  <1>2. /\ course \in Seq(Cars) /\ \A j \in 1..Len(course) : course[j].next \in Nat
        /\ course[i].car \in Nat
    BY <1>1, IndexedCar DEF AllInv, CourseOK, Cars
  <1>c. /\ i \in Nat /\ i >= 1 /\ count \in Nat
        /\ Len(timestamps[s]) \in Nat /\ count <= Len(timestamps[s])
    BY <1>1
  <1>3. Len(timestamps[s]) + 1 = count + i
    <2>1. ~(count + i <= Len(timestamps[s]))
      BY <1>1, <1>2, <1>a
    <2>2. ASSUME i > 1
          PROVE  count + (i - 1) <= Len(timestamps[s])
      <3>1. i - 1 \in 1..(i - 1) /\ i - 1 \in DOMAIN course
        BY <1>1, <2>2
      <3>2. course[i - 1].next > s
        BY <3>1
      <3>3. QED
        BY <1>a, <3>1, <3>2
    <2>3. CASE i > 1
      <3>1. count + (i - 1) <= Len(timestamps[s])
        BY <2>2, <2>3
      <3>2. QED
        BY <1>c, <2>1, <3>1
    <2>4. CASE i = 1
      BY <1>c, <2>1, <2>4
    <2>5. QED
      BY <1>c, <2>3, <2>4
  <1>4. Len(timestamps[s]) < Len(timestamps[s - 1])
    <2>1. CASE s = 1
      <3>1. Len(Starts) <= Len(timestamps[0]) /\ Len(timestamps[0]) \in Nat
        <4>1. CASE phantom = "start"
          BY <4>1, LedgerTypes, Shortened DEF AllInv, PInv, Starts, Without1
        <4>2. CASE phantom # "start"
          BY <4>2, <1>1 DEF Starts
        <4>3. QED
          BY <4>1, <4>2
      <3>2. QED
        BY <1>1, <1>3, <2>1, <3>1
    <2>2. CASE s # 1
      <3>1. s - 1 \in Inner
        BY <1>1, <2>2, SegmentTypes DEF Inner
      <3>2. course[i].next > s - 1
        BY <1>1
      <3>3. Len(timestamps[s - 1]) \in Nat /\ count + i <= Len(timestamps[s - 1])
        BY <1>b, <3>1, <3>2, SegmentTypes DEF SegmentInv
      <3>4. QED
        BY <1>c, <1>3, <3>3
    <2>3. QED
      BY <2>1, <2>2
  <1>5. /\ timestamps'[s] = Append(timestamps[s], now + 1)
        /\ timestamps'[finish] = timestamps[finish] /\ timestamps'[0] = timestamps[0]
        /\ finish' = finish
    <2>1. Len(timestamps[s - 1]) \in Nat
      BY <1>1, ListFacts DEF AllInv
    <2>2. timestamps' = [timestamps EXCEPT ![s] = Append(@, now + 1)] /\ lights' = lights
      BY <1>1, <1>4, <2>1 DEF DoSegment
    <2>3. finish' = finish
      BY <2>2 DEF finish
    <2>4. timestamps \in [Sensors -> Seq(Nat)]
      BY DEF AllInv, IInv, TimerTypeOK
    <2>5. 0 \in Sensors /\ finish \in Sensors /\ s \in Sensors /\ s # 0 /\ s # finish
      BY <1>1, LedgerTypes
    <2>6. QED
      BY <2>2, <2>3, <2>4, <2>5
  <1>6. /\ Len(timestamps'[s]) = count + i
        /\ DOMAIN timestamps'[s] = 1..(count + i)
        /\ timestamps'[s][count + i] = now + 1
        /\ \A k \in 1..Len(timestamps[s]) : timestamps'[s][k] = timestamps[s][k]
    BY <1>1, <1>3, <1>5, Appended
  <1>7. Starts' = Starts
    BY <1>5 DEF Starts, Without1
  <1>8. ASSUME NEW j \in 1..Len(course)
        PROVE  course'[j].next > s <=> count + j <= count + i
    <2>1. course'[j].next = IF j = i THEN course[j].next + 1 ELSE course[j].next
      BY <1>1, <1>2 DEF Cars
    <2>2. CASE j = i
      BY <1>1, <1>2, <2>1, <2>2
    <2>3. CASE j # i
      <3>1. course'[j].next = course[j].next
        BY <2>1, <2>3
      <3>2. course[j].next > s <=> count + j <= Len(timestamps[s])
        BY <1>1, <1>a
      <3>3. QED
        BY <1>1, <1>3, <2>3, <3>1, <3>2
    <2>4. QED
      BY <2>2, <2>3
  <1>9. ASSUME NEW k \in 1..(count + i)
        PROVE  /\ timestamps'[s][k] <= now'
               /\ timestamps'[s][k] # 0 => who'[timestamps'[s][k]] = Starts'[k]
    <2>1. now' = now + 1 /\ who'[now + 1] = course[i].car
      BY <1>1, <1>2, Appended DEF now
    <2>2. CASE k = count + i
      <3>1. Starts[count + i] = course[i].car
        BY <1>b DEF AllInv, PInv, Pairing, Finishes
      <3>2. timestamps'[s][k] = now + 1 /\ Starts'[k] = course[i].car
        BY <1>6, <1>7, <2>2, <3>1
      <3>3. now + 1 <= now'
        BY <1>1, <2>1
      <3>4. QED
        BY <2>1, <3>2, <3>3
    <2>3. CASE k # count + i
      <3>1. k \in 1..Len(timestamps[s])
        BY <1>1, <1>3, <2>3
      <3>2. /\ timestamps[s][k] <= now'
            /\ timestamps[s][k] # 0 => who'[timestamps[s][k]] = Starts'[k]
        BY <1>2, <1>7, <3>1, StampsKept
      <3>3. QED
        BY <1>6, <3>1, <3>2
    <2>4. QED
      BY <2>2, <2>3
  <1>10. DOMAIN course' = 1..Len(course)
    BY <1>1
  <1>11. Len(timestamps'[s]) <= count + Len(course)
    BY <1>1, <1>6
  <1>12. Len(timestamps'[finish']) = count
    BY <1>b, <1>5
  <1>13. \A j \in DOMAIN course' :
             course'[j].next > s <=> Len(timestamps'[finish']) + j <= Len(timestamps'[s])
    BY <1>6, <1>8, <1>10, <1>12
  <1>14. \A k \in DOMAIN timestamps'[s] :
             /\ timestamps'[s][k] <= now'
             /\ timestamps'[s][k] # 0 => who'[timestamps'[s][k]] = Starts'[k]
    BY <1>6, <1>9
  <1>15. Len(timestamps'[s]) <= Len(timestamps'[finish']) + Len(course')
    BY <1>11, <1>12
  <1>16. QED
    BY <1>13, <1>14, <1>15 DEF SegmentInv

LEMMA PaddedExactly ==
  ASSUME NEW stamps \in Seq(Nat), NEW count \in Nat
  PROVE  /\ count <= Len(stamps) => Padded(stamps, count) = stamps
         /\ count > Len(stamps) =>
               /\ Len(Padded(stamps, count)) = count
               /\ \A i \in 1..count :
                     Padded(stamps, count)[i] = IF i <= Len(stamps) THEN stamps[i] ELSE 0
  <1> DEFINE zeros == [i \in 1..(count - Len(stamps)) |-> 0]
  <1>1. Len(stamps) \in Nat
    BY LenProperties
  <1>2. CASE count <= Len(stamps)
    <2>1. zeros = <<>>
      BY <1>1, <1>2
    <2>2. Padded(stamps, count) = stamps \o zeros
      BY DEF Padded
    <2> HIDE DEF zeros
    <2>3. stamps \o <<>> = stamps
      BY ConcatEmptySeq
    <2>4. QED
      BY <1>1, <1>2, <2>1, <2>2, <2>3
  <1>3. CASE count > Len(stamps)
    <2>1. zeros \in [1..(count - Len(stamps)) -> Nat] /\ count - Len(stamps) \in Nat
      BY <1>1, <1>3
    <2>2. zeros \in Seq(Nat)
      BY <2>1, SeqDef
    <2>3. Len(zeros) = count - Len(stamps)
      BY <2>1, <2>2, LenProperties
    <2>4. \A i \in 1..(count - Len(stamps)) : zeros[i] = 0
      OBVIOUS
    <2>5. Padded(stamps, count) = stamps \o zeros
      BY DEF Padded
    <2> HIDE DEF zeros
    <2>6. /\ Len(stamps \o zeros) = count
          /\ \A i \in 1..count : (stamps \o zeros)[i] = IF i <= Len(stamps) THEN stamps[i]
                                                        ELSE zeros[i - Len(stamps)]
      BY <1>1, <1>3, <2>1, <2>2, <2>3, ConcatProperties
    <2>7. ASSUME NEW i \in 1..count, ~(i <= Len(stamps))
          PROVE  zeros[i - Len(stamps)] = 0
      <3>1. i - Len(stamps) \in 1..(count - Len(stamps))
        BY <1>1, <2>7
      <3>2. QED
        BY <2>4, <3>1
    <2>8. QED
      BY <1>1, <1>3, <2>5, <2>6, <2>7
  <1>4. QED
    BY <1>1, <1>2, <1>3

\* The first car gets a finish; a light it has not passed gets no stamp of it.
LEMMA SegmentFinish ==
  ASSUME AllInv, NEW s \in Inner, SegmentInv(s), phantom # "finish",
         course # <<>>, course' = Tail(course), phantom' = phantom,
         NEW time \in Nat, DoFinish(time), Len(timestamps[0]) > Len(timestamps[finish]),
         NEW car \in Nat, who' = who \/ who' = Append(who, car)
  PROVE  SegmentInv(s)'
  <1> DEFINE count == Len(timestamps[finish])
             length == Len(timestamps[s])
             stamps == Padded(timestamps[s], count + 1)
  <1>1. /\ Len(course) \in Nat /\ Len(course) > 0 /\ DOMAIN course = 1..Len(course)
        /\ Len(course') = Len(course) - 1 /\ DOMAIN course' = 1..(Len(course) - 1)
        /\ \A j \in 1..(Len(course) - 1) : course'[j] = course[j + 1]
    <2>1. course \in Seq(Cars) /\ course # <<>>
      BY DEF AllInv, CourseOK
    <2>2. QED
      BY <2>1, HeadTailProperties, LenProperties, EmptySeq
  <1>2. /\ length \in Nat /\ count \in Nat /\ count <= length /\ timestamps[s] \in Seq(Nat)
        /\ length <= count + Len(course)
        /\ finish \in Sensors /\ s \in Sensors /\ s # 0 /\ s # finish
    <2>1. length <= count + Len(course)
      BY DEF SegmentInv
    <2>2. s \in Nat /\ finish \in Nat /\ s > 0 /\ s < finish
      BY SegmentTypes
    <2>3. /\ length \in Nat /\ count \in Nat /\ count <= length /\ timestamps[s] \in Seq(Nat)
          /\ s \in Sensors
      BY SegmentTypes
    <2>4. finish \in Sensors
      BY LedgerTypes
    <2>5. s # 0 /\ s # finish
      BY <2>2
    <2>6. QED
      BY <2>1, <2>3, <2>4, <2>5
  <1>3. /\ timestamps'[finish] = Append(timestamps[finish], time)
        /\ timestamps'[0] = timestamps[0] /\ finish' = finish
    BY FinishTaken
  <1>4. timestamps'[s] = stamps
    <2>1. ~(Len(timestamps[finish]) >= Len(timestamps[0]))
      BY LedgerTypes, LenProperties
    <2>2. QED
      BY <1>2, <2>1 DEF DoFinish
  <1>5. Len(timestamps'[finish]) = count + 1
    BY <1>3, LedgerTypes, Appended
  <1>6. Starts' = Starts
    BY <1>3 DEF Starts, Without1
  <1>7. \A j \in 1..Len(course) : course[j].next > s <=> count + j <= length
    BY <1>1 DEF SegmentInv
  <1>8. ASSUME NEW i \in 1..length
        PROVE  /\ timestamps[s][i] <= now'
               /\ timestamps[s][i] # 0 => who'[timestamps[s][i]] = Starts'[i]
    BY <1>6, StampsKept
  <1>9. /\ count + 1 <= length => stamps = timestamps[s]
        /\ count + 1 > length =>
              /\ Len(stamps) = count + 1
              /\ \A i \in 1..(count + 1) : stamps[i] = IF i <= length THEN timestamps[s][i] ELSE 0
    BY <1>2, PaddedExactly
  <1>10. now' \in Nat
    BY WhoKept
  <1> HIDE DEF count, stamps
  <1>11. \A j \in 1..(Len(course) - 1) :
              course'[j].next > s <=> (count + 1) + j <= length
    <2> SUFFICES ASSUME NEW j \in 1..(Len(course) - 1)
                 PROVE  course'[j].next > s <=> (count + 1) + j <= length
      OBVIOUS
    <2>1. j + 1 \in 1..Len(course) /\ course'[j] = course[j + 1]
      BY <1>1
    <2>2. course[j + 1].next > s <=> count + (j + 1) <= length
      BY <1>7, <2>1
    <2>3. count + (j + 1) = (count + 1) + j
      BY <1>2
    <2>4. QED
      BY <2>1, <2>2, <2>3
  <1>12. CASE count + 1 <= length
    <2>1. timestamps'[s] = timestamps[s] /\ DOMAIN timestamps[s] = 1..length
      BY <1>2, <1>4, <1>9, <1>12, LenProperties
    <2>2. Len(timestamps'[s]) <= Len(timestamps'[finish']) + Len(course')
      BY <1>1, <1>2, <1>3, <1>5, <2>1
    <2>3. \A j \in DOMAIN course' :
             course'[j].next > s <=> Len(timestamps'[finish']) + j <= Len(timestamps'[s])
      BY <1>1, <1>3, <1>5, <1>11, <2>1
    <2>4. \A i \in DOMAIN timestamps'[s] :
             /\ timestamps'[s][i] <= now'
             /\ timestamps'[s][i] # 0 => who'[timestamps'[s][i]] = Starts'[i]
      BY <1>8, <2>1
    <2>5. QED
      BY <2>2, <2>3, <2>4 DEF SegmentInv
  <1>13. CASE count + 1 > length
    <2>1. length = count
      BY <1>2, <1>13
    <2>2. /\ Len(timestamps'[s]) = count + 1 /\ timestamps'[s] \in Seq(Nat)
          /\ \A i \in 1..(count + 1) :
                timestamps'[s][i] = IF i <= length THEN timestamps[s][i] ELSE 0
      BY <1>2, <1>4, <1>9, <1>13, PaddedFacts DEF stamps
    <2>3. DOMAIN timestamps'[s] = 1..(count + 1)
      BY <2>2, LenProperties
    <2> HIDE DEF length
    <2>4. Len(timestamps'[s]) <= Len(timestamps'[finish']) + Len(course')
      BY <1>1, <1>2, <1>3, <1>5, <2>2
    <2>5. \A j \in 1..(Len(course) - 1) :
             ((count + 1) + j <= length) <=> ((count + 1) + j <= count + 1)
      BY <1>2, <2>1
    <2>6. \A j \in DOMAIN course' :
             course'[j].next > s <=> Len(timestamps'[finish']) + j <= Len(timestamps'[s])
      BY <1>1, <1>3, <1>5, <1>11, <2>2, <2>5
    <2>7. ASSUME NEW i \in 1..(count + 1)
          PROVE  /\ timestamps'[s][i] <= now'
                 /\ timestamps'[s][i] # 0 => who'[timestamps'[s][i]] = Starts'[i]
      <3>1. CASE i <= length
        <4>1. i \in 1..length /\ timestamps'[s][i] = timestamps[s][i]
          BY <1>2, <2>2, <3>1
        <4>2. QED
          BY <1>8, <4>1
      <3>2. CASE ~(i <= length)
        <4>1. timestamps'[s][i] = 0
          BY <2>2, <3>2
        <4>2. QED
          BY <1>10, <4>1
      <3>3. QED
        BY <3>1, <3>2
    <2>8. QED
      BY <2>3, <2>4, <2>6, <2>7 DEF SegmentInv
  <1>14. QED
    BY <1>2, <1>12, <1>13

\* A step in which no car passes a light, gets a finish or leaves the course.
LEMMA LightsKept ==
  ASSUME AllInv, SInv, ~flawed, NEW car \in Nat, who' = who \/ who' = Append(who, car),
         \A s \in Inner : timestamps'[s] = timestamps[s],
         timestamps'[finish] = timestamps[finish], finish' = finish, phantom' # "finish",
         \A i \in 1..Len(Starts) : Starts'[i] = Starts[i],
         course' \in Seq(Cars), Len(course') >= Len(course),
         \A j \in DOMAIN course' :
            IF j \in DOMAIN course THEN course'[j].next = course[j].next ELSE course'[j].next = 1
  PROVE  SInv'
  <1>1. Inner' = Inner
    BY DEF Inner
  <1>2. Len(course') \in Nat /\ DOMAIN course' = 1..Len(course')
    BY LenProperties
  <1>3. ASSUME NEW s \in Inner
        PROVE  SegmentInv(s)'
    <2>1. s \in Nat /\ s > 0
      BY SegmentTypes
    <2>2. \A j \in DOMAIN course' :
             course'[j].next > s <=> j \in DOMAIN course /\ course[j].next > s
      BY <2>1
    <2>3. SegmentInv(s) /\ phantom # "finish"
      BY DEF SInv
    <2>4. QED
      BY <1>2, <2>2, <2>3, SegmentKept
  <1>4. QED
    BY <1>1, <1>3 DEF SInv

LEMMA StartSegments ==
  ASSUME AllInv, AllInv', SInv, ~flawed, CarStarts
  PROVE  SInv'
  <1>1. /\ now + 1 \in Nat /\ who' = Append(who, now + 1)
        /\ Event(0, now + 1) /\ phantom # "start" /\ phantom' = phantom
        /\ course' = Append(course, [car |-> now + 1, next |-> 1, stopped |-> FALSE])
        /\ [car |-> now + 1, next |-> 1, stopped |-> FALSE] \in Cars
        /\ course \in Seq(Cars) /\ course' \in Seq(Cars)
    BY LedgerTypes DEF CarStarts, Hit, Cars, AllInv, CourseOK
  <1>2. /\ timestamps'[0] = Append(timestamps[0], now + 1)
        /\ timestamps'[finish] = timestamps[finish] /\ finish' = finish
    BY <1>1, StartTaken
  <1>3. \A s \in Inner : timestamps'[s] = timestamps[s]
    <2>1. finish \in Nat \ {0} /\ timestamps \in [Sensors -> Seq(Nat)]
      BY SensorFacts DEF AllInv, IInv, TimerTypeOK
    <2>2. DoStart(now + 1)
      BY <1>1, <2>1 DEF Event
    <2>3. QED
      BY <2>1, <2>2, SegmentTypes DEF DoStart
  <1>4. \A i \in 1..Len(Starts) : Starts'[i] = Starts[i]
    <2>1. Starts = timestamps[0] /\ Starts' = timestamps'[0]
      BY <1>1 DEF Starts
    <2>2. QED
      BY <1>1, <1>2, <2>1, LedgerTypes, Appended
  <1>5. /\ Len(course') = Len(course) + 1 /\ Len(course) \in Nat
        /\ DOMAIN course = 1..Len(course) /\ DOMAIN course' = 1..(Len(course) + 1)
        /\ \A j \in 1..Len(course) : course'[j] = course[j]
        /\ course'[Len(course) + 1].next = 1
    BY <1>1, LedgerTypes, Appended
  <1>6. \A j \in DOMAIN course' :
           IF j \in DOMAIN course THEN course'[j].next = course[j].next ELSE course'[j].next = 1
    BY <1>5
  <1>7. phantom' # "finish"
    BY <1>1 DEF SInv
  <1>8. Len(course') >= Len(course)
    BY <1>5
  <1>9. QED
    BY <1>1, <1>2, <1>3, <1>4, <1>6, <1>7, <1>8, LightsKept

LEMMA FinishSegments ==
  ASSUME AllInv, SInv, ~flawed, course # <<>>, course' = Tail(course), phantom' = phantom,
         NEW time \in Nat, DoFinish(time),
         NEW car \in Nat, who' = who \/ who' = Append(who, car)
  PROVE  SInv'
  <1>1. phantom # "finish" /\ \A s \in Inner : SegmentInv(s)
    BY DEF SInv
  <1>2. Len(timestamps[0]) > Len(timestamps[finish])
    BY <1>1, OpenRow
  <1>3. Inner' = Inner
    BY <1>2, FinishTaken DEF Inner
  <1>4. ASSUME NEW s \in Inner
        PROVE  SegmentInv(s)'
    BY <1>1, <1>2, SegmentFinish
  <1>5. QED
    BY <1>1, <1>3, <1>4 DEF SInv

\* Nothing is overtaken and every car is seen, so it is the next one's turn.
LEMMA PassSegments ==
  ASSUME AllInv, AllInv', SInv, ~flawed, ~flawed',
         NEW i \in DOMAIN course, NEW sensor \in Inner, NEW seen \in BOOLEAN,
         CarPasses(i, sensor, seen)
  PROVE  SInv'
  <1>1. /\ phantom # "finish" /\ phantom' = phantom
        /\ \A s \in Inner : SegmentInv(s)
    BY DEF SInv, CarPasses
  <1>2. /\ seen /\ {j \in 1..(i - 1) : course[j].next <= sensor} = {}
        /\ course[i].next = sensor /\ course' = [course EXCEPT ![i].next = @ + 1]
    BY DEF CarPasses
  <1>3. who' = Append(who, course[i].car) /\ Event(sensor, now + 1)
    BY <1>2 DEF CarPasses, Hit
  <1>4. /\ sensor \in Nat /\ sensor > 0 /\ sensor < finish /\ finish \in Nat
        /\ Len(course) \in Nat /\ DOMAIN course = 1..Len(course)
        /\ course \in Seq(Cars) /\ course' \in Seq(Cars)
    BY SegmentTypes, LedgerTypes DEF AllInv, CourseOK
  <1>5. DoSegment(sensor, now + 1)
    BY <1>3, <1>4 DEF Event
  <1>6. \A j \in 1..Len(course) : course[j].next \in Nat /\ course[j].car \in Nat
    BY <1>4, IndexedCar DEF AllInv, Cars
  <1>7. \A j \in 1..(i - 1) : course[j].next > sensor
    BY <1>2, <1>4, <1>6
  <1>8. DOMAIN course' = DOMAIN course /\ Len(course') = Len(course)
    BY <1>2, <1>4, LenProperties
  <1>9. finish' = finish /\ Inner' = Inner
    BY <1>5 DEF DoSegment, finish, Inner
  <1>10. SegmentInv(sensor)'
    BY <1>1, <1>2, <1>3, <1>5, <1>7, <1>8, SegmentHit
  <1>11. ASSUME NEW s \in Inner, s # sensor
         PROVE  SegmentInv(s)'
    <2>1. /\ timestamps'[s] = timestamps[s] /\ timestamps'[finish] = timestamps[finish]
          /\ timestamps'[0] = timestamps[0]
      <3>1. /\ sensor \in Sensors /\ sensor # 0 /\ sensor # finish /\ s \in Sensors
            /\ 0 \in Sensors /\ finish \in Sensors /\ timestamps \in [Sensors -> Seq(Nat)]
        <4>1. timestamps \in [Sensors -> Seq(Nat)] /\ sensor \in Sensors /\ s \in Sensors
          BY SegmentTypes DEF AllInv, IInv, TimerTypeOK
        <4>2. sensor # 0 /\ sensor # finish
          BY <1>4
        <4>3. QED
          BY <4>1, <4>2, LedgerTypes
      <3>2. timestamps' = timestamps \/ timestamps' = [timestamps EXCEPT ![sensor] = Append(@, now + 1)]
        BY <1>5 DEF DoSegment
      <3>3. QED
        BY <1>11, <3>1, <3>2
    <2>2. Starts' = Starts
      BY <1>1, <2>1 DEF Starts, Without1
    <2>3. s \in Nat
      BY SegmentTypes
    <2>4. ASSUME NEW j \in DOMAIN course'
          PROVE  course'[j].next > s <=> j \in DOMAIN course /\ course[j].next > s
      <3>1. course'[j].next = IF j = i THEN course[j].next + 1 ELSE course[j].next
        BY <1>2, <1>4, <1>6, <1>8
      <3>2. QED
        BY <1>2, <1>4, <1>6, <1>8, <1>11, <2>3, <3>1
    <2>5. SegmentInv(s) /\ course[i].car \in Nat
      BY <1>1, <1>4, <1>6
    <2>6. Len(course') \in Nat /\ Len(course') >= Len(course) /\ DOMAIN course' = 1..Len(course')
      BY <1>4, <1>8
    <2>7. QED
      BY <1>1, <1>3, <1>9, <2>1, <2>2, <2>4, <2>5, <2>6, SegmentKept
  <1>12. QED
    BY <1>1, <1>9, <1>10, <1>11 DEF SInv

\* A false start is not a start of a car, and other false hits are dropped.
LEMMA FalseHitSegments ==
  ASSUME AllInv, AllInv', SInv, ~flawed, ~flawed', NEW sensor \in 0..lights, FalseHit(sensor)
  PROVE  SInv'
  <1>1. /\ now + 1 \in Nat /\ who' = Append(who, 0) /\ Event(sensor, now + 1)
        /\ phantom = "none" /\ course' = course
        /\ sensor \notin Inner /\ phantom' # "finish"
        /\ phantom' = IF sensor = 0 THEN "start"
                      ELSE IF sensor = finish /\ course # <<>> THEN "finish" ELSE "none"
    <2>1. /\ who' = Append(who, 0) /\ Event(sensor, now + 1)
          /\ phantom = "none" /\ course' = course
          /\ phantom' = IF sensor = 0 THEN "start"
                        ELSE IF sensor = finish /\ course # <<>> THEN "finish" ELSE "none"
          /\ flawed' = (flawed \/ sensor \in Inner \/ phantom' = "finish")
      BY DEF FalseHit, Hit
    <2>2. sensor \notin Inner /\ phantom' # "finish"
      BY <2>1
    <2>3. now + 1 \in Nat
      BY LedgerTypes
    <2>4. QED
      BY <2>1, <2>2, <2>3
  <1>2. /\ sensor \in Nat /\ finish \in Nat \ {0} /\ course' \in Seq(Cars)
        /\ Len(course) \in Nat /\ timestamps \in [Sensors -> Seq(Nat)]
        /\ Starts = timestamps[0] /\ Finishes = timestamps[finish]
        /\ timestamps[0] \in Seq(Nat) /\ lights' \in LightCounts
    BY <1>1, SensorFacts, LedgerTypes DEF AllInv, IInv, TimerTypeOK, CourseOK, Starts, Finishes
  <1>3. CASE sensor = 0
    <2>1. /\ timestamps'[0] = Append(timestamps[0], now + 1)
          /\ timestamps'[finish] = timestamps[finish] /\ finish' = finish
      BY <1>1, <1>3, StartTaken
    <2>2. \A s \in Inner : timestamps'[s] = timestamps[s]
      <3>1. DoStart(now + 1)
        BY <1>1, <1>2, <1>3 DEF Event
      <3>2. QED
        BY <1>2, <3>1, SegmentTypes DEF DoStart
    <2>3. Starts' = Starts
      BY <1>1, <1>2, <1>3, <2>1, AddedAndRemoved DEF Starts
    <2>4. QED
      BY <1>1, <1>2, <2>1, <2>2, <2>3, LightsKept
  <1>4. CASE sensor # 0
    <2>1. UNCHANGED <<timestamps, finish>>
      <3>1. CASE sensor > finish
        BY <1>1, <3>1 DEF Event, timerVars, finish
      <3>2. CASE ~(sensor > finish)
        <4>1. sensor = finish
          BY <1>1, <1>2, <1>4, <3>2 DEF Inner
        <4>2. course = <<>> /\ DoFinish(now + 1)
          BY <1>1, <1>2, <1>4, <4>1 DEF Event
        <4>3. Len(timestamps[0]) = Len(timestamps[finish]) /\ Len(timestamps[finish]) \in Nat
          BY <1>2, <4>2, LedgerTypes, EmptySeq
        <4>4. QED
          BY <4>2, <4>3 DEF DoFinish, finish
      <3>3. QED
        BY <3>1, <3>2
    <2>2. Starts' = Starts
      BY <1>1, <1>4, <2>1 DEF Starts
    <2>3. QED
      BY <1>1, <1>2, <2>1, <2>2, LightsKept
  <1>5. QED
    BY <1>3, <1>4

LEMMA ResetSegments ==
  ASSUME AllInv', NEW count \in LightCounts, PressReset(count)
  PROVE  SInv'
  <1>1. /\ phantom' = "none" /\ course' = <<>> /\ finish' = count - 1 /\ count \in Nat
        /\ timestamps' = [s \in 0..(count - 1) |-> <<>>]
    BY DEF PressReset, SetLights, finish
  <1>2. timestamps'[finish'] = <<>>
    BY <1>1 DEF PressReset
  <1>3. ASSUME NEW s \in Inner'
        PROVE  SegmentInv(s)'
    <2>1. timestamps'[s] = <<>>
      BY <1>1 DEF Inner
    <2>2. QED
      BY <1>1, <1>2, <2>1, EmptySeq DEF SegmentInv
  <1>4. QED
    BY <1>1, <1>3 DEF SInv

LEMMA SegmentsStep ==
  ASSUME AllInv, AllInv', SInv, [Next]_vars
  PROVE  SInv'
  <1> SUFFICES ASSUME ~flawed' PROVE SInv'
    BY DEF SInv
  <1>1. CASE \E count \in LightCounts : PressReset(count)
    BY <1>1, ResetSegments
  <1>2. CASE CarStarts
    BY <1>2, StartSegments DEF CarStarts
  <1>3. CASE CarFinishes
    <2>1. /\ who' = Append(who, course[1].car) /\ Event(finish, now + 1)
          /\ course # <<>> /\ course' = Tail(course) /\ phantom' = phantom /\ flawed' = flawed
      BY <1>3 DEF CarFinishes, Hit
    <2>2. 1 \in DOMAIN course
      BY <2>1, LedgerTypes, EmptySeq DEF AllInv, CourseOK
    <2>3. course[1].car \in Nat /\ now + 1 \in Nat
      <3>1. course[1] \in Cars
        BY <2>2, IndexedCar DEF AllInv
      <3>2. now + 1 \in Nat
        BY LedgerTypes
      <3>3. QED
        BY <3>1, <3>2 DEF Cars
    <2>4. DoFinish(now + 1)
      BY <2>1, SensorFacts DEF Event, AllInv, IInv, TimerTypeOK
    <2>5. QED
      BY <2>1, <2>3, <2>4, FinishSegments
  <1>4. CASE PressFakeFinish
    <2>1. /\ who' = who \/ who' = Append(who, 0)
          /\ course # <<>> /\ course' = Tail(course) /\ phantom' = phantom /\ flawed' = flawed
          /\ DoFinish(lasttick)
      BY <1>4 DEF PressFakeFinish, FakeFinish
    <2>2. lasttick \in Nat
      BY DEF AllInv, IInv, TimerTypeOK
    <2>3. QED
      BY <2>1, <2>2, FinishSegments
  <1>5. ASSUME NEW i \in DOMAIN course, NEW sensor \in Inner, NEW seen \in BOOLEAN,
               CarPasses(i, sensor, seen)
        PROVE  SInv'
    <2>1. ~flawed
      BY <1>5 DEF CarPasses
    <2>2. QED
      BY <1>5, <2>1, PassSegments
  <1>6. ASSUME NEW sensor \in 0..lights, FalseHit(sensor)
        PROVE  SInv'
    <2>1. ~flawed
      BY <1>6 DEF FalseHit
    <2>2. QED
      BY <1>6, <2>1, FalseHitSegments
  <1>7. CASE PressDeleteStart
    BY <1>7 DEF PressDeleteStart
  <1>8. CASE PressDeleteFinish
    BY <1>8 DEF PressDeleteFinish, SInv
  <1>9. CASE Tick \/ (\E i \in DOMAIN course : CarStops(i)) \/ UNCHANGED vars
    <2>1. /\ who' = who \/ who' = Append(who, 0)
          /\ timestamps' = timestamps /\ lights' = lights /\ phantom' = phantom
          /\ flawed' = flawed
      BY <1>9 DEF Tick, UpdateRunningTimers, CarStops, vars, timerVars
    <2>2. /\ DOMAIN course' = DOMAIN course
          /\ \A j \in DOMAIN course : course'[j].next = course[j].next
      <3>1. CASE \E i \in DOMAIN course : CarStops(i)
        BY <3>1 DEF CarStops
      <3>2. CASE course' = course
        BY <3>2
      <3>3. QED
        BY <1>9, <3>1, <3>2 DEF Tick, vars
    <2>3. course \in Seq(Cars) /\ course' \in Seq(Cars)
      BY DEF AllInv, CourseOK
    <2>4. Len(course') = Len(course) /\ Len(course) \in Nat
      BY <2>2, <2>3, LenProperties
    <2>5. Starts' = Starts /\ finish' = finish /\ phantom' # "finish"
      BY <2>1 DEF Starts, SInv, finish
    <2>6. QED
      BY <2>1, <2>2, <2>3, <2>4, <2>5, LightsKept
  <1>10. QED
    BY <1>1, <1>2, <1>3, <1>4, <1>5, <1>6, <1>7, <1>8, <1>9 DEF Next

LEMMA InitSegments ==
  ASSUME Init
  PROVE  SInv
  <1>1. /\ phantom = "none" /\ course = <<>>
        /\ timestamps = [s \in Sensors |-> <<>>] /\ lights \in LightCounts
    BY DEF Init
  <1>2. timestamps[finish] = <<>> /\ \A s \in Inner : timestamps[s] = <<>>
    BY <1>1, SensorFacts
  <1>3. QED
    BY <1>1, <1>2, EmptySeq DEF SInv, SegmentInv

\* As long as no segment light failed, no car was overtaken, no false finish
\* was taken and no start was deleted, every segment of a row is of the car
\* whose start the row has: filling in zeros for a car that got a faked finish
\* before it had passed its lights leaves the rows of the later cars alone.
THEOREM SegmentsAreCars == Spec => []SegmentsOwn
  <1>1. Init => AllInv /\ SInv
    BY InitFacts, InitPairs, InitSegments DEF AllInv
  <1>2. AllInv /\ SInv /\ [Next]_vars => (AllInv /\ SInv)'
    <2>1. AllInv /\ [Next]_vars => AllInv'
      BY StepFacts, PairsStep DEF AllInv
    <2>2. QED
      BY <2>1, SegmentsStep
  <1>3. SInv => SegmentsOwn
    BY DEF SInv, SegmentInv, SegmentsOwn
  <1>4. QED
    BY <1>1, <1>2, <1>3, PTL DEF Spec
=============================================================================
