------------------------- MODULE TimerNetwork_proofs ------------------------
(***************************************************************************)
(* For any number of programs, connections and runs: data entry never says *)
(* that a connection is lost while it works (IInv), every variable has its *)
(* type (SInv), and what waits in a program or is on its way to it is what *)
(* its connection was told of: nothing stale, nothing missed, in the order *)
(* of the runs (QInv).                                                     *)
(*                                                                         *)
(* IInv follows the news that a connection was closed, which only a        *)
(* receiver thread that has ended posts.  SInv adds what the walk over the *)
(* clients is: one that will be cut short has upset everyone it has still  *)
(* to reach.  QInv compares, for a program whose connection is fit, the    *)
(* times that will wait when everything under way has arrived with the     *)
(* runs known to its connection; a step moves a line along or changes both *)
(* sides.  When the operator takes a time, the deletions still under way   *)
(* meet a shorter list: CountsStayClose and AfterWithin say that its counts*)
(* stay within one and that its order stays.                               *)
(***************************************************************************)
EXTENDS TimerNetwork, SequenceTheorems, FiniteSetTheorems, WellFoundedInduction, TLAPS

Kinds == {"RUN", "DELETE"}

SendingOK ==
    sending # <<>> =>
       \E kind \in Kinds, run \in Times : \E cursor, size :
          sending = <<[kind |-> kind, run |-> run, cursor |-> cursor, size |-> size]>>

LinesOK ==
    /\ announced \in Seq(Times)
    /\ forgotten \in Nat
    /\ chan \in [Conns -> Seq(Message)]
    /\ SendingOK

ThreadsOK ==
    /\ owner \in [Conns -> Programs \cup {0}]
    /\ recv \in [Conns -> {"none", "checks", "reads", "ended"}]
    /\ \A c \in Conns : recv[c] # "none" => owner[c] \in Programs

EntryOK ==
    /\ tclient \in [Programs -> Conns \cup {0}]
    /\ shown \in [Programs -> {"Connected", "Not Connected"}]
    /\ queue \in [Programs -> Seq(Event)]

\* A connection is reported closed after its receiver thread has ended.
ClosedOK ==
    \A p \in Programs : \A i \in 1..Len(queue[p]) :
       queue[p][i].kind = "CLOSED" => recv[queue[p][i].conn] = "ended"

\* A program uses a connection of its own.
OwnOK == \A p \in Programs : tclient[p] # 0 => owner[tclient[p]] = p

IInv == LinesOK /\ ThreadsOK /\ EntryOK /\ ClosedOK /\ OwnOK /\ NoFalseAlarm

USE NetworkAssumption DEF Conns

-----------------------------------------------------------------------------
LEMMA InitInv == Init => IInv
  <1> SUFFICES ASSUME Init PROVE IInv
    OBVIOUS
  <1>1. LinesOK
    BY EmptySeq DEF Init, LinesOK, SendingOK
  <1>2. ThreadsOK
    BY DEF Init, ThreadsOK
  <1>3. EntryOK
    BY EmptySeq DEF Init, EntryOK
  <1>4. ClosedOK
    <2>1. \A p \in Programs : Len(queue[p]) = 0
      BY EmptySeq DEF Init
    <2> QED
      BY <2>1 DEF ClosedOK
  <1>5. OwnOK /\ NoFalseAlarm
    BY DEF Init, OwnOK, NoFalseAlarm
  <1> QED
    BY <1>1, <1>2, <1>3, <1>4, <1>5 DEF IInv

\* A receiver thread adds one event to the queue of its program.
LEMMA PostFacts ==
  ASSUME EntryOK, ThreadsOK, NEW c \in Conns, recv[c] # "none",
         NEW kind \in Kinds \cup {"CLOSED"}, NEW run \in Times \cup {0},
         Post(c, kind, run)
  PROVE  /\ queue' \in [Programs -> Seq(Event)]
         /\ \A p \in Programs : \A i \in 1..Len(queue'[p]) :
               \/ i \in 1..Len(queue[p]) /\ queue'[p][i] = queue[p][i]
               \/ queue'[p][i] = [kind |-> kind, run |-> run, conn |-> c]
  <1> DEFINE event == [kind |-> kind, run |-> run, conn |-> c]
  <1>1. owner[c] \in Programs
    BY DEF ThreadsOK
  <1>2. event \in Event
    BY DEF Event, Kinds
  <1>3. /\ queue' = [queue EXCEPT ![owner[c]] = Append(queue[owner[c]], event)]
        /\ queue \in [Programs -> Seq(Event)]
    BY DEF Post, EntryOK
  <1> HIDE DEF event
  <1>4. queue' \in [Programs -> Seq(Event)]
    BY <1>1, <1>2, <1>3, AppendProperties
  <1>5. ASSUME NEW p \in Programs, NEW i \in 1..Len(queue'[p])
        PROVE  \/ i \in 1..Len(queue[p]) /\ queue'[p][i] = queue[p][i]
               \/ queue'[p][i] = event
    <2>1. CASE p # owner[c]
      BY <1>1, <1>3, <1>5, <2>1
    <2>2. CASE p = owner[c]
      <3>1. queue'[p] = Append(queue[p], event) /\ queue[p] \in Seq(Event)
        BY <1>3, <2>2
      <3>2. /\ Len(queue'[p]) = Len(queue[p]) + 1
            /\ \A j \in 1..Len(queue[p]) : queue'[p][j] = queue[p][j]
            /\ queue'[p][Len(queue[p]) + 1] = event
        BY <1>2, <3>1, AppendProperties
      <3>3. Len(queue[p]) \in Nat
        BY <3>1, LenProperties
      <3> QED
        BY <1>5, <3>2, <3>3
    <2> QED
      BY <2>1, <2>2
  <1> QED
    BY <1>4, <1>5 DEF event

\* The end of a receiver thread.
LEMMA EndFacts ==
  ASSUME IInv, NEW c \in Conns, recv[c] \in {"checks", "reads"}, EndReceiver(c),
         UNCHANGED <<timer, service, wire, owner, done, entry, ghosts>>
  PROVE  IInv'
  <1>1. Post(c, "CLOSED", 0) /\ recv' = [recv EXCEPT ![c] = "ended"]
    BY DEF EndReceiver
  <1>2. /\ queue' \in [Programs -> Seq(Event)]
        /\ \A p \in Programs : \A i \in 1..Len(queue'[p]) :
              \/ i \in 1..Len(queue[p]) /\ queue'[p][i] = queue[p][i]
              \/ queue'[p][i] = [kind |-> "CLOSED", run |-> 0, conn |-> c]
    BY <1>1, PostFacts DEF IInv
  <1>3. LinesOK'
    BY DEF IInv, LinesOK, SendingOK, timer, wire
  <1>4. ThreadsOK'
    BY <1>1 DEF IInv, ThreadsOK
  <1>5. EntryOK'
    BY <1>2 DEF IInv, EntryOK, entry
  <1>6. ClosedOK'
    <2> SUFFICES ASSUME NEW p \in Programs, NEW i \in 1..Len(queue'[p]),
                        queue'[p][i].kind = "CLOSED"
                 PROVE  recv'[queue'[p][i].conn] = "ended"
      BY DEF ClosedOK
    <2>1. CASE i \in 1..Len(queue[p]) /\ queue'[p][i] = queue[p][i]
      <3>1. recv[queue[p][i].conn] = "ended"
        BY <2>1 DEF IInv, ClosedOK
      <3>2. queue[p][i] \in Event
        BY <2>1, ElementOfSeq DEF IInv, EntryOK
      <3> QED
        BY <1>1, <2>1, <3>1, <3>2 DEF IInv, ThreadsOK, Event
    <2>2. CASE queue'[p][i] = [kind |-> "CLOSED", run |-> 0, conn |-> c]
      BY <1>1, <2>2 DEF IInv, ThreadsOK
    <2> QED
      BY <1>2, <2>1, <2>2
  <1>7. OwnOK'
    BY DEF IInv, OwnOK, entry
  <1>8. NoFalseAlarm'
    BY <1>1 DEF IInv, NoFalseAlarm, ThreadsOK, EntryOK, entry
  <1> QED
    BY <1>3, <1>4, <1>5, <1>6, <1>7, <1>8 DEF IInv

\* What does not concern the threads and the programs leaves their part of
\* the invariant alone.
LEMMA TimerSide ==
  ASSUME IInv, LinesOK', UNCHANGED <<threads, entry, queue>>
  PROVE  IInv'
  BY DEF IInv, ThreadsOK, EntryOK, ClosedOK, OwnOK, NoFalseAlarm, threads, entry

\* What does not concern the lines leaves their part alone.
LEMMA EntrySide ==
  ASSUME IInv, UNCHANGED <<announced, forgotten, sending, chan>>
  PROVE  LinesOK'
  BY DEF IInv, LinesOK, SendingOK

LEMMA WalkFacts ==
  ASSUME NEW kind \in Kinds, NEW run \in Times, sending' = Walk(kind, run)
  PROVE  SendingOK'
  BY DEF SendingOK, Walk

LEMMA StepLines ==
  ASSUME IInv, \/ \E run \in Times : Finish(run)
               \/ DeleteFinish \/ Reset \/ WalkOn \/ Accept
               \/ \E c \in Conns : ServerNotices(c) \/ Break(c)
  PROVE  IInv'
  <1>1. CASE \E run \in Times : Finish(run)
    <2> PICK run \in Times : Finish(run)
      BY <1>1
    <2>1. SendingOK'
      BY WalkFacts DEF Finish, Kinds
    <2>2. announced' \in Seq(Times)
      BY AppendProperties DEF Finish, IInv, LinesOK
    <2>3. LinesOK'
      BY <2>1, <2>2 DEF Finish, IInv, LinesOK, wire
    <2> QED
      BY <2>3, TimerSide DEF Finish
  <1>2. CASE DeleteFinish
    <2>1. announced \in Seq(Times) /\ forgotten \in Nat /\ Len(announced) > forgotten
      BY <1>2 DEF DeleteFinish, IInv, LinesOK
    <2>2. Len(announced) \in Nat
      BY <2>1, LenProperties
    <2>3. Len(announced) \in 1..Len(announced)
      BY <2>1, <2>2
    <2>4. Last(announced) \in Times
      BY <2>1, <2>3, ElementOfSeq DEF Last
    <2>5. SendingOK'
      BY <1>2, <2>4, WalkFacts DEF DeleteFinish, Kinds
    <2>6. LinesOK'
      BY <1>2, <2>5 DEF DeleteFinish, IInv, LinesOK, wire
    <2> QED
      BY <1>2, <2>6, TimerSide DEF DeleteFinish
  <1>3. CASE Reset
    <2>1. forgotten' \in Nat
      BY <1>3, LenProperties DEF Reset, IInv, LinesOK
    <2>2. LinesOK'
      BY <1>3, <2>1 DEF Reset, IInv, LinesOK, SendingOK, wire
    <2> QED
      BY <1>3, <2>2, TimerSide DEF Reset
  <1>4. CASE WalkOn
    <2>1. PICK kind \in Kinds, run \in Times : \E cursor, size :
             sending = <<[kind |-> kind, run |-> run, cursor |-> cursor, size |-> size]>>
      BY <1>4 DEF WalkOn, IInv, LinesOK, SendingOK
    <2>2. PICK cursor, size :
             sending = <<[kind |-> kind, run |-> run, cursor |-> cursor, size |-> size]>>
      BY <2>1
    <2> DEFINE walk == [kind |-> kind, run |-> run, cursor |-> cursor, size |-> size]
    <2>3. sending[1] = walk /\ walk.kind = kind /\ walk.run = run /\ walk.size = size
      BY <2>2
    <2>4. \/ Send(walk, clients[walk.cursor])
          \/ EndWalk(walk)
      BY <1>4, <2>3 DEF WalkOn
    <2>5. UNCHANGED <<forgotten, threads, entry, queue>>
      BY <1>4 DEF WalkOn
    <2>6. CASE Send(walk, clients[walk.cursor])
      <3> DEFINE c == clients[walk.cursor]
                 line == [kind |-> kind, run |-> run]
      <3>1. sending' = <<[walk EXCEPT !.cursor = walk.cursor + 1]>>
        BY <2>6 DEF Send
      <3>2. sending' = <<[kind |-> kind, run |-> run, cursor |-> walk.cursor + 1, size |-> size]>>
        BY <3>1
      <3>3. SendingOK'
        BY <3>2 DEF SendingOK
      <3>4. line \in Message
        BY DEF Message, Kinds
      <3>5. \/ chan' = [chan EXCEPT ![c] = Append(chan[c], line)]
            \/ chan' = chan
        BY <2>3, <2>6 DEF Send
      <3> HIDE DEF c, line
      <3>6. chan' \in [Conns -> Seq(Message)]
        <4>1. chan \in [Conns -> Seq(Message)]
          BY DEF IInv, LinesOK
        <4>2. CASE c \in Conns
          <5> DEFINE longer == Append(chan[c], line)
          <5>1. longer \in Seq(Message)
            BY <3>4, <4>1, <4>2, AppendProperties
          <5>2. chan' = [chan EXCEPT ![c] = longer] \/ chan' = chan
            BY <3>5
          <5> HIDE DEF longer
          <5> QED
            BY <4>1, <5>1, <5>2
        <4>3. CASE c \notin Conns
          BY <3>5, <4>1, <4>3
        <4> QED
          BY <4>2, <4>3
      <3>7. announced' = announced
        BY <2>6 DEF Send
      <3>8. LinesOK'
        BY <2>5, <3>3, <3>6, <3>7 DEF IInv, LinesOK
      <3> QED
        BY <2>5, <3>8, TimerSide
    <2>7. CASE EndWalk(walk)
      <3>1. sending' = <<>> /\ chan' = chan
        BY <2>7 DEF EndWalk
      <3>2. announced' = announced \/ announced' = Front(announced)
        BY <2>7 DEF EndWalk
      <3>3. announced' \in Seq(Times)
        BY SMTT(30), <3>2, SubSeqProperties, LenProperties DEF IInv, LinesOK, Front
      <3>4. LinesOK'
        BY <2>5, <3>1, <3>3 DEF IInv, LinesOK, SendingOK
      <3> QED
        BY <2>5, <3>4, TimerSide
    <2> QED
      BY <2>4, <2>6, <2>7
  <1>5. CASE Accept
    <2>1. LinesOK'
      BY <1>5, EntrySide DEF Accept, timer, wire
    <2> QED
      BY <1>5, <2>1, TimerSide DEF Accept
  <1>6. CASE \E c \in Conns : ServerNotices(c)
    <2>1. LinesOK'
      BY <1>6, EntrySide DEF ServerNotices, timer
    <2> QED
      BY <1>6, <2>1, TimerSide DEF ServerNotices
  <1>7. CASE \E c \in Conns : Break(c)
    <2>1. PICK c \in Conns : Break(c)
      BY <1>7
    <2>2. PICK kept \in 0..Len(chan[c]) :
             chan' = [chan EXCEPT ![c] = SubSeq(chan[c], 1, kept)]
      BY <2>1 DEF Break
    <2>3. chan[c] \in Seq(Message)
      BY DEF IInv, LinesOK
    <2>4. kept \in Int /\ Len(chan[c]) \in Nat /\ kept <= Len(chan[c])
      BY <2>3, LenProperties
    <2>5. SubSeq(chan[c], 1, kept) \in Seq(Message)
      BY <2>3, <2>4, SubSeqProperties
    <2>6. chan' \in [Conns -> Seq(Message)]
      <3> DEFINE cut == SubSeq(chan[c], 1, kept)
      <3>1. cut \in Seq(Message) /\ chan' = [chan EXCEPT ![c] = cut]
        BY <2>2, <2>5
      <3>2. chan \in [Conns -> Seq(Message)]
        BY DEF IInv, LinesOK
      <3> HIDE DEF cut
      <3> QED
        BY <3>1, <3>2
    <2>7. LinesOK'
      BY <2>1, <2>6 DEF Break, IInv, LinesOK, SendingOK, timer
    <2> QED
      BY <2>1, <2>7, TimerSide DEF Break
  <1> QED
    BY <1>1, <1>2, <1>3, <1>4, <1>5, <1>6, <1>7
-----------------------------------------------------------------------------
LEMMA StepThreads ==
  ASSUME IInv, NEW c \in Conns, Check(c) \/ Receive(c) \/ EndOfStream(c)
  PROVE  IInv'
  <1>1. CASE Check(c) /\ done[c]
    BY <1>1, EndFacts DEF Check
  <1>2. CASE EndOfStream(c)
    BY <1>2, EndFacts DEF EndOfStream
  <1>3. CASE Check(c) /\ ~done[c]
    <2>1. /\ recv[c] = "checks" /\ recv' = [recv EXCEPT ![c] = "reads"]
          /\ UNCHANGED <<queue, timer, wire, owner, entry>>
      BY <1>3 DEF Check
    <2>2. LinesOK'
      BY <2>1, EntrySide DEF timer, wire
    <2>3. ThreadsOK' /\ EntryOK'
      BY <2>1 DEF IInv, ThreadsOK, EntryOK, entry
    <2>4. ClosedOK'
      <3> SUFFICES ASSUME NEW p \in Programs, NEW i \in 1..Len(queue[p]),
                          queue[p][i].kind = "CLOSED"
                   PROVE  recv'[queue[p][i].conn] = "ended"
        BY <2>1 DEF ClosedOK
      <3>1. queue[p][i] \in Event /\ recv[queue[p][i].conn] = "ended"
        BY ElementOfSeq DEF IInv, EntryOK, ClosedOK
      <3> QED
        BY <2>1, <3>1 DEF IInv, ThreadsOK, Event
    <2>5. OwnOK' /\ NoFalseAlarm'
      BY <2>1 DEF IInv, OwnOK, NoFalseAlarm, ThreadsOK, EntryOK, entry
    <2> QED
      BY <2>2, <2>3, <2>4, <2>5 DEF IInv
  <1>4. CASE Receive(c)
    <2> DEFINE line == Head(chan[c])
    <2>1. chan[c] \in Seq(Message) /\ chan[c] # <<>>
      BY <1>4 DEF Receive, IInv, LinesOK
    <2>2. line \in Message /\ Tail(chan[c]) \in Seq(Message)
      BY <2>1, HeadTailProperties
    <2>3. line.kind \in Kinds /\ line.run \in Times
      BY <2>2 DEF Message, Kinds
    <2>4. /\ recv[c] = "reads" /\ recv' = [recv EXCEPT ![c] = "checks"]
          /\ Post(c, line.kind, line.run)
          /\ UNCHANGED <<timer, owner, entry>>
          /\ chan' = [chan EXCEPT ![c] = Tail(chan[c])]
      BY <1>4 DEF Receive
    <2>5. /\ queue' \in [Programs -> Seq(Event)]
          /\ \A p \in Programs : \A i \in 1..Len(queue'[p]) :
                \/ i \in 1..Len(queue[p]) /\ queue'[p][i] = queue[p][i]
                \/ queue'[p][i] = [kind |-> line.kind, run |-> line.run, conn |-> c]
      <3> DEFINE kind == line.kind
                 run == line.run
      <3>1. /\ kind \in Kinds \cup {"CLOSED"} /\ run \in Times \cup {0}
            /\ recv[c] # "none" /\ Post(c, kind, run) /\ EntryOK /\ ThreadsOK
        BY <2>3, <2>4 DEF IInv
      <3> HIDE DEF kind, run
      <3>2. /\ queue' \in [Programs -> Seq(Event)]
            /\ \A p \in Programs : \A i \in 1..Len(queue'[p]) :
                  \/ i \in 1..Len(queue[p]) /\ queue'[p][i] = queue[p][i]
                  \/ queue'[p][i] = [kind |-> kind, run |-> run, conn |-> c]
        BY <3>1, PostFacts
      <3> QED
        BY <3>2 DEF kind, run
    <2>6. LinesOK'
      <3> DEFINE rest == Tail(chan[c])
      <3>1. rest \in Seq(Message) /\ chan' = [chan EXCEPT ![c] = rest]
        BY <2>2, <2>4
      <3> HIDE DEF rest
      <3> QED
        BY <2>4, <3>1 DEF IInv, LinesOK, SendingOK, timer
    <2> HIDE DEF line
    <2>7. ThreadsOK' /\ EntryOK'
      BY <2>4, <2>5 DEF IInv, ThreadsOK, EntryOK, entry
    <2>8. ClosedOK'
      <3> SUFFICES ASSUME NEW p \in Programs, NEW i \in 1..Len(queue'[p]),
                          queue'[p][i].kind = "CLOSED"
                   PROVE  recv'[queue'[p][i].conn] = "ended"
        BY DEF ClosedOK
      <3>1. i \in 1..Len(queue[p]) /\ queue'[p][i] = queue[p][i]
        BY <2>3, <2>5 DEF Kinds
      <3>2. queue[p][i] \in Event /\ recv[queue[p][i].conn] = "ended"
        BY <3>1, ElementOfSeq DEF IInv, EntryOK, ClosedOK
      <3> QED
        BY <2>4, <3>1, <3>2 DEF IInv, ThreadsOK, Event
    <2>9. OwnOK' /\ NoFalseAlarm'
      BY <2>4 DEF IInv, OwnOK, NoFalseAlarm, ThreadsOK, EntryOK, entry
    <2> QED
      BY <2>6, <2>7, <2>8, <2>9 DEF IInv
  <1> QED
    BY <1>1, <1>2, <1>3, <1>4

LEMMA StepPrograms ==
  ASSUME IInv, NEW p \in Programs,
         SwitchOn(p) \/ SwitchOff(p) \/ CancelSwitch(p) \/ Take(p) \/ Deliver(p)
  PROVE  IInv'
  <1>1. CASE SwitchOn(p)
    <2>1. PICK c \in Conns :
             /\ owner[c] = 0 /\ owner' = [owner EXCEPT ![c] = p]
             /\ recv' = [recv EXCEPT ![c] = "checks"]
             /\ tclient' = [tclient EXCEPT ![p] = c]
             /\ shown' = [shown EXCEPT ![p] = "Connected"]
             /\ UNCHANGED <<timer, chan, queue>>
      BY <1>1 DEF SwitchOn
    <2>2. recv[c] = "none"
      BY <2>1 DEF IInv, ThreadsOK
    <2>3. LinesOK'
      BY <2>1, EntrySide DEF timer
    <2>4. ThreadsOK' /\ EntryOK'
      BY <2>1 DEF IInv, ThreadsOK, EntryOK
    <2>5. ClosedOK'
      <3> SUFFICES ASSUME NEW q \in Programs, NEW i \in 1..Len(queue[q]),
                          queue[q][i].kind = "CLOSED"
                   PROVE  recv'[queue[q][i].conn] = "ended"
        BY <2>1 DEF ClosedOK
      <3>1. queue[q][i] \in Event /\ recv[queue[q][i].conn] = "ended"
        BY ElementOfSeq DEF IInv, EntryOK, ClosedOK
      <3> QED
        BY <2>1, <2>2, <3>1 DEF IInv, ThreadsOK, Event
    <2>6. OwnOK' /\ NoFalseAlarm'
      BY ZenonT(60), <2>1, <2>2 DEF IInv, OwnOK, NoFalseAlarm, ThreadsOK, EntryOK
    <2> QED
      BY <2>3, <2>4, <2>5, <2>6 DEF IInv
  <1>2. CASE SwitchOff(p) \/ CancelSwitch(p) \/ Take(p)
    <2>1. UNCHANGED <<timer, wire, owner, recv, queue>>
      BY <1>2 DEF SwitchOff, CancelSwitch, Take, threads
    <2>2. LinesOK'
      BY <2>1, EntrySide DEF timer, wire
    <2>3. ThreadsOK' /\ ClosedOK'
      BY <2>1 DEF IInv, ThreadsOK, ClosedOK
    <2>4. EntryOK' /\ OwnOK' /\ NoFalseAlarm'
      <3>1. CASE SwitchOff(p)
        BY <3>1, <2>1 DEF SwitchOff, IInv, EntryOK, OwnOK, NoFalseAlarm
      <3>2. CASE CancelSwitch(p)
        BY <3>2, <2>1 DEF CancelSwitch, IInv, EntryOK, OwnOK, NoFalseAlarm
      <3>3. CASE Take(p)
        BY <3>3, <2>1 DEF Take, IInv, EntryOK, OwnOK, NoFalseAlarm
      <3> QED
        BY <1>2, <3>1, <3>2, <3>3
    <2> QED
      BY <2>2, <2>3, <2>4 DEF IInv
  <1>3. CASE Deliver(p)
    <2> DEFINE first == Head(queue[p])
               rest == Tail(queue[p])
    <2>1. queue[p] \in Seq(Event) /\ queue[p] # <<>>
      BY <1>3 DEF Deliver, IInv, EntryOK
    <2>2. /\ rest \in Seq(Event) /\ Len(rest) = Len(queue[p]) - 1
          /\ \A i \in 1..Len(rest) : rest[i] = queue[p][i + 1]
          /\ first = queue[p][1] /\ Len(queue[p]) \in Nat /\ Len(queue[p]) >= 1
      BY <2>1, HeadTailProperties, LenProperties, EmptySeq
    <2>3. /\ UNCHANGED <<timer, wire, threads, tclient>>
          /\ queue' = [queue EXCEPT ![p] = rest]
          /\ shown' = IF first.kind = "CLOSED" /\ first.conn = tclient[p]
                      THEN [shown EXCEPT ![p] = "Not Connected"] ELSE shown
      BY <1>3 DEF Deliver
    <2> HIDE DEF first, rest
    <2>4. LinesOK'
      BY <2>3, EntrySide DEF timer, wire
    <2>5. ThreadsOK' /\ OwnOK'
      BY <2>3 DEF IInv, ThreadsOK, OwnOK, threads
    <2>6. EntryOK'
      BY <2>2, <2>3 DEF IInv, EntryOK
    <2>7. ClosedOK'
      <3> SUFFICES ASSUME NEW q \in Programs, NEW i \in 1..Len(queue'[q]),
                          queue'[q][i].kind = "CLOSED"
                   PROVE  recv'[queue'[q][i].conn] = "ended"
        BY DEF ClosedOK
      <3>1. CASE q # p
        BY <2>3, <3>1 DEF IInv, ClosedOK, EntryOK, threads
      <3>2. CASE q = p
        <4>1. queue'[q] = rest
          BY <2>3, <3>2 DEF IInv, EntryOK
        <4>2. queue'[q][i] = queue[p][i + 1] /\ i + 1 \in 1..Len(queue[p])
          BY <2>2, <4>1
        <4> QED
          BY <2>3, <4>2 DEF IInv, ClosedOK, threads
      <3> QED
        BY <3>1, <3>2
    <2>8. NoFalseAlarm'
      <3>1. 1 \in 1..Len(queue[p])
        BY <2>2
      <3>2. first.kind = "CLOSED" => recv[first.conn] = "ended"
        BY <2>2, <3>1 DEF IInv, ClosedOK
      <3> QED
        BY <2>3, <3>2 DEF IInv, NoFalseAlarm, EntryOK, threads
    <2> QED
      BY <2>4, <2>5, <2>6, <2>7, <2>8 DEF IInv
  <1> QED
    BY <1>1, <1>2, <1>3

LEMMA StepInv == IInv /\ [Next]_vars => IInv'
  <1> SUFFICES ASSUME IInv, [Next]_vars PROVE IInv'
    OBVIOUS
  <1>1. CASE Next
    BY <1>1, StepLines, StepThreads, StepPrograms DEF Next, Threads, Users
  <1>2. CASE UNCHANGED vars
    <2>1. LinesOK'
      BY <1>2, EntrySide DEF vars, timer, wire
    <2> QED
      BY <1>2, <2>1, TimerSide DEF vars
  <1> QED
    BY <1>1, <1>2

\* Data entry never says that the connection it uses is lost while its
\* receiver thread lives (TimeEntry.event), however many connections it has
\* given up and whatever is still in the queue.
THEOREM AlarmsAreTrue == Spec => []NoFalseAlarm
  <1>1. IInv => NoFalseAlarm
    BY DEF IInv
  <1> QED
    BY <1>1, InitInv, StepInv, PTL DEF Spec

-----------------------------------------------------------------------------
(* Lists of times.                                                          *)

Line == Message \cup Event

LEMMA LeastNat ==
  ASSUME NEW S \in SUBSET Nat, S # {}
  PROVE  \E i \in S : \A j \in S : i <= j
  <1>1. PICK i \in S : \A j \in S : ~(<<j, i>> \in OpToRel(<, Nat))
    BY NatLessThanWellFounded, WFMin
  <1>2. \A j \in S : ~(j < i)
    BY <1>1 DEF OpToRel
  <1> QED
    BY <1>2

\* What comes of a when F is applied N times.
Trail(f, S, a, F, N) ==
    /\ f \in [0..N -> S] /\ f[0] = a
    /\ \A n \in 1..N : f[n] = F[<<f[n - 1], n>>]

LEMMA TrailExists ==
  ASSUME NEW S, NEW a \in S, NEW F \in [S \X Nat -> S], NEW N \in Nat
  PROVE  \E f : Trail(f, S, a, F, N)
  <1> DEFINE Bad == {n \in Nat : ~\E f : Trail(f, S, a, F, n)}
  <1> SUFFICES ASSUME Bad # {} PROVE FALSE
    OBVIOUS
  <1>1. PICK n \in Bad : \A m \in Bad : n <= m
    <2>1. Bad \in SUBSET Nat
      OBVIOUS
    <2> HIDE DEF Bad
    <2> QED
      BY <2>1, LeastNat
  <1>2. n # 0
    <2>1. Trail([k \in 0..0 |-> a], S, a, F, 0)
      BY DEF Trail
    <2> QED
      BY <1>1, <2>1
  <1>3. n \in Nat /\ n - 1 \in Nat
    BY <1>1, <1>2
  <1>4. PICK f : Trail(f, S, a, F, n - 1)
    BY <1>1, <1>3
  <1> DEFINE next == F[<<f[n - 1], n>>]
             g == [k \in 0..n |-> IF k < n THEN f[k] ELSE next]
  <1>5. f \in [0..(n - 1) -> S] /\ f[0] = a
        /\ \A k \in 1..(n - 1) : f[k] = F[<<f[k - 1], k>>]
    BY <1>4 DEF Trail
  <1>6. next \in S
    BY <1>3, <1>5
  <1>7. \A k \in 1..n : g[k] = F[<<g[k - 1], k>>]
    <2> TAKE k \in 1..n
    <2>1. g[k - 1] = f[k - 1]
      BY <1>3
    <2>2. CASE k < n
      <3>1. g[k] = f[k] /\ k \in 1..(n - 1)
        BY <1>3, <2>2
      <3> QED
        BY <1>5, <2>1, <3>1
    <2>3. CASE k = n
      <3>1. g[k] = next
        BY <1>3, <2>3
      <3> QED
        BY <2>1, <2>3, <3>1
    <2> QED
      BY <1>3, <2>2, <2>3
  <1>8. g \in [0..n -> S] /\ g[0] = a
    <2> HIDE DEF next
    <2> QED
      BY <1>2, <1>3, <1>5, <1>6
  <1>9. Trail(g, S, a, F, n)
    BY <1>7, <1>8 DEF Trail
  <1> QED
    BY <1>1, <1>9

\* s is l without its k-th time.
Taken(s, l, k) ==
    /\ k \in 1..Len(l) /\ Len(s) = Len(l) - 1
    /\ \A n \in 1..Len(s) : s[n] = IF n < k THEN l[n] ELSE l[n + 1]

LEMMA RemoveAtIs ==
  ASSUME NEW l \in Seq(Times), NEW k \in 1..Len(l)
  PROVE  RemoveAt(l, k) \in Seq(Times) /\ Taken(RemoveAt(l, k), l, k)
  <1> DEFINE n == Len(l)
             p == SubSeq(l, 1, k - 1)
             q == SubSeq(l, k + 1, n)
  <1>1. n \in Nat /\ k \in Int /\ \A i \in 1..n : l[i] \in Times
    BY LenProperties, ElementOfSeq
  <1>2. p \in Seq(Times) /\ Len(p) = k - 1 /\ \A i \in 1..(k - 1) : p[i] = l[i]
    BY <1>1, SubSeqProperties
  <1>3. q \in Seq(Times) /\ Len(q) = n - k /\ \A i \in 1..(n - k) : q[i] = l[k + i]
    BY <1>1, SubSeqProperties
  <1> HIDE DEF p, q
  <1>4. p \o q \in Seq(Times) /\ Len(p \o q) = n - 1
        /\ \A i \in 1..(n - 1) : (p \o q)[i] = IF i <= k - 1 THEN p[i] ELSE q[i - (k - 1)]
    <2>1. Len(p) + Len(q) = n - 1 /\ Len(p) = k - 1
      BY <1>1, <1>2, <1>3
    <2>2. /\ p \o q \in Seq(Times) /\ Len(p \o q) = Len(p) + Len(q)
          /\ \A i \in 1..(Len(p) + Len(q)) :
                (p \o q)[i] = IF i <= Len(p) THEN p[i] ELSE q[i - Len(p)]
      BY <1>2, <1>3, ConcatProperties
    <2> HIDE DEF n
    <2> QED
      BY <2>1, <2>2
  <1>5. ASSUME NEW i \in 1..(n - 1)
        PROVE  (p \o q)[i] = IF i < k THEN l[i] ELSE l[i + 1]
    <2>1. CASE i < k
      BY <1>1, <1>2, <1>4, <2>1
    <2>2. CASE ~(i < k)
      <3>1. i - (k - 1) \in 1..(n - k) /\ k + (i - (k - 1)) = i + 1 /\ ~(i <= k - 1)
        BY <1>1, <2>2
      <3> QED
        BY <1>3, <1>4, <2>2, <3>1
    <2> QED
      BY <2>1, <2>2
  <1>6. RemoveAt(l, k) = p \o q
    BY DEF RemoveAt, p, q
  <1> QED
    BY <1>4, <1>5, <1>6 DEF Taken

\* The first of the times that equal t goes.
LEMMA RemoveFirstIs ==
  ASSUME NEW l \in Seq(Times), NEW t \in Times
  PROVE  /\ RemoveFirst(l, t) \in Seq(Times)
         /\ \/ RemoveFirst(l, t) = l /\ \A i \in 1..Len(l) : l[i] # t
            \/ \E k \in 1..Len(l) : /\ l[k] = t /\ \A j \in 1..(k - 1) : l[j] # t
                                    /\ Taken(RemoveFirst(l, t), l, k)
  <1> DEFINE I == {i \in 1..Len(l) : l[i] = t}
  <1>1. Len(l) \in Nat
    BY LenProperties
  <1>2. CASE I = {}
    BY <1>2 DEF RemoveFirst
  <1>3. CASE I # {}
    <2>1. PICK k \in I : \A j \in I : k <= j
      <3>1. I \in SUBSET Nat
        BY <1>1
      <3> HIDE DEF I
      <3> QED
        BY <1>3, <3>1, LeastNat
    <2>2. Min(I) = k
      <3>1. k \in Int /\ \A j \in I : j \in Int
        BY <1>1, <2>1
      <3>2. \A x \in I : (\A y \in I : x <= y) => x = k
        BY <2>1, <3>1
      <3> HIDE DEF I
      <3> QED
        BY <2>1, <3>2 DEF Min
    <2>3. RemoveFirst(l, t) = RemoveAt(l, k)
      BY <1>3, <2>2 DEF RemoveFirst, SelectInSeq
    <2>4. k \in 1..Len(l) /\ l[k] = t /\ \A j \in 1..(k - 1) : l[j] # t
      BY <1>1, <2>1
    <2>5. RemoveAt(l, k) \in Seq(Times) /\ Taken(RemoveAt(l, k), l, k)
      BY <2>4, RemoveAtIs
    <2> QED
      BY <2>3, <2>4, <2>5
  <1> QED
    BY <1>2, <1>3

\* What a message does to a list.
LEMMA ListedFacts ==
  ASSUME NEW l \in Seq(Times), NEW m \in Line
  PROVE  /\ Listed(l, m) \in Seq(Times)
         /\ \/ m.kind = "CLOSED" \/ m.run < 1
            \/ m.kind \in Kinds /\ m.run \in Times /\ m.run >= 1
         /\ m.kind = "CLOSED" \/ m.run < 1 => Listed(l, m) = l
         /\ m.kind = "RUN" /\ m.run >= 1 => Listed(l, m) = Append(l, m.run)
         /\ m.kind = "DELETE" /\ m.run >= 1 => Listed(l, m) = RemoveFirst(l, m.run)
  <1>1. m.kind \in Kinds \cup {"CLOSED"} /\ m.run \in Times \cup {0}
    BY DEF Line, Message, Event, Kinds
  <1>a. Times \in SUBSET Nat
    BY NetworkAssumption
  <1>b. m.run \in Nat /\ (m.run >= 1 \/ m.run < 1) /\ ~(m.run >= 1 /\ m.run < 1)
        /\ (m.run >= 1 => m.run \in Times)
    <2> DEFINE r == m.run
    <2>1. r \in Times \cup {0}
      BY <1>1
    <2> HIDE DEF r
    <2>2. r \in Nat
      BY <1>a, <2>1
    <2>3. (r >= 1 \/ r < 1) /\ ~(r >= 1 /\ r < 1) /\ (r >= 1 => r # 0)
      BY <2>2
    <2>4. r >= 1 => r \in Times
      BY <2>1, <2>3
    <2> QED
      BY <2>2, <2>3, <2>4 DEF r
  <1>2. m.kind # "CLOSED" /\ ~(m.run < 1) => m.kind \in Kinds /\ m.run \in Times /\ m.run >= 1
    BY <1>1, <1>b
  <1>3. CASE m.kind = "CLOSED" \/ m.run < 1
    <2>1. Listed(l, m) = l
      BY <1>3 DEF Listed
    <2>2. ~(m.run >= 1) \/ m.kind = "CLOSED"
      BY <1>b, <1>3
    <2> QED
      BY <1>3, <2>1, <2>2
  <1>4. CASE m.kind = "RUN" /\ m.run >= 1
    <2>1. m.kind # "CLOSED" /\ ~(m.run < 1)
      BY <1>b, <1>4
    <2>2. Listed(l, m) = Append(l, m.run)
      BY <1>4, <2>1 DEF Listed
    <2>3. Append(l, m.run) \in Seq(Times)
      BY <1>2, <2>1, AppendProperties
    <2> QED
      BY <1>2, <1>4, <2>1, <2>2, <2>3
  <1>5. CASE m.kind = "DELETE" /\ m.run >= 1
    <2>1. m.kind # "CLOSED" /\ ~(m.run < 1)
      BY <1>b, <1>5
    <2>2. Listed(l, m) = RemoveFirst(l, m.run)
      BY <1>5, <2>1 DEF Listed
    <2>3. RemoveFirst(l, m.run) \in Seq(Times)
      BY <1>2, <2>1, RemoveFirstIs
    <2> QED
      BY <1>2, <1>5, <2>1, <2>2, <2>3
  <1> QED
    BY <1>2, <1>3, <1>4, <1>5 DEF Kinds

\* The lists on the way from l to what the messages make of it.
Lists(f, l, m) ==
    /\ f \in [0..Len(m) -> Seq(Times)] /\ f[0] = l
    /\ \A n \in 1..Len(m) : f[n] = Listed(f[n - 1], m[n])

LEMMA ListsExist ==
  ASSUME NEW l \in Seq(Times), NEW m \in Seq(Line)
  PROVE  \E f : Lists(f, l, m) /\ After(l, m) = f[Len(m)]
  <1> DEFINE N == Len(m)
             IsAfter(f) == f = [n \in 0..N |-> IF n = 0 THEN l ELSE Listed(f[n - 1], m[n])]
             F == [x \in Seq(Times) \X Nat |->
                      IF x[2] \in 1..N THEN Listed(x[1], m[x[2]]) ELSE x[1]]
  <1>1. N \in Nat /\ \A n \in 1..N : m[n] \in Line
    BY LenProperties, ElementOfSeq
  <1>2. \A s \in Seq(Times), n \in 1..N : Listed(s, m[n]) \in Seq(Times)
    BY <1>1, ListedFacts
  <1>3. F \in [Seq(Times) \X Nat -> Seq(Times)]
    BY <1>2
  <1>4. \A s \in Seq(Times), n \in 1..N : F[<<s, n>>] = Listed(s, m[n])
    BY <1>1
  <1>5. PICK f : Trail(f, Seq(Times), l, F, N)
    <2> HIDE DEF F, N
    <2> QED
      BY <1>1, <1>3, TrailExists
  <1>6. f \in [0..N -> Seq(Times)] /\ f[0] = l
        /\ \A n \in 1..N : f[n] = F[<<f[n - 1], n>>]
    BY <1>5 DEF Trail
  <1>7. \A n \in 1..N : f[n] = Listed(f[n - 1], m[n])
    <2> HIDE DEF F
    <2> TAKE n \in 1..N
    <2>1. f[n - 1] \in Seq(Times)
      BY <1>1, <1>6
    <2> QED
      BY <1>4, <1>6, <2>1
  <1>8. IsAfter(f)
    <2>1. \A n \in 0..N : f[n] = IF n = 0 THEN l ELSE Listed(f[n - 1], m[n])
      BY <1>1, <1>6, <1>7
    <2>2. f = [n \in 0..N |-> f[n]]
      BY <1>6
    <2> QED
      BY <2>1, <2>2
  <1>9. \A g : IsAfter(g) => Lists(g, l, m)
    <2> SUFFICES ASSUME NEW g, IsAfter(g) PROVE Lists(g, l, m)
      OBVIOUS
    <2>0. DOMAIN g = 0..N /\ g = [n \in DOMAIN g |-> g[n]]
      OBVIOUS
    <2>1. g[0] = l /\ \A n \in 1..N : g[n] = Listed(g[n - 1], m[n])
      BY <1>1
    <2>2. \A n \in 0..N : g[n] \in Seq(Times)
      <3> DEFINE Bad == {n \in 0..N : g[n] \notin Seq(Times)}
      <3> SUFFICES ASSUME Bad # {} PROVE FALSE
        OBVIOUS
      <3>1. Bad \in SUBSET Nat
        BY <1>1
      <3>2. PICK n \in Bad : \A k \in Bad : n <= k
        <4> HIDE DEF Bad
        <4> QED
          BY <3>1, LeastNat
      <3>3. n \in 0..N /\ g[n] \notin Seq(Times)
        BY <3>2
      <3>4. n \in 1..N /\ n - 1 \in 0..N /\ ~(n <= n - 1)
        BY <1>1, <2>1, <3>3
      <3>5. g[n - 1] \in Seq(Times)
        BY <3>2, <3>4
      <3> QED
        BY <1>2, <2>1, <3>3, <3>4, <3>5
    <2> HIDE DEF IsAfter
    <2> QED
      BY <2>0, <2>1, <2>2 DEF Lists
  <1>10. After(l, m) = (CHOOSE g : IsAfter(g))[N]
    BY Zenon DEF After
  <1>11. IsAfter(CHOOSE g : IsAfter(g))
    <2> HIDE DEF IsAfter
    <2> QED
      BY <1>8
  <1> DEFINE g == CHOOSE h : IsAfter(h)
  <1>12. Lists(g, l, m) /\ After(l, m) = g[N]
    <2> HIDE DEF IsAfter
    <2> QED
      BY <1>9, <1>10, <1>11
  <1> HIDE DEF g
  <1> QED
    BY <1>12

LEMMA AfterIs ==
  ASSUME NEW l \in Seq(Times), NEW m \in Seq(Line), NEW f, Lists(f, l, m)
  PROVE  After(l, m) = f[Len(m)]
  <1>1. PICK g : Lists(g, l, m) /\ After(l, m) = g[Len(m)]
    BY ListsExist
  <1> DEFINE Bad == {n \in 0..Len(m) : f[n] # g[n]}
  <1>2. Len(m) \in Nat
    BY LenProperties
  <1>3. Bad = {}
    <2> SUFFICES ASSUME Bad # {} PROVE FALSE
      OBVIOUS
    <2>1. Bad \in SUBSET Nat
      BY <1>2
    <2>2. PICK n \in Bad : \A k \in Bad : n <= k
      <3> HIDE DEF Bad
      <3> QED
        BY <2>1, LeastNat
    <2>3. n \in 0..Len(m) /\ f[n] # g[n] /\ n # 0
      BY <1>1, <2>2 DEF Lists
    <2>4. n \in 1..Len(m) /\ n - 1 \in 0..Len(m) /\ ~(n <= n - 1)
      BY <1>2, <2>3
    <2>5. f[n - 1] = g[n - 1]
      BY <2>2, <2>4
    <2> QED
      BY <1>1, <2>3, <2>4, <2>5 DEF Lists
  <1> QED
    BY <1>1, <1>2, <1>3

LEMMA AfterType ==
  ASSUME NEW l \in Seq(Times), NEW m \in Seq(Line)
  PROVE  After(l, m) \in Seq(Times)
  <1>1. PICK f : Lists(f, l, m) /\ After(l, m) = f[Len(m)]
    BY ListsExist
  <1>2. Len(m) \in Nat
    BY LenProperties
  <1> QED
    BY <1>1, <1>2 DEF Lists

LEMMA AfterNothing ==
  ASSUME NEW l \in Seq(Times)
  PROVE  After(l, <<>>) = l
  <1>1. \A m : m = <<>> => After(l, m) = l
    <2> SUFFICES ASSUME NEW m, m = <<>> PROVE After(l, m) = l
      OBVIOUS
    <2>1. m \in Seq(Line) /\ Len(m) = 0
      BY EmptySeq
    <2>2. PICK f : Lists(f, l, m) /\ After(l, m) = f[Len(m)]
      BY <2>1, ListsExist
    <2> QED
      BY <2>1, <2>2 DEF Lists
  <1> QED
    BY <1>1

\* One more message at the end.
LEMMA AfterAppend ==
  ASSUME NEW l \in Seq(Times), NEW m \in Seq(Line), NEW e \in Line
  PROVE  /\ Append(m, e) \in Seq(Line)
         /\ After(l, Append(m, e)) = Listed(After(l, m), e)
  <1> DEFINE N == Len(m)
             longer == Append(m, e)
  <1>1. /\ longer \in Seq(Line) /\ Len(longer) = N + 1 /\ N \in Nat
        /\ \A n \in 1..N : longer[n] = m[n]
        /\ longer[N + 1] = e
    BY AppendProperties, LenProperties
  <1> HIDE DEF longer
  <1>2. PICK f : Lists(f, l, m) /\ After(l, m) = f[N]
    BY ListsExist
  <1>3. f \in [0..N -> Seq(Times)] /\ f[0] = l
        /\ \A n \in 1..N : f[n] = Listed(f[n - 1], m[n])
    BY <1>2 DEF Lists
  <1> DEFINE last == Listed(f[N], e)
             g == [n \in 0..(N + 1) |-> IF n <= N THEN f[n] ELSE last]
  <1>4. last \in Seq(Times)
    <2>1. f[N] \in Seq(Times)
      BY <1>1, <1>3
    <2> QED
      BY <2>1, ListedFacts
  <1>5. g \in [0..(N + 1) -> Seq(Times)] /\ g[0] = l /\ g[N + 1] = last
    <2> HIDE DEF last
    <2> QED
      BY <1>1, <1>3, <1>4
  <1>6. \A n \in 1..(N + 1) : g[n] = Listed(g[n - 1], longer[n])
    <2> TAKE n \in 1..(N + 1)
    <2>1. g[n - 1] = f[n - 1]
      BY <1>1
    <2>2. CASE n <= N
      <3>1. n \in 1..N /\ g[n] = f[n]
        BY <1>1, <2>2
      <3> QED
        BY <1>1, <1>3, <2>1, <3>1
    <2>3. CASE n = N + 1
      <3>1. g[n] = last /\ n - 1 = N /\ longer[n] = e
        BY <1>1, <1>5, <2>3
      <3> QED
        BY <2>1, <3>1
    <2> QED
      BY <1>1, <2>2, <2>3
  <1> HIDE DEF g
  <1>7. Lists(g, l, longer)
    BY <1>1, <1>5, <1>6 DEF Lists
  <1>8. After(l, longer) = g[N + 1]
    BY <1>1, <1>7, AfterIs
  <1> QED
    BY <1>1, <1>2, <1>5, <1>8 DEF longer

\* The first message is handled.
LEMMA AfterHead ==
  ASSUME NEW l \in Seq(Times), NEW m \in Seq(Line), m # <<>>
  PROVE  /\ Head(m) \in Line /\ Tail(m) \in Seq(Line)
         /\ Listed(l, Head(m)) \in Seq(Times)
         /\ After(l, m) = After(Listed(l, Head(m)), Tail(m))
  <1> DEFINE N == Len(m)
             first == Head(m)
             rest == Tail(m)
  <1>1. /\ first \in Line /\ rest \in Seq(Line) /\ N \in Nat \ {0} /\ Len(rest) = N - 1
        /\ first = m[1] /\ \A n \in 1..(N - 1) : rest[n] = m[n + 1]
    BY HeadTailProperties, LenProperties, EmptySeq
  <1> HIDE DEF first, rest
  <1>2. PICK f : Lists(f, l, m) /\ After(l, m) = f[N]
    BY ListsExist
  <1>3. f \in [0..N -> Seq(Times)] /\ f[0] = l
        /\ \A n \in 1..N : f[n] = Listed(f[n - 1], m[n])
    BY <1>2 DEF Lists
  <1> DEFINE g == [n \in 0..(N - 1) |-> f[n + 1]]
             start == Listed(l, first)
  <1>4. f[1] = start
    BY <1>1, <1>3
  <1>5. start \in Seq(Times)
    BY <1>1, <1>3, <1>4
  <1>6. g \in [0..(N - 1) -> Seq(Times)] /\ g[0] = start /\ g[N - 1] = f[N]
    BY <1>1, <1>3, <1>4
  <1>7. \A n \in 1..(N - 1) : g[n] = Listed(g[n - 1], rest[n])
    <2> TAKE n \in 1..(N - 1)
    <2>1. n + 1 \in 1..N /\ (n + 1) - 1 = n /\ (n - 1) + 1 = n /\ n - 1 \in 0..(N - 1)
      BY <1>1
    <2>2. f[n + 1] = Listed(f[n], m[n + 1])
      BY <1>3, <2>1
    <2>3. g[n] = f[n + 1] /\ g[n - 1] = f[n]
      BY <1>1, <2>1
    <2> QED
      BY <1>1, <2>2, <2>3
  <1> HIDE DEF g, start
  <1>8. Lists(g, start, rest)
    BY <1>1, <1>6, <1>7 DEF Lists
  <1>9. After(start, rest) = g[N - 1]
    BY <1>1, <1>5, <1>8, AfterIs
  <1> QED
    BY <1>1, <1>2, <1>5, <1>6, <1>9 DEF start, first, rest

-----------------------------------------------------------------------------
(* How often a time waits, and in which order.                              *)

LEMMA CountType ==
  ASSUME NEW l \in Seq(Times), NEW t
  PROVE  /\ DOMAIN l = 1..Len(l) /\ Len(l) \in Nat
         /\ IsFiniteSet({i \in 1..Len(l) : l[i] = t})
         /\ Count(l, t) = Cardinality({i \in 1..Len(l) : l[i] = t})
         /\ Count(l, t) \in Nat
         /\ Count(l, t) > 0 <=> \E i \in 1..Len(l) : l[i] = t
  <1> DEFINE S == {i \in 1..Len(l) : l[i] = t}
  <1>1. DOMAIN l = 1..Len(l) /\ Len(l) \in Nat
    BY LenProperties
  <1>2. IsFiniteSet(S)
    <2>1. IsFiniteSet(1..Len(l))
      BY <1>1, FS_Interval
    <2> QED
      BY <2>1, FS_Subset
  <1>3. Count(l, t) = Cardinality(S)
    BY <1>1 DEF Count
  <1>4. Cardinality(S) \in Nat /\ (Cardinality(S) = 0 <=> S = {})
    BY <1>2, FS_CardinalityType, FS_EmptySet
  <1>5. Count(l, t) > 0 <=> S # {}
    BY <1>3, <1>4
  <1> QED
    BY <1>1, <1>2, <1>3, <1>4, <1>5

LEMMA CountAppend ==
  ASSUME NEW l \in Seq(Times), NEW r \in Times, NEW t
  PROVE  Count(Append(l, r), t) = IF r = t THEN Count(l, t) + 1 ELSE Count(l, t)
  <1> DEFINE N == Len(l)
             longer == Append(l, r)
             S == {i \in 1..N : l[i] = t}
  <1>1. /\ longer \in Seq(Times) /\ Len(longer) = N + 1 /\ N \in Nat
        /\ \A n \in 1..N : longer[n] = l[n]
        /\ longer[N + 1] = r
    BY AppendProperties, LenProperties
  <1>2. IsFiniteSet(S) /\ Count(l, t) = Cardinality(S)
    BY CountType
  <1> HIDE DEF longer
  <1>3. Count(longer, t) = Cardinality({i \in 1..(N + 1) : longer[i] = t})
    BY <1>1, CountType
  <1>4. CASE r = t
    <2>1. {i \in 1..(N + 1) : longer[i] = t} = S \cup {N + 1}
      BY <1>1, <1>4
    <2>2. N + 1 \notin S
      BY <1>1
    <2>3. Cardinality(S \cup {N + 1}) = Cardinality(S) + 1
      <3> HIDE DEF S
      <3> QED
        BY <1>2, <2>2, FS_AddElement
    <2> QED
      BY <1>2, <1>3, <1>4, <2>1, <2>3 DEF longer
  <1>5. CASE r # t
    <2>1. {i \in 1..(N + 1) : longer[i] = t} = S
      BY <1>1, <1>5
    <2> QED
      BY <1>2, <1>3, <1>5, <2>1 DEF longer
  <1> QED
    BY <1>4, <1>5

\* The places of s are those of l without k.
Place(n, k) == IF n < k THEN n ELSE n + 1

LEMMA CountTaken ==
  ASSUME NEW l \in Seq(Times), NEW s \in Seq(Times), NEW k, Taken(s, l, k), NEW t
  PROVE  /\ l[k] = t => Count(s, t) = Count(l, t) - 1
         /\ l[k] # t => Count(s, t) = Count(l, t)
  <1> DEFINE S == {i \in 1..Len(s) : s[i] = t}
             L == {i \in 1..Len(l) : l[i] = t}
             T == L \ {k}
             f == [n \in S |-> Place(n, k)]
  <1>1. /\ IsFiniteSet(S) /\ Count(s, t) = Cardinality(S)
        /\ IsFiniteSet(L) /\ Count(l, t) = Cardinality(L)
        /\ Len(l) \in Nat /\ Len(s) \in Nat
    BY CountType
  <1>2. /\ k \in 1..Len(l) /\ Len(s) = Len(l) - 1
        /\ \A n \in 1..Len(s) : s[n] = l[Place(n, k)]
    BY DEF Taken, Place
  <1>3. \A n \in S : Place(n, k) \in T
    <2> TAKE n \in S
    <2>1. Place(n, k) \in 1..Len(l) /\ Place(n, k) # k
      BY <1>1, <1>2 DEF Place
    <2> QED
      BY <1>2, <2>1
  <1>4. \A m, n \in S : Place(m, k) = Place(n, k) => m = n
    BY <1>1, <1>2 DEF Place
  <1>5. \A i \in T : \E n \in S : Place(n, k) = i
    <2> TAKE i \in T
    <2> DEFINE n == IF i < k THEN i ELSE i - 1
    <2>1. n \in 1..Len(s) /\ Place(n, k) = i
      BY <1>1, <1>2 DEF Place
    <2>2. s[n] = t
      BY <1>2, <2>1
    <2> HIDE DEF n
    <2> QED
      BY <2>1, <2>2
  <1>6. ExistsBijection(S, T)
    <2>1. f \in [S -> T]
      BY <1>3
    <2>2. \A m, n \in S : f[m] = f[n] => m = n
      BY <1>4
    <2>3. \A i \in T : \E n \in S : f[n] = i
      BY <1>5
    <2> HIDE DEF f, S, T
    <2>4. f \in Bijection(S, T)
      BY <2>1, <2>2, <2>3 DEF Bijection, Injection, Surjection, IsInjective
    <2> QED
      BY <2>4 DEF ExistsBijection
  <1>7. Cardinality(S) = Cardinality(T)
    <2> HIDE DEF S, T
    <2> QED
      BY <1>1, <1>6, FS_Bijection
  <1>8. Cardinality(T) = IF k \in L THEN Cardinality(L) - 1 ELSE Cardinality(L)
    <2> HIDE DEF L
    <2> QED
      BY <1>1, FS_RemoveElement
  <1>9. k \in L <=> l[k] = t
    BY <1>2
  <1> QED
    BY <1>1, <1>7, <1>8, <1>9

\* What a message does to the count of t.
LEMMA CountListed ==
  ASSUME NEW l \in Seq(Times), NEW m \in Line, NEW t
  PROVE  Count(Listed(l, m), t) =
            IF m.run < 1 \/ m.run # t \/ m.kind = "CLOSED" THEN Count(l, t)
            ELSE IF m.kind = "RUN" THEN Count(l, t) + 1
            ELSE IF Count(l, t) > 0 THEN Count(l, t) - 1
            ELSE 0
  <1>1. Count(l, t) \in Nat
    BY CountType
  <1>2. CASE m.run < 1 \/ m.kind = "CLOSED"
    BY <1>2, ListedFacts
  <1>3. CASE ~(m.run < 1 \/ m.kind = "CLOSED")
    <2>1. m.kind \in Kinds /\ m.run \in Times /\ m.run >= 1
      BY <1>3, ListedFacts
    <2>2. CASE m.kind = "RUN"
      <3>1. Listed(l, m) = Append(l, m.run)
        BY <2>1, <2>2, ListedFacts
      <3>2. Count(Append(l, m.run), t) = IF m.run = t THEN Count(l, t) + 1 ELSE Count(l, t)
        BY <2>1, CountAppend
      <3> QED
        BY <1>3, <2>2, <3>1, <3>2
    <2>3. CASE m.kind = "DELETE"
      <3> DEFINE s == RemoveFirst(l, m.run)
      <3>1. Listed(l, m) = s
        BY <2>1, <2>3, ListedFacts
      <3>2. /\ s \in Seq(Times)
            /\ \/ s = l /\ \A i \in 1..Len(l) : l[i] # m.run
               \/ \E k \in 1..Len(l) : l[k] = m.run /\ Taken(s, l, k)
        BY <2>1, RemoveFirstIs
      <3> HIDE DEF s
      <3>3. CASE s = l /\ \A i \in 1..Len(l) : l[i] # m.run
        <4>1. m.run = t => Count(l, t) = 0
          <5>1. Count(l, t) > 0 <=> \E i \in 1..Len(l) : l[i] = t
            BY CountType
          <5> QED
            BY <1>1, <3>3, <5>1
        <4> QED
          BY <1>1, <1>3, <2>3, <3>1, <3>3, <4>1
      <3>4. CASE \E k \in 1..Len(l) : l[k] = m.run /\ Taken(s, l, k)
        <4>1. PICK k \in 1..Len(l) : l[k] = m.run /\ Taken(s, l, k)
          BY <3>4
        <4>2. /\ m.run = t => Count(s, t) = Count(l, t) - 1
              /\ m.run # t => Count(s, t) = Count(l, t)
          BY <3>2, <4>1, CountTaken
        <4>3. m.run = t => Count(l, t) > 0
          BY <4>1, CountType
        <4> QED
          BY <1>1, <1>3, <2>3, <3>1, <4>2, <4>3
      <3> QED
        BY <3>2, <3>3, <3>4
    <2> QED
      BY <2>1, <2>2, <2>3 DEF Kinds
  <1> QED
    BY <1>2, <1>3

\* A list that has at most d times fewer still has when messages were handled.
LEMMA CountsStayClose ==
  ASSUME NEW l \in Seq(Times), NEW s \in Seq(Times), NEW m \in Seq(Line), NEW t,
         NEW d \in Nat, Count(s, t) <= Count(l, t), Count(l, t) <= Count(s, t) + d
  PROVE  /\ Count(After(s, m), t) <= Count(After(l, m), t)
         /\ Count(After(l, m), t) <= Count(After(s, m), t) + d
  <1>1. PICK f : Lists(f, l, m) /\ After(l, m) = f[Len(m)]
    BY ListsExist
  <1>2. PICK g : Lists(g, s, m) /\ After(s, m) = g[Len(m)]
    BY ListsExist
  <1>3. Len(m) \in Nat /\ \A n \in 1..Len(m) : m[n] \in Line
    BY LenProperties, ElementOfSeq
  <1> DEFINE Close(n) == Count(g[n], t) <= Count(f[n], t) /\ Count(f[n], t) <= Count(g[n], t) + d
             Bad == {n \in 0..Len(m) : ~Close(n)}
  <1>4. \A n \in 1..Len(m) : Close(n - 1) => Close(n)
    <2> SUFFICES ASSUME NEW n \in 1..Len(m), Close(n - 1) PROVE Close(n)
      OBVIOUS
    <2>1. n - 1 \in 0..Len(m)
      BY <1>3
    <2>2. /\ f[n - 1] \in Seq(Times) /\ f[n] = Listed(f[n - 1], m[n])
          /\ g[n - 1] \in Seq(Times) /\ g[n] = Listed(g[n - 1], m[n])
      BY <1>1, <1>2, <2>1 DEF Lists
    <2> DEFINE a == Count(f[n - 1], t)
               b == Count(g[n - 1], t)
               e == m[n]
    <2>3. a \in Nat /\ b \in Nat /\ b <= a /\ a <= b + d
      BY <2>2, CountType
    <2>4. Count(f[n], t) = IF e.run < 1 \/ e.run # t \/ e.kind = "CLOSED" THEN a
                           ELSE IF e.kind = "RUN" THEN a + 1
                           ELSE IF a > 0 THEN a - 1 ELSE 0
      BY <1>3, <2>2, CountListed
    <2>5. Count(g[n], t) = IF e.run < 1 \/ e.run # t \/ e.kind = "CLOSED" THEN b
                           ELSE IF e.kind = "RUN" THEN b + 1
                           ELSE IF b > 0 THEN b - 1 ELSE 0
      BY <1>3, <2>2, CountListed
    <2> HIDE DEF a, b, e
    <2> QED
      BY <2>3, <2>4, <2>5
  <1>5. Close(0)
    BY <1>1, <1>2 DEF Lists
  <1>6. Bad = {}
    <2> SUFFICES ASSUME Bad # {} PROVE FALSE
      OBVIOUS
    <2> HIDE DEF Close
    <2>1. Bad \in SUBSET Nat
      BY <1>3
    <2>2. PICK n \in Bad : \A k \in Bad : n <= k
      <3> HIDE DEF Bad
      <3> QED
        BY <2>1, LeastNat
    <2>3. n \in 0..Len(m) /\ ~Close(n) /\ n # 0
      BY <1>5, <2>2
    <2>4. n \in 1..Len(m) /\ n - 1 \in 0..Len(m) /\ ~(n <= n - 1)
      BY <1>3, <2>3
    <2>5. Close(n - 1)
      BY <2>2, <2>4
    <2> QED
      BY <1>4, <2>3, <2>4, <2>5
  <1>7. Close(Len(m))
    BY <1>3, <1>6
  <1> QED
    BY <1>1, <1>2, <1>7

\* f shows where the times of s are in l: in the same order.
Embeds(f, s, l) ==
    /\ f \in [1..Len(s) -> 1..Len(l)]
    /\ \A i, j \in 1..Len(s) : i < j => f[i] < f[j]
    /\ \A i \in 1..Len(s) : s[i] = l[f[i]]

Within(s, l) == \E f : Embeds(f, s, l)

LEMMA TakenIsWithin ==
  ASSUME NEW l \in Seq(Times), NEW s \in Seq(Times), NEW k, Taken(s, l, k)
  PROVE  Within(s, l)
  <1> DEFINE f == [n \in 1..Len(s) |-> Place(n, k)]
  <1>1. /\ Len(l) \in Nat /\ Len(s) \in Nat /\ k \in 1..Len(l) /\ Len(s) = Len(l) - 1
        /\ \A n \in 1..Len(s) : s[n] = l[Place(n, k)]
    BY LenProperties DEF Taken, Place
  <1>2. f \in [1..Len(s) -> 1..Len(l)]
    BY <1>1 DEF Place
  <1>3. \A i, j \in 1..Len(s) : i < j => f[i] < f[j]
    BY <1>1 DEF Place
  <1>4. \A i \in 1..Len(s) : s[i] = l[f[i]]
    BY <1>1
  <1> HIDE DEF f
  <1> QED
    BY <1>2, <1>3, <1>4 DEF Within, Embeds

LEMMA AppendWithin ==
  ASSUME NEW l \in Seq(Times), NEW s \in Seq(Times), Within(s, l), NEW r \in Times
  PROVE  Within(Append(s, r), Append(l, r))
  <1> DEFINE M == Len(s)
             N == Len(l)
             t == Append(s, r)
             u == Append(l, r)
  <1>1. /\ M \in Nat /\ Len(t) = M + 1 /\ \A i \in 1..M : t[i] = s[i]
        /\ t[M + 1] = r
    BY AppendProperties, LenProperties
  <1>2. /\ N \in Nat /\ Len(u) = N + 1 /\ \A i \in 1..N : u[i] = l[i]
        /\ u[N + 1] = r
    BY AppendProperties, LenProperties
  <1>3. PICK f : Embeds(f, s, l)
    BY DEF Within
  <1>4. /\ \A i \in 1..M : f[i] \in 1..N /\ s[i] = l[f[i]]
        /\ \A i, j \in 1..M : i < j => f[i] < f[j]
    BY <1>3 DEF Embeds
  <1> HIDE DEF t, u
  <1> DEFINE g == [i \in 1..(M + 1) |-> IF i <= M THEN f[i] ELSE N + 1]
  <1>5. (\A i \in 1..M : g[i] = f[i]) /\ g[M + 1] = N + 1
    BY <1>1
  <1>6. g \in [1..(M + 1) -> 1..(N + 1)]
    <2>1. \A i \in 1..(M + 1) : (IF i <= M THEN f[i] ELSE N + 1) \in 1..(N + 1)
      BY <1>1, <1>2, <1>4
    <2> QED
      BY <2>1
  <1> HIDE DEF g
  <1>7. \A i, j \in 1..(M + 1) : i < j => g[i] < g[j]
    <2> TAKE i, j \in 1..(M + 1)
    <2> HAVE i < j
    <2>1. i \in 1..M /\ g[i] = f[i] /\ f[i] \in 1..N
      BY <1>1, <1>4, <1>5
    <2>2. CASE j \in 1..M
      BY <1>4, <1>5, <2>1, <2>2
    <2>3. CASE j = M + 1
      BY <1>2, <1>5, <2>1, <2>3
    <2> QED
      BY <1>1, <2>2, <2>3
  <1>8. \A i \in 1..(M + 1) : t[i] = u[g[i]]
    <2> TAKE i \in 1..(M + 1)
    <2>1. CASE i \in 1..M
      BY <1>1, <1>2, <1>4, <1>5, <2>1
    <2>2. CASE i = M + 1
      BY <1>1, <1>2, <1>5, <2>2
    <2> QED
      BY <1>1, <2>1, <2>2
  <1>9. Embeds(g, t, u)
    BY <1>1, <1>2, <1>6, <1>7, <1>8 DEF Embeds
  <1> QED
    BY <1>9 DEF Within, t, u

\* What is left of l and of s when the first of the equal times goes.
Sooner(i, k) == IF i < k THEN i ELSE i - 1

\* No place of s is that of k: what is taken from l is not of s.
LEMMA TakenBeside ==
  ASSUME NEW l \in Seq(Times), NEW s \in Seq(Times), NEW f, Embeds(f, s, l),
         NEW u \in Seq(Times), NEW k, Taken(u, l, k), \A i \in 1..Len(s) : f[i] # k
  PROVE  Within(s, u)
  <1> DEFINE M == Len(s)
             N == Len(l)
             g == [i \in 1..M |-> Sooner(f[i], k)]
  <1>1. /\ M \in Nat /\ N \in Nat /\ k \in 1..N /\ Len(u) = N - 1
        /\ \A n \in 1..(N - 1) : u[n] = l[Place(n, k)]
    BY LenProperties DEF Taken, Place
  <1>2. /\ \A i \in 1..M : f[i] \in 1..N /\ s[i] = l[f[i]] /\ f[i] # k
        /\ \A i, j \in 1..M : i < j => f[i] < f[j]
    BY DEF Embeds
  <1>3. \A n \in 1..N : n # k => Sooner(n, k) \in 1..(N - 1) /\ Place(Sooner(n, k), k) = n
    BY <1>1 DEF Sooner, Place
  <1>4. \A m, n \in 1..N : m < n /\ m # k /\ n # k => Sooner(m, k) < Sooner(n, k)
    BY <1>1 DEF Sooner
  <1>5. \A i \in 1..M : g[i] \in 1..(N - 1) /\ s[i] = u[g[i]]
    <2> TAKE i \in 1..M
    <2>1. g[i] = Sooner(f[i], k) /\ f[i] \in 1..N /\ f[i] # k
      BY <1>2
    <2>2. g[i] \in 1..(N - 1) /\ Place(g[i], k) = f[i]
      BY <1>3, <2>1
    <2> QED
      BY <1>1, <1>2, <2>2
  <1>6. \A i, j \in 1..M : i < j => g[i] < g[j]
    BY <1>2, <1>4
  <1>7. g \in [1..M -> 1..(N - 1)]
    <2>1. g = [i \in 1..M |-> g[i]]
      OBVIOUS
    <2> HIDE DEF g
    <2> QED
      BY <1>5, <2>1
  <1> HIDE DEF g
  <1>8. Embeds(g, s, u)
    BY <1>1, <1>5, <1>6, <1>7 DEF Embeds
  <1> QED
    BY <1>8 DEF Within

LEMMA WithinTransitive ==
  ASSUME NEW r \in Seq(Times), NEW s \in Seq(Times), NEW l \in Seq(Times),
         NEW e, Embeds(e, r, s), NEW f, Embeds(f, s, l)
  PROVE  Embeds([i \in 1..Len(r) |-> f[e[i]]], r, l)
  <1> DEFINE g == [i \in 1..Len(r) |-> f[e[i]]]
  <1>1. \A i \in 1..Len(r) : e[i] \in 1..Len(s) /\ r[i] = s[e[i]]
    BY DEF Embeds
  <1>2. \A i \in 1..Len(s) : f[i] \in 1..Len(l) /\ s[i] = l[f[i]]
    BY DEF Embeds
  <1>3. g \in [1..Len(r) -> 1..Len(l)] /\ \A i \in 1..Len(r) : r[i] = l[g[i]]
    BY <1>1, <1>2
  <1>4. \A i, j \in 1..Len(r) : i < j => g[i] < g[j]
    BY <1>1 DEF Embeds
  <1> HIDE DEF g
  <1>5. Embeds(g, r, l)
    BY <1>3, <1>4 DEF Embeds
  <1> QED
    BY <1>5 DEF g

LEMMA RemoveFirstWithin ==
  ASSUME NEW l \in Seq(Times), NEW s \in Seq(Times), Within(s, l), NEW t \in Times
  PROVE  Within(RemoveFirst(s, t), RemoveFirst(l, t))
  <1>1. PICK f : Embeds(f, s, l)
    BY DEF Within
  <1>2. \A i \in 1..Len(s) : f[i] \in 1..Len(l) /\ s[i] = l[f[i]]
    BY <1>1 DEF Embeds
  <1>3. PICK v, u : v = RemoveFirst(s, t) /\ u = RemoveFirst(l, t)
    OBVIOUS
  <1>4. /\ v \in Seq(Times)
        /\ \/ v = s /\ \A i \in 1..Len(s) : s[i] # t
           \/ \E k \in 1..Len(s) : /\ s[k] = t /\ \A j \in 1..(k - 1) : s[j] # t
                                   /\ Taken(v, s, k)
    BY <1>3, RemoveFirstIs
  <1>5. /\ u \in Seq(Times)
        /\ \/ u = l /\ \A i \in 1..Len(l) : l[i] # t
           \/ \E k \in 1..Len(l) : /\ l[k] = t /\ \A j \in 1..(k - 1) : l[j] # t
                                   /\ Taken(u, l, k)
    BY <1>3, RemoveFirstIs
  <1>6. Len(s) \in Nat /\ Len(l) \in Nat
    BY LenProperties
  <1>7. CASE v = s /\ \A i \in 1..Len(s) : s[i] # t
    <2>1. CASE u = l
      BY <1>1, <1>3, <1>7, <2>1 DEF Within
    <2>2. CASE \E k \in 1..Len(l) : l[k] = t /\ Taken(u, l, k)
      <3>1. PICK k \in 1..Len(l) : l[k] = t /\ Taken(u, l, k)
        BY <2>2
      <3>2. \A i \in 1..Len(s) : f[i] # k
        BY <1>2, <1>7, <3>1
      <3>3. Within(s, u)
        BY <1>1, <1>5, <3>1, <3>2, TakenBeside
      <3> QED
        BY <1>3, <1>7, <3>3
    <2> QED
      BY <1>5, <2>1, <2>2
  <1>8. CASE \E k \in 1..Len(s) : /\ s[k] = t /\ \A j \in 1..(k - 1) : s[j] # t
                                  /\ Taken(v, s, k)
    <2>1. PICK k \in 1..Len(s) : /\ s[k] = t /\ \A j \in 1..(k - 1) : s[j] # t
                                 /\ Taken(v, s, k)
      BY <1>8
    <2>2. f[k] \in 1..Len(l) /\ l[f[k]] = t
      BY <1>2, <2>1
    <2>3. PICK m \in 1..Len(l) : /\ l[m] = t /\ \A j \in 1..(m - 1) : l[j] # t
                                 /\ Taken(u, l, m)
      BY <1>5, <2>2
    <2>4. m <= f[k]
      <3>1. ~(f[k] \in 1..(m - 1))
        BY <2>2, <2>3
      <3> QED
        BY <1>6, <2>2, <2>3, <3>1
    <2> DEFINE e == [n \in 1..Len(v) |-> Place(n, k)]
    <2>5. Len(v) \in Nat /\ Len(v) = Len(s) - 1 /\ k \in Int
      BY <1>4, <1>6, <2>1, LenProperties DEF Taken
    <2>6. Embeds(e, v, s)
      <3>1. e \in [1..Len(v) -> 1..Len(s)]
        BY <1>6, <2>1, <2>5 DEF Place
      <3>2. \A i, j \in 1..Len(v) : i < j => e[i] < e[j]
        BY <1>6, <2>1, <2>5 DEF Place
      <3>3. \A i \in 1..Len(v) : v[i] = s[e[i]]
        BY <2>1 DEF Taken, Place
      <3> HIDE DEF e
      <3> QED
        BY <3>1, <3>2, <3>3 DEF Embeds
    <2> DEFINE g == [i \in 1..Len(v) |-> f[e[i]]]
    <2>7. \A n \in 1..Len(v) : e[n] \in 1..Len(s) /\ e[n] # k
      BY <1>6, <2>1, <2>5 DEF Place
    <2> HIDE DEF e
    <2>8. Embeds(g, v, l)
      BY <1>1, <1>4, <2>6, WithinTransitive
    <2>9. \A n \in 1..Len(v) : g[n] # m
      <3> SUFFICES ASSUME NEW n \in 1..Len(v), f[e[n]] = m PROVE FALSE
        OBVIOUS
      <3>1. e[n] \in 1..Len(s) /\ e[n] # k /\ s[e[n]] = t
        BY <1>2, <2>3, <2>7
      <3>2. ~(e[n] \in 1..(k - 1))
        BY <2>1, <3>1
      <3>3. k < e[n]
        BY <1>6, <2>1, <3>1, <3>2
      <3>4. f[k] < f[e[n]]
        BY <1>1, <2>1, <3>1, <3>3 DEF Embeds
      <3> QED
        BY <1>6, <2>2, <2>3, <2>4, <3>4
    <2> HIDE DEF g
    <2>10. Within(v, u)
      BY <1>4, <1>5, <2>3, <2>8, <2>9, TakenBeside
    <2> QED
      BY <1>3, <2>10
  <1> QED
    BY <1>4, <1>7, <1>8

LEMMA ListedWithin ==
  ASSUME NEW l \in Seq(Times), NEW s \in Seq(Times), Within(s, l), NEW m \in Line
  PROVE  Within(Listed(s, m), Listed(l, m))
  <1>1. CASE m.kind = "CLOSED" \/ m.run < 1
    BY <1>1, ListedFacts
  <1>2. CASE m.kind \in Kinds /\ m.run \in Times /\ m.run >= 1
    <2>1. CASE m.kind = "RUN"
      <3>1. Listed(s, m) = Append(s, m.run) /\ Listed(l, m) = Append(l, m.run)
        BY <1>2, <2>1, ListedFacts
      <3> QED
        BY <1>2, <3>1, AppendWithin
    <2>2. CASE m.kind = "DELETE"
      <3>1. Listed(s, m) = RemoveFirst(s, m.run) /\ Listed(l, m) = RemoveFirst(l, m.run)
        BY <1>2, <2>2, ListedFacts
      <3> QED
        BY <1>2, <3>1, RemoveFirstWithin
    <2> QED
      BY <1>2, <2>1, <2>2 DEF Kinds
  <1> QED
    BY <1>1, <1>2, ListedFacts

\* What was within another list stays within it when messages are handled.
LEMMA AfterWithin ==
  ASSUME NEW l \in Seq(Times), NEW s \in Seq(Times), Within(s, l), NEW m \in Seq(Line)
  PROVE  Within(After(s, m), After(l, m))
  <1>1. PICK f : Lists(f, l, m) /\ After(l, m) = f[Len(m)]
    BY ListsExist
  <1>2. PICK g : Lists(g, s, m) /\ After(s, m) = g[Len(m)]
    BY ListsExist
  <1>3. Len(m) \in Nat /\ \A n \in 1..Len(m) : m[n] \in Line
    BY LenProperties, ElementOfSeq
  <1> DEFINE Bad == {n \in 0..Len(m) : ~Within(g[n], f[n])}
  <1>4. \A n \in 1..Len(m) : Within(g[n - 1], f[n - 1]) => Within(g[n], f[n])
    <2> SUFFICES ASSUME NEW n \in 1..Len(m), Within(g[n - 1], f[n - 1])
                 PROVE  Within(g[n], f[n])
      OBVIOUS
    <2>1. n - 1 \in 0..Len(m)
      BY <1>3
    <2>2. /\ f[n - 1] \in Seq(Times) /\ f[n] = Listed(f[n - 1], m[n])
          /\ g[n - 1] \in Seq(Times) /\ g[n] = Listed(g[n - 1], m[n])
      BY <1>1, <1>2, <2>1 DEF Lists
    <2> QED
      BY <1>3, <2>2, ListedWithin
  <1>5. Within(g[0], f[0])
    BY <1>1, <1>2 DEF Lists
  <1>6. Bad = {}
    <2> SUFFICES ASSUME Bad # {} PROVE FALSE
      OBVIOUS
    <2>1. Bad \in SUBSET Nat
      BY <1>3
    <2>2. PICK n \in Bad : \A k \in Bad : n <= k
      <3> HIDE DEF Bad
      <3> QED
        BY <2>1, LeastNat
    <2>3. n \in 0..Len(m) /\ ~Within(g[n], f[n]) /\ n # 0
      BY <1>5, <2>2
    <2>4. n \in 1..Len(m) /\ n - 1 \in 0..Len(m) /\ ~(n <= n - 1)
      BY <1>3, <2>3
    <2>5. Within(g[n - 1], f[n - 1])
      BY <2>2, <2>4
    <2> QED
      BY <1>4, <2>3, <2>4, <2>5
  <1> QED
    BY <1>1, <1>2, <1>3, <1>6

-----------------------------------------------------------------------------
(* The connections of the service.                                          *)

LEMMA ConnsFacts == 0 \notin Conns /\ IsFiniteSet(Conns) /\ Cardinality(Conns) = MaxConns
  BY FS_Interval DEF Conns

HIDE DEF Conns

Distinct(s) == \A i, j \in 1..Len(s) : s[i] = s[j] => i = j
Members(s) == {s[i] : i \in 1..Len(s)}

LEMMA AppendDistinct ==
  ASSUME NEW s \in Seq(Conns), NEW c \in Conns
  PROVE  /\ Append(s, c) \in Seq(Conns)
         /\ Members(Append(s, c)) = Members(s) \cup {c}
         /\ Distinct(s) /\ c \notin Members(s) => Distinct(Append(s, c))
  <1> DEFINE t == Append(s, c)
  <1>1. /\ t \in Seq(Conns) /\ Len(t) = Len(s) + 1 /\ Len(s) \in Nat
        /\ \A i \in 1..Len(s) : t[i] = s[i]
        /\ t[Len(s) + 1] = c
    BY AppendProperties, LenProperties
  <1> HIDE DEF t
  <1>2. Members(t) = Members(s) \cup {c}
    <2>1. \A x \in Members(t) : x \in Members(s) \cup {c}
      <3> TAKE x \in Members(t)
      <3>1. PICK i \in 1..Len(t) : x = t[i]
        BY DEF Members
      <3>2. CASE i \in 1..Len(s)
        BY <1>1, <3>1, <3>2 DEF Members
      <3>3. CASE i = Len(s) + 1
        BY <1>1, <3>1, <3>3
      <3> QED
        BY <1>1, <3>2, <3>3
    <2>2. c \in Members(t)
      <3>1. Len(s) + 1 \in 1..Len(t)
        BY <1>1
      <3> QED
        BY <1>1, <3>1 DEF Members
    <2>3. \A x \in Members(s) : x \in Members(t)
      <3> TAKE x \in Members(s)
      <3>1. PICK i \in 1..Len(s) : x = s[i]
        BY DEF Members
      <3>2. i \in 1..Len(t) /\ x = t[i]
        BY <1>1, <3>1
      <3> QED
        BY <3>2 DEF Members
    <2> QED
      BY <2>1, <2>2, <2>3
  <1>3. Distinct(s) /\ c \notin Members(s) => Distinct(t)
    <2> SUFFICES ASSUME Distinct(s), c \notin Members(s),
                        NEW i \in 1..Len(t), NEW j \in 1..Len(t), t[i] = t[j]
                 PROVE  i = j
      BY DEF Distinct
    <2>1. \A k \in 1..Len(t) : k \in 1..Len(s) \/ k = Len(s) + 1
      BY <1>1
    <2>2. \A k \in 1..Len(s) : t[k] = s[k] /\ s[k] # c
      BY <1>1 DEF Members
    <2>3. CASE i \in 1..Len(s) /\ j \in 1..Len(s)
      BY <2>2, <2>3 DEF Distinct
    <2>4. CASE i = Len(s) + 1 \/ j = Len(s) + 1
      BY <1>1, <2>1, <2>2, <2>4
    <2> QED
      BY <2>1, <2>3, <2>4
  <1> QED
    BY <1>1, <1>2, <1>3 DEF t

LEMMA TailDistinct ==
  ASSUME NEW s \in Seq(Conns), s # <<>>, Distinct(s)
  PROVE  /\ Head(s) \in Conns /\ Tail(s) \in Seq(Conns) /\ Distinct(Tail(s))
         /\ Members(Tail(s)) = Members(s) \ {Head(s)} /\ Head(s) \in Members(s)
  <1> DEFINE t == Tail(s)
             h == Head(s)
  <1>1. /\ h \in Conns /\ t \in Seq(Conns) /\ Len(t) = Len(s) - 1 /\ Len(s) \in Nat \ {0}
        /\ h = s[1] /\ \A i \in 1..Len(t) : t[i] = s[i + 1]
    BY HeadTailProperties, EmptySeq
  <1> HIDE DEF t, h
  <1>2. Distinct(t)
    <2> SUFFICES ASSUME NEW i \in 1..Len(t), NEW j \in 1..Len(t), t[i] = t[j]
                 PROVE  i = j
      BY DEF Distinct
    <2>1. i + 1 \in 1..Len(s) /\ j + 1 \in 1..Len(s) /\ s[i + 1] = s[j + 1]
      BY <1>1
    <2>2. i + 1 = j + 1
      BY <2>1 DEF Distinct
    <2> QED
      BY <1>1, <2>2
  <1>3. h \in Members(s)
    BY <1>1 DEF Members
  <1>4. \A x \in Members(t) : x \in Members(s) /\ x # h
    <2> TAKE x \in Members(t)
    <2>1. PICK i \in 1..Len(t) : x = t[i]
      BY DEF Members
    <2>2. i + 1 \in 1..Len(s) /\ x = s[i + 1] /\ i + 1 # 1 /\ 1 \in 1..Len(s)
      BY <1>1, <2>1
    <2> QED
      BY <1>1, <2>2 DEF Distinct, Members
  <1>5. \A x \in Members(s) : x # h => x \in Members(t)
    <2> TAKE x \in Members(s)
    <2> HAVE x # h
    <2>1. PICK i \in 1..Len(s) : x = s[i]
      BY DEF Members
    <2>2. i - 1 \in 1..Len(t) /\ (i - 1) + 1 = i
      BY <1>1, <2>1
    <2>3. x = t[i - 1]
      BY <1>1, <2>1, <2>2
    <2> QED
      BY <2>2, <2>3 DEF Members
  <1> QED
    BY <1>1, <1>2, <1>3, <1>4, <1>5 DEF t, h

\* A sequence without repetitions is no longer than there are connections.
LEMMA DistinctIsShort ==
  ASSUME NEW s \in Seq(Conns), Distinct(s)
  PROVE  Len(s) \in 0..MaxConns
  <1>1. Len(s) \in Nat /\ s \in [1..Len(s) -> Conns]
    BY LenProperties
  <1>2. s \in Injection(1..Len(s), Conns)
    BY <1>1 DEF Distinct, Injection, IsInjective
  <1>3. /\ IsFiniteSet(Conns) /\ Cardinality(Conns) = MaxConns
        /\ Cardinality(1..Len(s)) = Len(s)
    <2>1. 1 \in Int /\ Len(s) \in Int
      BY <1>1
    <2>2. Cardinality(1..Len(s)) = IF 1 > Len(s) THEN 0 ELSE (Len(s) - 1) + 1
      BY <2>1, FS_Interval
    <2> QED
      BY <1>1, <2>2, ConnsFacts
  <1>4. Cardinality(1..Len(s)) <= Cardinality(Conns)
    BY <1>2, <1>3, FS_Injection
  <1> QED
    BY <1>1, <1>3, <1>4

\* removeAll: what is gone is not there, and what is not gone is.
LEMMA WithoutIs ==
  ASSUME NEW s \in Seq(Conns), Distinct(s), NEW gone
  PROVE  /\ Without(s, gone) \in Seq(Conns) /\ Distinct(Without(s, gone))
         /\ Members(Without(s, gone)) = Members(s) \ gone
  <1> DEFINE N == Len(s)
             Rest(f, n) == IF s[n] \in gone THEN f[n - 1] ELSE Append(f[n - 1], s[n])
             IsRest(f) == f = [n \in 0..N |-> IF n = 0 THEN <<>> ELSE Rest(f, n)]
             F == [x \in Seq(Conns) \X Nat |->
                      IF x[2] \in 1..N /\ s[x[2]] \notin gone THEN Append(x[1], s[x[2]]) ELSE x[1]]
  <1>1. N \in Nat /\ \A n \in 1..N : s[n] \in Conns
    BY LenProperties, ElementOfSeq
  <1>2. \A r \in Seq(Conns), n \in 1..N : Append(r, s[n]) \in Seq(Conns)
    BY <1>1, AppendProperties
  <1>3. F \in [Seq(Conns) \X Nat -> Seq(Conns)]
    BY <1>2
  <1>4. \A r \in Seq(Conns), n \in 1..N :
           F[<<r, n>>] = IF s[n] \in gone THEN r ELSE Append(r, s[n])
    BY <1>1
  <1>5. \E f : IsRest(f)
    <2>1. PICK none : none = <<>> /\ none \in Seq(Conns)
      BY EmptySeq
    <2>2. PICK f : Trail(f, Seq(Conns), none, F, N)
      <3> HIDE DEF F, N
      <3> QED
        BY <1>1, <1>3, <2>1, TrailExists
    <2>3. f \in [0..N -> Seq(Conns)] /\ f[0] = none
          /\ \A n \in 1..N : f[n] = F[<<f[n - 1], n>>]
      BY <2>2 DEF Trail
    <2>4. \A n \in 1..N : f[n] = Rest(f, n)
      <3> HIDE DEF F
      <3> TAKE n \in 1..N
      <3>1. n - 1 \in 0..N
        BY <1>1
      <3>2. f[n - 1] \in Seq(Conns)
        BY <2>3, <3>1
      <3> QED
        BY <1>4, <2>3, <3>2
    <2> HIDE DEF Rest
    <2>5. \A n \in 0..N : f[n] = IF n = 0 THEN <<>> ELSE Rest(f, n)
      BY <1>1, <2>1, <2>3, <2>4
    <2>6. f = [n \in 0..N |-> f[n]]
      BY <2>3
    <2>7. IsRest(f)
      BY <2>5, <2>6
    <2> QED
      BY <2>7
  <1> DEFINE g == CHOOSE f : IsRest(f)
  <1>6. Without(s, gone) = g[N]
    BY Zenon DEF Without
  <1>7. IsRest(g)
    <2> HIDE DEF IsRest
    <2> QED
      BY <1>5
  <1> HIDE DEF g
  <1>8. g[0] = <<>> /\ \A n \in 1..N : g[n] = Rest(g, n)
    <2>1. \A n \in 0..N : g[n] = IF n = 0 THEN <<>> ELSE Rest(g, n)
      BY <1>7
    <2>2. 0 \in 0..N /\ \A n \in 1..N : n \in 0..N /\ n # 0
      BY <1>1
    <2> HIDE DEF Rest
    <2> QED
      BY <2>1, <2>2
  <1> HIDE DEF IsRest
  <1> DEFINE Part(n) == {s[i] : i \in 1..n} \ gone
             Good(n) == g[n] \in Seq(Conns) /\ Distinct(g[n]) /\ Members(g[n]) = Part(n)
             Bad == {n \in 0..N : ~Good(n)}
  <1>9. Good(0)
    <2>1. \A r : r = <<>> => r \in Seq(Conns) /\ Distinct(r) /\ Members(r) = {}
      BY EmptySeq DEF Distinct, Members
    <2>2. Part(0) = {}
      OBVIOUS
    <2> QED
      BY <1>8, <2>1, <2>2
  <1>10. \A n \in 1..N : Good(n - 1) => Good(n)
    <2> SUFFICES ASSUME NEW n \in 1..N, Good(n - 1) PROVE Good(n)
      OBVIOUS
    <2>1. PICK r : r = g[n - 1]
      OBVIOUS
    <2>2. r \in Seq(Conns) /\ Distinct(r) /\ Members(r) = Part(n - 1)
      BY <2>1
    <2>3. {s[i] : i \in 1..n} = {s[i] : i \in 1..(n - 1)} \cup {s[n]}
      BY <1>1
    <2>4. CASE s[n] \in gone
      <3>1. g[n] = r
        BY <1>8, <2>1, <2>4
      <3>2. Part(n) = Part(n - 1)
        BY <2>3, <2>4
      <3> QED
        BY <2>2, <3>1, <3>2
    <2>5. CASE s[n] \notin gone
      <3>1. g[n] = Append(r, s[n])
        BY <1>8, <2>1, <2>5
      <3>2. Part(n) = Part(n - 1) \cup {s[n]}
        BY <2>3, <2>5
      <3>3. s[n] \notin Part(n - 1)
        <4>1. \A i \in 1..(n - 1) : i \in 1..N /\ i # n
          BY <1>1
        <4>2. \A i \in 1..(n - 1) : s[i] # s[n]
          BY <4>1 DEF Distinct
        <4> QED
          BY <4>2
      <3>4. /\ Append(r, s[n]) \in Seq(Conns)
            /\ Members(Append(r, s[n])) = Members(r) \cup {s[n]}
            /\ s[n] \notin Members(r) => Distinct(Append(r, s[n]))
        BY <1>1, <2>2, AppendDistinct
      <3> QED
        BY <2>2, <3>1, <3>2, <3>3, <3>4
    <2> QED
      BY <2>4, <2>5
  <1> HIDE DEF Good, Part
  <1>11. Bad = {}
    <2> SUFFICES ASSUME Bad # {} PROVE FALSE
      OBVIOUS
    <2>1. Bad \in SUBSET Nat
      BY <1>1
    <2>2. PICK n \in Bad : \A k \in Bad : n <= k
      <3> HIDE DEF Bad
      <3> QED
        BY <2>1, LeastNat
    <2>3. n \in 0..N /\ ~Good(n) /\ n # 0
      BY <1>9, <2>2
    <2>4. n \in 1..N /\ n - 1 \in 0..N /\ ~(n <= n - 1)
      BY <1>1, <2>3
    <2>5. Good(n - 1)
      BY <2>2, <2>4
    <2> QED
      BY <1>10, <2>3, <2>4, <2>5
  <1>12. Good(N)
    BY <1>1, <1>11
  <1> QED
    BY <1>6, <1>12 DEF Good, Part, Members

-----------------------------------------------------------------------------
(* What the connections and the walk are, whatever happened.                *)

\* A list that grew since the walk began will cut it short: those it had to
\* reach are upset, and the new ones were told of nothing.
WalkIs(kind, run, cursor, size) ==
    /\ sending = <<[kind |-> kind, run |-> run, cursor |-> cursor, size |-> size]>>
    /\ 1 <= cursor /\ cursor <= size + 1 /\ size <= Len(clients)
    /\ kind = "DELETE" => forgotten < Len(announced)
    /\ size < Len(clients) =>
          /\ \A i \in 1..size : clients[i] \in upset
          /\ \A i \in 1..Len(clients) : size < i => base[clients[i]] = Len(announced)

SendsOK ==
    sending # <<>> =>
       \E kind \in Kinds, run \in Times, cursor \in Nat, size \in Nat :
          WalkIs(kind, run, cursor, size)

ServiceOK ==
    /\ clients \in Seq(Conns) /\ Distinct(clients)
    /\ arriving \in Seq(Conns) /\ Distinct(arriving)
    /\ \A c \in Members(arriving) : c \notin Members(clients)
    /\ \A c \in Members(clients) \cup Members(arriving) : owner[c] # 0
    /\ marked \subseteq Conns /\ upset \subseteq Conns
    /\ \A c \in marked : ~serverOpen[c] /\ owner[c] # 0
    /\ serverOpen \in [Conns -> BOOLEAN]
    /\ base \in [Conns -> Nat]

\* A connection that nobody opened yet has left no trace.
UnusedOK ==
    \A c \in Conns : owner[c] = 0 =>
       /\ recv[c] = "none" /\ chan[c] = <<>> /\ ~serverOpen[c]
       /\ \A p \in Programs : \A i \in 1..Len(queue[p]) : queue[p][i].conn # c

AppsOK ==
    /\ done \in [Conns -> BOOLEAN]
    /\ list \in [Programs -> Seq(Times)] /\ taken \in [Programs -> Seq(Times)]
    /\ listening \in [Programs -> BOOLEAN]
    /\ mixed \subseteq Programs
    /\ \A p \in Programs : tclient[p] # 0 => listening[p]

CountsOK ==
    /\ sends \in 0..MaxSends
    /\ forgotten <= Len(announced)
    /\ repeated \in BOOLEAN
    /\ ~repeated => \A i, j \in 1..Len(announced) : announced[i] = announced[j] => i = j

SInv == IInv /\ SendsOK /\ ServiceOK /\ UnusedOK /\ AppsOK /\ CountsOK

LEMMA InitS == Init => SInv
  <1> SUFFICES ASSUME Init PROVE SInv
    OBVIOUS
  <1>1. \A S : \A s : s = <<>> => s \in Seq(S) /\ Len(s) = 0
    BY EmptySeq
  <1>2. \A s : s = <<>> => Distinct(s) /\ Members(s) = {}
    BY EmptySeq DEF Distinct, Members
  <1>3. SendsOK
    BY DEF Init, SendsOK
  <1>4. ServiceOK
    BY <1>1, <1>2 DEF Init, ServiceOK
  <1>5. UnusedOK
    <2>1. \A p \in Programs : Len(queue[p]) = 0
      BY <1>1 DEF Init
    <2>2. \A p \in Programs : \A i \in 1..Len(queue[p]) : FALSE
      BY <2>1
    <2>3. \A c \in Conns : recv[c] = "none" /\ chan[c] = <<>> /\ ~serverOpen[c]
      BY DEF Init
    <2> QED
      BY <2>2, <2>3 DEF UnusedOK
  <1>6. AppsOK
    BY <1>1 DEF Init, AppsOK
  <1>7. CountsOK
    <2>1. Len(announced) = 0 /\ forgotten = 0 /\ sends = 0 /\ repeated = FALSE
      BY <1>1 DEF Init
    <2>2. \A i \in 1..Len(announced) : FALSE
      BY <2>1
    <2>3. sends \in 0..MaxSends /\ forgotten <= Len(announced)
      BY <2>1, NetworkAssumption
    <2> QED
      BY <2>1, <2>2, <2>3 DEF CountsOK
  <1> QED
    BY <1>3, <1>4, <1>5, <1>6, <1>7, InitInv DEF SInv

LEMMA SetOfSeq ==
  ASSUME NEW S, NEW s \in Seq(S)
  PROVE  ToSet(s) = Members(s) /\ Members(s) \subseteq S
  BY LenProperties, ElementOfSeq DEF ToSet, Members

\* What concerns neither the timer nor its service.
LEMMA Elsewhere ==
  ASSUME [Next]_vars
  PROVE  \/ \E run \in Times : Finish(run)
         \/ DeleteFinish \/ Reset \/ WalkOn \/ Accept
         \/ UNCHANGED <<announced, forgotten, sends, sending, clients, marked, base, upset, repeated>>
  <1>1. CASE UNCHANGED vars
    BY <1>1 DEF vars, timer, service, ghosts
  <1>2. CASE \E c \in Conns : ServerNotices(c) \/ Check(c) \/ Receive(c) \/ EndOfStream(c) \/ Break(c)
    BY <1>2 DEF ServerNotices, Check, Receive, EndOfStream, Break, timer, service, ghosts
  <1>3. CASE \E p \in Programs : Deliver(p) \/ SwitchOn(p) \/ SwitchOff(p) \/ CancelSwitch(p) \/ Take(p)
    BY <1>3 DEF Deliver, SwitchOn, SwitchOff, CancelSwitch, Take, timer, service, ghosts
  <1> QED
    BY <1>1, <1>2, <1>3 DEF Next, Threads, Users

\* The walk under way, when it goes on.
LEMMA WalkOnIs ==
  ASSUME SInv, WalkOn
  PROVE  \E kind \in Kinds, run \in Times, cursor \in Nat, size \in Nat :
            /\ WalkIs(kind, run, cursor, size)
            /\ \/ /\ Len(clients) = size /\ cursor <= size
                  /\ Send([kind |-> kind, run |-> run, cursor |-> cursor, size |-> size], clients[cursor])
               \/ /\ ~(Len(clients) = size /\ cursor <= size)
                  /\ EndWalk([kind |-> kind, run |-> run, cursor |-> cursor, size |-> size])
  <1>1. sending # <<>>
    BY DEF WalkOn
  <1>2. PICK kind \in Kinds, run \in Times, cursor \in Nat, size \in Nat :
           WalkIs(kind, run, cursor, size)
    BY <1>1 DEF SInv, SendsOK
  <1> DEFINE walk == [kind |-> kind, run |-> run, cursor |-> cursor, size |-> size]
  <1>3. sending[1] = walk
    BY <1>2 DEF WalkIs
  <1>4. walk.size = size /\ walk.cursor = cursor
    OBVIOUS
  <1> HIDE DEF walk
  <1>5. IF Len(clients) = size /\ cursor <= size
        THEN Send(walk, clients[cursor]) ELSE EndWalk(walk)
    BY <1>3, <1>4 DEF WalkOn
  <1> QED
    BY <1>2, <1>5 DEF walk

LEMMA StepSends ==
  ASSUME SInv, [Next]_vars
  PROVE  SendsOK'
  <1>1. clients \in Seq(Conns) /\ Len(clients) \in Nat
    BY LenProperties DEF SInv, ServiceOK
  <1>2. CASE \E run \in Times : Finish(run)
    <2>1. PICK run \in Times : Finish(run)
      BY <1>2
    <2>2. sending' = <<[kind |-> "RUN", run |-> run, cursor |-> 1, size |-> Len(clients)]>>
          /\ clients' = clients
      BY <2>1 DEF Finish, Walk, service
    <2>3. WalkIs("RUN", run, 1, Len(clients))'
      BY <1>1, <2>2 DEF WalkIs
    <2> QED
      BY <1>1, <2>2, <2>3 DEF SendsOK, Kinds
  <1>3. CASE DeleteFinish
    <2>1. PICK run \in Times : run = Last(announced)
      <3>1. announced \in Seq(Times) /\ Len(announced) > forgotten /\ forgotten \in Nat
        BY <1>3 DEF DeleteFinish, SInv, IInv, LinesOK
      <3>2. Len(announced) \in 1..Len(announced)
        BY <3>1, LenProperties
      <3> QED
        BY <3>1, <3>2, ElementOfSeq DEF Last
    <2>2. /\ sending' = <<[kind |-> "DELETE", run |-> run, cursor |-> 1, size |-> Len(clients)]>>
          /\ clients' = clients /\ announced' = announced /\ forgotten' = forgotten
          /\ Len(announced) > forgotten
      BY <1>3, <2>1 DEF DeleteFinish, Walk, service
    <2>3. forgotten \in Nat /\ Len(announced) \in Nat
      BY LenProperties DEF SInv, IInv, LinesOK
    <2>4. WalkIs("DELETE", run, 1, Len(clients))'
      BY <1>1, <2>2, <2>3 DEF WalkIs
    <2> QED
      BY <1>1, <2>2, <2>4 DEF SendsOK, Kinds
  <1>4. CASE Reset
    BY <1>4 DEF Reset, SendsOK
  <1>5. CASE WalkOn
    <2>1. PICK kind \in Kinds, run \in Times, cursor \in Nat, size \in Nat :
            /\ WalkIs(kind, run, cursor, size)
            /\ \/ /\ Len(clients) = size /\ cursor <= size
                  /\ Send([kind |-> kind, run |-> run, cursor |-> cursor, size |-> size], clients[cursor])
               \/ /\ ~(Len(clients) = size /\ cursor <= size)
                  /\ EndWalk([kind |-> kind, run |-> run, cursor |-> cursor, size |-> size])
      BY <1>5, WalkOnIs
    <2> DEFINE walk == [kind |-> kind, run |-> run, cursor |-> cursor, size |-> size]
    <2>2. CASE EndWalk(walk)
      BY <2>2 DEF EndWalk, SendsOK
    <2>3. CASE Len(clients) = size /\ cursor <= size /\ Send(walk, clients[cursor])
      <3>1. sending' = <<[kind |-> kind, run |-> run, cursor |-> cursor + 1, size |-> size]>>
        BY <2>3 DEF Send
      <3>2. UNCHANGED <<clients, announced, base, forgotten, upset>>
        BY <1>5, <2>3 DEF Send, WalkOn
      <3>3. WalkIs(kind, run, cursor + 1, size)'
        BY <2>1, <2>3, <3>1, <3>2 DEF WalkIs
      <3> QED
        BY <3>3 DEF SendsOK
    <2> QED
      BY <2>1, <2>2, <2>3
  <1>6. CASE Accept
    <2> DEFINE h == Head(arriving)
               t == Append(clients, h)
    <2>1. h \in Conns
      BY <1>6, TailDistinct DEF Accept, SInv, ServiceOK
    <2>2. /\ t \in Seq(Conns) /\ Len(t) = Len(clients) + 1
          /\ \A i \in 1..Len(clients) : t[i] = clients[i]
          /\ t[Len(clients) + 1] = h
      BY <1>1, <2>1, AppendProperties
    <2>3. /\ clients' = t /\ UNCHANGED <<announced, forgotten, sending>>
          /\ base' = [base EXCEPT ![h] = Len(announced)]
          /\ sending # <<>> => upset' = upset \cup ToSet(clients)
      BY <1>6 DEF Accept, timer
    <2> HIDE DEF h, t
    <2>4. CASE sending = <<>>
      BY <2>3, <2>4 DEF SendsOK
    <2>5. CASE sending # <<>>
      <3>1. PICK kind \in Kinds, run \in Times, cursor \in Nat, size \in Nat :
               WalkIs(kind, run, cursor, size)
        BY <2>5 DEF SInv, SendsOK
      <3>2. \A i \in 1..size : t[i] \in upset'
        <4>1. \A i \in 1..size : i \in 1..Len(clients)
          BY <1>1, <3>1 DEF WalkIs
        <4>2. \A i \in 1..Len(clients) : clients[i] \in ToSet(clients)
          BY <1>1, SetOfSeq DEF Members
        <4> QED
          BY <2>2, <2>3, <2>5, <4>1, <4>2
      <3>3. \A i \in 1..Len(t) : size < i => base'[t[i]] = Len(announced)
        <4> TAKE i \in 1..Len(t)
        <4> HAVE size < i
        <4>1. base \in [Conns -> Nat]
          BY DEF SInv, ServiceOK
        <4>2. CASE i = Len(clients) + 1
          BY <2>1, <2>2, <2>3, <4>1, <4>2
        <4>3. CASE i \in 1..Len(clients)
          <5>1. size < Len(clients)
            BY <1>1, <4>3
          <5>2. base[clients[i]] = Len(announced) /\ clients[i] \in Conns
            BY <1>1, <3>1, <4>3, <5>1, ElementOfSeq DEF WalkIs
          <5> QED
            BY <2>1, <2>2, <2>3, <4>1, <4>3, <5>2
        <4> QED
          BY <1>1, <2>2, <4>2, <4>3
      <3>4. WalkIs(kind, run, cursor, size)'
        BY <1>1, <2>2, <2>3, <3>1, <3>2, <3>3 DEF WalkIs
      <3> QED
        BY <3>4 DEF SendsOK
    <2> QED
      BY <2>4, <2>5
  <1>7. CASE UNCHANGED <<announced, forgotten, sends, sending, clients, marked, base, upset, repeated>>
    BY <1>7 DEF SInv, SendsOK, WalkIs
  <1> QED
    BY <1>2, <1>3, <1>4, <1>5, <1>6, <1>7, Elsewhere

LEMMA StepService ==
  ASSUME SInv, [Next]_vars
  PROVE  ServiceOK'
  <1>0. /\ clients \in Seq(Conns) /\ Len(clients) \in Nat /\ Distinct(clients)
        /\ arriving \in Seq(Conns) /\ Distinct(arriving)
        /\ Members(clients) \subseteq Conns /\ Members(arriving) \subseteq Conns
    BY LenProperties, SetOfSeq DEF SInv, ServiceOK
  <1>1. CASE UNCHANGED <<service, serverOpen, owner, base, upset>>
    <2>1. clients' = clients /\ marked' = marked /\ arriving' = arriving
      BY <1>1 DEF service
    <2>2. serverOpen' = serverOpen /\ owner' = owner /\ base' = base /\ upset' = upset
      BY <1>1
    <2>3. ServiceOK
      BY DEF SInv
    <2>4. QED
      BY ONLY <2>1, <2>2, <2>3 DEF ServiceOK, Distinct, Members
  <1>2. CASE WalkOn
    <2>1. PICK kind \in Kinds, run \in Times, cursor \in Nat, size \in Nat :
            /\ WalkIs(kind, run, cursor, size)
            /\ \/ /\ Len(clients) = size /\ cursor <= size
                  /\ Send([kind |-> kind, run |-> run, cursor |-> cursor, size |-> size], clients[cursor])
               \/ /\ ~(Len(clients) = size /\ cursor <= size)
                  /\ EndWalk([kind |-> kind, run |-> run, cursor |-> cursor, size |-> size])
      BY <1>2, WalkOnIs
    <2> DEFINE walk == [kind |-> kind, run |-> run, cursor |-> cursor, size |-> size]
    <2>2. UNCHANGED <<arriving, serverOpen, owner, upset>>
      BY <1>2 DEF WalkOn, threads
    <2>3. CASE Len(clients) = size /\ cursor <= size /\ Send(walk, clients[cursor])
      <3>1. cursor \in 1..Len(clients) /\ clients[cursor] \in Conns
        BY <1>0, <2>1, <2>3, ElementOfSeq DEF WalkIs
      <3>2. owner[clients[cursor]] # 0
        BY <3>1 DEF SInv, ServiceOK, Members
      <3>3. \/ marked' = marked
            \/ marked' = marked \cup {clients[cursor]} /\ ~serverOpen[clients[cursor]]
        BY <2>3 DEF Send
      <3>4. UNCHANGED <<clients, base>>
        BY <2>3 DEF Send
      <3>5. marked' \subseteq Conns /\ \A c \in marked' : ~serverOpen[c] /\ owner[c] # 0
        BY <3>1, <3>2, <3>3 DEF SInv, ServiceOK
      <3> QED
        BY <2>2, <3>4, <3>5 DEF SInv, ServiceOK
    <2>4. CASE EndWalk(walk)
      <3>1. CASE Len(clients) # size
        <4>1. UNCHANGED <<clients, marked, base>>
          BY <2>4, <3>1 DEF EndWalk
        <4> QED
          BY <2>2, <4>1 DEF SInv, ServiceOK
      <3>2. CASE Len(clients) = size
        <4>1. clients' = Without(clients, marked) /\ marked' = {}
          BY <2>4, <3>2 DEF EndWalk
        <4>2. /\ clients' \in Seq(Conns) /\ Distinct(clients')
              /\ Members(clients') = Members(clients) \ marked
          BY <1>0, <4>1, WithoutIs
        <4>3. base' \in [Conns -> Nat]
          <5>1. base \in [Conns -> Nat] /\ Len(announced) \in Nat /\ forgotten \in Nat
            BY LenProperties DEF SInv, ServiceOK, IInv, LinesOK
          <5>2. CASE kind = "DELETE"
            <6>1. Len(announced) - 1 \in Nat
              BY <2>1, <5>1, <5>2 DEF WalkIs
            <6>2. base' = [c \in Conns |-> IF base[c] < Len(announced) THEN base[c]
                                           ELSE Len(announced) - 1]
              BY <2>4, <3>2, <5>2 DEF EndWalk
            <6> QED
              BY <5>1, <6>1, <6>2
          <5>3. CASE kind # "DELETE"
            BY <2>4, <3>2, <5>1, <5>3 DEF EndWalk
          <5> QED
            BY <5>2, <5>3
        <4>4. Members(clients)' = Members(clients') /\ Members(arriving)' = Members(arriving)
              /\ Distinct(clients)' /\ Distinct(arriving)'
          BY <1>0, <2>2, <4>2 DEF Members, Distinct
        <4> QED
          BY <2>2, <4>1, <4>2, <4>3, <4>4 DEF SInv, ServiceOK
      <3> QED
        BY <3>1, <3>2
    <2> QED
      BY <2>1, <2>3, <2>4
  <1>3. CASE Accept
    <2> DEFINE h == Head(arriving)
               t == Append(clients, h)
               u == Tail(arriving)
    <2>1. /\ h \in Conns /\ u \in Seq(Conns) /\ Distinct(u)
          /\ Members(u) = Members(arriving) \ {h} /\ h \in Members(arriving)
      BY <1>0, <1>3, TailDistinct DEF Accept
    <2>2. /\ t \in Seq(Conns) /\ Members(t) = Members(clients) \cup {h}
          /\ Distinct(clients) /\ h \notin Members(clients) => Distinct(t)
      BY <1>0, <2>1, AppendDistinct
    <2>3. h \notin Members(clients)
      BY <2>1 DEF SInv, ServiceOK
    <2>4. /\ clients' = t /\ arriving' = u
          /\ base' = [base EXCEPT ![h] = Len(announced)]
          /\ upset' \in {upset, upset \cup ToSet(clients)}
          /\ UNCHANGED <<marked, serverOpen, owner>>
      BY <1>3 DEF Accept, wire, threads
    <2> HIDE DEF h, t, u
    <2>5. Members(clients)' = Members(t) /\ Members(arriving)' = Members(u)
          /\ Distinct(clients)' /\ Distinct(arriving)'
      BY <1>0, <2>1, <2>2, <2>3, <2>4 DEF Members, Distinct
    <2>6. upset' \subseteq Conns
      <3>1. ToSet(clients) \subseteq Conns
        BY <1>0, SetOfSeq
      <3> QED
        BY <2>4, <3>1 DEF SInv, ServiceOK
    <2>7. base' \in [Conns -> Nat]
      <3>1. Len(announced) \in Nat
        BY LenProperties DEF SInv, IInv, LinesOK
      <3> QED
        BY <2>1, <2>4, <3>1 DEF SInv, ServiceOK
    <2>8. \A c \in Members(u) : c \notin Members(t)
      BY <2>1, <2>2 DEF SInv, ServiceOK
    <2>9. \A c \in Members(t) \cup Members(u) : owner[c] # 0
      BY <2>1, <2>2 DEF SInv, ServiceOK
    <2> QED
      BY <2>1, <2>2, <2>4, <2>5, <2>6, <2>7, <2>8, <2>9 DEF SInv, ServiceOK
  <1>4. CASE \E c \in Conns : ServerNotices(c) \/ Break(c)
    <2>1. PICK c \in Conns : ServerNotices(c) \/ Break(c)
      BY <1>4
    <2>2. /\ serverOpen' = [serverOpen EXCEPT ![c] = FALSE]
          /\ UNCHANGED <<clients, marked, arriving, owner, base, upset>>
      BY <2>1 DEF ServerNotices, Break, service, threads, ghosts
    <2>3. serverOpen' \in [Conns -> BOOLEAN] /\ \A d \in marked : ~serverOpen'[d]
      BY <2>2 DEF SInv, ServiceOK
    <2> QED
      BY <2>2, <2>3 DEF SInv, ServiceOK
  <1>5. CASE \E p \in Programs : SwitchOn(p)
    <2>1. PICK p \in Programs, c \in Conns :
             /\ owner[c] = 0 /\ owner' = [owner EXCEPT ![c] = p]
             /\ serverOpen' = [serverOpen EXCEPT ![c] = TRUE]
             /\ arriving' = Append(arriving, c)
             /\ UNCHANGED <<clients, marked, base, upset>>
      BY <1>5 DEF SwitchOn, ghosts
    <2> DEFINE t == Append(arriving, c)
    <2>2. c \notin Members(arriving) /\ c \notin Members(clients) /\ c \notin marked
      BY <2>1 DEF SInv, ServiceOK
    <2>3. t \in Seq(Conns) /\ Members(t) = Members(arriving) \cup {c} /\ Distinct(t)
      BY <1>0, <2>2, AppendDistinct
    <2>4. arriving' = t
      BY <2>1
    <2> HIDE DEF t
    <2>5. Members(clients)' = Members(clients) /\ Members(arriving)' = Members(t)
          /\ Distinct(clients)' /\ Distinct(arriving)'
      BY <1>0, <2>1, <2>3, <2>4
    <2>6. \A d \in Conns : owner[d] # 0 => owner'[d] # 0
      BY <2>1, NetworkAssumption DEF SInv, IInv, ThreadsOK
    <2>7. owner'[c] # 0
      BY <2>1, NetworkAssumption DEF SInv, IInv, ThreadsOK
    <2>8. \A d \in Members(clients) \cup Members(t) : owner'[d] # 0
      BY <1>0, <2>3, <2>6, <2>7 DEF SInv, ServiceOK
    <2>9. /\ serverOpen' \in [Conns -> BOOLEAN]
          /\ \A d \in marked : ~serverOpen'[d] /\ owner'[d] # 0
      BY <2>1, <2>2, <2>6 DEF SInv, ServiceOK
    <2>10. \A d \in Members(t) : d \notin Members(clients)
      BY <2>2, <2>3 DEF SInv, ServiceOK
    <2> QED
      BY <2>1, <2>3, <2>4, <2>5, <2>8, <2>9, <2>10 DEF SInv, ServiceOK
  <1>6. CASE \/ \E run \in Times : Finish(run)
             \/ DeleteFinish \/ Reset
    BY <1>1, <1>6 DEF Finish, DeleteFinish, Reset, wire, threads, ghosts
  <1>7. CASE \E c \in Conns : Check(c) \/ Receive(c) \/ EndOfStream(c)
    BY <1>1, <1>7 DEF Check, Receive, EndOfStream, wire, ghosts
  <1>8. CASE \E p \in Programs : Deliver(p) \/ SwitchOff(p) \/ CancelSwitch(p) \/ Take(p)
    BY <1>1, <1>8 DEF Deliver, SwitchOff, CancelSwitch, Take, wire, threads, ghosts
  <1>9. CASE UNCHANGED vars
    BY <1>1, <1>9 DEF vars, wire, threads, ghosts
  <1> QED
    BY <1>2, <1>3, <1>4, <1>5, <1>6, <1>7, <1>8, <1>9 DEF Next, Threads, Users

LEMMA StepUnused ==
  ASSUME SInv, [Next]_vars
  PROVE  UnusedOK'
  <1>0. /\ owner \in [Conns -> Programs \cup {0}] /\ 0 \notin Programs
        /\ recv \in [Conns -> {"none", "checks", "reads", "ended"}]
        /\ \A c \in Conns : recv[c] # "none" => owner[c] # 0
        /\ chan \in [Conns -> Seq(Message)]
        /\ serverOpen \in [Conns -> BOOLEAN]
        /\ queue \in [Programs -> Seq(Event)]
    BY NetworkAssumption DEF SInv, IInv, ThreadsOK, LinesOK, EntryOK, ServiceOK
  <1>1. CASE UNCHANGED <<owner, recv, chan, serverOpen, queue>>
    BY <1>1 DEF SInv, UnusedOK
  <1>2. CASE WalkOn
    <2>1. PICK kind \in Kinds, run \in Times, cursor \in Nat, size \in Nat :
            /\ WalkIs(kind, run, cursor, size)
            /\ \/ /\ Len(clients) = size /\ cursor <= size
                  /\ Send([kind |-> kind, run |-> run, cursor |-> cursor, size |-> size], clients[cursor])
               \/ /\ ~(Len(clients) = size /\ cursor <= size)
                  /\ EndWalk([kind |-> kind, run |-> run, cursor |-> cursor, size |-> size])
      BY <1>2, WalkOnIs
    <2> DEFINE walk == [kind |-> kind, run |-> run, cursor |-> cursor, size |-> size]
    <2>2. UNCHANGED <<owner, recv, serverOpen, queue>>
      BY <1>2 DEF WalkOn, threads
    <2>3. \A c \in Conns : owner[c] = 0 => chan'[c] = chan[c]
      <3>1. CASE Len(clients) = size /\ cursor <= size /\ Send(walk, clients[cursor])
        <4>1. clients \in Seq(Conns) /\ Len(clients) \in Nat
          BY LenProperties DEF SInv, ServiceOK
        <4>2. PICK d : d = clients[cursor]
          OBVIOUS
        <4>3. owner[d] # 0
          BY <2>1, <3>1, <4>1, <4>2 DEF WalkIs, SInv, ServiceOK, Members
        <4>4. \/ chan' = chan
              \/ chan' = [chan EXCEPT ![d] = Append(chan[d], [kind |-> walk.kind, run |-> walk.run])]
          BY <3>1, <4>2 DEF Send
        <4> QED
          BY <1>0, <4>3, <4>4
      <3>2. CASE EndWalk(walk)
        BY <3>2 DEF EndWalk
      <3> QED
        BY <2>1, <3>1, <3>2
    <2> QED
      BY <2>2, <2>3 DEF SInv, UnusedOK
  <1>3. CASE \E c \in Conns : ServerNotices(c) \/ Break(c)
    <2>1. PICK c \in Conns : ServerNotices(c) \/ Break(c)
      BY <1>3
    <2>2. /\ serverOpen[c] /\ serverOpen' = [serverOpen EXCEPT ![c] = FALSE]
          /\ UNCHANGED <<owner, recv, queue>>
      BY <2>1 DEF ServerNotices, Break, threads
    <2>3. owner[c] # 0
      BY <2>2 DEF SInv, UnusedOK
    <2>4. \A d \in Conns : d # c => chan'[d] = chan[d]
      BY <1>0, <2>1 DEF ServerNotices, Break
    <2> QED
      BY <1>0, <2>2, <2>3, <2>4 DEF SInv, UnusedOK
  <1>4. CASE \E c \in Conns : Check(c) \/ Receive(c) \/ EndOfStream(c)
    <2>1. PICK c \in Conns : Check(c) \/ Receive(c) \/ EndOfStream(c)
      BY <1>4
    <2>2. /\ recv[c] \in {"checks", "reads"}
          /\ UNCHANGED <<owner, serverOpen>>
          /\ \A d \in Conns : d # c => recv'[d] = recv[d] /\ chan'[d] = chan[d]
      BY <1>0, <2>1 DEF Check, Receive, EndOfStream, EndReceiver, wire
    <2>3. owner[c] # 0
      BY <1>0, <2>2
    <2>4. \A p \in Programs : \A i \in 1..Len(queue'[p]) :
             \/ i \in 1..Len(queue[p]) /\ queue'[p][i] = queue[p][i]
             \/ queue'[p][i].conn = c
      <3>1. CASE queue' = queue
        BY <3>1
      <3>2. CASE Post(c, "CLOSED", 0)
        <4>1. \A p \in Programs : \A i \in 1..Len(queue'[p]) :
                 \/ i \in 1..Len(queue[p]) /\ queue'[p][i] = queue[p][i]
                 \/ queue'[p][i] = [kind |-> "CLOSED", run |-> 0, conn |-> c]
          BY <2>2, <3>2, PostFacts DEF SInv, IInv
        <4> QED
          BY <4>1
      <3>3. CASE Receive(c)
        <4>1. PICK kind, run : kind = Head(chan[c]).kind /\ run = Head(chan[c]).run
          OBVIOUS
        <4>2. Head(chan[c]) \in Message
          BY <1>0, <3>3, HeadTailProperties DEF Receive
        <4>3. kind \in Kinds \cup {"CLOSED"} /\ run \in Times \cup {0}
          BY <4>1, <4>2 DEF Message, Kinds
        <4>4. Post(c, kind, run)
          BY <3>3, <4>1 DEF Receive
        <4>5. \A p \in Programs : \A i \in 1..Len(queue'[p]) :
                 \/ i \in 1..Len(queue[p]) /\ queue'[p][i] = queue[p][i]
                 \/ queue'[p][i] = [kind |-> kind, run |-> run, conn |-> c]
          BY <2>2, <4>3, <4>4, PostFacts DEF SInv, IInv
        <4> QED
          BY <4>5
      <3> QED
        BY <2>1, <3>1, <3>2, <3>3 DEF Check, EndOfStream, EndReceiver
    <2> QED
      BY <2>2, <2>3, <2>4 DEF SInv, UnusedOK
  <1>5. CASE \E p \in Programs : SwitchOn(p)
    <2>1. PICK p \in Programs, c \in Conns :
             /\ owner' = [owner EXCEPT ![c] = p]
             /\ serverOpen' = [serverOpen EXCEPT ![c] = TRUE]
             /\ recv' = [recv EXCEPT ![c] = "checks"]
             /\ UNCHANGED <<chan, queue>>
      BY <1>5 DEF SwitchOn
    <2>2. \A d \in Conns : d # c => owner'[d] = owner[d] /\ serverOpen'[d] = serverOpen[d]
                                    /\ recv'[d] = recv[d]
      BY <1>0, <2>1
    <2>3. owner'[c] # 0
      BY <1>0, <2>1
    <2> QED
      BY <2>1, <2>2, <2>3 DEF SInv, UnusedOK
  <1>6. CASE \E p \in Programs : Deliver(p)
    <2>1. PICK p \in Programs : Deliver(p)
      BY <1>6
    <2>2. /\ queue[p] # <<>> /\ queue' = [queue EXCEPT ![p] = Tail(queue[p])]
          /\ UNCHANGED <<owner, recv, chan, serverOpen>>
      BY <2>1 DEF Deliver, wire, threads
    <2>3. \A q \in Programs : \A i \in 1..Len(queue'[q]) :
             \E j \in 1..Len(queue[q]) : queue'[q][i] = queue[q][j]
      <3> TAKE q \in Programs
      <3> TAKE i \in 1..Len(queue'[q])
      <3>1. CASE q # p
        BY <1>0, <2>2, <3>1
      <3>2. CASE q = p
        <4>1. PICK rest : rest = Tail(queue[p])
          OBVIOUS
        <4>2. /\ Len(rest) = Len(queue[p]) - 1 /\ Len(queue[p]) \in Nat
              /\ \A k \in 1..Len(rest) : rest[k] = queue[p][k + 1]
          BY <1>0, <2>2, <4>1, HeadTailProperties, LenProperties
        <4>3. queue'[q] = rest
          BY <1>0, <2>2, <3>2, <4>1
        <4>4. i + 1 \in 1..Len(queue[p]) /\ queue'[q][i] = queue[p][i + 1]
          BY <4>2, <4>3
        <4> QED
          BY <3>2, <4>4
      <3> QED
        BY <3>1, <3>2
    <2> QED
      BY <2>2, <2>3 DEF SInv, UnusedOK
  <1>7. CASE \/ \E run \in Times : Finish(run)
             \/ DeleteFinish \/ Reset \/ Accept
    BY <1>1, <1>7 DEF Finish, DeleteFinish, Reset, Accept, wire, threads
  <1>8. CASE \E p \in Programs : SwitchOff(p) \/ CancelSwitch(p) \/ Take(p)
    BY <1>1, <1>8 DEF SwitchOff, CancelSwitch, Take, wire, threads
  <1>9. CASE UNCHANGED vars
    BY <1>1, <1>9 DEF vars, wire, threads
  <1> QED
    BY <1>2, <1>3, <1>4, <1>5, <1>6, <1>7, <1>8, <1>9 DEF Next, Threads, Users

LEMMA StepApps ==
  ASSUME SInv, [Next]_vars
  PROVE  AppsOK'
  <1>0. /\ tclient \in [Programs -> Conns \cup {0}]
        /\ done \in [Conns -> BOOLEAN]
        /\ list \in [Programs -> Seq(Times)] /\ taken \in [Programs -> Seq(Times)]
        /\ listening \in [Programs -> BOOLEAN]
        /\ mixed \subseteq Programs
        /\ \A p \in Programs : tclient[p] # 0 => listening[p]
        /\ \A p \in Programs : Stopped(p) \in [Conns -> BOOLEAN]
    BY DEF SInv, IInv, EntryOK, AppsOK, Stopped
  <1>1. CASE UNCHANGED <<tclient, done, list, taken, listening, mixed>>
    BY <1>1 DEF SInv, AppsOK
  <1>2. CASE \E p \in Programs : SwitchOn(p)
    <2>1. PICK p \in Programs, c \in Conns :
             /\ done' = [Stopped(p) EXCEPT ![c] = FALSE]
             /\ tclient' = [tclient EXCEPT ![p] = c]
             /\ listening' = [listening EXCEPT ![p] = TRUE]
             /\ list' = [list EXCEPT ![p] = <<>>]
             /\ taken' = [taken EXCEPT ![p] = <<>>] /\ mixed' = mixed \ {p}
      BY <1>2 DEF SwitchOn
    <2>2. done' \in [Conns -> BOOLEAN] /\ listening' \in [Programs -> BOOLEAN]
          /\ mixed' \subseteq Programs
      BY <1>0, <2>1
    <2>3. list' \in [Programs -> Seq(Times)] /\ taken' \in [Programs -> Seq(Times)]
      <3>1. PICK none : none = <<>> /\ none \in Seq(Times)
        BY EmptySeq
      <3>2. list' = [list EXCEPT ![p] = none] /\ taken' = [taken EXCEPT ![p] = none]
        BY <2>1, <3>1
      <3> QED
        BY <1>0, <3>1, <3>2
    <2>4. \A q \in Programs : tclient'[q] # 0 => listening'[q]
      BY <1>0, <2>1
    <2> QED
      BY <2>2, <2>3, <2>4 DEF AppsOK
  <1>3. CASE \E p \in Programs : SwitchOff(p)
    <2>1. PICK p \in Programs :
             /\ done' = Stopped(p)
             /\ tclient' = [tclient EXCEPT ![p] = 0]
             /\ listening' = [listening EXCEPT ![p] = FALSE]
             /\ UNCHANGED <<list, taken, mixed>>
      BY <1>3 DEF SwitchOff
    <2> QED
      BY <1>0, <2>1 DEF AppsOK
  <1>4. CASE \E p \in Programs : Take(p)
    <2>0. PICK p \in Programs : Take(p)
      BY <1>4
    <2>1. PICK i \in DOMAIN list[p] :
             /\ list' = [list EXCEPT ![p] = RemoveAt(list[p], i)]
             /\ taken' = [taken EXCEPT ![p] = Append(taken[p], list[p][i])]
             /\ UNCHANGED <<threads, tclient, listening, mixed>>
      BY <2>0 DEF Take
    <2>2. list[p] \in Seq(Times) /\ taken[p] \in Seq(Times) /\ i \in 1..Len(list[p])
      BY <1>0, <2>1, LenProperties
    <2>3. PICK s, t : s = RemoveAt(list[p], i) /\ t = Append(taken[p], list[p][i])
      OBVIOUS
    <2>4. s \in Seq(Times) /\ t \in Seq(Times)
      BY <2>2, <2>3, RemoveAtIs, ElementOfSeq, AppendProperties
    <2>5. list' = [list EXCEPT ![p] = s] /\ taken' = [taken EXCEPT ![p] = t]
      BY <2>1, <2>3
    <2>6. list' \in [Programs -> Seq(Times)] /\ taken' \in [Programs -> Seq(Times)]
      BY <1>0, <2>4, <2>5
    <2> QED
      BY <1>0, <2>1, <2>6 DEF AppsOK, threads
  <1>5. CASE \E p \in Programs : Deliver(p)
    <2>1. PICK p \in Programs : Deliver(p)
      BY <1>5
    <2>2. PICK event : event = Head(queue[p])
      OBVIOUS
    <2>3. event \in Line
      <3>1. queue[p] \in Seq(Event) /\ queue[p] # <<>>
        BY <2>1 DEF Deliver, SInv, IInv, EntryOK
      <3> QED
        BY <2>2, <3>1, HeadTailProperties DEF Line
    <2>4. PICK s : s = Listed(list[p], event)
      OBVIOUS
    <2>5. s \in Seq(Times)
      <3>1. list[p] \in Seq(Times)
        BY <1>0
      <3> QED
        BY <2>3, <2>4, <3>1, ListedFacts
    <2>6. /\ list' \in {list, [list EXCEPT ![p] = s]}
          /\ mixed' \in {mixed, mixed \cup {p}}
          /\ UNCHANGED <<done, tclient, listening, taken>>
      BY <2>1, <2>2, <2>4 DEF Deliver, threads
    <2>7. list' \in [Programs -> Seq(Times)]
      BY <1>0, <2>5, <2>6
    <2> QED
      BY <1>0, <2>6, <2>7 DEF AppsOK
  <1>6. CASE \/ \E run \in Times : Finish(run)
             \/ DeleteFinish \/ Reset \/ WalkOn \/ Accept
    BY <1>1, <1>6 DEF Finish, DeleteFinish, Reset, WalkOn, Accept, threads, entry
  <1>7. CASE \E c \in Conns : ServerNotices(c) \/ Break(c) \/ Check(c) \/ Receive(c) \/ EndOfStream(c)
    BY <1>1, <1>7 DEF ServerNotices, Break, Check, Receive, EndOfStream, threads, entry
  <1>8. CASE \E p \in Programs : CancelSwitch(p)
    BY <1>1, <1>8 DEF CancelSwitch, threads
  <1>9. CASE UNCHANGED vars
    BY <1>1, <1>9 DEF vars, threads, entry
  <1> QED
    BY <1>2, <1>3, <1>4, <1>5, <1>6, <1>7, <1>8, <1>9 DEF Next, Threads, Users

LEMMA FrontIs ==
  ASSUME NEW s \in Seq(Times), Len(s) \in Nat \ {0}
  PROVE  /\ Front(s) \in Seq(Times) /\ Len(Front(s)) = Len(s) - 1
         /\ \A i \in 1..(Len(s) - 1) : Front(s)[i] = s[i]
  <1>1. PICK n : n = Len(s) - 1
    OBVIOUS
  <1>2. n \in Nat /\ 1 \in Int /\ n \in Int
    BY <1>1
  <1>3. \A i \in 1..n : s[i] \in Times
    BY <1>1, ElementOfSeq
  <1>4. PICK f : f = SubSeq(s, 1, n)
    OBVIOUS
  <1>5. /\ f \in Seq(Times) /\ Len(f) = IF 1 <= n THEN (n - 1) + 1 ELSE 0
        /\ \A i \in 1..((n - 1) + 1) : f[i] = s[(1 + i) - 1]
    BY <1>2, <1>3, <1>4, SubSeqProperties
  <1>6. Len(f) = n /\ \A i \in 1..n : f[i] = s[i]
    BY <1>2, <1>5
  <1>7. Front(s) = f
    BY <1>1, <1>4 DEF Front
  <1> QED
    BY <1>1, <1>5, <1>6, <1>7

LEMMA StepCounts ==
  ASSUME SInv, [Next]_vars
  PROVE  CountsOK'
  <1>0. /\ announced \in Seq(Times) /\ Len(announced) \in Nat /\ forgotten \in Nat
        /\ forgotten <= Len(announced) /\ sends \in 0..MaxSends /\ MaxSends \in Nat
        /\ repeated \in BOOLEAN
        /\ ~repeated => \A i, j \in 1..Len(announced) : announced[i] = announced[j] => i = j
    BY LenProperties, NetworkAssumption DEF SInv, IInv, LinesOK, CountsOK
  <1>1. CASE \E run \in Times : Finish(run)
    <2>1. PICK run \in Times : Finish(run)
      BY <1>1
    <2>2. PICK longer : longer = Append(announced, run)
      OBVIOUS
    <2>3. /\ Len(longer) = Len(announced) + 1
          /\ \A i \in 1..Len(announced) : longer[i] = announced[i]
          /\ longer[Len(announced) + 1] = run
      BY <1>0, <2>2, AppendProperties
    <2>4. /\ announced' = longer /\ forgotten' = forgotten
          /\ sends' = sends + 1 /\ sends < MaxSends
          /\ repeated' = (repeated \/ run \in ToSet(announced))
      BY <2>1, <2>2 DEF Finish
    <2>5. repeated' \in BOOLEAN
      BY <2>4
    <2>6. ~repeated' => \A i, j \in 1..Len(longer) : longer[i] = longer[j] => i = j
      <3> SUFFICES ASSUME ~repeated', NEW i \in 1..Len(longer), NEW j \in 1..Len(longer),
                          longer[i] = longer[j]
                   PROVE  i = j
        OBVIOUS
      <3>1. ~repeated /\ run \notin Members(announced)
        BY <1>0, <2>4, SetOfSeq
      <3>2. \A k \in 1..Len(announced) : longer[k] = announced[k] /\ announced[k] # run
        BY <2>3, <3>1 DEF Members
      <3>3. \A k \in 1..Len(longer) : k \in 1..Len(announced) \/ k = Len(announced) + 1
        BY <1>0, <2>3
      <3>4. CASE i \in 1..Len(announced) /\ j \in 1..Len(announced)
        BY <1>0, <3>1, <3>2, <3>4
      <3>5. CASE i = Len(announced) + 1 \/ j = Len(announced) + 1
        BY <2>3, <3>2, <3>3, <3>5
      <3> QED
        BY <3>3, <3>4, <3>5
    <2>7. sends' \in 0..MaxSends /\ forgotten' <= Len(announced')
      BY <1>0, <2>3, <2>4
    <2> QED
      BY <2>4, <2>5, <2>6, <2>7 DEF CountsOK
  <1>2. CASE DeleteFinish
    <2>1. sends' \in 0..MaxSends
      BY <1>0, <1>2 DEF DeleteFinish
    <2>2. UNCHANGED <<announced, forgotten, repeated>>
      BY <1>2 DEF DeleteFinish, ghosts
    <2> QED
      BY <1>0, <2>1, <2>2 DEF CountsOK
  <1>3. CASE Reset
    <2>1. forgotten' = Len(announced) /\ UNCHANGED <<announced, sends, repeated>>
      BY <1>3 DEF Reset, ghosts
    <2> QED
      BY <1>0, <2>1 DEF CountsOK
  <1>4. CASE WalkOn
    <2>1. UNCHANGED <<forgotten, sends, repeated>>
      BY <1>4 DEF WalkOn
    <2>2. CASE announced' = announced
      BY <1>0, <2>1, <2>2 DEF CountsOK
    <2>3. CASE announced' # announced
      <3>1. PICK kind \in Kinds, run \in Times, cursor \in Nat, size \in Nat :
               /\ WalkIs(kind, run, cursor, size)
               /\ \/ Send([kind |-> kind, run |-> run, cursor |-> cursor, size |-> size], clients[cursor])
                  \/ EndWalk([kind |-> kind, run |-> run, cursor |-> cursor, size |-> size])
        BY <1>4, WalkOnIs
      <3>2. kind = "DELETE" /\ announced' = Front(announced)
        BY <2>3, <3>1 DEF Send, EndWalk
      <3>3. forgotten < Len(announced)
        BY <3>1, <3>2 DEF WalkIs
      <3>4. /\ Len(Front(announced)) = Len(announced) - 1
            /\ \A i \in 1..(Len(announced) - 1) : Front(announced)[i] = announced[i]
        <4>1. Len(announced) \in Nat \ {0}
          BY <1>0, <3>3
        <4> QED
          BY <1>0, <4>1, FrontIs
      <3>5. PICK front : front = Front(announced)
        OBVIOUS
      <3>6. forgotten' <= Len(announced')
        BY <1>0, <2>1, <3>2, <3>3, <3>4
      <3>7. ~repeated => \A i, j \in 1..Len(front) : front[i] = front[j] => i = j
        BY <1>0, <3>4, <3>5
      <3> QED
        BY <1>0, <2>1, <3>2, <3>5, <3>6, <3>7 DEF CountsOK
    <2> QED
      BY <2>2, <2>3
  <1>5. CASE Accept
    BY <1>0, <1>5 DEF Accept, timer, CountsOK
  <1>6. CASE UNCHANGED <<announced, forgotten, sends, sending, clients, marked, base, upset, repeated>>
    BY <1>0, <1>6 DEF CountsOK
  <1> QED
    BY <1>1, <1>2, <1>3, <1>4, <1>5, <1>6, Elsewhere

LEMMA StepS == SInv /\ [Next]_vars => SInv'
  <1> SUFFICES ASSUME SInv, [Next]_vars PROVE SInv'
    OBVIOUS
  <1>1. IInv'
    BY StepInv DEF SInv
  <1> QED
    BY <1>1, StepSends, StepService, StepUnused, StepApps, StepCounts DEF SInv

\* Every variable keeps its type: what TimerService and the programs hold are
\* connections, a walk is never longer than the list of clients can be, and no
\* run of before a reset is taken back.
THEOREM TypesKept == Spec => []TypeOK
  <1>1. SInv => TypeOK
    <2> SUFFICES ASSUME SInv PROVE TypeOK
      OBVIOUS
    <2>1. /\ clients \in Seq(Conns) /\ Len(clients) \in 0..MaxConns
      BY DistinctIsShort DEF SInv, ServiceOK
    <2>2. \/ sending = <<>>
          \/ sending[1] \in [kind : {"RUN", "DELETE"}, run : Times,
                             cursor : 1..(MaxConns + 1), size : 0..MaxConns]
      <3> SUFFICES ASSUME sending # <<>>
                   PROVE  sending[1] \in [kind : {"RUN", "DELETE"}, run : Times,
                                          cursor : 1..(MaxConns + 1), size : 0..MaxConns]
        OBVIOUS
      <3>1. PICK kind \in Kinds, run \in Times, cursor \in Nat, size \in Nat :
               WalkIs(kind, run, cursor, size)
        BY DEF SInv, SendsOK
      <3>2. sending[1] = [kind |-> kind, run |-> run, cursor |-> cursor, size |-> size]
        BY <3>1 DEF WalkIs
      <3>3. size \in 0..MaxConns /\ cursor \in 1..(MaxConns + 1)
        BY <2>1, <3>1, NetworkAssumption DEF WalkIs
      <3> QED
        BY <3>2, <3>3 DEF Kinds
    <2>3. forgotten \in 0..Len(announced)
      BY LenProperties DEF SInv, IInv, LinesOK, CountsOK
    <2> QED
      BY <2>1, <2>2, <2>3
      DEF TypeOK, SInv, IInv, LinesOK, ThreadsOK, EntryOK, ServiceOK, AppsOK, CountsOK
  <1> QED
    BY <1>1, InitS, StepS, PTL DEF Spec

-----------------------------------------------------------------------------
(* What data entry is told.  u are the times that will wait when everything *)
(* under way has arrived, tk those that the operator took; K are the runs   *)
(* the connection was told of, among all the runs announced.                *)

InK(K, runs, t) == {i \in K : runs[i] = t}

InOrderOf(u, K, runs) ==
    \A i, j \in 1..Len(u) : i < j =>
       \E k, l \in K : runs[k] = u[i] /\ runs[l] = u[j] /\ k < l

ToldOf(u, tk, K, runs, rep) ==
    /\ \A t \in Times : Count(u, t) <= Cardinality(InK(K, runs, t))
    /\ \A t \in Times : Count(u, t) + Count(tk, t) >= Cardinality(InK(K, runs, t))
    /\ ~rep => InOrderOf(u, K, runs)

LEMMA InKFinite ==
  ASSUME NEW K, IsFiniteSet(K), NEW runs, NEW t
  PROVE  /\ IsFiniteSet(InK(K, runs, t)) /\ Cardinality(InK(K, runs, t)) \in Nat
         /\ Cardinality(InK(K, runs, t)) > 0 <=> \E k \in K : runs[k] = t
  <1> DEFINE S == InK(K, runs, t)
  <1>1. IsFiniteSet(S)
    <2>1. S \in SUBSET K
      BY DEF InK
    <2> QED
      BY <2>1, FS_Subset
  <1>2. S # {} <=> \E k \in K : runs[k] = t
    BY DEF InK
  <1> HIDE DEF S
  <1>3. Cardinality(S) \in Nat /\ (Cardinality(S) = 0 <=> S = {})
    BY <1>1, FS_CardinalityType, FS_EmptySet
  <1>4. Cardinality(S) > 0 <=> S # {}
    BY <1>3
  <1> QED
    BY <1>1, <1>2, <1>3, <1>4 DEF S

LEMMA SomeOf ==
  ASSUME NEW N \in Nat, NEW K \in SUBSET (1..N)
  PROVE  IsFiniteSet(K)
  <1>1. IsFiniteSet(1..N)
    BY FS_Interval
  <1> QED
    BY <1>1, FS_Subset

LEMMA Inhabited ==
  ASSUME NEW n \in Nat, n > 0, NEW S, n <= Cardinality(S)
  PROVE  \E x : x \in S
  <1> SUFFICES ASSUME S = {}
               PROVE  FALSE
    OBVIOUS
  <1>1. Cardinality(S) = 0
    BY FS_EmptySet
  <1> QED
    BY <1>1

\* The same runs, of which those that were told have not changed.
LEMMA ToldSame ==
  ASSUME NEW u, NEW tk, NEW K, NEW runs, NEW rep \in BOOLEAN, ToldOf(u, tk, K, runs, rep),
         NEW runs2, \A k \in K : runs2[k] = runs[k], NEW rep2 \in BOOLEAN, rep => rep2
  PROVE  ToldOf(u, tk, K, runs2, rep2)
  <1>1. \A t : InK(K, runs2, t) = InK(K, runs, t)
    BY DEF InK
  <1>2. InOrderOf(u, K, runs) => InOrderOf(u, K, runs2)
    BY DEF InOrderOf
  <1> QED
    BY <1>1, <1>2 DEF ToldOf

\* A run is finished, and the connection will be told of it.
LEMMA ToldFinish ==
  ASSUME NEW u \in Seq(Times), NEW tk \in Seq(Times), NEW runs \in Seq(Times),
         NEW K \in SUBSET (1..Len(runs)), NEW rep \in BOOLEAN, ToldOf(u, tk, K, runs, rep),
         NEW run \in Times, NEW rep2 \in BOOLEAN, rep => rep2,
         NEW m \in Line, m.kind = "RUN", m.run = run,
         NEW K2, K2 = IF run >= 1 THEN K \cup {Len(runs) + 1} ELSE K
  PROVE  ToldOf(Listed(u, m), tk, K2, Append(runs, run), rep2)
  <1> DEFINE N == Len(runs)
  <1>0. PICK runs2 : runs2 = Append(runs, run)
    OBVIOUS
  <1>1. /\ N \in Nat /\ \A k \in 1..N : runs2[k] = runs[k]
        /\ runs2[N + 1] = run
    BY <1>0, AppendProperties, LenProperties
  <1>2. run \in Nat /\ IsFiniteSet(K)
    BY <1>1, NetworkAssumption, SomeOf
  <1>3. CASE ~(run >= 1)
    <2>1. Listed(u, m) = u
      BY <1>2, <1>3, ListedFacts
    <2>2. ToldOf(u, tk, K, runs2, rep2)
      BY <1>1, ToldSame
    <2> QED
      BY <1>0, <1>3, <2>1, <2>2 DEF ToldOf
  <1>4. CASE run >= 1
    <2>1. Listed(u, m) = Append(u, run)
      BY <1>4, ListedFacts
    <2>2. K2 = K \cup {N + 1} /\ N + 1 \notin K
      BY <1>1, <1>4
    <2>3. PICK v : v = Append(u, run)
      OBVIOUS
    <2>4. \A t \in Times :
             /\ Count(v, t) = IF run = t THEN Count(u, t) + 1 ELSE Count(u, t)
             /\ Cardinality(InK(K2, runs2, t)) =
                   IF run = t THEN Cardinality(InK(K, runs, t)) + 1 ELSE Cardinality(InK(K, runs, t))
      <3> TAKE t \in Times
      <3>1. Count(v, t) = IF run = t THEN Count(u, t) + 1 ELSE Count(u, t)
        BY <2>3, CountAppend
      <3>2. CASE run = t
        <4>1. InK(K2, runs2, t) = InK(K, runs, t) \cup {N + 1} /\ N + 1 \notin InK(K, runs, t)
          BY <1>1, <2>2, <3>2 DEF InK
        <4>2. IsFiniteSet(InK(K, runs, t))
          BY <1>2, InKFinite
        <4>3. Cardinality(InK(K2, runs2, t)) = Cardinality(InK(K, runs, t)) + 1
          BY <4>1, <4>2, FS_AddElement
        <4> QED
          BY <3>1, <3>2, <4>3
      <3>3. CASE run # t
        <4>1. InK(K2, runs2, t) = InK(K, runs, t)
          BY <1>1, <2>2, <3>3 DEF InK
        <4> QED
          BY <3>1, <3>3, <4>1
      <3> QED
        BY <3>2, <3>3
    <2>5. \A t \in Times : /\ Count(u, t) \in Nat /\ Count(tk, t) \in Nat
                           /\ Cardinality(InK(K, runs, t)) \in Nat
      BY <1>2, CountType, InKFinite
    <2>6. /\ \A t \in Times : Count(v, t) <= Cardinality(InK(K2, runs2, t))
          /\ \A t \in Times : Count(v, t) + Count(tk, t) >= Cardinality(InK(K2, runs2, t))
      <3> SUFFICES ASSUME NEW t \in Times
                   PROVE  /\ Count(v, t) <= Cardinality(InK(K2, runs2, t))
                          /\ Count(v, t) + Count(tk, t) >= Cardinality(InK(K2, runs2, t))
        OBVIOUS
      <3>1. /\ Count(u, t) <= Cardinality(InK(K, runs, t))
            /\ Count(u, t) + Count(tk, t) >= Cardinality(InK(K, runs, t))
        BY DEF ToldOf
      <3> DEFINE a == Count(u, t)
                 b == Count(tk, t)
                 d == Cardinality(InK(K, runs, t))
      <3>2. a \in Nat /\ b \in Nat /\ d \in Nat /\ a <= d /\ a + b >= d
        BY <2>5, <3>1
      <3>3. /\ Count(v, t) = IF run = t THEN a + 1 ELSE a
            /\ Cardinality(InK(K2, runs2, t)) = IF run = t THEN d + 1 ELSE d
        BY <2>4
      <3> HIDE DEF a, b, d
      <3>4. (IF run = t THEN a + 1 ELSE a) + b >= IF run = t THEN d + 1 ELSE d
        BY <3>2
      <3>5. (IF run = t THEN a + 1 ELSE a) <= IF run = t THEN d + 1 ELSE d
        BY <3>2
      <3> QED
        BY <3>3, <3>4, <3>5 DEF b
    <2>7. ASSUME ~rep2
          PROVE  InOrderOf(v, K2, runs2)
      <3>1. /\ Len(u) \in Nat /\ Len(v) = Len(u) + 1 /\ v[Len(u) + 1] = run
            /\ \A i \in 1..Len(u) : v[i] = u[i] /\ u[i] \in Times
        BY <2>3, AppendProperties, LenProperties, ElementOfSeq
      <3>2. InOrderOf(u, K, runs)
        BY <2>7 DEF ToldOf
      <3>3. \A i \in 1..Len(u) : \E k \in K : runs[k] = u[i]
        <4> TAKE i \in 1..Len(u)
        <4>1. PICK t \in Times : t = u[i]
          BY <3>1
        <4>2. Count(u, t) > 0
          BY <4>1, CountType
        <4>3. Count(u, t) \in Nat /\ Count(u, t) <= Cardinality(InK(K, runs, t))
          BY <2>5 DEF ToldOf
        <4>4. \E k \in K : runs[k] = t
          <5>1. PICK n \in Nat : n = Count(u, t)
            BY <4>3
          <5>2. n > 0 /\ n <= Cardinality(InK(K, runs, t))
            BY <4>2, <4>3, <5>1
          <5>3. InK(K, runs, t) # {}
            <6>1. PICK S : S = InK(K, runs, t)
              OBVIOUS
            <6>2. \E x : x \in S
              BY ONLY <5>2, <6>1, Inhabited, n \in Nat
            <6> QED
              BY <6>1, <6>2
          <5> QED
            BY <5>3 DEF InK
        <4> QED
          BY <4>1, <4>4
      <3> SUFFICES ASSUME NEW i \in 1..Len(v), NEW j \in 1..Len(v), i < j
                   PROVE  \E k, l \in K2 : runs2[k] = v[i] /\ runs2[l] = v[j] /\ k < l
        BY DEF InOrderOf
      <3>4. i \in 1..Len(u)
        BY <3>1
      <3>5. CASE j \in 1..Len(u)
        <4>1. PICK k \in K, l \in K : runs[k] = u[i] /\ runs[l] = u[j] /\ k < l
          BY <3>2, <3>4, <3>5 DEF InOrderOf
        <4>2. runs2[k] = v[i] /\ runs2[l] = v[j] /\ k \in K2 /\ l \in K2
          BY <1>1, <2>2, <3>1, <3>4, <3>5, <4>1
        <4> QED
          BY <4>1, <4>2
      <3>6. CASE j = Len(u) + 1
        <4>1. PICK k \in K : runs[k] = u[i]
          BY <3>3, <3>4
        <4>2. PICK l : l = N + 1
          OBVIOUS
        <4>3. runs2[k] = v[i] /\ runs2[l] = v[j] /\ k < l
          BY <1>1, <2>2, <3>1, <3>4, <3>6, <4>1, <4>2
        <4>4. k \in K2 /\ l \in K2
          BY <2>2, <4>1, <4>2
        <4> QED
          BY <4>3, <4>4
      <3>7. j \in 1..Len(u) \/ j = Len(u) + 1
        <4>1. Len(u) \in Nat /\ j \in 1..(Len(u) + 1)
          BY <3>1
        <4> QED
          BY ONLY <4>1
      <3> QED
        BY <3>5, <3>6, <3>7
    <2> QED
      BY <1>0, <2>1, <2>3, <2>6, <2>7 DEF ToldOf
  <1> QED
    BY <1>3, <1>4

LEMMA InOrderWithin ==
  ASSUME NEW u, NEW v, Within(v, u), NEW K, NEW runs, InOrderOf(u, K, runs)
  PROVE  InOrderOf(v, K, runs)
  <1>1. PICK f : Embeds(f, v, u)
    BY DEF Within
  <1> SUFFICES ASSUME NEW i \in 1..Len(v), NEW j \in 1..Len(v), i < j
               PROVE  \E k, l \in K : runs[k] = v[i] /\ runs[l] = v[j] /\ k < l
    BY DEF InOrderOf
  <1>2. f[i] \in 1..Len(u) /\ f[j] \in 1..Len(u) /\ f[i] < f[j]
        /\ v[i] = u[f[i]] /\ v[j] = u[f[j]]
    BY <1>1 DEF Embeds
  <1> QED
    BY <1>2 DEF InOrderOf

\* The last run is about to be taken back, and the connection will be told.
LEMMA ToldDelete ==
  ASSUME NEW u \in Seq(Times), NEW tk \in Seq(Times), NEW runs \in Seq(Times),
         Len(runs) # 0,
         NEW K \in SUBSET (1..Len(runs)), NEW rep, ToldOf(u, tk, K, runs, rep),
         NEW m \in Line, m.kind = "DELETE", m.run = runs[Len(runs)],
         ~rep => \A i, j \in 1..Len(runs) : runs[i] = runs[j] => i = j,
         \A k \in K : runs[k] >= 1, Len(runs) \in K \/ m.run < 1 \/ K = {}
  PROVE  ToldOf(Listed(u, m), tk, K \ {Len(runs)}, runs, rep)
  <1> DEFINE N == Len(runs)
             K2 == K \ {N}
             r == m.run
             v == Listed(u, m)
  <1>1. N \in Nat \ {0} /\ N \in 1..N
    BY LenProperties
  <1>2. r \in Times /\ r \in Nat /\ IsFiniteSet(K) /\ IsFiniteSet(K2)
    <2>1. IsFiniteSet(K)
      BY <1>1, SomeOf
    <2>2. K2 \in SUBSET K
      OBVIOUS
    <2> QED
      BY <1>1, <2>1, <2>2, ElementOfSeq, NetworkAssumption, FS_Subset
  <1>a. CASE r < 1
    <2>1. v = u
      BY <1>a, ListedFacts
    <2>2. K2 = K
      BY <1>1, <1>2, <1>a
    <2> QED
      BY <2>1, <2>2
  <1> SUFFICES ASSUME r >= 1
               PROVE  ToldOf(v, tk, K2, runs, rep)
    BY <1>2, <1>a
  <1>3. N \in K \/ K = {}
    BY <1>2
  <1>4. v = RemoveFirst(u, r) /\ v \in Seq(Times)
    BY ListedFacts
  <1>5. \A t : Count(v, t) = IF r # t THEN Count(u, t)
                             ELSE IF Count(u, t) > 0 THEN Count(u, t) - 1 ELSE 0
    <2> TAKE t
    <2>1. Count(v, t) = IF m.run < 1 \/ m.run # t \/ m.kind = "CLOSED" THEN Count(u, t)
                        ELSE IF m.kind = "RUN" THEN Count(u, t) + 1
                        ELSE IF Count(u, t) > 0 THEN Count(u, t) - 1
                        ELSE 0
      BY CountListed
    <2>2. ~(m.run < 1)
      BY <1>2
    <2> QED
      BY <2>1, <2>2
  <1>6. \A t \in Times :
           /\ Count(u, t) \in Nat /\ Count(tk, t) \in Nat
           /\ Cardinality(InK(K, runs, t)) \in Nat
           /\ Count(u, t) <= Cardinality(InK(K, runs, t))
           /\ Count(u, t) + Count(tk, t) >= Cardinality(InK(K, runs, t))
    BY <1>2, CountType, InKFinite DEF ToldOf
  <1>7. \A t \in Times :
           Cardinality(InK(K2, runs, t)) =
              IF r = t /\ N \in K THEN Cardinality(InK(K, runs, t)) - 1
              ELSE Cardinality(InK(K, runs, t))
    <2> TAKE t \in Times
    <2>1. CASE r = t /\ N \in K
      <3>1. InK(K2, runs, t) = InK(K, runs, t) \ {N} /\ N \in InK(K, runs, t)
        BY <2>1 DEF InK
      <3>2. IsFiniteSet(InK(K, runs, t))
        BY <1>2, InKFinite
      <3>3. Cardinality(InK(K, runs, t) \ {N}) = Cardinality(InK(K, runs, t)) - 1
        BY <3>1, <3>2, FS_RemoveElement
      <3> QED
        BY <2>1, <3>1, <3>3
    <2>2. CASE ~(r = t /\ N \in K)
      <3>1. InK(K2, runs, t) = InK(K, runs, t)
        BY <2>2 DEF InK
      <3> QED
        BY <2>2, <3>1
    <2> QED
      BY <2>1, <2>2
  <1>8. N \notin K => \A t \in Times : Cardinality(InK(K, runs, t)) = 0
    <2> SUFFICES ASSUME N \notin K, NEW t \in Times
                 PROVE  Cardinality(InK(K, runs, t)) = 0
      OBVIOUS
    <2>1. ~\E k \in K : runs[k] = t
      BY <1>3
    <2>2. /\ Cardinality(InK(K, runs, t)) \in Nat
          /\ Cardinality(InK(K, runs, t)) > 0 <=> \E k \in K : runs[k] = t
      BY <1>2, InKFinite
    <2> QED
      BY <2>1, <2>2
  <1> HIDE DEF N, K2, r, v
  <1>9. /\ \A t \in Times : Count(v, t) <= Cardinality(InK(K2, runs, t))
        /\ \A t \in Times : Count(v, t) + Count(tk, t) >= Cardinality(InK(K2, runs, t))
    <2> SUFFICES ASSUME NEW t \in Times
                 PROVE  /\ Count(v, t) <= Cardinality(InK(K2, runs, t))
                        /\ Count(v, t) + Count(tk, t) >= Cardinality(InK(K2, runs, t))
      OBVIOUS
    <2> DEFINE a == Count(u, t)
               b == Count(tk, t)
               d == Cardinality(InK(K, runs, t))
    <2>0. a \in Nat /\ b \in Nat /\ d \in Nat /\ a <= d /\ a + b >= d
      BY <1>6
    <2>1. CASE r = t
      <3>1. Count(v, t) = IF a > 0 THEN a - 1 ELSE 0
        BY <1>5, <2>1
      <3>2. Cardinality(InK(K2, runs, t)) = IF N \in K THEN d - 1 ELSE d
        BY <1>7, <2>1
      <3>3. N \notin K => d = 0
        BY <1>8
      <3>4. N \in K => d > 0
        <4>1. N \in K => \E k \in K : runs[k] = t
          BY <2>1 DEF r, N
        <4>2. Cardinality(InK(K, runs, t)) > 0 <=> \E k \in K : runs[k] = t
          BY <1>2, InKFinite
        <4> QED
          BY <4>1, <4>2
      <3> HIDE DEF a, b, d
      <3>5. (IF a > 0 THEN a - 1 ELSE 0) <= (IF N \in K THEN d - 1 ELSE d)
        BY <2>0, <3>3, <3>4
      <3>6. (IF a > 0 THEN a - 1 ELSE 0) + b >= (IF N \in K THEN d - 1 ELSE d)
        BY <2>0, <3>3, <3>4
      <3> QED
        BY <3>1, <3>2, <3>5, <3>6 DEF b
    <2>2. CASE r # t
      <3>1. Count(v, t) = a /\ Cardinality(InK(K2, runs, t)) = d
        BY <1>5, <1>7, <2>2
      <3> QED
        BY <2>0, <3>1
    <2> QED
      BY <2>1, <2>2
  <1>10. ASSUME ~rep
         PROVE  InOrderOf(v, K2, runs)
    <2>1. InOrderOf(u, K, runs)
      BY <1>10 DEF ToldOf
    <2>2. Within(v, u)
      <3>1. CASE v = u
        <4>1. Embeds([i \in 1..Len(u) |-> i], u, u)
          BY LenProperties DEF Embeds
        <4> QED
          BY <3>1, <4>1 DEF Within
      <3>2. CASE \E k \in 1..Len(u) : Taken(v, u, k)
        BY <1>4, <3>2, TakenIsWithin
      <3> QED
        BY <1>2, <1>4, <3>1, <3>2, RemoveFirstIs
    <2>3. InOrderOf(v, K, runs)
      BY <2>1, <2>2, InOrderWithin
    <2>4. \A i \in 1..Len(v) : v[i] # r
      <3>1. Cardinality(InK(K2, runs, r)) = 0
        <4>1. ~\E k \in K2 : runs[k] = r
          <5>1. runs[N] = r /\ \A k \in K2 : k \in 1..N /\ k # N
            BY <1>1 DEF K2, N, r
          <5> QED
            BY <1>1, <1>10, <5>1 DEF N
        <4>2. /\ Cardinality(InK(K2, runs, r)) \in Nat
              /\ Cardinality(InK(K2, runs, r)) > 0 <=> \E k \in K2 : runs[k] = r
          BY <1>2, InKFinite
        <4> QED
          BY <4>1, <4>2
      <3>2. Count(v, r) \in Nat /\ (Count(v, r) > 0 <=> \E i \in 1..Len(v) : v[i] = r)
        BY <1>4, CountType
      <3>3. Count(v, r) <= 0
        BY <1>2, <1>9, <3>1
      <3> QED
        BY <3>2, <3>3
    <2> SUFFICES ASSUME NEW i \in 1..Len(v), NEW j \in 1..Len(v), i < j
                 PROVE  \E k, l \in K2 : runs[k] = v[i] /\ runs[l] = v[j] /\ k < l
      BY DEF InOrderOf
    <2>5. PICK k \in K, l \in K : runs[k] = v[i] /\ runs[l] = v[j] /\ k < l
      BY <2>3 DEF InOrderOf
    <2>6. k \in K2 /\ l \in K2
      BY <2>4, <2>5 DEF K2, N, r
    <2> QED
      BY <2>5, <2>6
  <1> QED
    BY <1>9, <1>10 DEF ToldOf

\* The list, what is posted, what is written and what is still to be written.
UpOf(l, q, ch, d) == After(After(After(l, q), ch), d)

LEMMA UpType ==
  ASSUME NEW l \in Seq(Times), NEW q \in Seq(Line), NEW ch \in Seq(Line), NEW d \in Seq(Line)
  PROVE  /\ After(l, q) \in Seq(Times) /\ After(After(l, q), ch) \in Seq(Times)
         /\ UpOf(l, q, ch, d) \in Seq(Times)
  <1>1. After(l, q) \in Seq(Times)
    BY AfterType
  <1>2. After(After(l, q), ch) \in Seq(Times)
    BY <1>1, AfterType
  <1>3. UpOf(l, q, ch, d) \in Seq(Times)
    BY <1>2, AfterType DEF UpOf
  <1> QED
    BY <1>1, <1>2, <1>3

LEMMA UpClose ==
  ASSUME NEW l \in Seq(Times), NEW s \in Seq(Times), NEW q \in Seq(Line), NEW ch \in Seq(Line),
         NEW d \in Seq(Line), NEW t, NEW n \in Nat,
         Count(s, t) <= Count(l, t), Count(l, t) <= Count(s, t) + n
  PROVE  /\ Count(UpOf(s, q, ch, d), t) <= Count(UpOf(l, q, ch, d), t)
         /\ Count(UpOf(l, q, ch, d), t) <= Count(UpOf(s, q, ch, d), t) + n
  <1>1. PICK l1, s1 : l1 = After(l, q) /\ s1 = After(s, q)
    OBVIOUS
  <1>2. l1 \in Seq(Times) /\ s1 \in Seq(Times)
    BY <1>1, AfterType
  <1>3. Count(s1, t) <= Count(l1, t) /\ Count(l1, t) <= Count(s1, t) + n
    BY <1>1, CountsStayClose
  <1>4. PICK l2, s2 : l2 = After(l1, ch) /\ s2 = After(s1, ch)
    OBVIOUS
  <1>5. l2 \in Seq(Times) /\ s2 \in Seq(Times)
    BY <1>2, <1>4, AfterType
  <1>6. Count(s2, t) <= Count(l2, t) /\ Count(l2, t) <= Count(s2, t) + n
    BY <1>2, <1>3, <1>4, CountsStayClose
  <1>7. Count(After(s2, d), t) <= Count(After(l2, d), t)
        /\ Count(After(l2, d), t) <= Count(After(s2, d), t) + n
    BY <1>5, <1>6, CountsStayClose
  <1> QED
    BY <1>1, <1>4, <1>7 DEF UpOf

LEMMA UpWithin ==
  ASSUME NEW l \in Seq(Times), NEW s \in Seq(Times), NEW q \in Seq(Line), NEW ch \in Seq(Line),
         NEW d \in Seq(Line), Within(s, l)
  PROVE  Within(UpOf(s, q, ch, d), UpOf(l, q, ch, d))
  <1>1. PICK l1, s1 : l1 = After(l, q) /\ s1 = After(s, q)
    OBVIOUS
  <1>2. l1 \in Seq(Times) /\ s1 \in Seq(Times) /\ Within(s1, l1)
    BY <1>1, AfterType, AfterWithin
  <1>3. PICK l2, s2 : l2 = After(l1, ch) /\ s2 = After(s1, ch)
    OBVIOUS
  <1>4. l2 \in Seq(Times) /\ s2 \in Seq(Times) /\ Within(s2, l2)
    BY <1>2, <1>3, AfterType, AfterWithin
  <1>5. Within(After(s2, d), After(l2, d))
    BY <1>4, AfterWithin
  <1> QED
    BY <1>1, <1>3, <1>5 DEF UpOf

\* The operator takes a time: those that are still to come are the same, but
\* for a deletion that finds another time of the same value, or none.
LEMMA ToldTake ==
  ASSUME NEW l \in Seq(Times), NEW s \in Seq(Times), NEW k, Taken(s, l, k),
         NEW q \in Seq(Line), NEW ch \in Seq(Line), NEW d \in Seq(Line),
         NEW tk \in Seq(Times), NEW K, IsFiniteSet(K), NEW runs, NEW rep,
         ToldOf(UpOf(l, q, ch, d), tk, K, runs, rep),
         NEW tk2, tk2 = Append(tk, l[k])
  PROVE  ToldOf(UpOf(s, q, ch, d), tk2, K, runs, rep)
  <1>1. PICK u, v : u = UpOf(l, q, ch, d) /\ v = UpOf(s, q, ch, d)
    OBVIOUS
  <1>2. u \in Seq(Times) /\ v \in Seq(Times)
    BY <1>1, UpType
  <1>3. l[k] \in Times /\ tk2 \in Seq(Times)
    BY ElementOfSeq, AppendProperties DEF Taken
  <1>4. ASSUME NEW t \in Times
        PROVE  /\ Count(v, t) <= Cardinality(InK(K, runs, t))
               /\ Count(v, t) + Count(tk2, t) >= Cardinality(InK(K, runs, t))
    <2>1. PICK n \in Nat : n = IF l[k] = t THEN 1 ELSE 0
      OBVIOUS
    <2>2. Count(l, t) \in Nat /\ Count(s, t) \in Nat
      BY CountType
    <2>3. /\ l[k] = t => Count(s, t) = Count(l, t) - 1
          /\ l[k] # t => Count(s, t) = Count(l, t)
      BY CountTaken
    <2>4. Count(s, t) <= Count(l, t) /\ Count(l, t) <= Count(s, t) + n
      BY <2>1, <2>2, <2>3
    <2>5. Count(v, t) <= Count(u, t) /\ Count(u, t) <= Count(v, t) + n
      BY <1>1, <2>4, UpClose
    <2>6. Count(tk2, t) = Count(tk, t) + n
      <3>1. Count(tk2, t) = IF l[k] = t THEN Count(tk, t) + 1 ELSE Count(tk, t)
        BY <1>3, CountAppend
      <3>2. Count(tk, t) \in Nat
        BY CountType
      <3> QED
        BY <2>1, <3>1, <3>2
    <2>7. /\ Count(u, t) <= Cardinality(InK(K, runs, t))
          /\ Count(u, t) + Count(tk, t) >= Cardinality(InK(K, runs, t))
      BY <1>1 DEF ToldOf
    <2>8. Count(u, t) \in Nat /\ Count(v, t) \in Nat /\ Count(tk, t) \in Nat
          /\ Cardinality(InK(K, runs, t)) \in Nat
      BY <1>2, CountType, InKFinite
    <2>9. PICK a, b, e, x : a = Count(u, t) /\ b = Count(v, t) /\ e = Count(tk, t)
                            /\ x = Cardinality(InK(K, runs, t))
      OBVIOUS
    <2>10. /\ a \in Nat /\ b \in Nat /\ e \in Nat /\ x \in Nat
           /\ b <= a /\ a <= b + n /\ a <= x /\ a + e >= x
      BY <2>5, <2>7, <2>8, <2>9
    <2>11. b <= x /\ b + (e + n) >= x
      BY <2>10
    <2> QED
      BY <2>6, <2>9, <2>11
  <1>5. ~rep => InOrderOf(v, K, runs)
    <2>1. Within(s, l)
      BY TakenIsWithin
    <2>2. Within(v, u)
      BY <1>1, <2>1, UpWithin
    <2> QED
      BY <1>1, <2>2, InOrderWithin DEF ToldOf
  <1> QED
    BY <1>1, <1>4, <1>5 DEF ToldOf

\* News of a closed connection changes no list.
LEMMA OnlyNews ==
  ASSUME NEW l \in Seq(Times), NEW m \in Seq(Line), \A i \in 1..Len(m) : m[i].kind = "CLOSED"
  PROVE  After(l, m) = l
  <1>1. PICK f : Lists(f, l, m) /\ After(l, m) = f[Len(m)]
    BY ListsExist
  <1>2. Len(m) \in Nat /\ \A n \in 1..Len(m) : m[n] \in Line
    BY LenProperties, ElementOfSeq
  <1> DEFINE Bad == {n \in 0..Len(m) : f[n] # l}
  <1>3. Bad = {}
    <2> SUFFICES ASSUME Bad # {}
                 PROVE  FALSE
      OBVIOUS
    <2>1. Bad \in SUBSET Nat
      BY <1>2
    <2> HIDE DEF Bad
    <2>2. PICK n \in Bad : \A j \in Bad : n <= j
      BY <2>1, LeastNat
    <2> USE DEF Bad
    <2>3. f[0] = l /\ n \in 1..Len(m)
      BY <1>1, <1>2, <2>2 DEF Lists
    <2>4. n - 1 \in 0..Len(m) /\ n - 1 \notin Bad
      BY <1>2, <2>2, <2>3
    <2>5. f[n - 1] = l
      BY <2>4
    <2>6. f[n] = Listed(l, m[n])
      BY <1>1, <2>3, <2>5 DEF Lists
    <2>7. Listed(l, m[n]) = l
      BY <1>2, <2>3, ListedFacts
    <2> QED
      BY <2>2, <2>6, <2>7
  <1> QED
    BY <1>1, <1>2, <1>3

\* The one line that a walk still has to write.
LEMMA UpLast ==
  ASSUME NEW l \in Seq(Times), NEW m \in Line, NEW d, d = <<m>>
  PROVE  d \in Seq(Line) /\ After(l, d) = Listed(l, m)
  <1>1. PICK e : e = <<>>
    OBVIOUS
  <1>2. e \in Seq(Line) /\ d = Append(e, m) /\ After(l, e) = l
    BY <1>1, EmptySeq, AfterNothing
  <1> QED
    BY <1>2, AfterAppend

\* A connection that is not yet known has been told of nothing.
LEMMA ToldNothing ==
  ASSUME NEW u, u = <<>>, NEW tk \in Seq(Times), NEW K, K = {}, NEW runs, NEW rep
  PROVE  ToldOf(u, tk, K, runs, rep)
  <1>1. \A t : InK(K, runs, t) = {}
    BY DEF InK
  <1>2. Cardinality({}) = 0
    BY FS_EmptySet
  <1>3. u \in Seq(Times) /\ Len(u) = 0
    BY EmptySeq
  <1>4. \A t \in Times : Count(tk, t) \in Nat /\ Count(u, t) = 0
    <2> TAKE t \in Times
    <2>1. /\ Count(u, t) \in Nat
          /\ Count(u, t) > 0 <=> \E i \in 1..Len(u) : u[i] = t
      BY <1>3, CountType
    <2>2. Count(tk, t) \in Nat
      BY CountType
    <2> QED
      BY <1>3, <2>1, <2>2
  <1>5. InOrderOf(u, K, runs)
    BY <1>3 DEF InOrderOf
  <1>6. \A t \in Times : Cardinality(InK(K, runs, t)) = 0
    BY <1>1, <1>2
  <1>7. \A t \in Times : /\ Count(u, t) <= Cardinality(InK(K, runs, t))
                         /\ Count(u, t) + Count(tk, t) >= Cardinality(InK(K, runs, t))
    BY <1>4, <1>6
  <1> QED
    BY <1>5, <1>7 DEF ToldOf

-----------------------------------------------------------------------------
(* What a working connection is told, step by step.  A program whose list   *)
(* hears of no other connection, and that no walk was cut short for, has    *)
(* been told of the runs since it was accepted, whatever is still under way.*)

DueOf(walk, conns, c) ==
    IF walk = <<>> THEN <<>>
    ELSE IF \E i \in walk[1].cursor..walk[1].size : conns[i] = c
         THEN <<[kind |-> walk[1].kind, run |-> walk[1].run]>>
         ELSE <<>>

LastOf(walk, runs) ==
    IF walk # <<>> /\ walk[1].kind = "DELETE" THEN Len(runs) - 1 ELSE Len(runs)

KnownOf(c, b, walk, conns, runs) ==
    {i \in (b + 1)..LastOf(walk, runs) : c \in Members(conns) /\ runs[i] >= 1}

OwnEvents(q, c) == \A i \in 1..Len(q) : q[i].conn = c \/ q[i].kind = "CLOSED"

Fit(p) ==
    /\ tclient[p] # 0 /\ serverOpen[tclient[p]] /\ tclient[p] \notin upset
    /\ p \notin mixed /\ OwnEvents(queue[p], tclient[p])

Told(p) ==
    ToldOf(UpOf(list[p], queue[p], chan[tclient[p]], DueOf(sending, clients, tclient[p])),
           taken[p], KnownOf(tclient[p], base[tclient[p]], sending, clients, announced),
           announced, repeated)

ToldOK == \A p \in Programs : Fit(p) => Told(p)

BaseOK == \A c \in Conns : base[c] <= Len(announced)

QInv == SInv /\ BaseOK /\ ToldOK

LEMMA StepBase ==
  ASSUME SInv, BaseOK, [Next]_vars
  PROVE  BaseOK'
  <1>0. /\ announced \in Seq(Times) /\ Len(announced) \in Nat
        /\ base \in [Conns -> Nat] /\ \A c \in Conns : base[c] <= Len(announced)
    BY LenProperties DEF SInv, IInv, LinesOK, ServiceOK, BaseOK
  <1>1. CASE \E run \in Times : Finish(run)
    <2>1. PICK run \in Times : Finish(run)
      BY <1>1
    <2>2. Len(announced') = Len(announced) + 1 /\ base' = base
      BY <1>0, <2>1, AppendProperties DEF Finish
    <2> QED
      BY <1>0, <2>2 DEF BaseOK
  <1>2. CASE WalkOn
    <2>1. PICK kind \in Kinds, run \in Times, cursor \in Nat, size \in Nat :
             /\ WalkIs(kind, run, cursor, size)
             /\ \/ /\ Len(clients) = size /\ cursor <= size
                   /\ Send([kind |-> kind, run |-> run, cursor |-> cursor, size |-> size], clients[cursor])
                \/ /\ ~(Len(clients) = size /\ cursor <= size)
                   /\ EndWalk([kind |-> kind, run |-> run, cursor |-> cursor, size |-> size])
      BY <1>2, WalkOnIs
    <2>2. CASE announced' = announced /\ base' = base
      BY <1>0, <2>2 DEF BaseOK
    <2>3. CASE /\ announced' = Front(announced) /\ kind = "DELETE"
               /\ base' = [c \in Conns |-> IF base[c] < Len(announced) THEN base[c]
                                           ELSE Len(announced) - 1]
      <3>1. Len(announced) \in Nat \ {0}
        BY <1>0, <2>1, <2>3 DEF WalkIs, SInv, IInv, LinesOK
      <3>2. Len(announced') = Len(announced) - 1
        BY <1>0, <2>3, <3>1, FrontIs
      <3>3. ASSUME NEW c \in Conns
            PROVE  base'[c] <= Len(announced')
        <4>1. base[c] \in Nat
          BY <1>0
        <4>2. base'[c] = IF base[c] < Len(announced) THEN base[c] ELSE Len(announced) - 1
          BY <2>3
        <4> QED
          BY <1>0, <3>1, <3>2, <4>1, <4>2
      <3> QED
        BY <3>3 DEF BaseOK
    <2> QED
      BY <2>1, <2>2, <2>3 DEF Send, EndWalk
  <1>3. CASE Accept
    <2>1. announced' = announced /\ base' = [base EXCEPT ![Head(arriving)] = Len(announced)]
      BY <1>3 DEF Accept, timer
    <2> QED
      BY <1>0, <2>1 DEF BaseOK
  <1>4. CASE announced' = announced /\ base' = base
    BY <1>0, <1>4 DEF BaseOK
  <1> QED
    BY <1>1, <1>2, <1>3, <1>4, Elsewhere DEF DeleteFinish, Reset, ghosts

\* What is under way are lines.
LEMMA LineSeqs ==
  ASSUME NEW s, s \in Seq(Message) \/ s \in Seq(Event)
  PROVE  s \in Seq(Line)
  <1>1. Len(s) \in Nat /\ DOMAIN s = 1..Len(s) /\ \A i \in 1..Len(s) : s[i] \in Line
    BY LenProperties, ElementOfSeq DEF Line
  <1>2. s \in [1..Len(s) -> Line]
    <2>1. s \in [1..Len(s) -> Message] \/ s \in [1..Len(s) -> Event]
      BY LenProperties
    <2> QED
      BY <1>1, <2>1
  <1> QED
    BY <1>1, <1>2, SeqDef

LEMMA ToldFacts ==
  ASSUME QInv, NEW p \in Programs, NEW c, c = tclient[p], c # 0
  PROVE  /\ c \in Conns /\ owner[c] = p /\ listening[p]
         /\ list[p] \in Seq(Times) /\ taken[p] \in Seq(Times)
         /\ queue[p] \in Seq(Event) /\ queue[p] \in Seq(Line)
         /\ chan[c] \in Seq(Message) /\ chan[c] \in Seq(Line)
         /\ DueOf(sending, clients, c) \in Seq(Line)
         /\ announced \in Seq(Times) /\ base[c] \in 0..Len(announced)
         /\ repeated \in BOOLEAN
         /\ KnownOf(c, base[c], sending, clients, announced) \in SUBSET (1..Len(announced))
         /\ IsFiniteSet(KnownOf(c, base[c], sending, clients, announced))
  <1>1. c \in Conns /\ owner[c] = p
    BY DEF QInv, SInv, IInv, EntryOK, OwnOK
  <1>2. list[p] \in Seq(Times) /\ taken[p] \in Seq(Times) /\ listening[p]
    BY DEF QInv, SInv, AppsOK
  <1>3. queue[p] \in Seq(Event) /\ chan[c] \in Seq(Message) /\ announced \in Seq(Times)
    BY <1>1 DEF QInv, SInv, IInv, EntryOK, LinesOK
  <1>4. base[c] \in Nat /\ base[c] <= Len(announced) /\ Len(announced) \in Nat
    BY <1>1, <1>3, LenProperties DEF QInv, SInv, ServiceOK, BaseOK
  <1>5. DueOf(sending, clients, c) \in Seq(Line)
    <2>1. CASE DueOf(sending, clients, c) = <<>>
      BY <2>1, EmptySeq
    <2>2. CASE DueOf(sending, clients, c) # <<>>
      <3>1. sending # <<>>
        BY <2>2 DEF DueOf
      <3>2. PICK kind \in Kinds, run \in Times, cursor \in Nat, size \in Nat :
               WalkIs(kind, run, cursor, size)
        BY <3>1 DEF QInv, SInv, SendsOK
      <3>3. sending[1].kind = kind /\ sending[1].run = run
        BY <3>2 DEF WalkIs
      <3>4. DueOf(sending, clients, c) = <<[kind |-> kind, run |-> run]>>
        BY <2>2, <3>3 DEF DueOf
      <3>5. [kind |-> kind, run |-> run] \in Line
        BY DEF Line, Message, Kinds
      <3> QED
        BY <3>4, <3>5, UpLast, EmptySeq
    <2> QED
      BY <2>1, <2>2
  <1>6. KnownOf(c, base[c], sending, clients, announced) \in SUBSET (1..Len(announced))
    <2>1. LastOf(sending, announced) \in Int /\ LastOf(sending, announced) <= Len(announced)
      BY <1>4 DEF LastOf
    <2> QED
      BY <1>4, <2>1 DEF KnownOf
  <1>7. IsFiniteSet(KnownOf(c, base[c], sending, clients, announced))
    BY <1>4, <1>6, SomeOf
  <1>8. queue[p] \in Seq(Line) /\ chan[c] \in Seq(Line)
    BY <1>3, LineSeqs
  <1>9. repeated \in BOOLEAN
    BY DEF QInv, SInv, CountsOK
  <1> QED
    BY <1>1, <1>2, <1>3, <1>4, <1>5, <1>6, <1>7, <1>8, <1>9

\* Nothing that p is told of has changed.
LEMMA ToldStill ==
  ASSUME NEW p, Told(p), tclient'[p] = tclient[p], list'[p] = list[p], queue'[p] = queue[p],
         taken'[p] = taken[p], chan'[tclient[p]] = chan[tclient[p]],
         base'[tclient[p]] = base[tclient[p]],
         sending' = sending, clients' = clients, announced' = announced, repeated' = repeated
  PROVE  Told(p)'
  BY DEF Told

\* A run is finished or is to be taken back, and p will be told if it is known.
LEMMA ToldOfFinish ==
  ASSUME QInv, NEW run \in Times, Finish(run), NEW p \in Programs, Fit(p)'
  PROVE  Told(p)'
  <1>1. PICK c : c = tclient[p]
    OBVIOUS
  <1>2. /\ sending = <<>> /\ announced' = Append(announced, run)
        /\ sending' = <<[kind |-> "RUN", run |-> run, cursor |-> 1, size |-> Len(clients)]>>
        /\ repeated' = (repeated \/ run \in ToSet(announced))
        /\ tclient' = tclient /\ list' = list /\ queue' = queue /\ taken' = taken
        /\ chan' = chan /\ base' = base /\ clients' = clients
        /\ serverOpen' = serverOpen /\ upset' = upset /\ mixed' = mixed
    BY DEF Finish, Walk, service, wire, entry
  <1>3. Fit(p) /\ c # 0
    BY <1>1, <1>2 DEF Fit
  <1>4. ToldOf(UpOf(list[p], queue[p], chan[c], DueOf(sending, clients, c)), taken[p],
               KnownOf(c, base[c], sending, clients, announced), announced, repeated)
    BY <1>1, <1>3 DEF QInv, ToldOK, Told
  <1>5. PICK l, q, ch, tk, b, walk, runs, rep :
           /\ l = list[p] /\ q = queue[p] /\ ch = chan[c] /\ tk = taken[p] /\ b = base[c]
           /\ walk = sending' /\ runs = announced' /\ rep = repeated'
    OBVIOUS
  <1>6. PICK m, d, e, K, K2, u :
           /\ m = [kind |-> "RUN", run |-> run]
           /\ d = DueOf(walk, clients, c) /\ e = <<>>
           /\ K = KnownOf(c, b, sending, clients, announced)
           /\ K2 = KnownOf(c, b, walk, clients, runs)
           /\ u = UpOf(l, q, ch, e)
    OBVIOUS
  <1>7. /\ l \in Seq(Times) /\ tk \in Seq(Times) /\ q \in Seq(Line) /\ ch \in Seq(Line)
        /\ announced \in Seq(Times) /\ b \in 0..Len(announced) /\ repeated \in BOOLEAN
        /\ K \in SUBSET (1..Len(announced)) /\ e \in Seq(Line) /\ u \in Seq(Times)
    BY <1>1, <1>3, <1>5, <1>6, ToldFacts, EmptySeq, UpType
  <1>8. DueOf(sending, clients, c) = e
    BY <1>2, <1>6 DEF DueOf
  <1>9. ToldOf(u, tk, K, announced, repeated)
    BY <1>4, <1>5, <1>6, <1>8
  <1>10. m \in Line /\ m.kind = "RUN" /\ m.run = run
    BY <1>6 DEF Line, Message
  <1>11. /\ Len(announced) \in Nat /\ Len(runs) = Len(announced) + 1
         /\ runs[Len(announced) + 1] = run
         /\ \A i \in 1..Len(announced) : runs[i] = announced[i]
    BY <1>2, <1>5, <1>7, LenProperties, AppendProperties
  <1>12. rep \in BOOLEAN /\ (repeated => rep)
    BY <1>2, <1>5, <1>7
  <1>13. d = IF c \in Members(clients) THEN <<m>> ELSE e
    <2>1. walk # <<>> /\ walk[1].cursor = 1 /\ walk[1].size = Len(clients)
          /\ walk[1].kind = "RUN" /\ walk[1].run = run
      BY <1>2, <1>5
    <2>2. (\E i \in 1..Len(clients) : clients[i] = c) <=> c \in Members(clients)
      BY DEF Members
    <2> QED
      BY <1>6, <2>1, <2>2 DEF DueOf
  <1>14. /\ LastOf(sending, announced) = Len(announced) /\ LastOf(walk, runs) = Len(runs)
    BY <1>2, <1>5 DEF LastOf
  <1>15. ToldOf(UpOf(l, q, ch, d), tk, K2, runs, rep)
    <2>1. CASE c \in Members(clients)
      <3>1. UpOf(l, q, ch, d) = Listed(u, m)
        <4>1. PICK x : x = After(After(l, q), ch)
          OBVIOUS
        <4>2. x \in Seq(Times)
          BY <1>7, <4>1, UpType
        <4>3. u = x
          BY <1>6, <4>1, <4>2, AfterNothing DEF UpOf
        <4>4. After(x, d) = Listed(x, m)
          BY <1>10, <1>13, <2>1, <4>2, UpLast
        <4> QED
          BY <4>1, <4>3, <4>4 DEF UpOf
      <3>2. K2 = IF run >= 1 THEN K \cup {Len(announced) + 1} ELSE K
        <4>1. /\ K = {i \in (b + 1)..Len(announced) : announced[i] >= 1}
              /\ K2 = {i \in (b + 1)..(Len(announced) + 1) : runs[i] >= 1}
          BY <1>6, <1>11, <1>14, <2>1 DEF KnownOf
        <4>2. Len(announced) + 1 \in (b + 1)..(Len(announced) + 1)
          BY <1>7, <1>11
        <4>3. \A i \in (b + 1)..(Len(announced) + 1) :
                 i = Len(announced) + 1 \/ (i \in (b + 1)..Len(announced) /\ runs[i] = announced[i])
          BY <1>7, <1>11
        <4>4. \A i \in (b + 1)..Len(announced) :
                 i \in (b + 1)..(Len(announced) + 1) /\ runs[i] = announced[i]
          BY <1>7, <1>11
        <4> QED
          BY <1>11, <4>1, <4>2, <4>3, <4>4
      <3>3. ToldOf(Listed(u, m), tk, K2, Append(announced, run), rep)
        <4>1. /\ u \in Seq(Times) /\ tk \in Seq(Times) /\ announced \in Seq(Times)
              /\ K \in SUBSET (1..Len(announced)) /\ repeated \in BOOLEAN
          BY <1>7
        <4> QED
          BY ONLY <1>9, <1>10, <1>12, <3>2, <4>1, ToldFinish, run \in Times
      <3> QED
        BY <1>2, <1>5, <3>1, <3>3
    <2>2. CASE c \notin Members(clients)
      <3>1. K = {} /\ K2 = {}
        BY <1>6, <2>2 DEF KnownOf
      <3>2. d = e
        BY <1>13, <2>2
      <3>3. ToldOf(u, tk, K, runs, rep)
        BY <1>7, <1>9, <1>12, <3>1, ToldSame
      <3> QED
        BY <1>6, <3>1, <3>2, <3>3
    <2> QED
      BY <2>1, <2>2
  <1> QED
    BY <1>1, <1>2, <1>5, <1>6, <1>15 DEF Told

LEMMA ToldOfDelete ==
  ASSUME QInv, DeleteFinish, NEW p \in Programs, Fit(p)'
  PROVE  Told(p)'
  <1>1. PICK c, N : c = tclient[p] /\ N = Len(announced)
    OBVIOUS
  <1>2. PICK run : run = Last(announced)
    OBVIOUS
  <1>3. /\ sending = <<>> /\ N > forgotten
        /\ sending' = <<[kind |-> "DELETE", run |-> run, cursor |-> 1, size |-> Len(clients)]>>
        /\ announced' = announced /\ repeated' = repeated
        /\ tclient' = tclient /\ list' = list /\ queue' = queue /\ taken' = taken
        /\ chan' = chan /\ base' = base /\ clients' = clients
        /\ serverOpen' = serverOpen /\ upset' = upset /\ mixed' = mixed
    BY <1>1, <1>2 DEF DeleteFinish, Walk, service, wire, entry, ghosts
  <1>4. Fit(p) /\ c # 0
    BY <1>1, <1>3 DEF Fit
  <1>5. ToldOf(UpOf(list[p], queue[p], chan[c], DueOf(sending, clients, c)), taken[p],
               KnownOf(c, base[c], sending, clients, announced), announced, repeated)
    BY <1>1, <1>4 DEF QInv, ToldOK, Told
  <1>6. PICK l, q, ch, tk, b, walk :
           /\ l = list[p] /\ q = queue[p] /\ ch = chan[c] /\ tk = taken[p] /\ b = base[c]
           /\ walk = sending'
    OBVIOUS
  <1>7. PICK m, d, e, K, K2, u :
           /\ m = [kind |-> "DELETE", run |-> run]
           /\ d = DueOf(walk, clients, c) /\ e = <<>>
           /\ K = KnownOf(c, b, sending, clients, announced)
           /\ K2 = KnownOf(c, b, walk, clients, announced)
           /\ u = UpOf(l, q, ch, e)
    OBVIOUS
  <1>8. /\ l \in Seq(Times) /\ tk \in Seq(Times) /\ q \in Seq(Line) /\ ch \in Seq(Line)
        /\ announced \in Seq(Times) /\ b \in 0..N /\ repeated \in BOOLEAN
        /\ K \in SUBSET (1..N) /\ e \in Seq(Line) /\ u \in Seq(Times)
    BY <1>1, <1>4, <1>6, <1>7, ToldFacts, EmptySeq, UpType
  <1>9. DueOf(sending, clients, c) = e
    BY <1>3, <1>7 DEF DueOf
  <1>10. ToldOf(u, tk, K, announced, repeated)
    BY <1>5, <1>6, <1>7, <1>9
  <1>11. N \in Nat \ {0} /\ run = announced[N] /\ run \in Times
    <2>1. N \in Nat /\ forgotten \in Nat
      BY <1>1, <1>8, LenProperties DEF QInv, SInv, IInv, LinesOK
    <2>2. N \in Nat \ {0}
      BY <1>3, <2>1
    <2> QED
      BY <1>1, <1>2, <1>8, <2>2, ElementOfSeq DEF Last
  <1>12. m \in Line /\ m.kind = "DELETE" /\ m.run = run
    BY <1>7, <1>11 DEF Line, Message
  <1>13. d = IF c \in Members(clients) THEN <<m>> ELSE e
    <2>1. walk # <<>> /\ walk[1].cursor = 1 /\ walk[1].size = Len(clients)
          /\ walk[1].kind = "DELETE" /\ walk[1].run = run
      BY <1>3, <1>6
    <2>2. (\E i \in 1..Len(clients) : clients[i] = c) <=> c \in Members(clients)
      BY DEF Members
    <2> QED
      BY <1>7, <2>1, <2>2 DEF DueOf
  <1>14. LastOf(sending, announced) = N /\ LastOf(walk, announced) = N - 1
    BY <1>1, <1>3, <1>6 DEF LastOf
  <1>15. /\ K = {i \in (b + 1)..N : c \in Members(clients) /\ announced[i] >= 1}
         /\ K2 = {i \in (b + 1)..(N - 1) : c \in Members(clients) /\ announced[i] >= 1}
    BY <1>7, <1>14 DEF KnownOf
  <1>16. K2 = K \ {N}
    <2>1. \A i \in (b + 1)..N : i # N <=> i \in (b + 1)..(N - 1)
      BY <1>8, <1>11
    <2>2. \A i \in (b + 1)..(N - 1) : i \in (b + 1)..N
      BY <1>8, <1>11
    <2> QED
      BY <1>15, <2>1, <2>2
  <1>17. ToldOf(UpOf(l, q, ch, d), tk, K2, announced, repeated)
    <2>1. CASE c \in Members(clients)
      <3>1. UpOf(l, q, ch, d) = Listed(u, m)
        <4>1. PICK x : x = After(After(l, q), ch)
          OBVIOUS
        <4>2. x \in Seq(Times)
          BY <1>8, <4>1, UpType
        <4>3. u = x
          BY <1>7, <4>1, <4>2, AfterNothing DEF UpOf
        <4>4. After(x, d) = Listed(x, m)
          BY <1>12, <1>13, <2>1, <4>2, UpLast
        <4> QED
          BY <4>1, <4>3, <4>4 DEF UpOf
      <3>2. \A k \in K : announced[k] >= 1
        BY <1>15
      <3>3. N \in K \/ run < 1 \/ K = {}
        <4>1. run \in Nat
          BY <1>11, NetworkAssumption
        <4>2. CASE b < N
          <5>1. N \in (b + 1)..N
            BY <1>8, <1>11, <4>2
          <5> QED
            BY <1>11, <1>15, <2>1, <4>1, <5>1
        <4>3. CASE ~(b < N)
          <5>1. \A i : i \notin (b + 1)..N
            BY <1>8, <1>11, <4>3
          <5> QED
            BY <1>15, <5>1
        <4> QED
          BY <4>2, <4>3
      <3>4. ~repeated => \A i, j \in 1..Len(announced) : announced[i] = announced[j] => i = j
        BY DEF QInv, SInv, CountsOK
      <3>5. ToldOf(Listed(u, m), tk, K \ {Len(announced)}, announced, repeated)
        <4>1. /\ u \in Seq(Times) /\ tk \in Seq(Times) /\ announced \in Seq(Times)
              /\ K \in SUBSET (1..Len(announced)) /\ Len(announced) # 0
              /\ m.run = announced[Len(announced)]
              /\ Len(announced) \in K \/ m.run < 1 \/ K = {}
          BY <1>1, <1>8, <1>11, <1>12, <3>3
        <4> QED
          BY ONLY <1>10, <1>12, <3>2, <3>4, <4>1, ToldDelete
      <3> QED
        BY <1>1, <1>16, <3>1, <3>5
    <2>2. CASE c \notin Members(clients)
      <3>1. K2 = K /\ d = e
        BY <1>13, <1>15, <2>2
      <3> QED
        BY <1>7, <1>10, <3>1
    <2> QED
      BY <2>1, <2>2
  <1> QED
    BY <1>1, <1>3, <1>6, <1>7, <1>17 DEF Told

\* The walk writes to one client.
LEMMA ToldOfSend ==
  ASSUME QInv, NEW kind \in Kinds, NEW run \in Times, NEW cursor \in Nat, NEW size \in Nat,
         WalkIs(kind, run, cursor, size), Len(clients) = size, cursor <= size,
         Send([kind |-> kind, run |-> run, cursor |-> cursor, size |-> size], clients[cursor]),
         UNCHANGED <<serverOpen, threads, entry, queue, upset, repeated>>,
         NEW p \in Programs, Fit(p)'
  PROVE  Told(p)'
  <1>1. PICK c, t, m, e :
           c = tclient[p] /\ t = clients[cursor] /\ m = [kind |-> kind, run |-> run] /\ e = <<>>
    OBVIOUS
  <1>2. /\ sending = <<[kind |-> kind, run |-> run, cursor |-> cursor, size |-> size]>>
        /\ sending' = <<[kind |-> kind, run |-> run, cursor |-> cursor + 1, size |-> size]>>
        /\ clients' = clients /\ announced' = announced /\ base' = base
        /\ repeated' = repeated
        /\ tclient' = tclient /\ list' = list /\ queue' = queue /\ taken' = taken
        /\ serverOpen' = serverOpen /\ upset' = upset /\ mixed' = mixed
    BY DEF WalkIs, Send, entry
  <1>3. Fit(p) /\ c # 0 /\ serverOpen[c]
    BY <1>1, <1>2 DEF Fit
  <1>4. Told(p)
    BY <1>3 DEF QInv, ToldOK
  <1>5. /\ c \in Conns /\ list[p] \in Seq(Times) /\ queue[p] \in Seq(Line)
        /\ chan[c] \in Seq(Line)
    BY <1>1, <1>3, ToldFacts
  <1>6. chan \in [Conns -> Seq(Message)] /\ Distinct(clients) /\ 1 <= cursor
    BY DEF QInv, SInv, IInv, LinesOK, ServiceOK, WalkIs
  <1>7. m \in Line
    BY <1>1 DEF Line, Message, Kinds
  <1>8. KnownOf(c, base[c], sending', clients, announced)
           = KnownOf(c, base[c], sending, clients, announced)
    <2>1. LastOf(sending', announced) = LastOf(sending, announced)
      BY <1>2 DEF LastOf
    <2> QED
      BY <2>1 DEF KnownOf
  <1>9. /\ DueOf(sending, clients, c) = IF \E i \in cursor..size : clients[i] = c THEN <<m>> ELSE e
        /\ DueOf(sending', clients, c) = IF \E i \in (cursor + 1)..size : clients[i] = c
                                         THEN <<m>> ELSE e
    <2>1. /\ sending # <<>> /\ sending[1].cursor = cursor /\ sending[1].size = size
          /\ sending[1].kind = kind /\ sending[1].run = run
      BY <1>2
    <2>2. /\ sending' # <<>> /\ sending'[1].cursor = cursor + 1 /\ sending'[1].size = size
          /\ sending'[1].kind = kind /\ sending'[1].run = run
      BY <1>2
    <2> QED
      BY <1>1, <2>1, <2>2 DEF DueOf
  <1>10. PICK d, d2, ch2 : /\ d = DueOf(sending, clients, c)
                          /\ d2 = DueOf(sending', clients, c) /\ ch2 = chan'[c]
    OBVIOUS
  <1>11. UpOf(list[p], queue[p], ch2, d2) = UpOf(list[p], queue[p], chan[c], d)
    <2>1. CASE t = c
      <3>1. ch2 = Append(chan[c], m)
        <4>1. chan' = [chan EXCEPT ![c] = Append(@, m)]
          BY <1>1, <1>3, <2>1 DEF Send
        <4> QED
          BY <1>5, <1>6, <1>10, <4>1
      <3>2. d = <<m>>
        <4>1. cursor \in cursor..size
          OBVIOUS
        <4>2. \E i \in cursor..size : clients[i] = c
          BY <1>1, <2>1, <4>1
        <4> QED
          BY <1>9, <1>10, <4>2
      <3>3. \A i \in (cursor + 1)..size : clients[i] # c
        <4> SUFFICES ASSUME NEW i \in (cursor + 1)..size, clients[i] = c
                     PROVE  FALSE
          OBVIOUS
        <4>1. i \in 1..Len(clients) /\ cursor \in 1..Len(clients) /\ i # cursor
          BY <1>6
        <4> QED
          BY <1>1, <1>6, <2>1, <4>1 DEF Distinct
      <3>4. d2 = e
        BY <1>9, <1>10, <3>3
      <3> QED
        <4>1. PICK l, q, ch : l = list[p] /\ q = queue[p] /\ ch = chan[c]
          OBVIOUS
        <4>2. l \in Seq(Times) /\ q \in Seq(Line) /\ ch \in Seq(Line) /\ d2 = <<>>
              /\ ch2 = Append(ch, m)
          BY <1>1, <1>5, <3>1, <3>4, <4>1
        <4>3. \A x \in Seq(Times) : After(x, d) = Listed(x, m)
          BY <1>7, <3>2, UpLast
        <4>4. \A x \in Seq(Times) : After(x, d2) = x
          BY <4>2, AfterNothing
        <4>5. PICK x, y, z : x = After(l, q) /\ y = After(x, ch) /\ z = After(x, ch2)
          OBVIOUS
        <4>6. x \in Seq(Times)
          BY <4>2, <4>5, AfterType
        <4>7. ch2 \in Seq(Line) /\ z = Listed(y, m)
          BY <1>7, <4>2, <4>5, <4>6, AfterAppend
        <4>8. y \in Seq(Times) /\ z \in Seq(Times)
          BY <4>2, <4>5, <4>6, <4>7, AfterType
        <4>9. After(y, d) = Listed(y, m) /\ After(z, d2) = z
          BY <4>3, <4>4, <4>8
        <4> QED
          BY <4>1, <4>5, <4>7, <4>9 DEF UpOf
    <2>2. CASE t # c
      <3>1. ch2 = chan[c]
        BY <1>1, <1>5, <1>6, <1>10, <2>2 DEF Send
      <3>2. (\E i \in cursor..size : clients[i] = c)
               <=> (\E i \in (cursor + 1)..size : clients[i] = c)
        <4>1. \A i \in (cursor + 1)..size : i \in cursor..size
          OBVIOUS
        <4>2. \A i \in cursor..size : i = cursor \/ i \in (cursor + 1)..size
          OBVIOUS
        <4> QED
          BY <1>1, <2>2, <4>1, <4>2
      <3>3. d2 = d
        BY <1>9, <1>10, <3>2
      <3> QED
        BY <3>1, <3>3
    <2> QED
      BY <2>1, <2>2
  <1> QED
    BY <1>1, <1>2, <1>4, <1>8, <1>10, <1>11 DEF Told

\* The walk is over, or is cut short.
LEMMA ToldOfEnd ==
  ASSUME QInv, NEW kind \in Kinds, NEW run \in Times, NEW cursor \in Nat, NEW size \in Nat,
         WalkIs(kind, run, cursor, size), ~(Len(clients) = size /\ cursor <= size),
         EndWalk([kind |-> kind, run |-> run, cursor |-> cursor, size |-> size]),
         UNCHANGED <<serverOpen, threads, entry, queue, upset, repeated>>,
         NEW p \in Programs, Fit(p)'
  PROVE  Told(p)'
  <1>1. PICK c, e, N : c = tclient[p] /\ e = <<>> /\ N = Len(announced)
    OBVIOUS
  <1>2. /\ sending = <<[kind |-> kind, run |-> run, cursor |-> cursor, size |-> size]>>
        /\ sending' = <<>> /\ chan' = chan /\ repeated' = repeated
        /\ tclient' = tclient /\ list' = list /\ queue' = queue /\ taken' = taken
        /\ serverOpen' = serverOpen /\ upset' = upset /\ mixed' = mixed
        /\ 1 <= cursor /\ size <= Len(clients)
    BY DEF WalkIs, EndWalk, entry
  <1>3. Fit(p) /\ c # 0 /\ serverOpen[c] /\ c \notin upset
    BY <1>1, <1>2 DEF Fit
  <1>4. Told(p)
    BY <1>3 DEF QInv, ToldOK
  <1>5. /\ c \in Conns /\ announced \in Seq(Times) /\ N \in Nat /\ base[c] \in 0..N
        /\ repeated \in BOOLEAN
    BY <1>1, <1>3, ToldFacts, LenProperties
  <1>6. clients \in Seq(Conns) /\ Distinct(clients) /\ Len(clients) \in Nat /\ c \notin marked
        /\ base \in [Conns -> Nat]
    BY <1>3, LenProperties DEF QInv, SInv, ServiceOK
  <1>7. DueOf(sending, clients, c) = e /\ DueOf(sending', clients', c) = e
    <2>1. /\ sending # <<>> /\ sending[1].cursor = cursor /\ sending[1].size = size
      BY <1>2
    <2>2. \A i \in cursor..size : clients[i] # c
      <3> SUFFICES ASSUME NEW i \in cursor..size, clients[i] = c
                   PROVE  FALSE
        OBVIOUS
      <3>1. size < Len(clients) /\ i \in 1..size
        BY <1>2, <1>6
      <3> QED
        BY <1>3, <3>1 DEF WalkIs
    <2> QED
      BY <1>1, <1>2, <2>1, <2>2 DEF DueOf
  <1>8. /\ LastOf(sending, announced) = IF kind = "DELETE" THEN N - 1 ELSE N
        /\ LastOf(sending', announced') = Len(announced')
    <2>1. sending # <<>> /\ sending[1].kind = kind
      BY <1>2
    <2> QED
      BY <1>1, <1>2, <2>1 DEF LastOf
  <1>9. PICK K, K2 : /\ K = KnownOf(c, base[c], sending, clients, announced)
                     /\ K2 = KnownOf(c, base'[c], sending', clients', announced')
    OBVIOUS
  <1>10. K2 = K /\ \A k \in K : announced'[k] = announced[k]
    <2>1. CASE Len(clients) # size
      <3>1. clients' = clients /\ announced' = announced /\ base' = base
        BY <2>1 DEF EndWalk
      <3>2. c \in Members(clients) => base[c] = N
        <4> SUFFICES ASSUME NEW i \in 1..Len(clients), clients[i] = c
                     PROVE  base[c] = N
          BY DEF Members
        <4>1. size < Len(clients)
          BY <1>2, <1>6, <2>1
        <4>2. size < i
          <5>1. i \notin 1..size
            BY <1>3, <4>1 DEF WalkIs
          <5> QED
            BY <1>6, <5>1
        <4> QED
          BY <1>1, <4>1, <4>2 DEF WalkIs
      <3>3. K = {} /\ K2 = {}
        <4>1. \A i : i \notin (N + 1)..N /\ i \notin (N + 1)..(N - 1)
          BY <1>5
        <4>2. c \notin Members(clients) => K = {} /\ K2 = {}
          BY <1>9, <3>1 DEF KnownOf
        <4>3. c \in Members(clients) => K = {} /\ K2 = {}
          BY <1>1, <1>8, <1>9, <3>1, <3>2, <4>1 DEF KnownOf
        <4> QED
          BY <4>2, <4>3
      <3> QED
        BY <3>1, <3>3
    <2>2. CASE Len(clients) = size
      <3>1. clients' = Without(clients, marked)
        BY <2>2 DEF EndWalk
      <3>2. c \in Members(clients') <=> c \in Members(clients)
        BY <1>6, <3>1, WithoutIs
      <3>3. CASE kind # "DELETE"
        <4>1. announced' = announced /\ base' = base
          BY <2>2, <3>3 DEF EndWalk
        <4> QED
          BY <1>1, <1>8, <1>9, <3>2, <3>3, <4>1 DEF KnownOf
      <3>4. CASE kind = "DELETE"
        <4>1. /\ announced' = Front(announced)
              /\ base' = [x \in Conns |-> IF base[x] < Len(announced) THEN base[x]
                                          ELSE Len(announced) - 1]
          BY <2>2, <3>4 DEF EndWalk
        <4>2. N \in Nat \ {0}
          <5>1. forgotten < N /\ forgotten \in Nat
            BY <1>1, <3>4 DEF WalkIs, QInv, SInv, IInv, LinesOK
          <5> QED
            BY <1>5, <5>1
        <4>3. Len(announced') = N - 1 /\ \A i \in 1..(N - 1) : announced'[i] = announced[i]
          BY <1>1, <1>5, <4>1, <4>2, FrontIs
        <4>4. PICK b, b2 : b = base[c] /\ b2 = base'[c]
          OBVIOUS
        <4>5. b \in 0..N /\ b2 = IF b < N THEN b ELSE N - 1
          BY <1>1, <1>5, <4>1, <4>4
        <4>6. /\ K = {i \in (b + 1)..(N - 1) : c \in Members(clients) /\ announced[i] >= 1}
              /\ K2 = {i \in (b2 + 1)..(N - 1) : c \in Members(clients) /\ announced'[i] >= 1}
          BY <1>8, <1>9, <3>2, <3>4, <4>3, <4>4 DEF KnownOf
        <4>7. \A i : i \in (b2 + 1)..(N - 1) <=> i \in (b + 1)..(N - 1)
          BY <4>2, <4>5
        <4>8. \A i \in (b + 1)..(N - 1) : announced'[i] = announced[i]
          BY <4>2, <4>3, <4>5
        <4> QED
          BY <4>6, <4>7, <4>8
      <3> QED
        BY <3>3, <3>4
    <2> QED
      BY <2>1, <2>2
  <1>11. PICK u : u = UpOf(list[p], queue[p], chan[c], e)
    OBVIOUS
  <1>12. ToldOf(u, taken[p], K, announced, repeated)
    BY <1>1, <1>4, <1>7, <1>9, <1>11 DEF Told
  <1>13. ToldOf(u, taken[p], K, announced', repeated)
    BY <1>5, <1>10, <1>12, ToldSame
  <1> QED
    BY <1>1, <1>2, <1>7, <1>9, <1>10, <1>11, <1>13 DEF Told

\* A connection becomes known, and a walk under way will be cut short.
LEMMA ToldOfAccept ==
  ASSUME QInv, Accept, NEW p \in Programs, Fit(p)'
  PROVE  Told(p)'
  <1>1. PICK c, e, N, h : c = tclient[p] /\ e = <<>> /\ N = Len(announced) /\ h = Head(arriving)
    OBVIOUS
  <1>2. /\ arriving # <<>> /\ clients' = Append(clients, h)
        /\ base' = [base EXCEPT ![h] = N]
        /\ upset' = (IF sending = <<>> THEN upset ELSE upset \cup ToSet(clients))
        /\ sending' = sending /\ announced' = announced /\ repeated' = repeated
        /\ tclient' = tclient /\ list' = list /\ queue' = queue /\ taken' = taken
        /\ serverOpen' = serverOpen /\ chan' = chan /\ mixed' = mixed
    BY <1>1 DEF Accept, timer, wire, entry
  <1>3. Fit(p) /\ c # 0 /\ c \notin upset'
    BY <1>1, <1>2 DEF Fit
  <1>4. Told(p)
    BY <1>3 DEF QInv, ToldOK
  <1>5. c \in Conns /\ announced \in Seq(Times) /\ N \in Nat
    BY <1>1, <1>3, ToldFacts, LenProperties
  <1>6. /\ clients \in Seq(Conns) /\ arriving \in Seq(Conns) /\ Distinct(arriving)
        /\ \A x \in Members(arriving) : x \notin Members(clients)
        /\ base \in [Conns -> Nat] /\ Len(clients) \in Nat
    BY LenProperties DEF QInv, SInv, ServiceOK
  <1>7. h \in Conns /\ h \notin Members(clients)
    BY <1>1, <1>2, <1>6, TailDistinct
  <1>8. /\ Members(clients') = Members(clients) \cup {h}
        /\ \A i \in 1..Len(clients) : clients'[i] = clients[i]
    BY <1>2, <1>6, <1>7, AppendDistinct, AppendProperties
  <1>9. sending # <<>> => c \notin Members(clients)
    BY <1>2, <1>3, <1>6, SetOfSeq
  <1>10. DueOf(sending, clients, c) = e /\ DueOf(sending, clients', c) = e
    <2>1. CASE sending = <<>>
      BY <1>1, <2>1 DEF DueOf
    <2>2. CASE sending # <<>>
      <3>1. PICK kind \in Kinds, run \in Times, cursor \in Nat, size \in Nat :
               WalkIs(kind, run, cursor, size)
        BY <2>2 DEF QInv, SInv, SendsOK
      <3>2. sending[1].cursor = cursor /\ sending[1].size = size
            /\ 1 <= cursor /\ size <= Len(clients)
        BY <3>1 DEF WalkIs
      <3>3. \A i \in cursor..size : clients[i] # c /\ clients'[i] # c
        <4> SUFFICES ASSUME NEW i \in cursor..size
                     PROVE  clients[i] # c /\ clients'[i] # c
          OBVIOUS
        <4>1. i \in 1..Len(clients)
          BY <1>6, <3>2
        <4> QED
          BY <1>8, <1>9, <2>2, <4>1 DEF Members
      <3> QED
        BY <1>1, <2>2, <3>2, <3>3 DEF DueOf
    <2> QED
      BY <2>1, <2>2
  <1>11. PICK K, K2 : /\ K = KnownOf(c, base[c], sending, clients, announced)
                      /\ K2 = KnownOf(c, base'[c], sending, clients', announced)
    OBVIOUS
  <1>12. K2 = K
    <2>1. CASE c = h
      <3>1. base'[c] = N
        BY <1>2, <1>5, <1>6, <2>1
      <3>2. LastOf(sending, announced) \in {N, N - 1}
        BY <1>1 DEF LastOf
      <3>3. \A i : i \notin (N + 1)..LastOf(sending, announced)
        BY <1>5, <3>2
      <3>4. K2 = {}
        BY <1>11, <3>1, <3>3 DEF KnownOf
      <3>5. K = {}
        BY <1>7, <1>11, <2>1 DEF KnownOf
      <3> QED
        BY <3>4, <3>5
    <2>2. CASE c # h
      <3>1. base'[c] = base[c] /\ (c \in Members(clients') <=> c \in Members(clients))
        BY <1>2, <1>5, <1>6, <1>8, <2>2
      <3> QED
        BY <1>11, <3>1 DEF KnownOf
    <2> QED
      BY <2>1, <2>2
  <1> QED
    BY <1>1, <1>2, <1>4, <1>10, <1>11, <1>12 DEF Told

\* A connection is lost, or a receiver thread goes on.
LEMMA ToldOfWire ==
  ASSUME QInv, NEW d \in Conns,
         ServerNotices(d) \/ Break(d) \/ Check(d) \/ Receive(d) \/ EndOfStream(d),
         NEW p \in Programs, Fit(p)'
  PROVE  Told(p)'
  <1>1. PICK c : c = tclient[p]
    OBVIOUS
  <1>2. /\ tclient' = tclient /\ list' = list /\ taken' = taken /\ mixed' = mixed
        /\ base' = base /\ sending' = sending /\ clients' = clients
        /\ announced' = announced /\ repeated' = repeated /\ upset' = upset
    BY DEF ServerNotices, Break, Check, Receive, EndOfStream, timer, service, entry, ghosts
  <1>3. /\ c # 0 /\ serverOpen'[c] /\ c \notin upset /\ p \notin mixed
        /\ OwnEvents(queue'[p], c)
    BY <1>1, <1>2 DEF Fit
  <1>4. c \in Conns /\ owner[c] = p
    BY <1>1, <1>3 DEF QInv, SInv, IInv, EntryOK, OwnOK
  <1>5. /\ serverOpen \in [Conns -> BOOLEAN] /\ chan \in [Conns -> Seq(Message)]
        /\ queue \in [Programs -> Seq(Event)]
        /\ recv[d] # "none" => owner[d] \in Programs
    BY DEF QInv, SInv, IInv, EntryOK, LinesOK, ThreadsOK, ServiceOK
  <1>6. CASE ServerNotices(d) \/ Break(d)
    <2>1. serverOpen' = [serverOpen EXCEPT ![d] = FALSE] /\ queue' = queue
      BY <1>6 DEF ServerNotices, Break
    <2>2. c # d /\ serverOpen[c]
      BY <1>3, <1>4, <1>5, <2>1
    <2>3. chan'[c] = chan[c]
      BY <1>4, <1>5, <1>6, <2>2 DEF ServerNotices, Break
    <2>4. Fit(p)
      BY <1>1, <1>3, <2>1, <2>2 DEF Fit
    <2> QED
      BY <1>1, <1>2, <2>1, <2>3, <2>4, ToldStill DEF QInv, ToldOK
  <1>7. CASE Check(d) \/ EndOfStream(d)
    <2>1. serverOpen' = serverOpen /\ chan' = chan /\ recv[d] # "none"
      BY <1>7 DEF Check, EndOfStream, wire
    <2>2. CASE queue'[p] = queue[p]
      <3>1. Fit(p)
        BY <1>1, <1>3, <2>1, <2>2 DEF Fit
      <3> QED
        BY <1>1, <1>2, <2>1, <2>2, <3>1, ToldStill DEF QInv, ToldOK
    <2>3. CASE queue'[p] # queue[p]
      <3>1. PICK ev : ev = [kind |-> "CLOSED", run |-> 0, conn |-> d]
        OBVIOUS
      <3>2. queue' = [queue EXCEPT ![owner[d]] = Append(@, ev)]
        BY <1>7, <2>3, <3>1 DEF Check, EndOfStream, EndReceiver, Post
      <3>3. owner[d] = p /\ queue'[p] = Append(queue[p], ev)
        BY <1>5, <2>3, <3>2
      <3>4. PICK q, q2, ch, due : /\ q = queue[p] /\ q2 = queue'[p] /\ ch = chan[c]
                                  /\ due = DueOf(sending, clients, c)
        OBVIOUS
      <3>5. q \in Seq(Event) /\ ev \in Event /\ ev \in Line /\ ev.kind = "CLOSED"
        BY <1>5, <3>1, <3>4 DEF Event, Line
      <3>6. \A i \in 1..Len(q) : i \in 1..Len(q2) /\ q2[i] = q[i]
        BY <3>3, <3>4, <3>5, LenProperties, AppendProperties
      <3>7. Fit(p)
        BY <1>1, <1>3, <2>1, <3>4, <3>6 DEF Fit, OwnEvents
      <3>8. list[p] \in Seq(Times) /\ q \in Seq(Line)
        BY <1>1, <1>3, <3>4, ToldFacts
      <3>9. UpOf(list[p], q2, ch, due) = UpOf(list[p], q, ch, due)
        <4>1. PICK x : x = After(list[p], q)
          OBVIOUS
        <4>2. x \in Seq(Times)
          BY <3>8, <4>1, AfterType
        <4>3. After(list[p], q2) = Listed(x, ev)
          BY <3>3, <3>4, <3>5, <3>8, <4>1, AfterAppend
        <4>4. Listed(x, ev) = x
          BY <3>5, <4>2, ListedFacts
        <4> QED
          BY <4>1, <4>3, <4>4 DEF UpOf
      <3>10. Told(p)
        BY <3>7 DEF QInv, ToldOK
      <3> QED
        BY <1>1, <1>2, <2>1, <3>4, <3>9, <3>10 DEF Told
    <2> QED
      BY <2>2, <2>3
  <1>8. CASE Receive(d)
    <2>1. PICK ev : ev = [kind |-> Head(chan[d]).kind, run |-> Head(chan[d]).run, conn |-> d]
      OBVIOUS
    <2>2. /\ recv[d] = "reads" /\ chan[d] # <<>> /\ serverOpen' = serverOpen
          /\ queue' = [queue EXCEPT ![owner[d]] = Append(@, ev)]
          /\ chan' = [chan EXCEPT ![d] = Tail(@)]
      BY <1>8, <2>1 DEF Receive, Post
    <2>3. CASE owner[d] # p
      <3>1. queue'[p] = queue[p] /\ c # d
        BY <1>4, <1>5, <2>2, <2>3
      <3>2. chan'[c] = chan[c]
        BY <1>4, <1>5, <2>2, <3>1
      <3>3. Fit(p)
        BY <1>1, <1>3, <2>2, <3>1 DEF Fit
      <3> QED
        BY <1>1, <1>2, <3>1, <3>2, <3>3, ToldStill DEF QInv, ToldOK
    <2>4. CASE owner[d] = p
      <3>1. queue'[p] = Append(queue[p], ev)
        BY <1>5, <2>2, <2>4
      <3>2. PICK q, q2 : q = queue[p] /\ q2 = queue'[p]
        OBVIOUS
      <3>3. Head(chan[d]) \in Message
        BY <1>5, <2>2, HeadTailProperties
      <3>4. q \in Seq(Event) /\ ev \in Event /\ ev \in Line /\ ev.kind # "CLOSED" /\ ev.conn = d
        BY <1>5, <2>1, <3>2, <3>3 DEF Event, Line, Message
      <3>5. /\ \A i \in 1..Len(q) : i \in 1..Len(q2) /\ q2[i] = q[i]
            /\ Len(q) + 1 \in 1..Len(q2) /\ q2[Len(q) + 1] = ev
        BY <3>1, <3>2, <3>4, LenProperties, AppendProperties
      <3>6. d = c
        BY <1>3, <3>2, <3>4, <3>5 DEF OwnEvents
      <3>7. Fit(p)
        BY <1>1, <1>3, <2>2, <3>2, <3>5 DEF Fit, OwnEvents
      <3>8. PICK ch, ch2, due : /\ ch = chan[c] /\ ch2 = chan'[c]
                                /\ due = DueOf(sending, clients, c)
        OBVIOUS
      <3>9. list[p] \in Seq(Times) /\ q \in Seq(Line) /\ ch \in Seq(Line)
        BY <1>1, <1>3, <3>2, <3>7, <3>8, ToldFacts
      <3>10. ch # <<>> /\ ch2 = Tail(ch) /\ ev.kind = Head(ch).kind /\ ev.run = Head(ch).run
             /\ q2 = Append(q, ev)
        BY <1>4, <1>5, <2>1, <2>2, <3>1, <3>2, <3>6, <3>8
      <3>11. UpOf(list[p], q2, ch2, due) = UpOf(list[p], q, ch, due)
        <4>1. PICK x : x = After(list[p], q)
          OBVIOUS
        <4>2. x \in Seq(Times)
          BY <3>9, <4>1, AfterType
        <4>3. After(list[p], q2) = Listed(x, ev)
          BY <3>4, <3>9, <3>10, <4>1, AfterAppend
        <4>4. Listed(x, ev) = Listed(x, Head(ch))
          BY <3>10 DEF Listed
        <4>5. After(x, ch) = After(Listed(x, Head(ch)), ch2)
          BY <3>9, <3>10, <4>2, AfterHead
        <4> QED
          BY <4>1, <4>3, <4>4, <4>5 DEF UpOf
      <3>12. Told(p)
        BY <3>7 DEF QInv, ToldOK
      <3> QED
        BY <1>1, <1>2, <3>2, <3>8, <3>11, <3>12 DEF Told
    <2> QED
      BY <2>3, <2>4
  <1> QED
    BY <1>6, <1>7, <1>8

\* An event is handled: what is not for p's connection is news of another one.
LEMMA ToldOfDeliver ==
  ASSUME QInv, NEW p \in Programs, Deliver(p), Fit(p)'
  PROVE  Told(p)'
  <1>1. PICK c, ev, q, q2 : /\ c = tclient[p] /\ ev = Head(queue[p])
                            /\ q = queue[p] /\ q2 = queue'[p]
    OBVIOUS
  <1>2. /\ tclient' = tclient /\ taken' = taken /\ chan' = chan /\ serverOpen' = serverOpen
        /\ base' = base /\ sending' = sending /\ clients' = clients
        /\ announced' = announced /\ repeated' = repeated /\ upset' = upset
        /\ q # <<>> /\ queue' = [queue EXCEPT ![p] = Tail(@)]
        /\ list' = (IF listening[p] THEN [list EXCEPT ![p] = Listed(@, ev)] ELSE list)
        /\ mixed' = (IF ev.kind # "CLOSED" /\ ev.conn # tclient[p] THEN mixed \cup {p} ELSE mixed)
    BY <1>1 DEF Deliver, timer, service, wire, ghosts
  <1>3. /\ c # 0 /\ serverOpen[c] /\ c \notin upset /\ p \notin mixed'
        /\ OwnEvents(q2, c)
    BY <1>1, <1>2 DEF Fit
  <1>4. /\ queue \in [Programs -> Seq(Event)] /\ list \in [Programs -> Seq(Times)]
        /\ listening[p]
    BY <1>1, <1>3 DEF QInv, SInv, IInv, EntryOK, AppsOK
  <1>5. q \in Seq(Event) /\ q2 = Tail(q) /\ ev = Head(q)
    BY <1>1, <1>2, <1>4
  <1>6. p \notin mixed /\ (ev.kind = "CLOSED" \/ ev.conn = c)
    BY <1>1, <1>2, <1>3
  <1>7. /\ Len(q) \in Nat \ {0} /\ Len(q2) = Len(q) - 1 /\ q[1] = ev
        /\ \A i \in 1..Len(q2) : q2[i] = q[i + 1]
    BY <1>2, <1>5, HeadTailProperties, EmptySeq, LenProperties
  <1>8. OwnEvents(q, c)
    <2> SUFFICES ASSUME NEW i \in 1..Len(q)
                 PROVE  q[i].conn = c \/ q[i].kind = "CLOSED"
      BY DEF OwnEvents
    <2>1. CASE i = 1
      BY <1>6, <1>7, <2>1
    <2>2. CASE i # 1
      <3>1. i - 1 \in 1..Len(q2) /\ (i - 1) + 1 = i
        BY <1>7, <2>2
      <3>2. q2[i - 1] = q[i]
        BY <1>7, <3>1
      <3> QED
        BY <1>3, <3>1, <3>2 DEF OwnEvents
    <2> QED
      BY <2>1, <2>2
  <1>9. Fit(p)
    BY <1>1, <1>3, <1>6, <1>8 DEF Fit
  <1>10. list[p] \in Seq(Times) /\ q \in Seq(Line)
    BY <1>1, <1>3, ToldFacts
  <1>11. list'[p] = Listed(list[p], ev)
    BY <1>2, <1>4
  <1>12. After(list'[p], q2) = After(list[p], q)
    BY <1>2, <1>5, <1>10, <1>11, AfterHead
  <1>13. Told(p)
    BY <1>9 DEF QInv, ToldOK
  <1> QED
    BY <1>1, <1>2, <1>12, <1>13 DEF Told, UpOf

LEMMA ToldOfTake ==
  ASSUME QInv, NEW p \in Programs, Take(p), Fit(p)'
  PROVE  Told(p)'
  <1>1. PICK i \in DOMAIN list[p] :
           /\ list' = [list EXCEPT ![p] = RemoveAt(@, i)]
           /\ taken' = [taken EXCEPT ![p] = Append(@, list[p][i])]
           /\ UNCHANGED <<timer, service, wire, threads, tclient, listening, shown, mixed, queue, ghosts>>
    BY DEF Take
  <1>2. PICK c : c = tclient[p]
    OBVIOUS
  <1>3. /\ tclient' = tclient /\ chan' = chan /\ serverOpen' = serverOpen /\ queue' = queue
        /\ base' = base /\ sending' = sending /\ clients' = clients /\ mixed' = mixed
        /\ announced' = announced /\ repeated' = repeated /\ upset' = upset
    BY <1>1 DEF timer, service, wire, ghosts
  <1>4. Fit(p) /\ c # 0
    BY <1>2, <1>3 DEF Fit
  <1>5. Told(p)
    BY <1>4 DEF QInv, ToldOK
  <1>6. PICK l, s, q, ch, d, tk, tk2, K :
           /\ l = list[p] /\ s = list'[p] /\ q = queue[p] /\ ch = chan[c]
           /\ d = DueOf(sending, clients, c) /\ tk = taken[p] /\ tk2 = taken'[p]
           /\ K = KnownOf(c, base[c], sending, clients, announced)
    OBVIOUS
  <1>7. /\ l \in Seq(Times) /\ q \in Seq(Line) /\ ch \in Seq(Line) /\ d \in Seq(Line)
        /\ tk \in Seq(Times) /\ IsFiniteSet(K)
    BY <1>2, <1>4, <1>6, ToldFacts
  <1>8. s = RemoveAt(l, i) /\ tk2 = Append(tk, l[i])
    BY <1>1, <1>6 DEF QInv, SInv, AppsOK
  <1>9. i \in 1..Len(l)
    BY <1>6, <1>7, LenProperties
  <1>10. s \in Seq(Times) /\ Taken(s, l, i)
    BY <1>7, <1>8, <1>9, RemoveAtIs
  <1>11. ToldOf(UpOf(l, q, ch, d), tk, K, announced, repeated)
    BY <1>2, <1>5, <1>6 DEF Told
  <1>12. ToldOf(UpOf(s, q, ch, d), tk2, K, announced, repeated)
    BY ONLY <1>7, <1>8, <1>10, <1>11, ToldTake
  <1> QED
    BY <1>2, <1>3, <1>6, <1>12 DEF Told

\* A program begins with an empty list and a connection that nobody knows.
LEMMA ToldOfSwitchOn ==
  ASSUME QInv, NEW r \in Programs, SwitchOn(r), NEW p \in Programs, Fit(p)'
  PROVE  Told(p)'
  <1>1. PICK c \in Conns :
           /\ owner[c] = 0
           /\ serverOpen' = [serverOpen EXCEPT ![c] = TRUE]
           /\ tclient' = [tclient EXCEPT ![r] = c]
           /\ list' = [list EXCEPT ![r] = <<>>]
           /\ taken' = [taken EXCEPT ![r] = <<>>] /\ mixed' = mixed \ {r}
           /\ UNCHANGED <<timer, clients, marked, chan, queue, ghosts>>
    BY DEF SwitchOn
  <1>2. /\ chan' = chan /\ queue' = queue /\ base' = base /\ sending' = sending
        /\ clients' = clients /\ announced' = announced /\ repeated' = repeated /\ upset' = upset
    BY <1>1 DEF timer, ghosts
  <1>3. /\ tclient \in [Programs -> Conns \cup {0}] /\ list \in [Programs -> Seq(Times)]
        /\ taken \in [Programs -> Seq(Times)] /\ serverOpen \in [Conns -> BOOLEAN]
        /\ queue \in [Programs -> Seq(Event)]
    BY DEF QInv, SInv, IInv, EntryOK, AppsOK, ServiceOK
  <1>4. CASE p # r
    <2>1. tclient'[p] = tclient[p] /\ list'[p] = list[p] /\ taken'[p] = taken[p]
          /\ (p \in mixed => p \in mixed')
      BY <1>1, <1>3, <1>4
    <2>2. tclient[p] # 0
      BY <2>1 DEF Fit
    <2>3. tclient[p] # c /\ tclient[p] \in Conns
      BY <1>1, <1>3, <2>2, NetworkAssumption DEF QInv, SInv, IInv, OwnOK
    <2>4. serverOpen'[tclient[p]] = serverOpen[tclient[p]]
      BY <1>1, <1>3, <2>3
    <2>5. Fit(p)
      BY <1>2, <2>1, <2>4 DEF Fit
    <2> QED
      BY <1>2, <2>1, <2>5, ToldStill DEF QInv, ToldOK
  <1>5. CASE p = r
    <2>1. PICK e, q : e = <<>> /\ q = queue[p]
      OBVIOUS
    <2>2. tclient'[p] = c /\ list'[p] = e /\ taken'[p] = e /\ queue'[p] = q /\ chan'[c] = chan[c]
      BY <1>1, <1>2, <1>3, <1>5, <2>1
    <2>3. chan[c] = e /\ \A i \in 1..Len(q) : q[i].conn # c
      BY <1>1, <2>1 DEF QInv, SInv, UnusedOK
    <2>4. OwnEvents(q, c)
      BY <2>2 DEF Fit
    <2>5. \A i \in 1..Len(q) : q[i].kind = "CLOSED"
      BY <2>3, <2>4 DEF OwnEvents
    <2>6. e \in Seq(Times) /\ q \in Seq(Line)
      BY <1>3, <2>1, LineSeqs, EmptySeq
    <2>7. After(e, q) = e /\ After(e, e) = e
      BY <2>1, <2>5, <2>6, OnlyNews, AfterNothing
    <2>8. c \notin Members(clients) /\ Len(clients) \in Nat
      BY <1>1, LenProperties DEF QInv, SInv, ServiceOK
    <2>9. DueOf(sending, clients, c) = e
      <3>1. CASE sending = <<>>
        BY <2>1, <3>1 DEF DueOf
      <3>2. CASE sending # <<>>
        <4>1. PICK kind \in Kinds, run \in Times, cursor \in Nat, size \in Nat :
                 WalkIs(kind, run, cursor, size)
          BY <3>2 DEF QInv, SInv, SendsOK
        <4>2. sending[1].cursor = cursor /\ sending[1].size = size
              /\ 1 <= cursor /\ size <= Len(clients)
          BY <4>1 DEF WalkIs
        <4>3. \A i \in cursor..size : i \in 1..Len(clients)
          BY <2>8, <4>2
        <4>4. \A i \in cursor..size : clients[i] # c
          BY <2>8, <4>3 DEF Members
        <4> QED
          BY <2>1, <3>2, <4>2, <4>4 DEF DueOf
      <3> QED
        BY <3>1, <3>2
    <2>10. PICK K : K = KnownOf(c, base[c], sending, clients, announced)
      OBVIOUS
    <2>11. K = {}
      BY <2>8, <2>10 DEF KnownOf
    <2>12. UpOf(e, q, e, e) = e
      BY <2>7 DEF UpOf
    <2>13. ToldOf(UpOf(e, q, e, e), e, K, announced, repeated)
      BY <2>1, <2>6, <2>11, <2>12, ToldNothing
    <2> QED
      BY <1>2, <2>2, <2>3, <2>9, <2>10, <2>13 DEF Told
  <1> QED
    BY <1>4, <1>5

\* What another program does, or what changes no more than labels.
LEMMA ToldOfOthers ==
  ASSUME QInv, NEW r \in Programs, NEW p \in Programs, Fit(p)',
         \/ (Deliver(r) \/ Take(r)) /\ r # p
         \/ SwitchOff(r) \/ CancelSwitch(r)
  PROVE  Told(p)'
  <1>1. /\ chan' = chan /\ serverOpen' = serverOpen /\ base' = base
        /\ sending' = sending /\ clients' = clients
        /\ announced' = announced /\ repeated' = repeated /\ upset' = upset
    BY DEF Deliver, Take, SwitchOff, CancelSwitch, timer, service, wire, ghosts
  <1>2. /\ tclient \in [Programs -> Conns \cup {0}] /\ list \in [Programs -> Seq(Times)]
        /\ taken \in [Programs -> Seq(Times)] /\ queue \in [Programs -> Seq(Event)]
    BY DEF QInv, SInv, IInv, EntryOK, AppsOK
  <1>3. /\ tclient'[p] = tclient[p] /\ list'[p] = list[p] /\ taken'[p] = taken[p]
        /\ queue'[p] = queue[p] /\ (p \in mixed => p \in mixed')
    <2>1. CASE Deliver(r) /\ r # p
      BY <1>2, <2>1 DEF Deliver
    <2>2. CASE Take(r) /\ r # p
      BY <1>2, <2>2 DEF Take
    <2>3. CASE SwitchOff(r)
      <3>1. tclient'[p] # 0
        BY DEF Fit
      <3> QED
        BY <1>2, <2>3, <3>1 DEF SwitchOff
    <2>4. CASE CancelSwitch(r)
      BY <2>4 DEF CancelSwitch
    <2> QED
      BY <2>1, <2>2, <2>3, <2>4
  <1>4. Fit(p)
    BY <1>1, <1>3 DEF Fit
  <1> QED
    BY <1>1, <1>3, <1>4, ToldStill DEF QInv, ToldOK

LEMMA StepTold ==
  ASSUME QInv, [Next]_vars
  PROVE  ToldOK'
  <1> SUFFICES ASSUME NEW p \in Programs, Fit(p)'
               PROVE  Told(p)'
    BY DEF ToldOK
  <1>1. ASSUME NEW run \in Times, Finish(run)
        PROVE  Told(p)'
    BY <1>1, ToldOfFinish
  <1>2. CASE DeleteFinish
    BY <1>2, ToldOfDelete
  <1>3. CASE Reset \/ UNCHANGED vars
    <2>1. /\ tclient' = tclient /\ list' = list /\ taken' = taken /\ mixed' = mixed
          /\ base' = base /\ sending' = sending /\ clients' = clients /\ queue' = queue
          /\ chan' = chan /\ serverOpen' = serverOpen
          /\ announced' = announced /\ repeated' = repeated /\ upset' = upset
      BY <1>3 DEF Reset, vars, timer, service, wire, entry, ghosts
    <2>2. Fit(p)
      BY <2>1 DEF Fit
    <2> QED
      BY <2>1, <2>2, ToldStill DEF QInv, ToldOK
  <1>4. CASE WalkOn
    <2>1. PICK kind \in Kinds, run \in Times, cursor \in Nat, size \in Nat :
             /\ WalkIs(kind, run, cursor, size)
             /\ \/ /\ Len(clients) = size /\ cursor <= size
                   /\ Send([kind |-> kind, run |-> run, cursor |-> cursor, size |-> size], clients[cursor])
                \/ /\ ~(Len(clients) = size /\ cursor <= size)
                   /\ EndWalk([kind |-> kind, run |-> run, cursor |-> cursor, size |-> size])
      BY <1>4, WalkOnIs DEF QInv
    <2>2. UNCHANGED <<serverOpen, threads, entry, queue, upset, repeated>>
      BY <1>4 DEF WalkOn
    <2> QED
      BY <2>1, <2>2, ToldOfSend, ToldOfEnd
  <1>5. CASE Accept
    BY <1>5, ToldOfAccept
  <1>6. ASSUME NEW d \in Conns,
               ServerNotices(d) \/ Break(d) \/ Check(d) \/ Receive(d) \/ EndOfStream(d)
        PROVE  Told(p)'
    BY <1>6, ToldOfWire
  <1>7. ASSUME NEW r \in Programs, Deliver(r) \/ Take(r)
        PROVE  Told(p)'
    BY <1>7, ToldOfDeliver, ToldOfTake, ToldOfOthers
  <1>8. ASSUME NEW r \in Programs, SwitchOn(r)
        PROVE  Told(p)'
    BY <1>8, ToldOfSwitchOn
  <1>9. ASSUME NEW r \in Programs, SwitchOff(r) \/ CancelSwitch(r)
        PROVE  Told(p)'
    BY <1>9, ToldOfOthers
  <1> QED
    BY <1>1, <1>2, <1>3, <1>4, <1>5, <1>6, <1>7, <1>8, <1>9 DEF Next, Threads, Users

LEMMA InitQ == Init => QInv
  <1> SUFFICES ASSUME Init PROVE QInv
    OBVIOUS
  <1>1. SInv
    BY InitS
  <1>2. BaseOK
    <2>1. Len(announced) = 0 /\ base = [c \in Conns |-> 0]
      BY EmptySeq DEF Init
    <2> QED
      BY <2>1 DEF BaseOK
  <1>3. ToldOK
    <2>1. tclient = [p \in Programs |-> 0]
      BY DEF Init
    <2>2. \A p \in Programs : ~Fit(p)
      BY <2>1 DEF Fit
    <2> QED
      BY <2>2 DEF ToldOK
  <1> QED
    BY <1>1, <1>2, <1>3 DEF QInv

LEMMA StepQ == QInv /\ [Next]_vars => QInv'
  <1> SUFFICES ASSUME QInv, [Next]_vars PROVE QInv'
    OBVIOUS
  <1>1. SInv'
    BY StepS DEF QInv
  <1>2. BaseOK'
    BY StepBase DEF QInv
  <1>3. ToldOK'
    BY StepTold
  <1> QED
    BY <1>1, <1>2, <1>3 DEF QInv

\* The promises are about programs whose connections are fit.
LEMMA SteadyTold ==
  ASSUME QInv, NEW p \in Programs, Steady(p)
  PROVE  /\ ToldOf(Upcoming(p), taken[p], Known(tclient[p]), announced, repeated)
         /\ Upcoming(p) \in Seq(Times)
  <1>1. PICK c : c = tclient[p]
    OBVIOUS
  <1>2. /\ c # 0 /\ serverOpen[c] /\ c \notin upset /\ p \notin mixed
        /\ \A i \in DOMAIN queue[p] : queue[p][i].conn = c \/ queue[p][i].kind = "CLOSED"
    BY <1>1 DEF Steady, Connected, Alone
  <1>3. queue[p] \in Seq(Event)
    BY DEF QInv, SInv, IInv, EntryOK
  <1>4. Fit(p)
    BY <1>1, <1>2, <1>3, LenProperties DEF Fit, OwnEvents
  <1>5. Told(p)
    BY <1>4 DEF QInv, ToldOK
  <1>6. Due(c) = DueOf(sending, clients, c)
    BY DEF Due, DueOf
  <1>7. Upcoming(p) = UpOf(list[p], queue[p], chan[c], DueOf(sending, clients, c))
    BY <1>1, <1>6 DEF Upcoming, UpOf
  <1>8. Known(c) = KnownOf(c, base[c], sending, clients, announced)
    <2>1. ToSet(clients) = Members(clients)
      BY SetOfSeq DEF QInv, SInv, ServiceOK
    <2> QED
      BY <2>1 DEF Known, KnownOf, LastOf
  <1>9. Upcoming(p) \in Seq(Times)
    <2>1. PICK l, q, ch, d :
             l = list[p] /\ q = queue[p] /\ ch = chan[c] /\ d = DueOf(sending, clients, c)
      OBVIOUS
    <2>2. l \in Seq(Times) /\ q \in Seq(Line) /\ ch \in Seq(Line) /\ d \in Seq(Line)
      BY <1>1, <1>2, <2>1, ToldFacts
    <2>3. UpOf(l, q, ch, d) \in Seq(Times)
      BY ONLY <2>2, UpType
    <2> QED
      BY <1>7, <2>1, <2>3
  <1> QED
    BY <1>1, <1>5, <1>7, <1>8, <1>9 DEF Told

LEMMA KnownCountIs ==
  ASSUME NEW c, NEW t
  PROVE  KnownCount(c, t) = Cardinality(InK(Known(c), announced, t))
  BY DEF KnownCount, InK

\* A time that waits in data entry, or is on its way there, was announced since
\* the connection was accepted and was not taken back.
THEOREM NoStaleTimes == Spec => []NothingStale
  <1>1. QInv => NothingStale
    <2> SUFFICES ASSUME QInv, NEW p \in Programs, Steady(p), NEW t \in Times
                 PROVE  Count(Upcoming(p), t) <= KnownCount(tclient[p], t)
      BY DEF NothingStale
    <2> QED
      BY SteadyTold, KnownCountIs DEF ToldOf
  <1> QED
    BY <1>1, InitQ, StepQ, PTL DEF Spec

\* Every run announced since then waits, is on its way, or was taken.
THEOREM NoTimeMissed == Spec => []NothingMissed
  <1>1. QInv => NothingMissed
    <2> SUFFICES ASSUME QInv, NEW p \in Programs, Steady(p), NEW t \in Times
                 PROVE  Count(Upcoming(p), t) + Count(taken[p], t) >= KnownCount(tclient[p], t)
      BY DEF NothingMissed
    <2> QED
      BY SteadyTold, KnownCountIs DEF ToldOf
  <1> QED
    BY <1>1, InitQ, StepQ, PTL DEF Spec

\* While no two runs have had the same time, the times wait in the order of
\* the runs, whatever the operator takes and the timer takes back.
THEOREM TimesInOrder == Spec => []InOrder
  <1>1. QInv => InOrder
    <2> SUFFICES ASSUME QInv, NEW p \in Programs, Steady(p), ~repeated,
                        NEW i \in DOMAIN Upcoming(p), NEW j \in DOMAIN Upcoming(p), i < j
                 PROVE  \E k, l \in Known(tclient[p]) :
                           announced[k] = Upcoming(p)[i] /\ announced[l] = Upcoming(p)[j] /\ k < l
      BY DEF InOrder
    <2>1. InOrderOf(Upcoming(p), Known(tclient[p]), announced)
      BY SteadyTold DEF ToldOf
    <2>2. DOMAIN Upcoming(p) = 1..Len(Upcoming(p))
      BY SteadyTold, LenProperties
    <2> QED
      BY <2>1, <2>2 DEF InOrderOf
  <1> QED
    BY <1>1, InitQ, StepQ, PTL DEF Spec
=============================================================================
