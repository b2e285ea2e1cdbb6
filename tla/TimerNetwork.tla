---------------------------- MODULE TimerNetwork ----------------------------
(***************************************************************************)
(* A BWTimer serves its finished runs to data entry programs.  The timer's *)
(* user interface thread walks over the clients while an accept thread adds*)
(* to them; every program has a receiver thread per connection that posts  *)
(* what it reads to the queue of the program's user interface thread, which*)
(* keeps the list of waiting times.  Runs are equal when their times are.  *)
(***************************************************************************)
EXTENDS Integers, SequencesExt

CONSTANTS
    Programs,   \* data entry programs
    Times,      \* times of runs; lists drop what is below 1
    MaxConns,   \* bound on connections
    MaxSends    \* bound on messages the timer sends

ASSUME NetworkAssumption == /\ Times \subseteq Nat
                            /\ MaxConns \in Nat /\ MaxSends \in Nat
                            /\ 0 \notin Programs

Conns == 1..MaxConns
Message == [kind : {"RUN", "DELETE"}, run : Times]
Event == [kind : {"RUN", "DELETE", "CLOSED"}, run : Times \cup {0}, conn : Conns]

VARIABLES
    announced,  \* runs sent and not taken back, those of before a reset included
    forgotten,  \* how many of them the timer has forgotten
    sends,      \* messages sent so far
    sending,    \* <<>>, or the walk over the clients under way
    clients,    \* connections the service knows
    marked,     \* those whose send failed
    arriving,   \* connections not yet accepted
    serverOpen, \* serverOpen[c]: the service can write to c
    chan,       \* chan[c]: lines written to c and not read
    owner,      \* owner[c]: the program that opened c, 0 if none did
    recv,       \* recv[c]: where its receiver thread is
    done,       \* done[c]: the program has told it to stop
    tclient,    \* tclient[p]: the connection p uses, 0 when off
    listening,  \* listening[p]: p's list is registered for timer events
    list,       \* list[p]: times that wait in p
    queue,      \* queue[p]: events posted to p's user interface thread
    shown,      \* shown[p]: what p says of its connection
    base,       \* base[c]: runs announced before c was accepted
    taken,      \* taken[p]: times the operator has taken from the list
    repeated,   \* two announced times have been equal
    upset,      \* clients that were known when a walk was cut short
    mixed       \* programs whose list has heard of a connection they gave up

timer == <<announced, forgotten, sends, sending>>
service == <<clients, marked, arriving>>
wire == <<serverOpen, chan>>
threads == <<owner, recv, done>>
entry == <<tclient, listening, list, shown, taken, mixed>>
ghosts == <<base, upset, repeated>>
vars == <<timer, service, wire, threads, entry, queue, ghosts>>

Init ==
    /\ announced = <<>> /\ forgotten = 0 /\ sends = 0 /\ sending = <<>>
    /\ clients = <<>> /\ marked = {} /\ arriving = <<>>
    /\ serverOpen = [c \in Conns |-> FALSE] /\ chan = [c \in Conns |-> <<>>]
    /\ owner = [c \in Conns |-> 0]
    /\ recv = [c \in Conns |-> "none"] /\ done = [c \in Conns |-> TRUE]
    /\ tclient = [p \in Programs |-> 0]
    /\ listening = [p \in Programs |-> FALSE]
    /\ list = [p \in Programs |-> <<>>] /\ queue = [p \in Programs |-> <<>>]
    /\ shown = [p \in Programs |-> "Not Connected"]
    /\ base = [c \in Conns |-> 0] /\ upset = {} /\ repeated = FALSE
    /\ taken = [p \in Programs |-> <<>>] /\ mixed = {}

-----------------------------------------------------------------------------
(* The timer and its service. *)

\* Mutant: the first client is passed over.
WalkFromSecond(kind, run) ==
    <<[kind |-> kind, run |-> run, cursor |-> 2, size |-> Len(clients)]>>

Walk(kind, run) == <<[kind |-> kind, run |-> run, cursor |-> 1, size |-> Len(clients)]>>

\* doFinish
Finish(run) ==
    /\ sending = <<>> /\ sends < MaxSends
    /\ announced' = Append(announced, run)
    /\ sending' = Walk("RUN", run)
    /\ sends' = sends + 1
    /\ repeated' = (repeated \/ run \in ToSet(announced))
    /\ UNCHANGED <<forgotten, service, wire, threads, entry, queue, base, upset>>

\* Mutant: runs of before the reset can be deleted.
DeleteFinishForgotten ==
    /\ sending = <<>> /\ sends < MaxSends
    /\ announced # <<>>
    /\ sending' = Walk("DELETE", Last(announced))
    /\ sends' = sends + 1
    /\ UNCHANGED <<announced, forgotten, service, wire, threads, entry, queue, ghosts>>

\* deleteFinish: the timer drops the run after the walk.
DeleteFinish ==
    /\ sending = <<>> /\ sends < MaxSends
    /\ Len(announced) > forgotten
    /\ sending' = Walk("DELETE", Last(announced))
    /\ sends' = sends + 1
    /\ UNCHANGED <<announced, forgotten, service, wire, threads, entry, queue, ghosts>>

\* reset: clients are not told.
Reset ==
    /\ sending = <<>>
    /\ forgotten' = Len(announced)
    /\ UNCHANGED <<announced, sends, sending, service, wire, threads, entry, queue, ghosts>>

\* TimerClient.send
Send(walk, c) ==
    /\ IF serverOpen[c]
       THEN /\ chan' = [chan EXCEPT ![c] = Append(@, [kind |-> walk.kind, run |-> walk.run])]
            /\ UNCHANGED marked
       ELSE marked' = marked \cup {c} /\ UNCHANGED chan
    /\ sending' = <<[walk EXCEPT !.cursor = @ + 1]>>
    /\ UNCHANGED <<clients, announced, base>>

\* clients.removeAll(marked)
Without(conns, gone) ==
    LET rest[n \in 0..Len(conns)] ==
          IF n = 0 THEN <<>>
          ELSE IF conns[n] \in gone THEN rest[n - 1] ELSE Append(rest[n - 1], conns[n])
    IN  rest[Len(conns)]

\* The end of the walk.  A list that grew meanwhile makes the iterator throw.
EndWalk(walk) ==
    /\ sending' = <<>>
    /\ UNCHANGED chan
    /\ IF Len(clients) # walk.size
       THEN UNCHANGED <<clients, marked, announced, base>>
       ELSE /\ clients' = Without(clients, marked)
            /\ marked' = {}
            /\ IF walk.kind = "DELETE"
               THEN /\ announced' = Front(announced)
                    /\ base' = [c \in Conns |-> IF base[c] < Len(announced) THEN base[c]
                                                ELSE Len(announced) - 1]
               ELSE UNCHANGED <<announced, base>>

\* sendRun, deleteRun
WalkOn ==
    /\ sending # <<>>
    /\ LET walk == sending[1]
       IN  IF Len(clients) = walk.size /\ walk.cursor <= walk.size
           THEN Send(walk, clients[walk.cursor])
           ELSE EndWalk(walk)
    /\ UNCHANGED <<forgotten, sends, arriving, serverOpen, threads, entry, queue, upset, repeated>>

\* ServiceThread: accept and clients.add
Accept ==
    /\ arriving # <<>>
    /\ clients' = Append(clients, Head(arriving))
    /\ arriving' = Tail(arriving)
    /\ base' = [base EXCEPT ![Head(arriving)] = Len(announced)]
    /\ upset' = IF sending = <<>> THEN upset ELSE upset \cup ToSet(clients)
    /\ UNCHANGED <<timer, marked, wire, threads, entry, queue, repeated>>

\* The service's own receiver thread sees that the program closed the socket.
ServerNotices(c) ==
    /\ recv[c] = "ended" /\ serverOpen[c]
    /\ serverOpen' = [serverOpen EXCEPT ![c] = FALSE]
    /\ UNCHANGED <<timer, service, chan, threads, entry, queue, ghosts>>

\* The connection is lost, and with it the end of what was written.
Break(c) ==
    /\ serverOpen[c]
    /\ serverOpen' = [serverOpen EXCEPT ![c] = FALSE]
    /\ \E kept \in 0..Len(chan[c]) : chan' = [chan EXCEPT ![c] = SubSeq(@, 1, kept)]
    /\ UNCHANGED <<timer, service, threads, entry, queue, ghosts>>

-----------------------------------------------------------------------------
(* The receiver thread of connection c. *)

Post(c, kind, run) ==
    queue' = [queue EXCEPT ![owner[c]] = Append(@, [kind |-> kind, run |-> run, conn |-> c])]

\* Mutant: no TIMER_SERVICE_CONNECTION when the thread ends.
EndReceiverSilently(c) ==
    /\ recv' = [recv EXCEPT ![c] = "ended"]
    /\ UNCHANGED queue

EndReceiver(c) ==
    /\ recv' = [recv EXCEPT ![c] = "ended"]
    /\ Post(c, "CLOSED", 0)

\* while (!done)
Check(c) ==
    /\ recv[c] = "checks"
    /\ IF done[c] THEN EndReceiver(c)
       ELSE recv' = [recv EXCEPT ![c] = "reads"] /\ UNCHANGED queue
    /\ UNCHANGED <<timer, service, wire, owner, done, entry, ghosts>>

\* readLine returns a line, whatever done has become.
Receive(c) ==
    /\ recv[c] = "reads" /\ chan[c] # <<>>
    /\ Post(c, Head(chan[c]).kind, Head(chan[c]).run)
    /\ chan' = [chan EXCEPT ![c] = Tail(@)]
    /\ recv' = [recv EXCEPT ![c] = "checks"]
    /\ UNCHANGED <<timer, service, serverOpen, owner, done, entry, ghosts>>

\* readLine returns null or throws.
EndOfStream(c) ==
    /\ recv[c] = "reads" /\ chan[c] = <<>> /\ ~serverOpen[c]
    /\ EndReceiver(c)
    /\ UNCHANGED <<timer, service, wire, owner, done, entry, ghosts>>

-----------------------------------------------------------------------------
(* The user interface thread of program p. *)

Stopped(p) == IF tclient[p] = 0 THEN done ELSE [done EXCEPT ![tclient[p]] = TRUE]

\* switchTimerMode(BWTIMER_NETWORK)
SwitchOn(p) ==
    \E c \in Conns :
       /\ owner[c] = 0 /\ \A d \in 1..(c - 1) : owner[d] # 0
       /\ owner' = [owner EXCEPT ![c] = p]
       /\ done' = [Stopped(p) EXCEPT ![c] = FALSE]
       /\ recv' = [recv EXCEPT ![c] = "checks"]
       /\ serverOpen' = [serverOpen EXCEPT ![c] = TRUE]
       /\ arriving' = Append(arriving, c)
       /\ tclient' = [tclient EXCEPT ![p] = c]
       /\ listening' = [listening EXCEPT ![p] = TRUE]
       /\ list' = [list EXCEPT ![p] = <<>>]
       /\ taken' = [taken EXCEPT ![p] = <<>>] /\ mixed' = mixed \ {p}
       /\ shown' = [shown EXCEPT ![p] = "Connected"]
       /\ UNCHANGED <<timer, clients, marked, chan, queue, ghosts>>

\* switchTimerMode(OFF), or the new connection is refused: the list stays on
\* display and hears nothing more.
SwitchOff(p) ==
    /\ done' = Stopped(p)
    /\ tclient' = [tclient EXCEPT ![p] = 0]
    /\ listening' = [listening EXCEPT ![p] = FALSE]
    /\ shown' = [shown EXCEPT ![p] = "Not Connected"]
    /\ UNCHANGED <<timer, service, wire, owner, recv, list, queue, taken, mixed, ghosts>>

\* switchTimerMode, cancelled: the label is written again.
CancelSwitch(p) ==
    /\ shown' = [shown EXCEPT ![p] = IF tclient[p] = 0 THEN "Not Connected" ELSE "Connected"]
    /\ UNCHANGED <<timer, service, wire, threads, tclient, listening, list, taken, mixed, queue, ghosts>>

\* Mutant: deletions are not handled.
ListedForever(times, message) ==
    IF message.kind = "CLOSED" \/ message.run < 1 THEN times
    ELSE IF message.kind = "RUN" THEN Append(times, message.run)
    ELSE times

\* Mutant: the newest time comes first.
ListedAtTop(times, message) ==
    IF message.kind = "CLOSED" \/ message.run < 1 THEN times
    ELSE IF message.kind = "RUN" THEN <<message.run>> \o times
    ELSE RemoveFirst(times, message.run)

\* Mutant: a run of one second is dropped too.
ListedAboveOne(times, message) ==
    IF message.kind = "CLOSED" \/ message.run <= 1 THEN times
    ELSE IF message.kind = "RUN" THEN Append(times, message.run)
    ELSE RemoveFirst(times, message.run)

\* SimpleTimeListModel.event: a deleted run is looked up by its value.
Listed(times, message) ==
    IF message.kind = "CLOSED" \/ message.run < 1 THEN times
    ELSE IF message.kind = "RUN" THEN Append(times, message.run)
    ELSE RemoveFirst(times, message.run)

\* Mutant: whichever connection was closed.
DeliverAnyClosed(p) ==
    /\ queue[p] # <<>>
    /\ LET event == Head(queue[p])
       IN  /\ list' = IF listening[p] THEN [list EXCEPT ![p] = Listed(@, event)] ELSE list
           /\ shown' = IF event.kind = "CLOSED"
                       THEN [shown EXCEPT ![p] = "Not Connected"] ELSE shown
           /\ mixed' = IF event.kind # "CLOSED" /\ event.conn # tclient[p]
                       THEN mixed \cup {p} ELSE mixed
    /\ queue' = [queue EXCEPT ![p] = Tail(@)]
    /\ UNCHANGED <<timer, service, wire, threads, tclient, listening, taken, ghosts>>

\* One event of the queue, for the list and for the label.
Deliver(p) ==
    /\ queue[p] # <<>>
    /\ LET event == Head(queue[p])
       IN  /\ list' = IF listening[p] THEN [list EXCEPT ![p] = Listed(@, event)] ELSE list
           /\ shown' = IF event.kind = "CLOSED" /\ event.conn = tclient[p]
                       THEN [shown EXCEPT ![p] = "Not Connected"] ELSE shown
           /\ mixed' = IF event.kind # "CLOSED" /\ event.conn # tclient[p]
                       THEN mixed \cup {p} ELSE mixed
    /\ queue' = [queue EXCEPT ![p] = Tail(@)]
    /\ UNCHANGED <<timer, service, wire, threads, tclient, listening, taken, ghosts>>

\* enterTime, "Delete From List"
Take(p) ==
    \E i \in DOMAIN list[p] :
       /\ list' = [list EXCEPT ![p] = RemoveAt(@, i)]
       /\ taken' = [taken EXCEPT ![p] = Append(@, list[p][i])]
       /\ UNCHANGED <<timer, service, wire, threads, tclient, listening, shown, mixed, queue, ghosts>>

-----------------------------------------------------------------------------
Threads ==
    \/ WalkOn \/ Accept
    \/ \E c \in Conns : ServerNotices(c) \/ Check(c) \/ Receive(c) \/ EndOfStream(c)
    \/ \E p \in Programs : Deliver(p)

Users ==
    \/ \E run \in Times : Finish(run)
    \/ DeleteFinish \/ Reset
    \/ \E p \in Programs : SwitchOn(p) \/ SwitchOff(p) \/ CancelSwitch(p) \/ Take(p)

Next == Threads \/ Users \/ \E c \in Conns : Break(c)

\* Every thread runs when it can; nothing obliges a user, or the network.
Fairness ==
    /\ WF_vars(WalkOn) /\ WF_vars(Accept)
    /\ \A c \in Conns : /\ WF_vars(ServerNotices(c)) /\ WF_vars(Check(c))
                        /\ WF_vars(Receive(c)) /\ WF_vars(EndOfStream(c))
    /\ \A p \in Programs : WF_vars(Deliver(p))

Spec == Init /\ [][Next]_vars
FairSpec == Spec /\ Fairness

-----------------------------------------------------------------------------
(* What it promises. *)

TypeOK ==
    /\ announced \in Seq(Times) /\ forgotten \in 0..Len(announced)
    /\ sends \in 0..MaxSends
    /\ \/ sending = <<>>
       \/ sending[1] \in [kind : {"RUN", "DELETE"}, run : Times,
                          cursor : 1..(MaxConns + 1), size : 0..MaxConns]
    /\ clients \in Seq(Conns) /\ marked \subseteq Conns /\ arriving \in Seq(Conns)
    /\ serverOpen \in [Conns -> BOOLEAN]
    /\ chan \in [Conns -> Seq(Message)]
    /\ owner \in [Conns -> Programs \cup {0}]
    /\ recv \in [Conns -> {"none", "checks", "reads", "ended"}]
    /\ done \in [Conns -> BOOLEAN]
    /\ tclient \in [Programs -> Conns \cup {0}]
    /\ listening \in [Programs -> BOOLEAN]
    /\ list \in [Programs -> Seq(Times)] /\ taken \in [Programs -> Seq(Times)]
    /\ queue \in [Programs -> Seq(Event)]
    /\ shown \in [Programs -> {"Connected", "Not Connected"}]
    /\ base \in [Conns -> Nat] /\ upset \subseteq Conns /\ mixed \subseteq Programs
    /\ repeated \in BOOLEAN

Count(times, t) == Cardinality({i \in DOMAIN times : times[i] = t})

\* The lines of the walk under way that c still has to get.
Due(c) ==
    IF sending = <<>> THEN <<>>
    ELSE IF \E i \in sending[1].cursor..sending[1].size : clients[i] = c
         THEN <<[kind |-> sending[1].kind, run |-> sending[1].run]>>
         ELSE <<>>

\* What a list of times becomes when messages are handled.
After(times, messages) ==
    LET after[n \in 0..Len(messages)] ==
          IF n = 0 THEN times ELSE Listed(after[n - 1], messages[n])
    IN  after[Len(messages)]

\* What p's list becomes when everything under way has arrived: what is posted
\* comes first, then what is written, then what the walk has still to write.
Upcoming(p) ==
    After(After(After(list[p], queue[p]), chan[tclient[p]]), Due(tclient[p]))

\* Which of the announced runs c was told of and that are not taken back, or
\* about to be.
Known(c) ==
    LET last == IF sending # <<>> /\ sending[1].kind = "DELETE" THEN Len(announced) - 1
                ELSE Len(announced)
    IN  {i \in (base[c] + 1)..last : c \in ToSet(clients) /\ announced[i] >= 1}

KnownCount(c, t) == Cardinality({i \in Known(c) : announced[i] = t})

\* p uses a connection that works.
Connected(p) == tclient[p] # 0 /\ serverOpen[tclient[p]] /\ recv[tclient[p]] \in {"checks", "reads"}

\* No connection p was told to stop can reach it any more.
Alone(p) ==
    /\ p \notin mixed
    /\ \A c \in Conns : owner[c] = p /\ c # tclient[p] => recv[c] = "ended"
    /\ \A i \in DOMAIN queue[p] : queue[p][i].conn = tclient[p] \/ queue[p][i].kind = "CLOSED"

Steady(p) == Connected(p) /\ Alone(p) /\ tclient[p] \notin upset

\* A time that waits in data entry, or is on its way there, was announced and
\* was not taken back: as many of the same time at most.
NothingStale ==
    \A p \in Programs : Steady(p) =>
       \A t \in Times : Count(Upcoming(p), t) <= KnownCount(tclient[p], t)

\* Every run announced since the connection was accepted is on its way to the
\* list, waits in it or was taken from it by the operator.
NothingMissed ==
    \A p \in Programs : Steady(p) =>
       \A t \in Times : Count(Upcoming(p), t) + Count(taken[p], t) >= KnownCount(tclient[p], t)

\* The times wait in the order of the runs, as long as no two of them have
\* been equal: the first of two equal ones goes when the second is deleted.
InOrder ==
    \A p \in Programs : Steady(p) /\ ~repeated =>
       \A i, j \in DOMAIN Upcoming(p) : i < j =>
          \E k, l \in Known(tclient[p]) :
             /\ announced[k] = Upcoming(p)[i]
             /\ announced[l] = Upcoming(p)[j]
             /\ k < l

\* Data entry never says that a connection is lost while it works, whatever
\* becomes of the connections it gave up.
NoFalseAlarm ==
    \A p \in Programs : tclient[p] # 0 /\ shown[p] = "Not Connected"
                           => recv[tclient[p]] = "ended"

\* The loss of a connection is shown, unless the operator has given it up.
LossIsShown ==
    \A p \in Programs, c \in Conns :
       (tclient[p] = c /\ ~serverOpen[c] /\ recv[c] # "ended")
          ~> (shown[p] = "Not Connected" \/ tclient[p] # c)

\* An announced run reaches the list, unless it is taken back or the
\* connection is disturbed.
RunsArrive ==
    \A p \in Programs, t \in Times \ {0}, k \in 1..MaxSends :
       (Steady(p) /\ KnownCount(tclient[p], t) = k)
          ~> (\/ Count(list[p], t) + Count(taken[p], t) >= k
              \/ ~Steady(p) \/ KnownCount(tclient[p], t) # k)
=============================================================================
