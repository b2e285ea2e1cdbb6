---------------------------- MODULE SeriesTables ----------------------------
(***************************************************************************)
(* The tables of a series that data entry reads and writes (runorder,      *)
(* runs, registered) and the SQLDataInterface calls on them, as operators  *)
(* on a connection.  A run is its key: what its time was does not matter   *)
(* to anything said here.  The rows of a run group are a sequence: they    *)
(* are always numbered 1..n, setRunOrder being their only writer.          *)
(***************************************************************************)
EXTENDS Connection, Naturals, Sequences, SequencesExt

CONSTANTS Events, Courses, Groups, Cars,
          MaxRuns  \* how many runs an event gives each car

ASSUME SeriesAssumption ==
    /\ Events # {} /\ Courses # {} /\ Groups # {}
    /\ Courses \subseteq Nat /\ Groups \subseteq Nat \ {0}
    /\ MaxRuns \in Nat \ {0}

RunNums == 1..MaxRuns

Keys == Events \X Courses \X Groups

RunKeys == [event : Events, course : Courses, car : Cars, run : RunNums]

Contents == [order : [Keys -> Seq(Cars)],
             runs : SUBSET RunKeys,
             registered : SUBSET (Events \X Cars)]

NoContents == [order |-> [k \in Keys |-> <<>>], runs |-> {}, registered |-> {}]

\* CONSTRAINT oneentrypercourse UNIQUE (eventid, course, carid), checked when
\* the transaction commits.
OneEntryPerCourse(order) ==
    /\ \A k \in Keys : IsInjective(order[k])
    /\ \A k, l \in Keys :
          (k[1] = l[1] /\ k[2] = l[2] /\ k # l)
             => \A i \in DOMAIN order[k] : ~Contains(order[l], order[k][i])

(* What the queries return. *)
IsInCurrentOrder(data, key, car) == Contains(data.order[key], car)

IsInOrder(data, key, car) ==
    \E g \in Groups : Contains(data.order[<<key[1], key[2], g>>], car)

RunsOf(data, key, car) ==
    {n \in RunNums :
        [event |-> key[1], course |-> key[2], car |-> car, run |-> n] \in data.runs}

LoadEntrant(data, key, car) == [car |-> car, runs |-> RunsOf(data, key, car)]

EntrantsByRunOrder(data, key) ==
    [i \in DOMAIN data.order[key] |-> LoadEntrant(data, key, data.order[key][i])]

(* What the updates do; ok is FALSE when the statement raises an error.    *)
\* Mutant: the table has no oneentrypercourse constraint.
SetRunOrderUnchecked(conn, key, cars, ok) ==
    Transaction(conn, [conn.view EXCEPT !.order[key] = cars], ok, TRUE)

\* Upsert rows 1..n, delete the rows above n, commit.
SetRunOrder(conn, key, cars, ok) ==
    LET data == [conn.view EXCEPT !.order[key] = cars]
    IN  Transaction(conn, data, ok, OneEntryPerCourse(data.order))

RegisterCar(conn, event, car, ok) ==
    Execute(conn, [conn.view EXCEPT !.registered = @ \union {<<event, car>>}], ok)

\* The upserts of several runs of one car, of which those in lost failed.
SetRuns(conn, key, car, numbers, lost) ==
    LET stored == [event : {key[1]}, course : {key[2]}, car : {car}, run : numbers \ lost]
        kept   == [conn EXCEPT !.aborted = @ \/ (~conn.auto /\ lost # {})]
    IN  Execute(kept, [conn.view EXCEPT !.runs = @ \union stored], TRUE)

DeleteRun(conn, key, car, number, ok) ==
    LET run == [event |-> key[1], course |-> key[2], car |-> car, run |-> number]
    IN  Execute(conn, [conn.view EXCEPT !.runs = @ \ {run}], ok)
=============================================================================
