--------------------------- MODULE WebRegistration --------------------------
(***************************************************************************)
(* Registering for an event on the web: a request reads how many cars and  *)
(* drivers there are, decides whether the cars the driver has ticked are   *)
(* within the limits, and replaces the driver's registrations.  Requests   *)
(* run at the same time, each in a transaction of a connection of WebPool. *)
(*                                                                         *)
(* Statements see what is committed when they begin.  A statement that     *)
(* meets a row which another transaction is about to change waits for it.  *)
(***************************************************************************)
EXTENDS WebPool

CONSTANTS
    Drivers,
    Cars,         \* <<driver, number>>
    SinLimit,     \* Event.sinlimit, perlimit and totlimit; 0: no limit
    PerLimit,
    TotLimit,
    AtFirst       \* registered already, by the registration application, which knows no limits

ASSUME LimitsAssumption == /\ Cars \subseteq Drivers \X Nat /\ IsFiniteSet(Cars) /\ AtFirst \subseteq Cars
                           /\ Drivers # {}
                           /\ {SinLimit, PerLimit, TotLimit} \subseteq Nat

VARIABLES
    registered,   \* the table registered: cars of the event
    request,      \* what each request asks for and has read
    changed       \* history: drivers whose cars others have changed since a request read

handler == <<registered, request, changed>>
vars == <<poolVars, handler>>

CarsOf(d) == {car \in Cars : car[1] = d}
OfDriver(d) == registered \intersect CarsOf(d)
Handling == {"count", "delete", "deleting", "insert", "commit", "show"}
Places == PoolPlaces \union Handling

\* Of a driver, for some cars; mine: how many he has; found: the rows that
\* are found to be deleted, and then those that the transaction has deleted.
NoRequest == [driver |-> CHOOSE d \in Drivers : TRUE, cars |-> {}, mine |-> 0, found |-> {}]

\* Transactions that are under way; one that has lost its connection is not.
Working(t) == db[t] # NoConnection /\ Works(db[t])
Others(t) == {u \in Threads \ {t} : Working(u)}
Deleted(t) == IF pc[t] \in {"insert", "commit"} THEN request[t].found ELSE {}
Inserted(t) == IF pc[t] = "commit" THEN request[t].cars ELSE {}

-----------------------------------------------------------------------------

Init ==
    /\ PoolInit
    /\ registered = AtFirst
    /\ request = [t \in Threads |-> NoRequest]
    /\ changed = [t \in Threads |-> {}]

\* A statement of a request, at a place of its thread.
Statement(t, place) ==
    /\ pc[t] = place /\ Working(t)
    /\ UNCHANGED <<database, pool, resetlock, db>>

\* The request is decided, and goes on without what it has read.
Decided(t, place) ==
    /\ Go(t, place)
    /\ request' = [request EXCEPT ![t] = NoRequest]
    /\ changed' = [changed EXCEPT ![t] = {}]

\* The answer, which may be that something went wrong: then there was a
\* rollback, and nothing of the request is left.
Answer(t) == Decided(t, "return")

\* The next statement finds the connection gone.  The rollback fails as well.
Broken(t) ==
    /\ pc[t] \in Handling \union {"serve"} /\ ~Working(t)
    /\ Decided(t, "return")
    /\ UNCHANGED <<database, pool, resetlock, db, registered>>

\* eventspost begins: how many cars of the event the driver has.
ReadMine(t) ==
    /\ Statement(t, "serve") /\ Go(t, "count")
    /\ \E d \in Drivers : \E cars \in SUBSET CarsOf(d) :
          request' = [request EXCEPT ![t] = [driver |-> d, cars |-> cars,
                                             mine |-> Cardinality(OfDriver(d)), found |-> {}]]
    /\ UNCHANGED <<registered, changed>>

DriverCount == Cardinality({car[1] : car \in registered})
EntryCount == Cardinality(registered)

\* Mutant: the total limit is for the cars of one driver.
MyLimitsAlone(mine) ==
    {999} \union (IF SinLimit > 0 /\ DriverCount >= SinLimit /\ mine = 0 THEN {0} ELSE {})
          \union (IF PerLimit > 0 THEN {PerLimit} ELSE {})
          \union (IF TotLimit > 0 THEN {TotLimit} ELSE {})

\* decorateEvent: the limits that apply to a driver who has that many cars.
MyLimits(mine) ==
    {999} \union (IF SinLimit > 0 /\ DriverCount >= SinLimit /\ mine = 0 THEN {0} ELSE {})
          \union (IF PerLimit > 0 THEN {PerLimit} ELSE {})
          \union (IF TotLimit > 0 THEN {TotLimit - EntryCount + mine} ELSE {})

\* getval makes None of a count of zero, which cannot be compared.
Uncounted == registered = {} /\ (SinLimit > 0 \/ TotLimit > 0)

\* The counts of the event are read and the limits applied.
Count(t) ==
    /\ Statement(t, "count")
    /\ IF Uncounted THEN Answer(t)
       ELSE IF \E limit \in MyLimits(request[t].mine) : Cardinality(request[t].cars) > limit
       THEN Decided(t, "show")
       ELSE Go(t, "delete") /\ request' = [request EXCEPT ![t].mine = 0] /\ UNCHANGED changed
    /\ UNCHANGED registered

\* Registration.update.  The deletion finds the rows that are there when it
\* begins, and waits for those that another transaction has deleted; what is
\* put there in the meantime it does not see.
Find(t) ==
    /\ Statement(t, "delete") /\ Go(t, "deleting")
    /\ request' = [request EXCEPT ![t].found = OfDriver(request[t].driver)]
    /\ UNCHANGED <<registered, changed>>

\* Mutant: the deletion is committed at once.
DeleteForGood(t) ==
    /\ Statement(t, "deleting") /\ Go(t, "insert")
    /\ \A u \in Others(t) : Deleted(u) \intersect request[t].found = {}
    /\ registered' = registered \ request[t].found
    /\ UNCHANGED <<request, changed>>

Delete(t) ==
    /\ Statement(t, "deleting") /\ Go(t, "insert")
    /\ \A u \in Others(t) : Deleted(u) \intersect request[t].found = {}
    /\ UNCHANGED <<registered, request, changed>>

\* A car that is there already breaks the key; whether it is depends on the
\* transactions that have put it there or taken it away.  (The cars of a form
\* come in one order, so that requests do not wait for each other in turn.)
Insert(t) ==
    /\ Statement(t, "insert")
    /\ \A u \in Others(t) : (Inserted(u) \union Deleted(u)) \intersect request[t].cars = {}
    /\ IF request[t].cars \intersect (registered \ Deleted(t)) = {}
       THEN Go(t, "commit") /\ UNCHANGED <<request, changed>>
       ELSE Answer(t)
    /\ UNCHANGED registered

\* A commit leaves nothing for others to delete of what it has deleted, and
\* is news to the requests that have read already.
Left(gone) == [u \in Threads |->
    IF pc[u] = "deleting" THEN [request[u] EXCEPT !.found = @ \ gone] ELSE request[u]]
Told(d) == [u \in Threads |->
    IF pc[u] \in Handling \ {"show"} THEN changed[u] \union {d} ELSE changed[u]]

Commit(t) ==
    /\ Statement(t, "commit") /\ Go(t, "show")
    /\ registered' = (registered \ Deleted(t)) \union Inserted(t)
    /\ request' = [Left(Deleted(t)) EXCEPT ![t] = NoRequest]
    /\ changed' = [Told(request[t].driver) EXCEPT ![t] = {}]

\* The event is read once more for the answer.
Show(t) ==
    /\ Statement(t, "show") /\ Answer(t)
    /\ UNCHANGED registered

Register(t) == \/ Broken(t) \/ ReadMine(t) \/ Count(t) \/ Find(t) \/ Delete(t)
               \/ Insert(t) \/ Commit(t) \/ Show(t)

Next ==
    \/ \E t \in Threads : Register(t) \/ (Pooling(t) /\ UNCHANGED handler)
    \/ (GoesAway \/ ComesBack) /\ UNCHANGED handler

Spec == Init /\ [][Next]_vars

\* Threads run, somebody always asks, and those that wait for a row get it in
\* their turn.
FairSpec == Spec /\ \A t \in Threads :
    /\ WF_vars(Register(t) \/ (Pooling(t) /\ UNCHANGED handler))
    /\ SF_vars(Delete(t) \/ Insert(t))

-----------------------------------------------------------------------------

TypeOK ==
    /\ PoolTypeOK
    /\ pc \in [Threads -> Places]
    /\ registered \subseteq Cars
    /\ request \in [Threads -> [driver : Drivers, cars : SUBSET Cars, mine : Nat, found : SUBSET Cars]]
    /\ changed \in [Threads -> SUBSET Drivers]

Commits(t) == pc[t] = "commit" /\ pc'[t] = "show"

\* Whatever happens to connections, and whatever others do to the cars of
\* other drivers: a driver's registrations change to just what he has asked
\* for, or not at all.
AllOrNothing == [][\A d \in Drivers :
    LET after == registered' \intersect CarsOf(d)
    IN  after = OfDriver(d)
        \/ \E t \in Threads : Commits(t) /\ request[t].driver = d
                              /\ (d \in changed[t] \/ after = request[t].cars)]_vars

\* A request that nobody overtook keeps the limits, or does not make things
\* worse: that of cars, that of drivers, and that of a driver's cars.
LimitsHold == [][\A t \in Threads : Commits(t) /\ changed[t] = {} =>
    LET drivers(cars) == Cardinality({car[1] : car \in cars})
    IN  /\ TotLimit > 0 => \/ Cardinality(registered') <= TotLimit
                           \/ Cardinality(registered') <= Cardinality(registered)
        /\ SinLimit > 0 => \/ drivers(registered') <= SinLimit
                           \/ drivers(registered') <= drivers(registered)
        /\ PerLimit > 0 => Cardinality(registered' \intersect CarsOf(request[t].driver)) <= PerLimit]_vars
=============================================================================
