------------------------------- MODULE WebPool ------------------------------
(***************************************************************************)
(* The web server's pool of database connections (app.py).  A request gets *)
(* a connection, tries it, and when it does not work makes a new pool and  *)
(* tries once more; when it ends, it gives the connection back.  Requests  *)
(* run in threads of their own, and the database may go away and come back *)
(* at any time.                                                            *)
(*                                                                         *)
(* What a request does with its connection is left to a module that        *)
(* extends this one: it begins at "serve" and ends at "return".            *)
(***************************************************************************)
EXTENDS Integers, FiniteSets

CONSTANTS
    Threads,       \* requests at one time
    NoConnection,
    Nobody,        \* who has the lock when nobody has it
    MaxConnections,\* of the pool
    MaxRestarts    \* bound on restarts of the database

ASSUME PoolAssumption == /\ Nobody \notin Threads /\ IsFiniteSet(Threads)
                         /\ MaxConnections \in Nat \ {0} /\ MaxRestarts \in Nat

VARIABLES
    up, epoch,     \* the database, and how often it went away
    pool,          \* FlaskWithPool.pool: from which epoch, closed or not, connections given out
    resetlock,
    pc,            \* where each request is
    db             \* g.db, or the connection that is tried

database == <<up, epoch>>
poolVars == <<up, epoch, pool, resetlock, pc, db>>

Connections == [epoch : 0 .. MaxRestarts, open : BOOLEAN]
ASSUME NoConnectionAssumption == NoConnection \notin Connections

PoolPlaces == {"idle", "probe", "reset", "close", "create", "retry", "reprobe",
               "serve", "return"}

\* A connection works while the database that it was opened to is there and
\* no thread has closed it.
Works(c) == up /\ c.open /\ c.epoch = epoch

-----------------------------------------------------------------------------

PoolInit ==
    /\ up = TRUE /\ epoch = 0
    /\ pool = [epoch |-> 0, closed |-> FALSE, used |-> 0] /\ resetlock = Nobody
    /\ pc = [t \in Threads |-> "idle"] /\ db = [t \in Threads |-> NoConnection]

Go(t, place) == pc' = [pc EXCEPT ![t] = place]

\* A request ends, answered or not.
End(t) == Go(t, "idle") /\ db' = [db EXCEPT ![t] = NoConnection]

\* getconn, when a request arrives or after a reset: a connection that was
\* given back before, or a new one, which the database must be up for.  A pool that is closed or
\* has given out all of its connections raises an error that is not caught.
Get(t) ==
    /\ pc[t] \in {"idle", "retry"}
    /\ UNCHANGED <<database, resetlock>>
    /\ \/ /\ pool.closed \/ pool.used = MaxConnections
          /\ End(t) /\ UNCHANGED pool
       \/ /\ ~pool.closed /\ pool.used < MaxConnections
          /\ \E e \in pool.epoch .. epoch :
                /\ up \/ e < epoch
                /\ db' = [db EXCEPT ![t] = [epoch |-> e, open |-> TRUE]]
          /\ pool' = [pool EXCEPT !.used = @ + 1]
          /\ Go(t, IF pc[t] = "idle" THEN "probe" ELSE "reprobe")
       \/ /\ ~pool.closed /\ pool.used < MaxConnections /\ ~up
          /\ IF pc[t] = "idle" THEN Go(t, "reset") /\ UNCHANGED db ELSE End(t)
          /\ UNCHANGED pool

\* "select 1".  A connection that another thread has closed raises an error
\* that is not caught; one that lost its database is forgotten.
Probe(t) ==
    /\ pc[t] \in {"probe", "reprobe"}
    /\ IF Works(db[t]) THEN Go(t, "serve") /\ UNCHANGED db
       ELSE IF pc[t] = "reprobe" \/ ~db[t].open THEN End(t)
       ELSE Go(t, "reset") /\ db' = [db EXCEPT ![t] = NoConnection]
    /\ UNCHANGED <<database, pool, resetlock>>

\* Mutant: there is nothing to reset.
NoReset(t) ==
    /\ pc[t] = "reset" /\ Go(t, "retry")
    /\ UNCHANGED <<database, pool, resetlock, db>>

\* _reset_pool: whoever does not get the lock goes on at once.
Reset(t) ==
    /\ pc[t] = "reset"
    /\ IF resetlock = Nobody THEN resetlock' = t /\ Go(t, "close")
       ELSE Go(t, "retry") /\ UNCHANGED resetlock
    /\ UNCHANGED <<database, pool, db>>

\* Mutant: only the connections that are not given out are closed.
CloseFree(t) ==
    /\ pc[t] = "close"
    /\ pool' = [pool EXCEPT !.closed = TRUE] /\ Go(t, "create")
    /\ UNCHANGED <<database, resetlock, db>>

\* closeall also closes the connections that are given out.
Close(t) ==
    /\ pc[t] = "close"
    /\ pool' = [pool EXCEPT !.closed = TRUE, !.used = 0]
    /\ db' = [u \in Threads |-> IF db[u] = NoConnection THEN NoConnection
                                ELSE [db[u] EXCEPT !.open = FALSE]]
    /\ Go(t, "create")
    /\ UNCHANGED <<database, resetlock>>

\* The new pool opens its first connections.  Without a database there is no
\* new pool, and the closed one stays.
Create(t) ==
    /\ pc[t] = "create"
    /\ pool' = IF up THEN [epoch |-> epoch, closed |-> FALSE, used |-> 0] ELSE pool
    /\ resetlock' = Nobody /\ Go(t, "retry")
    /\ UNCHANGED <<database, db>>

\* db_return, after the request: a connection of another pool is refused, and
\* that error replaces the answer.
Return(t) ==
    /\ pc[t] = "return"
    /\ pool' = IF db[t].open THEN [pool EXCEPT !.used = @ - 1] ELSE pool
    /\ End(t)
    /\ UNCHANGED <<database, resetlock>>

Pooling(t) == Get(t) \/ Probe(t) \/ Reset(t) \/ Close(t) \/ Create(t) \/ Return(t)

GoesAway ==
    /\ up /\ epoch < MaxRestarts
    /\ up' = FALSE /\ epoch' = epoch + 1
    /\ UNCHANGED <<pool, resetlock, pc, db>>

ComesBack ==
    /\ ~up /\ up' = TRUE
    /\ UNCHANGED <<epoch, pool, resetlock, pc, db>>

-----------------------------------------------------------------------------

PoolTypeOK ==
    /\ up \in BOOLEAN /\ epoch \in 0 .. MaxRestarts
    /\ pool \in [epoch : 0 .. MaxRestarts, closed : BOOLEAN, used : 0 .. MaxConnections]
    /\ resetlock \in Threads \union {Nobody}
    /\ db \in [Threads -> Connections \union {NoConnection}]

Holding == {t \in Threads : db[t] # NoConnection /\ db[t].open}

\* No connection is lost: what the pool has given out and nobody holds is of
\* a pool older than the last restart, which the next request that notices
\* replaces.
NothingLeaks == /\ Cardinality(Holding) <= pool.used
                /\ pool.epoch = epoch => Cardinality(Holding) = pool.used

\* The pool of a reset that found no database: no request gets further.
DeadPool == pool.closed /\ resetlock = Nobody

\* When the database stays, every thread gets answers from it again and
\* again, unless a reset found no database.
Served(t) == pc[t] = "return" /\ db[t] # NoConnection /\ Works(db[t])
Recovers == <>[]up => \/ <>[]DeadPool
                      \/ \A t \in Threads : []<>Served(t)
=============================================================================
