----------------------------- MODULE Connection -----------------------------
(***************************************************************************)
(* The one JDBC connection a Swing application holds on the series         *)
(* database (PostgresqlDatabase) and what its start / commit / rollback    *)
(* calls do to it.  A connection is a record                               *)
(*   saved   - what the server has committed: other programs read it and   *)
(*             it survives the application,                                *)
(*   view    - what this connection reads: saved plus its open transaction,*)
(*   auto    - JDBC autocommit,                                            *)
(*   aborted - the open transaction has failed: the server refuses every   *)
(*             statement until the transaction ends.                       *)
(* The contents (saved, view) are opaque here: the modules that hold a     *)
(* connection say what they are and which of them the schema accepts.      *)
(***************************************************************************)

\* A new connection: PgConnection starts with autocommit on.
Opened(data) == [saved |-> data, view |-> data, auto |-> TRUE, aborted |-> FALSE]

ConnectionOf(Data) == [saved : Data, view : Data, auto : BOOLEAN, aborted : BOOLEAN]

\* start(): setAutoCommit(false).  Nothing is sent to the server; a
\* transaction that is already open stays open.
Start(conn) == [conn EXCEPT !.auto = FALSE]

\* executeUpdate / executeGroupUpdate: data is the view if the statement
\* succeeds.  A statement that raises an error leaves no trace in autocommit
\* mode and aborts the open transaction otherwise.
Execute(conn, data, ok) ==
    [conn EXCEPT !.view    = IF ok /\ ~conn.aborted THEN data ELSE @,
                 !.saved   = IF ok /\ ~conn.aborted /\ conn.auto THEN data ELSE @,
                 !.aborted = @ \/ (~ok /\ ~conn.auto)]

\* Mutant: autocommit is restored even though the server refused the commit.
CommitRefusedUnseen(conn, accepted) ==
    IF accepted
    THEN [conn EXCEPT !.saved = conn.view, !.auto = TRUE]
    ELSE [conn EXCEPT !.auto = TRUE]

\* commit(): setAutoCommit(true) commits the open transaction.  The deferred
\* constraints are checked here; when one fails the server discards the
\* transaction, the call throws and autocommit is still off.
Commit(conn, accepted) ==
    IF accepted
    THEN [conn EXCEPT !.saved = conn.view, !.auto = TRUE]
    ELSE [conn EXCEPT !.view = conn.saved]

\* rollback(): conn.rollback() and nothing else: autocommit stays off.
Rollback(conn) == [conn EXCEPT !.view = conn.saved, !.aborted = FALSE]

\* Mutant: the commit at the end of the try block is missing.
TransactionLeftOpen(conn, data, ok, accepted) ==
    LET executed == Execute(Start(conn), data, ok)
    IN  IF executed.aborted THEN Rollback(executed) ELSE executed

\* The try / catch of setRunOrder, deleteCars, newChallenge, ...: start, the
\* statements (giving data when every one succeeds), commit, and rollback
\* when any of it throws.
Transaction(conn, data, ok, accepted) ==
    LET executed  == Execute(Start(conn), data, ok)
        committed == IF executed.aborted THEN executed ELSE Commit(executed, accepted)
    IN  IF committed.auto THEN committed ELSE Rollback(committed)
=============================================================================
