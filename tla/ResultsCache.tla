---------------------------- MODULE ResultsCache ----------------------------
(***************************************************************************)
(* Results are computed when a page asks for them and kept in the table    *)
(* results until the log of the series shows a newer change.  Both times   *)
(* are those of the start of a transaction.  A request reads one statement *)
(* after the other, each of which sees what is committed by then.          *)
(***************************************************************************)
EXTENDS Integers, FiniteSets, FiniteSetsExt, SequencesExt

CONSTANTS
    Names,      \* results that are asked for
    Changing,   \* parts of the data that programs change
    Requests,   \* requests under way at a time
    MaxWrites   \* bound on changes

Events == {"e1", "e2"}  \* by date

\* Parts of the data, and the tables they are in: every event has its own
\* entrants and runs.
Parts == {"classlist", "indexlist", "events", "settings", "challenges", "drivers",
          "cars", "runorder1", "runorder2", "runs1", "runs2", "rounds", "chruns"}

ASSUME CacheAssumption ==
    /\ Names \subseteq {"info", "e1", "e2", "champ", "challenge"}
    /\ Changing \subseteq Parts
    /\ MaxWrites \in Nat

TableOf(part) ==
    CASE part \in {"runorder1", "runorder2"} -> "runorder"
      [] part \in {"runs1", "runs2"} -> "runs"
      [] part = "rounds" -> "challengerounds"
      [] part = "chruns" -> "challengeruns"
      [] OTHER -> part

Tables == {TableOf(part) : part \in Parts}

Logged == Tables \ {"drivers"}  \* changes of drivers go to the public log

\* The tables that getSeriesInfo, getEventResults, ... pass to _needUpdate.
Watched(name) ==
    CASE name = "info" -> {"classlist", "indexlist", "events", "settings"}
      [] name = "challenge" -> {"challengerounds", "challengeruns"}
      [] OTHER -> {"classlist", "indexlist", "events", "cars", "runs"}

\* What one statement reads: _updateSeriesInfo, _updateEventResults,
\* _updateChallengeResults.
Statements(name) ==
    CASE name = "info" -> <<{"classlist"}, {"indexlist"}, {"events"}, {"challenges"}, {"settings"}>>
      [] name = "e1" -> <<{"events"}, {"classlist"}, {"indexlist"}, {"settings"},
                          {"drivers", "cars", "runorder1"}, {"runs1"}>>
      [] name = "e2" -> <<{"events"}, {"classlist"}, {"indexlist"}, {"settings"},
                          {"drivers", "cars", "runorder2"}, {"runs2"}>>
      [] name = "challenge" -> <<{"rounds", "cars", "drivers"}, {"chruns"}>>
      [] name = "champ" -> <<{"settings"}, {"classlist"}, {"indexlist"}, {"events"}>>

Op(do, name, parts) == [do |-> do, name |-> name, parts |-> parts]

Reading(name) ==
    [i \in DOMAIN Statements(name) |-> Op("read", name, Statements(name)[i])]

Getting(name, body) ==
    <<Op("check", name, {})>> \o Reading(name) \o body
       \o <<Op("store", name, {}), Op("load", name, {})>>

\* What a request for a result does, step by step.  _updateChampResults asks
\* for the results of every event.
Script(name) ==
    IF name # "champ" THEN Getting(name, <<>>)
    ELSE Getting(name, Getting("e1", <<>>) \o Getting("e2", <<>>))

Results == Names \cup (IF "champ" \in Names THEN Events ELSE {})
Uses(name) ==
    UNION {op.parts : op \in ToSet(Script(name))}

VARIABLES
    clock,    \* changes begun so far
    version,  \* version[part]: committed changes of it
    logged,   \* logged[table]: time of the newest entry of serieslog, 0 if none
    writing,  \* changes begun and not committed
    stored,   \* stored[name]: the row of table results, <<>> if there is none
    request   \* request[r]: <<>>, or what r is for and how far it has come

vars == <<clock, version, logged, writing, stored, request>>

Unread == MaxWrites + 1
NoTransaction == -1

Init ==
    /\ clock = 0
    /\ version = [part \in Parts |-> 0]
    /\ logged = [table \in Logged |-> 0]
    /\ writing = {}
    /\ stored = [name \in Results |-> <<>>]
    /\ request = [r \in Requests |-> <<>>]

-----------------------------------------------------------------------------
(* The other programs. *)

\* What logseriesmods enters for a change.
Committed(part, time) ==
    /\ version' = [version EXCEPT ![part] = @ + 1]
    /\ logged' = [table \in Logged |->
                    IF table = TableOf(part) THEN Max({logged[table], time}) ELSE logged[table]]

\* CURRENT_TIMESTAMP is the start of the transaction.
BeginWrite(part) ==
    /\ clock < MaxWrites
    /\ clock' = clock + 1
    /\ writing' = writing \cup {<<part, clock + 1>>}
    /\ UNCHANGED <<version, logged, stored, request>>

CommitWrite ==
    \E change \in writing :
       /\ Committed(change[1], change[2])
       /\ writing' = writing \ {change}
       /\ UNCHANGED <<clock, stored, request>>

-----------------------------------------------------------------------------
(* Requests.  A transaction that starts now is younger than all changes begun *)
(* so far and older than all to come.                                         *)

\* Not in the program: what was committed when a page was asked for (asked), and
\* the changes under way when the transaction started (open).
Begin(r, name) ==
    /\ request[r] = <<>>
    /\ request' = [request EXCEPT ![r] = <<[name |-> name, ops |-> Script(name), start |-> clock, open |-> writing,
                     asked |-> [part \in Uses(name) |-> version[part]],
                     seen |-> [n \in Results |-> [part \in Uses(n) |-> Unread]]]>>]
    /\ UNCHANGED <<clock, version, logged, writing, stored>>

\* Mutant: an entry as old as the row, or the one after, is taken for known.
NeedUpdateLater(name) ==
    \/ stored[name] = <<>>
    \/ Max({logged[table] : table \in Watched(name)}) > stored[name][1].modified + 1

\* _needUpdate; max(time) over nothing is null.
NeedUpdate(name) ==
    LET newest == Max({logged[table] : table \in Watched(name)})
    IN  \/ newest = 0
        \/ stored[name] = <<>>
        \/ newest > stored[name][1].modified

\* Mutant: the row is not loaded when it is up to date.
AfterLoad(ops, name) ==
    LET last == Min({i \in DOMAIN ops : ops[i].do = "load" /\ ops[i].name = name})
    IN  SubSeq(ops, last + 1, Len(ops))

\* What is left to do when the row is up to date.
AfterStore(ops, name) ==
    LET last == Min({i \in DOMAIN ops : ops[i].do = "store" /\ ops[i].name = name})
    IN  SubSeq(ops, last + 1, Len(ops))

Continue(r, q) == request' = [request EXCEPT ![r] = <<q>>]

Check(r, q, name) ==
    /\ Continue(r, [q EXCEPT !.ops = IF NeedUpdate(name) THEN Tail(@) ELSE AfterStore(@, name)])
    /\ UNCHANGED stored

\* The oldest version that goes into a result counts.
Oldest(a, b) == IF a < b THEN a ELSE b

Read(r, q, name, parts) ==
    /\ Continue(r, [q EXCEPT !.ops = Tail(@),
                             !.seen[name] = [p \in Uses(name) |->
                                IF p \in parts THEN Oldest(@[p], version[p]) ELSE @[p]]])
    /\ UNCHANGED stored

\* Mutant: the time of the insertion.
StoreNow(r, q, name) ==
    /\ stored' = [stored EXCEPT ![name] = <<[data |-> q.seen[name], modified |-> clock, open |-> q.open]>>]
    /\ Continue(r, [q EXCEPT !.ops = Tail(@), !.start = NoTransaction])

\* Mutant: the time is entered with the row and not updated.
StoreFirstTime(r, q, name) ==
    /\ stored' = [stored EXCEPT ![name] = <<[data |-> q.seen[name],
                     modified |-> IF @ = <<>> THEN q.start ELSE @[1].modified, open |-> q.open]>>]
    /\ Continue(r, [q EXCEPT !.ops = Tail(@), !.start = NoTransaction])

\* _insertResults, which commits: now() is the start of the transaction.
Store(r, q, name) ==
    /\ stored' = [stored EXCEPT ![name] = <<[data |-> q.seen[name], modified |-> q.start, open |-> q.open]>>]
    /\ Continue(r, [q EXCEPT !.ops = Tail(@), !.start = NoTransaction])

\* _loadResults, for the page or for the championship; the first statement
\* after a commit starts a transaction.
Load(r, q, name) ==
    /\ request' = [request EXCEPT ![r] =
          IF Len(q.ops) = 1 THEN <<>>
          ELSE <<[q EXCEPT !.ops = Tail(@),
                           !.start = IF @ = NoTransaction THEN clock ELSE @,
                           !.open = IF q.start = NoTransaction THEN writing ELSE @,
                           !.seen["champ"] = [p \in DOMAIN @ |->
                              IF p \in Uses(name) THEN Oldest(@[p], stored[name][1].data[p])
                              ELSE @[p]]]>>]
    /\ UNCHANGED stored

Step(r) ==
    /\ request[r] # <<>>
    /\ LET q == request[r][1]  op == Head(q.ops)
       IN  \/ op.do = "check" /\ Check(r, q, op.name)
           \/ op.do = "read" /\ Read(r, q, op.name, op.parts)
           \/ op.do = "store" /\ Store(r, q, op.name)
           \/ op.do = "load" /\ Load(r, q, op.name)
    /\ UNCHANGED <<clock, version, logged, writing>>

-----------------------------------------------------------------------------
Next == \/ \E part \in Changing : BeginWrite(part)
        \/ CommitWrite
        \/ \E r \in Requests : Step(r) \/ \E name \in Names : Begin(r, name)

\* Changes are committed, requests are handled and pages keep asking:
\* announcers' pages poll.
Fairness == /\ WF_vars(CommitWrite)
            /\ \A r \in Requests :
                  /\ WF_vars(Step(r))
                  /\ \A name \in Names : WF_vars(Begin(r, name))

Spec == Init /\ [][Next]_vars
FairSpec == Spec /\ Fairness

-----------------------------------------------------------------------------
(* What it promises. *)

TypeOK ==
    /\ clock \in 0..MaxWrites
    /\ version \in [Parts -> 0..MaxWrites]
    /\ logged \in [Logged -> 0..MaxWrites]
    /\ writing \subseteq (Parts \X (1..MaxWrites))
    /\ \A name \in Results : stored[name] = <<>> \/
          /\ stored[name][1].modified \in 0..MaxWrites
          /\ stored[name][1].data \in [Uses(name) -> 0..MaxWrites]
    /\ \A r \in Requests : request[r] = <<>> \/
          /\ request[r][1].start \in {NoTransaction} \cup 0..clock
          /\ request[r][1].ops # <<>>

Stale(name, part) == stored[name] # <<>> /\ stored[name][1].data[part] < version[part]

\* What of a watched table a stored result has to contain to be current, leaving
\* aside the changes that were under way when its transaction began: they carry
\* an older time than it, and when they commit too late to be read, they are
\* never noticed.
Covers(name, wanted) ==
    /\ stored[name] # <<>>
    /\ LET row == stored[name][1]
       IN  \A part \in Uses(name) : TableOf(part) \in Watched(name) =>
              row.data[part] + Cardinality({c \in row.open : c[1] = part}) >= wanted[part]

\* A stored result of an event, a challenge or the series that lacks a change
\* of a table it watches is computed again when it is next asked for.
StaleIsNoticed ==
    \A name \in Results \ {"champ"} : NeedUpdate(name) \/ Covers(name, version)

\* "If the series is active and the data in the regular tables is more up to
\* date, we regenerate the values": whatever table and result it is.  The
\* championship is put together in several transactions.
AnyChangeIsNoticed ==
    \A name \in Results : \A part \in Uses(name) :
       Stale(name, part) => NeedUpdate(name)

\* A page shows every change of a watched table that was committed before the
\* page was asked for; the page of the championship aside, see AnyChangeIsNoticed.
PageIsCurrent ==
    [][\A r \in Requests : request[r] # <<>> /\ request'[r] = <<>> /\ request[r][1].name # "champ"
          => Covers(request[r][1].name, request[r][1].asked)]_vars

\* Once nothing changes any more, the stored results of what is asked for
\* become those of the data, though requests overwrite each other's rows.
CatchesUp ==
    \A name \in Names \ {"champ"} : <>[]Covers(name, version)

\* And they are not computed any more, unless the log never had an entry of
\* their tables.
ComesToRest ==
    \A name \in Names :
       <>[](NeedUpdate(name) => \A table \in Watched(name) : logged[table] = 0)
=============================================================================
