------------------------ MODULE SeriesTables_proofs -------------------------
(***************************************************************************)
(* What the calls of SeriesTables do to a connection, whatever the data,   *)
(* the statement's success and the state of autocommit: the facts the      *)
(* theorems of the applications rest on.                                   *)
(***************************************************************************)
EXTENDS SeriesTables, SequenceTheorems, TLAPS

\* What every call keeps true of a connection c: it has its type, the orders it
\* reads are the committed ones and meet the constraint, and with autocommit on
\* there is no open transaction.
Sound(c) ==
    /\ c \in ConnectionOf(Contents)
    /\ c.view.order = c.saved.order
    /\ OneEntryPerCourse(c.saved.order)
    /\ c.auto => ~c.aborted /\ c.view = c.saved

LEMMA NoContentsType == NoContents \in Contents
  BY EmptySeq DEF NoContents, Contents

LEMMA OpenedSound ==
  ASSUME NEW data \in Contents, OneEntryPerCourse(data.order)
  PROVE  Sound(Opened(data))
  BY DEF Sound, Opened, ConnectionOf

LEMMA NoContentsSound == Sound(Opened(NoContents))
  <1>1. OneEntryPerCourse(NoContents.order)
    BY DEF NoContents, OneEntryPerCourse, IsInjective, Contains
  <1>2. QED
    BY <1>1, NoContentsType, OpenedSound

\* A statement that leaves the orders alone keeps a connection sound.
LEMMA ExecuteSound ==
  ASSUME NEW c, Sound(c), NEW data \in Contents, data.order = c.view.order,
         NEW ok \in BOOLEAN
  PROVE  /\ Sound(Execute(c, data, ok))
         /\ Execute(c, data, ok).auto = c.auto
  BY DEF Sound, Execute, ConnectionOf, Contents

\* The transaction around an update of the orders: it commits a view that meets
\* the constraint or takes everything back.
LEMMA TransactionSound ==
  ASSUME NEW c, Sound(c), NEW data \in Contents, NEW ok \in BOOLEAN
  PROVE  Sound(Transaction(c, data, ok, OneEntryPerCourse(data.order)))
  <1> DEFINE executed == Execute(Start(c), data, ok)
             accepted == OneEntryPerCourse(data.order)
             committed == Commit(executed, accepted)
  <1>1. /\ executed \in ConnectionOf(Contents)
        /\ executed.saved = c.saved
        /\ ~executed.auto
        /\ ~executed.aborted => executed.view = data
    BY DEF Sound, Execute, Start, ConnectionOf
  <1>2. accepted \in BOOLEAN
    BY DEF OneEntryPerCourse
  <1>3. Sound(Rollback(executed))
    BY <1>1 DEF Sound, Rollback, ConnectionOf
  <1>4. CASE executed.aborted
    BY <1>1, <1>3, <1>4 DEF Transaction
  <1>5. CASE ~executed.aborted /\ accepted
    <2>1. Transaction(c, data, ok, accepted) = committed
      BY <1>1, <1>5 DEF Transaction, Commit, ConnectionOf
    <2>2. Sound(committed)
      BY <1>1, <1>5 DEF Sound, Commit, ConnectionOf
    <2>3. QED
      BY <2>1, <2>2
  <1>6. CASE ~executed.aborted /\ ~accepted
    <2>1. Transaction(c, data, ok, accepted) = Rollback(committed)
      BY <1>1, <1>6 DEF Transaction, Commit, ConnectionOf
    <2>2. Sound(Rollback(committed))
      BY <1>1, <1>6 DEF Sound, Commit, Rollback, ConnectionOf
    <2>3. QED
      BY <2>1, <2>2
  <1>7. QED
    BY <1>2, <1>4, <1>5, <1>6

LEMMA SetRunOrderSound ==
  ASSUME NEW c, Sound(c), NEW key \in Keys, NEW cars \in Seq(Cars), NEW ok \in BOOLEAN
  PROVE  Sound(SetRunOrder(c, key, cars, ok))
  <1> DEFINE data == [c.view EXCEPT !.order[key] = cars]
  <1>1. data \in Contents
    BY DEF Sound, ConnectionOf, Contents
  <1>2. QED
    BY <1>1, TransactionSound DEF SetRunOrder

LEMMA RegisterCarSound ==
  ASSUME NEW c, Sound(c), NEW event \in Events, NEW car \in Cars, NEW ok \in BOOLEAN
  PROVE  /\ Sound(RegisterCar(c, event, car, ok))
         /\ RegisterCar(c, event, car, ok).auto = c.auto
  <1> DEFINE data == [c.view EXCEPT !.registered = @ \union {<<event, car>>}]
  <1>1. <<event, car>> \in Events \X Cars
    OBVIOUS
  <1>2. c.view.registered \union {<<event, car>>} \in SUBSET (Events \X Cars)
    BY <1>1 DEF Sound, ConnectionOf, Contents
  <1>3. data \in Contents /\ data.order = c.view.order
    BY <1>2 DEF Sound, ConnectionOf, Contents
  <1>4. QED
    BY <1>3, ExecuteSound DEF RegisterCar

LEMMA SetRunsSound ==
  ASSUME NEW c, Sound(c), NEW key, key[1] \in Events, key[2] \in Courses,
         NEW car \in Cars, NEW numbers \in SUBSET RunNums, NEW lost
  PROVE  /\ Sound(SetRuns(c, key, car, numbers, lost))
         /\ SetRuns(c, key, car, numbers, lost).auto = c.auto
  <1> DEFINE stored == [event : {key[1]}, course : {key[2]}, car : {car}, run : numbers \ lost]
             kept == [c EXCEPT !.aborted = @ \/ (~c.auto /\ lost # {})]
             data == [c.view EXCEPT !.runs = @ \union stored]
  <1>1. stored \subseteq RunKeys
    BY DEF RunKeys
  <1>2. Sound(kept) /\ kept.auto = c.auto /\ kept.view = c.view
    BY DEF Sound, ConnectionOf
  <1>3. data \in Contents /\ data.order = kept.view.order
    BY <1>1, <1>2 DEF Sound, ConnectionOf, Contents
  <1>4. QED
    BY <1>2, <1>3, ExecuteSound DEF SetRuns

LEMMA DeleteRunSound ==
  ASSUME NEW c, Sound(c), NEW key, NEW car, NEW number, NEW ok \in BOOLEAN
  PROVE  /\ Sound(DeleteRun(c, key, car, number, ok))
         /\ DeleteRun(c, key, car, number, ok).auto = c.auto
  <1> DEFINE run == [event |-> key[1], course |-> key[2], car |-> car, run |-> number]
             data == [c.view EXCEPT !.runs = @ \ {run}]
  <1>1. data \in Contents /\ data.order = c.view.order
    BY DEF Sound, ConnectionOf, Contents
  <1>2. QED
    BY <1>1, ExecuteSound DEF DeleteRun

-----------------------------------------------------------------------------
(* Recorded runs.  A connection keeps the runs when those it reads include     *)
(* the committed ones: no call but DeleteRun then loses any.                   *)

KeepsRuns(c) == c.saved.runs \subseteq c.view.runs

LEMMA ExecuteKeeps ==
  ASSUME NEW c, Sound(c), KeepsRuns(c), NEW data \in Contents,
         c.view.runs \subseteq data.runs, NEW ok \in BOOLEAN
  PROVE  /\ KeepsRuns(Execute(c, data, ok))
         /\ c.saved.runs \subseteq Execute(c, data, ok).saved.runs
  BY DEF Sound, KeepsRuns, Execute, ConnectionOf

LEMMA SetRunOrderKeeps ==
  ASSUME NEW c, Sound(c), KeepsRuns(c), NEW key \in Keys, NEW cars \in Seq(Cars),
         NEW ok \in BOOLEAN
  PROVE  c.saved.runs \subseteq SetRunOrder(c, key, cars, ok).saved.runs
  <1> DEFINE data == [c.view EXCEPT !.order[key] = cars]
             accepted == OneEntryPerCourse(data.order)
             executed == Execute(Start(c), data, ok)
             committed == Commit(executed, accepted)
  <1>1. data \in Contents /\ data.runs = c.view.runs
    BY DEF Sound, ConnectionOf, Contents
  <1>2. /\ executed \in ConnectionOf(Contents)
        /\ executed.saved = c.saved
        /\ executed.view = data \/ executed.view = c.view
    BY <1>1 DEF Sound, Execute, Start, ConnectionOf
  <1>3. committed.saved = executed.saved \/ committed.saved = executed.view
    BY <1>2 DEF Commit, ConnectionOf
  <1>4. \/ SetRunOrder(c, key, cars, ok).saved = executed.saved
        \/ SetRunOrder(c, key, cars, ok).saved = executed.view
    <2>1. \A d \in ConnectionOf(Contents) : Rollback(d).saved = d.saved
      BY DEF Rollback, ConnectionOf
    <2>2. committed \in ConnectionOf(Contents)
      BY <1>2 DEF Commit, ConnectionOf
    <2>3. SetRunOrder(c, key, cars, ok).saved \in {executed.saved, committed.saved}
      <3> HIDE DEF data, accepted
      <3>1. SetRunOrder(c, key, cars, ok) = Transaction(c, data, ok, accepted)
        BY DEF SetRunOrder, data, accepted
      <3>2. QED
        BY <3>1, <2>1, <2>2, <1>2 DEF Transaction
    <2>4. QED
      BY <2>3, <1>3
  <1>5. QED
    BY <1>1, <1>2, <1>4 DEF KeepsRuns

LEMMA RegisterCarKeeps ==
  ASSUME NEW c, Sound(c), KeepsRuns(c), NEW event \in Events, NEW car \in Cars,
         NEW ok \in BOOLEAN
  PROVE  /\ KeepsRuns(RegisterCar(c, event, car, ok))
         /\ c.saved.runs \subseteq RegisterCar(c, event, car, ok).saved.runs
  <1> DEFINE data == [c.view EXCEPT !.registered = @ \union {<<event, car>>}]
  <1>1. c.view.registered \union {<<event, car>>} \in SUBSET (Events \X Cars)
    <2>1. <<event, car>> \in Events \X Cars
      OBVIOUS
    <2>2. QED
      BY <2>1 DEF Sound, ConnectionOf, Contents
  <1>2. data \in Contents /\ data.runs = c.view.runs
    BY <1>1 DEF Sound, ConnectionOf, Contents
  <1>3. QED
    BY <1>2, ExecuteKeeps DEF RegisterCar

LEMMA SetRunsKeeps ==
  ASSUME NEW c, Sound(c), KeepsRuns(c), NEW key, key[1] \in Events, key[2] \in Courses,
         NEW car \in Cars, NEW numbers \in SUBSET RunNums, NEW lost
  PROVE  /\ KeepsRuns(SetRuns(c, key, car, numbers, lost))
         /\ c.saved.runs \subseteq SetRuns(c, key, car, numbers, lost).saved.runs
  <1> DEFINE stored == [event : {key[1]}, course : {key[2]}, car : {car}, run : numbers \ lost]
             kept == [c EXCEPT !.aborted = @ \/ (~c.auto /\ lost # {})]
             data == [c.view EXCEPT !.runs = @ \union stored]
  <1>1. stored \subseteq RunKeys
    BY DEF RunKeys
  <1>2. Sound(kept) /\ KeepsRuns(kept) /\ kept.view = c.view /\ kept.saved = c.saved
    BY DEF Sound, KeepsRuns, ConnectionOf
  <1>3. data \in Contents /\ kept.view.runs \subseteq data.runs
    BY <1>1, <1>2 DEF Sound, ConnectionOf, Contents
  <1>4. QED
    BY <1>2, <1>3, ExecuteKeeps DEF SetRuns

-----------------------------------------------------------------------------
(* An update of an order that meets the constraint, on a connection the server *)
(* still listens to, is stored with everything that waited for a commit.       *)

LEMMA SetRunOrderStores ==
  ASSUME NEW c, Sound(c), ~c.aborted, NEW key \in Keys, NEW cars \in Seq(Cars),
         OneEntryPerCourse([c.view.order EXCEPT ![key] = cars])
  PROVE  /\ SetRunOrder(c, key, cars, TRUE).auto
         /\ SetRunOrder(c, key, cars, TRUE).saved.runs = c.view.runs
  <1> DEFINE data == [c.view EXCEPT !.order[key] = cars]
             executed == Execute(Start(c), data, TRUE)
  <1>1. data.order = [c.view.order EXCEPT ![key] = cars]
    BY DEF Sound, ConnectionOf, Contents
  <1>2. OneEntryPerCourse(data.order)
    BY <1>1
  <1>3. ~executed.aborted /\ executed.view = data
    BY DEF Sound, Execute, Start, ConnectionOf
  <1>4. Commit(executed, TRUE).auto /\ Commit(executed, TRUE).saved = data
    BY <1>3 DEF Sound, Commit, Execute, Start, ConnectionOf
  <1>5. OneEntryPerCourse(data.order) = TRUE
    BY <1>2 DEF OneEntryPerCourse
  <1> HIDE DEF data, executed
  <1>6. Transaction(c, data, TRUE, TRUE) = Commit(executed, TRUE)
    BY <1>3, <1>4 DEF Transaction, executed
  <1>7. SetRunOrder(c, key, cars, TRUE) = Transaction(c, data, TRUE, TRUE)
    BY <1>5 DEF SetRunOrder, data
  <1>8. data.runs = c.view.runs
    BY DEF data, Sound, ConnectionOf, Contents
  <1>9. QED
    BY <1>4, <1>6, <1>7, <1>8

\* A car that is nowhere on the course may be added to one of its groups.
LEMMA AppendMeetsConstraint ==
  ASSUME NEW order \in [Keys -> Seq(Cars)], OneEntryPerCourse(order),
         NEW key \in Keys, NEW car \in Cars,
         \A g \in Groups : ~Contains(order[<<key[1], key[2], g>>], car)
  PROVE  OneEntryPerCourse([order EXCEPT ![key] = Append(order[key], car)])
  <1> DEFINE longer == Append(order[key], car)
             new == [order EXCEPT ![key] = longer]
  <1>1. /\ Len(order[key]) \in Nat /\ DOMAIN order[key] = 1..Len(order[key])
        /\ longer \in Seq(Cars) /\ Len(longer) = Len(order[key]) + 1
        /\ \A i \in 1..Len(order[key]) : longer[i] = order[key][i]
        /\ longer[Len(order[key]) + 1] = car
    BY AppendProperties, LenProperties
  <1>2. DOMAIN longer = 1..(Len(order[key]) + 1)
    BY <1>1, LenProperties
  <1>3. new[key] = longer /\ \A k \in Keys : k # key => new[k] = order[k]
    OBVIOUS
  <1>4. \A k \in Keys : k[1] = key[1] /\ k[2] = key[2] => ~Contains(order[k], car)
    BY DEF Keys
  <1>5. \A k \in Keys : IsInjective(new[k])
    <2>1. IsInjective(longer)
      BY <1>1, <1>2, <1>4 DEF IsInjective, Contains, OneEntryPerCourse
    <2>2. QED
      BY <2>1, <1>3 DEF OneEntryPerCourse
  <1>6. ASSUME NEW k \in Keys, NEW l \in Keys, k[1] = l[1], k[2] = l[2], k # l,
               NEW i \in DOMAIN new[k]
        PROVE  ~Contains(new[l], new[k][i])
    <2>1. CASE k = key
      <3>1. new[l] = order[l] /\ ~Contains(order[l], car)
        BY <1>3, <1>4, <1>6, <2>1
      <3>2. CASE i = Len(order[key]) + 1
        BY <1>1, <1>3, <2>1, <3>1, <3>2
      <3>3. CASE i \in DOMAIN order[key]
        BY <1>1, <1>3, <1>6, <2>1, <3>1, <3>3 DEF OneEntryPerCourse
      <3>4. QED
        BY <1>1, <1>2, <1>3, <2>1, <3>2, <3>3
    <2>2. CASE l = key
      <3>1. new[k] = order[k] /\ ~Contains(order[k], car) /\ ~Contains(order[key], order[k][i])
        BY <1>3, <1>4, <1>6, <2>2 DEF OneEntryPerCourse
      <3>2. order[k][i] # car
        <4>1. DOMAIN order[k] = 1..Len(order[k])
          BY LenProperties
        <4>2. QED
          BY <4>1, <3>1 DEF Contains
      <3>3. QED
        BY <1>1, <1>3, <2>2, <3>1, <3>2 DEF Contains
    <2>3. CASE k # key /\ l # key
      BY <1>3, <1>6, <2>3 DEF OneEntryPerCourse
    <2>4. QED
      BY <2>1, <2>2, <2>3
  <1>7. QED
    BY <1>5, <1>6 DEF OneEntryPerCourse
-----------------------------------------------------------------------------
(* Run orders.  Only setRunOrder changes them, and only when it is accepted.  *)

LEMMA ExecuteOrders ==
  ASSUME NEW c, Sound(c), NEW data \in Contents, data.order = c.view.order,
         NEW ok \in BOOLEAN
  PROVE  /\ Execute(c, data, ok).saved.order = c.saved.order
         /\ Execute(c, data, ok).auto = c.auto
  BY DEF Sound, Execute, ConnectionOf, Contents

LEMMA RegisterCarOrders ==
  ASSUME NEW c, Sound(c), NEW event \in Events, NEW car \in Cars, NEW ok \in BOOLEAN
  PROVE  /\ RegisterCar(c, event, car, ok).saved.order = c.saved.order
         /\ RegisterCar(c, event, car, ok).view.runs = c.view.runs
  <1> DEFINE data == [c.view EXCEPT !.registered = @ \union {<<event, car>>}]
  <1>1. c.view.registered \union {<<event, car>>} \in SUBSET (Events \X Cars)
    <2>1. <<event, car>> \in Events \X Cars
      OBVIOUS
    <2>2. QED
      BY <2>1 DEF Sound, ConnectionOf, Contents
  <1>2. data \in Contents /\ data.order = c.view.order /\ data.runs = c.view.runs
    BY <1>1 DEF Sound, ConnectionOf, Contents
  <1>3. Execute(c, data, ok).view.runs = c.view.runs
    BY <1>2 DEF Execute, Sound, ConnectionOf
  <1>4. QED
    BY <1>2, <1>3, ExecuteOrders DEF RegisterCar

LEMMA SetRunsOrders ==
  ASSUME NEW c, Sound(c), NEW key, key[1] \in Events, key[2] \in Courses,
         NEW car \in Cars, NEW numbers \in SUBSET RunNums, NEW lost
  PROVE  SetRuns(c, key, car, numbers, lost).saved.order = c.saved.order
  <1> DEFINE stored == [event : {key[1]}, course : {key[2]}, car : {car}, run : numbers \ lost]
             kept == [c EXCEPT !.aborted = @ \/ (~c.auto /\ lost # {})]
             data == [c.view EXCEPT !.runs = @ \union stored]
  <1>1. stored \subseteq RunKeys
    BY DEF RunKeys
  <1>2. Sound(kept) /\ kept.view = c.view /\ kept.saved = c.saved
    BY DEF Sound, ConnectionOf
  <1>3. data \in Contents /\ data.order = kept.view.order
    BY <1>1, <1>2 DEF Sound, ConnectionOf, Contents
  <1>4. SetRuns(c, key, car, numbers, lost) = Execute(kept, data, TRUE)
    BY DEF SetRuns
  <1> HIDE DEF kept, data
  <1>5. QED
    BY <1>2, <1>3, <1>4, ExecuteOrders

LEMMA DeleteRunOrders ==
  ASSUME NEW c, Sound(c), NEW key, NEW car, NEW number, NEW ok \in BOOLEAN
  PROVE  DeleteRun(c, key, car, number, ok).saved.order = c.saved.order
  <1> DEFINE run == [event |-> key[1], course |-> key[2], car |-> car, run |-> number]
             data == [c.view EXCEPT !.runs = @ \ {run}]
  <1>1. data \in Contents /\ data.order = c.view.order
    BY DEF Sound, ConnectionOf, Contents
  <1>2. QED
    BY <1>1, ExecuteOrders DEF DeleteRun

LEMMA SetRunOrderOutcome ==
  ASSUME NEW c, Sound(c), NEW key \in Keys, NEW cars \in Seq(Cars), NEW ok \in BOOLEAN,
         NEW r, r = SetRunOrder(c, key, cars, ok)
  PROVE  \/ /\ r.auto
            /\ r.saved.order = [c.saved.order EXCEPT ![key] = cars]
            /\ r.saved.runs = c.view.runs
         \/ ~r.auto /\ r.saved = c.saved
  <1> DEFINE data == [c.view EXCEPT !.order[key] = cars]
             accepted == OneEntryPerCourse(data.order)
             executed == Execute(Start(c), data, ok)
             committed == Commit(executed, accepted)
  <1>1. /\ data \in Contents /\ data.runs = c.view.runs
        /\ data.order = [c.saved.order EXCEPT ![key] = cars]
    BY DEF Sound, ConnectionOf, Contents
  <1>2. /\ executed \in ConnectionOf(Contents)
        /\ executed.saved = c.saved /\ ~executed.auto
        /\ ~executed.aborted => executed.view = data
    BY <1>1 DEF Sound, Execute, Start, ConnectionOf
  <1>3. r = Transaction(c, data, ok, accepted)
    BY DEF SetRunOrder
  <1>4. \A d \in ConnectionOf(Contents) :
           Rollback(d).saved = d.saved /\ Rollback(d).auto = d.auto
    BY DEF Rollback, ConnectionOf
  <1> HIDE DEF data, executed
  <1>5. accepted \in BOOLEAN
    BY DEF OneEntryPerCourse
  <1> HIDE DEF accepted
  <1>6. CASE executed.aborted
    <2>1. r = Rollback(executed)
      BY <1>2, <1>3, <1>6 DEF Transaction, executed
    <2>2. QED
      BY <1>2, <1>4, <2>1
  <1>7. CASE ~executed.aborted /\ accepted
    <2>1. committed.auto /\ committed.saved = data
      BY <1>2, <1>7 DEF Commit, ConnectionOf
    <2>2. r = committed
      BY <1>3, <1>7, <2>1 DEF Transaction, executed
    <2>3. QED
      BY <1>1, <2>1, <2>2
  <1>8. CASE ~executed.aborted /\ ~accepted
    <2>1. /\ committed \in ConnectionOf(Contents)
          /\ ~committed.auto /\ committed.saved = executed.saved
      BY <1>2, <1>8 DEF Commit, ConnectionOf
    <2>2. r = Rollback(committed)
      BY <1>3, <1>8, <2>1 DEF Transaction, executed
    <2>3. QED
      BY <1>2, <1>4, <2>1, <2>2
  <1>9. QED
    BY <1>5, <1>6, <1>7, <1>8

-----------------------------------------------------------------------------
(* Runs written and deleted with autocommit on are the recorded ones at once.  *)

LEMMA SetRunsRecords ==
  ASSUME NEW c, Sound(c), c.auto, NEW key, key[1] \in Events, key[2] \in Courses,
         NEW car \in Cars, NEW numbers \in SUBSET RunNums,
         NEW r, r = SetRuns(c, key, car, numbers, {})
  PROVE  /\ RunsOf(r.view, key, car) = RunsOf(c.saved, key, car) \union numbers
         /\ \A other \in Cars \ {car} : RunsOf(r.view, key, other) = RunsOf(c.saved, key, other)
         /\ r.saved = r.view
  <1> DEFINE stored == [event : {key[1]}, course : {key[2]}, car : {car}, run : numbers \ {}]
             kept == [c EXCEPT !.aborted = @ \/ (~c.auto /\ {} # {})]
             data == [c.view EXCEPT !.runs = @ \union stored]
  <1>1. /\ c \in ConnectionOf(Contents) /\ ~c.aborted /\ c.view = c.saved
        /\ c.saved.runs \in SUBSET RunKeys
    BY DEF Sound, ConnectionOf, Contents
  <1>2. r = Execute(kept, data, TRUE)
    BY DEF SetRuns
  <1>3. kept \in ConnectionOf(Contents) /\ ~kept.aborted /\ kept.auto
    BY <1>1 DEF ConnectionOf
  <1>4. r.view = data /\ r.saved = data
    <2> HIDE DEF kept, data
    <2>1. QED
      BY <1>2, <1>3 DEF Execute, ConnectionOf
  <1>5. data.runs = c.saved.runs \union stored
    BY <1>1 DEF ConnectionOf, Contents
  <1>6. RunsOf(data, key, car) = RunsOf(c.saved, key, car) \union numbers
    <2>1. \A n \in RunNums :
             [event |-> key[1], course |-> key[2], car |-> car, run |-> n] \in stored <=> n \in numbers
      OBVIOUS
    <2> HIDE DEF stored, data
    <2>2. QED
      BY <1>5, <2>1 DEF RunsOf
  <1>7. ASSUME NEW other \in Cars \ {car}
        PROVE  RunsOf(data, key, other) = RunsOf(c.saved, key, other)
    <2>1. \A n : [event |-> key[1], course |-> key[2], car |-> other, run |-> n] \notin stored
      OBVIOUS
    <2> HIDE DEF stored, data
    <2>2. QED
      BY <1>5, <2>1 DEF RunsOf
  <1>8. QED
    BY <1>4, <1>6, <1>7

RunDeleted(c, key, car, number) == DeleteRun(c, key, car, number, TRUE)

LEMMA DeleteRunRecords ==
  ASSUME NEW c, Sound(c), c.auto, NEW key \in Keys, NEW car \in Cars, NEW number \in RunNums,
         NEW r, r = RunDeleted(c, key, car, number)
  PROVE  /\ RunsOf(r.saved, key, car) = RunsOf(c.saved, key, car) \ {number}
         /\ \A other \in Cars \ {car} : RunsOf(r.saved, key, other) = RunsOf(c.saved, key, other)
  <1> DEFINE run == [event |-> key[1], course |-> key[2], car |-> car, run |-> number]
             data == [c.view EXCEPT !.runs = @ \ {run}]
  <1>1. c \in ConnectionOf(Contents) /\ ~c.aborted /\ c.view = c.saved
    BY DEF Sound
  <1>2. r = Execute(c, data, TRUE)
    BY DEF DeleteRun, RunDeleted
  <1>3. r.saved = data
    <2> HIDE DEF data
    <2>1. QED
      BY <1>1, <1>2 DEF Execute, ConnectionOf
  <1>4. data.runs = c.saved.runs \ {run}
    BY <1>1 DEF ConnectionOf, Contents
  <1>5. RunsOf(data, key, car) = RunsOf(c.saved, key, car) \ {number}
    <2>1. \A n : [event |-> key[1], course |-> key[2], car |-> car, run |-> n] = run <=> n = number
      OBVIOUS
    <2> HIDE DEF run, data
    <2>2. QED
      BY <1>4, <2>1 DEF RunsOf
  <1>6. ASSUME NEW other \in Cars \ {car}
        PROVE  RunsOf(data, key, other) = RunsOf(c.saved, key, other)
    <2>1. \A n : [event |-> key[1], course |-> key[2], car |-> other, run |-> n] # run
      BY <1>6
    <2> HIDE DEF run, data
    <2>2. QED
      BY <1>4, <2>1 DEF RunsOf
  <1>7. QED
    BY <1>3, <1>5, <1>6

-----------------------------------------------------------------------------
(* What the order of one group may become. *)

LEMMA ChangeMeetsConstraint ==
  ASSUME NEW order \in [Keys -> Seq(Cars)], OneEntryPerCourse(order),
         NEW key \in Keys, NEW cars \in Seq(Cars), IsInjective(cars),
         \A i \in DOMAIN cars : \A k \in Keys \ {key} :
            k[1] = key[1] /\ k[2] = key[2] => ~Contains(order[k], cars[i])
  PROVE  OneEntryPerCourse([order EXCEPT ![key] = cars])
  <1> DEFINE new == [order EXCEPT ![key] = cars]
  <1>1. new[key] = cars /\ \A k \in Keys : k # key => new[k] = order[k]
    OBVIOUS
  <1>2. \A k \in Keys : IsInjective(new[k])
    BY <1>1 DEF OneEntryPerCourse
  <1> HIDE DEF new
  <1>3. ASSUME NEW k \in Keys, NEW l \in Keys, k[1] = l[1], k[2] = l[2], k # l,
               NEW i \in DOMAIN new[k]
        PROVE  ~Contains(new[l], new[k][i])
    <2>1. CASE k = key
      BY <1>1, <1>3, <2>1
    <2>2. CASE l = key
      <3>1. new[k] = order[k] /\ new[l] = cars
        BY <1>1, <1>3, <2>2
      <3>2. ASSUME NEW j \in DOMAIN cars, cars[j] = order[k][i]
            PROVE  FALSE
        <4>1. i \in 1..Len(order[k])
          BY <1>3, <3>1, LenProperties
        <4>2. Contains(order[k], cars[j])
          BY <3>2, <4>1 DEF Contains
        <4>3. QED
          BY <1>3, <2>2, <4>2
      <3>3. DOMAIN cars = 1..Len(cars)
        BY LenProperties
      <3>4. QED
        BY <3>1, <3>2, <3>3 DEF Contains
    <2>3. CASE k # key /\ l # key
      BY <1>1, <1>3, <2>3 DEF OneEntryPerCourse
    <2>4. QED
      BY <2>1, <2>2, <2>3
  <1>4. QED
    BY <1>2, <1>3 DEF OneEntryPerCourse, new

\* A car that is nowhere on the course may take the place of another.
LEMMA ReplaceMeetsConstraint ==
  ASSUME NEW order \in [Keys -> Seq(Cars)], OneEntryPerCourse(order),
         NEW key \in Keys, NEW i \in DOMAIN order[key], NEW car \in Cars,
         \A g \in Groups : ~Contains(order[<<key[1], key[2], g>>], car)
  PROVE  OneEntryPerCourse([order EXCEPT ![key] = [order[key] EXCEPT ![i] = car]])
  <1> DEFINE old == order[key]
             cars == [old EXCEPT ![i] = car]
  <1>1. /\ old \in Seq(Cars) /\ Len(old) \in Nat /\ DOMAIN old = 1..Len(old)
        /\ i \in 1..Len(old)
    BY LenProperties
  <1>2. cars \in Seq(Cars) /\ DOMAIN cars = DOMAIN old
    BY <1>1, ExceptSeq
  <1>3. \A k \in Keys : k[1] = key[1] /\ k[2] = key[2] => ~Contains(order[k], car)
    BY DEF Keys
  <1>4. /\ cars[i] = car /\ \A j \in DOMAIN old \ {i} : cars[j] = old[j]
        /\ \A j \in DOMAIN old : old[j] # car
    BY <1>1, <1>3 DEF Contains
  <1>5. IsInjective(old)
    BY DEF OneEntryPerCourse
  <1> HIDE DEF cars
  <1>6. IsInjective(cars)
    BY <1>2, <1>4, <1>5 DEF IsInjective
  <1>7. ASSUME NEW j \in DOMAIN cars, NEW k \in Keys \ {key}, k[1] = key[1], k[2] = key[2]
        PROVE  ~Contains(order[k], cars[j])
    <2>1. CASE j = i
      BY <1>3, <1>4, <1>7, <2>1
    <2>2. CASE j # i
      BY <1>2, <1>4, <1>7, <2>2 DEF OneEntryPerCourse
    <2>3. QED
      BY <2>1, <2>2
  <1>8. OneEntryPerCourse([order EXCEPT ![key] = cars])
    BY <1>2, <1>6, <1>7, ChangeMeetsConstraint
  <1>9. QED
    BY <1>8 DEF cars

\* A group may be left with some of its cars, in any order.
LEMMA FewerMeetConstraint ==
  ASSUME NEW order \in [Keys -> Seq(Cars)], OneEntryPerCourse(order),
         NEW key \in Keys, NEW cars \in Seq(Cars), IsInjective(cars),
         \A i \in DOMAIN cars : \E j \in DOMAIN order[key] : cars[i] = order[key][j]
  PROVE  OneEntryPerCourse([order EXCEPT ![key] = cars])
  <1>1. ASSUME NEW i \in DOMAIN cars, NEW k \in Keys \ {key}, k[1] = key[1], k[2] = key[2]
        PROVE  ~Contains(order[k], cars[i])
    BY <1>1 DEF OneEntryPerCourse
  <1>2. QED
    BY <1>1, ChangeMeetsConstraint
=============================================================================
