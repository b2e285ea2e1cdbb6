-------------------------- MODULE Challenge_proofs --------------------------
(***************************************************************************)
(* Theorems about the challenge with any bracket, any cars and times and   *)
(* any number of runs and moves: the two courses wait for the two cars of  *)
(* a round, an application that is started again shows the rounds as they  *)
(* were, and a finished round sends its cars on as the web server would,   *)
(* winner and loser apart.                                                 *)
(*                                                                         *)
(* A handler works on memory and database through several operators        *)
(* before its step is done. Good says of memory and database in between    *)
(* that every round that will be settled after the step is in agreement;   *)
(* Outcome, that a round which has all its runs now was looked at.         *)
(***************************************************************************)
EXTENDS Challenge, NaturalsInduction, SequenceTheorems, WellFoundedInduction, TLAPS

Databases == [rounds : [Rounds -> RoundColumns],
              runs : [Opened \X Cars \X Sides -> Runs \union {NoRun}]]

\* Where memory shows what is read from the database.
AgreesColumns(s, r) == \A level \in Levels :
    /\ s.db.rounds[r][level].car = s.rounds[r][level].car
    /\ s.db.rounds[r][level].dial = s.rounds[r][level].dial

AgreesRuns(s, r) == \A side \in Sides :
    /\ s.rounds[r].upper[side] = LoadedRun(s.db, r, s.rounds[r].upper.car, side)
    /\ s.rounds[r].lower[side] = IF s.rounds[r].lower.car = s.rounds[r].upper.car THEN NoRun
                                 ELSE LoadedRun(s.db, r, s.rounds[r].lower.car, side)

Agrees(s, r) == AgreesColumns(s, r) /\ AgreesRuns(s, r)

\* A run is stored under its own car.
RunsOwn(db) == \A r \in Opened, car \in Cars, side \in Sides :
    db.runs[<<r, car, side>>] # NoRun => db.runs[<<r, car, side>>].car = car

Known(round) == Nullid \notin {round.upper.car, round.lower.car}

\* The round will be settled when the handler ends in s.
WillSettle(s, r) ==
    /\ r \notin mixed /\ Known(s.rounds[r])
    /\ SameCars(rounds[r], s.rounds[r]) \/ ~HasRuns(rounds[r], stored, r)

States == [rounds : [Rounds -> ChallengeRounds], db : Databases]
StateOK(s) == s \in States /\ RunsOwn(s.db)

Good(s) == StateOK(s) /\ \A r \in Rounds : WillSettle(s, r) => Agrees(s, r)

\* The handler has not come to this round yet.
Untouched(s, r) ==
    /\ s.rounds[r] = rounds[r]
    /\ \A car \in Cars, side \in Sides :
          r \in Opened => s.db.runs[<<r, car, side>>] = stored.runs[<<r, car, side>>]

\* A part of the handler leaves the round alone.
Same(one, two, r) ==
    /\ two.rounds[r] = one.rounds[r] /\ two.db.rounds[r] = one.db.rounds[r]
    /\ \A car \in Cars, side \in Sides :
          r \in Opened => two.db.runs[<<r, car, side>>] = one.db.runs[<<r, car, side>>]

USE ChallengeAssumption, NoRunAssumption

-----------------------------------------------------------------------------
(* Rounds, entries and runs. *)

LEMMA LevelFacts ==
  /\ Levels = {"upper", "lower"} /\ Sides = {"left", "right"}
  /\ \A level \in Levels : Other(level) \in Levels /\ Other(level) # level
                           /\ Other(Other(level)) = level
  BY DEF Levels, Sides, Other

LEMMA RoundFacts ==
  ASSUME NEW round \in ChallengeRounds, NEW level \in Levels
  PROVE  /\ round[level] \in Entries /\ round.upper \in Entries /\ round.lower \in Entries
         /\ round[level].car \in Places /\ round[level].dial \in Int
         /\ \A side \in Sides : round[level][side] \in Runs \union {NoRun}
         /\ round.swapped \in BOOLEAN
  BY DEF ChallengeRounds, Entries, Levels, Sides

LEMMA EntryChanged ==
  ASSUME NEW round \in ChallengeRounds, NEW level \in Levels, NEW entry \in Entries
  PROVE  /\ [round EXCEPT ![level] = entry] \in ChallengeRounds
         /\ [round EXCEPT ![level] = entry][level] = entry
         /\ [round EXCEPT ![level] = entry][Other(level)] = round[Other(level)]
         /\ [round EXCEPT ![level] = entry].swapped = round.swapped
  BY DEF ChallengeRounds, Levels, Other

LEMMA RunChanged ==
  ASSUME NEW entry \in Entries, NEW side \in Sides, NEW run \in Runs \union {NoRun}
  PROVE  /\ [entry EXCEPT ![side] = run] \in Entries
         /\ [entry EXCEPT ![side] = run].car = entry.car
         /\ [entry EXCEPT ![side] = run].dial = entry.dial
         /\ [entry EXCEPT ![side] = run][side] = run
         /\ \A other \in Sides : other # side => [entry EXCEPT ![side] = run][other] = entry[other]
  BY DEF Entries, Sides

-----------------------------------------------------------------------------
(* The queues of targets. *)

QueuesOK == targets \in [Sides -> Seq(OpenedTargets)] /\ parted \in BOOLEAN

LEMMA FirstIndex ==
  ASSUME NEW S \in SUBSET Nat, S # {}
  PROVE  \E i \in S : \A j \in S : i <= j
  <1>1. PICK i \in S : \A j \in S : ~(<<j, i>> \in OpToRel(<, Nat))
    BY NatLessThanWellFounded, WFMin
  <1>2. \A j \in S : ~(j < i)
    BY <1>1 DEF OpToRel
  <1>3. QED
    BY <1>2

LEMMA WithoutType ==
  ASSUME NEW T, NEW queue \in Seq(T), NEW t,
         \E i \in DOMAIN queue : queue[i] = t
  PROVE  Without(queue, t) \in Seq(T)
  <1> DEFINE Found(i) == i \in DOMAIN queue /\ queue[i] = t /\ \A j \in 1 .. i - 1 : queue[j] # t
             at == CHOOSE i \in DOMAIN queue : queue[i] = t /\ \A j \in 1 .. i - 1 : queue[j] # t
             S == {i \in DOMAIN queue : queue[i] = t}
  <1>1. DOMAIN queue = 1 .. Len(queue) /\ Len(queue) \in Nat
    OBVIOUS
  <1>2. \E i \in DOMAIN queue : queue[i] = t /\ \A j \in 1 .. i - 1 : queue[j] # t
    <2>1. S \in SUBSET Nat /\ S # {}
      BY <1>1
    <2>2. PICK i \in S : \A j \in S : i <= j
      BY <2>1, FirstIndex
    <2>3. i \in DOMAIN queue /\ queue[i] = t
      BY <2>2
    <2>4. ASSUME NEW j \in 1 .. i - 1 PROVE queue[j] # t
      <3>1. j \in DOMAIN queue /\ ~(i <= j)
        BY <1>1, <2>3
      <3>2. QED
        BY <2>2, <3>1
    <2>5. QED
      BY <2>3, <2>4
  <1>3. at \in 1 .. Len(queue)
    BY <1>1, <1>2
  <1> HIDE DEF at
  <1>4. SubSeq(queue, 1, at - 1) \in Seq(T)
        /\ SubSeq(queue, at + 1, Len(queue)) \in Seq(T)
    BY <1>1, <1>3, SubSeqProperties
  <1>5. QED
    BY <1>4, ConcatProperties DEF Without, at

LEMMA StagedFacts ==
  ASSUME NEW r \in Opened, NEW topleft \in BOOLEAN
  PROVE  LET more == Staged(r, topleft)
         IN  /\ \A side \in Sides : more[side] \in Seq(OpenedTargets) /\ Len(more[side]) = 2
             /\ \A i \in 1 .. 2 : /\ more.left[i].round = r /\ more.right[i].round = r
                                  /\ more.left[i].level # more.right[i].level
  BY DEF Staged, Target, OpenedTargets, Other, Levels, Sides

LEMMA ActivatedType ==
  ASSUME QueuesOK, NEW t \in OpenedTargets
  PROVE  Activated(t) \in [Sides -> Seq(OpenedTargets)]
  <1> DEFINE more == Staged(t.round, (t.level = "upper") <=> (t.side = "left"))
             kept == IF Len(targets.left) > 1 THEN [side \in Sides |-> <<>>] ELSE targets
  <1>1. \A side \in Sides : more[side] \in Seq(OpenedTargets)
    BY StagedFacts DEF OpenedTargets
  <1>2. \A side \in Sides : kept[side] \in Seq(OpenedTargets)
    BY DEF QueuesOK
  <1> HIDE DEF more, kept
  <1>3. \A side \in Sides : kept[side] \o more[side] \in Seq(OpenedTargets)
    BY <1>1, <1>2, ConcatProperties
  <1>4. QED
    BY <1>3 DEF Activated, more, kept

\* Counted from the end.
LEMMA TailFromBehind ==
  ASSUME NEW T, NEW p \in Seq(T), p # <<>>
  PROVE  /\ Tail(p) \in Seq(T) /\ Len(Tail(p)) = Len(p) - 1
         /\ \A i \in 0 .. Len(Tail(p)) - 1 : Tail(p)[Len(Tail(p)) - i] = p[Len(p) - i]
  <1>1. /\ Tail(p) \in Seq(T) /\ Len(Tail(p)) = Len(p) - 1 /\ Len(p) \in Nat
        /\ \A n \in 1 .. Len(Tail(p)) : Tail(p)[n] = p[n + 1]
    BY HeadTailProperties
  <1>2. ASSUME NEW i \in 0 .. Len(Tail(p)) - 1
        PROVE  Tail(p)[Len(Tail(p)) - i] = p[Len(p) - i]
    <2> DEFINE n == Len(Tail(p)) - i
    <2>1. n \in 1 .. Len(Tail(p)) /\ n + 1 = Len(p) - i
      BY <1>1
    <2> HIDE DEF n
    <2>2. Tail(p)[n] = p[n + 1]
      BY <1>1, <2>1
    <2>3. QED
      BY <2>1, <2>2 DEF n
  <1>3. QED
    BY <1>1, <1>2

\* Two queues that are opposed as far as the shorter one goes.
AreOpposed(l, r) == \A i \in 0 .. Len(l) - 1 : i < Len(r) =>
    l[Len(l) - i].round = r[Len(r) - i].round /\ l[Len(l) - i].level # r[Len(r) - i].level

\* The targets of a round that is staged.
Face(m, n) == \A i \in 1 .. 2 : m[i].round = n[i].round /\ m[i].level # n[i].level

\* What is put behind opposed queues is opposed at their ends.
LEMMA OpposedLonger ==
  ASSUME NEW p \in Seq(OpenedTargets), NEW q \in Seq(OpenedTargets), AreOpposed(p, q),
         NEW m \in Seq(OpenedTargets), NEW n \in Seq(OpenedTargets), Len(m) = 2, Len(n) = 2,
         Face(m, n)
  PROVE  AreOpposed(p \o m, q \o n)
  <1> DEFINE l == p \o m
             r == q \o n
  <1>0. l = p \o m /\ r = q \o n
    OBVIOUS
  <1>1. /\ Len(l) = Len(p) + 2
        /\ \A k \in 1 .. Len(p) : l[k] = p[k]
        /\ \A k \in Len(p) + 1 .. Len(p) + 2 : l[k] = m[k - Len(p)]
    <2>1. Len(l) = Len(p) + Len(m)
      BY ConcatProperties
    <2>2. \A k \in 1 .. Len(p) : l[k] = p[k]
      BY ConcatProperties
    <2>3. \A k \in Len(p) + 1 .. Len(p) + 2 : l[k] = m[k - Len(p)]
      BY ConcatProperties
    <2>4. QED
      BY <2>1, <2>2, <2>3
  <1>2. /\ Len(r) = Len(q) + 2
        /\ \A k \in 1 .. Len(q) : r[k] = q[k]
        /\ \A k \in Len(q) + 1 .. Len(q) + 2 : r[k] = n[k - Len(q)]
    <2>1. Len(r) = Len(q) + Len(n)
      BY ConcatProperties
    <2>2. \A k \in 1 .. Len(q) : r[k] = q[k]
      BY ConcatProperties
    <2>3. \A k \in Len(q) + 1 .. Len(q) + 2 : r[k] = n[k - Len(q)]
      BY ConcatProperties
    <2>4. QED
      BY <2>1, <2>2, <2>3
  <1>3. Len(p) \in Nat /\ Len(q) \in Nat
    OBVIOUS
  <1> HIDE DEF l, r
  <1>4. SUFFICES ASSUME NEW i \in 0 .. Len(l) - 1, i < Len(r)
                 PROVE  l[Len(l) - i].round = r[Len(r) - i].round /\ l[Len(l) - i].level # r[Len(r) - i].level
    BY <1>0 DEF AreOpposed
  <1>5. i \in 0 .. Len(r) - 1
    BY <1>2, <1>3, <1>4
  <1>6. CASE i < 2
    <2>1. /\ Len(l) - i \in Len(p) + 1 .. Len(p) + 2 /\ Len(l) - i - Len(p) = 2 - i
          /\ Len(r) - i \in Len(q) + 1 .. Len(q) + 2 /\ Len(r) - i - Len(q) = 2 - i
          /\ 2 - i \in 1 .. 2
      BY <1>1, <1>2, <1>3, <1>6
    <2>2. l[Len(l) - i] = m[2 - i] /\ r[Len(r) - i] = n[2 - i]
      BY <1>1, <1>2, <2>1
    <2>3. QED
      BY <2>1, <2>2 DEF Face
  <1>7. CASE ~(i < 2)
    <2>1. /\ Len(l) - i \in 1 .. Len(p) /\ Len(l) - i = Len(p) - (i - 2)
          /\ Len(r) - i \in 1 .. Len(q) /\ Len(r) - i = Len(q) - (i - 2)
          /\ i - 2 \in 0 .. Len(p) - 1 /\ i - 2 < Len(q)
      BY SMTT(30), <1>1, <1>2, <1>3, <1>4, <1>5, <1>7
    <2>2. l[Len(l) - i] = p[Len(p) - (i - 2)] /\ r[Len(r) - i] = q[Len(q) - (i - 2)]
      BY <1>1, <1>2, <2>1
    <2>3. QED
      BY <2>1, <2>2 DEF AreOpposed
  <1>8. QED
    BY <1>6, <1>7

\* A queue that loses its first target stays opposed to the other.
LEMMA OpposedShorter ==
  ASSUME NEW p \in Seq(OpenedTargets), NEW q \in Seq(OpenedTargets), AreOpposed(p, q)
  PROVE  /\ p # <<>> => AreOpposed(Tail(p), q)
         /\ q # <<>> => AreOpposed(p, Tail(q))
  <1>1. ASSUME p # <<>> PROVE AreOpposed(Tail(p), q)
    <2>1. /\ Len(Tail(p)) = Len(p) - 1 /\ Len(p) \in Nat
          /\ \A i \in 0 .. Len(Tail(p)) - 1 : Tail(p)[Len(Tail(p)) - i] = p[Len(p) - i]
      BY <1>1, TailFromBehind
    <2>2. \A i \in 0 .. Len(Tail(p)) - 1 : i \in 0 .. Len(p) - 1
      BY <2>1
    <2>3. QED
      BY <2>1, <2>2 DEF AreOpposed
  <1>2. ASSUME q # <<>> PROVE AreOpposed(p, Tail(q))
    <2>1. /\ Len(Tail(q)) = Len(q) - 1 /\ Len(q) \in Nat
          /\ \A i \in 0 .. Len(Tail(q)) - 1 : Tail(q)[Len(Tail(q)) - i] = q[Len(q) - i]
      BY <1>2, TailFromBehind
    <2>2. \A i \in 0 .. Len(p) - 1 : i < Len(Tail(q)) => i < Len(q) /\ i \in 0 .. Len(Tail(q)) - 1
      BY <2>1
    <2>3. QED
      BY <2>1, <2>2 DEF AreOpposed
  <1>3. QED
    BY <1>1, <1>2

LEMMA ActivatedOpposed ==
  ASSUME QueuesOK, CoursesOppose, NEW t \in OpenedTargets, Activate(t)
  PROVE  CoursesOppose'
  <1> SUFFICES ASSUME ~parted' PROVE AreOpposed(targets'.left, targets'.right)
    BY DEF CoursesOppose, AreOpposed
  <1> DEFINE more == Staged(t.round, (t.level = "upper") <=> (t.side = "left"))
             kept == IF Len(targets.left) > 1 THEN [side \in Sides |-> <<>>] ELSE targets
  <1>1. /\ more.left \in Seq(OpenedTargets) /\ more.right \in Seq(OpenedTargets)
        /\ Len(more.left) = 2 /\ Len(more.right) = 2
        /\ \A i \in 1 .. 2 : /\ more.left[i].round = more.right[i].round
                             /\ more.left[i].level # more.right[i].level
    BY DEF Staged, Target, OpenedTargets, Other, Levels, Sides
  <1>2. kept.left \in Seq(OpenedTargets) /\ kept.right \in Seq(OpenedTargets)
    BY DEF QueuesOK, Sides
  <1>3. AreOpposed(kept.left, kept.right)
    <2>1. CASE Len(targets.left) > 1
      <3>1. kept.left = <<>> /\ kept.right = <<>>
        BY <2>1 DEF Sides
      <3> HIDE DEF kept
      <3>2. QED
        BY <3>1 DEF AreOpposed
    <2>2. CASE ~(Len(targets.left) > 1)
      <3>1. ~parted
        <4>1. Len(targets.left) \in Nat
          BY DEF QueuesOK, Sides
        <4>2. Len(targets.left) <= 1
          BY <2>2, <4>1
        <4>3. QED
          BY <4>2, Zenon DEF Activate
      <3>2. kept = targets
        BY <2>2
      <3> HIDE DEF kept
      <3>3. QED
        BY <3>1, <3>2 DEF CoursesOppose, AreOpposed
    <2>3. QED
      BY <2>1, <2>2
  <1>4. targets'.left = kept.left \o more.left /\ targets'.right = kept.right \o more.right
    BY DEF Activate, Activated, Sides
  <1> HIDE DEF more, kept
  <1>5. AreOpposed(kept.left \o more.left, kept.right \o more.right)
    <2>1. Face(more.left, more.right)
      BY <1>1 DEF Face
    <2>2. QED
      BY <2>1, <1>1, <1>2, <1>3, OpposedLonger
  <1>6. QED
    BY <1>4, <1>5

LEMMA TailOpposed ==
  ASSUME QueuesOK, CoursesOppose, NEW side \in Sides, targets[side] # <<>>,
         targets' = [targets EXCEPT ![side] = Tail(@)], parted' = parted
  PROVE  CoursesOppose'
  <1>1. SUFFICES ASSUME ~parted' PROVE AreOpposed(targets'.left, targets'.right)
    BY DEF CoursesOppose, AreOpposed
  <1>2. /\ targets.left \in Seq(OpenedTargets) /\ targets.right \in Seq(OpenedTargets)
        /\ AreOpposed(targets.left, targets.right)
    BY <1>1 DEF QueuesOK, Sides, CoursesOppose, AreOpposed
  <1>3. \/ /\ targets.left # <<>> /\ targets'.left = Tail(targets.left)
           /\ targets'.right = targets.right
        \/ /\ targets.right # <<>> /\ targets'.right = Tail(targets.right)
           /\ targets'.left = targets.left
    BY DEF QueuesOK, Sides
  <1>4. QED
    BY <1>2, <1>3, OpposedShorter

\* The actions that leave the queues alone.
LEMMA QueuesUnchanged ==
  ASSUME UNCHANGED <<targets, parted>>, QueuesOK, CoursesOppose
  PROVE  QueuesOK' /\ CoursesOppose'
  BY DEF QueuesOK, CoursesOppose

LEMMA QueuesKept ==
  ASSUME QueuesOK, CoursesOppose, [Next]_vars
  PROVE  QueuesOK' /\ CoursesOppose'
  <1>1. ASSUME NEW t \in OpenedTargets, Activate(t)
        PROVE  QueuesOK' /\ CoursesOppose'
    <2>1. targets' \in [Sides -> Seq(OpenedTargets)]
      BY <1>1, ActivatedType DEF Activate
    <2>2. parted' \in BOOLEAN
      BY <1>1, Zenon DEF Activate
    <2>3. QED
      BY <1>1, <2>1, <2>2, ActivatedOpposed DEF QueuesOK
  <1>2. ASSUME NEW t \in OpenedTargets, Deactivate(t)
        PROVE  QueuesOK' /\ CoursesOppose'
    <2>1. t.side \in Sides /\ targets[t.side] \in Seq(OpenedTargets)
      BY DEF OpenedTargets, QueuesOK
    <2>2. Without(targets[t.side], t) \in Seq(OpenedTargets)
      BY <1>2, <2>1, WithoutType DEF Deactivate
    <2>3. targets' \in [Sides -> Seq(OpenedTargets)]
      BY <1>2, <2>1, <2>2 DEF Deactivate, QueuesOK
    <2>4. QED
      BY <1>2, <2>3 DEF Deactivate, QueuesOK, CoursesOppose
  <1>3. ASSUME NEW r \in Opened, Stage(r)
        PROVE  QueuesOK' /\ CoursesOppose'
    <2>1. PICK t \in OpenedTargets : Activate(t)
      <3>1. Target(r, "upper", IF rounds[r].swapped THEN "right" ELSE "left") \in OpenedTargets
        BY DEF Target, OpenedTargets, Levels, Sides
      <3>2. QED
        BY <1>3, <3>1 DEF Stage
    <2>2. QED
      BY <2>1, <1>1
  <1>4. ASSUME NEW side \in Sides, NEW raw \in Times, NEW status \in Statuses, TimerRun(side, raw, status)
        PROVE  QueuesOK' /\ CoursesOppose'
    <2>1. targets[side] # <<>> /\ parted' = parted
          /\ (targets' = targets \/ targets' = [targets EXCEPT ![side] = Tail(@)])
      BY <1>4 DEF TimerRun
    <2>2. CASE targets' = targets
      BY <2>1, <2>2, QueuesUnchanged
    <2>3. CASE targets' = [targets EXCEPT ![side] = Tail(@)]
      <3>1. Tail(targets[side]) \in Seq(OpenedTargets)
        BY <2>1, HeadTailProperties DEF QueuesOK
      <3>2. targets' \in [Sides -> Seq(OpenedTargets)]
        BY <2>3, <3>1 DEF QueuesOK
      <3>3. parted' \in BOOLEAN
        BY <2>1, Zenon DEF QueuesOK
      <3>4. QED
        BY <2>1, <2>3, <3>2, <3>3, TailOpposed DEF QueuesOK
    <2>4. QED
      BY <2>1, <2>2, <2>3
  <1>5. ASSUME Restart
        PROVE  QueuesOK' /\ CoursesOppose'
    <2>1. targets' = [side \in Sides |-> <<>>] /\ parted' = FALSE
      BY <1>5 DEF Restart
    <2>2. targets'.left = <<>> /\ Len(targets'.left) = 0
      BY <2>1 DEF Sides
    <2>3. \A i \in 0 .. Len(targets'.left) - 1 : FALSE
      BY <2>2
    <2>4. QueuesOK'
      <3>1. targets' \in [Sides -> Seq(OpenedTargets)]
        BY <2>1
      <3>2. parted' \in BOOLEAN
        BY <2>1, Zenon
      <3>3. QED
        BY <3>1, <3>2 DEF QueuesOK
    <2>5. QED
      BY <2>3, <2>4 DEF CoursesOppose
  <1>6. ASSUME \/ \E r \in Opened : SwapStart(r) \/ ResetRound(r)
               \/ \E t \in OpenedTargets :
                     \/ \E raw \in Typed \union {NaN} : SetTime(t, raw)
                     \/ \E cones \in Cones : SetCones(t, cones)
                     \/ \E status \in Statuses : SetStatus(t, status)
               \/ Seeding \/ Reload
        PROVE  UNCHANGED <<targets, parted>>
    BY <1>6 DEF SwapStart, ResetRound, SetTime, SetCones, SetStatus, Correct, Seeding, Preload,
                SetEntrant, OverrideDial, RemoveEntrant, AutoWin, SwapEntrants, Reload
  <1>7. CASE UNCHANGED vars
    BY <1>7, QueuesUnchanged DEF vars
  <1>8. CASE Next
    BY <1>1, <1>2, <1>3, <1>4, <1>5, <1>6, <1>8, QueuesUnchanged DEF Next, Staging, Running
  <1>9. QED
    BY <1>7, <1>8

\* The targets in the queue of a course are of that course.
Waiting(side) == {t \in OpenedTargets : t.side = side}
OwnSides == \A side \in Sides : targets[side] \in Seq(Waiting(side))

LEMMA OwnSidesActivated ==
  ASSUME OwnSides, NEW t \in OpenedTargets, Activate(t)
  PROVE  OwnSides'
  <1> DEFINE more == Staged(t.round, (t.level = "upper") <=> (t.side = "left"))
             kept == IF Len(targets.left) > 1 THEN [side \in Sides |-> <<>>] ELSE targets
  <1>1. more.left \in Seq(Waiting("left")) /\ more.right \in Seq(Waiting("right"))
    <2> DEFINE first == IF (t.level = "upper") <=> (t.side = "left") THEN "upper" ELSE "lower"
    <2>1. first \in Levels /\ Other(first) \in Levels /\ t.round \in Opened
      BY DEF Levels, Other, OpenedTargets
    <2>2. /\ more.left = <<Target(t.round, first, "left"), Target(t.round, Other(first), "left")>>
          /\ more.right = <<Target(t.round, Other(first), "right"), Target(t.round, first, "right")>>
      BY DEF Staged
    <2> HIDE DEF first, more
    <2>3. \A l \in Levels, x \in Sides : Target(t.round, l, x) \in Waiting(x)
      BY <2>1 DEF Target, Waiting, OpenedTargets
    <2>4. /\ Target(t.round, first, "left") \in Waiting("left")
          /\ Target(t.round, Other(first), "left") \in Waiting("left")
          /\ Target(t.round, Other(first), "right") \in Waiting("right")
          /\ Target(t.round, first, "right") \in Waiting("right")
      BY <2>1, <2>3 DEF Sides
    <2>5. QED
      BY <2>2, <2>4
  <1>2. kept.left \in Seq(Waiting("left")) /\ kept.right \in Seq(Waiting("right"))
    BY DEF OwnSides, Sides
  <1>3. targets'.left = kept.left \o more.left /\ targets'.right = kept.right \o more.right
    BY DEF Activate, Activated, Sides
  <1> HIDE DEF more, kept
  <1>4. targets'.left \in Seq(Waiting("left")) /\ targets'.right \in Seq(Waiting("right"))
    <2>1. kept.left \o more.left \in Seq(Waiting("left"))
      BY <1>1, <1>2, ConcatProperties
    <2>2. kept.right \o more.right \in Seq(Waiting("right"))
      BY <1>1, <1>2, ConcatProperties
    <2>3. QED
      BY <1>3, <2>1, <2>2
  <1>5. QED
    BY <1>4 DEF OwnSides, Waiting, Sides

LEMMA OwnSidesKept ==
  ASSUME QueuesOK, OwnSides, [Next]_vars
  PROVE  OwnSides'
  <1>1. ASSUME NEW t \in OpenedTargets, Activate(t) PROVE OwnSides'
    BY <1>1, OwnSidesActivated
  <1>2. ASSUME NEW t \in OpenedTargets, Deactivate(t) PROVE OwnSides'
    <2>1. t.side \in Sides
      BY DEF OpenedTargets
    <2>2. Without(targets[t.side], t) \in Seq(Waiting(t.side))
      BY <1>2, <2>1, WithoutType DEF Deactivate, OwnSides
    <2>3. targets' = [targets EXCEPT ![t.side] = Without(targets[t.side], t)]
      BY <1>2 DEF Deactivate
    <2>4. QED
      BY <2>1, <2>2, <2>3 DEF OwnSides, QueuesOK, Waiting
  <1>3. ASSUME NEW r \in Opened, Stage(r) PROVE OwnSides'
    <2>1. Target(r, "upper", IF rounds[r].swapped THEN "right" ELSE "left") \in OpenedTargets
      BY DEF Target, OpenedTargets, Levels, Sides
    <2>2. QED
      BY <1>1, <1>3, <2>1 DEF Stage
  <1>4. ASSUME NEW side \in Sides, NEW raw \in Times, NEW status \in Statuses, TimerRun(side, raw, status)
        PROVE  OwnSides'
    <2>1. targets[side] # <<>> /\ (targets' = targets \/ targets' = [targets EXCEPT ![side] = Tail(@)])
      BY <1>4 DEF TimerRun
    <2>2. Tail(targets[side]) \in Seq(Waiting(side))
      BY <2>1, HeadTailProperties DEF OwnSides
    <2>3. CASE targets' = targets
      BY <2>3 DEF OwnSides, Waiting
    <2>4. CASE targets' = [targets EXCEPT ![side] = Tail(@)]
      BY <2>2, <2>4 DEF OwnSides, QueuesOK, Waiting
    <2>5. QED
      BY <2>1, <2>3, <2>4
  <1>5. ASSUME Restart PROVE OwnSides'
    <2>1. targets' = [side \in Sides |-> <<>>]
      BY <1>5 DEF Restart
    <2>2. QED
      BY <2>1 DEF OwnSides
  <1>6. ASSUME \/ \E r \in Opened : SwapStart(r) \/ ResetRound(r)
               \/ \E t \in OpenedTargets :
                     \/ \E raw \in Typed \union {NaN} : SetTime(t, raw)
                     \/ \E cones \in Cones : SetCones(t, cones)
                     \/ \E status \in Statuses : SetStatus(t, status)
               \/ Seeding \/ Reload \/ UNCHANGED vars
        PROVE  OwnSides'
    <2>1. targets' = targets
      BY <1>6 DEF SwapStart, ResetRound, SetTime, SetCones, SetStatus, Correct, Seeding, Preload,
                  SetEntrant, OverrideDial, RemoveEntrant, AutoWin, SwapEntrants, Reload, vars
    <2>2. QED
      BY <2>1 DEF OwnSides, Waiting
  <1>7. QED
    BY <1>1, <1>2, <1>3, <1>4, <1>5, <1>6 DEF Next, Staging, Running

LEMMA CoursesOpposeAtFirst ==
  ASSUME Init
  PROVE  QueuesOK /\ CoursesOppose
  <1>1. targets = [side \in Sides |-> <<>>]
    BY DEF Init
  <1>2. targets.left = <<>> /\ Len(targets.left) = 0
    BY <1>1 DEF Sides
  <1>3. \A i \in 0 .. Len(targets.left) - 1 : FALSE
    BY <1>2
  <1>4. targets \in [Sides -> Seq(OpenedTargets)]
    BY <1>1
  <1>5. parted \in BOOLEAN
    BY Zenon DEF Init
  <1>6. QED
    BY <1>3, <1>4, <1>5 DEF CoursesOppose, QueuesOK

-----------------------------------------------------------------------------
(* The database. *)

LEMMA ColumnsFacts ==
  ASSUME NEW round \in ChallengeRounds
  PROVE  /\ Columns(round) \in RoundColumns
         /\ \A level \in Levels : /\ Columns(round)[level].car = round[level].car
                                  /\ Columns(round)[level].dial = round[level].dial
  <1>1. round.upper \in Entries /\ round.lower \in Entries /\ round.swapped \in BOOLEAN
    BY DEF ChallengeRounds
  <1>2. \A entry \in Entries : [car |-> entry.car, dial |-> entry.dial] \in EntryColumns
    BY DEF Entries, EntryColumns
  <1>3. Columns(round) \in RoundColumns
    <2>1. [car |-> round.upper.car, dial |-> round.upper.dial] \in EntryColumns
          /\ [car |-> round.lower.car, dial |-> round.lower.dial] \in EntryColumns
      BY <1>1, <1>2
    <2>2. QED
      BY <1>1, <2>1 DEF Columns, RoundColumns
  <1>4. QED
    BY <1>3 DEF Columns, Levels

LEMMA UpdateFacts ==
  ASSUME NEW db \in Databases, NEW r \in Rounds, NEW round \in ChallengeRounds
  PROVE  LET new == UpdateRound(db, r, round)
         IN  /\ new \in Databases /\ new.runs = db.runs
             /\ \A q \in Rounds : q # r => new.rounds[q] = db.rounds[q]
             /\ Known(round) => new.rounds[r] = Columns(round)
  <1>1. CASE Known(round)
    <2>1. UpdateRound(db, r, round) = [db EXCEPT !.rounds[r] = Columns(round)]
      BY <1>1 DEF UpdateRound, Known
    <2>2. Columns(round) \in RoundColumns
      BY ColumnsFacts
    <2>3. QED
      BY <2>1, <2>2 DEF Databases
  <1>2. CASE ~Known(round)
    BY <1>2 DEF UpdateRound, Known
  <1>3. QED
    BY <1>1, <1>2

\* The rows of the runs.
LEMMA RunsTyped ==
  ASSUME NEW db \in Databases, NEW r \in Opened, NEW car \in Cars, NEW side \in Sides
  PROVE  db.runs[<<r, car, side>>] \in Runs \union {NoRun}
  BY DEF Databases

\* A row is written under the car of the run.
LEMMA RowWritten ==
  ASSUME NEW db \in Databases, NEW r \in Opened, NEW car \in Cars, NEW side \in Sides,
         NEW run \in Runs \union {NoRun}
  PROVE  LET new == [db EXCEPT !.runs[<<r, car, side>>] = run]
         IN  /\ new \in Databases /\ new.rounds = db.rounds
             /\ new.runs[<<r, car, side>>] = run
             /\ \A q \in Opened, c \in Cars, x \in Sides :
                   <<q, c, x>> # <<r, car, side>> => new.runs[<<q, c, x>>] = db.runs[<<q, c, x>>]
  <1> DEFINE row == <<r, car, side>>
  <1>1. row \in Opened \X Cars \X Sides
    OBVIOUS
  <1>2. \A q \in Opened, c \in Cars, x \in Sides : <<q, c, x>> \in Opened \X Cars \X Sides
    OBVIOUS
  <1>3. db.rounds \in [Rounds -> RoundColumns] /\ db.runs \in [Opened \X Cars \X Sides -> Runs \union {NoRun}]
        /\ db = [rounds |-> db.rounds, runs |-> db.runs]
    BY DEF Databases
  <1> HIDE DEF row
  <1> DEFINE runs == [db.runs EXCEPT ![row] = run]
  <1>4. /\ runs \in [Opened \X Cars \X Sides -> Runs \union {NoRun}]
        /\ runs[row] = run
        /\ \A q \in Opened, c \in Cars, x \in Sides :
              <<q, c, x>> # row => runs[<<q, c, x>>] = db.runs[<<q, c, x>>]
    BY <1>1, <1>2, <1>3
  <1>5. [db EXCEPT !.runs[row] = run] = [rounds |-> db.rounds, runs |-> runs]
    BY <1>3
  <1> HIDE DEF runs
  <1>6. QED
    BY <1>3, <1>4, <1>5 DEF row, Databases

LEMMA StoreFacts ==
  ASSUME NEW db \in Databases, RunsOwn(db), NEW r \in Opened, NEW side \in Sides, NEW run \in Runs
  PROVE  LET new == SetChallengeRun(db, r, side, run)
         IN  /\ new \in Databases /\ RunsOwn(new) /\ new.rounds = db.rounds
             /\ run.car \in Cars => new.runs[<<r, run.car, side>>] = run
             /\ \A q \in Opened, c \in Cars, x \in Sides :
                   ~(q = r /\ c = run.car /\ x = side) => new.runs[<<q, c, x>>] = db.runs[<<q, c, x>>]
  <1> DEFINE new == SetChallengeRun(db, r, side, run)
  <1>1. CASE run.car \in Cars
    <2>1. new = [db EXCEPT !.runs[<<r, run.car, side>>] = run]
      BY <1>1 DEF SetChallengeRun
    <2> HIDE DEF new
    <2>2. /\ new \in Databases /\ new.rounds = db.rounds
          /\ new.runs[<<r, run.car, side>>] = run
          /\ \A q \in Opened, c \in Cars, x \in Sides :
                <<q, c, x>> # <<r, run.car, side>> => new.runs[<<q, c, x>>] = db.runs[<<q, c, x>>]
      BY SMTT(30), <1>1, <2>1, RowWritten
    <2>3. \A q \in Opened, c \in Cars, x \in Sides :
             ~(q = r /\ c = run.car /\ x = side) => new.runs[<<q, c, x>>] = db.runs[<<q, c, x>>]
      BY <2>2
    <2>4. RunsOwn(new)
      BY <2>2, <2>3 DEF RunsOwn
    <2>5. QED
      BY <1>1, <2>2, <2>3, <2>4 DEF new
  <1>2. CASE run.car \notin Cars
    BY <1>2 DEF SetChallengeRun
  <1>3. QED
    BY <1>1, <1>2

LEMMA DeleteFacts ==
  ASSUME NEW db \in Databases, RunsOwn(db), NEW r \in Opened, NEW side \in Sides,
         NEW run \in Runs \union {NoRun}
  PROVE  LET new == DeleteRun(db, r, side, run)
         IN  /\ new \in Databases /\ RunsOwn(new) /\ new.rounds = db.rounds
             /\ run # NoRun /\ run.car \in Cars => new.runs[<<r, run.car, side>>] = NoRun
             /\ \A q \in Opened, c \in Cars, x \in Sides :
                   \/ new.runs[<<q, c, x>>] = db.runs[<<q, c, x>>]
                   \/ q = r /\ new.runs[<<q, c, x>>] = NoRun
  <1> DEFINE new == DeleteRun(db, r, side, run)
  <1>1. CASE run # NoRun /\ run.car \in Cars
    <2>1. new = [db EXCEPT !.runs[<<r, run.car, side>>] = NoRun]
      BY <1>1 DEF DeleteRun
    <2> HIDE DEF new
    <2>2. /\ new \in Databases /\ new.rounds = db.rounds
          /\ new.runs[<<r, run.car, side>>] = NoRun
          /\ \A q \in Opened, c \in Cars, x \in Sides :
                <<q, c, x>> # <<r, run.car, side>> => new.runs[<<q, c, x>>] = db.runs[<<q, c, x>>]
      BY <1>1, <2>1, RowWritten
    <2>3. \A q \in Opened, c \in Cars, x \in Sides :
             \/ new.runs[<<q, c, x>>] = db.runs[<<q, c, x>>]
             \/ q = r /\ new.runs[<<q, c, x>>] = NoRun
      BY <2>2
    <2>4. RunsOwn(new)
      BY <2>3 DEF RunsOwn
    <2>5. QED
      BY <1>1, <2>2, <2>3, <2>4 DEF new
  <1>2. CASE ~(run # NoRun /\ run.car \in Cars)
    BY <1>2 DEF DeleteRun
  <1>3. QED
    BY <1>1, <1>2
-----------------------------------------------------------------------------
(* Parts of handlers. *)

LEMMA StateFacts ==
  ASSUME NEW s, StateOK(s)
  PROVE  /\ s = [rounds |-> s.rounds, db |-> s.db]
         /\ s.rounds \in [Rounds -> ChallengeRounds] /\ s.db \in Databases /\ RunsOwn(s.db)
         /\ \A r \in Rounds : s.rounds[r] \in ChallengeRounds
  BY DEF StateOK, States

LEMMA SameAgrees ==
  ASSUME NEW one, NEW two, NEW r \in Rounds, Same(one, two, r)
  PROVE  /\ WillSettle(two, r) <=> WillSettle(one, r)
         /\ Agrees(one, r) => Agrees(two, r)
  <1>1. WillSettle(two, r) <=> WillSettle(one, r)
    BY DEF Same, WillSettle
  <1>2. \A car, side : side \in Sides => LoadedRun(two.db, r, car, side) = LoadedRun(one.db, r, car, side)
    BY DEF Same, LoadedRun
  <1>3. ASSUME Agrees(one, r) PROVE Agrees(two, r)
    BY <1>2, <1>3 DEF Same, Agrees, AgreesColumns, AgreesRuns
  <1>4. QED
    BY <1>1, <1>3

\* A part that changes one round leaves good what was good, if that round is.
LEMMA OneRound ==
  ASSUME NEW one, NEW two, Good(one), StateOK(two), NEW r \in Rounds,
         \A q \in Rounds \ {r} : Same(one, two, q),
         WillSettle(two, r) => Agrees(two, r)
  PROVE  Good(two)
  BY SameAgrees DEF Good

LEMMA SetToFacts ==
  ASSUME NEW s, StateOK(s), NEW place \in OfRounds(Rounds), NEW car \in Places, NEW dial \in Int
  PROVE  LET new == SetTo(s, place, car, dial)
         IN  /\ StateOK(new) /\ new.db.runs = s.db.runs
             /\ \A q \in Rounds \ {place.round} : Same(s, new, q)
             /\ new.rounds[place.round][place.level].car = car
             /\ \A level \in Levels : level # place.level =>
                   new.rounds[place.round][level] = s.rounds[place.round][level]
             /\ \A level \in Levels, side \in Sides :
                   new.rounds[place.round][level][side] = s.rounds[place.round][level][side]
             /\ Known(new.rounds[place.round]) => AgreesColumns(new, place.round)
  <1> DEFINE r == place.round
             old == s.rounds[r][place.level]
             entry == [old EXCEPT !.car = car, !.dial = dial]
             round == [s.rounds[r] EXCEPT ![place.level] = entry]
             db == UpdateRound(s.db, r, round)
             new == SetTo(s, place, car, dial)
  <1>1. r \in Rounds /\ place.level \in Levels /\ s.rounds[r] \in ChallengeRounds
        /\ old \in Entries
    BY StateFacts, RoundFacts DEF OfRounds
  <1> HIDE DEF old
  <1>2. /\ entry \in Entries /\ entry.car = car /\ entry.dial = dial
        /\ \A side \in Sides : entry[side] = old[side]
    BY <1>1 DEF Entries, Sides
  <1> HIDE DEF entry
  <1>3. /\ round \in ChallengeRounds /\ round[place.level] = entry
        /\ round[Other(place.level)] = s.rounds[r][Other(place.level)]
    BY <1>1, <1>2, EntryChanged
  <1>4. \A level \in Levels : level # place.level => round[level] = s.rounds[r][level]
    BY <1>1, <1>3 DEF Other, Levels
  <1>5. new = [rounds |-> [s.rounds EXCEPT ![r] = round], db |-> db]
    BY <1>1 DEF SetTo, entry, old, ChallengeRounds, Levels
  <1> HIDE DEF round
  <1>6. /\ db \in Databases /\ db.runs = s.db.runs
        /\ \A q \in Rounds : q # r => db.rounds[q] = s.db.rounds[q]
        /\ Known(round) => db.rounds[r] = Columns(round)
    <2>1. s.db \in Databases
      BY StateFacts
    <2> HIDE DEF r
    <2>2. QED
      BY ZenonT(60), <1>1, <1>3, <2>1, UpdateFacts
  <1> HIDE DEF r, db, new
  <1>7. /\ new.rounds \in [Rounds -> ChallengeRounds] /\ new.rounds[r] = round /\ new.db = db
        /\ \A q \in Rounds : q # r => new.rounds[q] = s.rounds[q]
    BY <1>1, <1>3, <1>5, StateFacts
  <1>8. StateOK(new)
    BY <1>5, <1>6, <1>7, StateFacts DEF StateOK, States, RunsOwn
  <1>9. \A q \in Rounds \ {r} : Same(s, new, q)
    BY <1>6, <1>7 DEF Same
  <1>10. \A level \in Levels, side \in Sides : round[level][side] = s.rounds[r][level][side]
    BY <1>2, <1>3, <1>4 DEF old
  <1>11. ASSUME Known(round) PROVE AgreesColumns(new, r)
    BY <1>3, <1>6, <1>7, <1>11, ColumnsFacts DEF AgreesColumns
  <1>12. QED
    BY <1>2, <1>3, <1>4, <1>6, <1>7, <1>8, <1>9, <1>10, <1>11 DEF r, new

\* Nobody has run in the round: there is nothing to be read.
LEMMA NothingToRead ==
  ASSUME NEW s, NEW r \in Rounds, ~HasRuns(rounds[r], stored, r),
         \A car \in Cars, side \in Sides :
            r \in Opened => s.db.runs[<<r, car, side>>] = stored.runs[<<r, car, side>>],
         \A level \in Levels, side \in Sides : s.rounds[r][level][side] = rounds[r][level][side]
  PROVE  AgreesRuns(s, r)
  <1>1. \A level \in Levels, side \in Sides : s.rounds[r][level][side] = NoRun
    BY DEF HasRuns
  <1>2. \A car, side : side \in Sides => LoadedRun(s.db, r, car, side) = NoRun
    BY DEF HasRuns, LoadedRun
  <1>3. QED
    BY <1>1, <1>2 DEF AgreesRuns, Levels

LEMMA SetToGood ==
  ASSUME NEW s, Good(s), NEW place \in OfRounds(Rounds), NEW car \in Places, NEW dial \in Int,
         Untouched(s, place.round)
  PROVE  Good(SetTo(s, place, car, dial))
  <1> DEFINE new == SetTo(s, place, car, dial)
             r == place.round
  <1>1. StateOK(s) /\ r \in Rounds
    BY DEF Good, OfRounds
  <1>2. /\ StateOK(new) /\ new.db.runs = s.db.runs
        /\ \A q \in Rounds \ {r} : Same(s, new, q)
        /\ \A level \in Levels, side \in Sides : new.rounds[r][level][side] = s.rounds[r][level][side]
        /\ Known(new.rounds[r]) => AgreesColumns(new, r)
    <2>1. StateOK(new) /\ new.db.runs = s.db.runs
      BY SMTT(30), <1>1, SetToFacts
    <2>2. \A q \in Rounds \ {r} : Same(s, new, q)
      BY <1>1, SetToFacts
    <2>3. \A level \in Levels, side \in Sides : new.rounds[r][level][side] = s.rounds[r][level][side]
      BY <1>1, SetToFacts
    <2>4. Known(new.rounds[r]) => AgreesColumns(new, r)
      BY <1>1, SetToFacts
    <2>5. QED
      BY <2>1, <2>2, <2>3, <2>4
  <1> HIDE DEF new
  <1>3. ASSUME WillSettle(new, r) PROVE Agrees(new, r)
    <2>1. AgreesColumns(new, r)
      BY <1>2, <1>3 DEF WillSettle
    <2>2. CASE HasRuns(rounds[r], stored, r)
      <3>1. SameCars(rounds[r], new.rounds[r])
        BY <1>3, <2>2 DEF WillSettle
      <3>2. new.rounds[r].upper.car = s.rounds[r].upper.car /\ new.rounds[r].lower.car = s.rounds[r].lower.car
        BY <3>1 DEF SameCars, Untouched, Levels
      <3>3. WillSettle(s, r)
        BY <1>3, <3>2 DEF WillSettle, Known, Untouched, SameCars, Levels
      <3>4. AgreesRuns(s, r)
        BY <1>1, <3>3 DEF Good, Agrees
      <3>5. \A c, side : LoadedRun(new.db, r, c, side) = LoadedRun(s.db, r, c, side)
        BY <1>2 DEF LoadedRun
      <3>6. AgreesRuns(new, r)
        BY <1>2, <3>2, <3>4, <3>5 DEF AgreesRuns, Levels
      <3>7. QED
        BY <2>1, <3>6 DEF Agrees
    <2>3. CASE ~HasRuns(rounds[r], stored, r)
      <3>1. AgreesRuns(new, r)
        BY <1>1, <1>2, <2>3, NothingToRead DEF Untouched
      <3>2. QED
        BY <2>1, <3>1 DEF Agrees
    <2>4. QED
      BY <2>2, <2>3
  <1>4. QED
    BY <1>1, <1>2, <1>3, OneRound DEF new, r

LEMMA NewDialType ==
  ASSUME NEW entry \in Entries, Complete(entry)
  PROVE  NewDial(entry) \in Int
  <1>1. entry.dial \in Int /\ entry.left \in Runs /\ entry.right \in Runs
    BY DEF Complete, Entries
  <1>2. ASSUME NEW run \in Runs PROVE PenSum(run) \in Int
    <2>1. run.raw \in Int /\ run.cones \in Int
      <3>1. run.raw \in Times \union Typed \union {NaN} /\ run.cones \in Cones
        BY DEF Runs
      <3>2. NaN \in Int
        BY DEF NaN
      <3>3. Times \subseteq Int /\ Typed \subseteq Int /\ Cones \subseteq Int
        OBVIOUS
      <3>4. QED
        BY <3>1, <3>2, <3>3, Zenon
    <2>2. QED
      BY <2>1 DEF PenSum
  <1>3. PenSum(entry.left) \in Int /\ PenSum(entry.right) \in Int
    BY <1>1, <1>2
  <1>4. Total(entry) \in Int
    BY <1>3 DEF Total
  <1> DEFINE off == (3 * (2 * entry.dial - Total(entry))) \div 4
  <1>5. off \in Int
    BY <1>1, <1>4
  <1> HIDE DEF off
  <1>6. entry.dial - off \in Int
    BY <1>1, <1>5
  <1>7. QED
    BY <1>1, <1>6 DEF NewDial, off

LEMMA AdvanceGood ==
  ASSUME NEW s, Good(s), NEW place \in OfRounds(Rounds), NEW entry \in Entries,
         Untouched(s, place.round)
  PROVE  /\ Good(Advance(s, place, entry))
         /\ \A q \in Rounds \ {place.round} : Same(s, Advance(s, place, entry), q)
  <1>1. CASE Complete(entry)
    <2> DEFINE dial == NewDial(entry)
               car == entry.car
    <2>1. dial \in Int /\ car \in Places
      BY <1>1, NewDialType DEF Entries
    <2>2. Advance(s, place, entry) = SetTo(s, place, car, dial)
      BY <1>1 DEF Advance
    <2> HIDE DEF dial, car
    <2>3. StateOK(s)
      BY DEF Good
    <2>4. Good(SetTo(s, place, car, dial))
      BY <2>1, SetToGood
    <2>5. \A q \in Rounds \ {place.round} : Same(s, SetTo(s, place, car, dial), q)
      BY <2>1, <2>3, SetToFacts
    <2>6. QED
      BY <2>2, <2>4, <2>5
  <1>2. CASE ~Complete(entry)
    BY <1>2 DEF Advance, Same
  <1>3. QED
    BY <1>1, <1>2

LEMMA CheckedGood ==
  ASSUME NEW s, Good(s), NEW r \in Rounds,
         NEW two, two = [s EXCEPT !.db = UpdateRound(s.db, r, s.rounds[r])]
  PROVE  /\ Good(two) /\ two.rounds = s.rounds
         /\ \A q \in Rounds \ {r} : Same(s, two, q)
  <1>1. StateOK(s)
    BY DEF Good
  <1> DEFINE db == UpdateRound(s.db, r, s.rounds[r])
  <1>2. /\ db \in Databases /\ db.runs = s.db.runs
        /\ \A q \in Rounds : q # r => db.rounds[q] = s.db.rounds[q]
        /\ Known(s.rounds[r]) => db.rounds[r] = Columns(s.rounds[r])
    <2> DEFINE old == s.db
               round == s.rounds[r]
    <2>1. old \in Databases /\ round \in ChallengeRounds
      BY <1>1, StateFacts
    <2> HIDE DEF old, round
    <2>2. /\ UpdateRound(old, r, round) \in Databases /\ UpdateRound(old, r, round).runs = old.runs
          /\ \A q \in Rounds : q # r => UpdateRound(old, r, round).rounds[q] = old.rounds[q]
          /\ Known(round) => UpdateRound(old, r, round).rounds[r] = Columns(round)
      BY <2>1, UpdateFacts
    <2>3. QED
      BY <2>2 DEF old, round
  <1>3. two = [rounds |-> s.rounds, db |-> db]
    BY <1>1, StateFacts
  <1> HIDE DEF db
  <1>4. StateOK(two) /\ two.rounds = s.rounds /\ two.db = db
    BY <1>1, <1>2, <1>3, StateFacts DEF StateOK, States, RunsOwn
  <1>5. \A q \in Rounds \ {r} : Same(s, two, q)
    BY <1>2, <1>4 DEF Same
  <1>6. ASSUME WillSettle(two, r) PROVE Agrees(two, r)
    <2>1. WillSettle(s, r) /\ Known(s.rounds[r])
      BY <1>4, <1>6 DEF WillSettle
    <2>2. AgreesRuns(s, r)
      BY <2>1 DEF Good, Agrees
    <2>3. \A c, side : LoadedRun(two.db, r, c, side) = LoadedRun(s.db, r, c, side)
      BY <1>2, <1>4 DEF LoadedRun
    <2>4. AgreesRuns(two, r)
      BY <1>4, <2>2, <2>3 DEF AgreesRuns
    <2>5. AgreesColumns(two, r)
      <3>1. two.db.rounds[r] = Columns(s.rounds[r]) /\ s.rounds[r] \in ChallengeRounds
        BY <1>1, <1>2, <1>4, <2>1, StateFacts
      <3>2. QED
        BY <1>4, <3>1, ColumnsFacts DEF AgreesColumns
    <2>6. QED
      BY <2>4, <2>5 DEF Agrees
  <1>7. QED
    BY <1>4, <1>5, <1>6, OneRound

LEMMA SameUntouched ==
  ASSUME NEW one, NEW two, NEW r, Untouched(one, r), Same(one, two, r)
  PROVE  Untouched(two, r)
  <1>1. two.rounds[r] = rounds[r]
    BY DEF Untouched, Same
  <1>2. ASSUME NEW car \in Cars, NEW side \in Sides, r \in Opened
        PROVE  two.db.runs[<<r, car, side>>] = stored.runs[<<r, car, side>>]
    BY <1>2, Zenon DEF Untouched, Same
  <1>3. QED
    BY <1>1, <1>2 DEF Untouched

LEMMA PlaceFacts ==
  ASSUME NEW r \in Rounds \ {0}
  PROVE  /\ AdvancesTo(r) \in OfRounds(Rounds) /\ AdvancesTo(r).round # r
         /\ HasThird(r) => /\ AdvanceThird(r) \in OfRounds(Rounds) /\ AdvanceThird(r).round # r
                           /\ AdvanceThird(r).round # AdvancesTo(r).round
  <1>1. r \in Nat /\ r # 0
    OBVIOUS
  <1>2. r \div 2 # r /\ (r \in {2, 3} => r \div 2 = 1)
    BY <1>1
  <1>3. r # 99 => r \div 2 \in Rounds
    OBVIOUS
  <1>4. AdvancesTo(r) \in OfRounds(Rounds) /\ AdvancesTo(r).round # r
    <2>1. CASE r = 99
      BY <2>1 DEF AdvancesTo, OfRounds, Levels
    <2>2. CASE r # 99
      BY <1>2, <1>3, <2>2 DEF AdvancesTo, OfRounds, Levels
    <2>3. QED
      BY <2>1, <2>2
  <1>5. ASSUME HasThird(r)
        PROVE  /\ AdvanceThird(r) \in OfRounds(Rounds) /\ AdvanceThird(r).round # r
               /\ AdvanceThird(r).round # AdvancesTo(r).round
    <2>1. r \in {2, 3} /\ r # 99
      BY <1>5 DEF HasThird
    <2>2. AdvancesTo(r).round = 1
      BY <1>2, <2>1 DEF AdvancesTo
    <2>3. AdvanceThird(r).round = 99 /\ AdvanceThird(r) \in OfRounds(Rounds)
      BY DEF AdvanceThird, OfRounds, Levels
    <2>4. QED
      BY <2>1, <2>2, <2>3
  <1>6. QED
    BY <1>4, <1>5

LEMMA WinnerType ==
  ASSUME NEW round
  PROVE  Winner(round) = "nobody" \/ Winner(round) \in Levels
  BY DEF Winner, Levels

LEMMA CheckForWinnerGood ==
  ASSUME NEW s, Good(s), NEW r \in Rounds \ {0}, \A q \in Rounds \ {r} : Untouched(s, q)
  PROVE  Good(CheckForWinner(s, r))
  <1> DEFINE round == s.rounds[r]
             winner == Winner(round)
             checked == [s EXCEPT !.db = UpdateRound(s.db, r, round)]
             next == AdvancesTo(r)
             third == AdvanceThird(r)
             advanced == Advance(checked, next, round[winner])
             both == Advance(advanced, third, round[Other(winner)])
             result == CheckForWinner(s, r)
  <1>1. Good(checked) /\ \A q \in Rounds \ {r} : Same(s, checked, q)
    BY CheckedGood
  <1>2. round \in ChallengeRounds
    BY StateFacts DEF Good
  <1>3. /\ winner = "nobody" => result = checked
        /\ winner # "nobody" => result = advanced \/ (HasThird(r) /\ result = both)
    BY DEF CheckForWinner
  <1>4. winner = "nobody" \/ winner \in Levels
    BY WinnerType
  <1>5. /\ next \in OfRounds(Rounds) /\ next.round # r
        /\ HasThird(r) => third \in OfRounds(Rounds) /\ third.round # r /\ third.round # next.round
    BY PlaceFacts
  <1> HIDE DEF round, winner, checked, next, third, result
  <1>6. \A q \in Rounds \ {r} : Untouched(checked, q)
    BY <1>1, SameUntouched
  <1>7. next.round \in Rounds /\ (HasThird(r) => third.round \in Rounds)
    BY <1>5 DEF OfRounds
  <1>8. ASSUME winner \in Levels
        PROVE  Good(advanced) /\ (HasThird(r) => Good(both))
    <2>1. round[winner] \in Entries /\ round[Other(winner)] \in Entries
      BY <1>2, <1>8, RoundFacts, LevelFacts
    <2> DEFINE one == round[winner]
               other == round[Other(winner)]
    <2> HIDE DEF one, other
    <2>2. Good(Advance(checked, next, one))
          /\ \A q \in Rounds \ {next.round} : Same(checked, Advance(checked, next, one), q)
      <3>1. one \in Entries /\ Untouched(checked, next.round)
        BY <1>5, <1>6, <1>7, <2>1 DEF one
      <3>2. QED
        BY <1>1, <1>5, <3>1, AdvanceGood
    <2> DEFINE a == Advance(checked, next, one)
    <2> HIDE DEF a
    <2>3. ASSUME HasThird(r) PROVE Good(Advance(a, third, other))
      <3>1. Good(a) /\ Same(checked, a, third.round)
        BY <1>5, <1>7, <2>2, <2>3 DEF a
      <3>2. Untouched(a, third.round)
        BY <1>5, <1>6, <1>7, <2>3, <3>1, SameUntouched
      <3>3. other \in Entries /\ third \in OfRounds(Rounds)
        BY <1>5, <2>1, <2>3 DEF other
      <3>4. QED
        BY <3>1, <3>2, <3>3, AdvanceGood
    <2>4. QED
      BY <2>2, <2>3 DEF a, one, other
  <1> HIDE DEF advanced, both
  <1>9. Good(result)
    BY <1>1, <1>3, <1>4, <1>8
  <1>10. QED
    BY <1>9 DEF result

\* A run that is made or changed, in memory and in the database.
RunsKept(one, two, level, side) ==
    \A l \in Levels, x \in Sides : ~(l = level /\ x = side) => two[l][x] = one[l][x]

LEMMA RunStoredGood ==
  ASSUME NEW s, Good(s), NEW r \in Opened, NEW side \in Sides, NEW run \in Runs,
         NEW round \in ChallengeRounds,
         \A level \in Levels : /\ round[level].car = s.rounds[r][level].car
                               /\ round[level].dial = s.rounds[r][level].dial,
         WillSettle(s, r) =>
            \/ run.car \notin Cars /\ round = s.rounds[r]
            \/ run.car \in Cars /\ \E level \in Levels :
                  /\ round[level][side] = run /\ round[level].car = run.car
                  /\ level = "lower" => round.upper.car # run.car
                  /\ RunsKept(s.rounds[r], round, level, side),
         NEW two,
         two = [rounds |-> [s.rounds EXCEPT ![r] = round], db |-> SetChallengeRun(s.db, r, side, run)]
  PROVE  Good(two) /\ \A q \in Rounds \ {r} : Same(s, two, q)
  <1> DEFINE db == SetChallengeRun(s.db, r, side, run)
  <1>1. StateOK(s) /\ r \in Rounds
    BY DEF Good
  <1>2. /\ db \in Databases /\ RunsOwn(db) /\ db.rounds = s.db.rounds
        /\ run.car \in Cars => db.runs[<<r, run.car, side>>] = run
        /\ \A q \in Opened, c \in Cars, x \in Sides :
              ~(q = r /\ c = run.car /\ x = side) => db.runs[<<q, c, x>>] = s.db.runs[<<q, c, x>>]
    <2> DEFINE old == s.db
    <2>1. old \in Databases /\ RunsOwn(old)
      BY <1>1, StateFacts
    <2> HIDE DEF old
    <2>2. LET new == SetChallengeRun(old, r, side, run)
          IN  /\ new \in Databases /\ RunsOwn(new) /\ new.rounds = old.rounds
              /\ run.car \in Cars => new.runs[<<r, run.car, side>>] = run
              /\ \A q \in Opened, c \in Cars, x \in Sides :
                    ~(q = r /\ c = run.car /\ x = side) => new.runs[<<q, c, x>>] = old.runs[<<q, c, x>>]
      BY <2>1, StoreFacts
    <2>3. QED
      BY <2>2 DEF old
  <1>3. db = SetChallengeRun(s.db, r, side, run)
    OBVIOUS
  <1> HIDE DEF db
  <1>4. /\ two.db = db /\ two.rounds[r] = round
        /\ two = [rounds |-> two.rounds, db |-> db]
        /\ two.rounds \in [Rounds -> ChallengeRounds]
        /\ \A q \in Rounds \ {r} : two.rounds[q] = s.rounds[q]
    BY <1>1, <1>3, StateFacts
  <1>5. StateOK(two)
    BY <1>2, <1>4 DEF StateOK, States
  <1>6. \A q \in Rounds \ {r} : Same(s, two, q)
    <2>1. SUFFICES ASSUME NEW q \in Rounds \ {r} PROVE Same(s, two, q)
      OBVIOUS
    <2>2. two.rounds[q] = s.rounds[q] /\ two.db.rounds[q] = s.db.rounds[q]
      BY <1>2, <1>4
    <2>3. ASSUME NEW car \in Cars, NEW x \in Sides, q \in Opened
          PROVE  two.db.runs[<<q, car, x>>] = s.db.runs[<<q, car, x>>]
      BY <1>2, <1>4, <2>3
    <2>4. QED
      BY <2>2, <2>3 DEF Same
  <1>7. ASSUME WillSettle(two, r) PROVE Agrees(two, r)
    <2>1. /\ round.upper.car = s.rounds[r].upper.car /\ round.lower.car = s.rounds[r].lower.car
          /\ round.upper.dial = s.rounds[r].upper.dial /\ round.lower.dial = s.rounds[r].lower.dial
      BY DEF Levels
    <2>2. WillSettle(s, r)
      BY <1>4, <1>7, <2>1 DEF WillSettle, Known, SameCars, Levels
    <2>3. AgreesColumns(s, r) /\ AgreesRuns(s, r)
      BY <1>1, <2>2 DEF Good, Agrees
    <2>4. AgreesColumns(two, r)
      BY <1>2, <1>4, <2>1, <2>3 DEF AgreesColumns, Levels
    <2>5. \A c \in Cars, x \in Sides : ~(c = run.car /\ x = side) =>
             LoadedRun(db, r, c, x) = LoadedRun(s.db, r, c, x)
      BY <1>2 DEF LoadedRun
    <2>6. \A c, x : c \notin Cars => LoadedRun(db, r, c, x) = LoadedRun(s.db, r, c, x)
      BY DEF LoadedRun
    <2>7. AgreesRuns(two, r)
      <3>1. CASE run.car \notin Cars /\ round = s.rounds[r]
        <4>1. \A c, x : x \in Sides => LoadedRun(db, r, c, x) = LoadedRun(s.db, r, c, x)
          BY <2>5, <2>6, <3>1
        <4>2. QED
          BY <1>4, <2>3, <3>1, <4>1 DEF AgreesRuns
      <3>2. CASE run.car \in Cars
                 /\ round.upper[side] = run /\ round.upper.car = run.car
                 /\ RunsKept(s.rounds[r], round, "upper", side)
        <4>1. LoadedRun(db, r, run.car, side) = run
          BY <1>2, <3>2 DEF LoadedRun
        <4>2. ASSUME NEW x \in Sides
              PROVE  /\ round.upper[x] = LoadedRun(db, r, round.upper.car, x)
                     /\ round.lower[x] = IF round.lower.car = round.upper.car THEN NoRun
                                         ELSE LoadedRun(db, r, round.lower.car, x)
          <5>1. CASE x = side
            <6>1. round.lower[x] = s.rounds[r].lower[x]
              BY <3>2 DEF RunsKept, Levels
            <6>2. round.lower.car # run.car =>
                     LoadedRun(db, r, round.lower.car, x) = LoadedRun(s.db, r, round.lower.car, x)
              BY <2>5, <2>6
            <6>3. QED
              BY <2>1, <2>3, <3>2, <4>1, <5>1, <6>1, <6>2 DEF AgreesRuns
          <5>2. CASE x # side
            <6>1. round.lower[x] = s.rounds[r].lower[x] /\ round.upper[x] = s.rounds[r].upper[x]
              BY <3>2, <5>2 DEF RunsKept, Levels
            <6>2. \A c : LoadedRun(db, r, c, x) = LoadedRun(s.db, r, c, x)
              BY <2>5, <2>6, <5>2
            <6>3. QED
              BY <2>1, <2>3, <6>1, <6>2 DEF AgreesRuns
          <5>3. QED
            BY <5>1, <5>2
        <4>3. QED
          BY <1>4, <4>2 DEF AgreesRuns
      <3>3. CASE run.car \in Cars
                 /\ round.lower[side] = run /\ round.lower.car = run.car /\ round.upper.car # run.car
                 /\ RunsKept(s.rounds[r], round, "lower", side)
        <4>1. LoadedRun(db, r, run.car, side) = run
          BY <1>2, <3>3 DEF LoadedRun
        <4>2. ASSUME NEW x \in Sides
              PROVE  /\ round.upper[x] = LoadedRun(db, r, round.upper.car, x)
                     /\ round.lower[x] = IF round.lower.car = round.upper.car THEN NoRun
                                         ELSE LoadedRun(db, r, round.lower.car, x)
          <5>1. round.upper[x] = s.rounds[r].upper[x]
            BY <3>3 DEF RunsKept, Levels
          <5>2. LoadedRun(db, r, round.upper.car, x) = LoadedRun(s.db, r, round.upper.car, x)
            BY <2>5, <2>6, <3>3
          <5>3. round.upper[x] = LoadedRun(db, r, round.upper.car, x)
            BY <2>1, <2>3, <5>1, <5>2 DEF AgreesRuns
          <5>4. CASE x = side
            BY <3>3, <4>1, <5>3, <5>4
          <5>5. CASE x # side
            <6>1. round.lower[x] = s.rounds[r].lower[x]
              BY <3>3, <5>5 DEF RunsKept, Levels
            <6>2. \A c : LoadedRun(db, r, c, x) = LoadedRun(s.db, r, c, x)
              BY <2>5, <2>6, <5>5
            <6>3. QED
              BY <2>1, <2>3, <5>3, <6>1, <6>2 DEF AgreesRuns
          <5>6. QED
            BY <5>4, <5>5
        <4>3. QED
          BY <1>4, <4>2 DEF AgreesRuns
      <3>4. QED
        BY <2>2, <3>1, <3>2, <3>3 DEF Levels
    <2>8. QED
      BY <2>4, <2>7 DEF Agrees
  <1>8. QED
    BY <1>1, <1>5, <1>6, <1>7, OneRound

\* The entry of a target changes its run.
LEMMA RoundChanged ==
  ASSUME NEW old \in ChallengeRounds, NEW level \in Levels, NEW side \in Sides,
         NEW run \in Runs \union {NoRun},
         NEW round, round = [old EXCEPT ![level] = [old[level] EXCEPT ![side] = run]]
  PROVE  /\ round \in ChallengeRounds /\ round[level][side] = run
         /\ RunsKept(old, round, level, side)
         /\ \A l \in Levels : round[l].car = old[l].car /\ round[l].dial = old[l].dial
  <1> DEFINE was == old[level]
             entry == [was EXCEPT ![side] = run]
  <1>1. was \in Entries
    BY RoundFacts
  <1> HIDE DEF was
  <1>2. /\ entry \in Entries /\ entry.car = was.car /\ entry.dial = was.dial
        /\ entry[side] = run
        /\ \A x \in Sides : x # side => entry[x] = was[x]
    BY <1>1, RunChanged
  <1>3. round = [old EXCEPT ![level] = entry]
    BY DEF was
  <1> HIDE DEF entry
  <1>4. /\ round \in ChallengeRounds /\ round[level] = entry
        /\ round[Other(level)] = old[Other(level)]
    BY <1>2, <1>3 DEF ChallengeRounds, Levels, Other
  <1>5. \A l \in Levels : l # level => round[l] = old[l]
    BY <1>4 DEF Other, Levels
  <1>6. \A l \in Levels : round[l].car = old[l].car /\ round[l].dial = old[l].dial
    BY <1>2, <1>4, <1>5 DEF was
  <1>7. RunsKept(old, round, level, side)
    BY <1>2, <1>4, <1>5 DEF RunsKept, was
  <1>8. QED
    BY <1>2, <1>4, <1>6, <1>7

\* A run that settled rounds show is the one that is stored for the car.
LEMMA ShownRun ==
  ASSUME NEW s, StateOK(s), NEW r \in Rounds, AgreesRuns(s, r), NEW level \in Levels, NEW side \in Sides,
         s.rounds[r][level][side] # NoRun
  PROVE  /\ s.rounds[r][level].car \in Cars
         /\ s.rounds[r][level][side].car = s.rounds[r][level].car
         /\ level = "lower" => s.rounds[r].upper.car # s.rounds[r].lower.car
  <1>1. /\ s.rounds[r][level][side] = LoadedRun(s.db, r, s.rounds[r][level].car, side)
        /\ level = "lower" => s.rounds[r].upper.car # s.rounds[r].lower.car
    BY DEF AgreesRuns, Levels
  <1> DEFINE car == s.rounds[r][level].car
  <1>2. r \in Opened /\ car \in Cars /\ s.rounds[r][level][side] = s.db.runs[<<r, car, side>>]
    BY <1>1 DEF LoadedRun
  <1> HIDE DEF car
  <1>3. s.db.runs[<<r, car, side>>].car = car
    BY <1>2, StateFacts DEF RunsOwn
  <1>4. QED
    BY <1>1, <1>2, <1>3 DEF car

LEMMA EditGood ==
  ASSUME NEW s, Good(s), NEW t \in OpenedTargets, NEW run \in Runs,
         s.rounds[t.round][t.level][t.side] # NoRun,
         run.car = s.rounds[t.round][t.level][t.side].car
  PROVE  Good(EditRun(s, t, run)) /\ \A q \in Rounds \ {t.round} : Same(s, EditRun(s, t, run), q)
  <1> DEFINE r == t.round
             level == t.level
             side == t.side
             old == s.rounds[r]
             round == [old EXCEPT ![level] = [old[level] EXCEPT ![side] = run]]
             two == EditRun(s, t, run)
  <1>1. r \in Opened /\ r \in Rounds /\ level \in Levels /\ side \in Sides /\ StateOK(s)
    BY DEF OpenedTargets, Good
  <1>2. old \in ChallengeRounds
    BY <1>1, StateFacts
  <1>3. two = [rounds |-> [s.rounds EXCEPT ![r] = round], db |-> SetChallengeRun(s.db, r, side, run)]
    <2>1. [s EXCEPT !.rounds[r][level][side] = run] = [s EXCEPT !.rounds = [s.rounds EXCEPT ![r] = round]]
      BY <1>1, <1>2 DEF StateOK, States
    <2>2. QED
      BY <1>1, <2>1, StateFacts DEF EditRun, Changed
  <1>4. ASSUME WillSettle(s, r)
        PROVE  run.car \in Cars /\ run.car = old[level].car /\ (level = "lower" => old.upper.car # run.car)
    <2>1. AgreesRuns(s, r)
      BY <1>1, <1>4 DEF Good, Agrees
    <2>2. s.rounds[r][level][side] # NoRun /\ run.car = s.rounds[r][level][side].car
      OBVIOUS
    <2> HIDE DEF r, level, side
    <2>3. s.rounds[r][level].car \in Cars
      BY <1>1, <2>1, <2>2, ShownRun
    <2>4. s.rounds[r][level][side].car = s.rounds[r][level].car
      BY <1>1, <2>1, <2>2, ShownRun
    <2>5. level = "lower" => s.rounds[r].upper.car # s.rounds[r].lower.car
      BY <1>1, <2>1, <2>2, ShownRun
    <2>6. QED
      BY <2>2, <2>3, <2>4, <2>5 DEF old
  <1> HIDE DEF old, two
  <1>5. /\ round \in ChallengeRounds /\ round[level][side] = run
        /\ RunsKept(old, round, level, side)
        /\ \A l \in Levels : round[l].car = old[l].car /\ round[l].dial = old[l].dial
    BY <1>1, <1>2, RoundChanged
  <1> HIDE DEF round, r, level, side
  <1>6. WillSettle(s, r) =>
            \/ run.car \notin Cars /\ round = s.rounds[r]
            \/ run.car \in Cars /\ \E l \in Levels :
                  /\ round[l][side] = run /\ round[l].car = run.car
                  /\ l = "lower" => round.upper.car # run.car
                  /\ RunsKept(s.rounds[r], round, l, side)
    BY <1>1, <1>4, <1>5 DEF old, Levels
  <1>7. \A l \in Levels : round[l].car = s.rounds[r][l].car /\ round[l].dial = s.rounds[r][l].dial
    BY <1>5 DEF old
  <1>8. Good(two) /\ \A q \in Rounds \ {r} : Same(s, two, q)
    BY <1>1, <1>3, <1>5, <1>6, <1>7, RunStoredGood
  <1>9. QED
    BY <1>8 DEF two, r

LEMMA NewGood ==
  ASSUME NEW s, Good(s), NEW t \in OpenedTargets, NEW run \in Runs,
         run.car = s.rounds[t.round][t.level].car
  PROVE  Good(NewRun(s, t, run)) /\ \A q \in Rounds \ {t.round} : Same(s, NewRun(s, t, run), q)
  <1> DEFINE r == t.round
             side == t.side
             old == s.rounds[r]
             round == ApplyRun(old, side, run)
             two == NewRun(s, t, run)
  <1>1. r \in Opened /\ r \in Rounds /\ t.level \in Levels /\ side \in Sides /\ StateOK(s)
    BY DEF OpenedTargets, Good
  <1>2. old \in ChallengeRounds /\ old[t.level].car = run.car
    BY <1>1, StateFacts
  <1>3. two = [rounds |-> [s.rounds EXCEPT ![r] = round], db |-> SetChallengeRun(s.db, r, side, run)]
    BY <1>1, StateFacts DEF NewRun, Changed
  <1> HIDE DEF two
  <1>4. /\ round \in ChallengeRounds
        /\ \A l \in Levels : round[l].car = old[l].car /\ round[l].dial = old[l].dial
        /\ Known(old) =>
              \/ run.car \notin Cars /\ round = old
              \/ run.car \in Cars /\ \E l \in Levels :
                    /\ round[l][side] = run /\ round[l].car = run.car
                    /\ l = "lower" => round.upper.car # run.car
                    /\ RunsKept(old, round, l, side)
    <2>1. old.upper.car \in Places /\ old.lower.car \in Places /\ run.car \in Places
          /\ (run.car = old.upper.car \/ run.car = old.lower.car)
      BY <1>1, <1>2, RoundFacts DEF Levels
    <2> HIDE DEF old
    <2>2. CASE run.car = None
      <3>1. round = old /\ run.car \notin Cars
        BY <2>2 DEF ApplyRun
      <3>2. QED
        BY <1>2, <3>1
    <2>3. CASE run.car # None /\ old.upper.car = run.car
      <3> DEFINE level == "upper"
      <3>1. round = [old EXCEPT ![level] = [old[level] EXCEPT ![side] = run]]
        BY <2>3 DEF ApplyRun
      <3>2. "upper" \in Levels
        BY DEF Levels
      <3> HIDE DEF round
      <3>3. /\ round \in ChallengeRounds /\ round["upper"][side] = run
            /\ RunsKept(old, round, "upper", side)
            /\ \A l \in Levels : round[l].car = old[l].car /\ round[l].dial = old[l].dial
        <4>1. level \in Levels /\ level = "upper"
          BY <3>2
        <4> HIDE DEF level
        <4> DEFINE new == [old EXCEPT ![level] = [old[level] EXCEPT ![side] = run]]
        <4>2. /\ new \in ChallengeRounds /\ new[level][side] = run
              /\ RunsKept(old, new, level, side)
              /\ \A l \in Levels : new[l].car = old[l].car /\ new[l].dial = old[l].dial
          BY <1>1, <1>2, <4>1, RoundChanged
        <4>3. round = new
          BY <3>1
        <4> HIDE DEF new
        <4>4. QED
          BY <4>1, <4>2, <4>3
      <3>4. Known(old) => run.car \in Cars
        BY <2>1, <2>3 DEF Known, Places
      <3>5. QED
        BY <2>3, <3>2, <3>3, <3>4
    <2>4. CASE run.car # None /\ old.upper.car # run.car /\ old.lower.car = run.car
      <3> DEFINE level == "lower"
      <3>1. round = [old EXCEPT ![level] = [old[level] EXCEPT ![side] = run]]
        BY <2>4 DEF ApplyRun
      <3>2. "lower" \in Levels /\ "upper" \in Levels
        BY DEF Levels
      <3> HIDE DEF round
      <3>3. /\ round \in ChallengeRounds /\ round["lower"][side] = run
            /\ RunsKept(old, round, "lower", side)
            /\ \A l \in Levels : round[l].car = old[l].car /\ round[l].dial = old[l].dial
        <4>1. level \in Levels /\ level = "lower"
          BY <3>2
        <4> HIDE DEF level
        <4> DEFINE new == [old EXCEPT ![level] = [old[level] EXCEPT ![side] = run]]
        <4>2. /\ new \in ChallengeRounds /\ new[level][side] = run
              /\ RunsKept(old, new, level, side)
              /\ \A l \in Levels : new[l].car = old[l].car /\ new[l].dial = old[l].dial
          BY <1>1, <1>2, <4>1, RoundChanged
        <4>3. round = new
          BY <3>1
        <4> HIDE DEF new
        <4>4. QED
          BY <4>1, <4>2, <4>3
      <3>4. Known(old) => run.car \in Cars
        BY <2>1, <2>4 DEF Known, Places
      <3>5. round.upper.car # run.car
        BY <2>4, <3>2, <3>3
      <3>6. QED
        BY <2>4, <3>2, <3>3, <3>4, <3>5
    <2>5. QED
      BY <2>1, <2>2, <2>3, <2>4
  <1> HIDE DEF round, r, side
  <1>5. WillSettle(s, r) =>
            \/ run.car \notin Cars /\ round = s.rounds[r]
            \/ run.car \in Cars /\ \E l \in Levels :
                  /\ round[l][side] = run /\ round[l].car = run.car
                  /\ l = "lower" => round.upper.car # run.car
                  /\ RunsKept(s.rounds[r], round, l, side)
    BY <1>4 DEF WillSettle, old
  <1>6. \A l \in Levels : round[l].car = s.rounds[r][l].car /\ round[l].dial = s.rounds[r][l].dial
    BY <1>4 DEF old
  <1>7. Good(two) /\ \A q \in Rounds \ {r} : Same(s, two, q)
    BY <1>1, <1>3, <1>4, <1>5, <1>6, RunStoredGood
  <1>8. QED
    BY <1>7 DEF two, r
-----------------------------------------------------------------------------
(* The steps. *)

BracketTypeOK ==
    /\ rounds \in [Rounds -> ChallengeRounds] /\ stored \in Databases
    /\ done \in [runs : 0 .. MaxRuns, moves : 0 .. MaxMoves] /\ mixed \subseteq Rounds

BracketInv == BracketTypeOK /\ RunsOwn(stored) /\ \A r \in Rounds : Settled(r) => Agrees(State, r)

LEMMA StateGood ==
  ASSUME BracketInv
  PROVE  /\ Good(State) /\ State.rounds = rounds /\ State.db = stored
         /\ \A r \in Rounds : Untouched(State, r)
  <1>1. State.rounds = rounds /\ State.db = stored
    BY DEF State
  <1>2. StateOK(State)
    BY DEF State, BracketInv, BracketTypeOK, StateOK, States
  <1>3. \A r \in Rounds : WillSettle(State, r) => Settled(r)
    BY <1>1 DEF WillSettle, Settled, Known
  <1>4. \A r \in Rounds : Untouched(State, r)
    BY <1>1 DEF Untouched
  <1>5. QED
    BY <1>1, <1>2, <1>3, <1>4 DEF Good, BracketInv

LEMMA CountFacts ==
  ASSUME done \in [runs : 0 .. MaxRuns, moves : 0 .. MaxMoves],
         NEW what \in {"runs", "moves"}, NEW bound,
         bound = IF what = "runs" THEN MaxRuns ELSE MaxMoves,
         done[what] < bound, done' = done \/ done' = [done EXCEPT ![what] = @ + 1]
  PROVE  done' \in [runs : 0 .. MaxRuns, moves : 0 .. MaxMoves]
  OBVIOUS

\* A handler that ends well keeps the invariant.
LEMMA BecomeGood ==
  ASSUME BracketInv, NEW s, Good(s), Become(s),
         done' \in [runs : 0 .. MaxRuns, moves : 0 .. MaxMoves]
  PROVE  BracketInv'
  <1>1. StateOK(s) /\ rounds' = s.rounds /\ stored' = s.db
    BY DEF Good, Become
  <1>2. /\ rounds' \in [Rounds -> ChallengeRounds] /\ stored' \in Databases /\ RunsOwn(stored)'
    BY <1>1, StateFacts DEF RunsOwn
  <1>3. mixed' \subseteq Rounds
    BY DEF Become, BracketInv, BracketTypeOK
  <1>4. ASSUME NEW r \in Rounds, Settled(r)' PROVE Agrees(State, r)'
    <2>1. WillSettle(s, r)
      BY <1>1, <1>4 DEF Settled, Become, WillSettle, Known
    <2>2. Agrees(s, r)
      BY <2>1 DEF Good
    <2>3. Agrees(State', r)
      <3>1. State'.rounds = s.rounds /\ State'.db = s.db
        BY <1>1 DEF State
      <3>2. QED
        BY <2>2, <3>1 DEF Agrees, AgreesColumns, AgreesRuns
    <2>4. QED
      BY <2>3 DEF Agrees, AgreesColumns, AgreesRuns
  <1>5. QED
    BY <1>2, <1>3, <1>4 DEF BracketInv, BracketTypeOK

LEMMA RunGood ==
  ASSUME BracketInv, NEW s, Good(s), Run(s)
  PROVE  BracketInv'
  <1>1. done' \in [runs : 0 .. MaxRuns, moves : 0 .. MaxMoves]
    BY CountFacts DEF Run, Counted, BracketInv, BracketTypeOK
  <1>2. QED
    BY <1>1, BecomeGood DEF Run

LEMMA MoveGood ==
  ASSUME BracketInv, NEW s, Good(s), Move(s)
  PROVE  BracketInv'
  <1>1. done' \in [runs : 0 .. MaxRuns, moves : 0 .. MaxMoves]
    BY CountFacts DEF Move, Counted, BracketInv, BracketTypeOK
  <1>2. QED
    BY <1>1, BecomeGood DEF Move

\* Runs of the timer and runs that are typed.
LEMMA NewRunGood ==
  ASSUME BracketInv, NEW t \in OpenedTargets,
         NEW raw \in Times \union Typed \union {NaN}, NEW status \in Statuses,
         NEW new, new = [car |-> rounds[t.round][t.level].car, raw |-> raw, cones |-> 0, status |-> status]
  PROVE  /\ Good(NewRun(State, t, new))
         /\ Good(CheckForWinner(NewRun(State, t, new), t.round))
  <1>1. /\ t.round \in Rounds \ {0} /\ t.level \in Levels /\ t.side \in Sides
        /\ rounds[t.round] \in ChallengeRounds
    BY DEF OpenedTargets, BracketInv, BracketTypeOK
  <1>2. new \in Runs /\ new.car = State.rounds[t.round][t.level].car
    <2>1. rounds[t.round][t.level].car \in Places
      BY <1>1, RoundFacts
    <2>2. QED
      BY <2>1, StateGood DEF Runs
  <1> DEFINE s == NewRun(State, t, new)
  <1>3. Good(s) /\ \A q \in Rounds \ {t.round} : Same(State, s, q)
    BY <1>2, StateGood, NewGood
  <1> HIDE DEF s
  <1>4. \A q \in Rounds \ {t.round} : Untouched(s, q)
    BY <1>3, StateGood, SameUntouched
  <1>5. QED
    BY <1>1, <1>3, <1>4, CheckForWinnerGood DEF s

LEMMA EditRunGood ==
  ASSUME BracketInv, NEW t \in OpenedTargets, rounds[t.round][t.level][t.side] # NoRun,
         NEW run \in Runs, run.car = rounds[t.round][t.level][t.side].car
  PROVE  /\ Good(EditRun(State, t, run))
         /\ Good(CheckForWinner(EditRun(State, t, run), t.round))
  <1>1. t.round \in Rounds \ {0}
    BY DEF OpenedTargets
  <1> DEFINE s == EditRun(State, t, run)
  <1>2. Good(s) /\ \A q \in Rounds \ {t.round} : Same(State, s, q)
    <2>1. /\ State.rounds[t.round][t.level][t.side] # NoRun
          /\ run.car = State.rounds[t.round][t.level][t.side].car
      BY StateGood
    <2>2. QED
      BY <2>1, StateGood, EditGood
  <1> HIDE DEF s
  <1>3. \A q \in Rounds \ {t.round} : Untouched(s, q)
    BY <1>2, StateGood, SameUntouched
  <1>4. QED
    BY <1>1, <1>2, <1>3, CheckForWinnerGood DEF s

\* What is changed in a run that is there.
LEMMA ShownType ==
  ASSUME BracketInv, NEW t \in OpenedTargets, NEW run, run = rounds[t.round][t.level][t.side],
         run # NoRun
  PROVE  run \in Runs
  <1>1. t.round \in Rounds /\ t.level \in Levels /\ t.side \in Sides /\ rounds[t.round] \in ChallengeRounds
    BY DEF OpenedTargets, BracketInv, BracketTypeOK
  <1>2. QED
    BY <1>1, RoundFacts

LEMMA TimerRunKeeps ==
  ASSUME BracketInv, OwnSides, NEW side \in Sides, NEW raw \in Times, NEW status \in Statuses,
         TimerRun(side, raw, status)
  PROVE  BracketInv'
  <1> DEFINE t == Head(targets[side])
             entry == rounds[t.round][t.level]
             new == [car |-> entry.car, raw |-> raw, cones |-> 0, status |-> status]
             edited == [entry[side] EXCEPT !.raw = raw, !.status = status]
             s == IF entry[side] = NoRun THEN NewRun(State, t, new) ELSE EditRun(State, t, edited)
  <1>1. t \in OpenedTargets /\ t.side = side
    <2>1. targets[side] # <<>> /\ targets[side] \in Seq(Waiting(side))
      BY DEF TimerRun, OwnSides
    <2>2. t \in Waiting(side)
      BY <2>1, HeadTailProperties
    <2>3. QED
      BY <2>2 DEF Waiting
  <1>2. Run(s) \/ Run(CheckForWinner(s, t.round))
    BY DEF TimerRun
  <1> HIDE DEF t
  <1>3. Good(s) /\ Good(CheckForWinner(s, t.round))
    <2>1. CASE entry[side] = NoRun
      <3>1. s = NewRun(State, t, new)
        BY <2>1
      <3>2. Good(NewRun(State, t, new)) /\ Good(CheckForWinner(NewRun(State, t, new), t.round))
        BY <1>1, NewRunGood
      <3> HIDE DEF s, new, edited, entry
      <3>3. QED
        BY <3>1, <3>2
    <2>2. CASE entry[side] # NoRun
      <3>1. s = EditRun(State, t, edited)
        BY <2>2
      <3>2. entry[side] \in Runs
        BY <1>1, <2>2, ShownType
      <3>3. edited \in Runs /\ edited.car = entry[side].car
        BY <3>2 DEF Runs
      <3>4. rounds[t.round][t.level][t.side] = entry[side]
        BY <1>1
      <3> HIDE DEF edited, s
      <3>5. Good(EditRun(State, t, edited)) /\ Good(CheckForWinner(EditRun(State, t, edited), t.round))
        BY <1>1, <2>2, <3>3, <3>4, EditRunGood
      <3>6. QED
        BY <3>1, <3>5
    <2>3. QED
      BY <2>1, <2>2
  <1> HIDE DEF s
  <1>4. QED
    BY <1>2, <1>3, RunGood

LEMMA SetTimeKeeps ==
  ASSUME BracketInv, NEW t \in OpenedTargets, NEW raw \in Typed \union {NaN}, SetTime(t, raw)
  PROVE  BracketInv'
  <1> DEFINE entry == rounds[t.round][t.level]
             new == [car |-> entry.car, raw |-> raw, cones |-> 0, status |-> "OK"]
             edited == [entry[t.side] EXCEPT !.raw = raw]
             s == IF entry[t.side] = NoRun THEN NewRun(State, t, new) ELSE EditRun(State, t, edited)
  <1>1. Run(CheckForWinner(s, t.round))
    BY DEF SetTime
  <1>2. Good(CheckForWinner(s, t.round))
    <2>1. CASE entry[t.side] = NoRun
      <3>1. s = NewRun(State, t, new)
        BY <2>1
      <3>2. Good(CheckForWinner(NewRun(State, t, new), t.round))
        BY NewRunGood
      <3> HIDE DEF s, new, edited, entry
      <3>3. QED
        BY <3>1, <3>2
    <2>2. CASE entry[t.side] # NoRun
      <3>1. s = EditRun(State, t, edited)
        BY <2>2
      <3>2. entry[t.side] \in Runs
        BY <2>2, ShownType
      <3>3. edited \in Runs /\ edited.car = entry[t.side].car
        BY <3>2 DEF Runs
      <3> HIDE DEF edited, s
      <3>4. Good(CheckForWinner(EditRun(State, t, edited), t.round))
        BY <2>2, <3>3, EditRunGood
      <3>5. QED
        BY <3>1, <3>4
    <2>3. QED
      BY <2>1, <2>2
  <1> HIDE DEF s
  <1>3. QED
    BY <1>1, <1>2, RunGood

\* setCones and setStatus.
LEMMA CorrectedGood ==
  ASSUME BracketInv, NEW t \in OpenedTargets, NEW s, Run(CheckForWinner(s, t.round)),
         \/ rounds[t.round][t.level][t.side] = NoRun /\ s = State
         \/ /\ rounds[t.round][t.level][t.side] # NoRun
            /\ \E run \in Runs : /\ run.car = rounds[t.round][t.level][t.side].car
                                 /\ s = EditRun(State, t, run)
  PROVE  BracketInv'
  <1>1. Good(CheckForWinner(s, t.round))
    <2>1. CASE s = State
      <3>1. t.round \in Rounds \ {0}
        BY DEF OpenedTargets
      <3>2. QED
        BY <2>1, <3>1, StateGood, CheckForWinnerGood
    <2>2. CASE s # State
      <3>1. PICK run \in Runs : run.car = rounds[t.round][t.level][t.side].car /\ s = EditRun(State, t, run)
        BY <2>2
      <3>2. QED
        BY <2>2, <3>1, EditRunGood
    <2>3. QED
      BY <2>1, <2>2
  <1>2. QED
    BY <1>1, RunGood

LEMMA CorrectKeeps ==
  ASSUME BracketInv, NEW t \in OpenedTargets,
         (\E cones \in Cones : SetCones(t, cones)) \/ (\E status \in Statuses : SetStatus(t, status))
  PROVE  BracketInv'
  <1> DEFINE run == rounds[t.round][t.level][t.side]
  <1>1. run = NoRun \/ run \in Runs
    BY ShownType
  <1>2. ASSUME NEW cones \in Cones, SetCones(t, cones) PROVE BracketInv'
    <2> DEFINE edited == [run EXCEPT !.cones = cones]
               s == IF run = NoRun THEN State ELSE EditRun(State, t, edited)
    <2>1. Run(CheckForWinner(s, t.round))
      BY <1>2 DEF SetCones, Correct
    <2>2. run # NoRun => edited \in Runs /\ edited.car = run.car
      BY <1>1 DEF Runs
    <2>3. \/ run = NoRun /\ s = State
          \/ run # NoRun /\ s = EditRun(State, t, edited)
      OBVIOUS
    <2> HIDE DEF s, edited
    <2>4. QED
      BY <2>1, <2>2, <2>3, CorrectedGood
  <1>3. ASSUME NEW status \in Statuses, SetStatus(t, status) PROVE BracketInv'
    <2> DEFINE edited == [run EXCEPT !.status = status]
               s == IF run = NoRun THEN State ELSE EditRun(State, t, edited)
    <2>1. Run(CheckForWinner(s, t.round))
      BY <1>3 DEF SetStatus, Correct
    <2>2. run # NoRun => edited \in Runs /\ edited.car = run.car
      BY <1>1 DEF Runs
    <2>3. \/ run = NoRun /\ s = State
          \/ run # NoRun /\ s = EditRun(State, t, edited)
      OBVIOUS
    <2> HIDE DEF s, edited
    <2>4. QED
      BY <2>1, <2>2, <2>3, CorrectedGood
  <1>4. QED
    BY <1>2, <1>3

LEMMA SetEntrantKeeps ==
  ASSUME BracketInv, NEW place \in OfRounds(Rounds), NEW car \in Places, NEW dial \in Int,
         SetEntrant(place, car, dial)
  PROVE  BracketInv'
  <1>1. Good(SetTo(State, place, car, dial))
    BY StateGood, SetToGood DEF OfRounds
  <1>2. QED
    BY <1>1, MoveGood DEF SetEntrant

LEMMA SwapEntrantsKeeps ==
  ASSUME BracketInv, NEW one \in OfRounds(Rounds), NEW two \in OfRounds(Rounds), SwapEntrants(one, two)
  PROVE  BracketInv'
  <1> DEFINE a == rounds[one.round][one.level]
             b == rounds[two.round][two.level]
             car == IF b.car = None THEN Nullid ELSE b.car
             dial == IF b.car \in Cars THEN b.dial ELSE 0
             s == SetTo(State, one, car, dial)
  <1>1. /\ one.round # two.round /\ Move(SetTo(s, two, a.car, a.dial))
    BY DEF SwapEntrants
  <1>2. one.round \in Rounds /\ two.round \in Rounds /\ one.level \in Levels /\ two.level \in Levels
        /\ rounds[one.round] \in ChallengeRounds /\ rounds[two.round] \in ChallengeRounds
    BY DEF OfRounds, BracketInv, BracketTypeOK
  <1>3. a.car \in Places /\ a.dial \in Int /\ car \in Places /\ dial \in Int
    <2>1. a.car \in Places /\ a.dial \in Int /\ b.car \in Places /\ b.dial \in Int
      BY <1>2, RoundFacts
    <2>2. QED
      BY <2>1 DEF Places
  <1> HIDE DEF a, car, dial
  <1>4. Good(s)
    BY <1>2, <1>3, StateGood, SetToGood
  <1>5. Same(State, s, two.round)
    <2>1. StateOK(State)
      BY StateGood DEF Good
    <2>2. QED
      BY <1>1, <1>2, <1>3, <2>1, SetToFacts
  <1> HIDE DEF s
  <1>6. Untouched(s, two.round)
    BY <1>2, <1>5, StateGood, SameUntouched
  <1>7. Good(SetTo(s, two, a.car, a.dial))
    BY <1>3, <1>4, <1>6, SetToGood
  <1>8. QED
    BY <1>1, <1>7, MoveGood

LEMMA AutoWinKeeps ==
  ASSUME BracketInv, NEW place \in OfRounds(Contested), AutoWin(place)
  PROVE  BracketInv'
  <1> DEFINE next == AdvancesTo(place.round)
             entry == rounds[place.round][place.level]
  <1>1. place.round \in Rounds \ {0} /\ place.level \in Levels /\ rounds[place.round] \in ChallengeRounds
    BY DEF OfRounds, BracketInv, BracketTypeOK
  <1>2. next \in OfRounds(Rounds) /\ next.round \in Rounds
    BY <1>1, PlaceFacts DEF OfRounds
  <1>3. entry \in Entries
    BY <1>1, RoundFacts
  <1>4. Move(Advance(State, next, entry))
    BY DEF AutoWin
  <1> HIDE DEF next, entry
  <1>5. Good(Advance(State, next, entry))
    BY <1>2, <1>3, StateGood, AdvanceGood
  <1>6. QED
    BY <1>4, <1>5, MoveGood

LEMMA SwapStartKeeps ==
  ASSUME BracketInv, NEW r \in Opened, SwapStart(r)
  PROVE  BracketInv'
  <1> DEFINE round == [rounds[r] EXCEPT !.swapped = ~rounds[r].swapped]
             s == [State EXCEPT !.rounds[r].swapped = ~@]
  <1>1. r \in Rounds /\ rounds \in [Rounds -> ChallengeRounds] /\ rounds[r] \in ChallengeRounds
        /\ stored \in Databases /\ RunsOwn(stored)
    BY DEF BracketInv, BracketTypeOK
  <1>2. round \in ChallengeRounds /\ round.upper = rounds[r].upper /\ round.lower = rounds[r].lower
    BY <1>1 DEF ChallengeRounds
  <1>3. s = [rounds |-> [rounds EXCEPT ![r] = round], db |-> stored]
    BY <1>1 DEF State
  <1> HIDE DEF s, round
  <1>4. StateOK(s) /\ s.rounds[r] = round /\ s.db = stored
        /\ \A q \in Rounds \ {r} : s.rounds[q] = rounds[q]
    BY <1>1, <1>2, <1>3 DEF StateOK, States
  <1>5. \A q \in Rounds \ {r} : Same(State, s, q)
    BY <1>4, StateGood DEF Same
  <1>6. ASSUME WillSettle(s, r) PROVE Agrees(s, r)
    <2>1. Settled(r)
      BY <1>2, <1>4, <1>6 DEF WillSettle, Settled, Known
    <2>2. Agrees(State, r)
      BY <1>1, <2>1 DEF BracketInv
    <2>3. QED
      BY <1>2, <1>4, <2>2, StateGood DEF Agrees, AgreesColumns, AgreesRuns, Levels
  <1>7. Good(s)
    BY <1>1, <1>4, <1>5, <1>6, StateGood, OneRound
  <1>8. Move(s)
    BY DEF SwapStart, s
  <1>9. QED
    BY <1>7, <1>8, MoveGood

\* What is read agrees with the database it is read from.
LEMMA LoadedFacts ==
  ASSUME NEW db \in Databases, NEW r \in Rounds
  PROVE  LET round == LoadedRound(db, r)
         IN  /\ round \in ChallengeRounds
             /\ round.upper.car = db.rounds[r].upper.car /\ round.upper.dial = db.rounds[r].upper.dial
             /\ round.lower.car = db.rounds[r].lower.car /\ round.lower.dial = db.rounds[r].lower.dial
             /\ \A side \in Sides :
                   /\ round.upper[side] = LoadedRun(db, r, round.upper.car, side)
                   /\ round.lower[side] = IF round.lower.car = round.upper.car THEN NoRun
                                          ELSE LoadedRun(db, r, round.lower.car, side)
  <1>1. \A car, side : side \in Sides => LoadedRun(db, r, car, side) \in Runs \union {NoRun}
    BY RunsTyped DEF LoadedRun
  <1>2. /\ db.rounds[r].upper.car \in Places /\ db.rounds[r].upper.dial \in Int
        /\ db.rounds[r].lower.car \in Places /\ db.rounds[r].lower.dial \in Int
    BY DEF Databases, RoundColumns, EntryColumns
  <1> DEFINE up == db.rounds[r].upper.car
             down == db.rounds[r].lower.car
             ul == LoadedRun(db, r, up, "left")
             ur == LoadedRun(db, r, up, "right")
             ll == IF down = up THEN NoRun ELSE LoadedRun(db, r, down, "left")
             lr == IF down = up THEN NoRun ELSE LoadedRun(db, r, down, "right")
             upper == [car |-> up, dial |-> db.rounds[r].upper.dial, left |-> ul, right |-> ur]
             lower == [car |-> down, dial |-> db.rounds[r].lower.dial, left |-> ll, right |-> lr]
             round == LoadedRound(db, r)
  <1>3. /\ ul \in Runs \union {NoRun} /\ ur \in Runs \union {NoRun}
        /\ ll \in Runs \union {NoRun} /\ lr \in Runs \union {NoRun}
    BY <1>1 DEF Sides
  <1>4. round = [swapped |-> FALSE, upper |-> upper, lower |-> lower]
    BY DEF LoadedRound
  <1>5. upper \in Entries /\ lower \in Entries
    <2> HIDE DEF ul, ur, ll, lr, up, down
    <2>1. up \in Places /\ down \in Places
      BY <1>2 DEF up, down
    <2>2. QED
      BY <1>2, <1>3, <2>1 DEF Entries
  <1>6. round \in ChallengeRounds
    <2> HIDE DEF upper, lower, round
    <2>1. QED
      BY <1>4, <1>5 DEF ChallengeRounds
  <1>7. /\ round.upper = upper /\ round.lower = lower
    BY <1>4
  <1>8. \A side \in Sides :
           /\ upper[side] = LoadedRun(db, r, up, side)
           /\ lower[side] = IF down = up THEN NoRun ELSE LoadedRun(db, r, down, side)
    BY DEF Sides
  <1>9. upper.car = up /\ lower.car = down /\ upper.dial = db.rounds[r].upper.dial
        /\ lower.dial = db.rounds[r].lower.dial
    OBVIOUS
  <1> HIDE DEF round, upper, lower
  <1>10. QED
    BY <1>6, <1>7, <1>8, <1>9 DEF round

LEMMA LoadedKeeps ==
  ASSUME BracketInv, Move([rounds |-> [r \in Rounds |-> LoadedRound(stored, r)], db |-> stored])
  PROVE  BracketInv'
  <1> DEFINE s == [rounds |-> [r \in Rounds |-> LoadedRound(stored, r)], db |-> stored]
  <1>1. stored \in Databases /\ RunsOwn(stored)
    BY DEF BracketInv, BracketTypeOK
  <1>2. s.db = stored /\ s.rounds = [r \in Rounds |-> LoadedRound(stored, r)]
        /\ s = [rounds |-> s.rounds, db |-> s.db]
    OBVIOUS
  <1>3. Move(s)
    OBVIOUS
  <1> HIDE DEF s
  <1>4. \A r \in Rounds : s.rounds[r] = LoadedRound(stored, r) /\ LoadedRound(stored, r) \in ChallengeRounds
    BY <1>1, <1>2, LoadedFacts
  <1>5. s.rounds \in [Rounds -> ChallengeRounds]
    BY <1>2, <1>4
  <1>6. StateOK(s)
    BY <1>1, <1>2, <1>5 DEF StateOK, States
  <1>7. ASSUME NEW r \in Rounds PROVE Agrees(s, r)
    <2> DEFINE round == LoadedRound(stored, r)
    <2>1. /\ round.upper.car = stored.rounds[r].upper.car /\ round.upper.dial = stored.rounds[r].upper.dial
          /\ round.lower.car = stored.rounds[r].lower.car /\ round.lower.dial = stored.rounds[r].lower.dial
          /\ \A side \in Sides :
                /\ round.upper[side] = LoadedRun(stored, r, round.upper.car, side)
                /\ round.lower[side] = IF round.lower.car = round.upper.car THEN NoRun
                                       ELSE LoadedRun(stored, r, round.lower.car, side)
      BY <1>1, LoadedFacts
    <2>2. s.rounds[r] = round /\ s.db = stored
      BY <1>2, <1>4
    <2> HIDE DEF round
    <2>3. AgreesColumns(s, r) /\ AgreesRuns(s, r)
      BY <2>1, <2>2 DEF AgreesColumns, AgreesRuns, Levels
    <2>4. QED
      BY <2>3 DEF Agrees
  <1>8. QED
    BY <1>3, <1>6, <1>7, MoveGood DEF Good

\* The runs of an entry are deleted.
DeleteEntry(db, r, entry) ==
    DeleteRun(DeleteRun(db, r, "left", entry.left), r, "right", entry.right)

OnlyDeleted(new, db, r) == \A q \in Opened, c \in Cars, x \in Sides :
    \/ new.runs[<<q, c, x>>] = db.runs[<<q, c, x>>]
    \/ q = r /\ new.runs[<<q, c, x>>] = NoRun

LEMMA DeletedTwice ==
  ASSUME NEW one, NEW two, NEW three, NEW r, OnlyDeleted(two, one, r), OnlyDeleted(three, two, r)
  PROVE  OnlyDeleted(three, one, r)
  <1>1. SUFFICES ASSUME NEW q \in Opened, NEW c \in Cars, NEW x \in Sides
                 PROVE  \/ three.runs[<<q, c, x>>] = one.runs[<<q, c, x>>]
                        \/ q = r /\ three.runs[<<q, c, x>>] = NoRun
    BY DEF OnlyDeleted
  <1>2. \/ three.runs[<<q, c, x>>] = two.runs[<<q, c, x>>]
        \/ q = r /\ three.runs[<<q, c, x>>] = NoRun
    BY DEF OnlyDeleted
  <1>3. \/ two.runs[<<q, c, x>>] = one.runs[<<q, c, x>>]
        \/ q = r /\ two.runs[<<q, c, x>>] = NoRun
    BY DEF OnlyDeleted
  <1>4. QED
    BY <1>2, <1>3

LEMMA GoneStaysGone ==
  ASSUME NEW one, NEW two, NEW r \in Opened, OnlyDeleted(two, one, r),
         NEW c \in Cars, NEW x \in Sides, one.runs[<<r, c, x>>] = NoRun
  PROVE  two.runs[<<r, c, x>>] = NoRun
  BY DEF OnlyDeleted

LEMMA EntryDeleted ==
  ASSUME NEW db \in Databases, RunsOwn(db), NEW r \in Opened, NEW entry \in Entries
  PROVE  LET new == DeleteEntry(db, r, entry)
         IN  /\ new \in Databases /\ RunsOwn(new) /\ new.rounds = db.rounds
             /\ OnlyDeleted(new, db, r)
             /\ \A x \in Sides : entry[x] # NoRun /\ entry[x].car \in Cars =>
                   new.runs[<<r, entry[x].car, x>>] = NoRun
  <1> DEFINE left == entry.left
             right == entry.right
             one == DeleteRun(db, r, "left", left)
             two == DeleteRun(one, r, "right", right)
  <1>1. left \in Runs \union {NoRun} /\ right \in Runs \union {NoRun}
        /\ "left" \in Sides /\ "right" \in Sides
    BY DEF Entries, Sides
  <1> HIDE DEF left, right
  <1>2. /\ one \in Databases /\ RunsOwn(one) /\ one.rounds = db.rounds
        /\ left # NoRun /\ left.car \in Cars => one.runs[<<r, left.car, "left">>] = NoRun
        /\ OnlyDeleted(one, db, r)
    BY <1>1, DeleteFacts DEF OnlyDeleted
  <1> HIDE DEF one
  <1>3. /\ two \in Databases /\ RunsOwn(two) /\ two.rounds = one.rounds
        /\ right # NoRun /\ right.car \in Cars => two.runs[<<r, right.car, "right">>] = NoRun
        /\ OnlyDeleted(two, one, r)
    BY <1>1, <1>2, DeleteFacts DEF OnlyDeleted
  <1> HIDE DEF two
  <1>4. OnlyDeleted(two, db, r)
    BY <1>2, <1>3, DeletedTwice
  <1>5. left # NoRun /\ left.car \in Cars => two.runs[<<r, left.car, "left">>] = NoRun
    BY <1>1, <1>2, <1>3, GoneStaysGone
  <1>6. \A x \in Sides : entry[x] # NoRun /\ entry[x].car \in Cars =>
               two.runs[<<r, entry[x].car, x>>] = NoRun
    BY <1>3, <1>5 DEF left, right, Sides
  <1>7. two = DeleteEntry(db, r, entry)
    BY DEF DeleteEntry, left, right, one, two
  <1>8. QED
    BY <1>2, <1>3, <1>4, <1>6, <1>7

LEMMA ClearedRound ==
  ASSUME NEW round \in ChallengeRounds
  PROVE  LET cleared == [level \in Levels |-> [round[level] EXCEPT !.left = NoRun, !.right = NoRun]]
             next == [round EXCEPT !.upper = cleared["upper"], !.lower = cleared["lower"]]
         IN  /\ next \in ChallengeRounds
             /\ \A level \in Levels : /\ next[level].car = round[level].car
                                      /\ \A side \in Sides : next[level][side] = NoRun
  <1> DEFINE clear(entry) == [entry EXCEPT !.left = NoRun, !.right = NoRun]
             up == clear(round.upper)
             down == clear(round.lower)
             next == [round EXCEPT !.upper = up, !.lower = down]
  <1>1. \A entry \in Entries : /\ clear(entry) \in Entries /\ clear(entry).car = entry.car
                               /\ \A side \in Sides : clear(entry)[side] = NoRun
    BY DEF Entries, Sides
  <1>2. round.upper \in Entries /\ round.lower \in Entries
    BY DEF ChallengeRounds
  <1> HIDE DEF clear
  <1>3. up \in Entries /\ down \in Entries /\ up.car = round.upper.car /\ down.car = round.lower.car
        /\ \A side \in Sides : up[side] = NoRun /\ down[side] = NoRun
    BY <1>1, <1>2
  <1> HIDE DEF up, down
  <1>4. next \in ChallengeRounds /\ next.upper = up /\ next.lower = down
    BY <1>3 DEF ChallengeRounds
  <1>5. [level \in Levels |-> [round[level] EXCEPT !.left = NoRun, !.right = NoRun]]["upper"] = up
        /\ [level \in Levels |-> [round[level] EXCEPT !.left = NoRun, !.right = NoRun]]["lower"] = down
    BY DEF up, down, clear, Levels
  <1>6. QED
    BY <1>3, <1>4, <1>5 DEF Levels

LEMMA ResetRoundKeeps ==
  ASSUME BracketInv, NEW r \in Opened, ResetRound(r)
  PROVE  BracketInv'
  <1> DEFINE round == rounds[r]
             cleared == [level \in Levels |-> [round[level] EXCEPT !.left = NoRun, !.right = NoRun]]
             next == [round EXCEPT !.upper = cleared["upper"], !.lower = cleared["lower"]]
             without(db, level) == DeleteRun(DeleteRun(db, r, "left", round[level].left),
                                             r, "right", round[level].right)
             one == without(stored, "upper")
             two == without(one, "lower")
             db == UpdateRound(two, r, next)
             s == [rounds |-> [rounds EXCEPT ![r] = next], db |-> db]
  <1>1. r \in Rounds /\ rounds \in [Rounds -> ChallengeRounds] /\ round \in ChallengeRounds
        /\ stored \in Databases /\ RunsOwn(stored) /\ round.upper \in Entries /\ round.lower \in Entries
    BY RoundFacts DEF BracketInv, BracketTypeOK, Levels
  <1>2. Run(s)
    BY DEF ResetRound
  <1>3. /\ next \in ChallengeRounds
        /\ \A level \in Levels : /\ next[level].car = round[level].car
                                 /\ \A side \in Sides : next[level][side] = NoRun
    <2> HIDE DEF round
    <2>1. QED
      BY <1>1, ClearedRound
  <1> HIDE DEF next
  <1> DEFINE upper == round.upper
             lower == round.lower
  <1>4. /\ one \in Databases /\ RunsOwn(one) /\ one.rounds = stored.rounds
        /\ OnlyDeleted(one, stored, r)
        /\ \A x \in Sides : upper[x] # NoRun /\ upper[x].car \in Cars =>
              one.runs[<<r, upper[x].car, x>>] = NoRun
    <2>1. one = DeleteEntry(stored, r, upper) /\ upper \in Entries
      BY <1>1 DEF DeleteEntry
    <2> HIDE DEF one, upper
    <2>2. QED
      BY ZenonT(60), <1>1, <2>1, EntryDeleted
  <1>5. /\ two \in Databases /\ RunsOwn(two) /\ two.rounds = stored.rounds
        /\ OnlyDeleted(two, one, r)
        /\ \A x \in Sides : lower[x] # NoRun /\ lower[x].car \in Cars =>
              two.runs[<<r, lower[x].car, x>>] = NoRun
    <2>1. two = DeleteEntry(one, r, lower) /\ lower \in Entries
      BY <1>1 DEF DeleteEntry
    <2> HIDE DEF one, two, lower
    <2>2. QED
      BY <1>1, <1>4, <2>1, EntryDeleted
  <1> HIDE DEF one, two, round
  <1>6. /\ db \in Databases /\ db.runs = two.runs
        /\ \A q \in Rounds : q # r => db.rounds[q] = two.rounds[q]
        /\ Known(next) => db.rounds[r] = Columns(next)
    <2>1. two \in Databases /\ next \in ChallengeRounds
      BY <1>3, <1>5
    <2>2. QED
      BY <1>1, <2>1, UpdateFacts
  <1> HIDE DEF db
  <1>0. OnlyDeleted(two, stored, r)
    BY <1>4, <1>5, DeletedTwice
  <1>7. /\ s.rounds \in [Rounds -> ChallengeRounds] /\ s.rounds[r] = next /\ s.db = db
        /\ \A q \in Rounds \ {r} : s.rounds[q] = rounds[q]
        /\ s = [rounds |-> s.rounds, db |-> s.db]
    BY <1>1, <1>3
  <1> HIDE DEF s
  <1>8. StateOK(s)
    BY <1>5, <1>6, <1>7 DEF StateOK, States, RunsOwn
  <1>9. \A q \in Rounds \ {r} : Same(State, s, q)
    <2>1. SUFFICES ASSUME NEW q \in Rounds \ {r} PROVE Same(State, s, q)
      OBVIOUS
    <2>2. s.rounds[q] = rounds[q] /\ s.db.rounds[q] = stored.rounds[q]
      BY <1>5, <1>6, <1>7
    <2>3. ASSUME NEW c \in Cars, NEW x \in Sides, q \in Opened
          PROVE  s.db.runs[<<q, c, x>>] = stored.runs[<<q, c, x>>]
      BY <1>0, <1>6, <1>7, <2>3 DEF OnlyDeleted
    <2>4. QED
      BY <2>2, <2>3, StateGood DEF Same
  <1>10. ASSUME WillSettle(s, r) PROVE Agrees(s, r)
    <2>0. State.rounds[r] = round /\ State.db = stored /\ rounds[r] = round
      BY StateGood DEF round
    <2>1. next.upper.car = upper.car /\ next.lower.car = lower.car
      BY <1>3 DEF Levels
    <2>2. Settled(r) /\ Known(next)
      BY <1>7, <1>10, <2>0, <2>1 DEF WillSettle, Settled, Known
    <2>3. AgreesRuns(State, r)
      BY <1>1, <2>2 DEF BracketInv, Agrees
    <2>4. AgreesColumns(s, r)
      BY <1>3, <1>6, <1>7, <2>2, ColumnsFacts DEF AgreesColumns
    <2>5. ASSUME NEW x \in Sides
          PROVE  LoadedRun(db, r, upper.car, x) = NoRun
      <3>1. upper[x] = LoadedRun(stored, r, upper.car, x)
        BY <2>0, <2>3 DEF AgreesRuns
      <3>2. CASE upper.car \notin Cars
        BY <3>2 DEF LoadedRun
      <3>3. CASE upper.car \in Cars
        <4>1. upper[x] = stored.runs[<<r, upper.car, x>>]
          BY <3>1, <3>3 DEF LoadedRun
        <4>2. upper[x] # NoRun => upper[x].car = upper.car
          BY <1>1, <3>3, <4>1 DEF RunsOwn
        <4>3. one.runs[<<r, upper.car, x>>] = NoRun
          <5>1. CASE upper[x] = NoRun
            <6> DEFINE car == upper.car
            <6>1. stored.runs[<<r, car, x>>] = NoRun /\ car \in Cars
              BY <3>3, <4>1, <5>1
            <6> HIDE DEF car
            <6>2. one.runs[<<r, car, x>>] = NoRun
              BY <1>4, <6>1, GoneStaysGone
            <6>3. QED
              BY <6>2 DEF car
          <5>2. CASE upper[x] # NoRun
            <6>1. upper[x].car = upper.car /\ upper[x].car \in Cars
              BY <3>3, <4>2, <5>2
            <6>2. one.runs[<<r, upper[x].car, x>>] = NoRun
              BY <1>4, <5>2, <6>1
            <6>3. QED
              BY <6>1, <6>2
          <5>3. QED
            BY <5>1, <5>2
        <4>4. db.runs[<<r, upper.car, x>>] = NoRun
          BY <1>5, <1>6, <3>3, <4>3, GoneStaysGone
        <4>5. QED
          BY <3>3, <4>4 DEF LoadedRun
      <3>4. QED
        BY <3>2, <3>3
    <2>6. ASSUME NEW x \in Sides, lower.car # upper.car
          PROVE  LoadedRun(db, r, lower.car, x) = NoRun
      <3>1. lower[x] = LoadedRun(stored, r, lower.car, x)
        BY <2>0, <2>3, <2>6 DEF AgreesRuns
      <3>2. CASE lower.car \notin Cars
        BY <3>2 DEF LoadedRun
      <3>3. CASE lower.car \in Cars
        <4>1. lower[x] = stored.runs[<<r, lower.car, x>>]
          BY <3>1, <3>3 DEF LoadedRun
        <4>2. lower[x] # NoRun => lower[x].car = lower.car
          BY <1>1, <3>3, <4>1 DEF RunsOwn
        <4>3. two.runs[<<r, lower.car, x>>] = NoRun
          <5>1. CASE lower[x] = NoRun
            <6> DEFINE car == lower.car
            <6>1. stored.runs[<<r, car, x>>] = NoRun /\ car \in Cars
              BY <3>3, <4>1, <5>1
            <6> HIDE DEF car
            <6>2. two.runs[<<r, car, x>>] = NoRun
              BY <1>0, <6>1, GoneStaysGone
            <6>3. QED
              BY <6>2 DEF car
          <5>2. CASE lower[x] # NoRun
            <6>1. lower[x].car = lower.car /\ lower[x].car \in Cars
              BY <3>3, <4>2, <5>2
            <6>2. two.runs[<<r, lower[x].car, x>>] = NoRun
              BY <1>5, <5>2, <6>1
            <6>3. QED
              BY <6>1, <6>2
          <5>3. QED
            BY <5>1, <5>2
        <4>4. db.runs[<<r, lower.car, x>>] = NoRun
          BY <1>6, <4>3
        <4>5. QED
          BY <3>3, <4>4 DEF LoadedRun
      <3>4. QED
        BY <3>2, <3>3
    <2> HIDE DEF upper, lower
    <2>7. \A x \in Sides : next.upper[x] = NoRun /\ next.lower[x] = NoRun
      BY <1>3 DEF Levels
    <2>8. AgreesRuns(s, r)
      BY <1>7, <2>1, <2>5, <2>6, <2>7 DEF AgreesRuns
    <2>9. QED
      BY <2>4, <2>8 DEF Agrees
  <1>11. Good(s)
    BY <1>1, <1>8, <1>9, <1>10, StateGood, OneRound
  <1>12. QED
    BY <1>2, <1>11, RunGood

LEMMA PreloadKeeps ==
  ASSUME BracketInv, Preload
  PROVE  BracketInv'
  <1>1. PICK cars \in [OfRounds(Opened) -> Cars], dials \in [Cars -> Dials] :
          LET car(r, level) == cars[[round |-> r, level |-> level]]
              entry(r, level) ==
                  IF r \in Opened
                  THEN [NoEntry EXCEPT !.car = car(r, level), !.dial = dials[car(r, level)]]
                  ELSE NoEntry
              filled(r) == [NoRound EXCEPT !.upper = entry(r, "upper"), !.lower = entry(r, "lower")]
          IN  Become([rounds |-> [r \in Rounds |-> filled(r)],
                      db |-> [stored EXCEPT !.rounds =
                                 [r \in Rounds |-> IF r \in Opened THEN Columns(filled(r)) ELSE @[r]]]])
    BY DEF Preload
  <1> DEFINE car(r, level) == cars[[round |-> r, level |-> level]]
             entry(r, level) ==
                 IF r \in Opened
                 THEN [NoEntry EXCEPT !.car = car(r, level), !.dial = dials[car(r, level)]]
                 ELSE NoEntry
             filled(r) == [NoRound EXCEPT !.upper = entry(r, "upper"), !.lower = entry(r, "lower")]
             columns == [r \in Rounds |-> IF r \in Opened THEN Columns(filled(r)) ELSE stored.rounds[r]]
             s == [rounds |-> [r \in Rounds |-> filled(r)],
                   db |-> [stored EXCEPT !.rounds = columns]]
  <1>2. Become(s)
    BY <1>1
  <1>3. /\ rounds = [r \in Rounds |-> NoRound] /\ stored \in Databases /\ RunsOwn(stored)
        /\ done' = done /\ done \in [runs : 0 .. MaxRuns, moves : 0 .. MaxMoves]
    BY DEF Preload, BracketInv, BracketTypeOK
  <1>4. /\ NoEntry \in Entries /\ NoEntry.car = None /\ NoEntry.left = NoRun /\ NoEntry.right = NoRun
    BY DEF NoEntry, Entries, Places, Missing
  <1>5. ASSUME NEW r \in Rounds, NEW level \in Levels
        PROVE  /\ entry(r, level) \in Entries
               /\ entry(r, level).left = NoRun /\ entry(r, level).right = NoRun
               /\ r \in Opened => entry(r, level).car \in Cars
               /\ r \notin Opened => entry(r, level) = NoEntry
    <2>1. CASE r \in Opened
      <3>1. [round |-> r, level |-> level] \in OfRounds(Opened)
        BY <2>1 DEF OfRounds
      <3> DEFINE c == car(r, level)
      <3>2. c \in Cars /\ c \in Places /\ dials[c] \in Int
        <4>1. c \in Cars
          BY <3>1
        <4> HIDE DEF c
        <4>2. dials[c] \in Dials
          BY <4>1
        <4>3. \A dial \in Dials : dial \in Int
          OBVIOUS
        <4>4. QED
          BY <4>1, <4>2, <4>3, Zenon DEF Places
      <3>3. entry(r, level) = [NoEntry EXCEPT !.car = c, !.dial = dials[c]]
        BY <2>1
      <3> HIDE DEF c, entry
      <3>4. QED
        BY <1>4, <2>1, <3>2, <3>3 DEF Entries
    <2>2. CASE r \notin Opened
      BY <1>4, <2>2
    <2>3. QED
      BY <2>1, <2>2
  <1> HIDE DEF entry
  <1>6. ASSUME NEW r \in Rounds
        PROVE  /\ filled(r) \in ChallengeRounds
               /\ filled(r).upper = entry(r, "upper") /\ filled(r).lower = entry(r, "lower")
    <2>1. entry(r, "upper") \in Entries /\ entry(r, "lower") \in Entries
      BY <1>5 DEF Levels
    <2>2. QED
      BY <2>1 DEF ChallengeRounds, NoRound
  <1> HIDE DEF filled
  <1>7. columns \in [Rounds -> RoundColumns]
    <2>1. \A r \in Rounds : stored.rounds[r] \in RoundColumns
      BY <1>3 DEF Databases
    <2>2. \A r \in Rounds : Columns(filled(r)) \in RoundColumns
      BY <1>6, ColumnsFacts
    <2>3. QED
      BY <2>1, <2>2
  <1>8. s.db \in Databases /\ s.db.rounds = columns /\ s.db.runs = stored.runs
    <2> HIDE DEF columns
    <2>1. QED
      BY <1>3, <1>7 DEF Databases
  <1>9. /\ s.rounds \in [Rounds -> ChallengeRounds]
        /\ \A r \in Rounds : s.rounds[r] = filled(r)
        /\ s = [rounds |-> s.rounds, db |-> s.db]
    BY <1>6
  <1>10. \A r \in Rounds : columns[r] = IF r \in Opened THEN Columns(filled(r)) ELSE stored.rounds[r]
    OBVIOUS
  <1> HIDE DEF s, columns
  <1>11. StateOK(s)
    BY <1>3, <1>8, <1>9 DEF StateOK, States, RunsOwn
  <1>12. ASSUME NEW r \in Rounds, WillSettle(s, r) PROVE Agrees(s, r)
    <2>1. /\ s.rounds[r].upper.car = entry(r, "upper").car
          /\ s.rounds[r].lower.car = entry(r, "lower").car
          /\ \A x \in Sides : s.rounds[r].upper[x] = NoRun /\ s.rounds[r].lower[x] = NoRun
      BY <1>5, <1>6, <1>9 DEF Levels, Sides
    <2>2. CASE r \in Opened
      <3>1. AgreesColumns(s, r)
        BY <1>6, <1>8, <1>9, <1>10, <2>2, ColumnsFacts DEF AgreesColumns
      <3>2. ~SameCars(rounds[r], s.rounds[r])
        <4>1. rounds[r].upper.car = None
          BY <1>3 DEF NoRound, NoEntry
        <4>2. s.rounds[r].upper.car \in Cars
          BY <1>5, <2>1, <2>2 DEF Levels
        <4>3. QED
          BY <4>1, <4>2 DEF SameCars, Levels
      <3>3. ~HasRuns(rounds[r], stored, r)
        BY <1>12, <3>2 DEF WillSettle
      <3>4. \A c, x : x \in Sides => LoadedRun(s.db, r, c, x) = NoRun
        BY <1>8, <3>3 DEF HasRuns, LoadedRun
      <3>5. AgreesRuns(s, r)
        BY <2>1, <3>4 DEF AgreesRuns
      <3>6. QED
        BY <3>1, <3>5 DEF Agrees
    <2>3. CASE r \notin Opened
      <3>1. s.rounds[r].upper = NoEntry /\ s.rounds[r].lower = NoEntry
        BY <1>5, <1>6, <1>9, <2>3 DEF Levels
      <3>2. rounds[r].upper = NoEntry /\ rounds[r].lower = NoEntry
        BY <1>3 DEF NoRound
      <3>3. Settled(r)
        BY <1>12, <3>1, <3>2 DEF WillSettle, Settled, Known
      <3>4. AgreesColumns(State, r)
        BY <3>3 DEF BracketInv, Agrees
      <3>5. s.db.rounds[r] = stored.rounds[r]
        BY <1>8, <1>10, <2>3
      <3>6. AgreesColumns(s, r)
        BY <3>1, <3>2, <3>4, <3>5, StateGood DEF AgreesColumns, Levels
      <3>7. \A c, x : LoadedRun(s.db, r, c, x) = NoRun
        BY <2>3 DEF LoadedRun
      <3>8. AgreesRuns(s, r)
        BY <2>1, <3>7 DEF AgreesRuns
      <3>9. QED
        BY <3>6, <3>8 DEF Agrees
    <2>4. QED
      BY <2>2, <2>3
  <1>13. Good(s)
    BY <1>11, <1>12 DEF Good
  <1>14. QED
    BY <1>2, <1>3, <1>13, BecomeGood

\* The steps that leave the bracket alone.
LEMMA BracketUnchanged ==
  ASSUME BracketInv, UNCHANGED <<rounds, stored, mixed>>,
         done' \in [runs : 0 .. MaxRuns, moves : 0 .. MaxMoves]
  PROVE  BracketInv'
  BY DEF BracketInv, BracketTypeOK, RunsOwn, Settled, State, Agrees, AgreesColumns, AgreesRuns

LEMMA BracketKept ==
  ASSUME BracketInv, OwnSides, [Next]_vars
  PROVE  BracketInv'
  <1>1. ASSUME NEW t \in OpenedTargets, Activate(t) PROVE BracketInv'
    <2>1. done' \in [runs : 0 .. MaxRuns, moves : 0 .. MaxMoves]
      BY <1>1, CountFacts DEF Activate, Count, BracketInv, BracketTypeOK
    <2>2. QED
      BY <1>1, <2>1, BracketUnchanged DEF Activate
  <1>2. CASE Staging
    <2>1. ASSUME NEW r \in Opened, Stage(r) PROVE BracketInv'
      <3>1. Target(r, "upper", IF rounds[r].swapped THEN "right" ELSE "left") \in OpenedTargets
        BY DEF Target, OpenedTargets, Levels, Sides
      <3>2. QED
        BY <1>1, <2>1, <3>1 DEF Stage
    <2>2. ASSUME NEW t \in OpenedTargets, Deactivate(t) PROVE BracketInv'
      BY <2>2, BracketUnchanged DEF Deactivate, BracketInv, BracketTypeOK
    <2>3. QED
      BY <1>1, <1>2, <2>1, <2>2, SwapStartKeeps DEF Staging
  <1>3. CASE Running
    BY <1>3, TimerRunKeeps, SetTimeKeeps, CorrectKeeps, ResetRoundKeeps DEF Running
  <1>4. CASE Seeding
    <2>1. \A place \in OfRounds(Contested) : place \in OfRounds(Rounds)
      BY DEF OfRounds
    <2>2. ASSUME NEW place \in OfRounds(Contested), NEW car \in Cars, NEW dial \in Dials,
                 SetEntrant(place, car, dial)
          PROVE  BracketInv'
      BY <2>1, <2>2, SetEntrantKeeps DEF Places
    <2>3. ASSUME NEW place \in OfRounds(Contested), NEW dial \in Dials, OverrideDial(place, dial)
          PROVE  BracketInv'
      <3> DEFINE car == rounds[place.round][place.level].car
      <3>1. car \in Places
        <4>1. rounds[place.round] \in ChallengeRounds /\ place.level \in Levels
          BY DEF OfRounds, BracketInv, BracketTypeOK
        <4>2. QED
          BY <4>1, RoundFacts
      <3>2. SetEntrant(place, car, dial)
        BY <2>3 DEF OverrideDial
      <3> HIDE DEF car
      <3>3. dial \in Int
        OBVIOUS
      <3>4. QED
        BY <2>1, <3>1, <3>2, <3>3, SetEntrantKeeps
    <2>4. ASSUME NEW place \in OfRounds(Contested), RemoveEntrant(place) PROVE BracketInv'
      <3>1. Nullid \in Places /\ 0 \in Int
        BY DEF Places
      <3>2. SetEntrant(place, Nullid, 0)
        BY <2>4 DEF RemoveEntrant
      <3>3. QED
        BY <2>1, <3>1, <3>2, SetEntrantKeeps
    <2>5. ASSUME NEW one \in OfRounds(Contested), NEW two \in OfRounds(Contested), SwapEntrants(one, two)
          PROVE  BracketInv'
      BY <2>1, <2>5, SwapEntrantsKeeps
    <2>6. QED
      BY <1>4, <2>2, <2>3, <2>4, <2>5, PreloadKeeps, AutoWinKeeps DEF Seeding
  <1>5. CASE Reload \/ Restart
    BY <1>5, LoadedKeeps DEF Reload, Restart
  <1>6. CASE UNCHANGED vars
    BY <1>6, BracketUnchanged DEF vars, BracketInv, BracketTypeOK
  <1>7. QED
    BY <1>2, <1>3, <1>4, <1>5, <1>6 DEF Next

LEMMA BracketInit ==
  ASSUME Init
  PROVE  BracketInv /\ OwnSides /\ QueuesOK
  <1>1. NoRound \in ChallengeRounds /\ NoRound.upper = NoEntry /\ NoRound.lower = NoEntry
    <2>1. NoEntry \in Entries
      BY DEF NoEntry, Entries, Places, Missing
    <2>2. QED
      BY <2>1 DEF NoRound, ChallengeRounds
  <1>2. rounds = [r \in Rounds |-> NoRound] /\ rounds \in [Rounds -> ChallengeRounds]
    BY <1>1 DEF Init
  <1>3. /\ stored.rounds = [r \in Rounds |-> Columns(NoRound)]
        /\ stored.runs = [key \in Opened \X Cars \X Sides |-> NoRun]
        /\ stored = [rounds |-> stored.rounds, runs |-> stored.runs]
    BY DEF Init
  <1>4. stored \in Databases
    <2>1. Columns(NoRound) \in RoundColumns
      BY <1>1, ColumnsFacts
    <2>2. /\ stored.rounds \in [Rounds -> RoundColumns]
          /\ stored.runs \in [Opened \X Cars \X Sides -> Runs \union {NoRun}]
      BY <1>3, <2>1
    <2>3. QED
      BY <1>3, <2>2 DEF Databases
  <1>5. \A r \in Opened, c \in Cars, x \in Sides : stored.runs[<<r, c, x>>] = NoRun
    BY <1>3
  <1>6. done \in [runs : 0 .. MaxRuns, moves : 0 .. MaxMoves] /\ mixed \subseteq Rounds
    BY DEF Init
  <1>7. ASSUME NEW r \in Rounds PROVE Agrees(State, r)
    <2>1. State.rounds[r] = NoRound /\ State.db = stored
      BY <1>2 DEF State
    <2>2. AgreesColumns(State, r)
      BY <1>1, <1>3, <2>1, ColumnsFacts DEF AgreesColumns
    <2>3. \A c, x : x \in Sides => LoadedRun(stored, r, c, x) = NoRun
      BY <1>5 DEF LoadedRun
    <2>4. \A x \in Sides : NoRound.upper[x] = NoRun /\ NoRound.lower[x] = NoRun
      BY <1>1 DEF NoEntry, Sides
    <2>5. AgreesRuns(State, r)
      BY <2>1, <2>3, <2>4 DEF AgreesRuns
    <2>6. QED
      BY <2>2, <2>5 DEF Agrees
  <1>8. targets = [side \in Sides |-> <<>>] /\ parted \in BOOLEAN
    <2>1. parted \in BOOLEAN
      BY Zenon DEF Init
    <2>2. QED
      BY <2>1 DEF Init
  <1>9. OwnSides /\ QueuesOK
    <2>1. targets \in [Sides -> Seq(OpenedTargets)]
      BY <1>8
    <2>2. OwnSides
      BY <1>8 DEF OwnSides
    <2>3. QED
      BY <1>8, <2>1, <2>2 DEF QueuesOK
  <1>10. QED
    BY <1>2, <1>4, <1>5, <1>6, <1>7, <1>9 DEF BracketInv, BracketTypeOK, RunsOwn

\* The round is what is read, up to the swapped start.
LEMMA AgreesLoaded ==
  ASSUME BracketInv, NEW r \in Rounds, Agrees(State, r)
  PROVE  LoadedRound(stored, r) = [rounds[r] EXCEPT !.swapped = FALSE]
  <1> DEFINE old == rounds[r]
             new == LoadedRound(stored, r)
             same == [old EXCEPT !.swapped = FALSE]
  <1>1. old \in ChallengeRounds /\ stored \in Databases
    BY DEF BracketInv, BracketTypeOK
  <1>2. /\ new \in ChallengeRounds
        /\ new.upper.car = stored.rounds[r].upper.car /\ new.upper.dial = stored.rounds[r].upper.dial
        /\ new.lower.car = stored.rounds[r].lower.car /\ new.lower.dial = stored.rounds[r].lower.dial
        /\ \A side \in Sides :
              /\ new.upper[side] = LoadedRun(stored, r, new.upper.car, side)
              /\ new.lower[side] = IF new.lower.car = new.upper.car THEN NoRun
                                   ELSE LoadedRun(stored, r, new.lower.car, side)
    BY <1>1, LoadedFacts
  <1>3. new.swapped = FALSE
    BY DEF LoadedRound
  <1>4. State.rounds[r] = old /\ State.db = stored
    BY DEF State
  <1> HIDE DEF old, new
  <1>5. /\ new.upper.car = old.upper.car /\ new.upper.dial = old.upper.dial
        /\ new.lower.car = old.lower.car /\ new.lower.dial = old.lower.dial
    BY <1>2, <1>4 DEF Agrees, AgreesColumns, Levels
  <1>6. \A side \in Sides : new.upper[side] = old.upper[side] /\ new.lower[side] = old.lower[side]
    BY <1>2, <1>4, <1>5 DEF Agrees, AgreesRuns
  <1>7. \A a, b \in Entries : a.car = b.car /\ a.dial = b.dial /\ a.left = b.left /\ a.right = b.right => a = b
    BY DEF Entries
  <1>8. new.upper = old.upper /\ new.lower = old.lower
    <2>1. new.upper \in Entries /\ old.upper \in Entries /\ new.lower \in Entries /\ old.lower \in Entries
      BY <1>1, <1>2 DEF ChallengeRounds
    <2>2. /\ new.upper.left = old.upper.left /\ new.upper.right = old.upper.right
          /\ new.lower.left = old.lower.left /\ new.lower.right = old.lower.right
      BY <1>6 DEF Sides
    <2>3. QED
      BY <1>5, <1>7, <2>1, <2>2
  <1>9. /\ same \in ChallengeRounds /\ same.swapped = FALSE
        /\ same.upper = old.upper /\ same.lower = old.lower
    BY <1>1 DEF ChallengeRounds
  <1> HIDE DEF same
  <1>10. \A a, b \in ChallengeRounds : a.swapped = b.swapped /\ a.upper = b.upper /\ a.lower = b.lower => a = b
    BY DEF ChallengeRounds
  <1>11. new = same
    BY <1>2, <1>3, <1>8, <1>9, <1>10
  <1>12. QED
    BY <1>11 DEF new, same, old

IInv == QueuesOK /\ CoursesOppose /\ OwnSides /\ BracketInv

LEMMA Inductive == Spec => []IInv
  <1>1. Init => IInv
    BY BracketInit, CoursesOpposeAtFirst DEF IInv
  <1>2. IInv /\ [Next]_vars => IInv'
    BY QueuesKept, OwnSidesKept, BracketKept DEF IInv
  <1>3. QED
    BY <1>1, <1>2, PTL DEF Spec

\* Memory, tables and queues have their types in every challenge.
THEOREM TypeCorrect == Spec => []TypeOK
  <1>1. IInv => TypeOK
    BY DEF IInv, TypeOK, QueuesOK, BracketInv, BracketTypeOK, Databases
  <1>2. QED
    BY <1>1, Inductive, PTL

\* Whatever runs are taken, typed and corrected, and whoever is put into the
\* bracket or goes on in it: an application that starts again (loadEventData
\* of ChallengeModel) reads every settled round as it was.
THEOREM RestartShowsBracket == Spec => []RestartKeeps
  <1>1. IInv => RestartKeeps
    BY AgreesLoaded DEF IInv, RestartKeeps, BracketInv
  <1>2. QED
    BY <1>1, Inductive, PTL

\* While no single target is taken out of the queues, the courses wait for
\* the two cars of one round, whatever the number of rounds staged and of
\* runs on either course (makeActive and setRun of ChallengeModel).
THEOREM CoursesPaired == Spec => []CoursesOppose
  <1>1. IInv => CoursesOppose
    BY DEF IInv
  <1>2. QED
    BY <1>1, Inductive, PTL
-----------------------------------------------------------------------------
(* The winner of a round. *)

\* What a round whose runs are all in makes of the rounds it leads to.
Outcome(old, new, r) ==
    LET winner == Winner(new[r])
    IN  /\ winner = "nobody" => At(new, AdvancesTo(r)) = At(old, AdvancesTo(r))
        /\ winner \in Levels =>
              /\ At(new, AdvancesTo(r)).car = new[r][winner].car
              /\ At(new, AdvancesTo(r)).dial = NewDial(new[r][winner])
              /\ HasThird(r) => At(new, AdvanceThird(r)).car = new[r][Other(winner)].car

SameRuns(one, two) == \A level \in Levels, side \in Sides : one[level][side] = two[level][side]

LEMMA QuietStep ==
  ASSUME NEW r \in Rounds, SameRuns(rounds[r], rounds'[r])
  PROVE  ~Finishes(r)
  <1>1. RunsOf(rounds[r]) = RunsOf(rounds'[r])
    BY DEF SameRuns, RunsOf, Levels, Sides
  <1>2. QED
    BY <1>1 DEF Finishes

LEMMA DoneComplete ==
  ASSUME NEW round, Done(round), NEW level \in Levels, NEW side \in Sides
  PROVE  /\ round[level][side] # NoRun /\ round[level][side].raw # NaN
         /\ Complete(round[level])
  <1>1. \A l \in Levels, x \in Sides : <<l, x>> \in Timed(round)
    BY DEF Done
  <1>2. \A l \in Levels, x \in Sides : round[l][x] # NoRun /\ round[l][x].raw # NaN
    <2>1. ASSUME NEW l \in Levels, NEW x \in Sides
          PROVE  round[l][x] # NoRun /\ round[l][x].raw # NaN
      <3>1. <<l, x>> \in Timed(round)
        BY <1>1
      <3>2. QED
        BY <3>1 DEF Timed
    <2>2. QED
      BY <2>1
  <1>3. QED
    BY <1>2 DEF Complete, Sides

LEMMA AdvanceFacts ==
  ASSUME NEW s, StateOK(s), NEW place \in OfRounds(Rounds), NEW entry \in Entries
  PROVE  LET new == Advance(s, place, entry)
         IN  /\ StateOK(new)
             /\ \A q \in Rounds \ {place.round} : new.rounds[q] = s.rounds[q]
             /\ \A q \in Rounds : SameRuns(s.rounds[q], new.rounds[q])
             /\ Complete(entry) => /\ At(new.rounds, place).car = entry.car
                                   /\ At(new.rounds, place).dial = NewDial(entry)
  <1>1. CASE ~Complete(entry)
    BY <1>1 DEF Advance, SameRuns
  <1>2. CASE Complete(entry)
    <2> DEFINE dial == NewDial(entry)
               car == entry.car
               new == SetTo(s, place, car, dial)
    <2>1. dial \in Int /\ car \in Places
      BY <1>2, NewDialType DEF Entries
    <2>2. Advance(s, place, entry) = new
      BY <1>2 DEF Advance
    <2>3. place.round \in Rounds /\ place.level \in Levels /\ s.rounds[place.round] \in ChallengeRounds
      BY StateFacts DEF OfRounds
    <2>4. new.rounds[place.round][place.level].dial = dial
      BY <2>1, <2>3, StateFacts DEF SetTo, ChallengeRounds, Entries, Levels
    <2> HIDE DEF dial, car
    <2>5. /\ StateOK(new) /\ \A q \in Rounds \ {place.round} : Same(s, new, q)
          /\ new.rounds[place.round][place.level].car = car
          /\ \A level \in Levels, side \in Sides :
                new.rounds[place.round][level][side] = s.rounds[place.round][level][side]
      BY <2>1, SetToFacts
    <2> HIDE DEF new
    <2>6. \A q \in Rounds \ {place.round} : new.rounds[q] = s.rounds[q]
      BY <2>5 DEF Same
    <2>7. ASSUME NEW q \in Rounds PROVE SameRuns(s.rounds[q], new.rounds[q])
      BY <2>5, <2>6 DEF SameRuns
    <2>8. QED
      BY <2>2, <2>4, <2>5, <2>6, <2>7 DEF At, dial, car
  <1>3. QED
    BY <1>1, <1>2

LEMMA CheckForWinnerFacts ==
  ASSUME NEW s, Good(s), NEW r \in Rounds \ {0}
  PROVE  LET new == CheckForWinner(s, r)
         IN  /\ new.rounds[r] = s.rounds[r]
             /\ \A q \in Rounds : SameRuns(s.rounds[q], new.rounds[q])
             /\ Done(s.rounds[r]) => Outcome(s.rounds, new.rounds, r)
  <1> DEFINE round == s.rounds[r]
             winner == Winner(round)
             checked == [s EXCEPT !.db = UpdateRound(s.db, r, round)]
             next == AdvancesTo(r)
             third == AdvanceThird(r)
             advanced == Advance(checked, next, round[winner])
             both == Advance(advanced, third, round[Other(winner)])
             new == CheckForWinner(s, r)
  <1>1. StateOK(checked) /\ checked.rounds = s.rounds
    BY CheckedGood DEF Good
  <1>2. round \in ChallengeRounds
    BY StateFacts DEF Good
  <1>3. /\ winner = "nobody" => new = checked
        /\ winner # "nobody" /\ HasThird(r) /\ Complete(round[winner]) => new = both
        /\ winner # "nobody" /\ ~(HasThird(r) /\ Complete(round[winner])) => new = advanced
    BY DEF CheckForWinner
  <1>4. winner = "nobody" \/ winner \in Levels
    BY WinnerType
  <1>5. /\ next \in OfRounds(Rounds) /\ next.round # r
        /\ HasThird(r) => third \in OfRounds(Rounds) /\ third.round # r /\ third.round # next.round
    BY PlaceFacts
  <1>6. "nobody" \notin Levels
    BY DEF Levels
  <1>7. ASSUME Done(round), NEW l \in Levels PROVE Complete(round[l])
    BY <1>7, DoneComplete DEF Sides
  <1> HIDE DEF round, winner, checked, next, third, new
  <1>8. CASE winner = "nobody"
    <2>1. new.rounds = s.rounds
      BY <1>1, <1>3, <1>8
    <2>2. Outcome(s.rounds, new.rounds, r)
      BY <1>6, <1>8, <2>1 DEF Outcome, winner, round
    <2>3. QED
      BY <2>1, <2>2 DEF new, SameRuns
  <1>9. CASE winner \in Levels
    <2>1. round[winner] \in Entries /\ round[Other(winner)] \in Entries /\ Other(winner) \in Levels
      BY <1>2, <1>9, RoundFacts, LevelFacts
    <2> DEFINE one == round[winner]
               other == round[Other(winner)]
    <2>2. one \in Entries /\ other \in Entries
      BY <2>1
    <2>3. Done(round) => Complete(one) /\ Complete(other)
      BY <1>7, <1>9, <2>1
    <2> HIDE DEF one, other
    <2> DEFINE a == Advance(checked, next, one)
               b == Advance(a, third, other)
    <2>4. advanced = a /\ both = b
      BY DEF one, other
    <2>5. /\ StateOK(a)
          /\ \A q \in Rounds \ {next.round} : a.rounds[q] = checked.rounds[q]
          /\ \A q \in Rounds : SameRuns(checked.rounds[q], a.rounds[q])
          /\ Complete(one) => At(a.rounds, next).car = one.car /\ At(a.rounds, next).dial = NewDial(one)
      BY <1>1, <1>5, <2>2, AdvanceFacts
    <2> HIDE DEF a
    <2>6. ASSUME HasThird(r)
          PROVE  /\ \A q \in Rounds \ {third.round} : b.rounds[q] = a.rounds[q]
                 /\ \A q \in Rounds : SameRuns(a.rounds[q], b.rounds[q])
                 /\ Complete(other) => At(b.rounds, third).car = other.car
      BY <1>5, <2>2, <2>5, <2>6, AdvanceFacts
    <2> HIDE DEF b, advanced, both
    <2>7. \/ new = a /\ ~(HasThird(r) /\ Complete(one))
          \/ new = b /\ HasThird(r)
      BY <1>3, <1>6, <1>9, <2>4 DEF one
    <2>8. next.round \in Rounds
      BY <1>5 DEF OfRounds
    <2>9. CASE new = a /\ ~(HasThird(r) /\ Complete(one))
      <3>1. new.rounds[r] = round
        BY <1>1, <1>5, <2>5, <2>9 DEF round
      <3>2. \A q \in Rounds : SameRuns(s.rounds[q], new.rounds[q])
        BY <1>1, <2>5, <2>9
      <3>3. Done(round) => Outcome(s.rounds, new.rounds, r)
        BY <1>6, <1>9, <2>3, <2>5, <2>9, <3>1 DEF Outcome, winner, one, next
      <3>4. QED
        BY <3>1, <3>2, <3>3 DEF new, round
    <2>10. CASE new = b /\ HasThird(r)
      <3>1. new.rounds[r] = round
        BY <1>1, <1>5, <2>5, <2>6, <2>10 DEF round
      <3>2. \A q \in Rounds : SameRuns(s.rounds[q], new.rounds[q])
        BY <1>1, <2>5, <2>6, <2>10 DEF SameRuns
      <3>3. b.rounds[next.round] = a.rounds[next.round]
        BY <1>5, <2>6, <2>8, <2>10
      <3>4. Done(round) => /\ At(new.rounds, next).car = one.car /\ At(new.rounds, next).dial = NewDial(one)
                           /\ At(new.rounds, third).car = other.car
        BY <2>3, <2>5, <2>6, <2>10, <3>3 DEF At
      <3>5. Done(round) => Outcome(s.rounds, new.rounds, r)
        BY <1>6, <1>9, <3>1, <3>4 DEF Outcome, winner, one, other, next, third
      <3>6. QED
        BY <3>1, <3>2, <3>5 DEF new, round
    <2>11. QED
      BY <2>7, <2>9, <2>10
  <1>10. QED
    BY <1>4, <1>8, <1>9
\* The web server and the application judge a fair round alike.
LEMMA FairRun ==
  ASSUME ConePenalty = WebPenalty, NEW run \in Runs, run.raw > 0, StatusLevel(run) = 0
  PROVE  run.status = "OK" /\ WebNet(run) = PenSum(run) /\ PenSum(run) \in Int /\ run.raw # NaN
  <1>1. run.status \in {"OK", "RL", "NS", "DNF"}
    BY DEF Runs
  <1>2. run.status = "OK"
    BY <1>1 DEF StatusLevel
  <1>3. run.cones \in Nat /\ run.raw \in Int
    <2>1. run.cones \in Cones /\ run.raw \in Times \union Typed \union {NaN}
      BY DEF Runs
    <2>2. Cones \subseteq Nat /\ Times \subseteq Int /\ Typed \subseteq Int /\ NaN \in Int
      BY DEF NaN
    <2>3. QED
      BY ONLY <2>1, <2>2
  <1> DEFINE raw == run.raw
             cones == run.cones
  <1>4. raw \in Int /\ cones \in Nat /\ raw > 0
    BY <1>3
  <1>5. PenSum(run) = raw + 2 * cones
    BY DEF PenSum, WebPenalty
  <1>6. WebNet(run) = IF raw + 2 * cones # 0 THEN raw + 2 * cones ELSE Missing
    BY <1>2 DEF WebNet, WebPenalty
  <1> HIDE DEF raw, cones
  <1>7. raw + 2 * cones \in Int /\ raw + 2 * cones # 0
    BY <1>4
  <1>8. QED
    BY <1>2, <1>4, <1>5, <1>6, <1>7 DEF raw, NaN

LEMMA LevelsOfRuns ==
  ASSUME NEW entry
  PROVE  /\ Level(entry) \in Nat
         /\ Level(entry) = 0 <=> StatusLevel(entry.left) = 0 /\ StatusLevel(entry.right) = 0
  <1>1. \A run : StatusLevel(run) \in {0, 1, 2}
    BY DEF StatusLevel
  <1>2. QED
    BY <1>1 DEF Level

LEMMA FairEntry ==
  ASSUME ConePenalty = WebPenalty, NEW entry \in Entries, Complete(entry),
         entry.left.raw > 0, entry.right.raw > 0, Level(entry) = 0
  PROVE  /\ entry.left.status = "OK" /\ entry.right.status = "OK"
         /\ WebResult(entry) = Result(entry) /\ Result(entry) \in Int
         /\ WebNewDial(entry) = NewDial(entry)
  <1>1. entry.left \in Runs /\ entry.right \in Runs /\ entry.dial \in Int
    BY DEF Complete, Entries
  <1>2. StatusLevel(entry.left) = 0 /\ StatusLevel(entry.right) = 0
    BY LevelsOfRuns
  <1>3. /\ entry.left.status = "OK" /\ WebNet(entry.left) = PenSum(entry.left)
        /\ PenSum(entry.left) \in Int /\ entry.left.raw # NaN
    BY <1>1, <1>2, FairRun
  <1>4. /\ entry.right.status = "OK" /\ WebNet(entry.right) = PenSum(entry.right)
        /\ PenSum(entry.right) \in Int /\ entry.right.raw # NaN
    BY <1>1, <1>2, FairRun
  <1>5. PICK total \in Int, dial \in Int : /\ total = PenSum(entry.left) + PenSum(entry.right)
                                           /\ dial = entry.dial
    BY <1>1, <1>3, <1>4
  <1>6. Result(entry) = total - 2 * dial /\ WebResult(entry) = total - 2 * dial
    BY <1>3, <1>4, <1>5 DEF Result, Total, WebResult
  <1>7. NewDial(entry) = IF total < 2 * dial THEN dial - (3 * (2 * dial - total)) \div 4 ELSE dial
    BY <1>3, <1>4, <1>5 DEF NewDial, Counts, Total
  <1>8. WebNewDial(entry) = IF total - 2 * dial < 0
                            THEN dial - (3 * (0 - (total - 2 * dial))) \div 4 ELSE dial
    BY <1>5, <1>6 DEF WebNewDial
  <1>9. 0 - (total - 2 * dial) = 2 * dial - total /\ (total - 2 * dial < 0 <=> total < 2 * dial)
    OBVIOUS
  <1>10. QED
    BY <1>3, <1>4, <1>6, <1>7, <1>8, <1>9

LEMMA FairWinner ==
  ASSUME ConePenalty = WebPenalty, NEW round \in ChallengeRounds, Fair(round)
  PROVE  /\ Winner(round) = WebWinner(round)
         /\ Level(round.upper) + Level(round.lower) = 0 =>
               \A level \in Levels : WebNewDial(round[level]) = NewDial(round[level])
  <1> DEFINE up == round.upper
             down == round.lower
  <1>1. /\ up \in Entries /\ down \in Entries /\ Complete(up) /\ Complete(down)
        /\ round["upper"] = up /\ round["lower"] = down
        /\ \A level \in Levels, side \in Sides : round[level][side] # NoRun
    BY RoundFacts, DoneComplete DEF Fair, Levels, Sides
  <1>2. up.left.raw > 0 /\ up.right.raw > 0 /\ down.left.raw > 0 /\ down.right.raw > 0
    BY DEF Fair, Levels, Sides
  <1>3. Level(up) = 0 \/ Level(down) = 0
    BY DEF Fair, Levels
  <1>4. /\ Level(up) \in Nat /\ Level(down) \in Nat
    BY LevelsOfRuns
  <1>5. ~HalfNormal(round) /\ ~HalfInverse(round)
    <2>1. <<"upper", "left">> \in Timed(round) /\ <<"upper", "right">> \in Timed(round)
      BY DEF Fair, Done, Levels, Sides
    <2>2. QED
      BY <2>1 DEF HalfNormal, HalfInverse
  <1>6. Winner(round) = IF Level(up) > 1 /\ Level(down) > 1 THEN "nobody"
           ELSE IF Level(up) > 0 THEN "lower"
           ELSE IF Level(down) > 0 THEN "upper"
           ELSE IF Result(up) < Result(down) THEN "upper"
           ELSE IF Result(down) < Result(up) THEN "lower" ELSE "nobody"
    BY <1>5 DEF Winner, Fair
  <1>7. WebWinner(round) =
           IF up.left.status # "OK" THEN "lower"
           ELSE IF down.right.status # "OK" THEN "upper"
           ELSE IF up.right.status # "OK" THEN "lower"
           ELSE IF down.left.status # "OK" THEN "upper"
           ELSE IF WebResult(up) < WebResult(down) THEN "upper"
           ELSE IF WebResult(down) < WebResult(up) THEN "lower" ELSE "nobody"
    BY <1>1 DEF WebWinner, AtFault, Levels, Sides
  <1>8. ASSUME Level(up) = 0
        PROVE  /\ up.left.status = "OK" /\ up.right.status = "OK" /\ WebResult(up) = Result(up)
               /\ WebNewDial(up) = NewDial(up)
    <2> HIDE DEF up
    <2>1. QED
      BY <1>1, <1>2, <1>8, FairEntry
  <1>9. ASSUME Level(down) = 0
        PROVE  /\ down.left.status = "OK" /\ down.right.status = "OK" /\ WebResult(down) = Result(down)
               /\ WebNewDial(down) = NewDial(down)
    <2> HIDE DEF down
    <2>1. QED
      BY <1>1, <1>2, <1>9, FairEntry
  <1>10. ASSUME Level(up) > 0 PROVE up.left.status # "OK" \/ up.right.status # "OK"
    <2>1. \A run : run.status = "OK" => StatusLevel(run) = 0
      BY DEF StatusLevel
    <2>2. QED
      BY <1>10, <2>1 DEF Level
  <1>11. ASSUME Level(down) > 0 PROVE down.left.status # "OK" \/ down.right.status # "OK"
    <2>1. \A run : run.status = "OK" => StatusLevel(run) = 0
      BY DEF StatusLevel
    <2>2. QED
      BY <1>11, <2>1 DEF Level
  <1> HIDE DEF up, down
  <1>12. Winner(round) = WebWinner(round)
    BY <1>3, <1>4, <1>6, <1>7, <1>8, <1>9, <1>10, <1>11
  <1>13. Level(up) + Level(down) = 0 => Level(up) = 0 /\ Level(down) = 0
    BY <1>4
  <1>14. QED
    BY <1>1, <1>8, <1>9, <1>12, <1>13 DEF up, down, Levels
\* A round that is told of a run of target t, in memory and in the database.
Told(t, s) ==
    LET shown == rounds[t.round][t.level][t.side]
    IN  \/ s = State
        \/ \E run \in Runs : run.car = rounds[t.round][t.level].car /\ s = NewRun(State, t, run)
        \/ shown # NoRun /\ \E run \in Runs : run.car = shown.car /\ s = EditRun(State, t, run)

LEMMA ToldFacts ==
  ASSUME BracketInv, NEW t \in OpenedTargets, NEW s, Told(t, s)
  PROVE  /\ t.round \in Rounds \ {0} /\ Good(s)
         /\ \A q \in Rounds \ {t.round} : s.rounds[q] = rounds[q]
  <1>1. t.round \in Rounds \ {0}
    BY DEF OpenedTargets
  <1>2. /\ Good(State) /\ State.rounds = rounds
    BY StateGood
  <1>3. CASE s = State
    BY <1>1, <1>2, <1>3
  <1>4. ASSUME NEW run \in Runs, run.car = rounds[t.round][t.level].car, s = NewRun(State, t, run)
        PROVE  Good(s) /\ \A q \in Rounds \ {t.round} : s.rounds[q] = rounds[q]
    <2>1. Good(NewRun(State, t, run)) /\ \A q \in Rounds \ {t.round} : Same(State, NewRun(State, t, run), q)
      BY <1>2, <1>4, NewGood
    <2>2. QED
      BY <1>2, <1>4, <2>1 DEF Same
  <1>5. ASSUME rounds[t.round][t.level][t.side] # NoRun, NEW run \in Runs,
               run.car = rounds[t.round][t.level][t.side].car, s = EditRun(State, t, run)
        PROVE  Good(s) /\ \A q \in Rounds \ {t.round} : s.rounds[q] = rounds[q]
    <2>1. Good(EditRun(State, t, run)) /\ \A q \in Rounds \ {t.round} : Same(State, EditRun(State, t, run), q)
      BY <1>2, <1>5, EditGood
    <2>2. QED
      BY <1>2, <1>5, <2>1 DEF Same
  <1>6. QED
    BY <1>1, <1>3, <1>4, <1>5 DEF Told

\* A handler that looks for the winner of the round it changed.
LEMMA JudgedStep ==
  ASSUME BracketInv, NEW t \in OpenedTargets, NEW s, Told(t, s),
         rounds' = CheckForWinner(s, t.round).rounds,
         NEW r \in Contested, Finishes(r)
  PROVE  Outcome(rounds, rounds', r)
  <1>1. /\ t.round \in Rounds \ {0} /\ Good(s) /\ r \in Rounds
        /\ \A q \in Rounds \ {t.round} : s.rounds[q] = rounds[q]
    BY ToldFacts
  <1>2. /\ rounds'[t.round] = s.rounds[t.round]
        /\ \A q \in Rounds : SameRuns(s.rounds[q], rounds'[q])
        /\ Done(s.rounds[t.round]) => Outcome(s.rounds, rounds', t.round)
    BY <1>1, CheckForWinnerFacts
  <1>3. r = t.round
    <2>1. r # t.round => SameRuns(rounds[r], rounds'[r])
      BY <1>1, <1>2
    <2>2. QED
      BY <1>1, <2>1, QuietStep
  <1>4. Done(rounds'[r])
    BY DEF Finishes, Fair
  <1>5. Outcome(s.rounds, rounds', r)
    BY <1>2, <1>3, <1>4
  <1>6. At(s.rounds, AdvancesTo(r)) = At(rounds, AdvancesTo(r))
    <2>1. AdvancesTo(r).round \in Rounds \ {t.round}
      BY <1>1, <1>3, PlaceFacts DEF OfRounds
    <2>2. QED
      BY <1>1, <2>1 DEF At
  <1>7. QED
    BY <1>5, <1>6 DEF Outcome

\* A run that has no time yet (raw is 0) finishes nothing.
LEMMA StartedRun ==
  ASSUME NEW round, NEW side \in Sides, round["upper"][side].raw = 0 \/ round["lower"][side].raw = 0
  PROVE  ~Fair(round)
  BY DEF Fair, Levels

LEMMA StartedStep ==
  ASSUME BracketInv, NEW t \in OpenedTargets, NEW s, NEW run \in Runs, run.raw = 0,
         \/ s = NewRun(State, t, run) /\ run.car = rounds[t.round][t.level].car
         \/ s = EditRun(State, t, run) /\ run.car = rounds[t.round][t.level][t.side].car
            /\ rounds[t.round][t.level][t.side] # NoRun,
         rounds' = s.rounds, NEW r \in Contested
  PROVE  ~Finishes(r)
  <1>1. /\ t.round \in Rounds /\ t.level \in Levels /\ t.side \in Sides /\ r \in Rounds
        /\ rounds \in [Rounds -> ChallengeRounds] /\ State.rounds = rounds
    BY StateGood DEF OpenedTargets, BracketInv, BracketTypeOK
  <1>2. CASE r # t.round
    <2>1. Told(t, s)
      BY DEF Told
    <2>2. rounds'[r] = rounds[r]
      BY <1>1, <1>2, <2>1, ToldFacts
    <2>3. QED
      BY <1>1, <2>2, QuietStep DEF SameRuns
  <1>3. CASE r = t.round /\ s = EditRun(State, t, run)
    <2> DEFINE old == rounds[t.round]
    <2>1. old \in ChallengeRounds
      BY <1>1
    <2>2. rounds'[r] = [old EXCEPT ![t.level] = [old[t.level] EXCEPT ![t.side] = run]]
      BY <1>1, <1>3, <2>1 DEF EditRun, Changed, State, ChallengeRounds, Levels
    <2> HIDE DEF old
    <2>3. rounds'[r][t.level][t.side] = run
      BY <1>1, <2>1, <2>2, RoundChanged
    <2>4. QED
      BY <1>1, <2>3, StartedRun DEF Finishes, Levels
  <1>4. CASE r = t.round /\ s = NewRun(State, t, run) /\ run.car = rounds[t.round][t.level].car
    <2> DEFINE old == rounds[t.round]
               side == t.side
    <2>1. old \in ChallengeRounds /\ old.upper \in Entries /\ old.lower \in Entries
          /\ old[t.level].car = run.car /\ side \in Sides
      BY <1>1, <1>4, RoundFacts DEF Levels
    <2>2. rounds'[r] = ApplyRun(old, side, run)
      BY <1>1, <1>4 DEF NewRun, Changed, State
    <2>3. run.car = old.upper.car \/ run.car = old.lower.car
      BY <1>1, <2>1 DEF Levels
    <2> HIDE DEF old, side
    <2>4. CASE run.car = None
      <3>1. rounds'[r] = rounds[r]
        BY <1>4, <2>2, <2>4 DEF ApplyRun, old
      <3>2. QED
        BY <1>1, <3>1, QuietStep DEF SameRuns
    <2>5. CASE run.car # None /\ run.car = old.upper.car
      <3>1. rounds'[r] = [old EXCEPT !["upper"] = [old["upper"] EXCEPT ![side] = run]]
        BY <2>1, <2>2, <2>5 DEF ApplyRun, ChallengeRounds
      <3>2. rounds'[r]["upper"][side] = run
        BY <2>1, <3>1, RoundChanged DEF Levels
      <3>3. QED
        BY <2>1, <3>2, StartedRun DEF Finishes
    <2>6. CASE run.car # None /\ run.car # old.upper.car
      <3>1. rounds'[r] = [old EXCEPT !["lower"] = [old["lower"] EXCEPT ![side] = run]]
        BY <2>1, <2>2, <2>3, <2>6 DEF ApplyRun, ChallengeRounds
      <3>2. rounds'[r]["lower"][side] = run
        BY <2>1, <3>1, RoundChanged DEF Levels
      <3>3. QED
        BY <2>1, <3>2, StartedRun DEF Finishes
    <2>7. QED
      BY <2>4, <2>5, <2>6
  <1>5. QED
    BY <1>2, <1>3, <1>4
LEMMA TimerRunOutcome ==
  ASSUME BracketInv, OwnSides, NEW side \in Sides, NEW raw \in Times, NEW status \in Statuses,
         TimerRun(side, raw, status), NEW r \in Contested, Finishes(r)
  PROVE  Outcome(rounds, rounds', r)
  <1> DEFINE t == Head(targets[side])
             entry == rounds[t.round][t.level]
             new == [car |-> entry.car, raw |-> raw, cones |-> 0, status |-> status]
             edited == [entry[side] EXCEPT !.raw = raw, !.status = status]
             s == IF entry[side] = NoRun THEN NewRun(State, t, new) ELSE EditRun(State, t, edited)
  <1>1. t \in OpenedTargets /\ t.side = side
    <2>1. targets[side] # <<>> /\ targets[side] \in Seq(Waiting(side))
      BY DEF TimerRun, OwnSides
    <2>2. t \in Waiting(side)
      BY <2>1, HeadTailProperties
    <2>3. QED
      BY <2>2 DEF Waiting
  <1>2. \/ raw = 0 /\ rounds' = s.rounds
        \/ rounds' = CheckForWinner(s, t.round).rounds
    BY DEF TimerRun, Run, Become
  <1> HIDE DEF t
  <1>3. entry.car \in Places
    <2>1. t.round \in Rounds /\ t.level \in Levels /\ rounds[t.round] \in ChallengeRounds
      BY <1>1 DEF OpenedTargets, BracketInv, BracketTypeOK
    <2>2. QED
      BY <2>1, RoundFacts
  <1>4. new \in Runs /\ new.car = entry.car /\ new.raw = raw
    BY <1>3 DEF Runs
  <1>5. entry[side] # NoRun => edited \in Runs /\ edited.car = entry[side].car /\ edited.raw = raw
    <2>1. entry[side] # NoRun => entry[side] \in Runs
      BY <1>1, ShownType
    <2>2. QED
      BY <2>1 DEF Runs
  <1>6. /\ s = NewRun(State, t, new) \/ (s = EditRun(State, t, edited) /\ entry[side] # NoRun)
        /\ entry = rounds[t.round][t.level] /\ entry[side] = rounds[t.round][t.level][t.side]
    <2>1. entry[side] = rounds[t.round][t.level][t.side]
      BY <1>1
    <2> HIDE DEF new, edited
    <2>2. QED
      BY <2>1, Zenon
  <1> HIDE DEF entry, new, edited, s
  <1>7. Told(t, s)
    BY <1>4, <1>5, <1>6 DEF Told
  <1>8. CASE rounds' = CheckForWinner(s, t.round).rounds
    BY <1>1, <1>7, <1>8, JudgedStep
  <1>9. CASE raw = 0 /\ rounds' = s.rounds
    <2>1. CASE s = NewRun(State, t, new)
      BY <1>1, <1>4, <1>6, <1>9, <2>1, StartedStep
    <2>2. CASE s = EditRun(State, t, edited) /\ entry[side] # NoRun
      BY <1>1, <1>5, <1>6, <1>9, <2>2, StartedStep
    <2>3. QED
      BY <1>6, <2>1, <2>2
  <1>10. QED
    BY <1>2, <1>8, <1>9

LEMMA TypedOutcome ==
  ASSUME BracketInv, NEW t \in OpenedTargets,
         \/ \E raw \in Typed \union {NaN} : SetTime(t, raw)
         \/ \E cones \in Cones : SetCones(t, cones)
         \/ \E status \in Statuses : SetStatus(t, status),
         NEW r \in Contested, Finishes(r)
  PROVE  Outcome(rounds, rounds', r)
  <1> DEFINE entry == rounds[t.round][t.level]
             run == entry[t.side]
  <1>1. run = NoRun \/ run \in Runs
    BY ShownType
  <1>2. entry.car \in Places
    <2>1. t.round \in Rounds /\ t.level \in Levels /\ rounds[t.round] \in ChallengeRounds
      BY DEF OpenedTargets, BracketInv, BracketTypeOK
    <2>2. QED
      BY <2>1, RoundFacts
  <1>3. ASSUME NEW raw \in Typed \union {NaN}, SetTime(t, raw) PROVE Outcome(rounds, rounds', r)
    <2> DEFINE new == [car |-> entry.car, raw |-> raw, cones |-> 0, status |-> "OK"]
               edited == [run EXCEPT !.raw = raw]
               s == IF run = NoRun THEN NewRun(State, t, new) ELSE EditRun(State, t, edited)
    <2>1. rounds' = CheckForWinner(s, t.round).rounds
      BY <1>3 DEF SetTime, Run, Become
    <2>2. new \in Runs /\ new.car = entry.car
      BY <1>2 DEF Runs
    <2>3. run # NoRun => edited \in Runs /\ edited.car = run.car
      BY <1>1 DEF Runs
    <2>4. s = NewRun(State, t, new) \/ (s = EditRun(State, t, edited) /\ run # NoRun)
      OBVIOUS
    <2> HIDE DEF s, new, edited
    <2>5. Told(t, s)
      BY <2>2, <2>3, <2>4 DEF Told
    <2>6. QED
      BY <2>1, <2>5, JudgedStep
  <1>4. ASSUME NEW edited, run # NoRun => edited \in Runs /\ edited.car = run.car,
               NEW s, s = IF run = NoRun THEN State ELSE EditRun(State, t, edited),
               rounds' = CheckForWinner(s, t.round).rounds
        PROVE  Outcome(rounds, rounds', r)
    <2>1. Told(t, s)
      BY <1>4 DEF Told
    <2>2. QED
      BY <1>4, <2>1, JudgedStep
  <1>5. ASSUME NEW cones \in Cones, SetCones(t, cones) PROVE Outcome(rounds, rounds', r)
    <2> DEFINE edited == [run EXCEPT !.cones = cones]
               s == IF run = NoRun THEN State ELSE EditRun(State, t, edited)
    <2>1. rounds' = CheckForWinner(s, t.round).rounds
      BY <1>5 DEF SetCones, Correct, Run, Become
    <2>2. run # NoRun => edited \in Runs /\ edited.car = run.car
      BY <1>1 DEF Runs
    <2>3. QED
      BY <1>4, <2>1, <2>2
  <1>6. ASSUME NEW status \in Statuses, SetStatus(t, status) PROVE Outcome(rounds, rounds', r)
    <2> DEFINE edited == [run EXCEPT !.status = status]
               s == IF run = NoRun THEN State ELSE EditRun(State, t, edited)
    <2>1. rounds' = CheckForWinner(s, t.round).rounds
      BY <1>6 DEF SetStatus, Correct, Run, Become
    <2>2. run # NoRun => edited \in Runs /\ edited.car = run.car
      BY <1>1 DEF Runs
    <2>3. QED
      BY <1>4, <2>1, <2>2
  <1>7. QED
    BY <1>3, <1>5, <1>6

\* What is read: the round as it was, or a round without runs, or one whose
\* cars changed under their runs.
LEMMA LoadedStep ==
  ASSUME BracketInv, Become([rounds |-> [q \in Rounds |-> LoadedRound(stored, q)], db |-> stored]),
         NEW r \in Contested, r \notin mixed'
  PROVE  ~Finishes(r)
  <1> DEFINE new == LoadedRound(stored, r)
  <1>1. /\ r \in Rounds /\ stored \in Databases /\ rounds'[r] = new
        /\ r \notin mixed
        /\ SameCars(rounds[r], new) \/ ~HasRuns(rounds[r], stored, r)
    BY DEF Become, BracketInv, BracketTypeOK
  <1>2. /\ new.upper.car = stored.rounds[r].upper.car /\ new.lower.car = stored.rounds[r].lower.car
        /\ \A side \in Sides :
              /\ new.upper[side] = LoadedRun(stored, r, new.upper.car, side)
              /\ new.lower[side] = IF new.lower.car = new.upper.car THEN NoRun
                                   ELSE LoadedRun(stored, r, new.lower.car, side)
    BY <1>1, LoadedFacts
  <1>3. CASE ~HasRuns(rounds[r], stored, r)
    <2>1. \A car \in Cars, side \in Sides : r \in Opened => stored.runs[<<r, car, side>>] = NoRun
      BY <1>3, Zenon DEF HasRuns
    <2>2. LoadedRun(stored, r, new.upper.car, "left") = NoRun
      BY <2>1 DEF LoadedRun, Sides
    <2>3. rounds'[r]["upper"]["left"] = NoRun
      BY <1>1, <1>2, <2>2 DEF Sides
    <2>4. QED
      BY <2>3, DoneComplete DEF Finishes, Fair, Levels, Sides
  <1>4. CASE SameCars(rounds[r], new)
    <2>1. CASE Settled(r)
      <3>1. Agrees(State, r)
        BY <1>1, <2>1 DEF BracketInv
      <3>2. rounds'[r] = [rounds[r] EXCEPT !.swapped = FALSE] /\ rounds[r] \in ChallengeRounds
        BY <1>1, <3>1, AgreesLoaded DEF BracketInv, BracketTypeOK
      <3>3. rounds'[r].upper = rounds[r].upper /\ rounds'[r].lower = rounds[r].lower
        BY <3>2 DEF ChallengeRounds
      <3>4. SameRuns(rounds[r], rounds'[r])
        BY <3>3 DEF SameRuns, Levels
      <3>5. QED
        BY <1>1, <3>4, QuietStep
    <2>2. CASE ~Settled(r)
      <3>1. Nullid = new.upper.car \/ Nullid = new.lower.car
        <4>1. Nullid \in {rounds[r].upper.car, rounds[r].lower.car}
          BY <1>1, <2>2 DEF Settled
        <4> HIDE DEF new
        <4>2. rounds[r]["upper"].car = new["upper"].car /\ rounds[r]["lower"].car = new["lower"].car
          BY <1>4 DEF SameCars, Levels
        <4>3. QED
          BY <4>1, <4>2
      <3>2. new.upper["left"] = NoRun \/ new.lower["left"] = NoRun
        BY <1>2, <3>1 DEF LoadedRun, Sides
      <3>3. QED
        BY <1>1, <3>2, DoneComplete DEF Finishes, Fair, Levels, Sides
    <2>3. QED
      BY <2>1, <2>2
  <1>5. QED
    BY <1>1, <1>3, <1>4
\* The operator's other handlers change no run, or take runs away.
LEMMA ResetStep ==
  ASSUME BracketInv, NEW q \in Opened, ResetRound(q), NEW r \in Contested
  PROVE  ~Finishes(r)
  <1> DEFINE round == rounds[q]
             cleared == [level \in Levels |-> [round[level] EXCEPT !.left = NoRun, !.right = NoRun]]
             next == [round EXCEPT !.upper = cleared["upper"], !.lower = cleared["lower"]]
  <1>1. q \in Rounds /\ r \in Rounds /\ rounds \in [Rounds -> ChallengeRounds] /\ round \in ChallengeRounds
    BY DEF BracketInv, BracketTypeOK
  <1>2. rounds' = [rounds EXCEPT ![q] = next]
    BY DEF ResetRound, Run, Become
  <1>3. next["upper"]["left"] = NoRun
    <2> HIDE DEF round
    <2>1. QED
      BY <1>1, ClearedRound DEF Levels, Sides
  <1> HIDE DEF next
  <1>4. CASE r = q
    BY <1>1, <1>2, <1>3, <1>4, DoneComplete DEF Finishes, Fair, Levels, Sides
  <1>5. CASE r # q
    <2>1. rounds'[r] = rounds[r]
      BY <1>1, <1>2, <1>5
    <2>2. QED
      BY <1>1, <2>1, QuietStep DEF SameRuns
  <1>6. QED
    BY <1>4, <1>5

LEMMA SetToRuns ==
  ASSUME NEW s, StateOK(s), NEW place \in OfRounds(Rounds), NEW car \in Places, NEW dial \in Int
  PROVE  /\ StateOK(SetTo(s, place, car, dial))
         /\ \A q \in Rounds : SameRuns(s.rounds[q], SetTo(s, place, car, dial).rounds[q])
  <1> DEFINE new == SetTo(s, place, car, dial)
  <1>1. /\ StateOK(new)
        /\ \A q \in Rounds \ {place.round} : Same(s, new, q)
        /\ \A level \in Levels, side \in Sides :
              new.rounds[place.round][level][side] = s.rounds[place.round][level][side]
    BY SetToFacts
  <1> HIDE DEF new
  <1>2. ASSUME NEW q \in Rounds PROVE SameRuns(s.rounds[q], new.rounds[q])
    BY <1>1 DEF SameRuns, Same
  <1>3. QED
    BY <1>1, <1>2 DEF new

LEMMA SetEntrantStep ==
  ASSUME BracketInv, NEW place \in OfRounds(Rounds), NEW car \in Places, NEW dial \in Int,
         SetEntrant(place, car, dial), NEW r \in Contested
  PROVE  ~Finishes(r)
  <1>1. StateOK(State) /\ State.rounds = rounds
    BY StateGood DEF Good
  <1> DEFINE s == SetTo(State, place, car, dial)
  <1>2. \A q \in Rounds : SameRuns(State.rounds[q], s.rounds[q])
    BY <1>1, SetToRuns
  <1>3. rounds' = s.rounds
    BY DEF SetEntrant, Move, Become
  <1> HIDE DEF s
  <1>4. QED
    BY <1>1, <1>2, <1>3, QuietStep

LEMMA SwapEntrantsStep ==
  ASSUME BracketInv, NEW one \in OfRounds(Rounds), NEW two \in OfRounds(Rounds),
         SwapEntrants(one, two), NEW r \in Contested
  PROVE  ~Finishes(r)
  <1> DEFINE a == rounds[one.round][one.level]
             b == rounds[two.round][two.level]
             car == IF b.car = None THEN Nullid ELSE b.car
             dial == IF b.car \in Cars THEN b.dial ELSE 0
             s == SetTo(State, one, car, dial)
             new == SetTo(s, two, a.car, a.dial)
  <1>1. rounds' = new.rounds
    BY DEF SwapEntrants, Move, Become
  <1>2. one.round \in Rounds /\ two.round \in Rounds /\ one.level \in Levels /\ two.level \in Levels
        /\ rounds[one.round] \in ChallengeRounds /\ rounds[two.round] \in ChallengeRounds
    BY DEF OfRounds, BracketInv, BracketTypeOK
  <1>3. a.car \in Places /\ a.dial \in Int /\ car \in Places /\ dial \in Int
    <2>1. a.car \in Places /\ a.dial \in Int /\ b.car \in Places /\ b.dial \in Int
      BY <1>2, RoundFacts
    <2>2. QED
      BY <2>1 DEF Places
  <1> HIDE DEF a, car, dial
  <1>4. StateOK(State) /\ State.rounds = rounds
    BY StateGood DEF Good
  <1>5. StateOK(s) /\ \A q \in Rounds : SameRuns(rounds[q], s.rounds[q])
    BY <1>3, <1>4, SetToRuns
  <1> HIDE DEF s
  <1>6. \A q \in Rounds : SameRuns(s.rounds[q], new.rounds[q])
    BY <1>3, <1>5, SetToRuns
  <1> HIDE DEF new
  <1>7. SameRuns(rounds[r], rounds'[r])
    BY <1>1, <1>5, <1>6 DEF SameRuns
  <1>8. QED
    BY <1>7, QuietStep

LEMMA AutoWinStep ==
  ASSUME BracketInv, NEW place \in OfRounds(Contested), AutoWin(place), NEW r \in Contested
  PROVE  ~Finishes(r)
  <1> DEFINE next == AdvancesTo(place.round)
             entry == rounds[place.round][place.level]
  <1>1. place.round \in Rounds \ {0} /\ place.level \in Levels /\ rounds[place.round] \in ChallengeRounds
    BY DEF OfRounds, BracketInv, BracketTypeOK
  <1>2. next \in OfRounds(Rounds)
    BY <1>1, PlaceFacts
  <1>3. entry \in Entries
    BY <1>1, RoundFacts
  <1>4. rounds' = Advance(State, next, entry).rounds
    BY DEF AutoWin, Move, Become
  <1> HIDE DEF next, entry
  <1>5. StateOK(State) /\ State.rounds = rounds
    BY StateGood DEF Good
  <1>6. \A q \in Rounds : SameRuns(State.rounds[q], Advance(State, next, entry).rounds[q])
    BY <1>2, <1>3, <1>5, AdvanceFacts
  <1>7. QED
    BY <1>4, <1>5, <1>6, QuietStep

LEMMA PreloadStep ==
  ASSUME Preload, NEW r \in Contested
  PROVE  ~Finishes(r)
  <1>1. PICK cars \in [OfRounds(Opened) -> Cars], dials \in [Cars -> Dials] :
          LET car(q, level) == cars[[round |-> q, level |-> level]]
              entry(q, level) ==
                  IF q \in Opened
                  THEN [NoEntry EXCEPT !.car = car(q, level), !.dial = dials[car(q, level)]]
                  ELSE NoEntry
              filled(q) == [NoRound EXCEPT !.upper = entry(q, "upper"), !.lower = entry(q, "lower")]
          IN  Become([rounds |-> [q \in Rounds |-> filled(q)],
                      db |-> [stored EXCEPT !.rounds =
                                 [q \in Rounds |-> IF q \in Opened THEN Columns(filled(q)) ELSE @[q]]]])
    BY DEF Preload
  <1> DEFINE car(q, level) == cars[[round |-> q, level |-> level]]
             entry(q, level) ==
                 IF q \in Opened
                 THEN [NoEntry EXCEPT !.car = car(q, level), !.dial = dials[car(q, level)]]
                 ELSE NoEntry
             filled(q) == [NoRound EXCEPT !.upper = entry(q, "upper"), !.lower = entry(q, "lower")]
  <1>2. rounds' = [q \in Rounds |-> filled(q)]
    BY <1>1 DEF Become
  <1>3. entry(r, "upper").left = NoRun
    BY DEF NoEntry
  <1> HIDE DEF entry
  <1>4. rounds'[r].upper = entry(r, "upper")
    BY <1>2 DEF NoRound
  <1>5. rounds'[r]["upper"]["left"] = NoRun
    BY <1>3, <1>4
  <1>6. QED
    BY <1>5, DoneComplete DEF Finishes, Fair, Levels, Sides

LEMMA SwapStartStep ==
  ASSUME BracketInv, NEW q \in Opened, SwapStart(q), NEW r \in Contested
  PROVE  ~Finishes(r)
  <1>1. r \in Rounds /\ q \in Rounds /\ rounds \in [Rounds -> ChallengeRounds]
    BY DEF BracketInv, BracketTypeOK
  <1>2. rounds' = [State EXCEPT !.rounds[q].swapped = ~@].rounds
    BY DEF SwapStart, Move, Become
  <1>3. rounds' = [rounds EXCEPT ![q] = [rounds[q] EXCEPT !.swapped = ~rounds[q].swapped]]
    BY <1>1, <1>2 DEF State
  <1>4. rounds'[r].upper = rounds[r].upper /\ rounds'[r].lower = rounds[r].lower
    BY <1>1, <1>3 DEF ChallengeRounds
  <1>5. SameRuns(rounds[r], rounds'[r])
    BY <1>4 DEF SameRuns, Levels
  <1>6. QED
    BY <1>1, <1>5, QuietStep

\* A round that is finished and whose cars did not change under its runs has
\* its winner in the rounds it leads to.
LEMMA Finished ==
  ASSUME BracketInv, OwnSides, [Next]_vars, NEW r \in Contested, Finishes(r), r \notin mixed'
  PROVE  Outcome(rounds, rounds', r)
  <1>1. CASE rounds' = rounds
    BY <1>1, QuietStep DEF SameRuns
  <1>2. CASE Staging
    <2>1. rounds' = rounds \/ \E q \in Opened : SwapStart(q)
      BY <1>2 DEF Staging, Stage, Activate, Deactivate
    <2>2. QED
      BY <1>1, <2>1, SwapStartStep
  <1>3. CASE Running
    BY <1>3, TimerRunOutcome, TypedOutcome, ResetStep DEF Running
  <1>4. CASE Seeding
    <2>1. \A place \in OfRounds(Contested) : place \in OfRounds(Rounds)
      BY DEF OfRounds
    <2>2. ASSUME NEW place \in OfRounds(Contested), NEW car \in Cars, NEW dial \in Dials,
                 SetEntrant(place, car, dial)
          PROVE  FALSE
      <3>1. car \in Places /\ dial \in Int
        BY DEF Places
      <3>2. QED
        BY <2>1, <2>2, <3>1, SetEntrantStep
    <2>3. ASSUME NEW place \in OfRounds(Contested), NEW dial \in Dials, OverrideDial(place, dial)
          PROVE  FALSE
      <3> DEFINE car == rounds[place.round][place.level].car
      <3>1. car \in Places
        <4>1. rounds[place.round] \in ChallengeRounds /\ place.level \in Levels
          BY DEF OfRounds, BracketInv, BracketTypeOK
        <4>2. QED
          BY <4>1, RoundFacts
      <3>2. SetEntrant(place, car, dial)
        BY <2>3 DEF OverrideDial
      <3> HIDE DEF car
      <3>3. dial \in Int
        OBVIOUS
      <3>4. QED
        BY <2>1, <3>1, <3>2, <3>3, SetEntrantStep
    <2>4. ASSUME NEW place \in OfRounds(Contested), RemoveEntrant(place) PROVE FALSE
      <3>1. Nullid \in Places /\ 0 \in Int
        BY DEF Places
      <3>2. SetEntrant(place, Nullid, 0)
        BY <2>4 DEF RemoveEntrant
      <3>3. QED
        BY <2>1, <3>1, <3>2, SetEntrantStep
    <2>5. ASSUME NEW one \in OfRounds(Contested), NEW two \in OfRounds(Contested), SwapEntrants(one, two)
          PROVE  FALSE
      BY <2>1, <2>5, SwapEntrantsStep
    <2>6. QED
      BY <1>4, <2>2, <2>3, <2>4, <2>5, PreloadStep, AutoWinStep DEF Seeding
  <1>5. CASE Reload \/ Restart
    BY <1>5, LoadedStep DEF Reload, Restart, Move
  <1>6. QED
    BY <1>1, <1>2, <1>3, <1>4, <1>5 DEF Next, vars

\* Whatever the order in which runs arrive and are corrected, and whatever is
\* dragged, reset and read again in between: when the four runs of a round are
\* in, the car that checkForWinner has put into the next round is the winner
\* that the web server (result.py) works out from the rows, with the dialin
\* that it shows.  The penalties of both must be the same: the web server has
\* two seconds in its code, the application reads the setting.
THEOREM WebShowsResult ==
  ASSUME ConePenalty = WebPenalty
  PROVE  Spec => ResultStands
  <1>1. ASSUME IInv, IInv', RestartKeeps', [Next]_vars, NEW r \in Contested, Finishes(r), Settled(r)'
        PROVE  LET shown == LoadedRound(stored', r)
                   winner == WebWinner(shown)
                   next == At(rounds', AdvancesTo(r))
               IN  IF winner = "nobody" THEN next = At(rounds, AdvancesTo(r))
                   ELSE /\ next.car = shown[winner].car
                        /\ (Level(shown.upper) + Level(shown.lower) = 0)
                              => next.dial = WebNewDial(shown[winner])
    <2> DEFINE shown == LoadedRound(stored', r)
               round == rounds'[r]
               next == At(rounds', AdvancesTo(r))
    <2>1. Outcome(rounds, rounds', r)
      BY <1>1, Finished DEF IInv, Settled
    <2>2. r \in Rounds /\ round \in ChallengeRounds
      BY <1>1 DEF IInv, BracketInv, BracketTypeOK
    <2>3. shown = [round EXCEPT !.swapped = FALSE]
      BY <1>1, <2>2 DEF RestartKeeps
    <2> HIDE DEF shown
    <2>4. shown.upper = round.upper /\ shown.lower = round.lower
          /\ \A level \in Levels : shown[level] = round[level]
      BY <2>2, <2>3 DEF ChallengeRounds, Levels
    <2>5. Fair(round)
      BY <1>1 DEF Finishes
    <2> HIDE DEF round, next
    <2>6. WebWinner(shown) = WebWinner(round)
      BY <2>4 DEF WebWinner, AtFault, Levels
    <2>7. WebWinner(shown) = Winner(round)
      BY <2>2, <2>5, <2>6, FairWinner
    <2>8. CASE Winner(round) = "nobody"
      <3>1. next = At(rounds, AdvancesTo(r))
        BY <2>1, <2>8 DEF Outcome, next, round
      <3>2. QED
        BY <2>7, <2>8, <3>1 DEF shown, next
    <2>9. CASE Winner(round) \in Levels
      <3> DEFINE winner == Winner(round)
      <3>1. winner \in Levels /\ winner # "nobody" /\ WebWinner(shown) = winner
        BY <2>7, <2>9 DEF Levels
      <3>2. next.car = round[winner].car /\ next.dial = NewDial(round[winner])
        BY <2>1, <2>9 DEF Outcome, next, round
      <3> HIDE DEF winner
      <3>3. Level(shown.upper) + Level(shown.lower) = 0 => NewDial(round[winner]) = WebNewDial(round[winner])
        BY <2>2, <2>4, <2>5, <3>1, FairWinner
      <3>4. QED
        BY <2>4, <3>1, <3>2, <3>3 DEF shown, next
    <2>10. QED
      BY <2>8, <2>9, WinnerType
  <1>2. IInv /\ IInv' /\ RestartKeeps' /\ [Next]_vars =>
        [\A r \in Contested : Finishes(r) /\ Settled(r)' =>
            LET shown == LoadedRound(stored', r)
                winner == WebWinner(shown)
                next == At(rounds', AdvancesTo(r))
            IN  IF winner = "nobody" THEN next = At(rounds, AdvancesTo(r))
                ELSE /\ next.car = shown[winner].car
                     /\ (Level(shown.upper) + Level(shown.lower) = 0)
                           => next.dial = WebNewDial(shown[winner])]_vars
    BY <1>1
  <1>3. IInv => RestartKeeps
    BY AgreesLoaded DEF IInv, RestartKeeps, BracketInv
  <1>4. QED
    BY <1>2, <1>3, Inductive, PTL DEF Spec, ResultStands

\* Of the two cars of a semifinal one is in the final and the other in the
\* third place round, after every run and every correction that leaves the
\* four runs with times and a winner (checkForWinner of ChallengeModel).
THEOREM LosersMeet == Spec => SemifinalSplits
  <1>1. ASSUME IInv, [Next]_vars, NEW r \in Contested, HasThird(r), Finishes(r), r \notin mixed',
               Winner(rounds'[r]) # "nobody"
        PROVE  /\ At(rounds', AdvancesTo(r)).car = rounds'[r][Winner(rounds'[r])].car
               /\ At(rounds', AdvanceThird(r)).car = rounds'[r][Other(Winner(rounds'[r]))].car
    <2>1. Outcome(rounds, rounds', r)
      BY <1>1, Finished DEF IInv
    <2>2. Winner(rounds'[r]) \in Levels
      BY <1>1, WinnerType
    <2>3. QED
      BY <1>1, <2>1, <2>2 DEF Outcome
  <1>2. IInv /\ [Next]_vars =>
        [\A r \in Contested :
            HasThird(r) /\ Finishes(r) /\ r \notin mixed' /\ Winner(rounds'[r]) # "nobody" =>
            /\ At(rounds', AdvancesTo(r)).car = rounds'[r][Winner(rounds'[r])].car
            /\ At(rounds', AdvanceThird(r)).car = rounds'[r][Other(Winner(rounds'[r]))].car]_vars
    BY <1>1
  <1>3. QED
    BY <1>2, Inductive, PTL DEF Spec, SemifinalSplits
=============================================================================
