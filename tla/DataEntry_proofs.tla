-------------------------- MODULE DataEntry_proofs --------------------------
(***************************************************************************)
(* Theorems about the data entry application, for every series, every      *)
(* number of cars and every bound. IInv is the type invariant together     *)
(* with the soundness of the connection (SeriesTables_proofs); that the    *)
(* table shows the stored order is inductive with it.                      *)
(*                                                                         *)
(* The refinement of RunOrder rests on Calm: what the queue, the add       *)
(* panel and a pending swap can be when the user waits for the display     *)
(* and no statement fails.                                                 *)
(***************************************************************************)
EXTENDS DataEntry, SeriesTables_proofs, WellFoundedInduction

IInv == TypeOK /\ Sound(conn)

-----------------------------------------------------------------------------
(* Tables. *)

LEMMA CarsOfType ==
  ASSUME NEW table \in Seq(Entrants)
  PROVE  CarsOf(table) \in Seq(Cars)
  <1>1. /\ Len(table) \in Nat /\ DOMAIN table = 1..Len(table)
        /\ \A i \in 1..Len(table) : table[i].car \in Cars
    <2>1. \A i \in 1..Len(table) : table[i] \in Entrants
      BY ElementOfSeq
    <2>2. QED
      BY <2>1, LenProperties DEF Entrants
  <1>2. CarsOf(table) \in [1..Len(table) -> Cars]
    BY <1>1 DEF CarsOf
  <1>3. QED
    BY <1>1, <1>2, SeqDef

LEMMA LoadEntrantType ==
  ASSUME NEW data, NEW key, NEW car \in Cars
  PROVE  LoadEntrant(data, key, car) \in Entrants
  BY DEF LoadEntrant, RunsOf, Entrants

LEMMA EntrantsByRunOrderType ==
  ASSUME NEW data \in Contents, NEW key \in Keys
  PROVE  EntrantsByRunOrder(data, key) \in Seq(Entrants)
  <1> DEFINE cars == data.order[key]
  <1>1. cars \in Seq(Cars)
    BY DEF Contents
  <1>2. /\ Len(cars) \in Nat /\ DOMAIN cars = 1..Len(cars)
        /\ \A i \in 1..Len(cars) : cars[i] \in Cars
    BY <1>1, LenProperties, ElementOfSeq
  <1>3. EntrantsByRunOrder(data, key) \in [1..Len(cars) -> Entrants]
    BY <1>2, LoadEntrantType DEF EntrantsByRunOrder
  <1>4. QED
    BY <1>2, <1>3, SeqDef

LEMMA MovedRowsType ==
  ASSUME NEW table \in Seq(Entrants), NEW start \in DOMAIN table,
         NEW end \in DOMAIN table, start <= end,
         NEW to \in 1..(Len(table) + 1), to \notin start..(end + 1)
  PROVE  /\ MovedRows(table, start, end, to) \in Seq(Entrants)
         /\ Len(MovedRows(table, start, end, to)) = Len(table)
  <1> DEFINE n == Len(table)
             moved == MovedRows(table, start, end, to)
  <1>1. n \in Nat /\ DOMAIN table = 1..n /\ \A i \in 1..n : table[i] \in Entrants
    BY LenProperties, ElementOfSeq
  <1>2. moved \in [1..n -> Entrants]
    BY <1>1, SMTT(60) DEF MovedRows
  <1>3. QED
    BY <1>1, <1>2, SeqDef, LenProperties

LEMMA WithoutType ==
  ASSUME NEW table \in Seq(Entrants), NEW row \in DOMAIN table
  PROVE  Without(table, row) \in Seq(Entrants)
  <1> DEFINE n == Len(table)
  <1>1. n \in Nat /\ DOMAIN table = 1..n /\ \A i \in 1..n : table[i] \in Entrants
    BY LenProperties, ElementOfSeq
  <1>2. n - 1 \in Nat
    BY <1>1
  <1>3. Without(table, row) \in [1..(n - 1) -> Entrants]
    BY <1>1, <1>2 DEF Without
  <1>4. QED
    BY <1>2, <1>3, SeqDef

\* Min chooses a member: every nonempty set of naturals has a least one.
LEMMA LeastNat ==
  ASSUME NEW S \in SUBSET Nat, S # {}
  PROVE  Min(S) \in S
  <1> DEFINE Less == OpToRel(<, Nat)
  <1>1. PICK x \in S : \A y \in S : ~ (<<y, x>> \in Less)
    <2>1. IsWellFoundedOn(Less, Nat)
      BY NatLessThanWellFounded
    <2>2. QED
      BY <2>1, WFMin
  <1>2. \A y \in Nat : y < x => <<y, x>> \in Less
    BY Zenon DEF OpToRel
  <1> HIDE DEF Less
  <1>3. \A y \in S : ~(y < x)
    BY <1>1, <1>2, Zenon
  <1>4. \A y \in S : x <= y
    BY <1>3
  <1>5. QED
    BY <1>4 DEF Min

LEMMA ModRange ==
  ASSUME NEW m \in Nat, NEW k \in Nat \ {0}
  PROVE  m % k \in 0..(k - 1)
  OBVIOUS

LEMMA NextOpenCellType ==
  ASSUME NEW table \in Seq(Entrants), NEW row \in DOMAIN table
  PROVE  NextOpenCell(table, row) \in {NoCell} \union ((DOMAIN table) \X RunNums)
  <1> DEFINE n == Len(table)
             At(j) == ((row + j) % n) + 1
             open == {j \in 0..(n - 1) : table[At(j)].runs # RunNums}
  <1>1. /\ n \in Nat \ {0} /\ DOMAIN table = 1..n
        /\ \A i \in 1..n : table[i].runs \in SUBSET RunNums
    <2>1. /\ n \in Nat /\ DOMAIN table = 1..n
          /\ \A i \in 1..n : table[i] \in Entrants
      BY LenProperties, ElementOfSeq
    <2>2. QED
      BY <2>1 DEF Entrants
  <1>2. CASE open = {}
    BY <1>2 DEF NextOpenCell
  <1>3. CASE open # {}
    <2> DEFINE j == Min(open)
               runs == table[At(j)].runs
    <2>1. j \in open
      <3>1. open \in SUBSET Nat
        BY <1>1
      <3>2. QED
        BY <1>3, <3>1, LeastNat
    <2>2. At(j) \in 1..n
      <3>1. row + j \in Nat
        BY <1>1, <2>1
      <3>2. (row + j) % n \in 0..(n - 1)
        BY <1>1, <3>1, ModRange
      <3>3. QED
        BY <1>1, <3>2
    <2>3. RunNums \ runs # {} /\ RunNums \ runs \in SUBSET Nat
      <3>1. runs # RunNums
        BY <2>1
      <3>2. runs \in SUBSET RunNums
        BY <1>1, <2>2
      <3>3. RunNums \in SUBSET Nat
        BY SeriesAssumption DEF RunNums
      <3>4. QED
        BY <3>1, <3>2, <3>3
    <2>4. Min(RunNums \ runs) \in RunNums
      BY <2>3, LeastNat
    <2>5. QED
      BY <1>1, <1>3, <2>2, <2>4 DEF NextOpenCell
  <1>4. QED
    BY <1>2, <1>3

-----------------------------------------------------------------------------
(* Messages. *)

LEMMA TellType ==
  /\ \A type \in {"EVENT_CHANGED", "COURSE_CHANGED", "RUNGROUP_CHANGED",
                  "ENTRANTS_CHANGED", "OBJECT_CLICKED"} : Tell(type) \in Message
  /\ \A type \in {"CAR_ADD", "CAR_CHANGE", "OBJECT_CLICKED", "BARCODE_SCANNED"}, car \in Cars :
        TellCar(type, car) \in Message
  BY DEF Tell, TellCar, Message

LEMMA OneMessage ==
  ASSUME NEW m \in Message
  PROVE  <<m>> \in Seq(Message)
  OBVIOUS

LEMMA OpenSeriesType == OpenSeries \in Seq(Message) /\ Tail(OpenSeries) \in Seq(Message)
  <1>1. OpenSeries \in Seq(Message)
    BY TellType DEF OpenSeries
  <1>2. OpenSeries # <<>>
    BY DEF OpenSeries
  <1>3. QED
    BY <1>1, <1>2, HeadTailProperties

LEMMA HeadType ==
  ASSUME TypeOK, queue # <<>>
  PROVE  Head(queue) \in Message /\ Tail(queue) \in Seq(Message)
  BY HeadTailProperties DEF TypeOK

LEMMA CarNamed ==
  ASSUME NEW m \in Message, m.type \in {"CAR_ADD", "CAR_CHANGE", "BARCODE_SCANNED"}
  PROVE  m.car \in Cars
  BY DEF Message

LEMMA PostType ==
  ASSUME TypeOK, NEW messages \in Seq(Message)
  PROVE  queue \o messages \in Seq(Message)
  BY ConcatProperties DEF TypeOK

-----------------------------------------------------------------------------
(* Selections. *)

LEMMA SelectedGrows ==
  ASSUME NEW table \in Seq(Entrants), NEW longer \in Seq(Entrants),
         Len(table) <= Len(longer), NEW d, NEW c, Selected(table, d, c)
  PROVE  Selected(longer, d, c)
  <1>1. DOMAIN table \subseteq DOMAIN longer
    BY LenProperties
  <1>2. QED
    BY <1>1 DEF Selected

LEMMA NothingSelected ==
  ASSUME NEW table
  PROVE  Selected(table, NoRows, NoCell)
  BY DEF Selected

LEMMA CountFaultType ==
  ASSUME faults \in Nat, NEW f, CountFault(f)
  PROVE  faults' \in Nat
  BY DEF CountFault

-----------------------------------------------------------------------------
(* The entry model. *)

LEMMA StoreOrderSound ==
  ASSUME IInv, NEW c, Sound(c), NEW table \in Seq(Entrants), NEW ok \in BOOLEAN
  PROVE  Sound(StoreOrder(c, table, ok))
  BY CarsOfType, SetRunOrderSound DEF StoreOrder, IInv, TypeOK

LEMMA StateParts ==
  ASSUME IInv
  PROVE  state[1] \in Events /\ state[2] \in Courses /\ state = <<state[1], state[2], state[3]>>
  BY DEF IInv, TypeOK, Keys

LEMMA AddCarInv ==
  ASSUME IInv, NEW car \in Cars, NEW rest \in Seq(Message), AddCar(car, rest)
  PROVE  IInv'
  <1> USE DEF IInv
  <1>1. CASE loaded /\ Ready /\ ~IsInOrder(conn.view, state, car)
    <2> DEFINE table == Append(rows, LoadEntrant(conn.view, state, car))
               Registered(f) == RegisterCar(conn, state[1], car, f # "registered")
    <2>1. PICK f \in Fault({"registered", "runorder"}) :
              /\ rows' = table
              /\ conn' = StoreOrder(Registered(f), table, f # "runorder")
              /\ queue' = Append(rest, Tell("ENTRANTS_CHANGED"))
              /\ CountFault(f)
      BY <1>1 DEF AddCar
    <2>2. UNCHANGED <<state, loaded, drivers, cell, panel>>
      BY DEF AddCar
    <2>3. table \in Seq(Entrants) /\ Len(rows) <= Len(table)
      BY LoadEntrantType, AppendProperties, LenProperties DEF TypeOK
    <2>4. Sound(Registered(f))
      BY RegisterCarSound, StateParts
    <2>5. Sound(conn')
      <3> HIDE DEF table, Registered
      <3>1. QED
        BY <2>1, <2>3, <2>4, StoreOrderSound
    <2>6. queue' \in Seq(Message)
      BY <2>1, TellType, AppendProperties
    <2>7. Selected(rows', drivers', cell')
      BY <2>1, <2>2, <2>3, SelectedGrows DEF TypeOK
    <2>8. TypeOK'
      BY <2>1, <2>2, <2>3, <2>5, <2>6, <2>7, CountFaultType DEF TypeOK, Sound
    <2>9. QED
      BY <2>5, <2>8 DEF Sound
  <1>2. CASE ~(loaded /\ Ready /\ ~IsInOrder(conn.view, state, car))
    BY <1>2 DEF AddCar, TypeOK, Sound
  <1>3. QED
    BY <1>1, <1>2

LEMMA RowType ==
  ASSUME IInv, NEW row \in Row
  PROVE  /\ rows[row] \in Entrants
         /\ row \in 1..Len(rows) /\ Len(rows) \in Nat
  BY LenProperties, ElementOfSeq DEF IInv, TypeOK, Row

LEMMA EntrantRow ==
  ASSUME IInv, NEW row \in Row, NEW e \in Entrants
  PROVE  /\ [rows EXCEPT ![row] = e] \in Seq(Entrants)
         /\ Len([rows EXCEPT ![row] = e]) = Len(rows)
  BY RowType, ExceptSeq DEF IInv, TypeOK

LEMMA ReplaceCarInv ==
  ASSUME IInv, NEW car \in Cars, NEW row \in Row, NEW rest \in Seq(Message),
         ReplaceCar(car, row, rest)
  PROVE  IInv'
  <1> USE DEF IInv
  <1>1. CASE Ready
    <2> DEFINE old == rows[row]
               new == LoadEntrant(conn.view, state, car)
               both == [new EXCEPT !.runs = @ \union old.runs]
               table == [rows EXCEPT ![row] = both]
               Stored(lost) == SetRuns(conn, state, car, old.runs, lost)
    <2>1. PICK f \in Fault({"runorder"}), lost \in SUBSET old.runs :
              /\ rows' = table
              /\ conn' = StoreOrder(Stored(lost), table, f # "runorder")
              /\ queue' = Append(rest, Tell("ENTRANTS_CHANGED"))
              /\ faults' = IF f = "none" /\ lost = {} THEN faults ELSE faults + 1
      BY <1>1 DEF ReplaceCar
    <2>2. UNCHANGED <<state, loaded, drivers, cell, panel>>
      BY DEF ReplaceCar
    <2>3. old \in Entrants /\ both \in Entrants
      BY RowType, LoadEntrantType DEF Entrants
    <2>4. table \in Seq(Entrants) /\ Len(rows) <= Len(table)
      BY <2>3, EntrantRow, RowType
    <2>5. Sound(Stored(lost))
      <3>1. old.runs \in SUBSET RunNums
        BY <2>3 DEF Entrants
      <3>2. QED
        BY <3>1, SetRunsSound, StateParts
    <2>6. Sound(conn')
      <3> HIDE DEF table, Stored
      <3>1. QED
        BY <2>1, <2>4, <2>5, StoreOrderSound
    <2>7. queue' \in Seq(Message)
      BY <2>1, TellType, AppendProperties
    <2>8. Selected(rows', drivers', cell')
      BY <2>1, <2>2, <2>4, SelectedGrows DEF TypeOK
    <2>9. TypeOK'
      BY <2>1, <2>2, <2>4, <2>6, <2>7, <2>8 DEF TypeOK, Sound
    <2>10. QED
      BY <2>6, <2>9 DEF Sound
  <1>2. CASE ~Ready
    BY <1>2 DEF ReplaceCar, TypeOK, Sound
  <1>3. QED
    BY <1>1, <1>2

-----------------------------------------------------------------------------
(* Messages handled. *)

LEMMA EventChangedInv ==
  ASSUME IInv, EventChanged
  PROVE  IInv'
  <1>1. Tail(queue) \in Seq(Message)
    BY HeadType DEF EventChanged, Next1, IInv
  <1>2. QED
    BY <1>1, NothingSelected DEF EventChanged, IInv, TypeOK

LEMMA RunGroupChangedInv ==
  ASSUME IInv, RunGroupChanged
  PROVE  IInv'
  <1>1. Tail(queue) \in Seq(Message)
    BY HeadType DEF RunGroupChanged, Next1, IInv
  <1>2. rows' \in Seq(Entrants)
    BY EntrantsByRunOrderType, EmptySeq DEF RunGroupChanged, IInv, TypeOK, ConnectionOf
  <1>3. loaded' \in BOOLEAN
    BY DEF RunGroupChanged, Ready, IInv, TypeOK, ConnectionOf
  <1>4. QED
    BY <1>1, <1>2, <1>3, NothingSelected DEF RunGroupChanged, IInv, TypeOK

PanelType == [listed : SUBSET Cars, used : SUBSET Cars,
              car : Cars \union {NoCar}, entrant : BOOLEAN]

LEMMA ListedType ==
  ASSUME IInv, NEW listed \in SUBSET Cars, NEW selected \in Cars \union {NoCar}
  PROVE  Listed(listed, selected) \in PanelType
  BY DEF Listed, PanelType, IInv, TypeOK

LEMMA CarsReloadedInv ==
  ASSUME IInv, CarsReloaded
  PROVE  IInv'
  <1>1. Tail(queue) \in Seq(Message)
    BY HeadType DEF CarsReloaded, Next1, IInv
  <1>2. panel \in PanelType /\ panel.listed \in SUBSET Cars
    BY DEF PanelType, IInv, TypeOK
  <1>3. panel' \in PanelType
    BY <1>2, ListedType DEF CarsReloaded
  <1>4. QED
    BY <1>1, <1>3 DEF CarsReloaded, PanelType, tableVars, IInv, TypeOK

LEMMA CarAddInv ==
  ASSUME IInv, CarAdd
  PROVE  IInv'
  <1>1. Head(queue) \in Message /\ Tail(queue) \in Seq(Message)
    BY HeadType DEF CarAdd, Next1, IInv
  <1>2. Head(queue).car \in Cars
    BY <1>1, CarNamed DEF CarAdd, Next1
  <1>3. QED
    BY <1>1, <1>2, AddCarInv DEF CarAdd

LEMMA CarChangeInv ==
  ASSUME IInv, CarChange
  PROVE  IInv'
  <1>1. Head(queue) \in Message /\ Tail(queue) \in Seq(Message)
    BY HeadType DEF CarChange, Next1, IInv
  <1>2. CASE drivers # NoRows
    <2>1. Head(queue).car \in Cars
      BY <1>1, CarNamed DEF CarChange, Next1
    <2>2. drivers[1] \in Row
      BY <1>2 DEF IInv, TypeOK, Selected, Row
    <2>3. QED
      BY <1>1, <1>2, <2>1, <2>2, ReplaceCarInv DEF CarChange
  <1>3. CASE drivers = NoRows
    BY <1>1, <1>3 DEF CarChange, tableVars, IInv, TypeOK
  <1>4. QED
    BY <1>2, <1>3

LEMMA ObjectClickedInv ==
  ASSUME IInv, ObjectClicked
  PROVE  IInv'
  <1>1. Tail(queue) \in Seq(Message)
    BY HeadType DEF ObjectClicked, Next1, IInv
  <1>2. QED
    BY <1>1 DEF ObjectClicked, tableVars, IInv, TypeOK

LEMMA BarcodeScannedInv ==
  ASSUME IInv, BarcodeScanned
  PROVE  IInv'
  <1>1. Tail(queue) \in Seq(Message)
    BY HeadType DEF BarcodeScanned, Next1, IInv
  <1>2. \/ \E c \in Cars : AddCar(c, Tail(queue))
        \/ queue' = Tail(queue) /\ UNCHANGED <<state, tableVars, panel, conn, faults>>
    BY DEF BarcodeScanned
  <1>3. QED
    BY <1>1, <1>2, AddCarInv DEF tableVars, IInv, TypeOK

-----------------------------------------------------------------------------
(* What the user does. *)

LEMMA SelectingInv ==
  ASSUME IInv, Selecting
  PROVE  IInv'
  <1> USE DEF IInv, TypeOK, tableVars, Post
  <1>1. ASSUME NEW event \in Events, PickEvent(event)
        PROVE  IInv'
    <2>1. queue' \in Seq(Message)
      BY <1>1, OpenSeriesType, PostType DEF PickEvent
    <2>2. QED
      BY <1>1, <2>1, DataEntryAssumption DEF PickEvent, Keys
  <1>2. ASSUME NEW course \in Courses, PickCourse(course)
        PROVE  IInv'
    <2>1. queue' \in Seq(Message)
      BY <1>2, OpenSeriesType, PostType DEF PickCourse
    <2>2. QED
      BY <1>2, <2>1 DEF PickCourse, Keys
  <1>3. ASSUME NEW group \in Groups, PickGroup(group)
        PROVE  IInv'
    <2>1. queue' \in Seq(Message)
      BY <1>3, TellType, OneMessage, PostType DEF PickGroup
    <2>2. state' \in Keys
      BY <1>3, StateParts DEF PickGroup, Keys
    <2>3. QED
      BY <1>3, <2>1, <2>2 DEF PickGroup
  <1>4. QED
    BY <1>1, <1>2, <1>3 DEF Selecting

LEMMA PickDriverInv ==
  ASSUME IInv, NEW driver, PickDriver(driver)
  PROVE  IInv'
  <1> DEFINE cars == {c \in Cars : Owner[c] = driver}
  <1>1. PICK first \in cars : panel' = Listed(cars, first)
    BY DEF PickDriver
  <1>2. panel' \in PanelType
    BY <1>1, ListedType
  <1>3. QED
    BY <1>2 DEF PickDriver, PanelType, tableVars, IInv, TypeOK

LEMMA PickCarInv ==
  ASSUME IInv, NEW car \in Cars, PickCar(car)
  PROVE  IInv'
  BY DEF PickCar, tableVars, IInv, TypeOK

LEMMA SendAddInv ==
  ASSUME IInv, NEW car \in Cars, SendAdd(car)
  PROVE  IInv'
  <1>1. queue' \in Seq(Message)
    BY TellType, OneMessage, PostType DEF SendAdd, Post, IInv
  <1>2. QED
    BY <1>1 DEF SendAdd, tableVars, IInv, TypeOK

LEMMA AddNewCarInv ==
  ASSUME IInv, NEW car \in Cars, AddNewCar(car)
  PROVE  IInv'
  <1>1. queue' \in Seq(Message)
    BY TellType, OneMessage, PostType DEF AddNewCar, Post, IInv
  <1>2. panel.listed \in SUBSET Cars
    BY DEF IInv, TypeOK
  <1>3. panel' \in PanelType
    BY <1>2, ListedType DEF AddNewCar
  <1>4. QED
    BY <1>1, <1>3 DEF AddNewCar, PanelType, tableVars, IInv, TypeOK

LEMMA ScanInv ==
  ASSUME IInv, NEW car \in Cars, Scan(car)
  PROVE  IInv'
  <1>1. queue' \in Seq(Message)
    BY TellType, OneMessage, PostType DEF Scan, Post, IInv
  <1>2. QED
    BY <1>1 DEF Scan, tableVars, IInv, TypeOK

LEMMA ButtonsInv ==
  ASSUME IInv, ClickAdd \/ ClickSwap
  PROVE  IInv'
  <1>1. panel.car \in Cars
    BY DEF ClickAdd, ClickSwap, AlreadyInOrder, IInv, TypeOK
  <1>2. CASE ClickAdd
    <2>1. queue' \in Seq(Message)
      BY <1>1, <1>2, TellType, OneMessage, PostType DEF ClickAdd, Post, IInv
    <2>2. QED
      BY <1>2, <2>1 DEF ClickAdd, tableVars, IInv, TypeOK
  <1>3. CASE ClickSwap
    <2>1. queue' \in Seq(Message)
      BY <1>1, <1>3, TellType, OneMessage, PostType DEF ClickSwap, Post, IInv
    <2>2. QED
      BY <1>3, <2>1 DEF ClickSwap, tableVars, IInv, TypeOK
  <1>4. QED
    BY <1>2, <1>3

LEMMA SelectRowsInv ==
  ASSUME IInv, NEW first \in Row, NEW last \in Row, SelectRows(first, last)
  PROVE  IInv'
  <1>1. queue' \in Seq(Message)
    <2>1. rows[first].car \in Cars
      BY RowType DEF Entrants
    <2>2. QED
      BY <2>1, TellType, OneMessage, PostType DEF SelectRows, Post, IInv
  <1>2. Selected(rows, drivers', cell)
    BY DEF SelectRows, Selected, Row, IInv, TypeOK
  <1>3. QED
    BY <1>1, <1>2 DEF SelectRows, IInv, TypeOK

LEMMA SelectCellInv ==
  ASSUME IInv, NEW row \in Row, NEW number \in RunNums, SelectCell(row, number)
  PROVE  IInv'
  <1>1. queue' \in Seq(Message)
    BY TellType, OneMessage, PostType DEF SelectCell, Post, IInv
  <1>2. Selected(rows, drivers, cell')
    BY DEF SelectCell, Selected, Row, IInv, TypeOK
  <1>3. QED
    BY <1>1, <1>2 DEF SelectCell, IInv, TypeOK

LEMMA MenuSwapInv ==
  ASSUME IInv, NEW row \in Row, NEW car \in Cars, MenuSwap(row, car)
  PROVE  IInv'
  <1>1. queue' \in Seq(Message)
    <2>1. rows[row].car \in Cars
      BY RowType DEF Entrants
    <2>2. <<TellCar("OBJECT_CLICKED", rows[row].car), TellCar("CAR_CHANGE", car)>> \in Seq(Message)
      BY <2>1, TellType
    <2>3. QED
      BY <2>2, PostType DEF MenuSwap, Post, IInv
  <1>2. QED
    BY <1>1 DEF MenuSwap, tableVars, IInv, TypeOK

LEMMA MarkPaidInv ==
  ASSUME IInv, NEW row \in Row, MarkPaid(row)
  PROVE  IInv'
  <1> DEFINE Registered(f) == RegisterCar(conn, state[1], rows[row].car, f # "registered")
  <1>1. PICK f \in Fault({"registered"}) :
            /\ conn' = Registered(f)
            /\ Post(IF f = "none" THEN <<Tell("RUNGROUP_CHANGED")>> ELSE <<>>)
            /\ CountFault(f)
    BY DEF MarkPaid
  <1>2. Sound(conn')
    <2>1. rows[row].car \in Cars
      BY RowType DEF Entrants
    <2>2. Sound(Registered(f))
      BY <2>1, RegisterCarSound, StateParts DEF IInv
    <2>3. QED
      BY <1>1, <2>2
  <1>3. queue' \in Seq(Message)
    BY <1>1, TellType, OneMessage, EmptySeq, PostType DEF Post, IInv
  <1>4. QED
    BY <1>1, <1>2, <1>3, CountFaultType DEF MarkPaid, tableVars, IInv, TypeOK, Sound

LEMMA TextRunsInv ==
  ASSUME IInv, NEW row \in Row, NEW course \in Courses, NEW numbers \in SUBSET RunNums,
         TextRuns(row, course, numbers)
  PROVE  IInv'
  <1> DEFINE key == <<state[1], course>>
             Stored(lost) == SetRuns(conn, key, rows[row].car, numbers, lost)
  <1>1. PICK lost \in SUBSET numbers :
            /\ conn' = Stored(lost)
            /\ faults' = IF lost = {} THEN faults ELSE faults + 1
    BY DEF TextRuns
  <1>2. Sound(conn')
    <2>1. rows[row].car \in Cars
      BY RowType DEF Entrants
    <2>2. key[1] \in Events /\ key[2] \in Courses
      BY StateParts
    <2>3. Sound(Stored(lost))
      <3> HIDE DEF key
      <3>1. QED
        BY <2>1, <2>2, SetRunsSound DEF IInv
    <2>4. QED
      BY <1>1, <2>3
  <1>3. queue' \in Seq(Message)
    BY TellType, OneMessage, PostType DEF TextRuns, Post, IInv
  <1>4. QED
    BY <1>1, <1>2, <1>3 DEF TextRuns, tableVars, IInv, TypeOK, Sound

LEMMA CutRowInv ==
  ASSUME IInv, CutRow
  PROVE  IInv'
  <1> DEFINE table == Without(rows, drivers[1])
  <1>1. PICK f \in Fault({"runorder"}) :
            /\ rows' = table
            /\ conn' = StoreOrder(conn, table, f # "runorder")
            /\ CountFault(f)
    BY DEF CutRow
  <1>2. table \in Seq(Entrants)
    <2>1. drivers[1] \in DOMAIN rows
      BY DEF CutRow, IInv, TypeOK, Selected
    <2>2. QED
      BY <2>1, WithoutType DEF IInv, TypeOK
  <1>3. Sound(conn')
    BY <1>1, <1>2, StoreOrderSound DEF IInv
  <1>4. queue' \in Seq(Message)
    BY TellType, OneMessage, PostType DEF CutRow, Post, IInv
  <1>5. Selected(rows', drivers', cell')
    BY NothingSelected DEF CutRow
  <1>6. QED
    BY <1>1, <1>2, <1>3, <1>4, <1>5, CountFaultType DEF CutRow, IInv, TypeOK, Sound

LEMMA DragRowsInv ==
  ASSUME IInv, NEW to \in 1..(Len(rows) + 1), DragRows(to)
  PROVE  IInv'
  <1>1. drivers[1] \in DOMAIN rows /\ drivers[2] \in DOMAIN rows /\ drivers[1] <= drivers[2]
    BY DEF DragRows, IInv, TypeOK, Selected
  <1>2. Selected(rows, NoRows, cell)
    BY DEF IInv, TypeOK, Selected
  <1>3. CASE to \in drivers[1]..(drivers[2] + 1)
    BY <1>2, <1>3 DEF DragRows, IInv, TypeOK
  <1>4. CASE to \notin drivers[1]..(drivers[2] + 1)
    <2> DEFINE table == MovedRows(rows, drivers[1], drivers[2], to)
    <2>1. PICK f \in Fault({"runorder"}) :
              /\ rows' = table
              /\ conn' = StoreOrder(conn, table, f # "runorder")
              /\ Post(<<Tell("ENTRANTS_CHANGED")>>)
              /\ CountFault(f)
      BY <1>4 DEF DragRows
    <2>2. table \in Seq(Entrants) /\ Len(table) = Len(rows)
      BY <1>1, <1>4, MovedRowsType DEF IInv, TypeOK
    <2>3. Sound(conn')
      <3> HIDE DEF table
      <3>1. QED
        BY <2>1, <2>2, StoreOrderSound DEF IInv
    <2>4. queue' \in Seq(Message)
      BY <2>1, TellType, OneMessage, PostType DEF Post, IInv
    <2>5. Selected(rows', drivers', cell')
      <3>1. Len(rows) <= Len(table)
        BY <2>2, LenProperties DEF IInv, TypeOK
      <3> HIDE DEF table
      <3>2. Selected(table, NoRows, cell)
        BY <1>2, <2>2, <3>1, SelectedGrows DEF IInv, TypeOK
      <3>3. QED
        BY <2>1, <3>2 DEF DragRows
    <2>6. QED
      BY <2>1, <2>2, <2>3, <2>4, <2>5, CountFaultType DEF DragRows, IInv, TypeOK, Sound
  <1>5. QED
    BY <1>3, <1>4

LEMMA RecordRunInv ==
  ASSUME IInv, NEW row \in Row, NEW number \in RunNums, RecordRun(row, number)
  PROVE  /\ rows' \in Seq(Entrants) /\ Len(rows') = Len(rows)
         /\ Sound(conn') /\ faults' \in Nat
  <1> DEFINE run == [rows[row] EXCEPT !.runs = @ \union {number}]
             Stored(lost) == SetRuns(conn, state, rows[row].car, {number}, lost)
  <1>1. PICK lost : /\ rows' = [rows EXCEPT ![row] = run]
                    /\ conn' = Stored(lost)
                    /\ faults' = IF lost = {} THEN faults ELSE faults + 1
    BY DEF RecordRun
  <1>2. rows[row] \in Entrants /\ run \in Entrants
    <2>1. rows[row] \in Entrants
      BY RowType
    <2>2. QED
      BY <2>1 DEF Entrants
  <1>3. rows' \in Seq(Entrants) /\ Len(rows') = Len(rows)
    <2> HIDE DEF run
    <2>1. QED
      BY <1>1, <1>2, EntrantRow
  <1>4. Sound(Stored(lost))
    <2>1. rows[row].car \in Cars /\ {number} \in SUBSET RunNums
      BY <1>2 DEF Entrants
    <2>2. QED
      BY <2>1, SetRunsSound, StateParts DEF IInv
  <1>5. QED
    BY <1>1, <1>3, <1>4 DEF IInv, TypeOK

LEMMA CellType ==
  ASSUME IInv, cell # NoCell
  PROVE  cell[1] \in Row /\ cell[2] \in RunNums
  BY DEF IInv, TypeOK, Selected, Row

LEMMA EnterTimeInv ==
  ASSUME IInv, EnterTime
  PROVE  IInv'
  <1>1. cell[1] \in Row /\ cell[2] \in RunNums
    BY CellType DEF EnterTime
  <1>2. rows' \in Seq(Entrants) /\ Len(rows') = Len(rows) /\ Sound(conn') /\ faults' \in Nat
    BY <1>1, RecordRunInv DEF EnterTime
  <1>3. Selected(rows', drivers', cell')
    <2>1. DOMAIN rows' = DOMAIN rows
      BY <1>2, LenProperties DEF IInv, TypeOK
    <2>2. cell' \in {NoCell} \union ((DOMAIN rows') \X RunNums)
      BY <1>1, <1>2, <2>1, NextOpenCellType DEF EnterTime, Row
    <2>3. drivers \in {NoRows} \union {b \in (DOMAIN rows) \X (DOMAIN rows) : b[1] <= b[2]}
      BY DEF IInv, TypeOK, Selected
    <2>4. QED
      BY <2>1, <2>2, <2>3 DEF Selected, EnterTime
  <1>4. QED
    BY <1>2, <1>3 DEF EnterTime, IInv, TypeOK, Sound

LEMMA PasteRunInv ==
  ASSUME IInv, PasteRun
  PROVE  IInv'
  <1>1. cell[1] \in Row /\ cell[2] \in RunNums
    BY CellType DEF PasteRun
  <1>2. rows' \in Seq(Entrants) /\ Len(rows') = Len(rows) /\ Sound(conn') /\ faults' \in Nat
    BY <1>1, RecordRunInv DEF PasteRun
  <1>3. Selected(rows', drivers, cell)
    <2>1. Len(rows) <= Len(rows')
      BY <1>2, LenProperties DEF IInv, TypeOK
    <2>2. QED
      BY <1>2, <2>1, SelectedGrows DEF IInv, TypeOK
  <1>4. QED
    BY <1>2, <1>3 DEF PasteRun, IInv, TypeOK, Sound

LEMMA CutRunInv ==
  ASSUME IInv, CutRun
  PROVE  IInv'
  <1> DEFINE row == cell[1]
             cut == [rows[row] EXCEPT !.runs = @ \ {cell[2]}]
             Deleted(f) == DeleteRun(conn, state, rows[row].car, cell[2], f # "runs")
  <1>1. PICK f \in Fault({"runs"}) : /\ rows' = [rows EXCEPT ![row] = cut]
                                     /\ conn' = Deleted(f)
                                     /\ CountFault(f)
    BY DEF CutRun
  <1>2. row \in Row
    BY CellType DEF CutRun
  <1>3. rows' \in Seq(Entrants) /\ Len(rows') = Len(rows)
    <2>1. rows[row] \in Entrants
      BY <1>2, RowType
    <2>2. cut \in Entrants
      BY <2>1 DEF Entrants
    <2> HIDE DEF cut, row
    <2>3. QED
      BY <1>1, <1>2, <2>2, EntrantRow
  <1>4. Sound(conn')
    <2>1. Sound(Deleted(f))
      BY DeleteRunSound DEF IInv
    <2>2. QED
      BY <1>1, <2>1
  <1>5. Selected(rows', drivers, cell)
    <2>1. Len(rows) <= Len(rows')
      BY <1>3, LenProperties DEF IInv, TypeOK
    <2>2. QED
      BY <1>3, <2>1, SelectedGrows DEF IInv, TypeOK
  <1>6. QED
    BY <1>1, <1>3, <1>4, <1>5, CountFaultType DEF CutRun, IInv, TypeOK, Sound

LEMMA RestartInv ==
  ASSUME IInv, Restart
  PROVE  IInv'
  <1>1. Sound(conn')
    BY OpenedSound DEF Restart, IInv, Sound, ConnectionOf
  <1>2. state' \in Keys
    BY StateParts, DataEntryAssumption DEF Restart, Keys
  <1>3. Selected(rows', drivers', cell')
    BY NothingSelected DEF Restart
  <1>4. QED
    BY <1>1, <1>2, <1>3, OpenSeriesType, EmptySeq DEF Restart, NoDriver, IInv, TypeOK, Sound

-----------------------------------------------------------------------------
(* The theorems. *)

LEMMA InitIInv == Init => IInv
  <1> SUFFICES ASSUME NEW event \in Events, Fresh(event, NoContents), faults = 0
               PROVE  IInv
    BY DEF Init
  <1>1. Sound(conn)
    BY NoContentsSound DEF Fresh
  <1>2. state \in Keys
    BY DataEntryAssumption DEF Fresh, Keys
  <1>3. Selected(rows, drivers, cell)
    BY NothingSelected DEF Fresh
  <1>4. QED
    BY <1>1, <1>2, <1>3, OpenSeriesType, EmptySeq DEF Fresh, NoDriver, IInv, TypeOK, Sound

LEMMA NextIInv == IInv /\ [Next]_vars => IInv'
  <1> SUFFICES ASSUME IInv, [Next]_vars
               PROVE  IInv'
    OBVIOUS
  <1>1. CASE Deliver
    BY <1>1, EventChangedInv, RunGroupChangedInv, CarsReloadedInv, CarAddInv,
       CarChangeInv, ObjectClickedInv, BarcodeScannedInv DEF Deliver
  <1>2. CASE Selecting
    BY <1>2, SelectingInv
  <1>3. CASE Ordering
    BY <1>3, PickDriverInv, PickCarInv, SendAddInv, AddNewCarInv, ScanInv, ButtonsInv, CutRowInv, SelectRowsInv, MenuSwapInv,
       MarkPaidInv, DragRowsInv DEF Ordering
  <1>4. CASE Timing
    BY <1>4, SelectCellInv, EnterTimeInv, PasteRunInv, CutRunInv, TextRunsInv DEF Timing
  <1>5. CASE Restart
    BY <1>5, RestartInv
  <1>6. CASE UNCHANGED vars
    BY <1>6 DEF vars, tableVars, IInv, TypeOK
  <1>7. QED
    BY <1>1, <1>2, <1>3, <1>4, <1>5, <1>6 DEF Next

LEMMA Invariant == Spec => []IInv
  BY InitIInv, NextIInv, PTL DEF Spec

\* Every reachable state is well typed, and the selected rows and cell lie
\* within the table whatever has been reloaded, cut or dragged since the click.
THEOREM TypeCorrect == Spec => []TypeOK
  <1>1. IInv => TypeOK
    BY DEF IInv
  <1>2. QED
    BY <1>1, Invariant, PTL

\* No car is stored twice in one course of an event, whatever double clicks,
\* swaps, stale tables and failed statements the application meets.
THEOREM OneEntryAlways == Spec => []OneEntry
  <1>1. IInv => OneEntry
    BY DEF IInv, Sound, OneEntry
  <1>2. QED
    BY <1>1, Invariant, PTL

\* The orders the application reads are the committed ones, also while the
\* transaction a failed commit has left open collects other updates.
THEOREM OrdersCommitted == Spec => []OrderIsCommitted
  <1>1. IInv => OrderIsCommitted
    BY DEF IInv, Sound, OrderIsCommitted
  <1>2. QED
    BY <1>1, Invariant, PTL

\* With autocommit on nothing is lost when the application dies.
THEOREM NothingLost == Spec => []CrashLosesNothing
  <1>1. IInv => CrashLosesNothing
    BY DEF IInv, Sound, CrashLosesNothing
  <1>2. QED
    BY <1>1, Invariant, PTL

-----------------------------------------------------------------------------
(* Recorded runs. *)

LEMMA StoreOrderKeeps ==
  ASSUME IInv, NEW c, Sound(c), KeepsRuns(c), NEW table \in Seq(Entrants),
         NEW ok \in BOOLEAN
  PROVE  c.saved.runs \subseteq StoreOrder(c, table, ok).saved.runs
  BY CarsOfType, SetRunOrderKeeps DEF StoreOrder, IInv, TypeOK

Kept == conn.saved.runs \subseteq conn'.saved.runs

LEMMA AddCarKeeps ==
  ASSUME IInv, KeepsRuns(conn), NEW car \in Cars, NEW rest, AddCar(car, rest)
  PROVE  Kept
  <1> DEFINE table == Append(rows, LoadEntrant(conn.view, state, car))
             Registered(f) == RegisterCar(conn, state[1], car, f # "registered")
  <1>1. CASE conn' = conn
    BY <1>1 DEF Kept
  <1>2. CASE \E f \in Fault({"registered", "runorder"}) :
                conn' = StoreOrder(Registered(f), table, f # "runorder")
    <2>1. PICK f : conn' = StoreOrder(Registered(f), table, f # "runorder")
      BY <1>2
    <2>2. table \in Seq(Entrants)
      BY LoadEntrantType, AppendProperties DEF IInv, TypeOK
    <2>3. /\ Sound(Registered(f)) /\ KeepsRuns(Registered(f))
          /\ conn.saved.runs \subseteq Registered(f).saved.runs
      BY RegisterCarSound, RegisterCarKeeps, StateParts DEF IInv
    <2> HIDE DEF table, Registered
    <2>4. QED
      BY <2>1, <2>2, <2>3, StoreOrderKeeps DEF Kept
  <1>3. QED
    BY <1>1, <1>2 DEF AddCar

LEMMA ReplaceCarKeeps ==
  ASSUME IInv, KeepsRuns(conn), NEW car \in Cars, NEW row \in Row, NEW rest,
         ReplaceCar(car, row, rest)
  PROVE  Kept
  <1> DEFINE old == rows[row]
             both == [LoadEntrant(conn.view, state, car) EXCEPT !.runs = @ \union old.runs]
             table == [rows EXCEPT ![row] = both]
             Stored(lost) == SetRuns(conn, state, car, old.runs, lost)
  <1>1. CASE conn' = conn
    BY <1>1 DEF Kept
  <1>2. CASE \E f \in Fault({"runorder"}), lost \in SUBSET old.runs :
                conn' = StoreOrder(Stored(lost), table, f # "runorder")
    <2>1. PICK f, lost : conn' = StoreOrder(Stored(lost), table, f # "runorder")
      BY <1>2
    <2>2. old \in Entrants /\ both \in Entrants
      BY RowType, LoadEntrantType DEF Entrants
    <2>3. table \in Seq(Entrants)
      BY <2>2, EntrantRow
    <2>4. /\ Sound(Stored(lost)) /\ KeepsRuns(Stored(lost))
          /\ conn.saved.runs \subseteq Stored(lost).saved.runs
      <3>1. old.runs \in SUBSET RunNums
        BY <2>2 DEF Entrants
      <3>2. QED
        BY <3>1, SetRunsSound, SetRunsKeeps, StateParts DEF IInv
    <2> HIDE DEF table, Stored
    <2>5. QED
      BY <2>1, <2>3, <2>4, StoreOrderKeeps DEF Kept
  <1>3. QED
    BY <1>1, <1>2 DEF ReplaceCar

LEMMA DeliverKeeps ==
  ASSUME IInv, KeepsRuns(conn), Deliver
  PROVE  Kept
  <1>1. CASE EventChanged \/ RunGroupChanged \/ CarsReloaded \/ ObjectClicked
    BY <1>1 DEF EventChanged, RunGroupChanged, CarsReloaded, ObjectClicked, Kept
  <1>2. CASE CarAdd
    <2>1. Head(queue).car \in Cars
      BY <1>2, HeadType, CarNamed DEF CarAdd, Next1, IInv
    <2>2. QED
      BY <1>2, <2>1, AddCarKeeps DEF CarAdd
  <1>3. CASE CarChange
    <2>1. Head(queue).car \in Cars
      BY <1>3, HeadType, CarNamed DEF CarChange, Next1, IInv
    <2>2. drivers # NoRows => drivers[1] \in Row
      BY DEF IInv, TypeOK, Selected, Row
    <2>3. QED
      BY <1>3, <2>1, <2>2, ReplaceCarKeeps DEF CarChange, Kept
  <1>4. CASE BarcodeScanned
    <2>1. \/ \E c \in Cars : AddCar(c, Tail(queue))
          \/ UNCHANGED conn
      BY <1>4 DEF BarcodeScanned
    <2>2. QED
      BY <2>1, AddCarKeeps DEF Kept
  <1>5. QED
    BY <1>1, <1>2, <1>3, <1>4 DEF Deliver

LEMMA OrderingKeeps ==
  ASSUME IInv, KeepsRuns(conn), Ordering
  PROVE  Kept
  <1>1. CASE \/ \E driver \in Drivers : PickDriver(driver)
             \/ \E car \in Cars : PickCar(car) \/ SendAdd(car) \/ AddNewCar(car) \/ Scan(car)
             \/ ClickAdd \/ ClickSwap
             \/ \E first, last \in Row : SelectRows(first, last)
             \/ \E row \in Row, car \in Cars : MenuSwap(row, car)
    BY <1>1 DEF PickDriver, PickCar, SendAdd, AddNewCar, Scan, ClickAdd, ClickSwap, SelectRows, MenuSwap, Kept
  <1>2. CASE CutRow
    <2> DEFINE table == Without(rows, drivers[1])
    <2>1. PICK f : conn' = StoreOrder(conn, table, f # "runorder")
      BY <1>2 DEF CutRow
    <2>2. drivers[1] \in DOMAIN rows
      BY <1>2 DEF CutRow, IInv, TypeOK, Selected
    <2>3. table \in Seq(Entrants)
      BY <2>2, WithoutType DEF IInv, TypeOK
    <2> HIDE DEF table
    <2>4. QED
      BY <2>1, <2>3, StoreOrderKeeps DEF IInv, Kept
  <1>3. ASSUME NEW to \in 1..(Len(rows) + 1), DragRows(to)
        PROVE  Kept
    <2> DEFINE table == MovedRows(rows, drivers[1], drivers[2], to)
    <2>1. CASE UNCHANGED conn
      BY <2>1 DEF Kept
    <2>2. CASE to \notin drivers[1]..(drivers[2] + 1)
      <3>1. PICK f : conn' = StoreOrder(conn, table, f # "runorder")
        BY <1>3, <2>2 DEF DragRows
      <3>2. drivers[1] \in DOMAIN rows /\ drivers[2] \in DOMAIN rows /\ drivers[1] <= drivers[2]
        BY <1>3 DEF DragRows, IInv, TypeOK, Selected
      <3>3. table \in Seq(Entrants)
        BY <2>2, <3>2, MovedRowsType DEF IInv, TypeOK
      <3> HIDE DEF table
      <3>4. QED
        BY <3>1, <3>3, StoreOrderKeeps DEF IInv, Kept
    <2>3. QED
      BY <1>3, <2>1, <2>2 DEF DragRows
  <1>4. ASSUME NEW row \in Row, MarkPaid(row)
        PROVE  Kept
    <2>1. PICK f : conn' = RegisterCar(conn, state[1], rows[row].car, f # "registered")
      BY <1>4 DEF MarkPaid
    <2>2. rows[row].car \in Cars
      BY RowType DEF Entrants
    <2>3. QED
      BY <2>1, <2>2, RegisterCarKeeps, StateParts DEF IInv, Kept
  <1>5. QED
    BY <1>1, <1>2, <1>3, <1>4 DEF Ordering

LEMMA TimingKeeps ==
  ASSUME IInv, KeepsRuns(conn), Timing, ~CutRun
  PROVE  Kept
  <1>1. CASE \E row \in Row, number \in RunNums : SelectCell(row, number)
    BY <1>1 DEF SelectCell, Kept
  <1>2. CASE EnterTime \/ PasteRun
    <2>1. cell[1] \in Row /\ cell[2] \in RunNums
      BY <1>2, CellType DEF EnterTime, PasteRun
    <2>2. PICK lost : conn' = SetRuns(conn, state, rows[cell[1]].car, {cell[2]}, lost)
      BY <1>2 DEF EnterTime, PasteRun, RecordRun
    <2>3. rows[cell[1]].car \in Cars /\ {cell[2]} \in SUBSET RunNums
      BY <2>1, RowType DEF Entrants
    <2>4. QED
      BY <2>2, <2>3, SetRunsKeeps, StateParts DEF IInv, Kept
  <1>3. ASSUME NEW row \in Row, NEW course \in Courses, NEW numbers \in SUBSET RunNums,
               TextRuns(row, course, numbers)
        PROVE  Kept
    <2> DEFINE key == <<state[1], course>>
    <2>1. PICK lost : conn' = SetRuns(conn, key, rows[row].car, numbers, lost)
      BY <1>3 DEF TextRuns
    <2>2. key[1] \in Events /\ key[2] \in Courses
      BY StateParts
    <2>3. rows[row].car \in Cars
      BY RowType DEF Entrants
    <2> HIDE DEF key
    <2>4. QED
      BY <2>1, <2>2, <2>3, SetRunsKeeps DEF IInv, Kept
  <1>4. QED
    BY <1>1, <1>2, <1>3 DEF Timing

\* No recorded run disappears unless it is cut: swapping cars, arranging the
\* order, failed statements and restarts leave every one in the database.
THEOREM RunsNeverLost == Spec => RunsAreKept
  <1>1. IInv /\ [Next]_vars => [conn.auto /\ ~CutRun => conn.saved.runs \subseteq conn'.saved.runs]_vars
    <2> SUFFICES ASSUME IInv, Next, conn.auto, ~CutRun
                 PROVE  Kept
      BY DEF Kept
    <2>1. KeepsRuns(conn)
      BY DEF IInv, Sound, KeepsRuns
    <2>2. CASE Selecting
      BY <2>2 DEF Selecting, PickEvent, PickCourse, PickGroup, Kept
    <2>3. CASE Restart
      BY <2>3 DEF Restart, Opened, Kept
    <2>4. QED
      BY <2>1, <2>2, <2>3, DeliverKeeps, OrderingKeeps, TimingKeeps DEF Next
  <1>2. QED
    BY <1>1, Invariant, PTL DEF Spec, RunsAreKept

-----------------------------------------------------------------------------
(* Trying again. *)

LEMMA CarsOfAppend ==
  ASSUME NEW table \in Seq(Entrants), NEW e \in Entrants
  PROVE  CarsOf(Append(table, e)) = Append(CarsOf(table), e.car)
  <1> DEFINE longer == Append(table, e)
  <1>1. /\ Len(table) \in Nat /\ DOMAIN table = 1..Len(table)
        /\ longer \in Seq(Entrants) /\ Len(longer) = Len(table) + 1
        /\ \A i \in 1..Len(table) : longer[i] = table[i]
        /\ longer[Len(table) + 1] = e
    BY LenProperties, AppendProperties
  <1>2. DOMAIN longer = 1..(Len(table) + 1)
    BY <1>1, LenProperties
  <1> HIDE DEF longer
  <1>3. CarsOf(table) \in Seq(Cars) /\ CarsOf(longer) \in Seq(Cars) /\ e.car \in Cars
    BY <1>1, CarsOfType DEF Entrants
  <1>4. /\ DOMAIN CarsOf(table) = 1..Len(table)
        /\ DOMAIN CarsOf(longer) = 1..(Len(table) + 1)
    BY <1>1, <1>2 DEF CarsOf
  <1>5. Len(CarsOf(table)) = Len(table) /\ Len(CarsOf(longer)) = Len(table) + 1
    BY <1>1, <1>3, <1>4, LenProperties
  <1>6. /\ \A i \in 1..Len(table) : CarsOf(longer)[i] = CarsOf(table)[i]
        /\ CarsOf(longer)[Len(table) + 1] = e.car
    BY <1>1, <1>2 DEF CarsOf
  <1> DEFINE expected == Append(CarsOf(table), e.car)
  <1>7. /\ expected \in Seq(Cars) /\ Len(expected) = Len(table) + 1
        /\ \A i \in 1..Len(table) : expected[i] = CarsOf(table)[i]
        /\ expected[Len(table) + 1] = e.car
    BY <1>3, <1>5, AppendProperties
  <1> HIDE DEF expected
  <1>8. \A i \in 1..Len(CarsOf(longer)) : CarsOf(longer)[i] = expected[i]
    BY <1>1, <1>5, <1>6, <1>7
  <1>9. CarsOf(longer) = expected
    BY <1>3, <1>5, <1>7, <1>8, SeqEqual
  <1>10. QED
    BY <1>9 DEF longer, expected

\* Once the table shows the stored order again, adding a car is accepted by the
\* constraint, whatever failed before, and its commit stores every run that the
\* transaction left open by the failure was holding.
THEOREM RetryAlwaysStores == Spec => RetryStores
  <1> DEFINE Retry == /\ CarAdd /\ loaded /\ CarsOf(rows) = conn.saved.order[state]
                      /\ rows' # rows /\ faults' = faults
             Stored == conn'.auto /\ conn.view.runs \subseteq conn'.saved.runs
  <1>1. IInv /\ [Next]_vars => [Retry => Stored]_vars
    <2> SUFFICES ASSUME IInv, Retry
                 PROVE  Stored
      OBVIOUS
    <2> DEFINE car == Head(queue).car
               table == Append(rows, LoadEntrant(conn.view, state, car))
               Registered == RegisterCar(conn, state[1], car, TRUE)
    <2>1. car \in Cars
      BY HeadType, CarNamed DEF CarAdd, Next1, IInv
    <2>2. Ready /\ ~IsInOrder(conn.view, state, car)
      BY DEF CarAdd, AddCar
    <2>3. PICK f \in Fault({"registered", "runorder"}) :
              /\ CountFault(f)
              /\ conn' = StoreOrder(RegisterCar(conn, state[1], car, f # "registered"),
                                    table, f # "runorder")
      BY DEF CarAdd, AddCar
    <2>4. f = "none"
      BY <2>3 DEF CountFault, IInv, TypeOK
    <2>5. conn' = StoreOrder(Registered, table, TRUE)
      BY <2>3, <2>4
    <2>6. /\ Sound(Registered) /\ ~Registered.aborted
          /\ Registered.view.order = conn.saved.order
          /\ Registered.view.runs = conn.view.runs
      <3>1. Sound(Registered)
        BY <2>1, RegisterCarSound, StateParts DEF IInv
      <3>2. ~conn.aborted
        BY <2>2 DEF Ready
      <3>3. QED
        BY <3>1, <3>2 DEF RegisterCar, Execute, IInv, Sound, ConnectionOf, Contents
    <2>7. LoadEntrant(conn.view, state, car) \in Entrants
          /\ LoadEntrant(conn.view, state, car).car = car
      BY <2>1, LoadEntrantType DEF LoadEntrant
    <2>8. CarsOf(table) = Append(conn.saved.order[state], car)
      BY <2>7, CarsOfAppend DEF IInv, TypeOK
    <2>9. conn.saved.order \in [Keys -> Seq(Cars)] /\ state \in Keys
      BY DEF IInv, TypeOK, ConnectionOf, Contents
    <2>10. CarsOf(table) \in Seq(Cars)
      <3>1. conn.saved.order[state] \in Seq(Cars)
        BY <2>9
      <3> HIDE DEF car, table
      <3>2. Append(conn.saved.order[state], car) \in Seq(Cars)
        BY <2>1, <3>1, AppendProperties
      <3>3. QED
        BY <2>8, <3>2
    <2>11. OneEntryPerCourse([Registered.view.order EXCEPT ![state] = CarsOf(table)])
      <3>1. OneEntryPerCourse(conn.saved.order)
        BY DEF IInv, Sound
      <3>2. \A g \in Groups : ~Contains(conn.saved.order[<<state[1], state[2], g>>], car)
        BY <2>2 DEF IsInOrder, IInv, Sound
      <3> HIDE DEF car, table, Registered
      <3>3. QED
        BY <2>1, <2>6, <2>8, <2>9, <3>1, <3>2, AppendMeetsConstraint
    <2> HIDE DEF car, table, Registered
    <2>12. conn' = SetRunOrder(Registered, state, CarsOf(table), TRUE)
      BY <2>5 DEF StoreOrder
    <2>13. conn'.auto /\ conn'.saved.runs = Registered.view.runs
      BY <2>6, <2>9, <2>10, <2>11, <2>12, SetRunOrderStores
    <2>14. QED
      BY <2>6, <2>13
  <1>2. QED
    BY <1>1, Invariant, PTL DEF Spec, RetryStores
-----------------------------------------------------------------------------
(* The table and the stored order.  Every step stores the table it shows,     *)
(* leaves both alone, or leaves a reload in the queue.                        *)

Awaits(messages) == \E i \in DOMAIN messages : messages[i].type = "RUNGROUP_CHANGED"

LEMMA StillAwaits ==
  ASSUME NEW q \in Seq(Message), Awaits(q)
  PROVE  /\ \A more \in Seq(Message) : Awaits(q \o more)
         /\ \A m \in Message : Awaits(Append(q, m))
         /\ (q # <<>> /\ Head(q).type # "RUNGROUP_CHANGED") => Awaits(Tail(q))
  <1>1. PICK i \in 1..Len(q) : q[i].type = "RUNGROUP_CHANGED"
    BY LenProperties DEF Awaits
  <1>2. Len(q) \in Nat
    BY LenProperties
  <1>3. ASSUME NEW more \in Seq(Message)
        PROVE  Awaits(q \o more)
    <2>1. /\ i \in 1..Len(q \o more) /\ (q \o more)[i] = q[i]
          /\ q \o more \in Seq(Message)
      BY <1>1, <1>2, ConcatProperties, LenProperties
    <2>2. i \in DOMAIN (q \o more)
      BY <2>1, LenProperties
    <2>3. QED
      BY <1>1, <2>1, <2>2 DEF Awaits
  <1>4. ASSUME NEW m \in Message
        PROVE  Awaits(Append(q, m))
    <2>1. /\ Append(q, m) \in Seq(Message)
          /\ i \in 1..Len(Append(q, m)) /\ Append(q, m)[i] = q[i]
      BY <1>1, <1>2, AppendProperties
    <2>2. i \in DOMAIN Append(q, m)
      BY <2>1, LenProperties
    <2>3. QED
      BY <1>1, <2>1, <2>2 DEF Awaits
  <1>5. ASSUME q # <<>>, Head(q).type # "RUNGROUP_CHANGED"
        PROVE  Awaits(Tail(q))
    <2>1. /\ Tail(q) \in Seq(Message) /\ Len(Tail(q)) = Len(q) - 1
          /\ \A j \in 1..Len(Tail(q)) : Tail(q)[j] = q[j + 1]
      BY <1>5, HeadTailProperties
    <2>2. i # 1
      BY <1>1, <1>5, HeadTailProperties
    <2>3. i - 1 \in 1..Len(Tail(q)) /\ (i - 1) + 1 = i
      BY <1>1, <1>2, <2>1, <2>2
    <2>4. i - 1 \in DOMAIN Tail(q) /\ Tail(q)[i - 1] = q[i]
      BY <2>1, <2>3, LenProperties
    <2>5. QED
      BY <1>1, <2>4 DEF Awaits
  <1>6. QED
    BY <1>3, <1>4, <1>5

LEMMA PostAwaits ==
  ASSUME IInv, NEW messages \in Seq(Message), Post(messages)
  PROVE  /\ Awaits(queue) => Awaits(queue')
         /\ Awaits(messages) => Awaits(queue')
  <1>1. queue \in Seq(Message) /\ queue' = queue \o messages
    BY DEF Post, IInv, TypeOK
  <1>2. ASSUME Awaits(messages)
        PROVE  Awaits(queue \o messages)
    <2>1. PICK i \in 1..Len(messages) : messages[i].type = "RUNGROUP_CHANGED"
      BY <1>2, LenProperties DEF Awaits
    <2>2. /\ Len(queue) \in Nat /\ Len(messages) \in Nat
          /\ queue \o messages \in Seq(Message)
          /\ Len(queue \o messages) = Len(queue) + Len(messages)
          /\ \A j \in 1..Len(queue \o messages) :
                (queue \o messages)[j] = IF j <= Len(queue) THEN queue[j]
                                         ELSE messages[j - Len(queue)]
      BY <1>1, ConcatProperties, LenProperties
    <2> DEFINE n == Len(queue) + i
    <2>3. /\ n \in 1..Len(queue \o messages)
          /\ (queue \o messages)[n] = messages[i]
      BY <2>2
    <2>4. n \in DOMAIN (queue \o messages)
      BY <2>2, <2>3, LenProperties
    <2>5. QED
      BY <2>1, <2>3, <2>4 DEF Awaits
  <1>3. QED
    BY <1>1, <1>2, StillAwaits

LEMMA ReloadMessages ==
  /\ OpenSeries \in Seq(Message) /\ Awaits(OpenSeries)
  /\ Tail(OpenSeries) \in Seq(Message) /\ Awaits(Tail(OpenSeries))
  /\ <<Tell("RUNGROUP_CHANGED")>> \in Seq(Message) /\ Awaits(<<Tell("RUNGROUP_CHANGED")>>)
  <1>1. Awaits(OpenSeries)
    BY DEF OpenSeries, Awaits, Tell
  <1>2. OpenSeries # <<>> /\ Head(OpenSeries).type # "RUNGROUP_CHANGED"
    BY DEF OpenSeries, Tell
  <1>3. Awaits(<<Tell("RUNGROUP_CHANGED")>>)
    BY DEF Awaits, Tell
  <1>4. QED
    BY <1>1, <1>2, <1>3, OpenSeriesType, StillAwaits, TellType, OneMessage

LEMMA StoreOrderOutcome ==
  ASSUME IInv, NEW c, Sound(c), NEW table \in Seq(Entrants), NEW ok \in BOOLEAN,
         NEW r, r = StoreOrder(c, table, ok)
  PROVE  \/ /\ r.auto
            /\ r.saved.order = [c.saved.order EXCEPT ![state] = CarsOf(table)]
            /\ r.saved.runs = c.view.runs
         \/ ~r.auto /\ r.saved = c.saved
  <1>1. state \in Keys /\ CarsOf(table) \in Seq(Cars)
    BY CarsOfType DEF IInv, TypeOK
  <1>2. QED
    BY <1>1, SetRunOrderOutcome DEF StoreOrder

\* The table of this step is stored, unless its update is refused.
OrderStored ==
  /\ state' = state /\ loaded' = loaded
  /\ conn'.saved.order = IF conn'.auto
                         THEN [conn.saved.order EXCEPT ![state] = CarsOf(rows')]
                         ELSE conn.saved.order
  /\ Awaits(queue) => Awaits(queue')

\* Neither the table's cars nor the stored orders change.
OrderLeft ==
  /\ state' = state /\ loaded' = loaded
  /\ conn'.saved.order = conn.saved.order /\ conn'.auto = conn.auto
  /\ CarsOf(rows') = CarsOf(rows)
  /\ Awaits(queue) => Awaits(queue')

\* The stored orders stay and the table is about to be loaded again.
ReloadPending ==
  /\ conn'.saved.order = conn.saved.order /\ conn'.auto = conn.auto
  /\ Awaits(queue')

LEMMA StoredOutcome ==
  ASSUME IInv, NEW c, Sound(c), c.saved.order = conn.saved.order,
         rows' \in Seq(Entrants), NEW ok \in BOOLEAN,
         conn' = StoreOrder(c, rows', ok), UNCHANGED <<state, loaded>>,
         Awaits(queue) => Awaits(queue')
  PROVE  OrderStored
  <1>1. \/ /\ conn'.auto
           /\ conn'.saved.order = [c.saved.order EXCEPT ![state] = CarsOf(rows')]
        \/ ~conn'.auto /\ conn'.saved = c.saved
    BY StoreOrderOutcome
  <1>2. QED
    BY <1>1 DEF OrderStored

LEMMA AddCarOrders ==
  ASSUME IInv, NEW car \in Cars, NEW rest \in Seq(Message), AddCar(car, rest),
         Awaits(queue) => Awaits(rest)
  PROVE  OrderStored \/ OrderLeft
  <1>1. CASE loaded /\ Ready /\ ~IsInOrder(conn.view, state, car)
    <2> DEFINE table == Append(rows, LoadEntrant(conn.view, state, car))
               Registered(f) == RegisterCar(conn, state[1], car, f # "registered")
    <2>1. PICK f \in Fault({"registered", "runorder"}) :
              /\ rows' = table
              /\ conn' = StoreOrder(Registered(f), table, f # "runorder")
              /\ queue' = Append(rest, Tell("ENTRANTS_CHANGED"))
      BY <1>1 DEF AddCar
    <2>2. table \in Seq(Entrants)
      BY LoadEntrantType, AppendProperties DEF IInv, TypeOK
    <2>3. Sound(Registered(f)) /\ Registered(f).saved.order = conn.saved.order
      BY RegisterCarSound, RegisterCarOrders, StateParts DEF IInv
    <2>4. UNCHANGED <<state, loaded>> /\ (Awaits(queue) => Awaits(queue'))
      BY <2>1, TellType, StillAwaits DEF AddCar
    <2> HIDE DEF table, Registered
    <2>5. QED
      BY <2>1, <2>2, <2>3, <2>4, StoredOutcome
  <1>2. CASE ~(loaded /\ Ready /\ ~IsInOrder(conn.view, state, car))
    BY <1>2 DEF AddCar, OrderLeft
  <1>3. QED
    BY <1>1, <1>2

LEMMA ReplaceCarOrders ==
  ASSUME IInv, NEW car \in Cars, NEW row \in Row, NEW rest \in Seq(Message),
         ReplaceCar(car, row, rest), Awaits(queue) => Awaits(rest)
  PROVE  OrderStored \/ OrderLeft
  <1>1. CASE Ready
    <2> DEFINE old == rows[row]
               both == [LoadEntrant(conn.view, state, car) EXCEPT !.runs = @ \union old.runs]
               table == [rows EXCEPT ![row] = both]
               Stored(lost) == SetRuns(conn, state, car, old.runs, lost)
    <2>1. PICK f \in Fault({"runorder"}), lost \in SUBSET old.runs :
              /\ rows' = table
              /\ conn' = StoreOrder(Stored(lost), table, f # "runorder")
              /\ queue' = Append(rest, Tell("ENTRANTS_CHANGED"))
      BY <1>1 DEF ReplaceCar
    <2>2. old \in Entrants /\ both \in Entrants
      BY RowType, LoadEntrantType DEF Entrants
    <2>3. table \in Seq(Entrants)
      BY <2>2, EntrantRow
    <2>4. Sound(Stored(lost)) /\ Stored(lost).saved.order = conn.saved.order
      <3>1. old.runs \in SUBSET RunNums
        BY <2>2 DEF Entrants
      <3>2. QED
        BY <3>1, SetRunsSound, SetRunsOrders, StateParts DEF IInv
    <2>5. UNCHANGED <<state, loaded>> /\ (Awaits(queue) => Awaits(queue'))
      BY <2>1, TellType, StillAwaits DEF ReplaceCar
    <2> HIDE DEF table, Stored
    <2>6. QED
      BY <2>1, <2>3, <2>4, <2>5, StoredOutcome
  <1>2. CASE ~Ready
    BY <1>2 DEF ReplaceCar, OrderLeft
  <1>3. QED
    BY <1>1, <1>2

\* Writing a run to a row keeps the cars of the table.
LEMMA SameCars ==
  ASSUME IInv, NEW row \in Row, NEW e \in Entrants, e.car = rows[row].car
  PROVE  CarsOf([rows EXCEPT ![row] = e]) = CarsOf(rows)
  BY DEF CarsOf, Row, IInv, TypeOK

LEMMA RecordRunOrders ==
  ASSUME IInv, NEW row \in Row, NEW number \in RunNums, RecordRun(row, number),
         UNCHANGED <<state, loaded, queue>>
  PROVE  OrderLeft
  <1> DEFINE run == [rows[row] EXCEPT !.runs = @ \union {number}]
             Stored(lost) == SetRuns(conn, state, rows[row].car, {number}, lost)
  <1>1. PICK lost : rows' = [rows EXCEPT ![row] = run] /\ conn' = Stored(lost)
    BY DEF RecordRun
  <1>2. rows[row] \in Entrants
    BY RowType
  <1>3. run \in Entrants /\ run.car = rows[row].car /\ rows[row].car \in Cars
    BY <1>2 DEF Entrants
  <1>4. CarsOf(rows') = CarsOf(rows)
    <2> HIDE DEF run
    <2>1. QED
      BY <1>1, <1>3, SameCars
  <1>5. Stored(lost).saved.order = conn.saved.order /\ Stored(lost).auto = conn.auto
    <2>1. {number} \in SUBSET RunNums
      OBVIOUS
    <2>2. QED
      BY <1>3, <2>1, SetRunsSound, SetRunsOrders, StateParts DEF IInv
  <1>6. QED
    BY <1>1, <1>4, <1>5 DEF OrderLeft

LEMMA CutRunOrders ==
  ASSUME IInv, CutRun
  PROVE  OrderLeft
  <1> DEFINE row == cell[1]
             cut == [rows[row] EXCEPT !.runs = @ \ {cell[2]}]
             Deleted(f) == DeleteRun(conn, state, rows[row].car, cell[2], f # "runs")
  <1>1. PICK f \in Fault({"runs"}) : rows' = [rows EXCEPT ![row] = cut] /\ conn' = Deleted(f)
    BY DEF CutRun
  <1>2. row \in Row
    BY CellType DEF CutRun
  <1>3. rows[row] \in Entrants
    BY <1>2, RowType
  <1>4. cut \in Entrants /\ cut.car = rows[row].car
    BY <1>3 DEF Entrants
  <1>5. CarsOf(rows') = CarsOf(rows)
    <2> HIDE DEF cut, row
    <2>1. QED
      BY <1>1, <1>2, <1>4, SameCars
  <1>6. Deleted(f).saved.order = conn.saved.order /\ Deleted(f).auto = conn.auto
    <2>1. ASSUME NEW ok \in BOOLEAN
          PROVE  LET deleted == DeleteRun(conn, state, rows[row].car, cell[2], ok)
                 IN  deleted.saved.order = conn.saved.order /\ deleted.auto = conn.auto
      BY DeleteRunSound, DeleteRunOrders DEF IInv
    <2>2. QED
      BY <2>1
  <1>7. QED
    BY <1>1, <1>5, <1>6 DEF OrderLeft, CutRun

LEMMA MessageTaken ==
  ASSUME IInv, queue # <<>>, Head(queue).type # "RUNGROUP_CHANGED"
  PROVE  /\ Tail(queue) \in Seq(Message) /\ Head(queue) \in Message
         /\ Awaits(queue) => Awaits(Tail(queue))
  BY HeadType, StillAwaits DEF IInv, TypeOK

LEMMA DeliverOrders ==
  ASSUME IInv, Deliver
  PROVE  OrderStored \/ OrderLeft \/ RunGroupChanged
  <1>1. CASE EventChanged \/ CarsReloaded \/ ObjectClicked
    <2>1. queue # <<>> /\ Head(queue).type # "RUNGROUP_CHANGED" /\ queue' = Tail(queue)
      BY <1>1 DEF EventChanged, CarsReloaded, ObjectClicked, Next1
    <2>2. Awaits(queue) => Awaits(queue')
      BY <2>1, MessageTaken
    <2>3. QED
      BY <1>1, <2>2 DEF EventChanged, CarsReloaded, ObjectClicked, OrderLeft, tableVars
  <1>2. CASE CarAdd \/ CarChange \/ BarcodeScanned
    <2>1. /\ queue # <<>>
          /\ Head(queue).type \in {"CAR_ADD", "CAR_CHANGE", "BARCODE_SCANNED"}
      BY <1>2 DEF CarAdd, CarChange, BarcodeScanned, Next1
    <2>2. /\ Tail(queue) \in Seq(Message) /\ Head(queue).car \in Cars
          /\ Awaits(queue) => Awaits(Tail(queue))
      BY <2>1, MessageTaken, CarNamed
    <2>3. CASE \E car \in Cars : AddCar(car, Tail(queue))
      BY <2>2, <2>3, AddCarOrders
    <2>4. CASE drivers # NoRows /\ ReplaceCar(Head(queue).car, drivers[1], Tail(queue))
      <3>1. drivers[1] \in Row
        BY <2>4 DEF IInv, TypeOK, Selected, Row
      <3>2. QED
        BY <2>2, <2>4, <3>1, ReplaceCarOrders
    <2>5. CASE queue' = Tail(queue) /\ UNCHANGED <<state, tableVars, panel, conn, faults>>
      BY <2>2, <2>5 DEF OrderLeft, tableVars
    <2>6. \/ \E car \in Cars : AddCar(car, Tail(queue))
          \/ drivers # NoRows /\ ReplaceCar(Head(queue).car, drivers[1], Tail(queue))
          \/ queue' = Tail(queue) /\ UNCHANGED <<state, tableVars, panel, conn, faults>>
      BY <1>2, <2>2 DEF CarAdd, CarChange, BarcodeScanned
    <2>7. QED
      BY <2>3, <2>4, <2>5, <2>6
  <1>3. QED
    BY <1>1, <1>2 DEF Deliver

LEMMA SelectingOrders ==
  ASSUME IInv, Selecting
  PROVE  ReloadPending
  <1>1. UNCHANGED conn
    BY DEF Selecting, PickEvent, PickCourse, PickGroup
  <1>2. \E messages \in Seq(Message) : Post(messages) /\ Awaits(messages)
    BY ReloadMessages DEF Selecting, PickEvent, PickCourse, PickGroup
  <1>3. QED
    BY <1>1, <1>2, PostAwaits DEF ReloadPending

LEMMA PostsOrders ==
  ASSUME IInv, NEW messages \in Seq(Message), Post(messages), UNCHANGED <<state, loaded, rows, conn>>
  PROVE  OrderLeft
  BY PostAwaits DEF OrderLeft

LEMMA MarkPaidOrders ==
  ASSUME IInv, NEW row \in Row, MarkPaid(row)
  PROVE  OrderLeft \/ ReloadPending
  <1> DEFINE Registered(f) == RegisterCar(conn, state[1], rows[row].car, f # "registered")
  <1>1. PICK f \in Fault({"registered"}) :
            /\ conn' = Registered(f)
            /\ Post(IF f = "none" THEN <<Tell("RUNGROUP_CHANGED")>> ELSE <<>>)
    BY DEF MarkPaid
  <1>2. Registered(f).saved.order = conn.saved.order /\ Registered(f).auto = conn.auto
    <2>1. rows[row].car \in Cars
      BY RowType DEF Entrants
    <2>2. QED
      BY <2>1, RegisterCarSound, RegisterCarOrders, StateParts DEF IInv
  <1> HIDE DEF Registered
  <1>3. CASE f = "none"
    BY <1>1, <1>2, <1>3, ReloadMessages, PostAwaits DEF ReloadPending
  <1>4. CASE f # "none"
    <2>1. Awaits(queue) => Awaits(queue')
      BY <1>1, <1>4, EmptySeq, PostAwaits
    <2>2. QED
      BY <1>1, <1>2, <2>1 DEF MarkPaid, OrderLeft, tableVars
  <1>5. QED
    BY <1>3, <1>4

LEMMA OrderingOrders ==
  ASSUME IInv, Ordering
  PROVE  OrderStored \/ OrderLeft \/ ReloadPending
  <1>1. CASE \/ \E driver \in Drivers : PickDriver(driver)
             \/ \E car \in Cars : PickCar(car)
    BY <1>1 DEF PickDriver, PickCar, OrderLeft, tableVars
  <1>2. ASSUME NEW car \in Cars, SendAdd(car) \/ AddNewCar(car) \/ Scan(car)
        PROVE  OrderLeft
    <2>1. \E m \in Message : Post(<<m>>)
      BY <1>2, TellType DEF SendAdd, AddNewCar, Scan
    <2>2. UNCHANGED <<state, loaded, rows, conn>>
      BY <1>2 DEF SendAdd, AddNewCar, Scan, tableVars
    <2>3. QED
      BY <2>1, <2>2, OneMessage, PostsOrders
  <1>3. CASE ClickAdd \/ ClickSwap
    <2>1. panel.car \in Cars
      BY <1>3 DEF ClickAdd, ClickSwap, AlreadyInOrder, IInv, TypeOK
    <2>2. \E m \in Message : Post(<<m>>)
      BY <1>3, <2>1, TellType DEF ClickAdd, ClickSwap
    <2>3. UNCHANGED <<state, loaded, rows, conn>>
      BY <1>3 DEF ClickAdd, ClickSwap, tableVars
    <2>4. QED
      BY <2>2, <2>3, OneMessage, PostsOrders
  <1>4. ASSUME NEW first \in Row, NEW last \in Row, SelectRows(first, last)
        PROVE  OrderLeft
    <2>1. rows[first].car \in Cars
      BY RowType DEF Entrants
    <2>2. \E m \in Message : Post(<<m>>)
      BY <1>4, <2>1, TellType DEF SelectRows
    <2>3. QED
      BY <1>4, <2>2, OneMessage, PostsOrders DEF SelectRows
  <1>5. ASSUME NEW row \in Row, NEW car \in Cars, MenuSwap(row, car)
        PROVE  OrderLeft
    <2>1. rows[row].car \in Cars
      BY RowType DEF Entrants
    <2>2. <<TellCar("OBJECT_CLICKED", rows[row].car), TellCar("CAR_CHANGE", car)>> \in Seq(Message)
      BY <2>1, TellType
    <2>3. QED
      BY <1>5, <2>2, PostsOrders DEF MenuSwap, tableVars
  <1>6. ASSUME NEW row \in Row, MarkPaid(row)
        PROVE  OrderLeft \/ ReloadPending
    BY <1>6, MarkPaidOrders
  <1>7. CASE CutRow
    <2> DEFINE table == Without(rows, drivers[1])
    <2>1. PICK f : rows' = table /\ conn' = StoreOrder(conn, table, f # "runorder")
      BY <1>7 DEF CutRow
    <2>2. drivers[1] \in DOMAIN rows
      BY <1>7 DEF CutRow, IInv, TypeOK, Selected
    <2>3. table \in Seq(Entrants)
      BY <2>2, WithoutType DEF IInv, TypeOK
    <2>4. UNCHANGED <<state, loaded>> /\ (Awaits(queue) => Awaits(queue'))
      BY <1>7, TellType, OneMessage, PostAwaits DEF CutRow
    <2> HIDE DEF table
    <2>5. QED
      BY <2>1, <2>3, <2>4, StoredOutcome DEF IInv
  <1>8. ASSUME NEW to \in 1..(Len(rows) + 1), DragRows(to)
        PROVE  OrderStored \/ OrderLeft
    <2> DEFINE table == MovedRows(rows, drivers[1], drivers[2], to)
    <2>1. CASE to \in drivers[1]..(drivers[2] + 1)
      BY <1>8, <2>1 DEF DragRows, OrderLeft
    <2>2. CASE to \notin drivers[1]..(drivers[2] + 1)
      <3>1. PICK f : rows' = table /\ conn' = StoreOrder(conn, table, f # "runorder")
        BY <1>8, <2>2 DEF DragRows
      <3>2. drivers[1] \in DOMAIN rows /\ drivers[2] \in DOMAIN rows /\ drivers[1] <= drivers[2]
        BY <1>8 DEF DragRows, IInv, TypeOK, Selected
      <3>3. table \in Seq(Entrants)
        BY <2>2, <3>2, MovedRowsType DEF IInv, TypeOK
      <3>4. UNCHANGED <<state, loaded>> /\ (Awaits(queue) => Awaits(queue'))
        BY <1>8, <2>2, TellType, OneMessage, PostAwaits DEF DragRows
      <3> HIDE DEF table
      <3>5. QED
        BY <3>1, <3>3, <3>4, StoredOutcome DEF IInv
    <2>3. QED
      BY <2>1, <2>2
  <1>9. QED
    BY <1>1, <1>2, <1>3, <1>4, <1>5, <1>6, <1>7, <1>8 DEF Ordering

LEMMA TextRunsOrders ==
  ASSUME IInv, NEW row \in Row, NEW course \in Courses, NEW numbers \in SUBSET RunNums,
         TextRuns(row, course, numbers)
  PROVE  ReloadPending
  <1> DEFINE key == <<state[1], course>>
  <1>1. PICK lost : conn' = SetRuns(conn, key, rows[row].car, numbers, lost)
    BY DEF TextRuns
  <1>2. key[1] \in Events /\ key[2] \in Courses
    BY StateParts
  <1>3. rows[row].car \in Cars
    BY RowType DEF Entrants
  <1> HIDE DEF key
  <1>4. conn'.saved.order = conn.saved.order /\ conn'.auto = conn.auto
    BY <1>1, <1>2, <1>3, SetRunsSound, SetRunsOrders DEF IInv
  <1>5. Awaits(queue')
    BY ReloadMessages, PostAwaits DEF TextRuns
  <1>6. QED
    BY <1>4, <1>5 DEF ReloadPending

LEMMA TimingOrders ==
  ASSUME IInv, Timing
  PROVE  OrderLeft \/ ReloadPending
  <1>1. ASSUME NEW row \in Row, NEW number \in RunNums, SelectCell(row, number)
        PROVE  OrderLeft
    <2>1. \E m \in Message : Post(<<m>>)
      BY <1>1, TellType DEF SelectCell
    <2>2. QED
      BY <1>1, <2>1, OneMessage, PostsOrders DEF SelectCell
  <1>2. CASE EnterTime \/ PasteRun
    <2>1. cell[1] \in Row /\ cell[2] \in RunNums
      BY <1>2, CellType DEF EnterTime, PasteRun
    <2>2. RecordRun(cell[1], cell[2]) /\ UNCHANGED <<state, loaded, queue>>
      BY <1>2 DEF EnterTime, PasteRun
    <2>3. QED
      BY <2>1, <2>2, RecordRunOrders
  <1>3. QED
    BY <1>1, <1>2, TextRunsOrders, CutRunOrders DEF Timing

LEMMA NextOrders ==
  ASSUME IInv, [Next]_vars
  PROVE  \/ OrderStored \/ OrderLeft \/ ReloadPending
         \/ RunGroupChanged \/ Restart
  <1>1. CASE UNCHANGED vars
    BY <1>1 DEF vars, tableVars, OrderLeft
  <1>2. QED
    BY <1>1, DeliverOrders, SelectingOrders, OrderingOrders, TimingOrders DEF Next

LEMMA CarsOfLoaded ==
  ASSUME NEW data \in Contents, NEW key \in Keys
  PROVE  CarsOf(EntrantsByRunOrder(data, key)) = data.order[key]
  <1> DEFINE cars == data.order[key]
  <1>1. cars \in Seq(Cars)
    BY DEF Contents
  <1>2. cars = [i \in DOMAIN cars |-> cars[i]]
    BY <1>1
  <1>3. QED
    BY <1>2 DEF CarsOf, EntrantsByRunOrder, LoadEntrant

\* The table shows the stored order whenever its reload is not pending and the
\* last update of the order was accepted, however picking an event, a course
\* or a group interleaves with additions, swaps and cuts already under way.
THEOREM TableShowsOrder == Spec => []TableIsOrder
  <1>1. Init => TableIsOrder
    BY DEF Init, Fresh, TableIsOrder, InStep
  <1>2. IInv /\ TableIsOrder /\ [Next]_vars => TableIsOrder'
    <2> SUFFICES ASSUME IInv, TableIsOrder, [Next]_vars, InStep'
                 PROVE  CarsOf(rows') = conn'.saved.order[state']
      BY DEF TableIsOrder
    <2>1. loaded' /\ conn'.auto /\ ~Awaits(queue')
      BY DEF InStep, Pending, Awaits
    <2>2. conn.saved.order \in [Keys -> Seq(Cars)] /\ state \in Keys
      BY DEF IInv, TypeOK, ConnectionOf, Contents
    <2>3. CASE OrderStored
      BY <2>1, <2>2, <2>3 DEF OrderStored
    <2>4. CASE OrderLeft
      <3>1. InStep
        BY <2>1, <2>4 DEF OrderLeft, InStep, Pending, Awaits
      <3>2. QED
        BY <2>4, <3>1 DEF OrderLeft, TableIsOrder
    <2>5. CASE RunGroupChanged
      <3>1. /\ rows' = EntrantsByRunOrder(conn.view, state)
            /\ state' = state /\ conn' = conn
        BY <2>1, <2>5 DEF RunGroupChanged
      <3>2. CarsOf(rows') = conn.view.order[state]
        BY <2>2, <3>1, CarsOfLoaded DEF IInv, Sound, ConnectionOf
      <3>3. QED
        BY <3>1, <3>2 DEF IInv, Sound
    <2>6. CASE ReloadPending \/ Restart
      BY <2>1, <2>6 DEF ReloadPending, Restart
    <2>7. QED
      BY <2>3, <2>4, <2>5, <2>6, NextOrders
  <1>3. QED
    BY <1>1, <1>2, Invariant, PTL DEF Spec

-----------------------------------------------------------------------------
(* Blocks of rows. *)

LEMMA Joined ==
  ASSUME NEW S, NEW p \in Seq(S), NEW q \in Seq(S), NEW k, k = Len(p), NEW l, l = k + Len(q)
  PROVE  /\ p \o q \in Seq(S) /\ Len(p \o q) = l
         /\ \A i \in 1..l : (p \o q)[i] = IF i <= k THEN p[i] ELSE q[i - k]
  BY ConcatProperties

\* The part of a sequence between two of its positions.
LEMMA Part ==
  ASSUME NEW S, NEW s \in Seq(S), NEW m \in 1..(Len(s) + 1), NEW n \in 0..Len(s), m <= n + 1
  PROVE  /\ SubSeq(s, m, n) \in Seq(S)
         /\ Len(SubSeq(s, m, n)) = (n + 1) - m
         /\ \A i \in 1..((n + 1) - m) : SubSeq(s, m, n)[i] = s[(m + i) - 1]
  <1>1. Len(s) \in Nat /\ \A i \in 1..Len(s) : s[i] \in S
    BY LenProperties, ElementOfSeq
  <1>2. \A i \in m..n : s[i] \in S
    BY <1>1
  <1>3. /\ SubSeq(s, m, n) \in Seq(S)
        /\ Len(SubSeq(s, m, n)) = IF m <= n THEN (n - m) + 1 ELSE 0
        /\ \A i \in 1..((n - m) + 1) : SubSeq(s, m, n)[i] = s[m + (i - 1)]
    BY <1>1, <1>2, SubSeqProperties
  <1>4. QED
    BY <1>1, <1>3

\* Two adjacent blocks a..b-1 and b..c-1 change places.
Exchanged(s, a, b, c) ==
    LET x == a + (c - b)
    IN  [i \in DOMAIN s |-> IF i \in a..(x - 1) THEN s[i - a + b]
                           ELSE IF i \in x..(c - 1) THEN s[i - x + a]
                           ELSE s[i]]

LEMMA ExchangedBlocks ==
  ASSUME NEW S, NEW s \in Seq(S), NEW a \in Nat, NEW b \in Nat, NEW c \in Nat,
         1 <= a, a <= b, b <= c, c <= Len(s) + 1
  PROVE  Exchanged(s, a, b, c) = SubSeq(s, 1, a - 1) \o SubSeq(s, b, c - 1)
                                 \o SubSeq(s, a, b - 1) \o SubSeq(s, c, Len(s))
  <1> DEFINE n == Len(s)
             x == a + (c - b)
             moved == Exchanged(s, a, b, c)
             p == SubSeq(s, 1, a - 1)
             q == SubSeq(s, b, c - 1)
             r == SubSeq(s, a, b - 1)
             t == SubSeq(s, c, n)
             all == p \o q \o r \o t
             k == a - 1
             l == x - 1
             m == c - 1
  <1>1. /\ n \in Nat /\ DOMAIN s = 1..n /\ \A i \in 1..n : s[i] \in S
        /\ moved = [i \in 1..n |-> IF i \in a..(x - 1) THEN s[i - a + b]
                                   ELSE IF i \in x..(c - 1) THEN s[i - x + a]
                                   ELSE s[i]]
    BY LenProperties, ElementOfSeq DEF Exchanged
  <1> HIDE DEF moved
  <1>2. /\ p \in Seq(S) /\ Len(p) = k
        /\ \A i \in 1..k : p[i] = s[i]
    <2>1. /\ p \in Seq(S) /\ Len(p) = ((a - 1) + 1) - 1
          /\ \A i \in 1..(((a - 1) + 1) - 1) : p[i] = s[(1 + i) - 1]
      BY <1>1, Part
    <2> HIDE DEF p
    <2>2. QED
      BY <2>1
  <1>3. /\ q \in Seq(S) /\ Len(q) = c - b
        /\ \A i \in 1..(c - b) : q[i] = s[(b + i) - 1]
    <2>1. /\ q \in Seq(S) /\ Len(q) = ((c - 1) + 1) - b
          /\ \A i \in 1..(((c - 1) + 1) - b) : q[i] = s[(b + i) - 1]
      BY <1>1, Part
    <2> HIDE DEF q
    <2>2. QED
      BY <2>1
  <1>4. /\ r \in Seq(S) /\ Len(r) = b - a
        /\ \A i \in 1..(b - a) : r[i] = s[(a + i) - 1]
    <2>1. /\ r \in Seq(S) /\ Len(r) = ((b - 1) + 1) - a
          /\ \A i \in 1..(((b - 1) + 1) - a) : r[i] = s[(a + i) - 1]
      BY <1>1, Part
    <2> HIDE DEF r
    <2>2. QED
      BY <2>1
  <1>5. /\ t \in Seq(S) /\ Len(t) = (n + 1) - c
        /\ \A i \in 1..((n + 1) - c) : t[i] = s[(c + i) - 1]
    BY <1>1, Part
  <1> HIDE DEF p, q, r, t
  <1>6. /\ k \in Nat /\ l \in Nat /\ m \in Nat
        /\ k = Len(p) /\ l = k + Len(q) /\ m = l + Len(r) /\ n = m + Len(t)
        /\ k <= l /\ l <= m /\ m <= n
        /\ p \in Seq(S) /\ q \in Seq(S) /\ r \in Seq(S) /\ t \in Seq(S)
    BY <1>1, <1>2, <1>3, <1>4, <1>5
  <1> DEFINE pq == p \o q
             pqr == pq \o r
  <1> HIDE DEF k, l, m
  <1>7. /\ pq \in Seq(S) /\ Len(pq) = l
        /\ \A i \in 1..l : pq[i] = IF i <= k THEN p[i] ELSE q[i - k]
    BY <1>6, Joined
  <1> HIDE DEF pq
  <1>8. /\ pqr \in Seq(S) /\ Len(pqr) = m
        /\ \A i \in 1..m : pqr[i] = IF i <= l THEN pq[i] ELSE r[i - l]
    BY <1>6, <1>7, Joined
  <1>9. all = pqr \o t
    BY DEF pq
  <1> HIDE DEF pqr, all, n
  <1>10. /\ all \in Seq(S) /\ Len(all) = n
         /\ \A i \in 1..n : all[i] = IF i <= m THEN pqr[i] ELSE t[i - m]
    <2>1. /\ pqr \o t \in Seq(S) /\ Len(pqr \o t) = n
          /\ \A i \in 1..n : (pqr \o t)[i] = IF i <= m THEN pqr[i] ELSE t[i - m]
      <3>1. /\ pqr \in Seq(S) /\ t \in Seq(S)
            /\ m = Len(pqr) /\ n = m + Len(t)
        BY <1>6, <1>8
      <3>2. QED
        BY <3>1, Joined
    <2>2. QED
      BY <1>9, <2>1
  <1>11. ASSUME NEW i \in 1..n
        PROVE  moved[i] = all[i]
    <2>1. CASE i <= k
      <3>1. i \notin a..(x - 1) /\ i \notin x..(c - 1)
        BY <1>1, <2>1 DEF k
      <3>2. moved[i] = s[i] /\ all[i] = p[i]
        BY <1>1, <1>6, <1>7, <1>8, <1>10, <2>1, <3>1
      <3>3. QED
        BY <1>2, <2>1, <3>2
    <2>2. CASE i > k /\ i <= l
      <3>1. i \in a..(x - 1) /\ i - k \in 1..(c - b) /\ (b + (i - k)) - 1 = i - a + b
        BY <1>1, <2>2 DEF k, l
      <3>2. moved[i] = s[i - a + b]
        BY <1>1, <3>1
      <3>3. all[i] = q[i - k]
        BY <1>1, <1>6, <1>7, <1>8, <1>10, <2>2
      <3>4. QED
        BY <1>3, <3>1, <3>2, <3>3
    <2>3. CASE i > l /\ i <= m
      <3>1. /\ i \notin a..(x - 1) /\ i \in x..(c - 1)
            /\ i - l \in 1..(b - a) /\ (a + (i - l)) - 1 = i - x + a
        BY <1>1, <2>3 DEF l, m
      <3>2. moved[i] = s[i - x + a]
        BY <1>1, <3>1
      <3>3. all[i] = r[i - l]
        BY <1>1, <1>6, <1>8, <1>10, <2>3
      <3>4. QED
        BY <1>4, <3>1, <3>2, <3>3
    <2>4. CASE i > m
      <3>1. /\ i \notin a..(x - 1) /\ i \notin x..(c - 1)
            /\ i - m \in 1..((n + 1) - c) /\ (c + (i - m)) - 1 = i
        BY <1>1, <2>4 DEF m
      <3>2. moved[i] = s[i]
        BY <1>1, <3>1
      <3>3. all[i] = t[i - m]
        BY <1>1, <1>6, <1>10, <2>4
      <3>4. QED
        BY <1>5, <3>1, <3>2, <3>3
    <2>5. QED
      BY <1>1, <1>6, <2>1, <2>2, <2>3, <2>4
  <1>12. moved \in Seq(S) /\ Len(moved) = n
    <2>1. \A i \in 1..n : moved[i] \in S
      BY <1>1, <1>10, <1>11, ElementOfSeq
    <2>2. moved \in [1..n -> S]
      BY <1>1, <2>1
    <2>3. moved \in Seq(S)
      BY <1>1, <2>2, SeqDef
    <2>4. QED
      BY <1>1, <2>2, <2>3, LenProperties
  <1>13. moved = all
    BY <1>10, <1>11, <1>12, SeqEqual
  <1>14. QED
    BY <1>13 DEF moved, all, n, p, q, r, t

\* moveRow's exchange of two adjacent blocks is what a drag is meant to do, up
\* and down the table alike.
LEMMA MovedBlock ==
  ASSUME NEW S, NEW s \in Seq(S), NEW first \in 1..Len(s), NEW last \in 1..Len(s),
         first <= last, NEW to \in 1..(Len(s) + 1), to \notin first..(last + 1)
  PROVE  MovedRows(s, first, last, to) = RO!BlockMoved(s, first, last, to)
  <1> DEFINE n == Len(s)
             moved == MovedRows(s, first, last, to)
  <1>1. n \in Nat /\ DOMAIN s = 1..n
    BY LenProperties
  <1>2. CASE to < first
    <2>1. moved = Exchanged(s, to, first, last + 1)
      BY <1>2, Zenon DEF MovedRows, Exchanged
    <2>2. /\ to \in Nat /\ first \in Nat /\ last + 1 \in Nat
          /\ 1 <= to /\ to <= first /\ first <= last + 1 /\ last + 1 <= n + 1
      BY <1>1, <1>2
    <2>3. moved = SubSeq(s, 1, to - 1) \o SubSeq(s, first, (last + 1) - 1)
                  \o SubSeq(s, to, first - 1) \o SubSeq(s, last + 1, n)
      BY <2>1, <2>2, ExchangedBlocks
    <2>4. (last + 1) - 1 = last
      OBVIOUS
    <2>5. QED
      BY <1>2, <2>3, <2>4 DEF RO!BlockMoved
  <1>3. CASE to > last + 1
    <2>1. ~(to < first)
      BY <1>3
    <2>2. moved = Exchanged(s, first, last + 1, to)
      BY <2>1, Zenon DEF MovedRows, Exchanged
    <2>3. /\ first \in Nat /\ last + 1 \in Nat /\ to \in Nat
          /\ 1 <= first /\ first <= last + 1 /\ last + 1 <= to /\ to <= n + 1
      BY <1>1, <1>3
    <2>4. moved = SubSeq(s, 1, first - 1) \o SubSeq(s, last + 1, to - 1)
                  \o SubSeq(s, first, (last + 1) - 1) \o SubSeq(s, to, n)
      BY <2>2, <2>3, ExchangedBlocks
    <2>5. (last + 1) - 1 = last
      OBVIOUS
    <2>6. QED
      BY <2>1, <2>4, <2>5 DEF RO!BlockMoved
  <1>4. QED
    BY <1>1, <1>2, <1>3

LEMMA DragRowsMoves ==
  ASSUME IInv, NEW to \in 1..(Len(rows) + 1), DragRows(to), rows' # rows
  PROVE  /\ drivers[1] \in 1..Len(rows) /\ drivers[2] \in 1..Len(rows)
         /\ drivers[1] <= drivers[2] /\ to \notin drivers[1]..(drivers[2] + 1)
         /\ rows' = MovedRows(rows, drivers[1], drivers[2], to)
  <1>1. /\ drivers[1] \in DOMAIN rows /\ drivers[2] \in DOMAIN rows
        /\ drivers[1] <= drivers[2]
    BY DEF DragRows, IInv, TypeOK, Selected
  <1>2. DOMAIN rows = 1..Len(rows)
    BY LenProperties DEF IInv, TypeOK
  <1>3. QED
    BY <1>1, <1>2 DEF DragRows

\* A drag puts the selected block where it was dropped and leaves every other
\* row where it was, for tables of any length and moves in both directions.
THEOREM DragsMoveBlocks == Spec => DragMovesBlock
  <1>1. ASSUME IInv, NEW to \in 1..(Len(rows) + 1), DragRows(to), rows' # rows
        PROVE  rows' = RO!BlockMoved(rows, drivers[1], drivers[2], to)
    <2>1. rows \in Seq(Entrants)
      BY <1>1 DEF IInv, TypeOK
    <2>2. QED
      BY <1>1, <2>1, DragRowsMoves, MovedBlock
  <1>2. IInv /\ [Next]_vars =>
            [\A to \in 1..(Len(rows) + 1) :
                (DragRows(to) /\ rows' # rows)
                   => rows' = RO!BlockMoved(rows, drivers[1], drivers[2], to)]_vars
    BY <1>1
  <1>3. QED
    BY <1>2, Invariant, PTL DEF Spec, DragMovesBlock

-----------------------------------------------------------------------------
(* Cars that wait. *)

LEMMA TableInvariant == Spec => [](IInv /\ TableIsOrder)
  BY Invariant, TableShowsOrder, PTL

LEMMA AppendIsLonger ==
  ASSUME NEW S, NEW s \in Seq(S), NEW e \in S
  PROVE  IsPrefix(s, Append(s, e)) /\ IsPrefix(s, s)
  <1> DEFINE longer == Append(s, e)
             n == Len(s)
  <1>1. /\ n \in Nat /\ \A i \in 1..n : s[i] \in S
        /\ longer \in Seq(S) /\ Len(longer) = n + 1
        /\ \A i \in 1..n : longer[i] = s[i]
    BY LenProperties, ElementOfSeq, AppendProperties
  <1> HIDE DEF longer
  <1>2. /\ SubSeq(s, 1, n) \in Seq(S) /\ Len(SubSeq(s, 1, n)) = (n + 1) - 1
        /\ \A i \in 1..((n + 1) - 1) : SubSeq(s, 1, n)[i] = s[(1 + i) - 1]
    BY <1>1, Part
  <1>3. /\ SubSeq(longer, 1, n) \in Seq(S) /\ Len(SubSeq(longer, 1, n)) = (n + 1) - 1
        /\ \A i \in 1..((n + 1) - 1) : SubSeq(longer, 1, n)[i] = longer[(1 + i) - 1]
    BY <1>1, Part
  <1> DEFINE short == SubSeq(s, 1, n)
             start == SubSeq(longer, 1, n)
  <1>4. /\ short \in Seq(S) /\ Len(short) = n /\ \A i \in 1..n : short[i] = s[i]
        /\ start \in Seq(S) /\ Len(start) = n /\ \A i \in 1..n : start[i] = longer[i]
    BY <1>1, <1>2, <1>3
  <1>5. short = start
    <2> HIDE DEF short, start
    <2>1. QED
      BY <1>1, <1>4, SeqEqual
  <1>6. QED
    BY <1>1, <1>5 DEF IsPrefix, longer

\* Adding a car to a table that is in step puts it behind the cars of its group
\* and leaves every other group alone, whatever waits in the queue.
THEOREM AdditionsKeepOrder == Spec => AddKeepsOrder
  <1> DEFINE Longer == \A k \in Keys : IsPrefix(conn.saved.order[k], conn'.saved.order[k])
  <1>1. ASSUME IInv, TableIsOrder, CarAdd, InStep
        PROVE  Longer
    <2> DEFINE car == Head(queue).car
               e == LoadEntrant(conn.view, state, car)
               order == conn.saved.order
    <2>1. car \in Cars /\ Tail(queue) \in Seq(Message) /\ (Awaits(queue) => Awaits(Tail(queue)))
      BY <1>1, MessageTaken, CarNamed DEF CarAdd, Next1
    <2>2. order \in [Keys -> Seq(Cars)] /\ state \in Keys /\ rows \in Seq(Entrants)
      BY <1>1 DEF IInv, TypeOK, ConnectionOf, Contents
    <2>3. \A k \in Keys : order[k] \in Seq(Cars)
      BY <2>2
    <2>4. CASE UNCHANGED conn
      BY <2>1, <2>3, <2>4, AppendIsLonger
    <2>5. CASE OrderLeft
      BY <2>1, <2>3, <2>5, AppendIsLonger DEF OrderLeft
    <2>6. CASE OrderStored /\ rows' = Append(rows, e)
      <3>1. e \in Entrants /\ e.car = car
        BY <2>1, LoadEntrantType DEF LoadEntrant
      <3>2. CarsOf(rows') = Append(order[state], car)
        <4>1. CarsOf(rows) = order[state]
          BY <1>1 DEF TableIsOrder
        <4> HIDE DEF e, car
        <4>2. QED
          BY <2>2, <2>6, <3>1, <4>1, CarsOfAppend
      <3>3. /\ conn'.saved.order = [order EXCEPT ![state] = Append(order[state], car)]
            \/ conn'.saved.order = order
        BY <2>6, <3>2 DEF OrderStored
      <3> HIDE DEF e, car, order
      <3>4. ASSUME NEW k \in Keys
            PROVE  conn'.saved.order[k] = order[k] \/ conn'.saved.order[k] = Append(order[k], car)
        BY <2>2, <3>3
      <3>5. QED
        BY <2>1, <2>3, <3>4, AppendIsLonger DEF order
    <2>7. /\ OrderStored \/ OrderLeft
          /\ UNCHANGED conn \/ rows' = Append(rows, e)
      <3>1. AddCar(car, Tail(queue))
        BY <1>1 DEF CarAdd
      <3>2. OrderStored \/ OrderLeft
        <4> HIDE DEF car
        <4>1. QED
          BY <1>1, <2>1, <3>1, AddCarOrders
      <3>3. UNCHANGED conn \/ rows' = Append(rows, e)
        BY <3>1 DEF AddCar
      <3>4. QED
        BY <3>2, <3>3
    <2>8. QED
      BY <2>4, <2>5, <2>6, <2>7
  <1>2. (IInv /\ TableIsOrder) /\ [Next]_vars => [(CarAdd /\ InStep) => Longer]_vars
    BY <1>1
  <1>3. QED
    BY <1>2, TableInvariant, PTL DEF Spec, AddKeepsOrder

-----------------------------------------------------------------------------
(* The table and the recorded runs. *)

ShownIn(table, data) ==
    \A i \in DOMAIN table : table[i].runs = RunsOf(data, state, table[i].car)

OneRowPerCar(table) ==
    \A i, j \in DOMAIN table : table[i].car = table[j].car => i = j

\* Rows that come from the table, or were read just now, show the runs of data
\* with the same runs.
LEMMA ShownStays ==
  ASSUME ShownIn(rows, conn.saved), NEW table, NEW data, data.runs = conn.saved.runs,
         \A i \in DOMAIN table :
            \/ \E j \in Row : table[i] = rows[j]
            \/ table[i].runs = RunsOf(conn.saved, state, table[i].car)
  PROVE  ShownIn(table, data)
  <1>1. \A car : RunsOf(data, state, car) = RunsOf(conn.saved, state, car)
    BY DEF RunsOf
  <1>2. QED
    BY <1>1 DEF ShownIn, Row

LEMMA AddCarShows ==
  ASSUME IInv, conn.auto, ShownIn(rows, conn.saved), NEW car \in Cars, NEW rest,
         AddCar(car, rest), conn'.auto
  PROVE  ShownIn(rows', conn'.saved)
  <1>1. CASE loaded /\ Ready /\ ~IsInOrder(conn.view, state, car)
    <2> DEFINE new == LoadEntrant(conn.view, state, car)
               table == Append(rows, new)
               Registered(f) == RegisterCar(conn, state[1], car, f # "registered")
    <2>1. PICK f : rows' = table /\ conn' = StoreOrder(Registered(f), table, f # "runorder")
      BY <1>1 DEF AddCar
    <2>2. new \in Entrants /\ new.runs = RunsOf(conn.saved, state, new.car)
      BY LoadEntrantType DEF LoadEntrant, IInv, Sound
    <2>3. rows \in Seq(Entrants)
      BY DEF IInv, TypeOK
    <2>4. Sound(Registered(f)) /\ Registered(f).view.runs = conn.saved.runs
      <3>1. conn.view = conn.saved /\ Sound(conn) /\ state[1] \in Events
        BY StateParts DEF IInv, Sound
      <3>2. ASSUME NEW ok \in BOOLEAN
            PROVE  LET registered == RegisterCar(conn, state[1], car, ok)
                   IN  Sound(registered) /\ registered.view.runs = conn.saved.runs
        BY <3>1, RegisterCarSound, RegisterCarOrders
      <3>3. QED
        BY <3>2
    <2> HIDE DEF new, Registered
    <2>5. /\ table \in Seq(Entrants)
          /\ DOMAIN table = 1..(Len(rows) + 1) /\ DOMAIN rows = 1..Len(rows)
          /\ Len(rows) \in Nat
          /\ \A i \in 1..Len(rows) : table[i] = rows[i]
          /\ table[Len(rows) + 1] = new
      BY <2>2, <2>3, AppendProperties, LenProperties
    <2> HIDE DEF table
    <2>6. conn'.saved.runs = conn.saved.runs
      BY <2>1, <2>4, <2>5, StoreOrderOutcome
    <2>7. \A i \in DOMAIN table : \/ \E j \in Row : table[i] = rows[j]
                                  \/ table[i].runs = RunsOf(conn.saved, state, table[i].car)
      BY <2>2, <2>5 DEF Row
    <2>8. QED
      BY <2>1, <2>6, <2>7, ShownStays
  <1>2. CASE ~(loaded /\ Ready /\ ~IsInOrder(conn.view, state, car))
    BY <1>2 DEF AddCar
  <1>3. QED
    BY <1>1, <1>2

LEMMA ReplaceCarShows ==
  ASSUME IInv, conn.auto, ShownIn(rows, conn.saved), NEW car \in Cars, NEW row \in Row,
         NEW rest, ReplaceCar(car, row, rest), conn'.auto, faults' = faults,
         OneRowPerCar(rows')
  PROVE  ShownIn(rows', conn'.saved)
  <1>1. CASE Ready
    <2> DEFINE old == rows[row]
               both == [LoadEntrant(conn.view, state, car) EXCEPT !.runs = @ \union old.runs]
               table == [rows EXCEPT ![row] = both]
               Stored(lost) == SetRuns(conn, state, car, old.runs, lost)
    <2>1. PICK f \in Fault({"runorder"}), lost \in SUBSET old.runs :
              /\ rows' = table
              /\ conn' = StoreOrder(Stored(lost), table, f # "runorder")
              /\ faults' = IF f = "none" /\ lost = {} THEN faults ELSE faults + 1
      BY <1>1 DEF ReplaceCar
    <2>2. lost = {}
      BY <2>1 DEF IInv, TypeOK
    <2>3. old \in Entrants /\ both \in Entrants /\ old.runs \in SUBSET RunNums
      <3>1. old \in Entrants
        BY RowType
      <3>2. QED
        BY <3>1, LoadEntrantType DEF Entrants
    <2>4. both.car = car /\ both.runs = RunsOf(conn.saved, state, car) \union old.runs
      <3>1. conn.view = conn.saved
        BY DEF IInv, Sound
      <3>2. QED
        BY <3>1 DEF LoadEntrant
    <2>5. /\ RunsOf(Stored({}).view, state, car) = RunsOf(conn.saved, state, car) \union old.runs
          /\ \A other \in Cars \ {car} :
                RunsOf(Stored({}).view, state, other) = RunsOf(conn.saved, state, other)
      BY <2>3, SetRunsRecords, StateParts DEF IInv
    <2>6. Sound(Stored({}))
      BY <2>3, SetRunsSound, StateParts DEF IInv
    <2>7. table \in Seq(Entrants)
      <3> HIDE DEF both
      <3>1. QED
        BY <2>3, EntrantRow
    <2>8. /\ DOMAIN table = Row /\ table[row] = both
          /\ \A i \in Row \ {row} : table[i] = rows[i]
      BY DEF Row, IInv, TypeOK
    <2> HIDE DEF both, table, Stored
    <2>9. conn'.saved.runs = Stored({}).view.runs
      BY <2>1, <2>2, <2>6, <2>7, StoreOrderOutcome
    <2>10. \A c : RunsOf(conn'.saved, state, c) = RunsOf(Stored({}).view, state, c)
      BY <2>9 DEF RunsOf
    <2>11. table[row].runs = RunsOf(conn'.saved, state, table[row].car)
      BY <2>4, <2>5, <2>8, <2>10
    <2>12. ASSUME NEW i \in Row \ {row}
           PROVE  table[i].runs = RunsOf(conn'.saved, state, table[i].car)
      <3>1. rows[i].car \in Cars
        BY RowType DEF Entrants
      <3>2. table[i].car # table[row].car
        BY <2>1, <2>8 DEF OneRowPerCar
      <3>3. rows[i].car \in Cars \ {car}
        BY <2>4, <2>8, <3>1, <3>2
      <3>4. rows[i].runs = RunsOf(conn.saved, state, rows[i].car)
        BY DEF ShownIn, Row
      <3>5. QED
        BY <2>5, <2>8, <2>10, <3>3, <3>4
    <2>13. QED
      BY <2>1, <2>8, <2>11, <2>12 DEF ShownIn
  <1>2. CASE ~Ready
    BY <1>2 DEF ReplaceCar
  <1>3. QED
    BY <1>1, <1>2

LEMMA RecordRunShows ==
  ASSUME IInv, conn.auto, ShownIn(rows, conn.saved), NEW row \in Row, NEW number \in RunNums,
         RecordRun(row, number), faults' = faults, OneRowPerCar(rows')
  PROVE  ShownIn(rows', conn'.saved)
  <1> DEFINE run == [rows[row] EXCEPT !.runs = @ \union {number}]
             Stored(lost) == SetRuns(conn, state, rows[row].car, {number}, lost)
  <1>1. PICK lost : /\ rows' = [rows EXCEPT ![row] = run]
                    /\ conn' = Stored(lost)
                    /\ faults' = IF lost = {} THEN faults ELSE faults + 1
    BY DEF RecordRun
  <1>2. lost = {}
    BY <1>1 DEF IInv, TypeOK
  <1>3. rows[row] \in Entrants /\ rows[row].car \in Cars
    <2>1. rows[row] \in Entrants
      BY RowType
    <2>2. QED
      BY <2>1 DEF Entrants
  <1>4. run.car = rows[row].car /\ run.runs = rows[row].runs \union {number}
    BY <1>3 DEF Entrants
  <1>5. /\ RunsOf(conn'.saved, state, rows[row].car)
              = RunsOf(conn.saved, state, rows[row].car) \union {number}
        /\ \A other \in Cars \ {rows[row].car} :
              RunsOf(conn'.saved, state, other) = RunsOf(conn.saved, state, other)
    <2>1. {number} \in SUBSET RunNums
      OBVIOUS
    <2>2. Sound(conn) /\ state[1] \in Events /\ state[2] \in Courses
      BY StateParts DEF IInv
    <2>3. conn' = SetRuns(conn, state, rows[row].car, {number}, {})
      BY <1>1, <1>2
    <2> DEFINE c == rows[row].car
               numbers == {number}
    <2>4. c \in Cars /\ numbers \in SUBSET RunNums /\ conn' = SetRuns(conn, state, c, numbers, {})
      BY <1>3, <2>1, <2>3
    <2> HIDE DEF c, numbers
    <2>5. /\ RunsOf(conn'.view, state, c) = RunsOf(conn.saved, state, c) \union numbers
          /\ \A other \in Cars \ {c} :
                RunsOf(conn'.view, state, other) = RunsOf(conn.saved, state, other)
          /\ conn'.saved = conn'.view
      BY <2>2, <2>4, SetRunsRecords
    <2>6. QED
      BY <2>5 DEF c, numbers
  <1>6. /\ DOMAIN rows' = Row /\ rows'[row] = run
        /\ \A i \in Row \ {row} : rows'[i] = rows[i]
    <2> HIDE DEF run
    <2>1. QED
      BY <1>1 DEF Row, IInv, TypeOK
  <1> HIDE DEF run, Stored
  <1>7. rows'[row].runs = RunsOf(conn'.saved, state, rows'[row].car)
    BY <1>4, <1>5, <1>6 DEF ShownIn, Row
  <1>8. ASSUME NEW i \in Row \ {row}
        PROVE  rows'[i].runs = RunsOf(conn'.saved, state, rows'[i].car)
    <2>1. rows[i].car \in Cars
      BY RowType DEF Entrants
    <2>2. rows[i].car # rows[row].car
      BY <1>4, <1>6 DEF OneRowPerCar
    <2>3. rows[i].runs = RunsOf(conn.saved, state, rows[i].car)
      BY DEF ShownIn, Row
    <2>4. QED
      BY <1>5, <1>6, <2>1, <2>2, <2>3
  <1>9. QED
    BY <1>6, <1>7, <1>8 DEF ShownIn

LEMMA CutRunShows ==
  ASSUME IInv, conn.auto, ShownIn(rows, conn.saved), CutRun, faults' = faults,
         OneRowPerCar(rows')
  PROVE  ShownIn(rows', conn'.saved)
  <1> DEFINE row == cell[1]
             number == cell[2]
             cut == [rows[row] EXCEPT !.runs = @ \ {number}]
             Deleted(ok) == DeleteRun(conn, state, rows[row].car, number, ok)
  <1>1. PICK f \in Fault({"runs"}) : /\ rows' = [rows EXCEPT ![row] = cut]
                                     /\ conn' = Deleted(f # "runs")
                                     /\ CountFault(f)
    BY DEF CutRun
  <1>2. f = "none"
    BY <1>1 DEF CountFault, IInv, TypeOK
  <1>3. row \in Row /\ rows[row] \in Entrants
    BY CellType, RowType DEF CutRun
  <1>4. cut.car = rows[row].car /\ cut.runs = rows[row].runs \ {number}
    BY <1>3 DEF Entrants
  <1>5. conn' = Deleted(TRUE)
    BY <1>1, <1>2
  <1> HIDE DEF row, number
  <1>6. /\ RunsOf(conn'.saved, state, rows[row].car)
              = RunsOf(conn.saved, state, rows[row].car) \ {number}
        /\ \A other \in Cars \ {rows[row].car} :
              RunsOf(conn'.saved, state, other) = RunsOf(conn.saved, state, other)
    <2> DEFINE c == rows[row].car
    <2>1. /\ Sound(conn) /\ conn.auto
          /\ state \in Keys /\ c \in Cars /\ number \in RunNums
      BY <1>3, CellType DEF IInv, TypeOK, Entrants, CutRun, number
    <2>2. conn' = RunDeleted(conn, state, c, number)
      BY <1>5 DEF RunDeleted
    <2> HIDE DEF c
    <2>3. /\ RunsOf(conn'.saved, state, c) = RunsOf(conn.saved, state, c) \ {number}
          /\ \A other \in Cars \ {c} :
                RunsOf(conn'.saved, state, other) = RunsOf(conn.saved, state, other)
      BY <2>1, <2>2, DeleteRunRecords
    <2>4. QED
      BY <2>3 DEF c
  <1>7. /\ DOMAIN rows' = Row /\ rows'[row] = cut
        /\ \A i \in Row \ {row} : rows'[i] = rows[i]
    <2> HIDE DEF cut
    <2>1. QED
      BY <1>1, <1>3 DEF Row, IInv, TypeOK
  <1> HIDE DEF cut, Deleted
  <1>8. rows'[row].runs = RunsOf(conn'.saved, state, rows'[row].car)
    BY <1>3, <1>4, <1>6, <1>7 DEF ShownIn, Row
  <1>9. ASSUME NEW i \in Row \ {row}
        PROVE  rows'[i].runs = RunsOf(conn'.saved, state, rows'[i].car)
    <2>1. rows[i].car \in Cars /\ rows[i].car # rows[row].car
      BY <1>3, <1>4, <1>7, RowType DEF OneRowPerCar, Entrants
    <2>2. rows[i].runs = RunsOf(conn.saved, state, rows[i].car)
      BY DEF ShownIn, Row
    <2>3. QED
      BY <1>6, <1>7, <2>1, <2>2
  <1>10. QED
    BY <1>7, <1>8, <1>9 DEF ShownIn

LEMMA CutRowShows ==
  ASSUME IInv, conn.auto, ShownIn(rows, conn.saved), CutRow, conn'.auto
  PROVE  ShownIn(rows', conn'.saved)
  <1> DEFINE table == Without(rows, drivers[1])
  <1>1. PICK f : rows' = table /\ conn' = StoreOrder(conn, table, f # "runorder")
    BY DEF CutRow
  <1>2. drivers[1] \in DOMAIN rows
    BY DEF CutRow, IInv, TypeOK, Selected
  <1>3. table \in Seq(Entrants)
    BY <1>2, WithoutType DEF IInv, TypeOK
  <1>4. \A i \in DOMAIN table : \E j \in Row : table[i] = rows[j]
    <2>1. Len(rows) \in Nat /\ Row = 1..Len(rows)
      BY LenProperties DEF Row, IInv, TypeOK
    <2>2. QED
      BY <1>2, <2>1 DEF Without
  <1> HIDE DEF table
  <1>5. conn'.saved.runs = conn.saved.runs
    <2>1. Sound(conn) /\ conn.view = conn.saved
      BY DEF IInv, Sound
    <2>2. ASSUME NEW ok \in BOOLEAN, conn' = StoreOrder(conn, table, ok)
          PROVE  conn'.saved.runs = conn.view.runs
      BY <1>3, <2>1, <2>2, StoreOrderOutcome
    <2>3. QED
      BY <1>1, <2>1, <2>2
  <1>6. QED
    BY <1>1, <1>4, <1>5, ShownStays

LEMMA MovedRowsAreOld ==
  ASSUME NEW table \in Seq(Entrants), NEW start \in DOMAIN table,
         NEW end \in DOMAIN table, start <= end,
         NEW to \in 1..(Len(table) + 1), to \notin start..(end + 1)
  PROVE  \A i \in DOMAIN MovedRows(table, start, end, to) :
            \E j \in DOMAIN table : MovedRows(table, start, end, to)[i] = table[j]
  <1>1. Len(table) \in Nat /\ DOMAIN table = 1..Len(table)
    BY LenProperties
  <1>2. QED
    BY <1>1, SMTT(60) DEF MovedRows

LEMMA DragRowsShows ==
  ASSUME IInv, conn.auto, ShownIn(rows, conn.saved), NEW to \in 1..(Len(rows) + 1),
         DragRows(to), conn'.auto
  PROVE  ShownIn(rows', conn'.saved)
  <1> DEFINE table == MovedRows(rows, drivers[1], drivers[2], to)
  <1>1. CASE to \in drivers[1]..(drivers[2] + 1)
    BY <1>1 DEF DragRows
  <1>2. CASE to \notin drivers[1]..(drivers[2] + 1)
    <2>1. PICK f : rows' = table /\ conn' = StoreOrder(conn, table, f # "runorder")
      BY <1>2 DEF DragRows
    <2>2. drivers[1] \in DOMAIN rows /\ drivers[2] \in DOMAIN rows /\ drivers[1] <= drivers[2]
      BY DEF DragRows, IInv, TypeOK, Selected
    <2>3. /\ table \in Seq(Entrants)
          /\ \A i \in DOMAIN table : \E j \in Row : table[i] = rows[j]
      BY <1>2, <2>2, MovedRowsType, MovedRowsAreOld DEF Row, IInv, TypeOK
    <2> HIDE DEF table
    <2>4. conn'.saved.runs = conn.saved.runs
      <3>1. Sound(conn) /\ conn.view = conn.saved
        BY DEF IInv, Sound
      <3>2. ASSUME NEW ok \in BOOLEAN, conn' = StoreOrder(conn, table, ok)
            PROVE  conn'.saved.runs = conn.view.runs
        BY <2>3, <3>1, <3>2, StoreOrderOutcome
      <3>3. QED
        BY <2>1, <3>1, <3>2
    <2>5. QED
      BY <2>1, <2>3, <2>4, ShownStays
  <1>3. QED
    BY <1>1, <1>2

\* A step during which autocommit stays on and no statement fails shows what it
\* records, or loads the table again, now or by a message.
LEMMA NextShows ==
  ASSUME IInv, conn.auto, ShownIn(rows, conn.saved), [Next]_vars,
         conn'.auto, faults' = faults, OneRowPerCar(rows')
  PROVE  \/ ShownIn(rows', conn'.saved)
         \/ RunGroupChanged \/ ReloadPending \/ Restart
  <1>1. CASE rows' = rows /\ conn' = conn
    BY <1>1 DEF ShownIn
  <1>2. CASE Deliver
    <2>1. CASE EventChanged \/ CarsReloaded \/ ObjectClicked
      BY <1>1, <2>1 DEF EventChanged, CarsReloaded, ObjectClicked, tableVars
    <2>2. CASE CarAdd \/ CarChange \/ BarcodeScanned
      <3>1. Head(queue).car \in Cars
        BY <2>2, HeadType, CarNamed DEF CarAdd, CarChange, BarcodeScanned, Next1, IInv
      <3>2. drivers # NoRows => drivers[1] \in Row
        BY DEF IInv, TypeOK, Selected, Row
      <3>3. \/ \E car \in Cars : AddCar(car, Tail(queue))
            \/ drivers # NoRows /\ ReplaceCar(Head(queue).car, drivers[1], Tail(queue))
            \/ rows' = rows /\ conn' = conn
        BY <2>2, <3>1 DEF CarAdd, CarChange, BarcodeScanned, tableVars
      <3>4. QED
        BY <1>1, <3>1, <3>2, <3>3, AddCarShows, ReplaceCarShows
    <2>3. QED
      BY <1>2, <2>1, <2>2 DEF Deliver
  <1>3. CASE Selecting
    BY <1>3, SelectingOrders
  <1>4. CASE Ordering
    <2>1. CASE \/ \E driver \in Drivers : PickDriver(driver)
               \/ \E car \in Cars : PickCar(car) \/ SendAdd(car) \/ AddNewCar(car) \/ Scan(car)
               \/ ClickAdd \/ ClickSwap
               \/ \E first, last \in Row : SelectRows(first, last)
               \/ \E row \in Row, car \in Cars : MenuSwap(row, car)
      BY <1>1, <2>1 DEF PickDriver, PickCar, SendAdd, AddNewCar, Scan, ClickAdd, ClickSwap,
                        SelectRows, MenuSwap, tableVars
    <2>2. ASSUME NEW row \in Row, MarkPaid(row)
          PROVE  ReloadPending
      <3> DEFINE Registered(ok) == RegisterCar(conn, state[1], rows[row].car, ok)
      <3>1. PICK f \in Fault({"registered"}) :
                /\ conn' = Registered(f # "registered")
                /\ Post(IF f = "none" THEN <<Tell("RUNGROUP_CHANGED")>> ELSE <<>>)
                /\ CountFault(f)
        BY <2>2 DEF MarkPaid
      <3>2. f = "none"
        BY <3>1 DEF CountFault, IInv, TypeOK
      <3>3. Awaits(queue')
        BY <3>1, <3>2, ReloadMessages, PostAwaits
      <3>4. conn'.saved.order = conn.saved.order /\ conn'.auto = conn.auto
        <4>1. rows[row].car \in Cars
          BY RowType DEF Entrants
        <4>2. \A ok \in BOOLEAN : Registered(ok).saved.order = conn.saved.order
          BY <4>1, RegisterCarOrders, StateParts DEF IInv
        <4>3. QED
          BY <3>1, <4>2
      <3>5. QED
        BY <3>3, <3>4 DEF ReloadPending
    <2>3. QED
      BY <1>4, <2>1, <2>2, CutRowShows, DragRowsShows DEF Ordering
  <1>5. CASE Timing
    <2>1. ASSUME NEW row \in Row, NEW number \in RunNums, SelectCell(row, number)
          PROVE  rows' = rows /\ conn' = conn
      BY <2>1 DEF SelectCell
    <2>2. CASE EnterTime \/ PasteRun
      BY <2>2, CellType, RecordRunShows DEF EnterTime, PasteRun
    <2>3. QED
      BY <1>1, <1>5, <2>1, <2>2, CutRunShows, TextRunsOrders DEF Timing
  <1>6. CASE UNCHANGED vars
    BY <1>1, <1>6 DEF vars, tableVars
  <1>7. QED
    BY <1>2, <1>3, <1>4, <1>5, <1>6 DEF Next

\* Swapped, cut, dragged and retyped rows take their runs along: the table
\* goes on showing the recorded runs while no statement and no update of the
\* order fails.
THEOREM TableShowsRuns == Spec => TableKeepsRuns
  <1> DEFINE Before == TableIsRuns /\ conn.auto /\ faults' = faults
             All == IInv /\ TableIsOrder
  <1>1. All /\ All' /\ [Next]_vars => [Before => TableIsRuns']_vars
    <2> SUFFICES ASSUME IInv, IInv', TableIsOrder', [Next]_vars, Before, InStep'
                 PROVE  TableIsRuns'
      BY DEF TableIsRuns
    <2>1. loaded' /\ conn'.auto /\ ~Awaits(queue')
      BY DEF InStep, Pending, Awaits
    <2>2. CASE RunGroupChanged
      <3>1. /\ rows' = EntrantsByRunOrder(conn.saved, state)
            /\ state' = state /\ conn' = conn
        BY <2>1, <2>2 DEF RunGroupChanged, IInv, Sound
      <3>2. QED
        BY <3>1 DEF EntrantsByRunOrder, LoadEntrant, TableIsRuns, Row
    <2>3. CASE ReloadPending \/ Restart
      BY <2>1, <2>3 DEF ReloadPending, Restart
    <2>4. CASE (OrderStored \/ OrderLeft) /\ ~(RunGroupChanged \/ ReloadPending \/ Restart)
      <3>1. state' = state /\ InStep
        BY <2>1, <2>4 DEF OrderStored, OrderLeft, InStep, Pending, Awaits
      <3>2. ShownIn(rows, conn.saved)
        BY <3>1 DEF TableIsRuns, ShownIn, Row
      <3>3. OneRowPerCar(rows')
        <4>1. CarsOf(rows') = conn'.saved.order[state']
          BY DEF TableIsOrder
        <4>2. IsInjective(CarsOf(rows'))
          BY <4>1 DEF IInv, TypeOK, Sound, OneEntryPerCourse
        <4>3. QED
          BY <4>2 DEF IsInjective, CarsOf, OneRowPerCar
      <3>4. ShownIn(rows', conn'.saved)
        BY <2>1, <2>4, <3>2, <3>3, NextShows
      <3>5. QED
        BY <3>1, <3>4 DEF TableIsRuns, ShownIn, Row
    <2>5. QED
      BY <2>2, <2>3, <2>4, NextOrders
  <1>2. Spec => []All
    BY TableInvariant
  <1>3. QED
    BY <1>1, <1>2, PTL DEF Spec, TableKeepsRuns

-----------------------------------------------------------------------------
(* The order of the group when a row is cut, replaced or moved. *)

LEMMA CarsOfReplaced ==
  ASSUME NEW table \in Seq(Entrants), NEW row \in DOMAIN table, NEW e \in Entrants
  PROVE  CarsOf([table EXCEPT ![row] = e]) = [CarsOf(table) EXCEPT ![row] = e.car]
  BY DEF CarsOf

LEMMA WithoutRemoves ==
  ASSUME NEW S, NEW s \in Seq(S), NEW i \in 1..Len(s)
  PROVE  Without(s, i) = RemoveAt(s, i)
  <1> DEFINE n == Len(s)
             k == i - 1
             m == n - 1
             p == SubSeq(s, 1, k)
             q == SubSeq(s, i + 1, n)
             short == Without(s, i)
  <1>1. n \in Nat /\ k \in Nat /\ m \in Nat /\ \A j \in 1..n : s[j] \in S
    BY LenProperties, ElementOfSeq
  <1>2. p \in Seq(S) /\ Len(p) = k /\ \A j \in 1..k : p[j] = s[j]
    <2>1. /\ p \in Seq(S) /\ Len(p) = (k + 1) - 1
          /\ \A j \in 1..((k + 1) - 1) : p[j] = s[(1 + j) - 1]
      BY <1>1, Part
    <2> HIDE DEF p
    <2>2. QED
      BY <1>1, <2>1
  <1>3. q \in Seq(S) /\ Len(q) = n - i /\ \A j \in 1..(n - i) : q[j] = s[i + j]
    <2>1. /\ q \in Seq(S) /\ Len(q) = (n + 1) - (i + 1)
          /\ \A j \in 1..((n + 1) - (i + 1)) : q[j] = s[((i + 1) + j) - 1]
      BY <1>1, Part
    <2> HIDE DEF q
    <2>2. QED
      BY <1>1, <2>1
  <1> HIDE DEF p, q
  <1>4. m = k + Len(q)
    BY <1>1, <1>3
  <1>5. /\ p \o q \in Seq(S) /\ Len(p \o q) = m
        /\ \A j \in 1..m : (p \o q)[j] = IF j <= k THEN p[j] ELSE q[j - k]
    <2>1. p \in Seq(S) /\ q \in Seq(S) /\ k = Len(p) /\ m = k + Len(q)
      BY <1>2, <1>3, <1>4
    <2> HIDE DEF m, k
    <2>2. QED
      BY <2>1, Joined
  <1>6. short = [j \in 1..m |-> IF j < i THEN s[j] ELSE s[j + 1]]
    BY DEF Without
  <1>7. ASSUME NEW j \in 1..m
        PROVE  short[j] = (p \o q)[j]
    <2>1. CASE j < i
      <3>1. j \in 1..k
        BY <1>1, <2>1
      <3>2. short[j] = s[j] /\ (p \o q)[j] = p[j]
        BY <1>5, <1>6, <2>1, <3>1
      <3>3. QED
        BY <1>2, <3>1, <3>2
    <2>2. CASE ~(j < i)
      <3>1. j - k \in 1..(n - i) /\ i + (j - k) = j + 1 /\ ~(j <= k)
        BY <1>1, <2>2
      <3>2. short[j] = s[j + 1] /\ (p \o q)[j] = q[j - k]
        BY <1>5, <1>6, <2>2, <3>1
      <3>3. QED
        BY <1>3, <3>1, <3>2
    <2>3. QED
      BY <2>1, <2>2
  <1>8. short \in Seq(S) /\ Len(short) = m
    <2>1. short \in [1..m -> S]
      BY <1>1, <1>6
    <2> HIDE DEF m, short
    <2>2. short \in Seq(S)
      BY <1>1, <2>1, SeqDef
    <2>3. QED
      BY <1>1, <2>1, <2>2, LenProperties
  <1> HIDE DEF m, short
  <1>9. short = p \o q
    BY <1>5, <1>7, <1>8, SeqEqual
  <1>10. QED
    BY <1>9 DEF short, p, q, RemoveAt

\* Some of the cars of s, each of them once.
Shuffled(s, cars) ==
    /\ cars \in Seq(Cars) /\ IsInjective(cars)
    /\ \A i \in DOMAIN cars : \E j \in DOMAIN s : cars[i] = s[j]

LEMMA WithoutKeepsOnce ==
  ASSUME NEW s \in Seq(Cars), NEW i \in 1..Len(s), IsInjective(s)
  PROVE  Shuffled(s, Without(s, i))
  <1> DEFINE n == Len(s)
             short == Without(s, i)
  <1>1. n \in Nat /\ DOMAIN s = 1..n /\ n - 1 \in Nat /\ \A j \in 1..n : s[j] \in Cars
    BY LenProperties, ElementOfSeq
  <1>2. /\ DOMAIN short = 1..(n - 1)
        /\ \A j \in 1..(n - 1) : short[j] = IF j < i THEN s[j] ELSE s[j + 1]
    BY DEF Without
  <1>3. short \in [1..(n - 1) -> Cars]
    BY <1>1 DEF Without
  <1>4. short \in Seq(Cars)
    BY <1>1, <1>3, SeqDef
  <1> HIDE DEF short, Shuffled
  <1> DEFINE At(j) == IF j < i THEN j ELSE j + 1
  <1>5. \A j \in 1..(n - 1) : At(j) \in 1..n /\ short[j] = s[At(j)]
    BY <1>1, <1>2
  <1>6. \A j, k \in 1..(n - 1) : At(j) = At(k) => j = k
    BY <1>1
  <1> HIDE DEF At
  <1>7. IsInjective(short)
    BY <1>1, <1>2, <1>5, <1>6 DEF IsInjective
  <1>8. \A j \in DOMAIN short : \E k \in DOMAIN s : short[j] = s[k]
    <2> SUFFICES ASSUME NEW j \in DOMAIN short
                 PROVE  \E k \in DOMAIN s : short[j] = s[k]
      OBVIOUS
    <2>1. CASE j < i
      BY <1>1, <1>2, <2>1
    <2>2. CASE ~(j < i)
      <3>1. j + 1 \in DOMAIN s /\ short[j] = s[j + 1]
        BY <1>1, <1>2, <2>2
      <3>2. QED
        BY <3>1
    <2>3. QED
      BY <2>1, <2>2
  <1>9. QED
    BY <1>4, <1>7, <1>8 DEF short, Shuffled

LEMMA CarsOfWithout ==
  ASSUME NEW table \in Seq(Entrants), NEW row \in 1..Len(table)
  PROVE  CarsOf(Without(table, row)) = Without(CarsOf(table), row)
  <1>1. /\ Len(table) \in Nat /\ DOMAIN table = 1..Len(table)
        /\ CarsOf(table) \in Seq(Cars) /\ Len(CarsOf(table)) = Len(table)
    <2>1. Len(table) \in Nat /\ DOMAIN table = 1..Len(table) /\ CarsOf(table) \in Seq(Cars)
      BY LenProperties, CarsOfType
    <2>2. DOMAIN CarsOf(table) = 1..Len(table)
      BY <2>1 DEF CarsOf
    <2>3. QED
      BY <2>1, <2>2, LenProperties
  <1>2. QED
    BY <1>1 DEF CarsOf, Without

LEMMA MovedKeepsOnce ==
  ASSUME NEW s \in Seq(Cars), IsInjective(s),
         NEW first \in 1..Len(s), NEW last \in 1..Len(s), first <= last,
         NEW to \in 1..(Len(s) + 1), to \notin first..(last + 1)
  PROVE  Shuffled(s, MovedRows(s, first, last, to))
  <1> DEFINE n == Len(s)
             moved == MovedRows(s, first, last, to)
  <1>1. n \in Nat /\ DOMAIN s = 1..n /\ \A i \in 1..n : s[i] \in Cars
    BY LenProperties, ElementOfSeq
  <1>2. moved \in [1..n -> Cars]
    BY <1>1, SMTT(60) DEF MovedRows
  <1>3. PICK a \in 1..n, b \in 1..n, c \in 1..(n + 1) : a < b /\ b < c
          /\ moved = Exchanged(s, a, b, c)
    <2>1. CASE to < first
      <3>1. moved = Exchanged(s, to, first, last + 1)
        BY <2>1, Zenon DEF MovedRows, Exchanged
      <3>2. to \in 1..n /\ last + 1 \in 1..(n + 1) /\ first < last + 1
        BY <1>1, <2>1
      <3>3. QED
        BY <2>1, <3>1, <3>2
    <2>2. CASE ~(to < first)
      <3>1. moved = Exchanged(s, first, last + 1, to)
        BY <2>2, Zenon DEF MovedRows, Exchanged
      <3>2. last + 1 \in 1..n /\ first < last + 1 /\ last + 1 < to
        BY <1>1, <2>2
      <3>3. QED
        BY <3>1, <3>2
    <2>3. QED
      BY <2>1, <2>2
  <1> HIDE DEF moved
  <1> DEFINE x == a + (c - b)
             At(i) == IF i \in a..(x - 1) THEN i - a + b
                      ELSE IF i \in x..(c - 1) THEN i - x + a ELSE i
  <1>4. \A i \in 1..n : moved[i] = s[At(i)]
    BY <1>1, <1>3 DEF Exchanged
  <1>5. \A i \in 1..n : At(i) \in 1..n
    BY <1>1, <1>3
  <1>6. \A i, j \in 1..n : At(i) = At(j) => i = j
    BY <1>1, <1>3
  <1> HIDE DEF At
  <1>7. IsInjective(moved)
    BY <1>1, <1>2, <1>4, <1>5, <1>6 DEF IsInjective
  <1>8. \A i \in DOMAIN moved : \E j \in DOMAIN s : moved[i] = s[j]
    BY <1>1, <1>2, <1>4, <1>5
  <1>9. moved \in Seq(Cars)
    BY <1>1, <1>2, SeqDef
  <1>10. QED
    BY <1>7, <1>8, <1>9 DEF Shuffled, moved

LEMMA CarsOfMoved ==
  ASSUME NEW table \in Seq(Entrants), NEW first \in 1..Len(table), NEW last \in 1..Len(table),
         first <= last, NEW to \in 1..(Len(table) + 1), to \notin first..(last + 1)
  PROVE  CarsOf(MovedRows(table, first, last, to)) = MovedRows(CarsOf(table), first, last, to)
  <1>1. Len(table) \in Nat /\ DOMAIN table = 1..Len(table)
    BY LenProperties
  <1>2. QED
    BY <1>1, SMTT(60) DEF CarsOf, MovedRows

-----------------------------------------------------------------------------
(* When the user waits for the display and no statement fails, every action  *)
(* starts from a queue that earlier ones have left in one of a few shapes.    *)

Undisturbed == Patient = TRUE /\ MaxFaults = 0

\* What one action of the user, or the start, leaves in the queue.
ReloadLeft == {OpenSeries, Tail(OpenSeries), <<Tell("RUNGROUP_CHANGED")>>}

Alone == {"ENTRANTS_CHANGED", "OBJECT_CLICKED", "CAR_ADD", "CAR_CHANGE", "BARCODE_SCANNED"}

QueueCalm ==
    \/ queue = <<>>
    \/ queue \in ReloadLeft
    \/ \E m \in Message : m.type \in Alone /\ queue = <<m>>
    \/ \E m, n \in Message : /\ m.type = "OBJECT_CLICKED" /\ n.type = "CAR_CHANGE"
                             /\ queue = <<m, n>>

\* The list of cars tells which of them are on the course, or is about to be
\* loaded again.
PanelCalm ==
    /\ panel.car # NoCar => panel.car \in panel.listed
    /\ panel.used \subseteq panel.listed
    /\ \/ Pending("COURSE_CHANGED") \/ Pending("ENTRANTS_CHANGED")
       \/ panel.used = {c \in panel.listed : IsInOrder(conn.view, state, c)}

\* A car that is to be swapped in is not on the course.
SwapCalm ==
    \A i \in DOMAIN queue :
        queue[i].type = "CAR_CHANGE" => ~IsInOrder(conn.view, state, queue[i].car)

Calm == conn.auto /\ (loaded \/ rows = <<>>) /\ QueueCalm /\ PanelCalm /\ SwapCalm

LEMMA NoFault ==
  ASSUME IInv, Undisturbed
  PROVE  /\ ~(faults < MaxFaults)
         /\ \A places : Fault(places) = {"none"}
  BY DEF IInv, TypeOK, Fault, Undisturbed

\* What is left when the first message has been taken.
LEMMA CalmHead ==
  ASSUME IInv, QueueCalm, queue # <<>>
  PROVE  /\ Head(queue).type \in {"CAR_ADD", "CAR_CHANGE", "BARCODE_SCANNED", "ENTRANTS_CHANGED"}
               => queue = <<Head(queue)>>
         /\ Head(queue).type = "RUNGROUP_CHANGED" => queue = <<Tell("RUNGROUP_CHANGED")>>
         /\ Head(queue).type = "COURSE_CHANGED" => queue = Tail(OpenSeries)
         /\ Head(queue).type = "EVENT_CHANGED" => queue = OpenSeries
         /\ Head(queue).type = "OBJECT_CLICKED"
               => \/ queue = <<Head(queue)>>
                  \/ \E n \in Message : n.type = "CAR_CHANGE" /\ queue = <<Head(queue), n>>
  <1>1. CASE queue \in ReloadLeft
    BY <1>1 DEF ReloadLeft, OpenSeries, Tell
  <1>2. ASSUME NEW m \in Message, m.type \in Alone, queue = <<m>>
        PROVE  Head(queue) = m /\ queue = <<Head(queue)>>
    BY <1>2
  <1>3. ASSUME NEW m \in Message, NEW n \in Message, m.type = "OBJECT_CLICKED",
               n.type = "CAR_CHANGE", queue = <<m, n>>
        PROVE  Head(queue).type = "OBJECT_CLICKED" /\ queue = <<Head(queue), n>>
    BY <1>3
  <1>4. CASE \E m \in Message : m.type \in Alone /\ queue = <<m>>
    BY <1>2, <1>4 DEF Alone
  <1>5. CASE \E m, n \in Message : /\ m.type = "OBJECT_CLICKED" /\ n.type = "CAR_CHANGE"
                                   /\ queue = <<m, n>>
    BY <1>3, <1>5
  <1>6. QED
    BY <1>1, <1>4, <1>5 DEF QueueCalm

LEMMA SingleTail ==
  ASSUME NEW m, NEW n
  PROVE  Tail(<<m>>) = <<>> /\ Tail(<<m, n>>) = <<n>>
  OBVIOUS

LEMMA CourseSame ==
  ASSUME IInv, IInv', conn'.saved.order = conn.saved.order,
         state'[1] = state[1], state'[2] = state[2], NEW car
  PROVE  IsInOrder(conn'.view, state', car) <=> IsInOrder(conn.view, state, car)
  BY DEF IInv, Sound, IsInOrder

\* An action that stores no order, and what it has to keep.
LEMMA CalmKept ==
  ASSUME IInv, IInv', Calm, conn'.auto, conn'.saved.order = conn.saved.order,
         state'[1] = state[1], state'[2] = state[2],
         loaded' \/ rows' = <<>>, QueueCalm',
         panel'.car # NoCar => panel'.car \in panel'.listed,
         panel'.used \subseteq panel'.listed,
         \/ Pending("COURSE_CHANGED")' \/ Pending("ENTRANTS_CHANGED")'
         \/ panel'.used = {c \in panel'.listed : IsInOrder(conn.view, state, c)},
         \A i \in DOMAIN queue' :
            queue'[i].type = "CAR_CHANGE" => ~IsInOrder(conn.view, state, queue'[i].car)
  PROVE  Calm'
  <1>1. \A car : IsInOrder(conn'.view, state', car) <=> IsInOrder(conn.view, state, car)
    BY CourseSame
  <1>2. PanelCalm' /\ SwapCalm'
    BY <1>1 DEF PanelCalm, SwapCalm
  <1>3. QED
    BY <1>2 DEF Calm

\* An action that leaves only messages to load things again, the cars of the
\* driver among them.
LEMMA CalmReloads ==
  ASSUME conn'.auto, loaded' \/ rows' = <<>>,
         panel'.car # NoCar => panel'.car \in panel'.listed,
         panel'.used \subseteq panel'.listed,
         \/ queue' = OpenSeries \/ queue' = Tail(OpenSeries)
         \/ queue' = <<Tell("ENTRANTS_CHANGED")>>
  PROVE  Calm'
  <1>1. CASE queue' = OpenSeries
    <2>1. DOMAIN queue' = 1..3 /\ queue'[2].type = "COURSE_CHANGED"
          /\ \A i \in 1..3 : queue'[i].type # "CAR_CHANGE"
      BY <1>1 DEF OpenSeries, Tell
    <2>2. QueueCalm'
      BY <1>1, Zenon DEF QueueCalm, ReloadLeft
    <2>3. QED
      BY <2>1, <2>2 DEF Calm, PanelCalm, SwapCalm, Pending
  <1>2. CASE queue' = Tail(OpenSeries)
    <2>1. DOMAIN queue' = 1..2 /\ queue'[1].type = "COURSE_CHANGED"
          /\ \A i \in 1..2 : queue'[i].type # "CAR_CHANGE"
      BY <1>2 DEF OpenSeries, Tell
    <2>2. QueueCalm'
      BY <1>2, Zenon DEF QueueCalm, ReloadLeft
    <2>3. QED
      BY <2>1, <2>2 DEF Calm, PanelCalm, SwapCalm, Pending
  <1>3. CASE queue' = <<Tell("ENTRANTS_CHANGED")>>
    <2>1. DOMAIN queue' = 1..1 /\ queue'[1].type = "ENTRANTS_CHANGED"
      BY <1>3 DEF Tell
    <2>2. QueueCalm'
      BY <1>3, TellType DEF QueueCalm, Alone, Tell
    <2>3. QED
      BY <2>1, <2>2 DEF Calm, PanelCalm, SwapCalm, Pending
  <1>4. QED
    BY <1>1, <1>2, <1>3

-----------------------------------------------------------------------------
(* Steps of the abstract order. *)

OrderStep == conn'.auto /\ [RO!Next]_(conn.saved.order)

\* The order of the selected group is now cars.
OrderBecomes(cars) ==
    conn'.auto /\ conn'.saved.order = [conn.saved.order EXCEPT ![state] = cars]

StoredOrder(c, table) == StoreOrder(c, table, TRUE)

LEMMA OrderAccepted ==
  ASSUME IInv, NEW c, Sound(c), c.auto, c.saved.order = conn.saved.order,
         NEW table \in Seq(Entrants),
         OneEntryPerCourse([conn.saved.order EXCEPT ![state] = CarsOf(table)]),
         conn' = StoredOrder(c, table)
  PROVE  OrderBecomes(CarsOf(table))
  <1>1. state \in Keys /\ CarsOf(table) \in Seq(Cars) /\ c.view.order = conn.saved.order /\ ~c.aborted
    BY CarsOfType DEF IInv, TypeOK, Sound
  <1>2. conn' = SetRunOrder(c, state, CarsOf(table), TRUE)
    BY DEF StoredOrder, StoreOrder
  <1>3. conn'.auto
    BY <1>1, <1>2, SetRunOrderStores
  <1>4. \/ conn'.saved.order = [c.saved.order EXCEPT ![state] = CarsOf(table)]
        \/ ~conn'.auto
    <2>1. ASSUME NEW ok \in BOOLEAN, NEW r, r = StoreOrder(c, table, ok)
          PROVE  r.saved.order = [c.saved.order EXCEPT ![state] = CarsOf(table)] \/ ~r.auto
      BY <2>1, StoreOrderOutcome
    <2>2. QED
      BY <2>1 DEF StoredOrder
  <1>5. QED
    BY <1>3, <1>4 DEF OrderBecomes

LEMMA SelectedOrder ==
  ASSUME IInv
  PROVE  /\ conn.saved.order \in [Keys -> Seq(Cars)] /\ state \in Keys
         /\ state \in RO!OrderKeys
         /\ conn.saved.order[state] \in Seq(Cars)
         /\ OneEntryPerCourse(conn.saved.order) /\ IsInjective(conn.saved.order[state])
         /\ \A car : ~IsInOrder(conn.view, state, car)
               => \A g \in Groups : ~Contains(conn.saved.order[<<state[1], state[2], g>>], car)
  <1>1. conn.saved.order \in [Keys -> Seq(Cars)] /\ state \in Keys
    BY DEF IInv, TypeOK, ConnectionOf, Contents
  <1>2. QED
    BY <1>1 DEF IInv, Sound, IsInOrder, OneEntryPerCourse, RO!OrderKeys, Keys

LEMMA AddStep ==
  ASSUME IInv, NEW car \in Cars, ~IsInOrder(conn.view, state, car),
         OrderBecomes(Append(conn.saved.order[state], car))
  PROVE  OrderStep
  <1>1. state \in RO!OrderKeys /\ RO!Free(state, car)
    BY SelectedOrder DEF RO!Free, RO!Contains, Contains
  <1>2. RO!Add(state, car)
    BY <1>1 DEF RO!Add, OrderBecomes
  <1>3. QED
    BY <1>1, <1>2 DEF RO!Next, OrderStep, OrderBecomes

LEMMA ReplaceStep ==
  ASSUME IInv, NEW i \in DOMAIN conn.saved.order[state], NEW car \in Cars,
         ~IsInOrder(conn.view, state, car),
         OrderBecomes([conn.saved.order[state] EXCEPT ![i] = car])
  PROVE  OrderStep
  <1>1. state \in RO!OrderKeys /\ RO!Free(state, car)
    BY SelectedOrder DEF RO!Free, RO!Contains, Contains
  <1>2. RO!Replace(state, i, car)
    BY <1>1 DEF RO!Replace, OrderBecomes
  <1>3. QED
    BY <1>1, <1>2 DEF RO!Next, OrderStep, OrderBecomes

LEMMA TakeOutStep ==
  ASSUME IInv, NEW i \in DOMAIN conn.saved.order[state],
         OrderBecomes(RemoveAt(conn.saved.order[state], i))
  PROVE  OrderStep
  <1>1. state \in RO!OrderKeys
    BY SelectedOrder
  <1>2. RO!TakeOut(state, i)
    BY DEF RO!TakeOut, RO!RemoveAt, RemoveAt, OrderBecomes
  <1>3. QED
    BY <1>1, <1>2 DEF RO!Next, OrderStep, OrderBecomes

LEMMA MoveStep ==
  ASSUME IInv,
         NEW first \in DOMAIN conn.saved.order[state], NEW last \in DOMAIN conn.saved.order[state],
         first <= last, NEW to \in 1..(Len(conn.saved.order[state]) + 1),
         to \notin first..(last + 1),
         OrderBecomes(RO!BlockMoved(conn.saved.order[state], first, last, to))
  PROVE  OrderStep
  <1>1. state \in RO!OrderKeys
    BY SelectedOrder
  <1>2. RO!Move(state, first, last, to)
    BY DEF RO!Move, OrderBecomes
  <1>3. QED
    BY <1>1, <1>2 DEF RO!Next, OrderStep, OrderBecomes

-----------------------------------------------------------------------------
(* Actions that change the order. *)

LEMMA AddCarImplements ==
  ASSUME IInv, Calm, TableIsOrder, Undisturbed, ~Pending("RUNGROUP_CHANGED"),
         NEW car \in Cars, AddCar(car, <<>>), loaded /\ ~IsInOrder(conn.view, state, car)
  PROVE  OrderStep /\ queue' = <<Tell("ENTRANTS_CHANGED")>> /\ UNCHANGED <<state, loaded, panel>>
  <1> DEFINE new == LoadEntrant(conn.view, state, car)
             table == Append(rows, new)
             Registered(ok) == RegisterCar(conn, state[1], car, ok)
  <1>1. Ready
    BY DEF Ready, IInv, Sound, Calm
  <1>2. PICK f \in Fault({"registered", "runorder"}) :
            /\ conn' = StoreOrder(Registered(f # "registered"), table, f # "runorder")
            /\ queue' = Append(<<>>, Tell("ENTRANTS_CHANGED"))
    BY <1>1 DEF AddCar
  <1>3. f = "none"
    BY NoFault
  <1>4. new \in Entrants /\ new.car = car
    BY LoadEntrantType DEF LoadEntrant
  <1>5. table \in Seq(Entrants) /\ CarsOf(table) = Append(CarsOf(rows), car)
    <2>1. rows \in Seq(Entrants)
      BY DEF IInv, TypeOK
    <2> HIDE DEF new
    <2>2. QED
      BY <1>4, <2>1, CarsOfAppend, AppendProperties
  <1>6. CarsOf(rows) = conn.saved.order[state]
    BY DEF TableIsOrder, InStep, Calm
  <1>7. ASSUME NEW ok \in BOOLEAN
        PROVE  Sound(Registered(ok)) /\ Registered(ok).auto
               /\ Registered(ok).saved.order = conn.saved.order
    <2>1. Sound(Registered(ok)) /\ Registered(ok).saved.order = conn.saved.order
      BY RegisterCarSound, RegisterCarOrders, StateParts DEF IInv
    <2>2. Registered(ok).auto = conn.auto
      BY DEF RegisterCar, Execute, IInv, TypeOK, ConnectionOf
    <2>3. QED
      BY <2>1, <2>2 DEF Calm
  <1>8. OneEntryPerCourse([conn.saved.order EXCEPT ![state] = CarsOf(table)])
    <2> HIDE DEF table
    <2>1. QED
      BY <1>5, <1>6, SelectedOrder, AppendMeetsConstraint
  <1> HIDE DEF new, table, Registered
  <1>9. PICK ok \in BOOLEAN : conn' = StoredOrder(Registered(ok), table)
    BY <1>2, <1>3 DEF StoredOrder
  <1>10. OrderBecomes(CarsOf(table))
    BY <1>5, <1>7, <1>8, <1>9, OrderAccepted
  <1>11. OrderStep
    BY <1>5, <1>6, <1>10, AddStep
  <1>12. QED
    BY <1>2, <1>11 DEF AddCar

LEMMA ReplaceCarImplements ==
  ASSUME IInv, Calm, TableIsOrder, Undisturbed, ~Pending("RUNGROUP_CHANGED"),
         NEW car \in Cars, NEW row \in Row, ReplaceCar(car, row, <<>>),
         ~IsInOrder(conn.view, state, car)
  PROVE  /\ OrderStep /\ queue' = <<Tell("ENTRANTS_CHANGED")>>
         /\ UNCHANGED <<state, loaded, panel>> /\ loaded
  <1> DEFINE old == rows[row]
             both == [LoadEntrant(conn.view, state, car) EXCEPT !.runs = @ \union old.runs]
             table == [rows EXCEPT ![row] = both]
             Stored(lost) == SetRuns(conn, state, car, old.runs, lost)
  <1>1. Ready
    BY DEF Ready, IInv, Sound, Calm
  <1>2. PICK f \in Fault({"runorder"}), lost \in SUBSET old.runs :
            /\ lost # {} => f = "none" /\ faults < MaxFaults
            /\ conn' = StoreOrder(Stored(lost), table, f # "runorder")
            /\ queue' = Append(<<>>, Tell("ENTRANTS_CHANGED"))
    BY <1>1 DEF ReplaceCar
  <1>3. f = "none" /\ lost = {}
    BY <1>2, NoFault
  <1>4. loaded
    <2>1. rows # <<>>
      BY RowType DEF IInv, TypeOK
    <2>2. QED
      BY <2>1 DEF Calm
  <1>5. CarsOf(rows) = conn.saved.order[state]
    BY <1>4 DEF TableIsOrder, InStep, Calm
  <1>6. old \in Entrants /\ both \in Entrants /\ both.car = car /\ old.runs \in SUBSET RunNums
    <2>1. old \in Entrants
      BY RowType
    <2>2. QED
      BY <2>1, LoadEntrantType DEF Entrants, LoadEntrant
  <1>7. /\ table \in Seq(Entrants)
        /\ CarsOf(table) = [conn.saved.order[state] EXCEPT ![row] = car]
    <2> HIDE DEF both
    <2>1. rows \in Seq(Entrants) /\ row \in DOMAIN rows
      BY DEF IInv, TypeOK, Row
    <2>2. QED
      BY <1>5, <1>6, <2>1, EntrantRow, CarsOfReplaced
  <1>8. row \in DOMAIN conn.saved.order[state]
    BY <1>5 DEF CarsOf, Row
  <1>9. /\ Sound(Stored({})) /\ Stored({}).auto
        /\ Stored({}).saved.order = conn.saved.order
    <2>1. Sound(Stored({})) /\ Stored({}).saved.order = conn.saved.order
      BY <1>6, SetRunsSound, SetRunsOrders, StateParts DEF IInv
    <2>2. Stored({}).auto = conn.auto
      BY DEF SetRuns, Execute, IInv, TypeOK, ConnectionOf
    <2>3. QED
      BY <2>1, <2>2 DEF Calm
  <1> HIDE DEF both, table, Stored
  <1>10. OneEntryPerCourse([conn.saved.order EXCEPT ![state] = CarsOf(table)])
    <2>1. /\ conn.saved.order \in [Keys -> Seq(Cars)] /\ state \in Keys
          /\ OneEntryPerCourse(conn.saved.order)
          /\ \A g \in Groups : ~Contains(conn.saved.order[<<state[1], state[2], g>>], car)
      BY SelectedOrder
    <2>2. OneEntryPerCourse([conn.saved.order EXCEPT ![state] = [conn.saved.order[state] EXCEPT ![row] = car]])
      BY <1>8, <2>1, ReplaceMeetsConstraint
    <2>3. QED
      BY <1>7, <2>2
  <1>11. conn' = StoredOrder(Stored({}), table)
    BY <1>2, <1>3 DEF StoredOrder
  <1>12. OrderBecomes(CarsOf(table))
    BY <1>7, <1>9, <1>10, <1>11, OrderAccepted
  <1>13. OrderStep
    BY <1>7, <1>8, <1>12, ReplaceStep
  <1>14. QED
    BY <1>2, <1>4, <1>13 DEF ReplaceCar

LEMMA CutRowImplements ==
  ASSUME IInv, Calm, TableIsOrder, Undisturbed, CutRow
  PROVE  /\ OrderStep /\ queue' = <<Tell("ENTRANTS_CHANGED")>>
         /\ UNCHANGED <<state, loaded, panel>> /\ loaded
  <1> DEFINE row == drivers[1]
             table == Without(rows, row)
             seq == conn.saved.order[state]
  <1>1. queue = <<>>
    BY DEF CutRow, UserActs, Undisturbed
  <1>2. PICK f \in Fault({"runorder"}) : conn' = StoreOrder(conn, table, f # "runorder")
    BY DEF CutRow
  <1>3. conn' = StoredOrder(conn, table)
    BY <1>2, NoFault DEF StoredOrder
  <1>4. rows \in Seq(Entrants) /\ row \in 1..Len(rows) /\ row \in DOMAIN rows /\ rows # <<>>
    <2>1. rows \in Seq(Entrants) /\ row \in DOMAIN rows
      BY DEF CutRow, IInv, TypeOK, Selected
    <2>2. QED
      BY <2>1, LenProperties
  <1>5. loaded
    BY <1>4 DEF Calm
  <1>6. CarsOf(rows) = seq
    BY <1>1, <1>5 DEF TableIsOrder, InStep, Calm, Pending
  <1>7. seq \in Seq(Cars) /\ IsInjective(seq) /\ row \in DOMAIN seq /\ row \in 1..Len(seq)
    <2>1. seq \in Seq(Cars) /\ IsInjective(seq)
      BY SelectedOrder
    <2>2. row \in DOMAIN seq
      BY <1>4, <1>6 DEF CarsOf
    <2> HIDE DEF seq
    <2>3. QED
      BY <2>1, <2>2, LenProperties
  <1> HIDE DEF row, seq
  <1>8. table \in Seq(Entrants) /\ CarsOf(table) = Without(seq, row)
    BY <1>4, <1>6, WithoutType, CarsOfWithout
  <1>9. Without(seq, row) = RemoveAt(seq, row)
    BY <1>7, WithoutRemoves
  <1>10. OneEntryPerCourse([conn.saved.order EXCEPT ![state] = Without(seq, row)])
    <2> DEFINE short == Without(seq, row)
    <2>1. Shuffled(seq, short)
      BY <1>7, WithoutKeepsOnce
    <2> HIDE DEF short
    <2>2. OneEntryPerCourse([conn.saved.order EXCEPT ![state] = short])
      BY <2>1, SelectedOrder, FewerMeetConstraint DEF seq, Shuffled
    <2>3. QED
      BY <2>2 DEF short
  <1> HIDE DEF table
  <1>11. OrderBecomes(CarsOf(table))
    BY <1>3, <1>8, <1>10, OrderAccepted DEF IInv, Calm
  <1>12. OrderStep
    BY <1>7, <1>8, <1>9, <1>11, TakeOutStep DEF seq
  <1>13. queue' = <<Tell("ENTRANTS_CHANGED")>>
    BY <1>1 DEF CutRow, Post
  <1>14. QED
    BY <1>5, <1>12, <1>13 DEF CutRow

LEMMA DragRowsImplements ==
  ASSUME IInv, Calm, TableIsOrder, Undisturbed, NEW to \in 1..(Len(rows) + 1), DragRows(to),
         to \notin drivers[1]..(drivers[2] + 1)
  PROVE  /\ OrderStep /\ queue' = <<Tell("ENTRANTS_CHANGED")>>
         /\ UNCHANGED <<state, loaded, panel>> /\ loaded
  <1> DEFINE first == drivers[1]
             last == drivers[2]
             table == MovedRows(rows, first, last, to)
             seq == conn.saved.order[state]
             moved == MovedRows(seq, first, last, to)
  <1>1. queue = <<>>
    BY DEF DragRows, UserActs, Undisturbed
  <1>2. PICK f \in Fault({"runorder"}) : /\ conn' = StoreOrder(conn, table, f # "runorder")
                                         /\ Post(<<Tell("ENTRANTS_CHANGED")>>)
    BY DEF DragRows
  <1>3. conn' = StoredOrder(conn, table)
    BY <1>2, NoFault DEF StoredOrder
  <1>4. /\ rows \in Seq(Entrants) /\ first \in 1..Len(rows) /\ last \in 1..Len(rows)
        /\ first \in DOMAIN rows /\ last \in DOMAIN rows /\ first <= last /\ rows # <<>>
    <2>1. rows \in Seq(Entrants) /\ first \in DOMAIN rows /\ last \in DOMAIN rows /\ first <= last
      BY DEF DragRows, IInv, TypeOK, Selected
    <2>2. QED
      BY <2>1, LenProperties
  <1>5. loaded
    BY <1>4 DEF Calm
  <1>6. CarsOf(rows) = seq
    BY <1>1, <1>5 DEF TableIsOrder, InStep, Calm, Pending
  <1>7. /\ seq \in Seq(Cars) /\ IsInjective(seq) /\ Len(seq) = Len(rows)
        /\ DOMAIN seq = 1..Len(seq)
    <2>1. seq \in Seq(Cars) /\ IsInjective(seq)
      BY SelectedOrder
    <2>2. DOMAIN seq = DOMAIN rows
      BY <1>6 DEF CarsOf
    <2> HIDE DEF seq
    <2>3. QED
      BY <1>4, <2>1, <2>2, LenProperties
  <1>8. to \in 1..(Len(seq) + 1) /\ to \notin first..(last + 1)
        /\ first \in 1..Len(seq) /\ last \in 1..Len(seq)
    BY <1>4, <1>7
  <1> HIDE DEF first, last, seq
  <1>9. table \in Seq(Entrants) /\ CarsOf(table) = moved
    <2>1. to \in 1..(Len(rows) + 1) /\ to \notin first..(last + 1)
      BY <1>8
    <2>2. table \in Seq(Entrants)
      BY <1>4, <2>1, MovedRowsType
    <2>3. CarsOf(table) = MovedRows(CarsOf(rows), first, last, to)
      BY <1>4, <2>1, CarsOfMoved
    <2>4. QED
      BY <1>6, <2>2, <2>3
  <1>10. moved = RO!BlockMoved(seq, first, last, to)
    BY <1>4, <1>7, <1>8, MovedBlock
  <1>11. OneEntryPerCourse([conn.saved.order EXCEPT ![state] = moved])
    <2>1. Shuffled(seq, moved)
      BY <1>4, <1>7, <1>8, MovedKeepsOnce
    <2> HIDE DEF moved
    <2>2. QED
      BY <2>1, SelectedOrder, FewerMeetConstraint DEF seq, Shuffled
  <1> HIDE DEF table, moved
  <1>12. OrderBecomes(CarsOf(table))
    BY <1>3, <1>9, <1>11, OrderAccepted DEF IInv, Calm
  <1>13. OrderStep
    <2>1. OrderBecomes(RO!BlockMoved(seq, first, last, to))
      BY <1>9, <1>10, <1>12
    <2>2. QED
      BY <1>4, <1>7, <1>8, <2>1, MoveStep DEF seq
  <1>14. queue' = <<Tell("ENTRANTS_CHANGED")>>
    BY <1>1, <1>2 DEF Post
  <1>15. QED
    BY <1>5, <1>13, <1>14 DEF DragRows

-----------------------------------------------------------------------------
(* The calm state is kept, and the abstract order takes a step or none. *)

CalmStep == OrderStep /\ Calm'

LEMMA SameOrderStep ==
  ASSUME conn'.auto, conn'.saved.order = conn.saved.order
  PROVE  OrderStep
  BY DEF OrderStep

\* The user or the event thread leaves messages that load nothing.
LEMMA CalmPosts ==
  ASSUME IInv, IInv', Calm, ~Pending("COURSE_CHANGED"), ~Pending("ENTRANTS_CHANGED"),
         conn'.auto, conn'.saved.order = conn.saved.order,
         state' = state, panel' = panel, loaded' \/ rows' = <<>>, QueueCalm',
         \A i \in DOMAIN queue' :
            queue'[i].type = "CAR_CHANGE" => ~IsInOrder(conn.view, state, queue'[i].car)
  PROVE  CalmStep
  <1>1. /\ panel'.car # NoCar => panel'.car \in panel'.listed
        /\ panel'.used \subseteq panel'.listed
        /\ panel'.used = {c \in panel'.listed : IsInOrder(conn.view, state, c)}
    BY DEF Calm, PanelCalm
  <1>2. Calm'
    BY <1>1, CalmKept
  <1>3. QED
    BY <1>2, SameOrderStep DEF CalmStep

LEMMA NothingPends ==
  ASSUME queue = <<>>
  PROVE  \A type : ~Pending(type)
  BY DEF Pending

\* What one message says of the queue.
LEMMA OneLeft ==
  ASSUME NEW m \in Message, m.type \in Alone, queue' = <<m>>,
         m.type = "CAR_CHANGE" => ~IsInOrder(conn.view, state, m.car)
  PROVE  /\ QueueCalm'
         /\ \A i \in DOMAIN queue' :
               queue'[i].type = "CAR_CHANGE" => ~IsInOrder(conn.view, state, queue'[i].car)
  <1>1. QueueCalm'
    BY DEF QueueCalm
  <1>2. DOMAIN queue' = 1..1 /\ queue'[1] = m
    OBVIOUS
  <1>3. QED
    BY <1>1, <1>2

LEMMA NoneLeft ==
  ASSUME queue' = <<>> \/ queue' = <<Tell("RUNGROUP_CHANGED")>>
  PROVE  /\ QueueCalm'
         /\ \A i \in DOMAIN queue' : queue'[i].type # "CAR_CHANGE"
  <1>1. QueueCalm'
    BY DEF QueueCalm, ReloadLeft
  <1>2. QED
    BY <1>1 DEF Tell

LEMMA UserPosts ==
  ASSUME IInv, IInv', Calm, queue = <<>>, NEW m \in Message, m.type \in Alone, Post(<<m>>),
         m.type = "CAR_CHANGE" => ~IsInOrder(conn.view, state, m.car),
         UNCHANGED <<state, loaded, rows, panel, conn>>
  PROVE  CalmStep
  <1>1. queue' = <<m>>
    BY DEF Post
  <1>2. /\ conn'.auto /\ conn'.saved.order = conn.saved.order
        /\ loaded' \/ rows' = <<>>
    BY DEF Calm
  <1>3. QED
    BY <1>1, <1>2, OneLeft, NothingPends, CalmPosts

LEMMA LoadCalm ==
  ASSUME IInv, IInv', Calm, EventChanged \/ RunGroupChanged \/ ObjectClicked
  PROVE  CalmStep
  <1>1. QueueCalm
    BY DEF Calm
  <1>2. CASE EventChanged
    <2>1. queue = OpenSeries /\ queue' = Tail(OpenSeries)
      BY <1>1, <1>2, CalmHead DEF EventChanged, Next1
    <2>2. Calm'
      BY <1>2, <2>1, CalmReloads DEF EventChanged, Calm, PanelCalm
    <2>3. QED
      BY <1>2, <2>2, SameOrderStep DEF CalmStep, EventChanged, Calm
  <1>3. CASE RunGroupChanged
    <2>1. queue = <<Tell("RUNGROUP_CHANGED")>>
      BY <1>1, <1>3, CalmHead DEF RunGroupChanged, Next1
    <2>2. queue' = <<>> /\ ~Pending("COURSE_CHANGED") /\ ~Pending("ENTRANTS_CHANGED")
      BY <1>3, <2>1 DEF RunGroupChanged, Pending, Tell
    <2>3. /\ conn'.auto /\ conn'.saved.order = conn.saved.order /\ state' = state /\ panel' = panel
          /\ loaded' \/ rows' = <<>>
      BY <1>3 DEF RunGroupChanged, Calm
    <2>4. QED
      BY <2>2, <2>3, NoneLeft, CalmPosts
  <1>4. CASE ObjectClicked
    <2>1. /\ panel'.car = panel.car /\ panel'.listed = panel.listed /\ panel'.used = panel.used
          /\ UNCHANGED <<state, loaded, rows, conn>> /\ queue' = Tail(queue)
      BY <1>4 DEF ObjectClicked, tableVars, IInv, TypeOK
    <2>2. /\ QueueCalm' /\ ~Pending("COURSE_CHANGED") /\ ~Pending("ENTRANTS_CHANGED")
          /\ \A i \in DOMAIN queue' :
                queue'[i].type = "CAR_CHANGE" => ~IsInOrder(conn.view, state, queue'[i].car)
      <3>1. queue # <<>> /\ Head(queue).type = "OBJECT_CLICKED"
        BY <1>4 DEF ObjectClicked, Next1
      <3>2. CASE queue = <<Head(queue)>>
        <4>1. queue' = <<>>
          BY <2>1, <3>2, SingleTail
        <4>2. DOMAIN queue = 1..1 /\ queue[1].type = "OBJECT_CLICKED"
          BY <3>1, <3>2
        <4>3. QED
          BY <4>1, <4>2, NoneLeft DEF Pending
      <3>3. ASSUME NEW n \in Message, n.type = "CAR_CHANGE", queue = <<Head(queue), n>>
            PROVE  /\ QueueCalm' /\ ~Pending("COURSE_CHANGED") /\ ~Pending("ENTRANTS_CHANGED")
                   /\ \A i \in DOMAIN queue' :
                         queue'[i].type = "CAR_CHANGE"
                            => ~IsInOrder(conn.view, state, queue'[i].car)
        <4>1. queue' = <<n>>
          BY <2>1, <3>3, SingleTail
        <4>2. /\ DOMAIN queue = 1..2 /\ queue[1].type = "OBJECT_CLICKED" /\ queue[2] = n
          BY <3>1, <3>3
        <4>3. ~IsInOrder(conn.view, state, n.car)
          BY <3>3, <4>2 DEF Calm, SwapCalm
        <4>4. QED
          BY <3>3, <4>1, <4>2, <4>3, OneLeft DEF Pending, Alone
      <3>4. QED
        BY <1>1, <3>1, <3>2, <3>3, CalmHead
    <2>3. /\ panel.used = {c \in panel.listed : IsInOrder(conn.view, state, c)}
          /\ panel.car # NoCar => panel.car \in panel.listed
          /\ panel.used \subseteq panel.listed
          /\ conn'.auto /\ (loaded' \/ rows' = <<>>)
      BY <2>1, <2>2 DEF Calm, PanelCalm
    <2>4. Calm'
      BY <2>1, <2>2, <2>3, CalmKept
    <2>5. QED
      BY <2>1, <2>3, <2>4, SameOrderStep DEF CalmStep
  <1>5. QED
    BY <1>2, <1>3, <1>4

\* What the add panel says of its cars is so now.
PanelTells(p) ==
    /\ p.car # NoCar => p.car \in p.listed
    /\ p.used \subseteq p.listed
    /\ p.used = {c \in p.listed : IsInOrder(conn.view, state, c)}

LEMMA PanelKept ==
  ASSUME IInv, IInv', Calm, conn'.auto, conn'.saved.order = conn.saved.order,
         state'[1] = state[1], state'[2] = state[2],
         loaded' \/ rows' = <<>>, QueueCalm', PanelTells(panel'),
         \A i \in DOMAIN queue' :
            queue'[i].type = "CAR_CHANGE" => ~IsInOrder(conn.view, state, queue'[i].car)
  PROVE  CalmStep
  <1>1. Calm'
    BY CalmKept DEF PanelTells
  <1>2. QED
    BY <1>1, SameOrderStep DEF CalmStep

LEMMA CarsReloadedCalm ==
  ASSUME IInv, IInv', Calm, CarsReloaded
  PROVE  CalmStep
  <1>1. queue' = <<>> \/ queue' = <<Tell("RUNGROUP_CHANGED")>>
    <2>1. QueueCalm
      BY DEF Calm
    <2>2. queue' = Tail(queue) /\ (queue = <<Head(queue)>> \/ queue = Tail(OpenSeries))
      BY <2>1, CalmHead DEF CarsReloaded, Next1
    <2>3. Tail(Tail(OpenSeries)) = <<Tell("RUNGROUP_CHANGED")>>
      BY DEF OpenSeries
    <2>4. QED
      BY <2>2, <2>3, SingleTail
  <1>2. Ready /\ UNCHANGED <<state, loaded, rows, conn>>
    BY DEF CarsReloaded, tableVars, Ready, IInv, Sound, Calm
  <1>3. PanelTells(panel')
    <2>1. CASE panel.listed = {}
      BY <2>1 DEF CarsReloaded, Calm, PanelCalm, PanelTells
    <2>2. ASSUME NEW first \in panel.listed \union {NoCar}, panel' = Listed(panel.listed, first)
          PROVE  PanelTells(panel')
      BY <2>2 DEF Listed, PanelTells, IInv, TypeOK
    <2>3. QED
      BY <1>2, <2>1, <2>2 DEF CarsReloaded
  <1>4. conn'.auto /\ (loaded' \/ rows' = <<>>)
    BY <1>2 DEF Calm
  <1>5. QED
    BY <1>1, <1>2, <1>3, <1>4, NoneLeft, PanelKept

\* A change of the order: the add panel is about to read it.
LEMMA OrderChangeCalm ==
  ASSUME Calm, OrderStep, queue' = <<Tell("ENTRANTS_CHANGED")>>,
         loaded', UNCHANGED panel
  PROVE  CalmStep
  <1>1. Calm'
    BY CalmReloads DEF OrderStep, Calm, PanelCalm
  <1>2. QED
    BY <1>1 DEF CalmStep

LEMMA LastMessage ==
  ASSUME IInv, Calm, queue # <<>>,
         Head(queue).type \in {"CAR_ADD", "CAR_CHANGE", "BARCODE_SCANNED"}
  PROVE  /\ Tail(queue) = <<>> /\ \A type \in {"RUNGROUP_CHANGED", "COURSE_CHANGED",
                                              "ENTRANTS_CHANGED"} : ~Pending(type)
         /\ Head(queue).car \in Cars
         /\ Head(queue).type = "CAR_CHANGE" => ~IsInOrder(conn.view, state, Head(queue).car)
  <1>1. queue = <<Head(queue)>>
    BY CalmHead DEF Calm
  <1>2. Tail(queue) = <<>> /\ DOMAIN queue = 1..1 /\ queue[1] = Head(queue)
    <2> DEFINE m == Head(queue)
    <2>1. queue = <<m>>
      BY <1>1
    <2> HIDE DEF m
    <2>2. Tail(queue) = <<>> /\ DOMAIN queue = 1..1 /\ queue[1] = m
      BY <2>1
    <2>3. QED
      BY <2>2 DEF m
  <1>3. Head(queue).car \in Cars
    BY HeadType, CarNamed DEF IInv
  <1>4. QED
    BY <1>2, <1>3 DEF Pending, Calm, SwapCalm

LEMMA AddCarCalm ==
  ASSUME IInv, IInv', Calm, TableIsOrder, Undisturbed,
         \A type \in {"RUNGROUP_CHANGED", "COURSE_CHANGED", "ENTRANTS_CHANGED"} : ~Pending(type),
         NEW car \in Cars, AddCar(car, <<>>)
  PROVE  CalmStep
  <1>1. CASE loaded /\ ~IsInOrder(conn.view, state, car)
    <2>1. OrderStep /\ queue' = <<Tell("ENTRANTS_CHANGED")>> /\ UNCHANGED <<state, loaded, panel>>
      BY <1>1, AddCarImplements
    <2>2. QED
      BY <1>1, <2>1, OrderChangeCalm
  <1>2. CASE ~(loaded /\ ~IsInOrder(conn.view, state, car))
    <2>1. queue' = <<>> /\ UNCHANGED <<state, loaded, rows, panel, conn>>
      BY <1>2 DEF AddCar
    <2>2. conn'.auto /\ (loaded' \/ rows' = <<>>)
      BY <2>1 DEF Calm
    <2>3. QED
      BY <2>1, <2>2, NoneLeft, CalmPosts
  <1>3. QED
    BY <1>1, <1>2

LEMMA CarMessagesCalm ==
  ASSUME IInv, IInv', Calm, TableIsOrder, Undisturbed, CarAdd \/ CarChange \/ BarcodeScanned
  PROVE  CalmStep
  <1>1. /\ Tail(queue) = <<>> /\ Head(queue).car \in Cars
        /\ \A type \in {"RUNGROUP_CHANGED", "COURSE_CHANGED", "ENTRANTS_CHANGED"} : ~Pending(type)
        /\ CarChange => ~IsInOrder(conn.view, state, Head(queue).car)
    <2>1. queue # <<>> /\ Head(queue).type \in {"CAR_ADD", "CAR_CHANGE", "BARCODE_SCANNED"}
      BY DEF CarAdd, CarChange, BarcodeScanned, Next1
    <2>2. CarChange => Head(queue).type = "CAR_CHANGE"
      BY DEF CarChange, Next1
    <2>3. QED
      BY <2>1, <2>2, LastMessage
  <1>2. CASE queue' = <<>> /\ UNCHANGED <<state, tableVars, panel, conn>>
    <2>1. conn'.auto /\ (loaded' \/ rows' = <<>>) /\ UNCHANGED <<state, panel, conn>>
      BY <1>2 DEF Calm, tableVars
    <2>2. QED
      BY <1>1, <1>2, <2>1, NoneLeft, CalmPosts
  <1>3. CASE CarAdd
    <2>1. AddCar(Head(queue).car, <<>>)
      BY <1>1, <1>3 DEF CarAdd
    <2>2. QED
      BY <1>1, <2>1, AddCarCalm
  <1>4. CASE CarChange
    <2>1. CASE drivers # NoRows
      <3>1. drivers[1] \in Row /\ ReplaceCar(Head(queue).car, drivers[1], <<>>)
        BY <1>1, <1>4, <2>1 DEF CarChange, IInv, TypeOK, Selected, Row
      <3>2. /\ OrderStep /\ queue' = <<Tell("ENTRANTS_CHANGED")>>
            /\ UNCHANGED <<state, loaded, panel>> /\ loaded
        BY <1>1, <1>4, <3>1, ReplaceCarImplements
      <3>3. QED
        BY <3>2, OrderChangeCalm
    <2>2. CASE drivers = NoRows
      BY <1>1, <1>2, <1>4, <2>2 DEF CarChange
    <2>3. QED
      BY <2>1, <2>2
  <1>5. CASE BarcodeScanned
    <2>1. \/ \E c \in Cars : AddCar(c, <<>>)
          \/ queue' = <<>> /\ UNCHANGED <<state, tableVars, panel, conn, faults>>
      BY <1>1, <1>5 DEF BarcodeScanned
    <2>2. QED
      BY <1>1, <1>2, <2>1, AddCarCalm
  <1>6. QED
    BY <1>3, <1>4, <1>5

-----------------------------------------------------------------------------
(* The user and the start. *)

LEMMA SelectingCalm ==
  ASSUME IInv, IInv', Calm, Undisturbed, Selecting
  PROVE  CalmStep
  <1>1. queue = <<>>
    BY DEF Selecting, PickEvent, PickCourse, PickGroup, UserActs, Undisturbed
  <1>2. UNCHANGED <<tableVars, panel, conn>>
    BY DEF Selecting, PickEvent, PickCourse, PickGroup
  <1>3. /\ conn'.auto /\ conn'.saved.order = conn.saved.order
        /\ loaded' \/ rows' = <<>>
        /\ PanelTells(panel')
    BY <1>1, <1>2, NothingPends DEF Calm, PanelCalm, PanelTells, tableVars
  <1>4. CASE queue' = OpenSeries \/ queue' = Tail(OpenSeries)
    BY <1>3, <1>4, CalmReloads, SameOrderStep DEF CalmStep, PanelTells
  <1>5. CASE \E group \in Groups : PickGroup(group)
    <2>1. queue' = <<Tell("RUNGROUP_CHANGED")>>
      BY <1>1, <1>5 DEF PickGroup, Post
    <2>2. state'[1] = state[1] /\ state'[2] = state[2]
      BY <1>5 DEF PickGroup
    <2>3. QED
      BY <1>3, <2>1, <2>2, NoneLeft, PanelKept
  <1>6. \A messages \in Seq(Message) : Post(messages) => queue' = messages
    BY <1>1 DEF Post
  <1>7. \/ queue' = OpenSeries \/ queue' = Tail(OpenSeries)
        \/ \E group \in Groups : PickGroup(group)
    BY <1>6, OpenSeriesType DEF Selecting, PickEvent, PickCourse
  <1>8. QED
    BY <1>4, <1>5, <1>7

\* Actions of the add panel.
LEMMA PanelCalms ==
  ASSUME IInv, IInv', Calm, Undisturbed,
         \/ \E driver \in Drivers : PickDriver(driver)
         \/ \E car \in Cars : PickCar(car) \/ AddNewCar(car)
  PROVE  CalmStep
  <1>1. queue = <<>> /\ UNCHANGED <<state, loaded, rows, conn>>
    BY DEF PickDriver, PickCar, AddNewCar, UserActs, Undisturbed, tableVars
  <1>2. PanelTells(panel')
    <2>1. ASSUME NEW cars \in SUBSET Cars, NEW selected \in cars \union {NoCar},
                 panel' = Listed(cars, selected)
          PROVE  PanelTells(panel')
      BY <2>1 DEF Listed, PanelTells, IInv, TypeOK
    <2>2. ASSUME NEW driver, PickDriver(driver)
          PROVE  PanelTells(panel')
      <3> DEFINE cars == {c \in Cars : Owner[c] = driver}
      <3>1. cars \in SUBSET Cars /\ \E first \in cars : panel' = Listed(cars, first)
        BY <2>2 DEF PickDriver
      <3> HIDE DEF cars
      <3>2. QED
        BY <2>1, <3>1
    <2>3. ASSUME NEW car \in Cars, PickCar(car)
          PROVE  PanelTells(panel')
      <3>1. panel.used = {c \in panel.listed : IsInOrder(conn.view, state, c)}
            /\ panel.used \subseteq panel.listed
        BY <1>1, NothingPends DEF Calm, PanelCalm
      <3>2. panel'.car = car /\ panel'.listed = panel.listed /\ panel'.used = panel.used
            /\ car \in panel.listed
        BY <2>3 DEF PickCar, IInv, TypeOK
      <3>3. QED
        BY <3>1, <3>2 DEF PanelTells
    <2>4. ASSUME NEW car \in Cars, AddNewCar(car)
          PROVE  PanelTells(panel')
      <3>1. panel.listed \in SUBSET Cars /\ panel' = Listed(panel.listed, NoCar)
        BY <2>4 DEF AddNewCar, IInv, TypeOK
      <3>2. QED
        BY <2>1, <3>1
    <2>5. QED
      BY <2>2, <2>3, <2>4
  <1>3. /\ QueueCalm'
        /\ \A i \in DOMAIN queue' : queue'[i].type # "CAR_CHANGE"
    <2>1. CASE queue' = <<>>
      BY <2>1, NoneLeft
    <2>2. ASSUME NEW car \in Cars, AddNewCar(car)
          PROVE  /\ QueueCalm'
                 /\ \A i \in DOMAIN queue' : queue'[i].type # "CAR_CHANGE"
      <3> DEFINE m == TellCar("CAR_ADD", car)
      <3>1. m \in Message /\ m.type \in Alone /\ m.type # "CAR_CHANGE"
        BY TellType DEF TellCar, Alone
      <3>2. queue' = <<m>>
        BY <1>1, <2>2 DEF AddNewCar, Post
      <3> HIDE DEF m
      <3>3. QueueCalm'
        BY <3>1, <3>2 DEF QueueCalm
      <3>4. DOMAIN queue' = 1..1 /\ queue'[1] = m
        BY <3>2
      <3>5. QED
        BY <3>1, <3>3, <3>4
    <2>3. QED
      BY <1>1, <2>1, <2>2 DEF PickDriver, PickCar
  <1>4. conn'.auto /\ conn'.saved.order = conn.saved.order /\ (loaded' \/ rows' = <<>>)
    BY <1>1 DEF Calm
  <1>5. QED
    BY <1>1, <1>2, <1>3, <1>4, PanelKept

\* Actions of the user that leave one message and nothing else.
LEMMA ClicksCalm ==
  ASSUME IInv, IInv', Calm, Undisturbed,
         \/ \E car \in Cars : SendAdd(car) \/ Scan(car)
         \/ ClickAdd \/ ClickSwap
         \/ \E first, last \in Row : SelectRows(first, last)
         \/ \E row \in Row, number \in RunNums : SelectCell(row, number)
  PROVE  CalmStep
  <1>1. queue = <<>> /\ UNCHANGED <<state, loaded, rows, panel, conn>>
    BY DEF SendAdd, Scan, ClickAdd, ClickSwap, SelectRows, SelectCell, UserActs, Undisturbed, tableVars
  <1>2. SUFFICES \E m \in Message : /\ m.type \in Alone /\ Post(<<m>>)
                                    /\ m.type = "CAR_CHANGE" => ~IsInOrder(conn.view, state, m.car)
    BY <1>1, UserPosts
  <1>3. ASSUME NEW type \in Alone \ {"ENTRANTS_CHANGED"}, NEW car \in Cars, Post(<<TellCar(type, car)>>),
               type = "CAR_CHANGE" => ~IsInOrder(conn.view, state, car)
        PROVE  \E m \in Message : /\ m.type \in Alone /\ Post(<<m>>)
                                  /\ m.type = "CAR_CHANGE" => ~IsInOrder(conn.view, state, m.car)
    <2> DEFINE m == TellCar(type, car)
    <2>1. m \in Message /\ m.type = type /\ m.car = car
      BY TellType DEF TellCar, Alone
    <2> HIDE DEF m
    <2>2. QED
      BY <1>3, <2>1 DEF m
  <1>4. CASE \E car \in Cars : SendAdd(car) \/ Scan(car)
    <2>1. PICK car \in Cars, type \in {"CAR_ADD", "BARCODE_SCANNED"} : Post(<<TellCar(type, car)>>)
      BY <1>4 DEF SendAdd, Scan
    <2>2. QED
      BY <1>3, <2>1 DEF Alone
  <1>5. CASE ClickAdd \/ ClickSwap
    <2>1. panel.car # NoCar /\ panel.car \notin panel.used
      BY <1>5 DEF ClickAdd, ClickSwap, AlreadyInOrder
    <2>2. panel.car \in Cars /\ ~IsInOrder(conn.view, state, panel.car)
      <3>1. /\ panel.used = {c \in panel.listed : IsInOrder(conn.view, state, c)}
            /\ panel.car \in panel.listed
        BY <1>1, <2>1, NothingPends DEF Calm, PanelCalm
      <3>2. QED
        BY <2>1, <3>1 DEF IInv, TypeOK
    <2>3. PICK type \in {"CAR_ADD", "CAR_CHANGE"} : Post(<<TellCar(type, panel.car)>>)
      BY <1>5 DEF ClickAdd, ClickSwap
    <2>4. QED
      BY <1>3, <2>2, <2>3 DEF Alone
  <1>6. ASSUME NEW first \in Row, NEW last \in Row, SelectRows(first, last)
        PROVE  \E m \in Message : /\ m.type \in Alone /\ Post(<<m>>)
                                  /\ m.type = "CAR_CHANGE" => ~IsInOrder(conn.view, state, m.car)
    <2>1. rows[first].car \in Cars
      BY RowType DEF Entrants
    <2>2. QED
      BY <1>3, <1>6, <2>1 DEF SelectRows, Alone
  <1>7. ASSUME NEW row \in Row, NEW number \in RunNums, SelectCell(row, number)
        PROVE  \E m \in Message : /\ m.type \in Alone /\ Post(<<m>>)
                                  /\ m.type = "CAR_CHANGE" => ~IsInOrder(conn.view, state, m.car)
    <2> DEFINE m == Tell("OBJECT_CLICKED")
    <2>1. m \in Message /\ m.type = "OBJECT_CLICKED" /\ Post(<<m>>)
      BY <1>7, TellType DEF SelectCell, Tell
    <2> HIDE DEF m
    <2>2. QED
      BY <2>1 DEF Alone
  <1>8. QED
    BY <1>4, <1>5, <1>6, <1>7

LEMMA MenuSwapCalm ==
  ASSUME IInv, IInv', Calm, Undisturbed, NEW row \in Row, NEW car \in Cars, MenuSwap(row, car)
  PROVE  CalmStep
  <1> DEFINE m == TellCar("OBJECT_CLICKED", rows[row].car)
             n == TellCar("CAR_CHANGE", car)
  <1>1. queue = <<>> /\ UNCHANGED <<state, loaded, rows, panel, conn>>
    BY DEF MenuSwap, UserActs, Undisturbed, tableVars
  <1>2. queue' = <<m, n>>
    BY <1>1 DEF MenuSwap, Post
  <1>3. /\ m \in Message /\ m.type = "OBJECT_CLICKED"
        /\ n \in Message /\ n.type = "CAR_CHANGE" /\ n.car = car
    <2>1. rows[row].car \in Cars
      BY RowType DEF Entrants
    <2>2. QED
      BY <2>1, TellType DEF TellCar
  <1> HIDE DEF m, n
  <1>4. QueueCalm'
    BY <1>2, <1>3 DEF QueueCalm
  <1>5. DOMAIN queue' = 1..2 /\ queue'[1] = m /\ queue'[2] = n
    BY <1>2
  <1>6. \A i \in DOMAIN queue' :
            queue'[i].type = "CAR_CHANGE" => ~IsInOrder(conn.view, state, queue'[i].car)
    BY <1>3, <1>5 DEF MenuSwap
  <1>7. conn'.auto /\ conn'.saved.order = conn.saved.order /\ (loaded' \/ rows' = <<>>)
    BY <1>1 DEF Calm
  <1>8. QED
    BY <1>1, <1>4, <1>6, <1>7, NothingPends, CalmPosts

\* Actions on a row that leave the order alone.
LEMMA RowsCalm ==
  ASSUME IInv, IInv', Calm, Undisturbed,
         \/ \E row \in Row : MarkPaid(row)
         \/ \E row \in Row, course \in Courses, numbers \in SUBSET RunNums :
               TextRuns(row, course, numbers)
         \/ EnterTime \/ PasteRun \/ CutRun
  PROVE  CalmStep
  <1>1. queue = <<>> /\ UNCHANGED <<state, loaded, panel>>
    BY DEF MarkPaid, TextRuns, EnterTime, PasteRun, CutRun, UserActs, Undisturbed, tableVars
  <1>2. conn'.saved.order = conn.saved.order /\ conn'.auto = conn.auto
    <2>1. CASE \E row \in Row : MarkPaid(row)
      BY <2>1, MarkPaidOrders DEF OrderLeft, ReloadPending
    <2>2. CASE Timing
      BY <2>2, TimingOrders DEF OrderLeft, ReloadPending
    <2>3. QED
      BY <2>1, <2>2 DEF Timing
  <1>3. queue' = <<>> \/ queue' = <<Tell("RUNGROUP_CHANGED")>>
    <2>1. CASE \E row \in Row : MarkPaid(row)
      <3>1. PICK f \in Fault({"registered"}) :
                queue' = queue \o (IF f = "none" THEN <<Tell("RUNGROUP_CHANGED")>> ELSE <<>>)
        BY <2>1 DEF MarkPaid, Post
      <3>2. CASE f = "none"
        BY <1>1, <3>1, <3>2
      <3>3. CASE f # "none"
        BY <1>1, <3>1, <3>3
      <3>4. QED
        BY <3>2, <3>3
    <2>2. CASE \E row \in Row, course \in Courses, numbers \in SUBSET RunNums :
                   TextRuns(row, course, numbers)
      <3>1. queue' = queue \o <<Tell("RUNGROUP_CHANGED")>>
        BY <2>2 DEF TextRuns, Post
      <3>2. QED
        BY <1>1, <3>1
    <2>3. CASE EnterTime \/ PasteRun \/ CutRun
      BY <1>1, <2>3 DEF EnterTime, PasteRun, CutRun
    <2>4. QED
      BY <2>1, <2>2, <2>3
  <1>4. loaded' \/ rows' = <<>>
    <2>1. CASE rows' = rows
      BY <1>1, <2>1 DEF Calm
    <2>2. CASE cell # NoCell
      <3>1. cell[1] \in Row
        BY <2>2, CellType
      <3>2. rows # <<>>
        BY <3>1, RowType
      <3>3. QED
        BY <1>1, <3>2 DEF Calm
    <2>3. QED
      BY <2>1, <2>2 DEF MarkPaid, TextRuns, EnterTime, PasteRun, CutRun, tableVars
  <1>5. QED
    BY <1>1, <1>2, <1>3, <1>4, NoneLeft, NothingPends, CalmPosts DEF Calm

LEMMA RestartCalm ==
  ASSUME Restart
  PROVE  CalmStep
  <1>1. conn'.auto /\ conn'.saved.order = conn.saved.order
    BY DEF Restart, Opened
  <1>2. /\ rows' = <<>> /\ queue' = OpenSeries
        /\ panel'.car = NoCar /\ panel'.used = {} /\ panel'.listed = {}
    BY DEF Restart, NoDriver
  <1>3. Calm'
    BY <1>1, <1>2, CalmReloads
  <1>4. QED
    BY <1>1, <1>3, SameOrderStep DEF CalmStep

LEMMA BlockCalm ==
  ASSUME IInv, IInv', Calm, TableIsOrder, Undisturbed, NEW to \in 1..(Len(rows) + 1), DragRows(to)
  PROVE  CalmStep
  <1>1. CASE to \notin drivers[1]..(drivers[2] + 1)
    <2>1. /\ OrderStep /\ queue' = <<Tell("ENTRANTS_CHANGED")>>
          /\ UNCHANGED <<state, loaded, panel>> /\ loaded
      BY <1>1, DragRowsImplements
    <2>2. QED
      BY <2>1, OrderChangeCalm
  <1>2. CASE to \in drivers[1]..(drivers[2] + 1)
    <2>1. queue = <<>> /\ UNCHANGED <<state, queue, loaded, rows, panel, conn>>
      BY <1>2 DEF DragRows, UserActs, Undisturbed
    <2>2. conn'.auto /\ conn'.saved.order = conn.saved.order /\ (loaded' \/ rows' = <<>>)
      BY <2>1 DEF Calm
    <2>3. QED
      BY <2>1, <2>2, NoneLeft, NothingPends, CalmPosts
  <1>3. QED
    BY <1>1, <1>2

LEMMA CutCalm ==
  ASSUME IInv, Calm, TableIsOrder, Undisturbed, CutRow
  PROVE  CalmStep
  <1>1. /\ OrderStep /\ queue' = <<Tell("ENTRANTS_CHANGED")>>
        /\ UNCHANGED <<state, loaded, panel>> /\ loaded
    BY CutRowImplements
  <1>2. QED
    BY <1>1, OrderChangeCalm

LEMMA NextCalm ==
  ASSUME IInv, IInv', Calm, TableIsOrder, Undisturbed, [Next]_vars
  PROVE  OrderStep /\ Calm'
  <1>1. CASE Deliver
    BY <1>1, LoadCalm, CarsReloadedCalm, CarMessagesCalm DEF Deliver, CalmStep
  <1>2. CASE Selecting
    BY <1>2, SelectingCalm DEF CalmStep
  <1>3. CASE Ordering
    BY <1>3, PanelCalms, ClicksCalm, MenuSwapCalm, RowsCalm, BlockCalm, CutCalm DEF Ordering, CalmStep
  <1>4. CASE Timing
    BY <1>4, ClicksCalm, RowsCalm DEF Timing, CalmStep
  <1>5. CASE Restart
    BY <1>5, RestartCalm DEF CalmStep
  <1>6. CASE UNCHANGED vars
    <2>1. UNCHANGED <<state, queue, loaded, rows, panel, conn>>
      BY <1>6 DEF vars, tableVars
    <2>2. Calm'
      BY <2>1 DEF Calm, QueueCalm, PanelCalm, SwapCalm, Pending, IsInOrder
    <2>3. QED
      BY <2>1, <2>2 DEF OrderStep, Calm
  <1>7. QED
    BY <1>1, <1>2, <1>3, <1>4, <1>5, <1>6 DEF Next

LEMMA InitCalm == Init => Calm /\ RO!Init
  <1> SUFFICES ASSUME NEW event \in Events, Fresh(event, NoContents)
               PROVE  Calm /\ RO!Init
    BY DEF Init
  <1>1. conn.auto /\ conn.saved.order = [k \in Keys |-> <<>>]
    BY DEF Fresh, Opened, NoContents
  <1>2. /\ queue = OpenSeries /\ rows = <<>>
        /\ panel.car = NoCar /\ panel.listed = {} /\ panel.used = {}
    BY DEF Fresh, NoDriver
  <1>3. QueueCalm
    BY <1>2 DEF QueueCalm, ReloadLeft
  <1>4. DOMAIN queue = 1..3 /\ \A i \in 1..3 : queue[i].type # "CAR_CHANGE"
    BY <1>2 DEF OpenSeries, Tell
  <1>5. PanelCalm /\ SwapCalm
    BY <1>2, <1>4 DEF PanelCalm, SwapCalm
  <1>6. Calm
    BY <1>1, <1>2, <1>3, <1>5 DEF Calm
  <1>7. RO!Init
    BY <1>1 DEF RO!Init, RO!OrderKeys, Keys
  <1>8. QED
    BY <1>6, <1>7

\* When the user waits for the display and no statement fails, the stored
\* orders change as RunOrder says, one entry or one block at a time: what lies
\* between the user and the database, the event queue, the table that may be
\* about to be loaded, the add panel's list and the deferred constraint, adds
\* nothing to it, for any number of cars, groups, courses and events.
THEOREM ImplementsRunOrder ==
  ASSUME Patient = TRUE, MaxFaults = 0
  PROVE  Spec => KeepsRunOrder
  <1> DEFINE All == IInv /\ TableIsOrder
  <1>1. Undisturbed
    BY DEF Undisturbed
  <1>2. Init => Calm
    BY InitCalm
  <1>3. All /\ All' /\ Calm /\ [Next]_vars => Calm'
    BY <1>1, NextCalm
  <1>4. Spec => []All
    BY TableInvariant
  <1>5. Spec => []Calm
    BY <1>2, <1>3, <1>4, PTL DEF Spec
  <1>6. Init => RO!Init
    BY InitCalm
  <1>7. All /\ All' /\ Calm /\ [Next]_vars => [RO!Next]_(conn.saved.order)
    BY <1>1, NextCalm DEF OrderStep
  <1>8. QED
    BY <1>4, <1>5, <1>6, <1>7, PTL DEF Spec, KeepsRunOrder, RO!Spec
=============================================================================
