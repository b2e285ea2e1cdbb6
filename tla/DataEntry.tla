------------------------------ MODULE DataEntry -----------------------------
(***************************************************************************)
(* The DataEntry application: the selection bar, the driver and runs       *)
(* tables with their EntryModel, the add panel, and the Messenger that     *)
(* connects them, over one connection to the series tables.                *)
(*                                                                         *)
(* Everything runs on the Swing event thread.  A user's action runs its    *)
(* listener at once, and Messenger.sendEvent posts what it tells the other *)
(* parts to the end of the event queue: a click that was already waiting   *)
(* in the queue is handled before the message.  So an input action below   *)
(* may run whatever the queue holds, unless the user is Patient and waits  *)
(* for the display to settle.                                              *)
(***************************************************************************)
EXTENDS SeriesTables

CONSTANTS
    Owner,      \* Owner[c]: the driver a car belongs to
    NoCar,      \* nothing is selected in the add panel
    Patient,    \* TRUE: the user acts only when no message is pending
    MaxQueue,   \* bound on pending messages when the user acts
    MaxRows,    \* bound on table rows and pending additions
    MaxFaults   \* bound on statements that raise an error

ASSUME DataEntryAssumption ==
    /\ Cars # {} /\ NoCar \notin Cars /\ DOMAIN Owner = Cars
    /\ Patient \in BOOLEAN
    /\ MaxQueue \in Nat /\ MaxRows \in Nat /\ MaxFaults \in Nat
    /\ 1 \in Courses /\ 1 \in Groups

VARIABLES
    state,      \* DataEntry.state: the selected <<event, course, group>>
    queue,      \* messages posted to the event thread and not yet handled
    loaded,     \* EntryModel.tableData is not null
    rows,       \* EntryModel.tableData
    drivers,    \* rows selected in the driver table, <<first, last>>
    cell,       \* cell selected in the runs table, <<row, run>>
    panel,      \* DriverEntry: the listed cars of the selected driver, which of
                \* them were in the order when listed, selectedCar, entrantIsSelected
    conn,       \* Database.d
    faults      \* statements that have raised an error (for MaxFaults)

tableVars == <<loaded, rows, drivers, cell>>
vars == <<state, queue, tableVars, panel, conn, faults>>

Drivers == {Owner[c] : c \in Cars}
Entrants == [car : Cars, runs : SUBSET RunNums]
NoRows == <<0, 0>>
NoCell == <<0, 0>>
Message == [type : {"EVENT_CHANGED", "COURSE_CHANGED", "RUNGROUP_CHANGED",
                    "ENTRANTS_CHANGED", "OBJECT_CLICKED"}, car : {NoCar}]
           \union [type : {"CAR_ADD", "CAR_CHANGE", "OBJECT_CLICKED",
                           "BARCODE_SCANNED"}, car : Cars]

Tell(type) == [type |-> type, car |-> NoCar]
TellCar(type, car) == [type |-> type, car |-> car]
Pending(type) == \E i \in DOMAIN queue : queue[i].type = type

CarsOf(table) == [i \in DOMAIN table |-> table[i].car]
Ready == ~conn.aborted

\* A statement of this step raises an error, or none does.
Fault(places) == IF faults < MaxFaults THEN places \union {"none"} ELSE {"none"}
CountFault(f) == faults' = IF f = "none" THEN faults ELSE faults + 1

OpenSeries == <<Tell("EVENT_CHANGED"), Tell("COURSE_CHANGED"), Tell("RUNGROUP_CHANGED")>>

\* The application has started and opened the series: the selection bar chose
\* an event, its first course and the first group, and has told the others.
NoDriver == [listed |-> {}, used |-> {}, car |-> NoCar, entrant |-> FALSE]

Fresh(event, contents) ==
    /\ state = <<event, 1, 1>>
    /\ queue = OpenSeries
    /\ loaded = FALSE /\ rows = <<>> /\ drivers = NoRows /\ cell = NoCell
    /\ panel = NoDriver
    /\ conn = Opened(contents)

Init == /\ \E event \in Events : Fresh(event, NoContents)
        /\ faults = 0

-----------------------------------------------------------------------------
(* EntryModel. *)

\* fireEntrantsChanged: store the order of the table under what is selected
\* now, whatever the table was loaded for, and tell the others.
StoreOrder(c, table, ok) == SetRunOrder(c, state, CarsOf(table), ok)

\* Mutant: addCar does not ask isInOrder.
AddCarUnasked(car, rest) ==
    /\ IF loaded /\ Ready
       THEN \E f \in Fault({"registered", "runorder"}) :
              LET table == Append(rows, LoadEntrant(conn.view, state, car))
                  registered == RegisterCar(conn, state[1], car, f # "registered")
              IN  /\ rows' = table
                  /\ conn' = StoreOrder(registered, table, f # "runorder")
                  /\ queue' = Append(rest, Tell("ENTRANTS_CHANGED"))
                  /\ CountFault(f)
       ELSE /\ queue' = rest
            /\ UNCHANGED <<rows, conn, faults>>
    /\ UNCHANGED <<state, loaded, drivers, cell, panel>>

\* addCar(carid), on the queue that is left once its message is taken.
\* tableData.contains(e) compares two loads of the car by the identity of
\* their UUID objects and never finds it, so a car of the table is refused by
\* isInOrder like one of another group, in constant staging mode too.
AddCar(car, rest) ==
    /\ IF loaded /\ Ready /\ ~IsInOrder(conn.view, state, car)
       THEN \E f \in Fault({"registered", "runorder"}) :
              LET table == Append(rows, LoadEntrant(conn.view, state, car))
                  registered == RegisterCar(conn, state[1], car, f # "registered")
              IN  /\ rows' = table
                  /\ conn' = StoreOrder(registered, table, f # "runorder")
                  /\ queue' = Append(rest, Tell("ENTRANTS_CHANGED"))
                  /\ CountFault(f)
       ELSE /\ queue' = rest
            /\ UNCHANGED <<rows, conn, faults>>
    /\ UNCHANGED <<state, loaded, drivers, cell, panel>>

\* Mutants: replaceCar deletes the runs of the old car; its table forgets them.
ReplaceCarMovesRuns(car, row, rest) ==
    /\ Ready
    /\ LET old   == rows[row]
           new   == LoadEntrant(conn.view, state, car)
           table == [rows EXCEPT ![row] = [new EXCEPT !.runs = @ \union old.runs]]
           stored == SetRuns(conn, state, car, old.runs, {})
           deleted == Execute(stored, [stored.view EXCEPT !.runs = {r \in @ : r.car # old.car}], TRUE)
       IN  /\ rows' = table
           /\ conn' = StoreOrder(deleted, table, TRUE)
    /\ queue' = Append(rest, Tell("ENTRANTS_CHANGED"))
    /\ UNCHANGED <<state, loaded, drivers, cell, panel, faults>>

ReplaceCarShowsNoRuns(car, row, rest) ==
    /\ Ready
    /\ LET table == [rows EXCEPT ![row] = LoadEntrant(conn.view, state, car)]
           stored == SetRuns(conn, state, car, rows[row].runs, {})
       IN  /\ rows' = table
           /\ conn' = StoreOrder(stored, table, TRUE)
    /\ queue' = Append(rest, Tell("ENTRANTS_CHANGED"))
    /\ UNCHANGED <<state, loaded, drivers, cell, panel, faults>>

\* replaceCar(carid, row): the runs of the old car are written for the new one
\* as well; nothing asks whether the new one is already on the course.
ReplaceCar(car, row, rest) ==
    /\ IF Ready
       THEN \E f \in Fault({"runorder"}), lost \in SUBSET rows[row].runs :
              LET old   == rows[row]
                  new   == LoadEntrant(conn.view, state, car)
                  table == [rows EXCEPT ![row] = [new EXCEPT !.runs = @ \union old.runs]]
                  stored == SetRuns(conn, state, car, old.runs, lost)
              IN  /\ lost # {} => f = "none" /\ faults < MaxFaults
                  /\ rows' = table
                  /\ conn' = StoreOrder(stored, table, f # "runorder")
                  /\ queue' = Append(rest, Tell("ENTRANTS_CHANGED"))
                  /\ faults' = IF f = "none" /\ lost = {} THEN faults ELSE faults + 1
       ELSE /\ queue' = rest
            /\ UNCHANGED <<rows, conn, faults>>
    /\ UNCHANGED <<state, loaded, drivers, cell, panel>>

\* Mutant: the block to move is one row short.
MovedRowsShort(table, start, end, to) ==
    LET a == IF to < start THEN to ELSE start
        b == IF to < start THEN start ELSE end
        c == IF to < start THEN end + 1 ELSE to
        x == a + (c - b)
    IN  [i \in DOMAIN table |->
            IF i \in a..(x - 1) THEN table[i - a + b]
            ELSE IF i \in x..(c - 1) THEN table[i - x + a]
            ELSE table[i]]

\* moveRow(start, end, to) on rows numbered from 1: the blocks a..b-1 and
\* b..c-1 change places, the first one landing at x.
MovedRows(table, start, end, to) ==
    LET a == IF to < start THEN to ELSE start
        b == IF to < start THEN start ELSE end + 1
        c == IF to < start THEN end + 1 ELSE to
        x == a + (c - b)
    IN  [i \in DOMAIN table |->
            IF i \in a..(x - 1) THEN table[i - a + b]
            ELSE IF i \in x..(c - 1) THEN table[i - x + a]
            ELSE table[i]]

Without(table, row) ==
    [i \in 1..(Len(table) - 1) |-> IF i < row THEN table[i] ELSE table[i + 1]]

-----------------------------------------------------------------------------
(* Messages: each takes the head of the queue. *)

Next1(type) == queue # <<>> /\ Head(queue).type = type

\* EntryModel: the number of columns changes and the tables lose their selections.
EventChanged ==
    /\ Next1("EVENT_CHANGED")
    /\ queue' = Tail(queue)
    /\ drivers' = NoRows /\ cell' = NoCell
    /\ UNCHANGED <<state, loaded, rows, panel, conn, faults>>

\* Mutant: the reloaded tables keep their selections.
RunGroupChangedInPlace ==
    /\ Next1("RUNGROUP_CHANGED")
    /\ queue' = Tail(queue)
    /\ loaded' = Ready
    /\ rows' = IF Ready THEN EntrantsByRunOrder(conn.view, state) ELSE <<>>
    /\ UNCHANGED <<state, drivers, cell, panel, conn, faults>>

\* EntryModel loads the table for what is selected now; null if the query fails.
RunGroupChanged ==
    /\ Next1("RUNGROUP_CHANGED")
    /\ queue' = Tail(queue)
    /\ loaded' = Ready
    /\ rows' = IF Ready THEN EntrantsByRunOrder(conn.view, state) ELSE <<>>
    /\ drivers' = NoRows /\ cell' = NoCell
    /\ UNCHANGED <<state, panel, conn, faults>>

\* reloadCars: the list of a driver's cars, each with whether it is in an order
\* of this course now.
Listed(listed, selected) ==
    [panel EXCEPT !.listed = listed,
                  !.used = {c \in listed : IsInOrder(conn.view, state, c)},
                  !.car = selected]

\* reloadCars(selectedCar): setListData drops the selection, then focusOnCar
\* looks for the car by the identity of its UUID object, which no reloaded car
\* has; without a selected car the first of the list is taken.
CarsReloaded ==
    /\ Next1("COURSE_CHANGED") \/ Next1("ENTRANTS_CHANGED")
    /\ queue' = Tail(queue)
    /\ IF ~Ready \/ panel.listed = {} THEN UNCHANGED panel
       ELSE IF panel.car # NoCar THEN panel' = Listed(panel.listed, NoCar)
       ELSE \E first \in panel.listed : panel' = Listed(panel.listed, first)
    /\ UNCHANGED <<state, tableVars, conn, faults>>

CarAdd == Next1("CAR_ADD") /\ AddCar(Head(queue).car, Tail(queue))

CarChange ==
    /\ Next1("CAR_CHANGE")
    /\ IF drivers # NoRows
       THEN ReplaceCar(Head(queue).car, drivers[1], Tail(queue))
       ELSE queue' = Tail(queue) /\ UNCHANGED <<state, tableVars, panel, conn, faults>>

\* DriverEntry: whether an entrant, and not a run or nothing, was clicked.
ObjectClicked ==
    /\ Next1("OBJECT_CLICKED")
    /\ queue' = Tail(queue)
    /\ panel' = [panel EXCEPT !.entrant = Head(queue).car # NoCar]
    /\ UNCHANGED <<state, tableVars, conn, faults>>

\* processBarcode: a membership stands for the cars its driver has registered:
\* one of this run order is preferred, then one that is in no other; with
\* several of those it may find only second runs classes and leave the choice
\* to the add panel.  The message carries one of the driver's cars.
BarcodeScanned ==
    /\ Next1("BARCODE_SCANNED")
    /\ LET available == {c \in Cars : /\ Owner[c] = Owner[Head(queue).car]
                                      /\ <<state[1], c>> \in conn.view.registered}
           current == {c \in available : IsInCurrentOrder(conn.view, state, c)}
           free == {c \in available : ~IsInOrder(conn.view, state, c)}
           wanted == IF current # {} THEN current ELSE free
       IN  \/ Ready /\ \E c \in wanted : AddCar(c, Tail(queue))
           \/ /\ \/ ~Ready
                 \/ wanted = {}
                 \/ current = {} /\ \E c, d \in free : c # d
              /\ queue' = Tail(queue)
              /\ UNCHANGED <<state, tableVars, panel, conn, faults>>

-----------------------------------------------------------------------------
(* What the user does. *)

UserActs == (Patient => queue = <<>>) /\ Len(queue) < MaxQueue
Room == Len(rows) + Len(SelectSeq(queue, LAMBDA m : m.type \in {"CAR_ADD", "BARCODE_SCANNED"})) < MaxRows
Post(messages) == queue' = queue \o messages
Row == DOMAIN rows

\* Mutant: picking an event does not tell of the run group.
PickEventQuietly(event) ==
    /\ UserActs
    /\ state' = <<event, 1, state[3]>>
    /\ Post(<<Tell("EVENT_CHANGED"), Tell("COURSE_CHANGED")>>)
    /\ UNCHANGED <<tableVars, panel, conn, faults>>

\* SelectionBar.actionPerformed.  Picking an event selects course 1 and picking
\* a course selects its group again; the state changes now, the table when the
\* messages are handled.
PickEvent(event) ==
    /\ UserActs
    /\ state' = <<event, 1, state[3]>>
    /\ Post(OpenSeries)
    /\ UNCHANGED <<tableVars, panel, conn, faults>>

PickCourse(course) ==
    /\ UserActs
    /\ state' = <<state[1], course, state[3]>>
    /\ Post(Tail(OpenSeries))
    /\ UNCHANGED <<tableVars, panel, conn, faults>>

PickGroup(group) ==
    /\ UserActs
    /\ state' = <<state[1], state[2], group>>
    /\ Post(<<Tell("RUNGROUP_CHANGED")>>)
    /\ UNCHANGED <<tableVars, panel, conn, faults>>

\* Picking a driver lists the cars and selects the first; picking another car
\* of the list uses what the list said of it.
PickDriver(driver) ==
    /\ UserActs /\ Ready
    /\ LET cars == {c \in Cars : Owner[c] = driver}
       IN  \E first \in cars : panel' = Listed(cars, first)
    /\ UNCHANGED <<state, queue, tableVars, conn, faults>>

PickCar(car) ==
    /\ UserActs
    /\ car \in panel.listed
    /\ panel' = [panel EXCEPT !.car = car]
    /\ UNCHANGED <<state, queue, tableVars, conn, faults>>

\* carAlreadyInOrder
AlreadyInOrder == panel.car = NoCar \/ panel.car \in panel.used

\* The "Add Entrant" button.
ClickAdd ==
    /\ UserActs /\ Room
    /\ ~AlreadyInOrder
    /\ Post(<<TellCar("CAR_ADD", panel.car)>>)
    /\ UNCHANGED <<state, tableVars, panel, conn, faults>>

\* Mutant: the button is enabled for a car that is on the course already.
ClickSwapAnyCar ==
    /\ UserActs
    /\ panel.car # NoCar /\ panel.entrant
    /\ Post(<<TellCar("CAR_CHANGE", panel.car)>>)
    /\ UNCHANGED <<state, tableVars, panel, conn, faults>>

\* The "Swap Entrant" button.
ClickSwap ==
    /\ UserActs
    /\ ~AlreadyInOrder /\ panel.entrant
    /\ Post(<<TellCar("CAR_CHANGE", panel.car)>>)
    /\ UNCHANGED <<state, tableVars, panel, conn, faults>>

\* The class tree offers the registered cars, used or not.
SendAdd(car) ==
    /\ UserActs /\ Room
    /\ <<state[1], car>> \in conn.view.registered
    /\ Post(<<TellCar("CAR_ADD", car)>>)
    /\ UNCHANGED <<state, tableVars, panel, conn, faults>>

\* The new-car dialog creates a car for the selected driver, lists the cars
\* again and adds the new one.
NewCar(car) == /\ \A k \in Keys : ~Contains(conn.view.order[k], car)
               /\ \A run \in conn.view.runs : run.car # car
               /\ \A event \in Events : <<event, car>> \notin conn.view.registered

AddNewCar(car) ==
    /\ UserActs /\ Room /\ Ready
    /\ car \in panel.listed /\ NewCar(car)
    /\ panel' = Listed(panel.listed, NoCar)
    /\ Post(<<TellCar("CAR_ADD", car)>>)
    /\ UNCHANGED <<state, tableVars, conn, faults>>

\* The scanner is heard wherever the focus is.
Scan(car) ==
    /\ UserActs /\ Room
    /\ Post(<<TellCar("BARCODE_SCANNED", car)>>)
    /\ UNCHANGED <<state, tableVars, panel, conn, faults>>

\* A press in the driver table (with shift: a block of rows) or the runs table.
SelectRows(first, last) ==
    /\ UserActs
    /\ first \in Row /\ last \in Row /\ first <= last
    /\ drivers' = <<first, last>>
    /\ Post(<<TellCar("OBJECT_CLICKED", rows[first].car)>>)
    /\ UNCHANGED <<state, loaded, rows, cell, panel, conn, faults>>

SelectCell(row, number) ==
    /\ UserActs
    /\ row \in Row
    /\ cell' = <<row, number>>
    /\ Post(<<Tell("OBJECT_CLICKED")>>)
    /\ UNCHANGED <<state, loaded, rows, drivers, panel, conn, faults>>

\* DriverContextMenu opens on the (first) selected row.  The driver's cars that
\* are not on the course can be swapped in for it.
Popup(row) == Ready /\ drivers # NoRows /\ row = drivers[1]

MenuSwap(row, car) ==
    /\ UserActs /\ Popup(row)
    /\ Owner[car] = Owner[rows[row].car]
    /\ ~IsInOrder(conn.view, state, car)
    /\ Post(<<TellCar("OBJECT_CLICKED", rows[row].car), TellCar("CAR_CHANGE", car)>>)
    /\ UNCHANGED <<state, tableVars, panel, conn, faults>>

MarkPaid(row) ==
    /\ UserActs /\ Popup(row)
    /\ \E f \in Fault({"registered"}) :
          /\ conn' = RegisterCar(conn, state[1], rows[row].car, f # "registered")
          /\ Post(IF f = "none" THEN <<Tell("RUNGROUP_CHANGED")>> ELSE <<>>)
          /\ CountFault(f)
    /\ UNCHANGED <<state, tableVars, panel>>

\* TextRunAction: runs typed as text, for a course of their own; a failure is
\* logged and the table reloaded anyway.
TextRuns(row, course, numbers) ==
    /\ UserActs /\ Popup(row)
    /\ \E lost \in SUBSET numbers :
          /\ lost # {} => faults < MaxFaults
          /\ conn' = SetRuns(conn, <<state[1], course>>, rows[row].car, numbers, lost)
          /\ faults' = IF lost = {} THEN faults ELSE faults + 1
    /\ Post(<<Tell("RUNGROUP_CHANGED")>>)
    /\ UNCHANGED <<state, tableVars, panel>>

\* Mutant: the row is cut from the table only.
CutRowUnstored ==
    /\ UserActs
    /\ drivers # NoRows /\ drivers[1] = drivers[2]
    /\ rows[drivers[1]].runs = {}
    /\ rows' = Without(rows, drivers[1])
    /\ drivers' = NoRows /\ cell' = NoCell
    /\ Post(<<Tell("ENTRANTS_CHANGED")>>)
    /\ UNCHANGED <<state, loaded, panel, conn, faults>>

\* Cutting a row (setValueAt(null, row, 0)): not while the entrant has runs.
CutRow ==
    /\ UserActs
    /\ drivers # NoRows /\ drivers[1] = drivers[2]
    /\ rows[drivers[1]].runs = {}
    /\ \E f \in Fault({"runorder"}) :
          LET table == Without(rows, drivers[1])
          IN  /\ rows' = table
              /\ conn' = StoreOrder(conn, table, f # "runorder")
              /\ CountFault(f)
    /\ drivers' = NoRows /\ cell' = NoCell
    /\ Post(<<Tell("ENTRANTS_CHANGED")>>)
    /\ UNCHANGED <<state, loaded, panel>>

\* Dropping the selected rows before row to.
DragRows(to) ==
    /\ UserActs
    /\ drivers # NoRows
    /\ to \in 1..(Len(rows) + 1)
    /\ IF to \in drivers[1]..(drivers[2] + 1)
       THEN UNCHANGED <<queue, rows, conn, faults>>
       ELSE \E f \in Fault({"runorder"}) :
              LET table == MovedRows(rows, drivers[1], drivers[2], to)
              IN  /\ rows' = table
                  /\ conn' = StoreOrder(conn, table, f # "runorder")
                  /\ Post(<<Tell("ENTRANTS_CHANGED")>>)
                  /\ CountFault(f)
    /\ drivers' = NoRows
    /\ UNCHANGED <<state, loaded, cell, panel>>

\* setValueAt(run, row, col): the run goes to the table and, under what is
\* selected now, to the database; a failure there is only logged.
RecordRun(row, number) ==
    \E lost \in IF faults < MaxFaults THEN SUBSET {number} ELSE {{}} :
        /\ rows' = [rows EXCEPT ![row].runs = @ \union {number}]
        /\ conn' = SetRuns(conn, state, rows[row].car, {number}, lost)
        /\ faults' = IF lost = {} THEN faults ELSE faults + 1

\* RunsTable.setSelectedRun: the first open cell of the rows after this one,
\* around to this one, is selected next.
NextOpenCell(table, row) ==
    LET n == Len(table)
        At(j) == ((row + j) % n) + 1
        open == {j \in 0..(n - 1) : table[At(j)].runs # RunNums}
    IN  IF open = {} THEN NoCell
        ELSE LET j == Min(open) IN <<At(j), Min(RunNums \ table[At(j)].runs)>>

\* Entering a time; TIME_ENTERED is handled at once.
EnterTime ==
    /\ UserActs
    /\ cell # NoCell
    /\ RecordRun(cell[1], cell[2])
    /\ cell' = NextOpenCell(rows', cell[1])
    /\ UNCHANGED <<state, queue, loaded, drivers, panel>>

\* Pasting a run from the clipboard into the selected cell.
PasteRun ==
    /\ UserActs
    /\ cell # NoCell
    /\ RecordRun(cell[1], cell[2])
    /\ UNCHANGED <<state, queue, loaded, drivers, cell, panel>>

CutRun ==
    /\ UserActs
    /\ cell # NoCell
    /\ \E f \in Fault({"runs"}) :
          /\ rows' = [rows EXCEPT ![cell[1]].runs = @ \ {cell[2]}]
          /\ conn' = DeleteRun(conn, state, rows[cell[1]].car, cell[2], f # "runs")
          /\ CountFault(f)
    /\ UNCHANGED <<state, queue, loaded, drivers, cell, panel>>

\* The application dies and is started again on the event it last had: its
\* connection is gone and with it the open transaction.
Restart ==
    /\ state' = <<state[1], 1, 1>>
    /\ queue' = OpenSeries
    /\ loaded' = FALSE /\ rows' = <<>> /\ drivers' = NoRows /\ cell' = NoCell
    /\ panel' = NoDriver
    /\ conn' = Opened(conn.saved)
    /\ UNCHANGED faults

-----------------------------------------------------------------------------
Deliver == \/ EventChanged \/ RunGroupChanged \/ CarsReloaded
           \/ CarAdd \/ CarChange \/ ObjectClicked \/ BarcodeScanned

Selecting == \/ \E event \in Events : PickEvent(event)
             \/ \E course \in Courses : PickCourse(course)
             \/ \E group \in Groups : PickGroup(group)

Ordering == \/ \E driver \in Drivers : PickDriver(driver)
            \/ \E car \in Cars : PickCar(car) \/ SendAdd(car) \/ AddNewCar(car) \/ Scan(car)
            \/ ClickAdd \/ ClickSwap \/ CutRow
            \/ \E first, last \in Row : SelectRows(first, last)
            \/ \E row \in Row, car \in Cars : MenuSwap(row, car)
            \/ \E row \in Row : MarkPaid(row)
            \/ \E to \in 1..(Len(rows) + 1) : DragRows(to)

Timing == \/ \E row \in Row, number \in RunNums : SelectCell(row, number)
          \/ EnterTime \/ PasteRun \/ CutRun
          \/ \E row \in Row, course \in Courses, numbers \in SUBSET RunNums :
                TextRuns(row, course, numbers)

Next == Deliver \/ Selecting \/ Ordering \/ Timing \/ Restart

Spec == Init /\ [][Next]_vars

-----------------------------------------------------------------------------
(* What it promises. *)

Selected(table, block, c) ==
    /\ block \in {NoRows} \union {b \in (DOMAIN table) \X (DOMAIN table) : b[1] <= b[2]}
    /\ c \in {NoCell} \union ((DOMAIN table) \X RunNums)

\* Everything has its type, and the selections lie within the table.
TypeOK ==
    /\ state \in Keys
    /\ queue \in Seq(Message)
    /\ loaded \in BOOLEAN
    /\ rows \in Seq(Entrants)
    /\ Selected(rows, drivers, cell)
    /\ panel \in [listed : SUBSET Cars, used : SUBSET Cars,
                  car : Cars \union {NoCar}, entrant : BOOLEAN]
    /\ conn \in ConnectionOf(Contents)
    /\ faults \in Nat

\* No car is in two places of one course, however the messages interleave:
\* what stops it is the deferred constraint, at the price of the failed commit.
OneEntry == OneEntryPerCourse(conn.saved.order)

\* Run orders are only ever changed by a transaction that ends: whatever else
\* waits to be committed, the order the application reads is the stored one.
OrderIsCommitted == conn.view.order = conn.saved.order

\* The table shows the stored order of the group that is selected, unless its
\* reload is still in the queue or an update of the order has failed and
\* none has succeeded since (autocommit is off).
InStep == loaded /\ conn.auto /\ ~Pending("RUNGROUP_CHANGED")

TableIsOrder == InStep => CarsOf(rows) = conn.saved.order[state]

\* The table shows the recorded runs.
TableIsRuns ==
    InStep => \A i \in Row : rows[i].runs = RunsOf(conn.saved, state, rows[i].car)

\* While autocommit is on, the death of the application loses nothing that
\* it has stored: with a failed update of the order it is off.
CrashLosesNothing == conn.auto => conn.view = conn.saved

\* What the table shows of the runs stays what is recorded, until a statement
\* fails (setRun logs that and keeps the run in the table) or an update of the
\* order does: swapped, cut, dragged and retyped rows take their runs along.
TableKeepsRuns ==
    [][(TableIsRuns /\ conn.auto /\ faults' = faults) => TableIsRuns']_vars

\* No car that waits its turn is dropped, moved or put behind another when a
\* car is added to a table that is in step, whatever else is queued.
AddKeepsOrder ==
    [][(CarAdd /\ InStep)
          => \A k \in Keys : IsPrefix(conn.saved.order[k], conn'.saved.order[k])]_vars

\* A recorded run is only ever removed by cutting it: not by swapping cars,
\* changing the order, a failed statement or a restart.
RunsAreKept == [][conn.auto /\ ~CutRun => conn.saved.runs \subseteq conn'.saved.runs]_vars

\* "Refresh screen and try again" (SQLDataInterface.logError): once the table
\* shows the stored order again, the next addition is stored and commits
\* everything the connection still owed.
RetryStores ==
    [][(CarAdd /\ loaded /\ CarsOf(rows) = conn.saved.order[state] /\ rows' # rows
          /\ faults' = faults)
          => (conn'.auto /\ conn.view.runs \subseteq conn'.saved.runs)]_vars

RO == INSTANCE RunOrder WITH order <- conn.saved.order

\* A drag moves the selected block to where it was dropped and changes nothing
\* else of the table.
DragMovesBlock ==
    [][\A to \in 1..(Len(rows) + 1) :
          (DragRows(to) /\ rows' # rows)
             => rows' = RO!BlockMoved(rows, drivers[1], drivers[2], to)]_vars

\* When the user waits for the display and no statement fails, the stored
\* orders change as RunOrder says: the event loop, the table and the
\* connection between the user and the database add nothing to it.
KeepsRunOrder == RO!Spec
=============================================================================
