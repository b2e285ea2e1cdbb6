---------------------------- MODULE MC_DataEntry ----------------------------
(* Small instances of DataEntry for TLC. *)
EXTENDS DataEntry, TLC

CONSTANT d1  \* the one driver

OwnedByOne == [car \in Cars |-> d1]

CarSymmetry == Permutations(Cars)

\* A user who only arranges cars and groups, and one who also enters times.
OrderingNext == Deliver \/ Selecting \/ Ordering \/ Restart
OrderingSpec == Init /\ [][OrderingNext]_vars

TimingNext == \/ Deliver \/ Selecting \/ Timing \/ Restart
              \/ \E driver \in Drivers : PickDriver(driver)
              \/ \E car \in Cars : AddNewCar(car) \/ (\E row \in Row : MenuSwap(row, car))
              \/ \E row \in Row : SelectRows(row, row)
TimingSpec == Init /\ [][TimingNext]_vars
=============================================================================
