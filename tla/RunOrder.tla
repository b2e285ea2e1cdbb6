------------------------------ MODULE RunOrder ------------------------------
(***************************************************************************)
(* What data entry promises of the run orders of a series: the order of a  *)
(* run group changes by one entry at a time being added at its end, taken  *)
(* out or replaced, or by a block of entries moving within it, and a car   *)
(* only joins a group of a course that has no other place for it.          *)
(***************************************************************************)
EXTENDS Naturals, Sequences, SequencesExt

CONSTANTS Events, Courses, Groups, Cars

VARIABLE order  \* order[<<event, course, group>>]: cars, first to run first

OrderKeys == Events \X Courses \X Groups

Free(k, car) ==
    \A g \in Groups : ~Contains(order[<<k[1], k[2], g>>], car)

Init == order = [k \in OrderKeys |-> <<>>]

Add(k, car) == /\ Free(k, car)
               /\ order' = [order EXCEPT ![k] = Append(@, car)]

TakeOut(k, i) == order' = [order EXCEPT ![k] = RemoveAt(@, i)]

Replace(k, i, car) == /\ Free(k, car) \/ order[k][i] = car
                      /\ order' = [order EXCEPT ![k][i] = car]

\* The block first..last is taken out and put back before entry to.
BlockMoved(seq, first, last, to) ==
    LET block == SubSeq(seq, first, last)
    IN  IF to < first
        THEN SubSeq(seq, 1, to - 1) \o block \o SubSeq(seq, to, first - 1)
             \o SubSeq(seq, last + 1, Len(seq))
        ELSE SubSeq(seq, 1, first - 1) \o SubSeq(seq, last + 1, to - 1) \o block
             \o SubSeq(seq, to, Len(seq))

Move(k, first, last, to) ==
    /\ first <= last /\ to \notin first..(last + 1)
    /\ order' = [order EXCEPT ![k] = BlockMoved(@, first, last, to)]

Next == \E k \in OrderKeys :
           \/ \E car \in Cars : Add(k, car)
           \/ \E i \in DOMAIN order[k] :
                 \/ TakeOut(k, i)
                 \/ \E car \in Cars : Replace(k, i, car)
           \/ \E first, last \in DOMAIN order[k], to \in 1..(Len(order[k]) + 1) :
                 Move(k, first, last, to)

Spec == Init /\ [][Next]_order
=============================================================================
