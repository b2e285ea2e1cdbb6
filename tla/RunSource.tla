------------------------------ MODULE RunSource -----------------------------
(***************************************************************************)
(* What a timer promises to those who listen to it: a list of finished     *)
(* runs that grows by one run at a time, at its end, of which only the     *)
(* last can be taken back, and which is forgotten as a whole.  A run that  *)
(* was announced does not change until it is taken back.                   *)
(***************************************************************************)
EXTENDS Naturals, Sequences

VARIABLE finished

Init == finished = <<>>

Announce == /\ Len(finished') = Len(finished) + 1
            /\ \A row \in 1..Len(finished) : finished'[row] = finished[row]

TakeBack == /\ finished # <<>>
            /\ finished' = SubSeq(finished, 1, Len(finished) - 1)

Forget == finished' = <<>>

Next == Announce \/ TakeBack \/ Forget

Spec == Init /\ [][Next]_finished
=============================================================================
