---------------------------- MODULE MC_Challenge ----------------------------
(* Small instances of Challenge for TLC. *)
EXTENDS Challenge, TLC

CarSymmetry == Permutations(Cars)
=============================================================================
