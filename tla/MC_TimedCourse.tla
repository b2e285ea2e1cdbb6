--------------------------- MODULE MC_TimedCourse ---------------------------
(* Small instances of TimedCourse for TLC. *)
EXTENDS TimedCourse
=============================================================================
