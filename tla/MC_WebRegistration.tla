------------------------- MODULE MC_WebRegistration -------------------------
(* Small instances of WebRegistration for TLC. *)
EXTENDS WebRegistration

CONSTANTS d1, d2
OneEach == {<<d1, 1>>, <<d2, 1>>}
TwoAndOne == {<<d1, 1>>, <<d1, 2>>, <<d2, 1>>}
=============================================================================
