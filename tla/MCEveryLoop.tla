---------------------------- MODULE MCEveryLoop ----------------------------
(* Model-checking instance of EveryLoop. *)
EXTENDS EveryLoop

NoneHang == {}
OneOrTwo == {-1, 2}
=============================================================================
