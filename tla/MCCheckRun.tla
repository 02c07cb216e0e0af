----------------------------- MODULE MCCheckRun -----------------------------
(* Model-checking instance of CheckRun. *)
EXTENDS CheckRun

TwoMayHang == {1, 3}
AnyConcurrency == {-1, 0, 1, 3}
=============================================================================
