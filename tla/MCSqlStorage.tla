---------------------------- MODULE MCSqlStorage ----------------------------
(* Model-checking instance of SqlStorage. *)
EXTENDS SqlStorage, TLC

CONSTANTS every, other

ProcSymmetry == Permutations({every, other})
=============================================================================
