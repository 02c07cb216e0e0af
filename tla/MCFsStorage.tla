---------------------------- MODULE MCFsStorage ----------------------------
(* Model-checking instances of FsStorage. *)
EXTENDS FsStorage, TLC

CONSTANTS every, other

ProcSymmetry == Permutations({every, other})
=============================================================================
