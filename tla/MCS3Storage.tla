---------------------------- MODULE MCS3Storage -----------------------------
(* Model-checking instance of S3Storage. *)
EXTENDS S3Storage, TLC

CONSTANTS every, other

ProcSymmetry == Permutations({every, other})
=============================================================================
