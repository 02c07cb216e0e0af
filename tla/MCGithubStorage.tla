-------------------------- MODULE MCGithubStorage --------------------------
(* Model-checking instances of GithubStorage. *)
EXTENDS GithubStorage, TLC

CONSTANTS every, other

ProcSymmetry == Permutations({every, other})
=============================================================================
