------------------------------ MODULE MCStorage ------------------------------
(***************************************************************************)
(* Storage for TLC: callers are interchangeable.                           *)
(***************************************************************************)
EXTENDS Storage, TLC

CallerSymmetry == Permutations(Callers)

==============================================================================
