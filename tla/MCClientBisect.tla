---------------------------- MODULE MCClientBisect ----------------------------
(* ClientBisect with the constants of its runs: updates are alike. *)
EXTENDS ClientBisect, TLC

AnyOrder == Permutations(Updaters)
==============================================================================
