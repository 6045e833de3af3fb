---------------------------- MODULE MCRelayerLoop ----------------------------
(* RelayerLoop with the constants of its runs. *)
EXTENDS RelayerLoop
==============================================================================
