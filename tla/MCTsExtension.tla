---------------------------- MODULE MCTsExtension ----------------------------
(* Small instance of TsExtension: three calls, one crash. *)
EXTENDS TsExtension, SignInputs
=============================================================================
