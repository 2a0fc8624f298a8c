---------------------------- MODULE MCGoExtension ----------------------------
(* Small instance of GoExtension: three calls, one crash. *)
EXTENDS GoExtension, SignInputs
=============================================================================
