---------------------------- MODULE MCPythonExtension ----------------------------
(* Small instance of PythonExtension: three calls, one crash. *)
EXTENDS PythonExtension, SignInputs
=============================================================================
