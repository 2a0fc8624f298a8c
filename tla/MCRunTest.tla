------------------------------ MODULE MCRunTest ------------------------------
(* A small instance of RunTest. *)
EXTENDS RunTest

\* Machines are interchangeable until they are used: take one.
TakeOne == node' # node => node' = CHOOSE m \in Unused : TRUE
=============================================================================
