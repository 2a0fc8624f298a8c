--------------------------- MODULE MCLocalServices ---------------------------
(* A small instance of LocalServices. *)
EXTENDS LocalServices

\* Numbers are interchangeable but for those still written down somewhere: a
\* new process takes one of these, or the least of the others.
Noted == {pidFile["tee"], pidFile["proxy"], at.pid}
Fresh == {p \in Pids : ~Alive(p) /\ p \notin Noted}
TakeLeast ==
  \A p \in Fresh : process'[p] # Free => \A q \in Fresh : p <= q
=============================================================================
