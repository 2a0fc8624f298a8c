--------------------------- MODULE MCRegistration ---------------------------
(* Small instances of Registration: the commands operators use. *)
EXTENDS Registration

\* TEEs are interchangeable: take one to begin with.
FirstTee == faults = 0 => tee = CHOOSE t \in Tees : TRUE

\* post-build.sh's command, and the default of the -command flag.
UsualCommands == {{"r", "R", "a", "p"}, {"r", "a", "p"}}
PostBuild == {{"r", "R", "a", "p"}}

\* These, and a run that stops before p, followed by p alone with the id of
\* the availability check.
AllCommands == UsualCommands \cup {{"r", "R", "a"}, {"p"}}

ResumeOnly == {TRUE}
=============================================================================
