---------------------------- MODULE LocalServices ----------------------------
(***************************************************************************)
(* The services as local Go processes: start-services.sh --local and stop-  *)
(* services.sh --local, which keep one PID file per service with e2e.sh, and *)
(* the two programs they start, start-tee and start-proxy.  Process numbers *)
(* are reused, by other programs too.  A script may die between two steps,  *)
(* a service at any time.                                                   *)
(***************************************************************************)
EXTENDS Naturals, FiniteSets

CONSTANTS
  Pids,        \* the process numbers of the machine
  Extensions,  \* the values of EXTENSION_ID
  MaxFaults    \* bound on everything that goes wrong in a behaviour

ASSUME LocalServicesAssumption ==
  /\ Pids \subseteq Nat \ {0} /\ Pids # {}
  /\ Extensions # {} /\ MaxFaults \in Nat

VARIABLES
  process,     \* the process behind each number, or Free
  pidFile,     \* the number in out/pids/ext-<service>.pid, 0 without a file
  at,          \* the script that runs, its service and where it is in it
  configured,  \* EXTENSION_ID in config/extension.env
  stray,       \* numbers of services whose script died before it wrote them down
  calm,        \* nothing has gone wrong since the services were last stopped
  faults       \* what has gone wrong so far

vars == <<process, pidFile, at, configured, stray, calm, faults>>

Services == {"tee", "proxy"}
Phases == {"new", "bound", "hung", "ready"}

\* ext is the extension a node serves, or a proxy reports; seesNode says that
\* the node a proxy reports is the one that runs.
Processes ==
  [service : Services \cup {"other"}, phase : Phases, term : BOOLEAN,
   ext : Extensions, seesNode : BOOLEAN]
Free == [service |-> "none"]

Alive(p) == p # 0 /\ process[p] # Free
Running(s) == {p \in Pids : process[p].service = s}
HasPort(s) == {p \in Running(s) : process[p].phase # "new"}
Ready(s) == {p \in Running(s) : process[p].phase = "ready"}

ScriptEnded == at.stage \in {"idle", "failed", "started", "stopped"}

Init ==
  /\ process = [p \in Pids |-> Free]
  /\ pidFile = [s \in Services |-> 0]
  /\ configured \in Extensions
  /\ at = [stage |-> "idle", service |-> "tee", pid |-> 0, ext |-> configured]
  /\ stray = {} /\ calm = TRUE /\ faults = 0

\* A process ends; when it is the node that runs, no proxy sees it any longer.
Dies(p) ==
  /\ process' = [q \in Pids |->
       IF q = p THEN Free
       ELSE IF q \in Running("proxy") /\ p \in HasPort("tee")
            THEN [process[q] EXCEPT !.seesNode = FALSE]
       ELSE process[q]]
  /\ stray' = stray \ {p}

Fault ==
  /\ faults < MaxFaults
  /\ faults' = faults + 1 /\ calm' = FALSE

-----------------------------------------------------------------------------
(* start-services.sh --local: the node, Redis, the proxy, wait-for-url.      *)

Begin(ext) == [stage |-> "check", service |-> "tee", pid |-> 0, ext |-> ext]

StartServices ==
  /\ at.stage \in {"idle", "stopped"}
  /\ at' = Begin(configured)
  /\ UNCHANGED <<process, pidFile, configured, stray, calm, faults>>

\* The operator does not stop the services before he starts them again.
StartAgain ==
  /\ at.stage \in {"started", "failed"}
  /\ at' = Begin(configured)
  /\ Fault
  /\ UNCHANGED <<process, pidFile, configured, stray>>

AfterStart ==
  IF at.service = "tee" THEN [at EXCEPT !.stage = "check", !.service = "proxy"]
  ELSE [at EXCEPT !.stage = "wait"]

\* cmd_start: kill -0 only asks whether some process has the number.
AlreadyRunning ==
  /\ at.stage = "check"
  /\ Alive(pidFile[at.service])
  /\ at' = AfterStart
  /\ UNCHANGED <<process, pidFile, configured, stray, calm, faults>>

NotRunning ==
  /\ at.stage = "check"
  /\ ~Alive(pidFile[at.service])
  /\ pidFile' = [pidFile EXCEPT ![at.service] = 0]
  /\ at' = [at EXCEPT !.stage = "fork"]
  /\ UNCHANGED <<process, configured, stray, calm, faults>>

Spawn(p, s, ext) ==
  process' = [process EXCEPT ![p] = [service |-> s, phase |-> "new", term |-> FALSE,
                                     ext |-> ext, seesNode |-> FALSE]]

Fork ==
  /\ at.stage = "fork"
  /\ \E p \in Pids :
       /\ ~Alive(p)
       /\ Spawn(p, at.service, at.ext)
       /\ at' = [at EXCEPT !.stage = "record", !.pid = p]
  /\ UNCHANGED <<pidFile, configured, stray, calm, faults>>

\* The script looks at the number only, never at what became of the process.
Record ==
  /\ at.stage = "record"
  /\ pidFile' = [pidFile EXCEPT ![at.service] = at.pid]
  /\ at' = [AfterStart EXCEPT !.pid = 0]
  /\ UNCHANGED <<process, configured, stray, calm, faults>>

\* Mutant: any answer of the proxy will do (curl without -f).
UrlAnswers ==
  /\ at.stage = "wait"
  /\ HasPort("proxy") # {}
  /\ at' = [at EXCEPT !.stage = "started"]
  /\ UNCHANGED <<process, pidFile, configured, stray, calm, faults>>

UrlReady ==
  /\ at.stage = "wait"
  /\ Ready("proxy") # {}
  /\ at' = [at EXCEPT !.stage = "started"]
  /\ UNCHANGED <<process, pidFile, configured, stray, calm, faults>>

\* A proxy, and a node for it, that are still on their way to being ready.
Coming == \A s \in Services : \E p \in Running(s) :
            /\ process[p].phase # "hung" /\ ~process[p].term
            /\ HasPort(s) \subseteq {p}

\* wait-for-url gives up after 60 seconds.  That it does so although the
\* services are on their way is a fault.
UrlTimesOut ==
  /\ at.stage = "wait"
  /\ Ready("proxy") = {}
  /\ IF Coming THEN Fault ELSE UNCHANGED <<calm, faults>>
  /\ at' = [at EXCEPT !.stage = "failed"]
  /\ UNCHANGED <<process, pidFile, configured, stray>>

-----------------------------------------------------------------------------
(* stop-services.sh --local: e2e.sh stop-all, the proxy first.               *)

StopServices ==
  /\ at.stage \in {"started", "failed"}
  /\ at' = [at EXCEPT !.stage = "stop", !.service = "proxy"]
  /\ UNCHANGED <<process, pidFile, configured, stray, calm, faults>>

\* Mutant: the PID file stays.
StoppedKeepsFile ==
  /\ IF at.service = "proxy"
     THEN at' = [at EXCEPT !.stage = "stop", !.service = "tee"] /\ UNCHANGED calm
     ELSE at' = [at EXCEPT !.stage = "stopped"] /\ calm' = TRUE
  /\ UNCHANGED <<pidFile, configured, faults>>

\* The PID file is removed; after the last one nothing of the past matters.
Stopped ==
  /\ pidFile' = [pidFile EXCEPT ![at.service] = 0]
  /\ IF at.service = "proxy"
     THEN at' = [at EXCEPT !.stage = "stop", !.service = "tee"] /\ UNCHANGED calm
     ELSE at' = [at EXCEPT !.stage = "stopped"] /\ calm' = TRUE
  /\ UNCHANGED <<configured, faults>>

StopNothing ==
  /\ at.stage = "stop"
  /\ ~Alive(pidFile[at.service])
  /\ Stopped
  /\ UNCHANGED <<process, stray>>

\* Mutant: the end of the process is not waited for.
TerminateOnly ==
  /\ at.stage = "stop"
  /\ Alive(pidFile[at.service])
  /\ process' = [process EXCEPT ![pidFile[at.service]].term = TRUE]
  /\ Stopped
  /\ UNCHANGED stray

Terminate ==
  /\ at.stage = "stop"
  /\ Alive(pidFile[at.service])
  /\ process' = [process EXCEPT ![pidFile[at.service]].term = TRUE]
  /\ at' = [at EXCEPT !.stage = "stopping"]
  /\ UNCHANGED <<pidFile, configured, stray, calm, faults>>

StoppedInTime ==
  /\ at.stage = "stopping"
  /\ ~Alive(pidFile[at.service])
  /\ Stopped
  /\ UNCHANGED <<process, stray>>

\* Mutant: no second signal to a process that does not end.
StopGivesUp ==
  /\ at.stage = "stopping"
  /\ Alive(pidFile[at.service])
  /\ Stopped
  /\ UNCHANGED <<process, stray>>

\* After five seconds kill -9 follows.
StopForced ==
  /\ at.stage = "stopping"
  /\ Alive(pidFile[at.service])
  /\ Dies(pidFile[at.service])
  /\ Stopped

-----------------------------------------------------------------------------
(* The processes.                                                           *)

scriptVars == <<pidFile, at, configured, calm, faults>>

\* start-tee: the extension server's port first; taken, the process ends.
\* start-proxy (external) likewise.
Bind(p) ==
  /\ process[p].service \in Services /\ process[p].phase = "new"
  /\ HasPort(process[p].service) = {}
  /\ process' = [process EXCEPT ![p].phase = "bound"]
  /\ UNCHANGED <<scriptVars, stray>>

BindFails(p) ==
  /\ process[p].service \in Services /\ process[p].phase = "new"
  /\ HasPort(process[p].service) # {}
  /\ Dies(p)
  /\ UNCHANGED scriptVars

\* start-tee: SetProxyUrl is answered by the node.
ProxyUrlSet(p) ==
  /\ process[p].service = "tee" /\ process[p].phase = "bound"
  /\ process' = [process EXCEPT ![p].phase = "ready"]
  /\ UNCHANGED <<scriptVars, stray>>

\* start-proxy (external): the proxy asks the node for its info once, when it
\* starts, and serves that from then on.
FetchInfo(p) ==
  /\ process[p].service = "proxy" /\ process[p].phase = "bound"
  /\ \E n \in Ready("tee") :
       process' = [process EXCEPT ![p].phase = "ready", ![p].ext = process[n].ext,
                                  ![p].seesNode = TRUE]
  /\ UNCHANGED <<scriptVars, stray>>

\* main reads the signal when it has started its servers, not before.
HandleTerm(p) ==
  /\ process[p] # Free /\ process[p].phase \in {"new", "ready"}
  /\ process[p].term
  /\ Dies(p)
  /\ UNCHANGED scriptVars

ProcessStep ==
  \E p \in Pids : Bind(p) \/ BindFails(p) \/ ProxyUrlSet(p) \/ FetchInfo(p) \/ HandleTerm(p)

-----------------------------------------------------------------------------
(* What goes wrong.                                                         *)

\* A process ends by itself: SetProxyUrl or the proxy's start fails, a panic.
Crash(p) ==
  /\ Alive(p)
  /\ Dies(p)
  /\ Fault
  /\ UNCHANGED <<pidFile, at, configured>>

\* The request of SetProxyUrl has no timeout.
Hang(p) ==
  /\ process[p].service = "tee" /\ process[p].phase = "bound"
  /\ process' = [process EXCEPT ![p].phase = "hung"]
  /\ Fault
  /\ UNCHANGED <<pidFile, at, configured, stray>>

\* A build or Redis fails, or a script is killed, between any two steps.
ScriptDies ==
  /\ ~ScriptEnded
  /\ stray' = IF at.stage = "record" THEN stray \cup ({at.pid} \cap Running(at.service)) ELSE stray
  /\ at' = [at EXCEPT !.stage = "failed", !.pid = 0]
  /\ Fault
  /\ UNCHANGED <<process, pidFile, configured>>

\* Some other program gets a number that is free.
OtherStarts(p) ==
  /\ ~Alive(p)
  /\ process' = [process EXCEPT ![p] = [service |-> "other", phase |-> "ready", term |-> FALSE,
                                        ext |-> configured, seesNode |-> FALSE]]
  /\ Fault
  /\ UNCHANGED <<pidFile, at, configured, stray>>

\* pre-build.sh --force.
Reconfigure ==
  /\ configured' \in Extensions \ {configured}
  /\ Fault
  /\ UNCHANGED <<process, pidFile, at, stray>>

-----------------------------------------------------------------------------
Start == AlreadyRunning \/ NotRunning \/ Fork \/ Record \/ UrlReady \/ UrlTimesOut
Stop == StopNothing \/ Terminate \/ StoppedInTime \/ StopForced

FaultStep ==
  \/ StartAgain \/ ScriptDies \/ Reconfigure
  \/ \E p \in Pids : Crash(p) \/ Hang(p) \/ OtherStarts(p)

Next == StartServices \/ StopServices \/ Start \/ Stop \/ ProcessStep \/ FaultStep

Spec == Init /\ [][Next]_vars

\* A proxy that reports the node that runs, with the extension configured.
Serving ==
  /\ at.stage = "started"
  /\ \E p \in Ready("proxy") : process[p].seesNode /\ process[p].ext = configured

\* Processes and scripts run; the operator starts the services when they are
\* stopped, and stops them when they do not serve.
FairSpec ==
  /\ Spec
  /\ WF_vars(ProcessStep) /\ WF_vars(Start) /\ WF_vars(Stop)
  /\ WF_vars(StartServices)
  /\ WF_vars(~Serving /\ at.stage # "stopped" /\ StopServices)

-----------------------------------------------------------------------------
Stages == {"idle", "check", "fork", "record", "wait", "started", "failed",
           "stop", "stopping", "stopped"}

TypeOK ==
  /\ process \in [Pids -> Processes \cup {Free}]
  /\ pidFile \in [Services -> Pids \cup {0}]
  /\ at \in [stage : Stages, service : Services, pid : Pids \cup {0}, ext : Extensions]
  /\ configured \in Extensions
  /\ stray \subseteq UNION {Running(s) : s \in Services}
  /\ calm \in BOOLEAN /\ faults \in 0 .. MaxFaults

Stopping == at.stage \in {"stop", "stopping"}

\* A PID file names a process of its own service, whatever process had the number
\* before: so a start is not skipped for some other program, and no other
\* program is stopped, unless a service has died since the last stop (e2e.sh:35, :71).
RecordsTruthful ==
  calm /\ stray = {} /\ ~Stopping =>
    \A s \in Services : pidFile[s] # 0 => pidFile[s] \in Running(s)

\* After stop-services.sh no service runs that a script has written down:
\* not one that ignores the first signal either (e2e.sh:74-83).
StopMeansStopped ==
  at.stage = "stopped" => UNION {Running(s) : s \in Services} \subseteq stray

\* "Services started" means that the proxy reports the node that runs, with the
\* configured extension, if the services were stopped before, nothing has
\* happened to them since, and none is left that no PID file names.
StartedMeansServing == at.stage = "started" /\ calm /\ stray = {} => Serving

\* Stopping the services and starting them again repairs whatever has gone
\* wrong, unless a process runs that no PID file names.
EventuallyServing == <>[](stray = {}) => []<>Serving
=============================================================================
