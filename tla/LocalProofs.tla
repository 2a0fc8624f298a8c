----------------------------- MODULE LocalProofs -----------------------------
(***************************************************************************)
(* What the PID files say, what stop-services.sh --local leaves behind and   *)
(* what "services started" means, proved for any number of process numbers   *)
(* and of faults.                                                           *)
(***************************************************************************)
EXTENDS LocalServices, TLAPS

LocalTypes ==
  /\ process \in [Pids -> Processes \cup {Free}]
  /\ pidFile \in [Services -> Pids \cup {0}]
  /\ at \in [stage : Stages, service : Services, pid : Pids \cup {0}, ext : Extensions]
  /\ configured \in Extensions

\* A service that runs is written down, about to be, or stray.
Noted(s) ==
  \A p \in Running(s) :
    \/ p \in stray
    \/ p = pidFile[s]
    \/ at.stage = "record" /\ at.service = s /\ at.pid = p

\* Where the scripts have no PID file: a service is started only then, and one
\* that has been stopped has none.
Cleared ==
  /\ at.stage \in {"fork", "record"} => pidFile[at.service] = 0
  /\ at.stage \in {"stop", "stopping"} /\ at.service = "tee" => pidFile["proxy"] = 0
  /\ at.stage = "stopped" => pidFile = [s \in Services |-> 0]

SInv == LocalTypes /\ Cleared /\ \A s \in Services : Noted(s)

-----------------------------------------------------------------------------
LEMMA NoZero == 0 \notin Pids
BY LocalServicesAssumption

\* The services that run, by the process behind each number.
LEMMA FreeIsNoService ==
  ASSUME NEW s \in Services
  PROVE  Free.service # s
BY DEF Free, Services

LEMMA DiesTypes ==
  ASSUME LocalTypes, NEW p \in Pids, Dies(p)
  PROVE  /\ process' \in [Pids -> Processes \cup {Free}]
         /\ process'[p] = Free
         /\ \A q \in Pids \ {p} : process'[q].service = process[q].service
         /\ stray' = stray \ {p}
<1>1. stray' = stray \ {p} /\ process'[p] = Free
  BY DEF Dies, LocalTypes
<1>2. ASSUME NEW q \in Pids \ {p}
      PROVE  process'[q] \in Processes \cup {Free} /\ process'[q].service = process[q].service
  <2>1. CASE q \in Running("proxy") /\ p \in HasPort("tee")
    <3>1. process'[q] = [process[q] EXCEPT !.seesNode = FALSE]
      BY <2>1 DEF Dies
    <3>2. process[q] \in Processes
      BY <2>1 DEF Running, LocalTypes, Free
    <3> QED BY <3>1, <3>2 DEF Processes
  <2>2. CASE ~(q \in Running("proxy") /\ p \in HasPort("tee"))
    BY <2>2 DEF Dies, LocalTypes
  <2> QED BY <2>1, <2>2
<1>3. process' \in [Pids -> Processes \cup {Free}]
  BY <1>1, <1>2 DEF Dies
<1> QED BY <1>1, <1>2, <1>3

\* A process that ends is missed by nobody.
LEMMA DiesKeepsNoted ==
  ASSUME LocalTypes, NEW p \in Pids, Dies(p), NEW s \in Services, Noted(s)
  PROVE  \A q \in Running(s)' :
           \/ q \in stray'
           \/ q = pidFile[s]
           \/ at.stage = "record" /\ at.service = s /\ at.pid = q
<1> SUFFICES ASSUME NEW q \in Running(s)'
             PROVE  \/ q \in stray' \/ q = pidFile[s]
                    \/ at.stage = "record" /\ at.service = s /\ at.pid = q
  OBVIOUS
<1>1. q \in Pids /\ process'[q].service = s
  BY DEF Running
<1>2. q # p
  BY <1>1, DiesTypes, FreeIsNoService
<1>3. q \in Running(s) /\ (q \in stray => q \in stray')
  BY <1>1, <1>2, DiesTypes DEF Running
<1> QED BY <1>3 DEF Noted

\* A step that leaves every process with its service.
LEMMA SameServices ==
  ASSUME \A q \in Pids : process'[q].service = process[q].service,
         NEW s \in Services
  PROVE  Running(s)' = Running(s)
BY DEF Running

-----------------------------------------------------------------------------
LEMMA SInvInit == Init => SInv
<1> SUFFICES ASSUME Init PROVE SInv
  OBVIOUS
<1>1. LocalTypes
  BY LocalServicesAssumption DEF Init, LocalTypes, Services, Stages
<1>2. \A s \in Services : Running(s) = {}
  BY FreeIsNoService DEF Init, Running
<1> QED BY <1>1, <1>2 DEF Init, SInv, Cleared, Noted

\* The scripts' own steps that start no process and end none.
LEMMA ScriptStep ==
  ASSUME SInv,
         \/ StartServices \/ StartAgain \/ AlreadyRunning \/ NotRunning \/ Record
         \/ UrlReady \/ UrlTimesOut \/ StopServices
  PROVE  SInv'
<1> USE DEF SInv
<1>1. UNCHANGED <<process, configured>> /\ UNCHANGED stray
  BY DEF StartServices, StartAgain, AlreadyRunning, NotRunning, Record, UrlReady, UrlTimesOut,
         StopServices
<1>2. \A s \in Services : Running(s)' = Running(s)
  BY <1>1 DEF Running
<1>3. CASE StartServices \/ StartAgain \/ AlreadyRunning \/ UrlReady \/ UrlTimesOut \/ StopServices
  <2>1. UNCHANGED pidFile /\ at.stage # "record"
    BY <1>3 DEF StartServices, StartAgain, AlreadyRunning, UrlReady, UrlTimesOut, StopServices
  <2>2. /\ at' \in [stage : Stages, service : Services, pid : Pids \cup {0}, ext : Extensions]
        /\ at'.stage \notin {"fork", "record", "stopping", "stopped"}
        /\ at'.stage = "stop" => at'.service = "proxy"
    <3>1. CASE StartServices \/ StartAgain
      <4>1. at' = Begin(configured)
        BY <3>1 DEF StartServices, StartAgain
      <4> QED BY <4>1, NoZero DEF Begin, LocalTypes, Stages, Services
    <3>2. CASE AlreadyRunning
      BY <3>2 DEF AlreadyRunning, AfterStart, LocalTypes, Stages, Services
    <3>3. CASE UrlReady \/ UrlTimesOut
      <4>1. at' = [at EXCEPT !.stage = "started"] \/ at' = [at EXCEPT !.stage = "failed"]
        BY <3>3 DEF UrlReady, UrlTimesOut
      <4> QED BY <4>1 DEF LocalTypes, Stages, Services
    <3>4. CASE StopServices
      BY <3>4 DEF StopServices, LocalTypes, Stages, Services
    <3> QED BY <1>3, <3>1, <3>2, <3>3, <3>4
  <2> QED BY <1>1, <1>2, <2>1, <2>2 DEF LocalTypes, Cleared, Noted
<1>4. CASE NotRunning
  <2>1. /\ at.stage = "check" /\ at' = [at EXCEPT !.stage = "fork"]
        /\ ~Alive(pidFile[at.service])
        /\ pidFile' = [pidFile EXCEPT ![at.service] = 0]
    BY <1>4 DEF NotRunning
  <2>2. LocalTypes' /\ Cleared'
    BY <1>1, <2>1 DEF LocalTypes, Stages, Cleared
  <2>3. ASSUME NEW s \in Services PROVE Noted(s)'
    <3>1. pidFile[at.service] \notin Running(at.service)
      BY <2>1, NoZero, FreeIsNoService DEF Alive, Running, LocalTypes
    <3> QED BY <1>1, <1>2, <2>1, <3>1 DEF Noted, LocalTypes
  <2> QED BY <2>2, <2>3
<1>5. CASE Record
  <2>1. /\ at.stage = "record"
        /\ pidFile' = [pidFile EXCEPT ![at.service] = at.pid]
        /\ at' = [AfterStart EXCEPT !.pid = 0]
    BY <1>5 DEF Record
  <2>2. /\ at' \in [stage : Stages, service : Services, pid : Pids \cup {0}, ext : Extensions]
        /\ at'.stage \in {"check", "wait"}
    BY <2>1 DEF AfterStart, LocalTypes, Stages, Services
  <2>3. LocalTypes' /\ Cleared'
    BY <1>1, <2>1, <2>2 DEF LocalTypes, Cleared
  <2>4. ASSUME NEW s \in Services PROVE Noted(s)'
    <3>1. pidFile[at.service] = 0
      BY <2>1 DEF Cleared
    <3>2. 0 \notin Running(s)
      BY NoZero DEF Running
    <3> QED BY <1>1, <1>2, <2>1, <2>2, <3>1, <3>2 DEF Noted, LocalTypes
  <2> QED BY <2>3, <2>4
<1> QED BY <1>3, <1>4, <1>5

\* A process starts: a service, which is then about to be written down.
LEMMA ForkStep ==
  ASSUME SInv, Fork
  PROVE  SInv'
<1> USE DEF SInv
<1>1. PICK p \in Pids :
        /\ ~Alive(p)
        /\ Spawn(p, at.service, at.ext)
        /\ at' = [at EXCEPT !.stage = "record", !.pid = p]
  BY DEF Fork
<1>2. at.stage = "fork" /\ UNCHANGED <<pidFile, configured, stray>>
  BY DEF Fork
<1>3. LocalTypes' /\ Cleared'
  BY <1>1, <1>2 DEF Spawn, LocalTypes, Processes, Phases, Stages, Services, Cleared
<1>4. ASSUME NEW s \in Services PROVE Noted(s)'
  <2>1. \A q \in Pids \ {p} : process'[q] = process[q]
    BY <1>1 DEF Spawn, LocalTypes
  <2>2. process'[p].service = at.service
    BY <1>1 DEF Spawn, LocalTypes
  <2>3. ASSUME NEW q \in Running(s)'
        PROVE  \/ q \in stray' \/ q = pidFile'[s]
               \/ at'.stage = "record" /\ at'.service = s /\ at'.pid = q
    <3>1. q \in Pids /\ process'[q].service = s
      BY DEF Running
    <3>2. CASE q = p
      BY <1>1, <2>2, <3>1, <3>2 DEF LocalTypes
    <3>3. CASE q # p
      BY <1>2, <2>1, <3>1, <3>3 DEF Noted, Running
    <3> QED BY <3>2, <3>3
  <2> QED BY <2>3 DEF Noted
<1> QED BY <1>3, <1>4

\* The PID file of a service is removed once the process is gone.
LEMMA StoppedStep ==
  ASSUME SInv, at.stage \in {"stop", "stopping"}, Stopped,
         process' \in [Pids -> Processes \cup {Free}],
         \A s \in Services : \A q \in Running(s)' : q \in Running(s) /\ (q \in stray => q \in stray'),
         \A s \in Services : s = at.service /\ pidFile[s] # 0 => pidFile[s] \notin Running(s)'
  PROVE  SInv'
<1> USE DEF SInv
<1>1. /\ pidFile' = [pidFile EXCEPT ![at.service] = 0]
      /\ configured' = configured
      /\ \/ at.service = "proxy" /\ at' = [at EXCEPT !.stage = "stop", !.service = "tee"]
         \/ at.service = "tee" /\ at' = [at EXCEPT !.stage = "stopped"]
  BY DEF Stopped, LocalTypes, Services
<1>2. LocalTypes'
  BY <1>1 DEF LocalTypes, Stages, Services
<1>3. Cleared'
  BY <1>1 DEF Cleared, LocalTypes, Services
<1>4. ASSUME NEW s \in Services PROVE Noted(s)'
  <2>1. ASSUME NEW q \in Running(s)' PROVE q \in stray' \/ q = pidFile'[s]
    <3>1. q \in Pids /\ q # 0
      BY NoZero DEF Running
    <3>2. q \in stray \/ q = pidFile[s]
      BY <2>1 DEF Noted
    <3>3. q \in stray => q \in stray'
      BY <2>1
    <3>4. q = pidFile[s] => s # at.service
      BY <3>1, <2>1
    <3>5. s # at.service => pidFile'[s] = pidFile[s]
      BY <1>1 DEF LocalTypes
    <3> QED BY <3>2, <3>3, <3>4, <3>5
  <2> QED BY <2>1 DEF Noted
<1> QED BY <1>2, <1>3, <1>4

LEMMA StopStep ==
  ASSUME SInv, Stop
  PROVE  SInv'
<1> USE DEF SInv
<1>1. CASE StopNothing \/ StoppedInTime
  <2>1. /\ at.stage \in {"stop", "stopping"} /\ ~Alive(pidFile[at.service])
        /\ Stopped /\ UNCHANGED <<process, stray>>
    BY <1>1 DEF StopNothing, StoppedInTime
  <2>2. \A s \in Services : Running(s)' = Running(s)
    BY <2>1 DEF Running
  <2>3. \A s \in Services : s = at.service /\ pidFile[s] # 0 => pidFile[s] \notin Running(s)'
    BY <2>1, <2>2, FreeIsNoService DEF Alive, Running, LocalTypes
  <2>4. process' \in [Pids -> Processes \cup {Free}]
    BY <2>1 DEF LocalTypes
  <2>5. \A s \in Services : \A q \in Running(s)' : q \in Running(s) /\ (q \in stray => q \in stray')
    BY <2>1, <2>2
  <2> QED BY <2>1, <2>3, <2>4, <2>5, StoppedStep
<1>2. CASE Terminate
  <2> DEFINE p == pidFile[at.service]
  <2>1. /\ at.stage = "stop" /\ Alive(p)
        /\ process' = [process EXCEPT ![p].term = TRUE]
        /\ at' = [at EXCEPT !.stage = "stopping"]
        /\ UNCHANGED <<pidFile, configured, stray>>
    BY <1>2 DEF Terminate
  <2>2. p \in Pids /\ process[p] \in Processes
    BY <2>1 DEF Alive, LocalTypes
  <2>3. process' \in [Pids -> Processes \cup {Free}]
    BY <2>1, <2>2 DEF Processes, LocalTypes
  <2>4. \A q \in Pids : process'[q].service = process[q].service
    BY <2>1, <2>2 DEF Processes, LocalTypes
  <2>5. \A s \in Services : Running(s)' = Running(s)
    BY <2>4, SameServices
  <2> QED BY <2>1, <2>3, <2>5 DEF LocalTypes, Stages, Cleared, Noted
<1>3. CASE StopForced
  <2> DEFINE p == pidFile[at.service]
  <2>1. at.stage = "stopping" /\ Alive(p) /\ Dies(p) /\ Stopped
    BY <1>3 DEF StopForced
  <2>2. p \in Pids /\ at.service \in Services
    BY <2>1 DEF Alive, LocalTypes
  <2>3. /\ process' \in [Pids -> Processes \cup {Free}]
        /\ \A s \in Services : s = at.service /\ pidFile[s] # 0 => pidFile[s] \notin Running(s)'
    <3>1. process' \in [Pids -> Processes \cup {Free}] /\ process'[p] = Free
      BY <2>1, <2>2, DiesTypes
    <3>2. \A s \in Services : p \notin Running(s)'
      BY <3>1, FreeIsNoService DEF Running
    <3> QED BY <3>1, <3>2
  <2>4. \A s \in Services : \A q \in Running(s)' : q \in Running(s) /\ (q \in stray => q \in stray')
    BY <2>1, <2>2, DiesTypes, FreeIsNoService DEF Running
  <2> QED BY <2>1, <2>3, <2>4, StoppedStep
<1> QED BY <1>1, <1>2, <1>3 DEF Stop

\* The processes' own steps, and what befalls them.
LEMMA ProcessKeeps ==
  ASSUME SInv, ProcessStep \/ \E p \in Pids : Crash(p) \/ Hang(p) \/ OtherStarts(p)
  PROVE  SInv'
<1> USE DEF SInv
<1>1. UNCHANGED <<pidFile, at, configured>>
  BY DEF ProcessStep, Bind, BindFails, ProxyUrlSet, FetchInfo, HandleTerm, Crash, Hang,
         OtherStarts, scriptVars
<1>2. PICK p \in Pids :
        \/ Bind(p) \/ BindFails(p) \/ ProxyUrlSet(p) \/ FetchInfo(p) \/ HandleTerm(p)
        \/ Crash(p) \/ Hang(p) \/ OtherStarts(p)
  BY DEF ProcessStep
<1>3. CASE BindFails(p) \/ HandleTerm(p) \/ Crash(p)
  <2>1. Dies(p)
    BY <1>3 DEF BindFails, HandleTerm, Crash
  <2>2. LocalTypes' /\ Cleared'
    BY <1>1, <2>1, DiesTypes DEF LocalTypes, Cleared
  <2> QED BY <1>1, <2>1, <2>2, DiesKeepsNoted DEF Noted
<1>4. CASE Bind(p) \/ ProxyUrlSet(p) \/ FetchInfo(p) \/ Hang(p)
  <2>1. process[p] \in Processes /\ UNCHANGED stray
    <3>1. process[p].service \in Services
      BY <1>4 DEF Bind, ProxyUrlSet, FetchInfo, Hang, Services
    <3>2. process[p] # Free
      BY <3>1, FreeIsNoService
    <3>3. UNCHANGED stray
      BY <1>4 DEF Bind, ProxyUrlSet, FetchInfo, Hang
    <3> QED BY <3>2, <3>3 DEF LocalTypes
  <2>2. PICK r \in Processes : process' = [process EXCEPT ![p] = r] /\ r.service = process[p].service
    <3>1. CASE \E ph \in Phases : process' = [process EXCEPT ![p].phase = ph]
      <4>1. PICK ph \in Phases : process' = [process EXCEPT ![p].phase = ph]
        BY <3>1
      <4> DEFINE r == [process[p] EXCEPT !.phase = ph]
      <4>2. r \in Processes /\ r.service = process[p].service
        BY <2>1 DEF Processes
      <4>3. process' = [process EXCEPT ![p] = r]
        BY <4>1
      <4> HIDE DEF r
      <4> QED BY <4>2, <4>3
    <3>2. CASE FetchInfo(p)
      <4>1. PICK n \in Ready("tee") :
              process' = [process EXCEPT ![p].phase = "ready", ![p].ext = process[n].ext,
                                         ![p].seesNode = TRUE]
        BY <3>2 DEF FetchInfo
      <4>2. process[n] \in Processes
        BY DEF Ready, Running, LocalTypes, Free
      <4> DEFINE r == [process[p] EXCEPT !.phase = "ready", !.ext = process[n].ext,
                                         !.seesNode = TRUE]
      <4>3. r \in Processes /\ r.service = process[p].service
        BY <2>1, <4>2 DEF Processes, Phases
      <4>4. process' = [process EXCEPT ![p] = r]
        BY <4>1, <2>1 DEF LocalTypes
      <4> HIDE DEF r
      <4> QED BY <4>3, <4>4
    <3> QED BY <1>4, <3>1, <3>2 DEF Bind, ProxyUrlSet, Hang, Phases
  <2>3. process' \in [Pids -> Processes \cup {Free}]
    BY <2>2 DEF LocalTypes
  <2>4. \A q \in Pids : process'[q].service = process[q].service
    BY <2>2 DEF LocalTypes
  <2>5. \A s \in Services : Running(s)' = Running(s)
    BY <2>4, SameServices
  <2> QED BY <1>1, <2>1, <2>3, <2>5 DEF LocalTypes, Cleared, Noted
<1>5. CASE OtherStarts(p)
  <2>1. /\ process' = [process EXCEPT ![p] = [service |-> "other", phase |-> "ready", term |-> FALSE,
                                              ext |-> configured, seesNode |-> FALSE]]
        /\ UNCHANGED stray
    BY <1>5 DEF OtherStarts
  <2>2. LocalTypes' /\ Cleared'
    BY <1>1, <2>1 DEF LocalTypes, Processes, Phases, Cleared
  <2>3. \A s \in Services : Running(s)' \subseteq Running(s)
    BY <2>1 DEF Running, Services, LocalTypes
  <2> QED BY <1>1, <2>1, <2>2, <2>3 DEF Noted
<1> QED BY <1>2, <1>3, <1>4, <1>5

LEMMA ScriptDiesStep ==
  ASSUME SInv, ScriptDies
  PROVE  SInv'
<1> USE DEF SInv
<1>1. /\ at' = [at EXCEPT !.stage = "failed", !.pid = 0]
      /\ stray' = IF at.stage = "record" THEN stray \cup ({at.pid} \cap Running(at.service)) ELSE stray
      /\ UNCHANGED <<process, pidFile, configured>>
  BY DEF ScriptDies
<1>2. LocalTypes' /\ Cleared'
  BY <1>1 DEF LocalTypes, Stages, Cleared
<1>3. \A s \in Services : Running(s)' = Running(s)
  BY <1>1 DEF Running
<1> QED BY <1>1, <1>2, <1>3 DEF Noted

LEMMA ReconfigureStep ==
  ASSUME SInv, Reconfigure \/ UNCHANGED vars
  PROVE  SInv'
<1>1. configured' \in Extensions /\ UNCHANGED <<process, pidFile, at, stray>>
  BY DEF Reconfigure, vars, SInv, LocalTypes
<1>2. \A s \in Services : Running(s)' = Running(s)
  BY <1>1 DEF Running
<1> QED BY <1>1, <1>2 DEF SInv, LocalTypes, Cleared, Noted

-----------------------------------------------------------------------------
(* While nothing has gone wrong since the last stop.                        *)

\* A process that no PID file names has the port of service s, and keeps it.
Blocked(s) == \E q \in stray : q \in HasPort(s)

\* A process is signalled by its PID file, which stays as long as it lives.
TermInv ==
  \A p \in Pids :
    process[p] # Free /\ process[p].term => \E s \in Services : pidFile[s] = p

\* Nobody is about to end; what the scripts have started runs, or has given way
\* to a stray process; and the services serve the configured extension, or have
\* been started on top of stray ones.
CalmInv ==
  calm /\ ~Stopping =>
    /\ \A p \in Pids : process[p] # Free => ~process[p].term
    /\ at.stage \in {"check", "fork", "record"} => at.ext = configured
    /\ at.stage = "record" => at.pid \in Running(at.service) \/ Blocked(at.service)
    /\ \A s \in Services : pidFile[s] # 0 => pidFile[s] \in Running(s) \/ Blocked(s)
    /\ \A p \in Running("tee") \ stray : process[p].ext = configured
    /\ \A p \in Ready("proxy") \ stray :
         (process[p].seesNode /\ process[p].ext = configured) \/ Blocked("tee")
    /\ at.stage = "started" => Ready("proxy") # {}

LInv == SInv /\ TermInv /\ CalmInv

\* What the end of a process does to the others.
LEMMA DiesOthers ==
  ASSUME LocalTypes, NEW p \in Pids, Dies(p)
  PROVE  /\ \A q \in Pids \ {p} :
              /\ process'[q] = Free <=> process[q] = Free
              /\ process[q] # Free => /\ process'[q].service = process[q].service
                                      /\ process'[q].term = process[q].term
         /\ p \notin HasPort("tee") => \A q \in Pids \ {p} : process'[q] = process[q]
<1>1. ASSUME NEW q \in Pids \ {p}
      PROVE  /\ process'[q] = Free <=> process[q] = Free
             /\ process[q] # Free => /\ process'[q].service = process[q].service
                                     /\ process'[q].term = process[q].term
  <2>1. CASE q \in Running("proxy") /\ p \in HasPort("tee")
    <3>1. process'[q] = [process[q] EXCEPT !.seesNode = FALSE]
      BY <2>1 DEF Dies
    <3>2. process[q] \in Processes
      BY <2>1 DEF Running, LocalTypes, Free
    <3>3. process'[q].service = process[q].service /\ process'[q].term = process[q].term
      BY <3>1, <3>2 DEF Processes
    <3> QED BY <2>1, <3>3 DEF Running, Free
  <2>2. CASE ~(q \in Running("proxy") /\ p \in HasPort("tee"))
    BY <2>2 DEF Dies, LocalTypes
  <2> QED BY <2>1, <2>2
<1>2. p \notin HasPort("tee") => \A q \in Pids \ {p} : process'[q] = process[q]
  BY DEF Dies, LocalTypes
<1> QED BY <1>1, <1>2

LEMMA LInvInit == Init => LInv
<1> SUFFICES ASSUME Init PROVE LInv
  OBVIOUS
<1>1. SInv
  BY SInvInit
<1>2. \A s \in Services : Running(s) = {}
  BY FreeIsNoService DEF Init, Running
<1>3. TermInv /\ CalmInv
  BY <1>2, FreeIsNoService
  DEF Init, TermInv, CalmInv, Ready, Services
<1> QED BY <1>1, <1>3 DEF LInv

LEMMA TermKept == LInv /\ [Next]_vars => TermInv'
<1> SUFFICES ASSUME LInv, [Next]_vars PROVE TermInv'
  OBVIOUS
<1> USE NoZero, FreeIsNoService
    DEF LInv, SInv, LocalTypes, Cleared, TermInv, Services, Alive, Running
<1>1. CASE StartServices \/ StopServices \/ Start
  <2>1. CASE \/ StartServices \/ StopServices \/ AlreadyRunning \/ UrlReady \/ UrlTimesOut
    BY <2>1 DEF StartServices, StopServices, AlreadyRunning, UrlReady, UrlTimesOut
  <2>2. CASE NotRunning
    BY <2>2 DEF NotRunning
  <2>3. CASE Fork
    BY <2>3 DEF Fork, Spawn
  <2>4. CASE Record
    BY <2>4 DEF Record
  <2> QED BY <1>1, <2>1, <2>2, <2>3, <2>4 DEF Start
<1>2. CASE Stop
  <2>1. CASE StopNothing \/ StoppedInTime
    BY <2>1 DEF StopNothing, StoppedInTime, Stopped
  <2>2. CASE Terminate
    BY <2>2 DEF Terminate, Processes
  <2>3. CASE StopForced
    BY <2>3, DiesOthers, DiesTypes DEF StopForced, Stopped
  <2> QED BY <1>2, <2>1, <2>2, <2>3 DEF Stop
<1>3. ASSUME NEW p \in Pids, Bind(p) \/ ProxyUrlSet(p) \/ FetchInfo(p) \/ Hang(p)
      PROVE  TermInv'
  <2>1. pidFile' = pidFile
    BY <1>3 DEF Bind, ProxyUrlSet, FetchInfo, Hang, scriptVars
  <2>2. CASE Bind(p)
    BY <2>1, <2>2 DEF Bind, Processes
  <2>3. CASE ProxyUrlSet(p) \/ Hang(p)
    BY <2>1, <2>3 DEF ProxyUrlSet, Hang, Processes
  <2>4. CASE FetchInfo(p)
    BY <2>1, <2>4 DEF FetchInfo, Processes
  <2> QED BY <1>3, <2>2, <2>3, <2>4
<1>4. ASSUME NEW p \in Pids, BindFails(p) \/ HandleTerm(p) \/ Crash(p) PROVE TermInv'
  BY <1>4, DiesOthers, DiesTypes DEF BindFails, HandleTerm, Crash, scriptVars
<1>5. ASSUME NEW p \in Pids, OtherStarts(p) PROVE TermInv'
  BY <1>5 DEF OtherStarts
<1>6. CASE StartAgain \/ ScriptDies \/ Reconfigure \/ UNCHANGED vars
  BY <1>6 DEF StartAgain, ScriptDies, Reconfigure, vars
<1> QED BY <1>1, <1>2, <1>3, <1>4, <1>5, <1>6 DEF Next, ProcessStep, FaultStep

\* A fault ends the calm, and while the services are being stopped nothing is
\* claimed.
LEMMA NotCalm == ASSUME ~calm' \/ Stopping' PROVE CalmInv'
BY DEF CalmInv

\* Once the services are stopped every process that still runs is stray.
LEMMA StoppedIsCalm ==
  ASSUME LocalTypes', Cleared', \A s \in Services : Noted(s)', TermInv',
         at'.stage = "stopped"
  PROVE  CalmInv'
<1>1. \A s \in Services : pidFile'[s] = 0
  BY DEF Cleared
<1>2. \A p \in Pids : process'[p] # Free => ~process'[p].term
  BY <1>1, NoZero DEF TermInv
<1>3. Running("tee")' \subseteq stray' /\ Running("proxy")' \subseteq stray'
  BY <1>1, NoZero DEF Noted, Services, Running
<1> QED BY <1>1, <1>2, <1>3 DEF CalmInv, Ready

LEMMA StopCalm == LInv /\ Stop => CalmInv'
<1> SUFFICES ASSUME LInv, Stop PROVE CalmInv'
  OBVIOUS
<1>1. SInv' /\ TermInv'
  BY StopStep, TermKept DEF LInv, Next
<1>2. CASE Terminate
  <2>1. Stopping'
    BY <1>2 DEF Terminate, Stopping, LInv, SInv, LocalTypes
  <2> QED BY <2>1, NotCalm
<1>3. CASE Stopped
  <2>1. Stopping' \/ at'.stage = "stopped"
    BY <1>3 DEF Stopped, Stopping, LInv, SInv, LocalTypes
  <2> QED BY <1>1, <2>1, NotCalm, StoppedIsCalm DEF SInv
<1> QED BY <1>2, <1>3 DEF Stop, StopNothing, StoppedInTime, StopForced

\* The scripts' steps on the way up.
LEMMA StartCalm == LInv /\ (StartServices \/ Start) => CalmInv'
<1> SUFFICES ASSUME LInv, StartServices \/ Start PROVE CalmInv'
  OBVIOUS
<1> USE NoZero, FreeIsNoService
    DEF LInv, SInv, LocalTypes, CalmInv, Blocked, Stopping, Running, HasPort, Ready, Services
<1>1. CASE StartServices
  BY <1>1 DEF StartServices, Begin
<1>2. CASE AlreadyRunning
  BY <1>2 DEF AlreadyRunning, AfterStart
<1>3. CASE NotRunning
  BY <1>3 DEF NotRunning
<1>4. CASE Fork
  BY <1>4 DEF Fork, Spawn, Alive, Cleared
<1>5. CASE Record
  BY <1>5 DEF Record, AfterStart
<1>6. CASE UrlReady
  BY <1>6 DEF UrlReady
<1>7. CASE UrlTimesOut
  <2>1. calm' => calm
    BY <1>7, Zenon DEF UrlTimesOut, Fault
  <2> QED BY <1>7, <2>1 DEF UrlTimesOut
<1> QED BY <1>1, <1>2, <1>3, <1>4, <1>5, <1>6, <1>7 DEF Start

\* The processes' steps: only one that finds its port taken ends, and then
\* another one has the port.
LEMMA ProcessCalm == LInv /\ ProcessStep => CalmInv'
<1> SUFFICES ASSUME LInv, NEW p \in Pids,
                    \/ Bind(p) \/ BindFails(p) \/ ProxyUrlSet(p) \/ FetchInfo(p)
                    \/ HandleTerm(p)
             PROVE  CalmInv'
  BY DEF ProcessStep
<1> USE NoZero, FreeIsNoService
    DEF LInv, SInv, LocalTypes, CalmInv, Blocked, Stopping, Running, HasPort, Ready, Services,
        scriptVars, Processes, Phases
<1>1. CASE Bind(p)
  BY <1>1 DEF Bind
<1>2. CASE ProxyUrlSet(p)
  BY <1>2 DEF ProxyUrlSet
<1>3. CASE FetchInfo(p)
  <2>1. PICK n \in Ready("tee") :
          process' = [process EXCEPT ![p].phase = "ready", ![p].ext = process[n].ext,
                                     ![p].seesNode = TRUE]
    BY <1>3 DEF FetchInfo
  <2>2. process[p].service = "proxy" /\ process[p] \in Processes
    <3>1. process[p].service = "proxy"
      BY <1>3 DEF FetchInfo
    <3>2. process[p] # Free
      BY <3>1 DEF Free
    <3> QED BY <3>1, <3>2
  <2>3. /\ \A q \in Pids \ {p} : process'[q] = process[q]
        /\ process'[p].service = "proxy" /\ process'[p].phase = "ready"
        /\ process'[p].ext = process[n].ext /\ process'[p].seesNode
        /\ process'[p].term = process[p].term
    BY <2>1, <2>2
  <2>4. UNCHANGED scriptVars /\ UNCHANGED stray
    BY <1>3 DEF FetchInfo
  <2>5. calm /\ ~Stopping => process[n].ext = configured \/ n \in stray
    OBVIOUS
  <2>6. SUFFICES ASSUME calm', ~Stopping' PROVE CalmInv'
    OBVIOUS
  <2>7. UNCHANGED <<pidFile, at, configured, calm, faults, stray>> /\ calm /\ ~Stopping
    BY <2>4, <2>6
  <2>8. Running("tee")' = Running("tee") /\ Running("proxy")' = Running("proxy")
    BY <2>2, <2>3
  <2>9. /\ \A s \in Services : Running(s)' = Running(s)
        /\ \A s \in Services : Blocked(s) => Blocked(s)'
    BY <2>2, <2>3, <2>7, <2>8
  <2>10. \A q \in Pids : process'[q] # Free => process[q] # Free /\ process'[q].term = process[q].term
    BY <2>2, <2>3
  <2>11. /\ \A q \in Pids : process'[q] # Free => ~process'[q].term
         /\ at.stage \in {"check", "fork", "record"} => at.ext = configured
         /\ at.stage = "record" => at.pid \in Running(at.service)' \/ Blocked(at.service)'
         /\ \A s \in Services : pidFile[s] # 0 => pidFile[s] \in Running(s)' \/ Blocked(s)'
    BY <2>7, <2>9, <2>10
  <2>12. \A q \in Running("tee")' \ stray : process'[q].ext = configured
    BY <2>2, <2>3, <2>7, <2>8
  <2>13. \A q \in Ready("proxy")' \ stray :
           (process'[q].seesNode /\ process'[q].ext = configured) \/ Blocked("tee")'
    <3> TAKE q \in Ready("proxy")' \ stray
    <3>1. CASE q = p
      BY <2>3, <2>5, <2>7, <2>9, <3>1
    <3>2. CASE q # p
      BY <2>3, <2>7, <2>9, <3>2
    <3> QED BY <3>1, <3>2
  <2>14. at.stage = "started" => Ready("proxy")' # {}
    BY <2>2, <2>3, <2>8
  <2> QED BY <2>7, <2>11, <2>12, <2>13, <2>14
<1>4. CASE BindFails(p)
  BY <1>4, DiesOthers, DiesTypes DEF BindFails, Cleared, Noted
<1>5. CASE HandleTerm(p)
  BY <1>5 DEF HandleTerm
<1> QED BY <1>1, <1>2, <1>3, <1>4, <1>5

LEMMA CalmKept == LInv /\ [Next]_vars => CalmInv'
<1> SUFFICES ASSUME LInv, [Next]_vars PROVE CalmInv'
  OBVIOUS
<1>1. CASE FaultStep
  <2>1. ~calm'
    BY <1>1 DEF FaultStep, StartAgain, ScriptDies, Reconfigure, Crash, Hang, OtherStarts, Fault
  <2> QED BY <2>1, NotCalm
<1>2. CASE StopServices
  <2>1. Stopping'
    BY <1>2 DEF StopServices, Stopping, LInv, SInv, LocalTypes
  <2> QED BY <2>1, NotCalm
<1>3. CASE UNCHANGED vars
  BY <1>3 DEF vars, LInv, CalmInv, Blocked, Stopping, Running, HasPort, Ready
<1> QED BY <1>1, <1>2, <1>3, StartCalm, StopCalm, ProcessCalm DEF Next

-----------------------------------------------------------------------------
LEMMA SInvKept == SInv /\ [Next]_vars => SInv'
BY ScriptStep, ForkStep, StopStep, ProcessKeeps, ScriptDiesStep, ReconfigureStep
   DEF Next, Start, FaultStep

\* In every behaviour a service that runs is written down, about to be, or
\* stray; and as long as nothing has gone wrong since the last stop, what is
\* written down runs, or has found its port taken by a stray process.
THEOREM LocalInvariant == Spec => []LInv
<1>1. LInv /\ [Next]_vars => LInv'
  BY SInvKept, TermKept, CalmKept DEF LInv
<1> QED BY LInvInit, <1>1, PTL DEF Spec

\* Behind a stop-services.sh that has ended no service runs that a script has
\* written down, whatever died, hung, was started twice or had its number used
\* again before (e2e.sh:52-87).
THEOREM LocalStopMeansStopped == Spec => []StopMeansStopped
<1>1. LInv => StopMeansStopped
  <2> SUFFICES ASSUME LInv, at.stage = "stopped", NEW s \in Services, NEW p \in Running(s)
               PROVE  p \in stray
    BY DEF StopMeansStopped
  <2>1. pidFile[s] = 0
    BY DEF LInv, SInv, Cleared
  <2>2. p # 0
    BY NoZero DEF Running
  <2> QED BY <2>1, <2>2 DEF LInv, SInv, Noted
<1> QED BY <1>1, LocalInvariant, PTL

\* If no service has died since the last stop and none runs unrecorded, a PID
\* file names a process of its own service: e2e.sh:35 does not skip a start for
\* some other program, and e2e.sh:71 does not kill one.
THEOREM LocalRecordsTruthful == Spec => []RecordsTruthful
<1>1. LInv => RecordsTruthful
  BY DEF LInv, CalmInv, Blocked, RecordsTruthful
<1> QED BY <1>1, LocalInvariant, PTL

\* "Services started", after a stop and with nothing gone wrong since, means
\* that the proxy reports the node that runs, with the configured extension,
\* whatever the order in which the processes come up.
THEOREM LocalStartedMeansServing == Spec => []StartedMeansServing
<1>1. LInv => StartedMeansServing
  BY DEF LInv, CalmInv, Blocked, Stopping, StartedMeansServing, Serving
<1> QED BY <1>1, LocalInvariant, PTL
=============================================================================
