------------------------------- MODULE RunTest -------------------------------
(***************************************************************************)
(* run-test, the end-to-end client, against one registered contract: it sets *)
(* the extension id, asks the proxy for the TEE's public key, sends          *)
(* updateKey with the fixed test key, polls for the result, sends sign, polls *)
(* and recovers the signer.  The chain draws the machine of each instruction *)
(* at random; the proxy (external) hands an instruction to its node and      *)
(* stores the result.  Other clients send updates too, the node may be       *)
(* replaced, and the operator runs the test again until it passes.           *)
(***************************************************************************)
EXTENDS InstructionSender

CONSTANTS
  Contract,   \* the configured InstructionSender
  MaxFaults   \* bound on failures and on updates of other clients

ASSUME RunTestAssumption == Contract \in Senders /\ MaxFaults \in Nat

VARIABLES
  at,         \* the step the client is in
  target,     \* the machine the key is encrypted for
  awaited,    \* the instruction it polls for, 0 when nobody will answer it
  result,     \* the result the proxy has for it
  node,       \* the machine that runs
  held,       \* the key its extension holds
  info,       \* the machine the proxy reports
  queue,      \* instructions on their way to the node
  updated,    \* this run's updateKey has been carried out
  disturbed,  \* something this run cannot help has happened to it
  faults

clientVars == <<at, target, awaited, result>>
teeVars == <<node, held, info>>
vars == <<contractVars, clientVars, teeVars, queue, updated, disturbed, faults>>

None == "none"
Ended == {"idle", "passed", "failed"}

Init ==
  /\ deployed = {Contract} /\ extensions = <<Contract>>
  /\ extensionId = [s \in Senders |-> 0]
  /\ \E m \in Machines :
       /\ node = m /\ info = m
       /\ machineOf \in {[n \in Machines |-> 0],
                         [n \in Machines |-> IF n = m THEN FirstPublicId ELSE 0]}
  /\ status = [m \in Machines |-> IF machineOf[m] = 0 THEN "NONE" ELSE "PRODUCTION"]
  /\ active = {m \in Machines : machineOf[m] # 0}
  /\ held = None /\ queue = {}
  /\ at = "idle" /\ target = None /\ awaited = 0 /\ result = None
  /\ updated = FALSE /\ disturbed = FALSE /\ faults = 0

Fault ==
  /\ faults < MaxFaults
  /\ faults' = faults + 1

\* The next instruction id: one that no pending instruction has.
NewId ==
  CHOOSE i \in 1 .. Cardinality(queue) + 2 : i \notin {q.id : q \in queue} \cup {awaited}

\* One TEE runs, the proxy knows it, it is the only one in production, and no
\* other key is on its way to it.
Healthy ==
  /\ info = node
  /\ {m \in Machines : machineOf[m] # 0} = {node}
  /\ \A q \in queue : q.key # "other"

-----------------------------------------------------------------------------
(* The client.                                                              *)

Begin ==
  /\ at \in Ended /\ at' = "setId"
  /\ target' = None /\ awaited' = 0 /\ result' = None
  /\ updated' = FALSE
  /\ disturbed' = ~Healthy
  /\ UNCHANGED <<contractVars, teeVars, queue, faults>>

\* Mutant: an id that is set already is an error like any other.
TestSetsIdStrict ==
  /\ at = "setId"
  /\ \/ SetExtensionId(Contract) /\ at' = "info"
     \/ extensionId[Contract] # 0 /\ at' = "failed" /\ UNCHANGED contractVars
  /\ UNCHANGED <<target, awaited, result, teeVars, queue, updated, disturbed, faults>>

\* "Already set", by an earlier run or by anyone meanwhile, is as good.
TestSetsId ==
  /\ at = "setId" /\ at' = "info"
  /\ \/ SetExtensionId(Contract)
     \/ extensionId[Contract] # 0 /\ UNCHANGED contractVars
  /\ UNCHANGED <<target, awaited, result, teeVars, queue, updated, disturbed, faults>>

\* Mutant: the error of TeeInfo is ignored.
FetchInfoUnchecked ==
  /\ at = "info" /\ at' = "update"
  /\ target' \in {info, None}
  /\ UNCHANGED <<contractVars, awaited, result, teeVars, queue, updated, disturbed, faults>>

FetchInfo ==
  /\ at = "info" /\ at' = "update"
  /\ target' = info
  /\ UNCHANGED <<contractVars, awaited, result, teeVars, queue, updated, disturbed, faults>>

\* The instruction goes to a machine in production; the client's proxy answers
\* for its own node only.
Send(m, instruction) ==
  /\ Reaches(Contract, m)
  /\ awaited' = IF m = node THEN NewId ELSE 0
  /\ queue' = IF m = node THEN queue \cup {instruction} ELSE queue
  /\ result' = None
  /\ UNCHANGED <<contractVars, target, teeVars, updated, disturbed, faults>>

SendUpdateKey(m) ==
  /\ at = "update" /\ at' = "pollUpdate"
  /\ Send(m, [id |-> NewId, opCommand |-> "UPDATE", for |-> target, key |-> "test"])

SendSign(m) ==
  /\ at = "sign" /\ at' = "pollSign"
  /\ Send(m, [id |-> NewId, opCommand |-> "SIGN", for |-> None, key |-> None])

\* No machine is in production for the extension: the registry reverts.
SendReverts ==
  /\ at \in {"update", "sign"} /\ at' = "failed"
  /\ ~\E m \in Machines : Reaches(Contract, m)
  /\ UNCHANGED <<contractVars, target, awaited, result, teeVars, queue, updated, disturbed, faults>>

\* Mutant: any result of updateKey will do.
PollUpdateAnyStatus ==
  /\ at = "pollUpdate" /\ result # None
  /\ at' = "sign"
  /\ UNCHANGED <<contractVars, target, awaited, result, teeVars, queue, updated, disturbed, faults>>

PollUpdate ==
  /\ at = "pollUpdate" /\ result # None
  /\ at' = IF result = "updated" THEN "sign" ELSE "failed"
  /\ UNCHANGED <<contractVars, target, awaited, result, teeVars, queue, updated, disturbed, faults>>

PollSign ==
  /\ at = "pollSign" /\ result # None
  /\ at' = IF result = "test" THEN "passed" ELSE "failed"
  /\ UNCHANGED <<contractVars, target, awaited, result, teeVars, queue, updated, disturbed, faults>>

\* ActionResult asks fifteen times.  It may give up on a result that is only
\* late: the instruction is carried out all the same.
GiveUp ==
  /\ at \in {"pollUpdate", "pollSign"} /\ result = None
  /\ at' = "failed"
  /\ IF \E q \in queue : q.id = awaited
     THEN Fault /\ disturbed' = TRUE
     ELSE UNCHANGED <<faults, disturbed>>
  /\ UNCHANGED <<contractVars, target, awaited, result, teeVars, queue, updated>>

\* A request to the chain or the proxy fails.
RequestFails ==
  /\ at \notin Ended /\ at' = "failed"
  /\ Fault /\ disturbed' = TRUE
  /\ UNCHANGED <<contractVars, target, awaited, result, teeVars, queue, updated>>

-----------------------------------------------------------------------------
(* The node and its extension, as KeyRegister promises: a key that the node   *)
(* can decrypt replaces the one held, and sign uses the one held.            *)

Outcome(q) ==
  IF q.opCommand = "SIGN" THEN IF held = None THEN "refused" ELSE held
  ELSE IF q.for = node THEN "updated" ELSE "refused"

\* Instructions are carried out in any order.
Answers(q) ==
  /\ queue' = queue \ {q}
  /\ held' = IF Outcome(q) = "updated" THEN q.key ELSE held
  /\ IF q.id = awaited
     THEN /\ result' = Outcome(q)
          /\ updated' = (updated \/ Outcome(q) = "updated")
     ELSE UNCHANGED <<result, updated>>
  /\ UNCHANGED <<contractVars, at, target, awaited, node, info, disturbed, faults>>

-----------------------------------------------------------------------------
(* Everyone else.                                                           *)

\* Anyone may call setExtensionId.
OtherSetsId ==
  /\ SetExtensionId(Contract)
  /\ UNCHANGED <<clientVars, teeVars, queue, updated, disturbed, faults>>

\* Another client sets a key: its own, or the fixed one of another run-test.
OtherUpdates(key) ==
  /\ Reaches(Contract, node)
  /\ Fault
  /\ queue' = queue \cup {[id |-> NewId, opCommand |-> "UPDATE", for |-> node, key |-> key]}
  /\ disturbed' = (disturbed \/ key = "other")
  /\ UNCHANGED <<contractVars, clientVars, teeVars, updated>>

Unused == {m \in Machines : machineOf[m] = 0 /\ m # node}

\* The node dies, and its key with it; a new one comes up behind the proxy,
\* which still reports the old one.
NodeRestarts ==
  /\ Fault
  /\ node' \in Unused
  /\ held' = None /\ queue' = {}
  /\ disturbed' = TRUE
  /\ UNCHANGED <<contractVars, clientVars, info, updated>>

\* Mutant: start-services.sh leaves the proxy running.
StartServicesKeepsProxy ==
  /\ info # node
  /\ node' \in Unused
  /\ held' = None /\ queue' = {}
  /\ disturbed' = TRUE
  /\ UNCHANGED <<contractVars, clientVars, info, updated, faults>>

\* start-services.sh recreates the node and the proxy, post-build.sh puts the
\* new node into production.
StartServices ==
  /\ info # node
  /\ node' \in Unused /\ info' = node'
  /\ held' = None /\ queue' = {}
  /\ disturbed' = TRUE
  /\ UNCHANGED <<contractVars, clientVars, updated, faults>>

PostBuild ==
  /\ info = node
  /\ status[node] = "NONE"
  /\ machineOf' = [machineOf EXCEPT ![node] = FirstPublicId]
  /\ status' = [status EXCEPT ![node] = "PRODUCTION"]
  /\ active' = active \cup {node}
  /\ UNCHANGED <<deployed, extensionId, extensions>>
  /\ UNCHANGED <<clientVars, teeVars, queue, updated, disturbed, faults>>

-----------------------------------------------------------------------------
Steps ==
  \/ Begin \/ TestSetsId \/ FetchInfo \/ SendReverts
  \/ PollUpdate \/ PollSign \/ GiveUp

Next ==
  \/ Steps
  \/ \E m \in Machines : SendUpdateKey(m) \/ SendSign(m)
  \/ \E q \in queue : Answers(q)
  \/ RequestFails \/ OtherSetsId \/ NodeRestarts \/ StartServices \/ PostBuild
  \/ \E key \in {"test", "other"} : OtherUpdates(key)

Spec == Init /\ [][Next]_vars

\* The client goes on and is run again until it passes, the node answers,
\* and the operator repairs the services.  The draw of the chain picks the
\* running machine again and again.
FairSpec ==
  /\ Spec
  /\ WF_vars(at # "passed" /\ Steps)
  /\ WF_vars(\E q \in queue : Answers(q))
  /\ WF_vars(StartServices) /\ WF_vars(PostBuild)
  /\ WF_vars(\E m \in Machines : SendUpdateKey(m) \/ SendSign(m))
  /\ SF_vars(SendUpdateKey(node)) /\ SF_vars(SendSign(node))

-----------------------------------------------------------------------------
Instructions ==
  [id : Nat, opCommand : {"UPDATE", "SIGN"}, for : Machines \cup {None},
   key : {"test", "other", None}]

TypeOK ==
  /\ deployed = {Contract} /\ extensions = <<Contract>>
  /\ extensionId \in [Senders -> {0, FirstPublicId}]
  /\ machineOf \in [Machines -> {0, FirstPublicId}]
  /\ status = [m \in Machines |-> IF machineOf[m] = 0 THEN "NONE" ELSE "PRODUCTION"]
  /\ active = {m \in Machines : machineOf[m] # 0}
  /\ at \in Ended \cup {"setId", "info", "update", "pollUpdate", "sign", "pollSign"}
  /\ target \in Machines \cup {None}
  /\ at \in {"update", "pollUpdate", "sign", "pollSign"} => target \in Machines
  /\ awaited \in Nat
  /\ result \in {None, "refused", "updated", "test", "other"}
  /\ node \in Machines /\ info \in Machines
  /\ held \in {None, "test", "other"}
  /\ queue \subseteq Instructions
  /\ updated \in BOOLEAN /\ disturbed \in BOOLEAN /\ faults \in 0 .. MaxFaults

\* A test that fails has been disturbed: nothing failed or timed out, no
\* machine was replaced, none but the running one is in production and no
\* other key came in => it passes, whoever calls setExtensionId, however many
\* runs of the test overlap and whatever earlier runs left behind.
FailureExplained == at = "failed" => disturbed

\* A test that passes has had its own updateKey carried out, by the node it
\* asked: an answer to another run's update, or one that was refused, never
\* lets it through.  (Which key made the signature is another question: a node
\* replaced in between may have the test key from another run.)
PassesOnOwnUpdate == at = "passed" => updated

\* The test, run again after failures and repairs, passes.
EventuallyPasses == <>(at = "passed")
=============================================================================
