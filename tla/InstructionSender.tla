-------------------------- MODULE InstructionSender --------------------------
(***************************************************************************)
(* contracts/InstructionSender.sol, deployed at several addresses, and the   *)
(* extension registry it calls (external: TEE_EXTENSION_REGISTRY and         *)
(* TEE_MACHINE_REGISTRY).  Public extension ids are given out one by one     *)
(* from FirstPublicId on.  A call that reverts changes nothing, so it is an  *)
(* action that is not enabled.                                              *)
(***************************************************************************)
EXTENDS Integers, Sequences, FiniteSets

CONSTANTS
  Senders,        \* addresses of InstructionSender contracts
  Machines,       \* TEE machines
  FirstPublicId   \* 0x10000 in the code

ASSUME SenderAssumption == FirstPublicId \in Nat \ {0}

VARIABLES
  deployed,     \* the contracts deployed so far
  extensionId,  \* _extensionId of each contract, 0 when not set
  extensions,   \* the instructions sender of each public extension, by order
  machineOf,    \* the extension each machine is registered for, or 0
  status,       \* the registry's status of each machine
  active        \* the machines the registry lists as active, and draws from

contractVars == <<deployed, extensionId, extensions, machineOf, status, active>>

Statuses == {"NONE", "INITIALIZED", "PRODUCTION", "SUSPENDED", "PAUSED", "BANNED"}

ContractInit ==
  /\ deployed = {}
  /\ extensionId = [s \in Senders |-> 0]
  /\ extensions = <<>>
  /\ machineOf = [m \in Machines |-> 0]
  /\ status = [m \in Machines |-> "NONE"]
  /\ active = {}

NextPublicExtensionId == FirstPublicId + Len(extensions)
PublicIds == FirstPublicId .. (NextPublicExtensionId - 1)
SenderOf(id) == extensions[id - FirstPublicId + 1]

\* The constructor: the registry addresses are checked, nothing is stored yet.
DeployContract(s) ==
  /\ s \notin deployed
  /\ deployed' = deployed \cup {s}
  /\ UNCHANGED <<extensionId, extensions, machineOf, status, active>>

\* The registry's register(): anyone may name any contract as the sender.
RegisterExtension(s) ==
  /\ extensions' = Append(extensions, s)
  /\ UNCHANGED <<deployed, extensionId, machineOf, status, active>>

\* Mutant: the scan keeps the last match.
SetExtensionIdLast(s) ==
  /\ s \in deployed
  /\ extensionId[s] = 0
  /\ \E i \in PublicIds :
       /\ SenderOf(i) = s
       /\ \A j \in PublicIds : SenderOf(j) = s => i >= j
       /\ extensionId' = [extensionId EXCEPT ![s] = i]
  /\ UNCHANGED <<deployed, extensions, machineOf, status, active>>

\* The scan takes the first extension that names this contract.
SetExtensionId(s) ==
  /\ s \in deployed
  /\ extensionId[s] = 0
  /\ \E i \in PublicIds :
       /\ SenderOf(i) = s
       /\ \A j \in PublicIds : SenderOf(j) = s => i <= j
       /\ extensionId' = [extensionId EXCEPT ![s] = i]
  /\ UNCHANGED <<deployed, extensions, machineOf, status, active>>

\* getActiveTeeMachines: those of one extension.
GetActiveTeeMachines(id) == {m \in active : machineOf[m] = id}

\* updateKey and sign reach machine m: one drawn at random among the active ones
\* of the cached extension; the registry wants the sender of that extension to
\* be the caller.
Reaches(s, m) ==
  /\ s \in deployed
  /\ extensionId[s] # 0
  /\ m \in GetActiveTeeMachines(extensionId[s])
  /\ SenderOf(extensionId[s]) = s

\* The registry's register(): a machine is bound to its extension for good.
RegisterMachine(m, id) ==
  /\ status[m] = "NONE"
  /\ machineOf' = [machineOf EXCEPT ![m] = id]
  /\ status' = [status EXCEPT ![m] = "INITIALIZED"]
  /\ UNCHANGED <<deployed, extensionId, extensions, active>>

\* toProduction().
ToProduction(m) ==
  /\ status[m] \in {"INITIALIZED", "PAUSED"}
  /\ status' = [status EXCEPT ![m] = "PRODUCTION"]
  /\ active' = active \cup {m}
  /\ UNCHANGED <<deployed, extensionId, extensions, machineOf>>

\* pause(), by whoever owns the machine.
Pause(m) ==
  /\ status[m] = "PRODUCTION"
  /\ status' = [status EXCEPT ![m] = "PAUSED"]
  /\ active' = active \ {m}
  /\ UNCHANGED <<deployed, extensionId, extensions, machineOf>>

\* The registry suspends or bans a registered machine: no one promotes it again.
Bar(m) ==
  /\ status[m] \in {"INITIALIZED", "PRODUCTION", "PAUSED"}
  /\ \E x \in {"SUSPENDED", "BANNED"} : status' = [status EXCEPT ![m] = x]
  /\ active' = active \ {m}
  /\ UNCHANGED <<deployed, extensionId, extensions, machineOf>>

\* A disabled version takes the machines of an extension off the active list,
\* whatever their status, until each is paused and promoted again.
DisableVersion(id) ==
  /\ active' = active \ GetActiveTeeMachines(id)
  /\ UNCHANGED <<deployed, extensionId, extensions, machineOf, status>>

-----------------------------------------------------------------------------
\* The cached id is that of the first extension that names the contract,
\* whenever setExtensionId is called and however many extensions name the
\* contract by then or later; so it never changes once it is set.
CachedIdIsFirst ==
  \A s \in Senders :
    extensionId[s] # 0 =>
      /\ extensionId[s] \in PublicIds /\ SenderOf(extensionId[s]) = s
      /\ \A i \in PublicIds : SenderOf(i) = s => i >= extensionId[s]
=============================================================================
