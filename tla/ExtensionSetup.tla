--------------------------- MODULE ExtensionSetup ---------------------------
(***************************************************************************)
(* The deployment pipeline: pre-build.sh (deploy-contract, register-         *)
(* extension and SetupExtension, then config/extension.env), start-         *)
(* services.sh, post-build.sh (allow-tee-version, set-governance, and        *)
(* register-tee by its effect, see Registration) and test.sh.  Each step may *)
(* fail; the operator then runs the script again, and may force pre-build,   *)
(* run register-extension by hand, edit .env, pause a machine or lose the    *)
(* node, at any point; the registry's operators may bar a machine or disable *)
(* its version.                                                             *)
(***************************************************************************)
EXTENDS InstructionSender, Accounts

CONSTANTS
  DotEnvs,    \* the .env files the operator uses
  MaxFaults   \* bound on failed steps, and on what the operator does besides


VARIABLES
  pb,             \* where pre-build.sh is
  account,        \* the account it sends its transactions from
  shell,          \* its INSTRUCTION_SENDER and EXTENSION_ID so far
  env,            \* config/extension.env
  ownerOf,        \* the account that registered each extension, by order
  machineOwners,  \* extensions whose machine owners include that account
  projectOwners,  \* extensions whose wallet project owners do
  keyTypes,       \* extensions that support EVM keys
  po,             \* where post-build.sh is, and the .env it read
  versions,       \* extensions with an allowed TEE version
  governanceOf,   \* the latest governance of each extension that has one
  node,           \* the TEE node running, or NoNode
  delivered,      \* instructions that reached a machine
  dotEnv,         \* .env
  local,          \* start-services.sh --local, or Docker Compose
  used,           \* what the operator has done out of the ordinary
  faults

preBuildVars == <<pb, account, shell, env>>
allowedVars == <<machineOwners, projectOwners, keyTypes>>
ownerVars == <<ownerOf, allowedVars>>
postBuildVars == <<po, versions, governanceOf>>
teeVars == <<node, delivered>>
operatorVars == <<dotEnv, local, used, faults>>
vars == <<contractVars, preBuildVars, ownerVars, postBuildVars, teeVars, operatorVars>>

Nobody == "nobody"   \* no contract and no machine: an empty variable

ASSUME SetupAssumption ==
  /\ DotEnvs \subseteq EnvFiles /\ DotEnvs # {} /\ MaxFaults \in Nat
  /\ Nobody \notin Senders

NoEnv == [ext |-> 0, sender |-> Nobody]
NoNode == [machine |-> Nobody, ext |-> 0, owner |-> Unset, gov |-> Nobody]
NoDotEnv == CHOOSE e \in DotEnvs : TRUE
Ended == {"idle", "failed", "done"}

Init ==
  /\ ContractInit
  /\ pb = "idle" /\ account = Unset /\ shell = NoEnv /\ env = NoEnv
  /\ ownerOf = <<>> /\ machineOwners = {} /\ projectOwners = {} /\ keyTypes = {}
  /\ po = [at |-> "idle", dotEnv |-> NoDotEnv]
  /\ versions = {} /\ governanceOf = <<>>
  /\ node = NoNode /\ delivered = {}
  /\ dotEnv \in DotEnvs
  /\ local \in BOOLEAN
  /\ used = {} /\ faults = 0

\* One more thing the operator does, or that goes wrong.
Fault(what) ==
  /\ faults < MaxFaults
  /\ faults' = faults + 1
  /\ used' = used \cup what
  /\ UNCHANGED local

-----------------------------------------------------------------------------
(* pre-build.sh.  Without --force it reuses an extension.env that is there,  *)
(* and exits with 0.                                                        *)

\* Mutant: the guard against an existing extension.env is missing.
StartUnguarded ==
  /\ pb \in Ended
  /\ pb' = "deploy" /\ account' = DefaultPrivateKey(dotEnv)
  /\ shell' = NoEnv
  /\ UNCHANGED <<contractVars, env, ownerVars, postBuildVars, teeVars, operatorVars>>

Start ==
  /\ pb \in Ended
  /\ IF env = NoEnv THEN pb' = "deploy" /\ account' = DefaultPrivateKey(dotEnv)
     ELSE pb' = "done" /\ account' = Unset
  /\ shell' = NoEnv
  /\ UNCHANGED <<contractVars, env, ownerVars, postBuildVars, teeVars, operatorVars>>

StartForced ==
  /\ pb \in Ended
  /\ pb' = "deploy" /\ account' = DefaultPrivateKey(dotEnv)
  /\ shell' = NoEnv
  /\ Fault({"force"})
  /\ UNCHANGED <<contractVars, env, ownerVars, postBuildVars, teeVars, dotEnv>>

\* Mutant: a contract deployed by an earlier run is taken again.
DeployOrReuse ==
  /\ pb = "deploy"
  /\ \E s \in Senders :
       /\ IF s \in deployed THEN UNCHANGED contractVars ELSE DeployContract(s)
       /\ shell' = [ext |-> 0, sender |-> s]
  /\ pb' = "register"
  /\ UNCHANGED <<account, env, ownerVars, postBuildVars, teeVars, operatorVars>>

Deploy ==
  /\ pb = "deploy"
  /\ \E s \in Senders : DeployContract(s) /\ shell' = [ext |-> 0, sender |-> s]
  /\ pb' = "register"
  /\ UNCHANGED <<account, env, ownerVars, postBuildVars, teeVars, operatorVars>>

OwnerOf(id) == ownerOf[id - FirstPublicId + 1]
RegisterAs(a, sender) == RegisterExtension(sender) /\ ownerOf' = Append(ownerOf, a)

\* Mutant: the id is one too low.
RegisterOffByOne ==
  /\ pb = "register"
  /\ RegisterAs(account, shell.sender)
  /\ shell' = [shell EXCEPT !.ext = NextPublicExtensionId - 1]
  /\ pb' = "machineOwners"
  /\ UNCHANGED <<account, env, allowedVars, postBuildVars, teeVars, operatorVars>>

\* SetupExtension: a new id, then the owners and the key type it is missing.
Register ==
  /\ pb = "register"
  /\ RegisterAs(account, shell.sender)
  /\ shell' = [shell EXCEPT !.ext = NextPublicExtensionId]
  /\ pb' = "machineOwners"
  /\ UNCHANGED <<account, env, allowedVars, postBuildVars, teeVars, operatorVars>>

AllowTeeMachineOwners ==
  /\ pb = "machineOwners" /\ pb' = "projectOwners"
  /\ machineOwners' = machineOwners \cup {shell.ext}
  /\ UNCHANGED <<contractVars, account, shell, env, ownerOf, projectOwners, keyTypes,
                 postBuildVars, teeVars, operatorVars>>

AllowTeeProjectManagerOwners ==
  /\ pb = "projectOwners" /\ pb' = "keyTypes"
  /\ projectOwners' = projectOwners \cup {shell.ext}
  /\ UNCHANGED <<contractVars, account, shell, env, ownerOf, machineOwners, keyTypes,
                 postBuildVars, teeVars, operatorVars>>

AddSupportedKeyTypes ==
  /\ pb = "keyTypes" /\ pb' = "write"
  /\ keyTypes' = keyTypes \cup {shell.ext}
  /\ UNCHANGED <<contractVars, account, shell, env, ownerOf, machineOwners, projectOwners,
                 postBuildVars, teeVars, operatorVars>>

\* Mutant: extension.env is written as soon as the id is known.
WriteConfigEarly ==
  /\ pb \in {"machineOwners", "write"}
  /\ env' = shell
  /\ IF pb = "write" THEN pb' = "done" /\ account' = Unset ELSE UNCHANGED <<pb, account>>
  /\ UNCHANGED <<contractVars, shell, ownerVars, postBuildVars, teeVars, operatorVars>>

WriteConfig ==
  /\ pb = "write" /\ pb' = "done" /\ account' = Unset
  /\ env' = shell
  /\ UNCHANGED <<contractVars, shell, ownerVars, postBuildVars, teeVars, operatorVars>>

\* A step fails, or the script is interrupted.  The registration may be
\* mined although nobody waits for it any longer; extension.env, once
\* truncated to be written, may stay without its entries.
PreBuildFails ==
  /\ pb \notin Ended /\ pb' = "failed" /\ account' = Unset
  /\ \/ UNCHANGED <<contractVars, ownerOf>>
     \/ pb = "register" /\ RegisterAs(account, shell.sender)
  /\ \/ UNCHANGED env
     \/ pb = "write" /\ env' = NoEnv
  /\ Fault({})
  /\ UNCHANGED <<shell, allowedVars, postBuildVars, teeVars, dotEnv>>

\* register-extension by hand, for a contract already deployed: SetupExtension
\* mints one more extension for it.
RegisterByHand ==
  /\ \E s \in deployed : RegisterAs(DefaultPrivateKey(dotEnv), s)
  /\ machineOwners' = machineOwners \cup {NextPublicExtensionId}
  /\ projectOwners' = projectOwners \cup {NextPublicExtensionId}
  /\ keyTypes' = keyTypes \cup {NextPublicExtensionId}
  /\ Fault({"byHand"})
  /\ UNCHANGED <<preBuildVars, postBuildVars, teeVars, dotEnv>>

-----------------------------------------------------------------------------
(* start-services.sh and post-build.sh.                                     *)

Unused == {m \in Machines : machineOf[m] = 0 /\ node.machine # m}
NewNode(m) ==
  [machine |-> m, ext |-> env.ext, owner |-> NodeOwner(dotEnv, local),
   gov |-> NodeGovernance(dotEnv, local)]
Current(n) == \E m \in Machines : n = NewNode(m)

\* Mutant: docker compose up without --force-recreate.
StartServicesOnce ==
  /\ env # NoEnv
  /\ node = NoNode
  /\ \E m \in Unused : node' = NewNode(m)
  /\ UNCHANGED <<contractVars, preBuildVars, ownerVars, postBuildVars, delivered, operatorVars>>

\* Docker Compose recreates the node, with a new key pair; e2e.sh start, in
\* --local mode, leaves a running one alone.
StartServices ==
  /\ env # NoEnv
  /\ ~Current(node)
  /\ local => node = NoNode
  /\ \E m \in Unused : node' = NewNode(m)
  /\ UNCHANGED <<contractVars, preBuildVars, ownerVars, postBuildVars, delivered, operatorVars>>

\* The node dies and is started again with what is configured now.
RestartServices ==
  /\ node # NoNode /\ env # NoEnv
  /\ \E m \in Unused : node' = NewNode(m)
  /\ Fault({})
  /\ UNCHANGED <<contractVars, preBuildVars, ownerVars, postBuildVars, delivered, dotEnv>>

\* post-build.sh asks the proxy for the extension in each step.  A version or
\* a governance that is there already is left alone; others only the owner of
\* the extension can set.
PostBuildStarts ==
  /\ po.at = "idle" /\ node # NoNode
  /\ po' = [at |-> "version", dotEnv |-> dotEnv]
  /\ UNCHANGED <<contractVars, preBuildVars, ownerVars, versions, governanceOf, teeVars, operatorVars>>

PoEnds == po' = [at |-> "idle", dotEnv |-> NoDotEnv]
MayGovern == OwnerOf(node.ext) = ExtensionOwnerKey(po.dotEnv)

AllowTeeVersion ==
  /\ po.at = "version"
  /\ IF node.ext \in versions \/ MayGovern
     THEN versions' = versions \cup {node.ext} /\ po' = [po EXCEPT !.at = "governance"]
     ELSE PoEnds /\ UNCHANGED versions
  /\ UNCHANGED <<contractVars, preBuildVars, ownerVars, governanceOf, teeVars, operatorVars>>

IsLatest(g) == node.ext \in DOMAIN governanceOf /\ governanceOf[node.ext] = g

SetTeeGovernance ==
  /\ po.at = "governance"
  /\ LET g == ToolGovernance(po.dotEnv) IN
       IF ValidGovernance(g) /\ (IsLatest(g) \/ MayGovern)
       THEN /\ governanceOf' = [e \in DOMAIN governanceOf \cup {node.ext} |->
                                  IF e = node.ext THEN g ELSE governanceOf[e]]
            /\ po' = [po EXCEPT !.at = "register"]
       ELSE PoEnds /\ UNCHANGED governanceOf
  /\ UNCHANGED <<contractVars, preBuildVars, ownerVars, versions, teeVars, operatorVars>>

\* The registry takes a TEE of an allowed owner and version that signs with
\* the governance of its extension.
Registrable ==
  /\ node.ext \in machineOwners \cap versions
  /\ node.owner = OwnerOf(node.ext)
  /\ IsLatest(node.gov)

RegisterTee ==
  /\ po.at = "register"
  /\ IF status[node.machine] = "NONE" /\ Registrable
     THEN RegisterMachine(node.machine, node.ext) ELSE UNCHANGED contractVars
  /\ IF status'[node.machine] = "NONE" THEN PoEnds ELSE po' = [po EXCEPT !.at = "promote"]
  /\ UNCHANGED <<preBuildVars, ownerVars, versions, governanceOf, teeVars, operatorVars>>

\* The data providers attest the node that runs; one that has been replaced
\* meanwhile stays as it is.
PromoteTee ==
  /\ po.at = "promote"
  /\ IF status[node.machine] \in {"INITIALIZED", "PAUSED"} /\ Registrable
     THEN ToProduction(node.machine) ELSE UNCHANGED contractVars
  /\ PoEnds
  /\ UNCHANGED <<preBuildVars, ownerVars, versions, governanceOf, teeVars, operatorVars>>

\* The machine's owner pauses it.
PauseTee ==
  /\ \E m \in Machines : Pause(m)
  /\ Fault({})
  /\ UNCHANGED <<preBuildVars, ownerVars, postBuildVars, teeVars, dotEnv>>

\* The registry suspends or bans a machine.
BarTee ==
  /\ \E m \in Machines : Bar(m)
  /\ Fault({})
  /\ UNCHANGED <<preBuildVars, ownerVars, postBuildVars, teeVars, dotEnv>>

\* The version of the machines of an extension is disabled, until post-build.sh
\* allows it again.
VersionDisabled ==
  /\ \E id \in versions : DisableVersion(id) /\ versions' = versions \ {id}
  /\ Fault({})
  /\ UNCHANGED <<preBuildVars, ownerVars, po, governanceOf, teeVars, dotEnv>>

PostBuildFails ==
  /\ po.at # "idle"
  /\ PoEnds
  /\ Fault({})
  /\ UNCHANGED <<contractVars, preBuildVars, ownerVars, versions, governanceOf, teeVars, dotEnv>>

EditDotEnv ==
  /\ dotEnv' \in DotEnvs \ {dotEnv}
  /\ Fault({"dotEnv"})
  /\ UNCHANGED <<contractVars, preBuildVars, ownerVars, postBuildVars, teeVars>>

-----------------------------------------------------------------------------
(* test.sh.  run-test calls setExtensionId first and takes "already set" for *)
(* success.                                                                 *)

TestSetsId ==
  /\ env # NoEnv
  /\ SetExtensionId(env.sender)
  /\ UNCHANGED <<preBuildVars, ownerVars, postBuildVars, teeVars, operatorVars>>

TestSends ==
  /\ env # NoEnv
  /\ \E m \in Machines, command \in {"UPDATE", "SIGN"} :
       /\ Reaches(env.sender, m)
       /\ delivered' = delivered \cup {[from |-> env.sender, opCommand |-> command, to |-> m]}
  /\ UNCHANGED <<contractVars, preBuildVars, ownerVars, postBuildVars, node, operatorVars>>

-----------------------------------------------------------------------------
PreBuild ==
  \/ Deploy \/ Register \/ AllowTeeMachineOwners \/ AllowTeeProjectManagerOwners
  \/ AddSupportedKeyTypes \/ WriteConfig

PostBuild == AllowTeeVersion \/ SetTeeGovernance \/ RegisterTee \/ PromoteTee

Next ==
  \/ Start \/ PreBuild
  \/ StartServices
  \/ PostBuildStarts \/ PostBuild
  \/ TestSetsId \/ TestSends
  \/ PreBuildFails \/ PostBuildFails
  \/ StartForced \/ RegisterByHand \/ RestartServices \/ EditDotEnv
  \/ PauseTee \/ BarTee \/ VersionDisabled

Spec == Init /\ [][Next]_vars

\* full-setup.sh runs the scripts in turn, and the operator runs it again
\* until it ends well; nothing out of the ordinary is ever required.
FairSpec ==
  /\ Spec
  /\ WF_vars(env = NoEnv /\ Start) /\ WF_vars(PreBuild)
  /\ WF_vars(StartServices)
  /\ WF_vars(PostBuildStarts) /\ WF_vars(PostBuild)
  /\ WF_vars(TestSetsId) /\ WF_vars(TestSends)

-----------------------------------------------------------------------------
PBs == {"idle", "deploy", "register", "machineOwners", "projectOwners",
        "keyTypes", "write", "failed", "done"}
Configs == [ext : Nat, sender : Senders \cup {Nobody}]
Governances == [signers : SUBSET Addresses, threshold : Nat]

TypeOK ==
  /\ deployed \subseteq Senders
  /\ extensions \in Seq(Senders)
  /\ extensionId \in [Senders -> {0} \cup PublicIds]
  /\ machineOf \in [Machines -> {0} \cup PublicIds]
  /\ status \in [Machines -> Statuses]
  /\ \A m \in Machines : machineOf[m] = 0 <=> status[m] = "NONE"
  /\ active \subseteq {m \in Machines : status[m] = "PRODUCTION"}
  /\ pb \in PBs /\ shell \in Configs /\ env \in Configs
  /\ account \in Addresses \cup {Unset}
  /\ ownerOf \in Seq(Addresses) /\ Len(ownerOf) = Len(extensions)
  /\ machineOwners \cup projectOwners \cup keyTypes \cup versions \subseteq PublicIds
  /\ po \in [at : {"idle", "version", "governance", "register", "promote"},
             dotEnv : DotEnvs]
  /\ governanceOf \in [DOMAIN governanceOf -> Governances]
  /\ DOMAIN governanceOf \subseteq PublicIds
  /\ node \in [machine : Machines, ext : PublicIds, owner : Addresses, gov : Governances] \cup {NoNode}
  /\ delivered \subseteq [from : Senders, opCommand : {"UPDATE", "SIGN"}, to : Machines]
  /\ dotEnv \in DotEnvs /\ local \in BOOLEAN
  /\ used \subseteq {"force", "byHand", "dotEnv"}
  /\ faults \in 0 .. MaxFaults

\* extension.env never names a half-made extension, wherever pre-build.sh
\* stopped: what start-services.sh and post-build.sh read is complete.
ConfigComplete ==
  env # NoEnv =>
    /\ env.ext \in PublicIds /\ SenderOf(env.ext) = env.sender
    /\ env.ext \in machineOwners \cap projectOwners \cap keyTypes

\* The contract caches the extension that extension.env names: the scan of
\* setExtensionId and the pipeline agree, failed and forced runs included,
\* unless someone registers another extension for the contract by hand.
CachedIdIsConfigured ==
  "byHand" \notin used /\ env # NoEnv => extensionId[env.sender] \in {0, env.ext}

\* Without --force no TEE is orphaned: a registered machine belongs to the
\* extension, and listens to the contract, of extension.env (the guard of
\* pre-build.sh:69-75).
NoOrphan ==
  "force" \notin used =>
    \A m \in Machines : machineOf[m] # 0 => machineOf[m] = env.ext

\* .env is good for the extension configured: the account that registered it
\* is the one that governs it and the one the node names as its owner.
Suffices ==
  /\ ExtensionOwnerKey(dotEnv) = DefaultPrivateKey(dotEnv)
  /\ NodeOwner(dotEnv, local) = DefaultPrivateKey(dotEnv)
  /\ ValidGovernance(ToolGovernance(dotEnv))
  /\ env # NoEnv => OwnerOf(env.ext) = DefaultPrivateKey(dotEnv)

\* The node's TEE is in production or may be promoted.
Promotable ==
  node = NoNode \/ status[node.machine] \in {"NONE", "INITIALIZED", "PAUSED"}
    \/ node.machine \in active

\* The pipeline, run again after failures, ends with a TEE that instructions
\* of the configured contract reach, unless the registry has barred it or taken
\* it off the active list; in --local mode, where services that run are left
\* alone, only if extension.env and .env do not change.
EventuallyReachable ==
  <>[](Suffices /\ Promotable /\ "byHand" \notin used /\ (local => used = {})) =>
    <>[](\E i \in delivered : i.from = env.sender /\ machineOf[i.to] = env.ext)

\* set-governance and the node, from one .env, agree on the governance:
\* SCAFFOLD_SYNC_UPDATE.md:81-82, "Because post-build (set-governance) and the
\* node container read the same env vars, the on-chain governance and the
\* node's signed governanceHash always agree", whatever is left unset.
DefaultsAgree == po.at = "register" /\ used = {} => IsLatest(node.gov)
=============================================================================
