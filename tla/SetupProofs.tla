----------------------------- MODULE SetupProofs -----------------------------
(***************************************************************************)
(* The contract, the pipeline around it and the two tools that report on     *)
(* them, proved for any number of contracts, machines, extensions and        *)
(* addresses, any .env files and any number of failed and forced runs, node  *)
(* restarts and registrations by hand.                                      *)
(***************************************************************************)
EXTENDS TeeDiagnosis, FiniteSetTheorems, SequenceTheorems, TLAPS

\* What the proof needs of the types: a sender is there when an extension is
\* registered for it, and every extension has one.
SenderInv ==
  /\ extensions \in Seq(Senders)
  /\ extensionId \in [Senders -> Nat]
  /\ deployed \subseteq Senders
  /\ pb = "register" => shell.sender \in Senders

CInv == SenderInv /\ CachedIdIsFirst

-----------------------------------------------------------------------------
(* The three ways in which the contract's state and the list change.        *)

\* The ids given out so far are numbers other than zero, and keep their
\* senders when one more is given out.
LEMMA RegisterGrows ==
  ASSUME extensions \in Seq(Senders), NEW s \in Senders, RegisterExtension(s)
  PROVE  /\ extensions' \in Seq(Senders) /\ Len(extensions') = Len(extensions) + 1
         /\ PublicIds' = PublicIds \cup {NextPublicExtensionId}
         /\ \A i \in PublicIds : SenderOf(i)' = SenderOf(i) /\ i < NextPublicExtensionId
         /\ \A i : i = NextPublicExtensionId => SenderOf(i)' = s
<1>1. extensions' = Append(extensions, s)
  BY DEF RegisterExtension
<1>2. /\ extensions' \in Seq(Senders)
      /\ Len(extensions') = Len(extensions) + 1
      /\ \A i \in 1 .. Len(extensions) : extensions'[i] = extensions[i]
      /\ extensions'[Len(extensions) + 1] = s
  BY <1>1, AppendProperties
<1>3. FirstPublicId \in Nat \ {0} /\ Len(extensions) \in Nat
  BY SenderAssumption
<1>4. PublicIds' = PublicIds \cup {NextPublicExtensionId}
  BY <1>2, <1>3 DEF PublicIds, NextPublicExtensionId
<1>5. ASSUME NEW i \in PublicIds
      PROVE  SenderOf(i)' = SenderOf(i) /\ i < NextPublicExtensionId
  <2>1. /\ i - FirstPublicId + 1 \in 1 .. Len(extensions)
        /\ i < NextPublicExtensionId
    BY <1>3 DEF PublicIds, NextPublicExtensionId
  <2> QED BY <1>2, <2>1 DEF SenderOf
<1>6. ASSUME NEW i, i = NextPublicExtensionId
      PROVE  SenderOf(i)' = s
  <2>1. i - FirstPublicId + 1 = Len(extensions) + 1
    BY <1>3, <1>6 DEF NextPublicExtensionId
  <2> QED BY <1>2, <2>1 DEF SenderOf
<1> QED BY <1>2, <1>4, <1>5, <1>6

\* An extension registered later, for whatever contract, has a higher id.
LEMMA RegisterKeepsFirst ==
  ASSUME extensions \in Seq(Senders), extensionId \in [Senders -> Nat],
         CachedIdIsFirst, NEW s \in Senders, RegisterExtension(s)
  PROVE  extensions' \in Seq(Senders) /\ CachedIdIsFirst'
<1>1. extensionId' = extensionId
  BY DEF RegisterExtension
<1>2. /\ extensions' \in Seq(Senders)
      /\ PublicIds' = PublicIds \cup {NextPublicExtensionId}
      /\ \A i \in PublicIds : SenderOf(i)' = SenderOf(i) /\ i < NextPublicExtensionId
  BY RegisterGrows
<1>3. NextPublicExtensionId \in Nat
  BY SenderAssumption DEF NextPublicExtensionId
<1>4. ASSUME NEW r \in Senders, extensionId[r] # 0
      PROVE  /\ extensionId[r] \in PublicIds' /\ SenderOf(extensionId[r])' = r
             /\ \A i \in PublicIds' : SenderOf(i)' = r => i >= extensionId[r]
  <2>1. /\ extensionId[r] \in PublicIds /\ SenderOf(extensionId[r]) = r
        /\ \A i \in PublicIds : SenderOf(i) = r => i >= extensionId[r]
    BY <1>4 DEF CachedIdIsFirst
  <2>2. extensionId[r] \in PublicIds' /\ SenderOf(extensionId[r])' = r
    BY <1>1, <1>2, <2>1 DEF SenderOf
  <2>3. ASSUME NEW i \in PublicIds', SenderOf(i)' = r
        PROVE  i >= extensionId[r]
    <3>1. extensionId[r] \in Nat
      OBVIOUS
    <3>2. CASE i \in PublicIds
      BY <1>2, <2>1, <2>3, <3>2
    <3>3. CASE i = NextPublicExtensionId
      BY <1>2, <1>3, <2>1, <3>1, <3>3
    <3> QED BY <1>2, <3>2, <3>3
  <2> QED BY <2>2, <2>3
<1> QED BY <1>1, <1>2, <1>4 DEF CachedIdIsFirst, PublicIds, SenderOf

\* The scan caches the least id that names the contract.
LEMMA SetKeepsFirst ==
  ASSUME extensions \in Seq(Senders), extensionId \in [Senders -> Nat],
         CachedIdIsFirst, NEW s \in Senders, SetExtensionId(s)
  PROVE  extensionId' \in [Senders -> Nat] /\ CachedIdIsFirst'
<1>1. PICK i \in PublicIds :
        /\ SenderOf(i) = s
        /\ \A j \in PublicIds : SenderOf(j) = s => i <= j
        /\ extensionId' = [extensionId EXCEPT ![s] = i]
  BY DEF SetExtensionId
<1>2. i \in Nat /\ PublicIds \subseteq Nat
  BY SenderAssumption DEF PublicIds, NextPublicExtensionId
<1>3. extensions' = extensions
  BY DEF SetExtensionId
<1>4. ASSUME NEW r \in Senders, extensionId'[r] # 0
      PROVE  /\ extensionId'[r] \in PublicIds /\ SenderOf(extensionId'[r]) = r
             /\ \A j \in PublicIds : SenderOf(j) = r => j >= extensionId'[r]
  <2>1. CASE r = s
    BY <2>1, <1>1, <1>2
  <2>2. CASE r # s
    BY <2>2, <1>1, <1>4 DEF CachedIdIsFirst
  <2> QED BY <2>1, <2>2
<1> QED BY <1>1, <1>2, <1>3, <1>4 DEF CachedIdIsFirst, PublicIds, NextPublicExtensionId, SenderOf

\* Nothing else touches either.
LEMMA OtherwiseKeepsFirst ==
  ASSUME CachedIdIsFirst, UNCHANGED <<extensionId, extensions>>
  PROVE  CachedIdIsFirst'
BY DEF CachedIdIsFirst, PublicIds, NextPublicExtensionId, SenderOf

-----------------------------------------------------------------------------
LEMMA CInvInit == Init => CInv
<1> SUFFICES ASSUME Init PROVE CInv
  OBVIOUS
<1>1. extensions = <<>> /\ extensionId = [s \in Senders |-> 0] /\ deployed = {} /\ pb = "idle"
  BY DEF Init, ContractInit
<1> QED BY <1>1 DEF CInv, SenderInv, CachedIdIsFirst

LEMMA CInvStep == CInv /\ [Next]_vars => CInv'
<1> SUFFICES ASSUME CInv, [Next]_vars PROVE CInv'
  OBVIOUS
<1>0. SenderInv /\ CachedIdIsFirst
  BY DEF CInv
<1> DEFINE Same == UNCHANGED <<deployed, extensionId, extensions>>
<1> DEFINE SamePb == (pb' = "register") => (pb = "register" /\ shell' = shell)
<1>1. ASSUME Same, SamePb PROVE CInv'
  BY <1>0, <1>1, OtherwiseKeepsFirst DEF CInv, SenderInv
<1>2. ASSUME NEW s \in Senders, RegisterExtension(s), pb' # "register" \/ UNCHANGED <<pb, shell>>
      PROVE  CInv'
  <2>1. UNCHANGED <<deployed, extensionId>>
    BY <1>2 DEF RegisterExtension
  <2> QED BY <1>0, <1>2, <2>1, RegisterKeepsFirst DEF CInv, SenderInv
<1>3. CASE Deploy
  <2>1. PICK s \in Senders : DeployContract(s) /\ shell' = [ext |-> 0, sender |-> s]
    BY <1>3 DEF Deploy
  <2>2. deployed' = deployed \cup {s} /\ UNCHANGED <<extensionId, extensions>>
    BY <2>1 DEF DeployContract
  <2> QED BY <1>0, <2>1, <2>2, OtherwiseKeepsFirst DEF CInv, SenderInv
<1>4. CASE Register
  BY <1>0, <1>2, <1>4 DEF Register, RegisterAs, SenderInv
<1>5. CASE PreBuildFails
  <2>1. pb' = "failed"
    BY <1>5 DEF PreBuildFails
  <2>2. CASE UNCHANGED contractVars
    BY <1>1, <2>1, <2>2 DEF contractVars
  <2>3. CASE pb = "register" /\ RegisterAs(account, shell.sender)
    BY <1>0, <1>2, <2>1, <2>3 DEF RegisterAs, SenderInv
  <2> QED BY <1>5, <2>2, <2>3 DEF PreBuildFails
<1>6. CASE RegisterByHand
  <2>1. PICK s \in deployed : RegisterAs(DefaultPrivateKey(dotEnv), s)
    BY <1>6 DEF RegisterByHand
  <2>2. s \in Senders /\ UNCHANGED <<pb, shell>>
    BY <1>0, <1>6, <2>1 DEF SenderInv, RegisterByHand, preBuildVars
  <2> QED BY <1>2, <2>1, <2>2 DEF RegisterAs
<1>7. CASE TestSetsId
  <2>1. SetExtensionId(env.sender) /\ UNCHANGED <<pb, shell>>
    BY <1>7 DEF TestSetsId, preBuildVars
  <2>2. env.sender \in Senders /\ UNCHANGED <<deployed, extensions>>
    BY <1>0, <2>1 DEF SetExtensionId, SenderInv
  <2> QED BY <1>0, <2>1, <2>2, SetKeepsFirst DEF CInv, SenderInv
<1>8. CASE Start \/ StartForced \/ AllowTeeMachineOwners \/ AllowTeeProjectManagerOwners
           \/ AddSupportedKeyTypes \/ WriteConfig
  BY <1>1, <1>8 DEF Start, StartForced, AllowTeeMachineOwners, AllowTeeProjectManagerOwners,
                    AddSupportedKeyTypes, WriteConfig, contractVars
<1>9. CASE StartServices \/ RestartServices \/ PostBuildStarts \/ AllowTeeVersion \/ SetTeeGovernance
           \/ PostBuildFails \/ EditDotEnv \/ TestSends \/ UNCHANGED vars
  BY <1>1, <1>9 DEF StartServices, RestartServices, PostBuildStarts, AllowTeeVersion,
                    SetTeeGovernance, PostBuildFails, EditDotEnv, TestSends, vars,
                    contractVars, preBuildVars
<1>10. CASE RegisterTee \/ PromoteTee \/ PauseTee \/ BarTee \/ VersionDisabled
  BY <1>1, <1>10 DEF RegisterTee, PromoteTee, PauseTee, BarTee, VersionDisabled, RegisterMachine,
                     ToProduction, Pause, Bar, DisableVersion, contractVars, preBuildVars
<1> QED BY <1>3, <1>4, <1>5, <1>6, <1>7, <1>8, <1>9, <1>10 DEF Next, PreBuild, PostBuild

\* The id a contract caches is that of the first extension that names it, for
\* good, whenever setExtensionId is called (InstructionSender.sol:54-65).
THEOREM SetupCachedIdIsFirst == Spec => []CachedIdIsFirst
<1>1. Init => CInv
  BY CInvInit
<1>2. CInv /\ [Next]_vars => CInv'
  BY CInvStep
<1>3. CInv => CachedIdIsFirst
  BY DEF CInv
<1> QED BY <1>1, <1>2, <1>3, PTL DEF Spec

-----------------------------------------------------------------------------
(* What holds between the scripts' steps.                                   *)

\* What pre-build.sh has brought about so far.
PreBuildInv ==
  /\ pb \notin Ended => account \in Addresses
  /\ pb = "register" => shell.sender \in deployed
  /\ pb \in {"machineOwners", "projectOwners", "keyTypes", "write"} =>
       shell.ext \in PublicIds /\ SenderOf(shell.ext) = shell.sender
  /\ pb \in {"projectOwners", "keyTypes", "write"} => shell.ext \in machineOwners
  /\ pb \in {"keyTypes", "write"} => shell.ext \in projectOwners
  /\ pb = "write" => shell.ext \in keyTypes

\* post-build.sh runs only where a node does, and the machine of that node is
\* registered, if at all, for the node's extension.
NodeInv ==
  /\ po.at # "idle" => node # NoNode
  /\ node # NoNode /\ machineOf[node.machine] # 0 => machineOf[node.machine] = node.ext

\* Without --force, pre-build.sh runs only while extension.env is not there,
\* and everything there is comes from extension.env.
UnforcedInv ==
  "force" \notin used =>
    /\ pb \notin Ended => env = NoEnv
    /\ node # NoNode => node.ext = env.ext
    /\ \A m \in Machines : machineOf[m] # 0 => machineOf[m] = env.ext

\* An extension is registered for a contract that is there; and, unless someone
\* registers one by hand, only once.
SendersInv ==
  /\ \A i \in PublicIds : SenderOf(i) \in deployed
  /\ "byHand" \notin used =>
       /\ \A i, j \in PublicIds : SenderOf(i) = SenderOf(j) => i = j
       /\ pb = "register" => \A i \in PublicIds : SenderOf(i) # shell.sender

PInv ==
  /\ TypeOK /\ PreBuildInv /\ ConfigComplete
  /\ NodeInv /\ UnforcedInv /\ SendersInv /\ CachedIdIsFirst

-----------------------------------------------------------------------------
(* The type invariant by its parts, and what a step does to the ids.        *)

ContractTypes ==
  /\ deployed \subseteq Senders
  /\ extensions \in Seq(Senders)
  /\ extensionId \in [Senders -> {0} \cup PublicIds]
  /\ machineOf \in [Machines -> {0} \cup PublicIds]
  /\ status \in [Machines -> Statuses]
  /\ \A m \in Machines : machineOf[m] = 0 <=> status[m] = "NONE"
  /\ active \subseteq {m \in Machines : status[m] = "PRODUCTION"}

PreBuildTypes ==
  /\ pb \in PBs /\ shell \in Configs /\ env \in Configs
  /\ account \in Addresses \cup {Unset}
  /\ ownerOf \in Seq(Addresses) /\ Len(ownerOf) = Len(extensions)

RegistryTypes ==
  /\ machineOwners \cup projectOwners \cup keyTypes \cup versions \subseteq PublicIds
  /\ governanceOf \in [DOMAIN governanceOf -> Governances]
  /\ DOMAIN governanceOf \subseteq PublicIds

OperationTypes ==
  /\ po \in [at : {"idle", "version", "governance", "register", "promote"}, dotEnv : DotEnvs]
  /\ node \in [machine : Machines, ext : PublicIds, owner : Addresses, gov : Governances]
              \cup {NoNode}
  /\ delivered \subseteq [from : Senders, opCommand : {"UPDATE", "SIGN"}, to : Machines]
  /\ dotEnv \in DotEnvs /\ local \in BOOLEAN
  /\ used \subseteq {"force", "byHand", "dotEnv"}
  /\ faults \in 0 .. MaxFaults

LEMMA SetupTypesSplit ==
  TypeOK <=> ContractTypes /\ PreBuildTypes /\ RegistryTypes /\ OperationTypes
BY DEF TypeOK, ContractTypes, PreBuildTypes, RegistryTypes, OperationTypes

\* The parts of PInv but the cached ids, which CInvStep takes care of.
Pipeline ==
  /\ ContractTypes /\ PreBuildTypes /\ RegistryTypes /\ OperationTypes
  /\ PreBuildInv /\ ConfigComplete /\ NodeInv /\ UnforcedInv /\ SendersInv

\* Whatever .env says, the accounts are accounts and the governances are
\* governances.
LEMMA DotEnvTypes ==
  ASSUME NEW e \in DotEnvs, NEW l \in BOOLEAN
  PROVE  /\ DefaultPrivateKey(e) \in Addresses
         /\ NodeOwner(e, l) \in Addresses
         /\ NodeGovernance(e, l) \in Governances
         /\ ToolGovernance(e) \in Governances
<1>1. /\ e.DEPLOYMENT_PRIVATE_KEY \in Addresses \cup {Unset}
      /\ e.EXTENSION_OWNER_KEY \in Addresses \cup {Unset}
      /\ e.INITIAL_OWNER \in Addresses \cup {Unset}
      /\ e.GOVERNANCE_SIGNERS \subseteq Addresses /\ e.GOVERNANCE_THRESHOLD \in Nat
  BY SetupAssumption DEF EnvFiles
<1>2. DefaultPrivateKey(e) \in Addresses /\ ExtensionOwnerKey(e) \in Addresses
  BY <1>1, AccountsAssumption DEF DefaultPrivateKey, ExtensionOwnerKey, Or
<1>3. NodeOwner(e, l) \in Addresses
  BY <1>1, <1>2, AccountsAssumption DEF NodeOwner, Or
<1>4. ASSUME NEW a \in Addresses
      PROVE  Governance(e, a) \in Governances
  BY <1>1, <1>4 DEF Governance, Governances
<1>5. Or(e.INITIAL_OWNER, ExtensionOwnerKey(e)) \in Addresses
  BY <1>1, <1>2 DEF Or
<1> QED BY <1>2, <1>3, <1>4, <1>5 DEF NodeGovernance, ToolGovernance

LEMMA IdsAreNumbers ==
  ASSUME extensions \in Seq(Senders)
  PROVE  /\ PublicIds \subseteq Nat \ {0} /\ NextPublicExtensionId \in Nat \ {0}
         /\ NextPublicExtensionId \notin PublicIds
         /\ \A i \in PublicIds : SenderOf(i) \in Senders
<1>1. FirstPublicId \in Nat \ {0} /\ Len(extensions) \in Nat
  BY SenderAssumption
<1>2. ASSUME NEW i \in PublicIds
      PROVE  SenderOf(i) \in Senders
  <2>1. i - FirstPublicId + 1 \in 1 .. Len(extensions)
    BY <1>1 DEF PublicIds, NextPublicExtensionId
  <2> QED BY <2>1, ElementOfSeq DEF SenderOf
<1> QED BY <1>1, <1>2 DEF PublicIds, NextPublicExtensionId

\* The ids stay as they are when no extension is registered.
LEMMA SameIds ==
  ASSUME extensions' = extensions
  PROVE  PublicIds' = PublicIds /\ \A i : SenderOf(i)' = SenderOf(i)
BY DEF PublicIds, NextPublicExtensionId, SenderOf

\* An extension is registered, by account a and for contract s.
LEMMA RegisterAsEffect ==
  ASSUME ContractTypes, PreBuildTypes, NEW a \in Addresses, NEW s \in Senders, RegisterAs(a, s)
  PROVE  /\ ContractTypes'
         /\ ownerOf' \in Seq(Addresses) /\ Len(ownerOf') = Len(extensions')
         /\ PublicIds' = PublicIds \cup {NextPublicExtensionId}
         /\ \A i \in PublicIds : SenderOf(i)' = SenderOf(i)
         /\ \A i : i = NextPublicExtensionId => SenderOf(i)' = s
         /\ UNCHANGED <<deployed, extensionId, machineOf, status, active>>
<1>1. /\ extensions' \in Seq(Senders) /\ Len(extensions') = Len(extensions) + 1
      /\ PublicIds' = PublicIds \cup {NextPublicExtensionId}
      /\ \A i \in PublicIds : SenderOf(i)' = SenderOf(i)
      /\ \A i : i = NextPublicExtensionId => SenderOf(i)' = s
  BY RegisterGrows DEF RegisterAs, ContractTypes
<1>2. UNCHANGED <<deployed, extensionId, machineOf, status, active>>
  BY DEF RegisterAs, RegisterExtension
<1>3. ownerOf' \in Seq(Addresses) /\ Len(ownerOf') = Len(extensions) + 1
  BY AppendProperties DEF RegisterAs, PreBuildTypes
<1>4. ContractTypes'
  BY <1>1, <1>2 DEF ContractTypes
<1> QED BY <1>1, <1>2, <1>3, <1>4

-----------------------------------------------------------------------------
(* The steps, script by script.                                             *)

LEMMA PreBuildKeeps ==
  ASSUME Pipeline,
         \/ Start \/ StartForced \/ Deploy \/ AllowTeeMachineOwners
         \/ AllowTeeProjectManagerOwners \/ AddSupportedKeyTypes \/ WriteConfig
  PROVE  Pipeline'
<1>1. extensions' = extensions
  BY DEF Start, StartForced, Deploy, AllowTeeMachineOwners, AllowTeeProjectManagerOwners,
         AddSupportedKeyTypes, WriteConfig, DeployContract, contractVars
<1>2. PublicIds' = PublicIds /\ \A i : SenderOf(i)' = SenderOf(i)
  BY <1>1, SameIds
<1>3. DefaultPrivateKey(dotEnv) \in Addresses
  BY DotEnvTypes DEF Pipeline, OperationTypes
<1>4. PublicIds \subseteq Nat \ {0}
  BY IdsAreNumbers DEF Pipeline, ContractTypes
<1> USE <1>2, <1>3, <1>4, SetupAssumption
    DEF Pipeline, ContractTypes, PreBuildTypes, RegistryTypes, OperationTypes,
        PreBuildInv, ConfigComplete, NodeInv, UnforcedInv, SendersInv,
        Ended, PBs, Configs, NoEnv, NoNode,
        contractVars, ownerVars, allowedVars, postBuildVars, teeVars, operatorVars
<1>5. CASE Start
  BY <1>5 DEF Start
<1>6. CASE StartForced
  BY <1>6 DEF StartForced, Fault
<1>7. CASE Deploy
  BY <1>7 DEF Deploy, DeployContract
<1>8. CASE AllowTeeMachineOwners
  BY <1>8 DEF AllowTeeMachineOwners
<1>9. CASE AllowTeeProjectManagerOwners
  BY <1>9 DEF AllowTeeProjectManagerOwners
<1>10. CASE AddSupportedKeyTypes
  BY <1>10 DEF AddSupportedKeyTypes
<1>11. CASE WriteConfig
  BY <1>11 DEF WriteConfig
<1> QED BY <1>5, <1>6, <1>7, <1>8, <1>9, <1>10, <1>11

\* An extension is registered: by pre-build.sh, by a run of it that then fails,
\* or by hand.
LEMMA RegistrationKeeps ==
  ASSUME Pipeline, Register \/ PreBuildFails \/ RegisterByHand
  PROVE  Pipeline'
<1>1. PublicIds \subseteq Nat \ {0} /\ NextPublicExtensionId \in Nat \ {0}
      /\ NextPublicExtensionId \notin PublicIds
  BY IdsAreNumbers DEF Pipeline, ContractTypes
<1>2. DefaultPrivateKey(dotEnv) \in Addresses
  BY DotEnvTypes DEF Pipeline, OperationTypes
<1>3. extensions' = extensions => PublicIds' = PublicIds /\ \A i : SenderOf(i)' = SenderOf(i)
  BY SameIds
<1>4. ASSUME NEW a \in Addresses, NEW s \in deployed, RegisterAs(a, s)
      PROVE  /\ ContractTypes'
             /\ ownerOf' \in Seq(Addresses) /\ Len(ownerOf') = Len(extensions')
             /\ PublicIds' = PublicIds \cup {NextPublicExtensionId}
             /\ \A i \in PublicIds : SenderOf(i)' = SenderOf(i)
             /\ \A i : i = NextPublicExtensionId => SenderOf(i)' = s
             /\ UNCHANGED <<deployed, extensionId, machineOf, status, active>>
  <2>1. ContractTypes /\ PreBuildTypes /\ s \in Senders
    BY DEF Pipeline, ContractTypes
  <2> QED BY <1>4, <2>1, RegisterAsEffect
<1> USE <1>1, SetupAssumption DEF contractVars, preBuildVars, ownerVars, allowedVars, postBuildVars, teeVars, operatorVars
<1>5. CASE Register
  <2>1. account \in Addresses /\ shell.sender \in deployed /\ RegisterAs(account, shell.sender)
    BY <1>5 DEF Register, Pipeline, PreBuildInv, Ended
  <2>2. /\ ContractTypes'
        /\ ownerOf' \in Seq(Addresses) /\ Len(ownerOf') = Len(extensions')
        /\ PublicIds' = PublicIds \cup {NextPublicExtensionId}
        /\ \A i \in PublicIds : SenderOf(i)' = SenderOf(i)
        /\ \A i : i = NextPublicExtensionId => SenderOf(i)' = shell.sender
        /\ UNCHANGED <<deployed, extensionId, machineOf, status, active>>
    BY <1>4, <2>1
  <2>3. shell' = [ext |-> NextPublicExtensionId, sender |-> shell.sender] /\ pb' = "machineOwners"
    BY <1>5 DEF Register, Pipeline, PreBuildTypes, Configs
  <2>4. PreBuildTypes' /\ RegistryTypes' /\ OperationTypes'
    BY <1>5, <2>2, <2>3 DEF Register, Pipeline, PreBuildTypes, RegistryTypes, OperationTypes, Configs, PBs
  <2>5. PreBuildInv' /\ ConfigComplete' /\ NodeInv' /\ UnforcedInv'
    BY <1>5, <2>2, <2>3 DEF Register, Pipeline, PreBuildInv, ConfigComplete, NodeInv, UnforcedInv, Ended
  <2>6. SendersInv'
    <3>1. \A i \in PublicIds' : SenderOf(i)' \in deployed'
      BY <2>1, <2>2 DEF Pipeline, SendersInv
    <3>2. ASSUME "byHand" \notin used', NEW i \in PublicIds', NEW j \in PublicIds',
                 SenderOf(i)' = SenderOf(j)'
          PROVE  i = j
      BY <1>5, <2>2, <3>2 DEF Register, Pipeline, SendersInv
    <3> QED BY <2>3, <3>1, <3>2 DEF SendersInv
  <2> QED BY <2>2, <2>4, <2>5, <2>6 DEF Pipeline
<1>6. CASE PreBuildFails
  <2>1. pb' = "failed" /\ pb \notin Ended /\ used' = used
    BY <1>6 DEF PreBuildFails, Fault
  <2>2. /\ ContractTypes' /\ UNCHANGED <<deployed, machineOf>>
        /\ ownerOf' \in Seq(Addresses) /\ Len(ownerOf') = Len(extensions')
        /\ \A i \in PublicIds : SenderOf(i)' = SenderOf(i)
        /\ \/ PublicIds' = PublicIds
           \/ /\ pb = "register" /\ PublicIds' = PublicIds \cup {NextPublicExtensionId}
              /\ \A i : i = NextPublicExtensionId => SenderOf(i)' = shell.sender
    <3>1. CASE UNCHANGED <<contractVars, ownerOf>>
      BY <1>3, <3>1 DEF Pipeline, ContractTypes, PreBuildTypes
    <3>2. CASE pb = "register" /\ RegisterAs(account, shell.sender)
      <4>1. account \in Addresses /\ shell.sender \in deployed
        BY <3>2 DEF Pipeline, PreBuildInv, Ended
      <4> QED BY <1>4, <3>2, <4>1
    <3> QED BY <1>6, <3>1, <3>2 DEF PreBuildFails
  <2>3. PreBuildTypes' /\ RegistryTypes' /\ OperationTypes'
    BY <1>6, <2>2 DEF PreBuildFails, Fault, Pipeline, PreBuildTypes, RegistryTypes, OperationTypes,
                      Configs, PBs, NoEnv
  <2>4. PreBuildInv' /\ NodeInv'
    BY <1>6, <2>1, <2>2 DEF PreBuildFails, Pipeline, PreBuildInv, NodeInv, Ended
  <2>5. ConfigComplete' /\ UnforcedInv'
    BY <1>6, <2>1, <2>2 DEF PreBuildFails, Pipeline, ConfigComplete, UnforcedInv, Ended
  <2>6. SendersInv'
    <3>1. CASE PublicIds' = PublicIds
      <4>1. \A i \in PublicIds' : SenderOf(i)' \in deployed'
        BY <2>2, <3>1 DEF Pipeline, SendersInv
      <4>2. ASSUME "byHand" \notin used', NEW i \in PublicIds', NEW j \in PublicIds',
                   SenderOf(i)' = SenderOf(j)'
            PROVE  i = j
        BY <2>1, <2>2, <3>1, <4>2 DEF Pipeline, SendersInv
      <4> QED BY <2>1, <4>1, <4>2 DEF SendersInv
    <3>2. CASE /\ pb = "register" /\ PublicIds' = PublicIds \cup {NextPublicExtensionId}
               /\ \A i : i = NextPublicExtensionId => SenderOf(i)' = shell.sender
      <4>1. \A i \in PublicIds' : SenderOf(i)' \in deployed'
        BY <2>2, <3>2 DEF Pipeline, SendersInv, PreBuildInv
      <4>2. ASSUME "byHand" \notin used', NEW i \in PublicIds', NEW j \in PublicIds',
                   SenderOf(i)' = SenderOf(j)'
            PROVE  i = j
        BY <2>1, <2>2, <3>2, <4>2 DEF Pipeline, SendersInv
      <4> QED BY <2>1, <4>1, <4>2 DEF SendersInv
    <3> QED BY <2>2, <3>1, <3>2
  <2> QED BY <2>2, <2>3, <2>4, <2>5, <2>6 DEF Pipeline
<1>7. CASE RegisterByHand
  <2>1. PICK s \in deployed : RegisterAs(DefaultPrivateKey(dotEnv), s)
    BY <1>7 DEF RegisterByHand
  <2>2. /\ ContractTypes'
        /\ ownerOf' \in Seq(Addresses) /\ Len(ownerOf') = Len(extensions')
        /\ PublicIds' = PublicIds \cup {NextPublicExtensionId}
        /\ \A i \in PublicIds : SenderOf(i)' = SenderOf(i)
        /\ \A i : i = NextPublicExtensionId => SenderOf(i)' = s
        /\ UNCHANGED <<deployed, extensionId, machineOf, status, active>>
    BY <1>2, <1>4, <2>1
  <2>3. PreBuildTypes' /\ RegistryTypes' /\ OperationTypes'
    BY <1>7, <2>2 DEF RegisterByHand, Fault, Pipeline, PreBuildTypes, RegistryTypes, OperationTypes
  <2>4. PreBuildInv' /\ NodeInv' /\ UnforcedInv'
    BY <1>7, <2>2 DEF RegisterByHand, Fault, Pipeline, PreBuildInv, NodeInv, UnforcedInv
  <2>5. ConfigComplete'
    BY <1>7, <2>2 DEF RegisterByHand, Pipeline, ConfigComplete
  <2>6. SendersInv'
    <3>1. "byHand" \in used'
      BY <1>7 DEF RegisterByHand, Fault
    <3>2. \A i \in PublicIds' : SenderOf(i)' \in deployed'
      BY <2>2 DEF Pipeline, SendersInv
    <3> QED BY <3>1, <3>2 DEF SendersInv
  <2> QED BY <2>2, <2>3, <2>4, <2>5, <2>6 DEF Pipeline
<1> QED BY <1>5, <1>6, <1>7

\* The machines of the registry: bound to the node's extension by register-tee,
\* promoted by it, paused by their owner and barred by the registry.
LEMMA MachinesKeep ==
  ASSUME Pipeline, RegisterTee \/ PromoteTee \/ PauseTee \/ BarTee
  PROVE  Pipeline'
<1>1. extensions' = extensions
  BY DEF RegisterTee, PromoteTee, PauseTee, BarTee, RegisterMachine, ToProduction, Pause, Bar,
         contractVars
<1>2. PublicIds' = PublicIds /\ \A i : SenderOf(i)' = SenderOf(i)
  BY <1>1, SameIds
<1>3. PublicIds \subseteq Nat \ {0}
  BY IdsAreNumbers DEF Pipeline, ContractTypes
<1>4. NoDotEnv \in DotEnvs
  BY SetupAssumption DEF NoDotEnv
<1> USE DEF contractVars, preBuildVars, ownerVars, allowedVars, postBuildVars, teeVars, operatorVars
<1>5. ASSUME NEW m \in Machines, status[m] # "NONE", NEW x \in Statuses \ {"NONE"},
             status' = [status EXCEPT ![m] = x],
             active' \subseteq active \cup {m}, m \in active' => x = "PRODUCTION",
             UNCHANGED <<deployed, extensionId, extensions, machineOf>>
      PROVE  ContractTypes'
  BY <1>2, <1>5 DEF Pipeline, ContractTypes
<1>6. CASE RegisterTee
  <2>1. /\ node.machine \in Machines /\ node.ext \in PublicIds
        /\ po.dotEnv \in DotEnvs /\ po' \in {[at |-> "idle", dotEnv |-> NoDotEnv],
                                            [at |-> "promote", dotEnv |-> po.dotEnv]}
    BY <1>6 DEF RegisterTee, PoEnds, Pipeline, OperationTypes, NodeInv
  <2>2. CASE RegisterMachine(node.machine, node.ext)
    <3>1. ContractTypes'
      BY <1>2, <1>3, <2>1, <2>2 DEF RegisterMachine, Pipeline, ContractTypes, Statuses
    <3>2. machineOf' = [machineOf EXCEPT ![node.machine] = node.ext]
          /\ UNCHANGED <<deployed, extensionId, extensions>>
      BY <2>2 DEF RegisterMachine
    <3>3. UnforcedInv' /\ NodeInv'
      BY <1>6, <2>1, <3>2 DEF RegisterTee, PoEnds, Pipeline, ContractTypes, UnforcedInv, NodeInv
    <3> QED BY <1>2, <1>4, <1>6, <2>1, <3>1, <3>2, <3>3
            DEF RegisterTee, Pipeline, PreBuildTypes, RegistryTypes, OperationTypes,
                PreBuildInv, ConfigComplete, SendersInv
  <2>3. CASE UNCHANGED contractVars
    BY <1>2, <1>4, <1>6, <2>1, <2>3
       DEF RegisterTee, Pipeline, ContractTypes, PreBuildTypes, RegistryTypes, OperationTypes,
           PreBuildInv, ConfigComplete, NodeInv, UnforcedInv, SendersInv
  <2> QED BY <1>6, <2>2, <2>3 DEF RegisterTee
<1>7. CASE PromoteTee
  <2>1. node.machine \in Machines
    BY <1>7 DEF PromoteTee, Pipeline, OperationTypes, NodeInv
  <2>2. ContractTypes' /\ UNCHANGED <<deployed, machineOf>>
    <3>1. CASE ToProduction(node.machine)
      BY <1>5, <2>1, <3>1 DEF ToProduction, Statuses
    <3>2. CASE UNCHANGED contractVars
      BY <1>2, <3>2 DEF Pipeline, ContractTypes
    <3> QED BY <1>7, <3>1, <3>2 DEF PromoteTee
  <2>3. PreBuildTypes' /\ RegistryTypes' /\ OperationTypes'
    BY <1>1, <1>2, <1>4, <1>7
       DEF PromoteTee, PoEnds, Pipeline, PreBuildTypes, RegistryTypes, OperationTypes
  <2> QED BY <1>2, <1>7, <2>2, <2>3
          DEF PromoteTee, PoEnds, Pipeline, PreBuildInv, ConfigComplete, NodeInv, UnforcedInv, SendersInv
<1>8. CASE PauseTee
  <2>1. PICK m \in Machines : Pause(m)
    BY <1>8 DEF PauseTee
  <2>2. ContractTypes' /\ UNCHANGED <<deployed, machineOf>>
    BY <1>5, <2>1 DEF Pause, Statuses
  <2>3. PreBuildTypes' /\ RegistryTypes' /\ OperationTypes'
    BY <1>1, <1>2, <1>8, SetupAssumption
       DEF PauseTee, Fault, Pipeline, PreBuildTypes, RegistryTypes, OperationTypes
  <2> QED BY <1>2, <1>8, <2>2, <2>3
          DEF PauseTee, Fault, Pipeline, PreBuildInv, ConfigComplete, NodeInv, UnforcedInv, SendersInv
<1>9. CASE BarTee
  <2>1. PICK m \in Machines : Bar(m)
    BY <1>9 DEF BarTee
  <2>2. PICK x \in {"SUSPENDED", "BANNED"} : status' = [status EXCEPT ![m] = x]
    BY <2>1 DEF Bar
  <2>3. ContractTypes' /\ UNCHANGED <<deployed, machineOf>>
    BY <1>5, <2>1, <2>2 DEF Bar, Statuses
  <2>4. PreBuildTypes' /\ RegistryTypes' /\ OperationTypes'
    BY <1>1, <1>2, <1>9, SetupAssumption
       DEF BarTee, Fault, Pipeline, PreBuildTypes, RegistryTypes, OperationTypes
  <2> QED BY <1>2, <1>9, <2>3, <2>4
          DEF BarTee, Fault, Pipeline, PreBuildInv, ConfigComplete, NodeInv, UnforcedInv, SendersInv
<1> QED BY <1>6, <1>7, <1>8, <1>9

\* The other steps of start-services.sh, post-build.sh and test.sh, and those
\* of the operator: they leave extensions and machines alone.
LEMMA ServicesKeep ==
  ASSUME Pipeline,
         \/ StartServices \/ RestartServices \/ PostBuildStarts \/ AllowTeeVersion
         \/ SetTeeGovernance \/ PostBuildFails \/ EditDotEnv \/ VersionDisabled
         \/ TestSetsId \/ TestSends
  PROVE  Pipeline'
<1>1. UNCHANGED <<deployed, extensions, machineOf, status>>
  BY DEF StartServices, RestartServices, PostBuildStarts, AllowTeeVersion, SetTeeGovernance,
         PostBuildFails, EditDotEnv, VersionDisabled, DisableVersion, TestSetsId, TestSends,
         SetExtensionId, contractVars
<1>2. PublicIds' = PublicIds /\ \A i : SenderOf(i)' = SenderOf(i)
  BY <1>1, SameIds
<1>3. /\ NodeOwner(dotEnv, local) \in Addresses
      /\ NodeGovernance(dotEnv, local) \in Governances
      /\ ToolGovernance(po.dotEnv) \in Governances
  BY DotEnvTypes DEF Pipeline, OperationTypes
<1>4. NoDotEnv \in DotEnvs
  BY SetupAssumption DEF NoDotEnv
<1>5. PublicIds \subseteq Nat \ {0}
  BY IdsAreNumbers DEF Pipeline, ContractTypes
<1> USE <1>1, <1>2, <1>3, <1>4, <1>5, SetupAssumption
    DEF Pipeline, ContractTypes, PreBuildTypes, RegistryTypes, OperationTypes,
        PreBuildInv, ConfigComplete, NodeInv, UnforcedInv, SendersInv, NoEnv, NoNode, Fault, PoEnds,
        contractVars, preBuildVars, ownerVars, allowedVars, postBuildVars, teeVars, operatorVars
<1>6. CASE StartServices
  BY <1>6 DEF StartServices, NewNode, Unused
<1>7. CASE RestartServices
  BY <1>7 DEF RestartServices, NewNode, Unused
<1>8. CASE PostBuildStarts
  BY <1>8 DEF PostBuildStarts
<1>9. CASE AllowTeeVersion
  <2>1. node.ext \in PublicIds
    BY <1>9 DEF AllowTeeVersion
  <2>2. po' \in [at : {"idle", "version", "governance", "register", "promote"}, dotEnv : DotEnvs]
    BY <1>9 DEF AllowTeeVersion
  <2>3. versions' \subseteq PublicIds /\ node' = node
    BY <1>9, <2>1 DEF AllowTeeVersion
  <2> QED BY <1>9, <2>2, <2>3 DEF AllowTeeVersion
<1>10. CASE SetTeeGovernance
  <2>1. node.ext \in PublicIds
    BY <1>10 DEF SetTeeGovernance
  <2>2. po' \in [at : {"idle", "version", "governance", "register", "promote"}, dotEnv : DotEnvs]
    <3>1. po \in [at : {"idle", "version", "governance", "register", "promote"}, dotEnv : DotEnvs]
      OBVIOUS
    <3>2. po' = [po EXCEPT !.at = "register"] \/ po' = [at |-> "idle", dotEnv |-> NoDotEnv]
      BY <1>10 DEF SetTeeGovernance
    <3> HIDE DEF Pipeline, OperationTypes
    <3> QED BY <3>1, <3>2
  <2>3. governanceOf' \in [DOMAIN governanceOf' -> Governances] /\ DOMAIN governanceOf' \subseteq PublicIds
    BY <1>10, <2>1 DEF SetTeeGovernance
  <2>4. UNCHANGED <<contractVars, preBuildVars, ownerVars, versions, teeVars, operatorVars>>
        /\ po.at # "idle"
    BY <1>10 DEF SetTeeGovernance
  <2> QED BY <2>2, <2>3, <2>4
<1>11. CASE PostBuildFails
  BY <1>11 DEF PostBuildFails
<1>12. CASE EditDotEnv
  BY <1>12 DEF EditDotEnv
<1>13. CASE TestSetsId
  BY <1>13 DEF TestSetsId, SetExtensionId
<1>14. CASE TestSends
  BY <1>14 DEF TestSends, Reaches
<1>15. CASE VersionDisabled
  BY <1>15 DEF VersionDisabled, DisableVersion
<1> QED BY <1>6, <1>7, <1>8, <1>9, <1>10, <1>11, <1>12, <1>13, <1>14, <1>15

-----------------------------------------------------------------------------
LEMMA PInvInit == Init => PInv
<1> SUFFICES ASSUME Init
             PROVE  PInv
  OBVIOUS
<1> USE DEF Init, ContractInit
<1>1. PublicIds = {}
  BY SenderAssumption DEF PublicIds, NextPublicExtensionId
<1>2. ContractTypes /\ PreBuildTypes
  BY EmptySeq, <1>1 DEF ContractTypes, PreBuildTypes, Statuses, PBs, Configs, NoEnv
<1>3. RegistryTypes /\ OperationTypes
  BY SetupAssumption DEF RegistryTypes, OperationTypes, NoDotEnv
<1>4. PreBuildInv /\ ConfigComplete /\ NodeInv /\ UnforcedInv /\ SendersInv
  BY <1>1 DEF PreBuildInv, ConfigComplete, NodeInv, UnforcedInv, SendersInv, Ended
<1>5. CachedIdIsFirst
  BY CInvInit DEF CInv
<1> QED BY <1>2, <1>3, <1>4, <1>5, SetupTypesSplit DEF PInv

LEMMA PInvStep == PInv /\ [Next]_vars => PInv'
<1> SUFFICES ASSUME PInv, [Next]_vars
             PROVE  PInv'
  OBVIOUS
<1>1. Pipeline /\ CachedIdIsFirst
  BY SetupTypesSplit DEF PInv, Pipeline
<1>2. CachedIdIsFirst'
  <2>1. 0 \in Nat /\ PublicIds \subseteq Nat
    BY <1>1, IdsAreNumbers DEF Pipeline, ContractTypes
  <2>2. CInv
    BY <1>1, <2>1 DEF Pipeline, ContractTypes, PreBuildInv, CInv, SenderInv
  <2> QED BY <2>2, CInvStep DEF CInv
<1>3. Pipeline'
  <2>1. CASE UNCHANGED vars
    <3>1. PublicIds' = PublicIds /\ \A i : SenderOf(i)' = SenderOf(i)
      BY <2>1, SameIds DEF vars, contractVars
    <3> USE <2>1, <3>1 DEF vars, contractVars, preBuildVars, ownerVars, allowedVars, postBuildVars,
              teeVars, operatorVars
    <3>2. ContractTypes' /\ PreBuildTypes' /\ RegistryTypes' /\ OperationTypes'
      BY <1>1 DEF Pipeline, ContractTypes, PreBuildTypes, RegistryTypes, OperationTypes
    <3>3. PreBuildInv' /\ ConfigComplete' /\ NodeInv' /\ UnforcedInv' /\ SendersInv'
      BY <1>1 DEF Pipeline, PreBuildInv, ConfigComplete, NodeInv, UnforcedInv, SendersInv
    <3> QED BY <3>2, <3>3 DEF Pipeline
  <2> QED BY <1>1, <2>1, PreBuildKeeps, RegistrationKeeps, MachinesKeep, ServicesKeep
          DEF Next, PreBuild, PostBuild
<1> QED BY <1>2, <1>3
    DEF PInv, Pipeline, TypeOK, ContractTypes, PreBuildTypes, RegistryTypes, OperationTypes

\* What the properties of the pipeline and of the two tools are parts or
\* consequences of.
THEOREM PipelineInvariant == Spec => []PInv
BY PInvInit, PInvStep, PTL DEF Spec

\* Whatever fails and whatever the operator does besides, every id in use is
\* one the registry has given out, and every machine with a status has one.
THEOREM SetupTypes == Spec => []TypeOK
<1>1. PInv => TypeOK
  BY DEF PInv
<1> QED BY <1>1, PipelineInvariant, PTL

\* Wherever pre-build.sh stops, extension.env never names a half-made extension:
\* it is registered for the contract named, with owners and key type.
THEOREM SetupConfigComplete == Spec => []ConfigComplete
<1>1. PInv => ConfigComplete
  BY DEF PInv
<1> QED BY <1>1, PipelineInvariant, PTL

\* Without --force no registered machine belongs to another extension than
\* that of extension.env (the guard of pre-build.sh).
THEOREM SetupNoOrphan == Spec => []NoOrphan
<1>1. PInv => NoOrphan
  BY DEF PInv, UnforcedInv, NoOrphan
<1> QED BY <1>1, PipelineInvariant, PTL

\* With at most one extension per contract, the id a contract has cached, or
\* will cache, is the one that names it.
LEMMA OnlyId ==
  ASSUME PInv, "byHand" \notin used, NEW id \in PublicIds
  PROVE  /\ SenderOf(id) \in deployed
         /\ extensionId[SenderOf(id)] \in {0, id}
         /\ \A i \in PublicIds : SenderOf(i) = SenderOf(id) => i = id
<1>1. SenderOf(id) \in deployed /\ SenderOf(id) \in Senders
      /\ \A i \in PublicIds : SenderOf(i) = SenderOf(id) => i = id
  BY DEF PInv, SendersInv, TypeOK
<1>2. extensionId[SenderOf(id)] # 0 =>
        /\ extensionId[SenderOf(id)] \in PublicIds
        /\ SenderOf(extensionId[SenderOf(id)]) = SenderOf(id)
  BY <1>1 DEF PInv, CachedIdIsFirst
<1> QED BY <1>1, <1>2

\* Without registrations by hand, setExtensionId caches the extension that
\* extension.env names, after failed and forced runs too.
THEOREM SetupCachedIdIsConfigured == Spec => []CachedIdIsConfigured
<1>1. PInv => CachedIdIsConfigured
  BY OnlyId DEF PInv, ConfigComplete, CachedIdIsConfigured
<1> QED BY <1>1, PipelineInvariant, PTL

-----------------------------------------------------------------------------
(* verify-deploy.                                                           *)

\* A report on the registration without a failure or a warning: R7's scan has
\* found one extension at most, and R2 says that it is that of extension.env.
THEOREM CleanReportsAgree == Spec => []CleanReportMeansAgreement
<1>1. PInv => CleanReportMeansAgreement
  <2> SUFFICES ASSUME PInv, NEW e \in Environments,
                      \A r \in RegisterRegistrationChecks(e) : r.status = "PASS"
               PROVE  /\ extensionId[env.sender] \in {0, env.ext}
                      /\ \A i \in PublicIds : SenderOf(i) = env.sender => env.ext <= i
    BY DEF CleanReportMeansAgreement
  <2>1. e.config /\ env # NoEnv
    BY DEF RegisterRegistrationChecks, Skip
  <2>2. env.ext \in PublicIds /\ SenderOf(env.ext) = env.sender
    BY <2>1 DEF PInv, ConfigComplete
  <2>3. Check("R7", Cardinality(MatchingIDs) <= 1, "WARN") \in RegisterRegistrationChecks(e)
    BY <2>1 DEF RegisterRegistrationChecks
  <2>4. Cardinality(MatchingIDs) <= 1
    BY <2>3 DEF Check
  <2>5. extensions \in Seq(Senders) /\ PublicIds \subseteq Nat /\ env.sender \in Senders
    BY <2>2, IdsAreNumbers DEF PInv, TypeOK
  <2>6. IsFiniteSet(MatchingIDs)
    <3>1. FirstPublicId \in Int /\ NextPublicExtensionId - 1 \in Int
      BY <2>5, SenderAssumption DEF NextPublicExtensionId
    <3>2. IsFiniteSet(PublicIds)
      BY <3>1, FS_Interval DEF PublicIds
    <3> QED BY <3>2, FS_Subset DEF MatchingIDs
  <2>7. MatchingIDs = {env.ext}
    <3>1. env.ext \in MatchingIDs
      BY <2>2 DEF MatchingIDs
    <3>2. Cardinality(MatchingIDs) = 1
      <4>1. Cardinality(MatchingIDs) \in Nat
        BY <2>6, FS_CardinalityType
      <4>2. Cardinality(MatchingIDs) # 0
        BY <2>6, <3>1, FS_EmptySet
      <4> QED BY <2>4, <4>1, <4>2
    <3> QED BY <2>6, <3>1, <3>2, FS_Singleton
  <2>8. extensionId[env.sender] # 0 => extensionId[env.sender] \in MatchingIDs
    BY <2>5 DEF PInv, CachedIdIsFirst, MatchingIDs
  <2> QED BY <2>5, <2>7, <2>8 DEF MatchingIDs
<1> QED BY <1>1, PipelineInvariant, PTL

\* What pre-build.sh publishes never fails the report: a failure means that
\* the account, its funds or the chain is another one.
THEOREM PublishedConfigsPass == Spec => []PublishedConfigPasses
<1>1. PInv => PublishedConfigPasses
  <2> SUFFICES ASSUME PInv, NEW e \in Environments, env # NoEnv, e.manager = "ok", e.funded,
                      OwnerOf(env.ext) = DefaultPrivateKey(dotEnv)
               PROVE  ~HasFailures(Report(e))
    BY DEF PublishedConfigPasses
  <2>1. /\ env.ext \in PublicIds /\ SenderOf(env.ext) = env.sender
        /\ env.ext \in machineOwners \cap projectOwners \cap keyTypes
    BY DEF PInv, ConfigComplete
  <2>2. env.sender # Nobody /\ env.ext # 0
    BY <2>1, IdsAreNumbers, SetupAssumption DEF PInv, TypeOK
  <2> USE DEF Check, Skip, Reachable
  <2>3. ~HasFailures(RegisterDeployChecks(e))
    BY <2>2 DEF HasFailures, RegisterDeployChecks, CheckDeployerKeySource, CheckExtensionEnvFormat
  <2>4. ~HasFailures(RegisterRegistrationChecks(e))
    BY <2>1 DEF HasFailures, RegisterRegistrationChecks, EVMTypeSupported
  <2>5. ~HasFailures(RegisterServicesChecks(e))
    BY <2>2 DEF HasFailures, RegisterServicesChecks
  <2>6. ~HasFailures(RegisterTeeVersionChecks(e))
    BY <2>2 DEF HasFailures, RegisterTeeVersionChecks
  <2>7. ~HasFailures(RegisterTeeMachineChecks(e)) /\ ~HasFailures(RegisterTestChecks(e))
    BY <2>2 DEF HasFailures, RegisterTeeMachineChecks, RegisterTestChecks
  <2> QED BY <2>3, <2>4, <2>5, <2>6, <2>7 DEF HasFailures, Report
<1> QED BY <1>1, PipelineInvariant, PTL

-----------------------------------------------------------------------------
(* check-tee-state.                                                         *)

LEMMA VerdictIs ==
  /\ Verdict = {"willRevert"} <=>
       /\ teeStatus # "NONE" /\ ToProductionReverts
       /\ isExtID = teeOnchainExtID /\ proxyExtID = teeOnchainExtID
  /\ Verdict = {"consistent"} <=>
       /\ teeStatus # "NONE" /\ ~ToProductionReverts
       /\ isExtID = teeOnchainExtID /\ proxyExtID = teeOnchainExtID
  /\ "contractMismatch" \in Verdict <=> teeStatus # "NONE" /\ isExtID # teeOnchainExtID
  /\ "willRevert" \in Verdict <=> teeStatus # "NONE" /\ ToProductionReverts
<1>1. /\ DOMAIN Lines = {"contractMismatch", "proxyMismatch", "willRevert"}
      /\ Lines["contractMismatch"] <=> isExtID # teeOnchainExtID
      /\ Lines["proxyMismatch"] <=> proxyExtID # teeOnchainExtID
      /\ Lines["willRevert"] <=> ToProductionReverts
  BY DEF Lines
<1>2. CASE teeStatus = "NONE"
  BY <1>2 DEF Verdict
<1>3. CASE teeStatus # "NONE" /\ ~(\E l \in DOMAIN Lines : Lines[l])
  <2>1. Verdict = {"consistent"}
    BY <1>3 DEF Verdict
  <2> QED BY <1>1, <1>3, <2>1
<1>4. CASE teeStatus # "NONE" /\ \E l \in DOMAIN Lines : Lines[l]
  <2>1. Verdict = {l \in DOMAIN Lines : Lines[l]}
    BY <1>4 DEF Verdict
  <2>2. /\ "contractMismatch" \in Verdict <=> isExtID # teeOnchainExtID
        /\ "proxyMismatch" \in Verdict <=> proxyExtID # teeOnchainExtID
        /\ "willRevert" \in Verdict <=> ToProductionReverts
        /\ Verdict \subseteq {"contractMismatch", "proxyMismatch", "willRevert"}
        /\ Verdict # {}
    BY <1>1, <1>4, <2>1
  <2>3. Verdict # {"consistent"}
    BY <2>2
  <2>4. Verdict = {"willRevert"} <=>
          ToProductionReverts /\ isExtID = teeOnchainExtID /\ proxyExtID = teeOnchainExtID
    <3>1. Verdict = {"willRevert"} <=>
            /\ "contractMismatch" \notin Verdict /\ "proxyMismatch" \notin Verdict
            /\ "willRevert" \in Verdict
      <4>1. ASSUME "contractMismatch" \notin Verdict, "proxyMismatch" \notin Verdict,
                   "willRevert" \in Verdict
            PROVE  Verdict = {"willRevert"}
        <5>1. \A l \in Verdict : l = "willRevert"
          BY <2>2, <4>1
        <5> QED BY <4>1, <5>1
      <4> QED BY <4>1
    <3> QED BY <2>2, <3>1
  <2> QED BY <1>1, <1>4, <2>2, <2>3, <2>4
<1> QED BY <1>2, <1>3, <1>4

\* What the tool compares belongs together: the node's machine is registered,
\* if at all, for an id the registry has given out, the one the proxy reports.
LEMMA ApplicableFacts ==
  ASSUME PInv, Applicable
  PROVE  /\ env.sender \in deployed /\ env.sender \in Senders
         /\ node.machine \in Machines /\ teeStatus \in Statuses
         /\ teeStatus # "NONE" => teeOnchainExtID \in PublicIds /\ proxyExtID = teeOnchainExtID
         /\ PublicIds \subseteq Nat \ {0}
<1>1. env.ext \in PublicIds /\ SenderOf(env.ext) = env.sender
  BY DEF PInv, ConfigComplete, Applicable
<1>2. env.sender \in deployed /\ env.sender \in Senders
  BY <1>1 DEF PInv, SendersInv, TypeOK
<1>3. node.machine \in Machines
  BY DEF PInv, TypeOK, Applicable
<1>4. machineOf[node.machine] = 0 <=> status[node.machine] = "NONE"
  BY <1>3 DEF PInv, TypeOK
<1> QED BY <1>2, <1>3, <1>4, IdsAreNumbers
    DEF PInv, TypeOK, NodeInv, Applicable, teeStatus, teeOnchainExtID, proxyExtID

\* Instructions of the contract reach the TEE just when the active list of the
\* contract's extension contains it.
LEMMA ReachedIsListed ==
  ASSUME PInv, Applicable
  PROVE  /\ Reaches(env.sender, node.machine) <=> ContainsThisTEE(isExtID)
         /\ ContainsThisTEE(isExtID) => teeStatus = "PRODUCTION" /\ isExtID = teeOnchainExtID
<1>1. isExtID # 0 => SenderOf(isExtID) = env.sender
  BY ApplicableFacts DEF PInv, CachedIdIsFirst, isExtID
<1>2. active \subseteq {m \in Machines : status[m] = "PRODUCTION"}
  BY DEF PInv, TypeOK
<1>3. ContainsThisTEE(isExtID) => teeStatus = "PRODUCTION" /\ isExtID = teeOnchainExtID
  BY <1>2 DEF ContainsThisTEE, GetActiveTeeMachines, teeStatus, teeOnchainExtID
<1>4. ContainsThisTEE(isExtID) => isExtID # 0
  BY <1>3, ApplicableFacts
<1>5. ContainsThisTEE(isExtID) <=>
        node.machine \in GetActiveTeeMachines(extensionId[env.sender])
  BY DEF ContainsThisTEE, isExtID
<1> QED BY <1>1, <1>3, <1>4, <1>5, ApplicableFacts DEF Reaches, isExtID

\* What check-tee-state says of a TEE fits what the contract's instructions
\* meet, for every status, with the active list as it is: reached, in production
\* but orphaned, barred, or waiting for its promotion.
THEOREM VerdictsExplain == Spec => []VerdictExplains
<1>1. PInv => VerdictExplains
  <2> SUFFICES ASSUME PInv, Applicable
               PROVE  VerdictExplains
    BY DEF VerdictExplains
  <2>1. /\ Reaches(env.sender, node.machine) <=> ContainsThisTEE(isExtID)
        /\ ContainsThisTEE(isExtID) => teeStatus = "PRODUCTION" /\ isExtID = teeOnchainExtID
    BY ReachedIsListed
  <2>2. teeStatus # "NONE" => proxyExtID = teeOnchainExtID
    BY ApplicableFacts
  <2>3. teeStatus = "PRODUCTION" => teeStatus # "NONE" /\ ToProductionReverts
    BY DEF ToProductionReverts
  <2>4. Reaches(env.sender, node.machine) <=>
          /\ Verdict = {"willRevert"} /\ teeStatus = "PRODUCTION"
          /\ ContainsThisTEE(isExtID) /\ ContainsThisTEE(proxyExtID)
    BY <2>1, <2>2, <2>3, VerdictIs
  <2>5. ASSUME teeStatus = "PRODUCTION"
        PROVE  ~Reaches(env.sender, node.machine) <=>
                 "contractMismatch" \in Verdict \/ ~ContainsThisTEE(proxyExtID)
    <3>1. "contractMismatch" \in Verdict <=> isExtID # proxyExtID
      BY <2>2, <2>3, <2>5, VerdictIs
    <3> QED BY <2>1, <2>2, <2>3, <2>5, <3>1
  <2>6. teeStatus \in {"SUSPENDED", "BANNED"} =>
          "willRevert" \in Verdict /\ ~ContainsThisTEE(isExtID)
    BY <2>1, VerdictIs DEF ToProductionReverts
  <2>7. Verdict = {"consistent"} <=>
          isExtID = teeOnchainExtID /\ teeStatus \in {"INITIALIZED", "PAUSED"}
    BY <2>2, VerdictIs DEF ToProductionReverts
  <2> QED BY <2>4, <2>5, <2>6, <2>7 DEF VerdictExplains
<1> QED BY <1>1, PipelineInvariant, PTL

\* Unless someone registered an extension by hand, the contract that the quick
\* fix names has cached, or will cache, the extension of the TEE.
THEOREM QuickFixesWork == Spec => []QuickFixWorks
<1>1. PInv => QuickFixWorks
  <2> SUFFICES ASSUME PInv, Applicable, "byHand" \notin used, NEW s \in QuickFix
               PROVE  /\ s \in deployed
                      /\ extensionId[s] \in {0, teeOnchainExtID}
                      /\ \A i \in PublicIds : SenderOf(i) = s => teeOnchainExtID <= i
    BY DEF QuickFixWorks
  <2>1. s = SenderOf(teeOnchainExtID) /\ teeOnchainExtID \in PublicIds /\ PublicIds \subseteq Nat
    BY VerdictIs, ApplicableFacts DEF QuickFix
  <2> QED BY <2>1, OnlyId
<1> QED BY <1>1, PipelineInvariant, PTL
=============================================================================
