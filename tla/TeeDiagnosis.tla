---------------------------- MODULE TeeDiagnosis ----------------------------
(***************************************************************************)
(* check-tee-state: what the chain and the proxy say of the TEE, and the     *)
(* verdict the tool reaches, over the state of the pipeline.  It changes     *)
(* nothing.  The proxy reports the node that runs.                          *)
(***************************************************************************)
EXTENDS DeployChecks

\* The tool is given the sender of extension.env, and the proxy answers.
Applicable == env # NoEnv /\ node # NoNode

\* The three ids that must agree: /info of the proxy, slot 0 of the contract,
\* getExtensionId of the machine.
proxyExtID == node.ext
isExtID == extensionId[env.sender]
teeOnchainExtID == machineOf[node.machine]
teeStatus == status[node.machine]

\* listActive: "contains-this-TEE", for the id of the contract or the proxy.
ContainsThisTEE(id) == node.machine \in GetActiveTeeMachines(id)

\* Mutant: the constants are one too high, as if PRODUCTION were 1.
ToProductionRevertsMiscounted == teeStatus \notin {"PRODUCTION", "PAUSED"}

ToProductionReverts == teeStatus \notin {"INITIALIZED", "PAUSED"}

Lines ==
  [contractMismatch |-> isExtID # teeOnchainExtID,
   proxyMismatch |-> proxyExtID # teeOnchainExtID,
   willRevert |-> ToProductionReverts]

Verdict ==
  IF teeStatus = "NONE" THEN {"not registered"}
  ELSE IF \E l \in DOMAIN Lines : Lines[l] THEN {l \in DOMAIN Lines : Lines[l]}
  ELSE {"consistent"}

\* Mutant: the sender is looked up for the id of the contract.
QuickFixOfContract ==
  IF "contractMismatch" \in Verdict /\ isExtID # 0 THEN {SenderOf(isExtID)} ELSE {}

\* The sender registered for the TEE's extension, to be put into extension.env.
QuickFix == IF "contractMismatch" \in Verdict THEN {SenderOf(teeOnchainExtID)} ELSE {}

-----------------------------------------------------------------------------
\* What the report says of a TEE is what the instructions of the contract meet:
\* - they reach it just when the active list contains it and the only line is
\*   that toProduction would revert, with PRODUCTION ("If active set contains it,
\*   you're done", main.go:213-215), and then of the two lists both contain it;
\* - a TEE in PRODUCTION is out of their reach just when the contract has another
\*   extension or the list of its own extension lacks it ("orphaned", main.go:216);
\* - of a suspended or banned TEE the report says that toProduction reverts;
\* - and no line at all means that nothing but the promotion is missing: it is
\*   the status that keeps the TEE off the list, not, as main.go:220 has it, a
\*   reason other than the status, such as a ban or a disabled version.
VerdictExplains ==
  Applicable =>
    /\ Reaches(env.sender, node.machine) <=>
         /\ Verdict = {"willRevert"} /\ teeStatus = "PRODUCTION"
         /\ ContainsThisTEE(isExtID) /\ ContainsThisTEE(proxyExtID)
    /\ teeStatus = "PRODUCTION" =>
         (~Reaches(env.sender, node.machine) <=>
            "contractMismatch" \in Verdict \/ ~ContainsThisTEE(proxyExtID))
    /\ teeStatus \in {"SUSPENDED", "BANNED"} =>
         "willRevert" \in Verdict /\ ~ContainsThisTEE(isExtID)
    /\ Verdict = {"consistent"} <=>
         isExtID = teeOnchainExtID /\ teeStatus \in {"INITIALIZED", "PAUSED"}

\* The quick fix works (DEPLOYMENT_STEPS.md:476): the contract it names has
\* cached, or will cache, the extension of the TEE, however often pre-build.sh
\* was forced, unless someone registered an extension by hand.
QuickFixWorks ==
  Applicable /\ "byHand" \notin used =>
    \A s \in QuickFix :
      /\ s \in deployed
      /\ extensionId[s] \in {0, teeOnchainExtID}
      /\ \A i \in PublicIds : SenderOf(i) = s => teeOnchainExtID <= i
=============================================================================
