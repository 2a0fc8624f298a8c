-------------------------- MODULE MCExtensionSetup --------------------------
(* A small instance of ExtensionSetup with DeployChecks and TeeDiagnosis. *)
EXTENDS TeeDiagnosis

\* Contracts and machines are interchangeable until they are used: take one.
TakeOne ==
  /\ deployed' # deployed =>
       deployed' = deployed \cup {CHOOSE s \in Senders : s \notin deployed}
  /\ node'.machine # node.machine => node'.machine = CHOOSE m \in Unused : TRUE

\* A developer's machine with nothing set, a testnet deployment that lacks
\* everything it may lack, and one that is complete.
Fresh ==
  [LOCAL_MODE |-> "", SIMULATED_TEE |-> TRUE, keys |-> {},
   EXT_PROXY_URL |-> "unset", NORMAL_PROXY_URL |-> "unset", portFree |-> TRUE,
   manager |-> "ok", funded |-> TRUE, config |-> TRUE]
Lacking ==
  [LOCAL_MODE |-> "false", SIMULATED_TEE |-> TRUE, keys |-> {},
   EXT_PROXY_URL |-> "down", NORMAL_PROXY_URL |-> "down", portFree |-> FALSE,
   manager |-> "zero", funded |-> FALSE, config |-> FALSE]
Complete ==
  [LOCAL_MODE |-> "false", SIMULATED_TEE |-> FALSE, keys |-> Keys,
   EXT_PROXY_URL |-> "up", NORMAL_PROXY_URL |-> "up", portFree |-> TRUE,
   manager |-> "ok", funded |-> TRUE, config |-> TRUE]
Settings == {Fresh, Lacking, [Lacking EXCEPT !.manager = "ok", !.funded = TRUE], Complete}

\* .env as the documents have it, with a governance of its own, with nothing
\* set, with the key alone, with another owner of the extension, and with a
\* threshold its only signer cannot meet.
Documented ==
  [DEPLOYMENT_PRIVATE_KEY |-> "deployer", EXTENSION_OWNER_KEY |-> Unset,
   INITIAL_OWNER |-> "deployer", GOVERNANCE_SIGNERS |-> {}, GOVERNANCE_THRESHOLD |-> 0]
Council == [Documented EXCEPT !.GOVERNANCE_SIGNERS = {"deployer", "other"},
                              !.GOVERNANCE_THRESHOLD = 2]
KeyOnly == [Documented EXCEPT !.INITIAL_OWNER = Unset]
NothingSet == [KeyOnly EXCEPT !.DEPLOYMENT_PRIVATE_KEY = Unset]
OtherOwner == [Documented EXCEPT !.EXTENSION_OWNER_KEY = "other"]
NoQuorum == [Documented EXCEPT !.GOVERNANCE_THRESHOLD = 2]
AllDotEnvs == {Documented, Council, KeyOnly, NothingSet, OtherOwner, NoQuorum}
=============================================================================
