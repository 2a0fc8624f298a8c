------------------------------- MODULE Accounts -------------------------------
(***************************************************************************)
(* Who acts: how the scripts, the tools and the node derive accounts and the *)
(* TEE governance from .env, each with its own defaults.  A private key is   *)
(* the address it belongs to; a governance is a set of signers and how many  *)
(* of them must sign.                                                       *)
(***************************************************************************)
EXTENDS Naturals, FiniteSets

CONSTANTS
  Addresses,
  DevAccount,    \* of the private key built into support.go and start-tee
  ComposeOwner   \* the address built into docker-compose.yaml

Unset == "unset"

ASSUME AccountsAssumption == {DevAccount, ComposeOwner} \subseteq Addresses /\ Unset \notin Addresses

\* .env.  No signers and a threshold of 0 stand for variables not set.
EnvFiles ==
  [DEPLOYMENT_PRIVATE_KEY : Addresses \cup {Unset},
   EXTENSION_OWNER_KEY : Addresses \cup {Unset},
   INITIAL_OWNER : Addresses \cup {Unset},
   GOVERNANCE_SIGNERS : SUBSET Addresses,
   GOVERNANCE_THRESHOLD : Nat]

Or(value, default) == IF value = Unset THEN default ELSE value

DefaultPrivateKey(s) == Or(s.DEPLOYMENT_PRIVATE_KEY, DevAccount)

\* The key of allow-tee-version and set-governance.
ExtensionOwnerKey(s) == Or(s.EXTENSION_OWNER_KEY, DefaultPrivateKey(s))

Governance(s, default) ==
  [signers |-> IF s.GOVERNANCE_SIGNERS = {} THEN {default} ELSE s.GOVERNANCE_SIGNERS,
   threshold |-> IF s.GOVERNANCE_THRESHOLD = 0 THEN 1 ELSE s.GOVERNANCE_THRESHOLD]

\* What set-governance registers.
ToolGovernance(s) == Governance(s, Or(s.INITIAL_OWNER, ExtensionOwnerKey(s)))

\* SetTeeGovernance refuses others.
ValidGovernance(g) == g.threshold \in 1 .. Cardinality(g.signers)

\* start-tee sets INITIAL_OWNER itself; Docker Compose fills in its own.
NodeOwner(s, local) ==
  Or(s.INITIAL_OWNER, IF local THEN DefaultPrivateKey(s) ELSE ComposeOwner)

\* What the node signs with (external: its own default is INITIAL_OWNER alone).
NodeGovernance(s, local) == Governance(s, NodeOwner(s, local))
=============================================================================
