---------------------------- MODULE DeployChecks ----------------------------
(***************************************************************************)
(* verify-deploy (go/tools/pkg/validate): a read-only report on the state of *)
(* the pipeline, in six steps.  A check passes, warns, fails or is skipped;  *)
(* the tool exits with 1 if one fails.  The settings and services the checks *)
(* look at besides the chain and extension.env are an "environment" record. *)
(* An extension.env that is there but empty is taken for a missing one.     *)
(***************************************************************************)
EXTENDS ExtensionSetup

CONSTANT Environments  \* the environments the tool is run in

Keys == {"DEPLOYMENT_PRIVATE_KEY", "PROXY_PRIVATE_KEY", "EXTENSION_OWNER_KEY"}
Urls == {"unset", "up", "down"}

ASSUME EnvironmentsAssumption ==
  Environments \subseteq
    [LOCAL_MODE : {"", "true", "false"}, SIMULATED_TEE : BOOLEAN, keys : SUBSET Keys,
     EXT_PROXY_URL : Urls, NORMAL_PROXY_URL : Urls, portFree : BOOLEAN,
     manager : {"zero", "noCode", "ok"}, funded : BOOLEAN, config : BOOLEAN]

Check(id, ok, otherwise) ==
  [id |-> id, status |-> IF ok THEN "PASS" ELSE otherwise]
Skip(id) == [id |-> id, status |-> "SKIP"]

\* A URL whose /info answers with 200.
Reachable(id, url) ==
  IF url = "unset" THEN Skip(id) ELSE Check(id, url = "up", "WARN")

LocalMode(e) == e.LOCAL_MODE \in {"", "true"}

-----------------------------------------------------------------------------
CheckDeployerKeySource(e) ==
  Check("D5", "DEPLOYMENT_PRIVATE_KEY" \in e.keys \/ LocalMode(e), "WARN")

CheckExtensionEnvFormat ==
  IF env = NoEnv THEN {Skip("D7")}
  ELSE {Check("D7", env.sender # Nobody, "FAIL"), Check("D7", env.ext # 0, "FAIL")}

\* The code of the manager is looked for only if its address is not zero.
RegisterDeployChecks(e) ==
  {Check("D3", e.manager # "zero", "FAIL"), CheckDeployerKeySource(e),
   Check("D5", e.funded, "FAIL"), Check("D6", TRUE, "FAIL")}
  \cup (IF e.manager = "zero" THEN {} ELSE {Check("D1", e.manager = "ok", "FAIL")})
  \cup (IF e.config THEN CheckExtensionEnvFormat ELSE {})

\* Mutant: the scan stops one extension short.
MatchingIDsShort ==
  {i \in PublicIds : i < NextPublicExtensionId - 1 /\ SenderOf(i) = env.sender}

\* R7 scans all ids below the next one; those that are not public have no
\* instructions sender.
MatchingIDs == {i \in PublicIds : SenderOf(i) = env.sender}

\* Mutant: the key type is looked up for the extension before.
EVMTypeSupportedBefore == (env.ext - 1) \in keyTypes

EVMTypeSupported == env.ext \in keyTypes

RegisterRegistrationChecks(e) ==
  IF ~e.config \/ env = NoEnv THEN {Skip("R1-R7")}
  ELSE {Check("R1", NextPublicExtensionId # 0, "WARN"),
        Check("R2", env.ext \in PublicIds /\ SenderOf(env.ext) = env.sender, "FAIL"),
        Check("R3", env.ext \in machineOwners /\ OwnerOf(env.ext) = DefaultPrivateKey(dotEnv), "FAIL"),
        Check("R4", EVMTypeSupported, "FAIL"),
        Check("R7", Cardinality(MatchingIDs) <= 1, "WARN")}

\* S2 fails a missing file, where the other steps skip it.
RegisterServicesChecks(e) ==
  {IF e.config THEN Check("S2", env.ext # 0, "FAIL") ELSE Skip("S2"),
   Check("S5", e.portFree, "WARN"), Check("S7", TRUE, "WARN"),
   Reachable("S9", e.EXT_PROXY_URL),
   Check("S10", e.LOCAL_MODE # "false" \/ "PROXY_PRIVATE_KEY" \in e.keys, "WARN")}

RegisterTeeVersionChecks(e) ==
  {Check("V2", "EXTENSION_OWNER_KEY" \in e.keys \/ "DEPLOYMENT_PRIVATE_KEY" \in e.keys
                 \/ LocalMode(e), "WARN"),
   IF e.config /\ env # NoEnv THEN Check("V4", env.ext # 0, "FAIL") ELSE Skip("V4"),
   Reachable("V6", e.EXT_PROXY_URL)}

RegisterTeeMachineChecks(e) ==
  {Check("T1", ~(e.SIMULATED_TEE /\ e.LOCAL_MODE = "false"), "WARN"),
   Reachable("T5", e.NORMAL_PROXY_URL), Reachable("T10", e.EXT_PROXY_URL)}

RegisterTestChecks(e) ==
  {IF e.config /\ env # NoEnv THEN Check("E1", env.sender # Nobody, "FAIL") ELSE Skip("E1"),
   Reachable("E3", e.EXT_PROXY_URL), Check("E6", TRUE, "WARN")}

\* -step all.
Report(e) ==
  RegisterDeployChecks(e) \cup RegisterRegistrationChecks(e)
  \cup RegisterServicesChecks(e) \cup RegisterTeeVersionChecks(e)
  \cup RegisterTeeMachineChecks(e) \cup RegisterTestChecks(e)

HasFailures(report) == \E r \in report : r.status = "FAIL"

-----------------------------------------------------------------------------
\* A register report without a failure or a warning means that the contract
\* and extension.env agree: setExtensionId has cached, or will cache, the very
\* extension the file names, also after registrations by hand.
CleanReportMeansAgreement ==
  \A e \in Environments :
    (\A r \in RegisterRegistrationChecks(e) : r.status = "PASS") =>
      /\ extensionId[env.sender] \in {0, env.ext}
      /\ \A i \in PublicIds : SenderOf(i) = env.sender => env.ext <= i

\* What pre-build.sh publishes never fails the report, whatever the settings,
\* if the account is still the same and has funds, and the chain is the right
\* one: exit code 1 means that something must be repaired.
PublishedConfigPasses ==
  \A e \in Environments :
    env # NoEnv /\ e.manager = "ok" /\ e.funded /\ OwnerOf(env.ext) = DefaultPrivateKey(dotEnv) =>
      ~HasFailures(Report(e))
=============================================================================
