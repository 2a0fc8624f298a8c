# A TLA+ model of the sign extension (fce-sign)

This directory holds TLA+ modules for the program in this repository, the TLC
configurations that check them on small instances, and proofs, checked by TLAPS, of
what matters most. `PROJECT.json` maps every definition to the lines it models and
lists the runs, the mutants, the findings and the hazards.

Paths are relative to the repository, the ones in `PROJECT.json` begin with `src/`.

    tlasany GoExtension.tla                                   parse
    tlc -workers 2 -config MCGoExtension.cfg MCGoExtension    model-check
    tlapm GoExtensionProofs.tla                               check proofs

## 1. The system

A *sign extension* runs beside a TEE node. It holds one private key, in memory.
Instructions come from the `InstructionSender` contract: `updateKey` carries a key
encrypted for a TEE, `sign` a message to sign. A proxy hands them to the node, the
node hands them to the extension as HTTP requests (`POST /action`), and the
extension asks the node to decrypt an encrypted key. `GET /state` tells whether
there is a key. The extension is written three times, in Go, Python and TypeScript.
Around it are scripts and Go tools that deploy the contract, register an extension
and its TEE on chain, and test the whole.

| component | state | operations | talks to |
|---|---|---|---|
| Go extension (`go/internal/extension`) | `privateKey`, an RWMutex | UPDATE, SIGN, `GET /state` | the node's `/decrypt` |
| Python extension (`python/`) | module globals, one lock | the same | the same |
| TypeScript extension (`typescript/`) | a module variable, a promise chain | the same | the same |
| `InstructionSender.sol` | `_extensionId` | `setExtensionId`, `updateKey`, `sign` | the TEE registries |
| register-tee | `registrationState`, its state file | steps r, R, a, p; `-resume` | registries, proxies |
| deployment pipeline (`pre-build.sh` … `test.sh`, `deploy-contract`, `register-extension`, `allow-tee-version`, `set-governance`) | `config/extension.env`, the chain | its steps, `--force`, reruns | chain, proxies, Docker Compose |
| chain selection (`use-chain.sh`, `full-setup.sh`, each script) | `.env`, the exported environment | switch, flag, defaults | all scripts, through the environment |
| verify-deploy (`go/tools/pkg/validate`) | none | the checks D, R, S, V, T, E | chain, `extension.env`, services |
| run-test | what it awaits | set id, update, sign, poll | contract, proxy |
| local process manager (`e2e.sh`, `start-services.sh --local`, `stop-services.sh --local`, `start-tee`, `start-proxy`) | PID files | start, stop, wait | processes |
| diagnostics (`check-tee-state`, `query-tee`, `diag.go`) | none | queries, a verdict | chain, proxies |
| audit-deploy | none | lists addresses and code | chain |
| encodings, cryptography | none | ABI, Keccak, ECDSA | – |
| images and bindings | none | Dockerfile, Compose, generators | – |

How they interact: the pipeline publishes the extension's id and contract in
`extension.env`; the services read it when they start and keep what they read;
register-tee binds the running TEE to that id for good; run-test and anybody else
then use the contract, which caches its own idea of the id.

What makes each of them hard, and what makes it correct:

- **Extensions.** Requests are concurrent, decryption is a remote call in the middle
  of an update, and a restart forgets the key. Correct: every call takes effect at
  one instant, on the one key; no lost, stale or invented key; no call blocks the
  others for ever. Go lets handlers overlap and locks only the field; Python holds
  one lock across the whole handler; TypeScript queues handlers on a promise.
- **Contract.** Anyone may register an extension for it or set its id, at any time.
  Correct: the id cached is the first one, for good.
- **register-tee.** Four transactions with a state file in between; killed anywhere;
  transactions that are mined after the tool has given up; one-shot challenges that
  expire; a state file that does not name its TEE. Correct: the file never claims what
  did not happen, success means production, a rerun gets there.
- **Pipeline.** Every step may fail halfway, and is run again; each script, each
  tool and the node derive their account and their governance from `.env`, with
  defaults of their own. Correct: `extension.env` only names a complete extension,
  the contract agrees with it, no TEE is orphaned, and in the end instructions reach
  a TEE.
- **Chain selection.** `.env` is sourced by `full-setup.sh` and again by every
  script, with defaults in each. Correct: one run works on one chain.
- **verify-deploy.** Correct: a clean report means agreement, a failed one means
  that something has to be repaired.
- **Local processes.** A PID file may outlive its process, and the number be used
  again by another program; the scripts die between starting a process and writing
  its number down; a process may hang or ignore the first signal. Correct: a file
  names a process of its own service, a stop leaves nothing running, "started" means
  serving, and a stop and a start repair whatever has gone wrong.
- **check-tee-state.** Correct: verdict and lists together tell what the instructions
  of the contract meet at the TEE, whatever its status and the active list,
  and the contract it proposes for `extension.env` is one that works.
- **run-test.** The chain draws the machine at random, other clients use the same
  contract, the proxy may report a node that is gone. Correct: a test that passes
  proves its own key was used, one that fails was disturbed.

The individual hazards, each at its line and with the properties that would catch
it, are in `PROJECT.json` under `hazards`.

## 2. The modules

| module | extends | models |
|---|---|---|
| `SignProtocol` | – | requests, replies, routing and key parsers of the three extensions (no state) |
| `KeyRegister` | `SignProtocol` | the abstract promise: an atomic register of one key |
| `ExtensionCalls` | `SignProtocol` | what the servers share: arrival, departure, crash, the stored key, the recorded history |
| `GoExtension` | `ExtensionCalls` | the Go server, lock by lock |
| `PythonExtension` | `ExtensionCalls` | the Python server and its lock |
| `TsExtension` | `ExtensionCalls` | the TypeScript server and its promise chain |
| `SignInputs` | `ExtensionCalls` | the inputs of the servers' small instances |
| `GoExtensionProofs`, `PythonProofs`, `TsProofs` | the module of each server | proofs |
| `TeeRegistry` | – | the on-chain registry and the attestation service, as register-tee uses them (external) |
| `Registration` | `TeeRegistry` | register-tee |
| `RegistrationProofs` | `Registration` | proofs |
| `InstructionSender` | – | the contract, the extension registry, the status of the machines and the active list |
| `Accounts` | – | the accounts and the governance that scripts, tools and node derive from `.env` (no state) |
| `ExtensionSetup` | `InstructionSender`, `Accounts` | the pipeline |
| `DeployChecks` | `ExtensionSetup` | verify-deploy, over the pipeline's state |
| `TeeDiagnosis` | `DeployChecks` | check-tee-state, over the same state |
| `SetupProofs` | `TeeDiagnosis` | proofs about the pipeline and the two tools that check it |
| `LocalServices` | – | the local processes, their PID files and the scripts that start and stop them |
| `LocalProofs` | `LocalServices` | proofs |
| `RunTest` | `InstructionSender` | run-test, the proxy, the node (as `KeyRegister` promises it to be) and everyone else |
| `RunTestProofs` | `RunTest` | proofs |
| `ChainSelection` | – | which chain each script works on |
| `ChainProofs` | `ChainSelection` | proofs |

`MC*` modules hold the constants of the runs. Definitions whose comment begins with
"Mutant:" are broken variants of the definition that follows; no behaviour uses
them. They are kept to show that each property notices a plausible bug. In
`TsExtension`, `ChainSelection` and `LocalServices` no run checks `TypeOK`; it is part
of what is proved (in `LocalProofs` as `LocalTypes`, without its last two conjuncts).

### How state and actions correspond to the code

**Servers.** `key` is `privateKey`; `pc[c]` is where the goroutine, thread or
promise of HTTP exchange `c` is; `req` and `res` are its request and reply. One
action is one stretch of code between two points at which another call can run. In
Go those are: routing and the empty-message check (`received`), the request to the
node (`decrypt`), `mu.Lock` (`lock`), the assignment (`store`), `mu.Unlock`,
`RLock`, the read, `RUnlock`, and writing the reply. The nil pointer is key 0. In
Python the lock `mu` is taken before the handler and released after it, so the
handler up to the request to the node is one step. In TypeScript only the head of
the promise chain runs, up to its `await`; `wedged` is a call whose response from
the node was aborted, so that its promise never settles. `history`, `since` and
`arrivals` record what happened and influence nothing but the bound on restarts.

A message is a member of `Messages`; a plaintext is its length and its big-endian
value; the key size and the order of the curve are constants. So the parsers are
translated in full (Go reduces modulo the order and then tests for zero, Python and
TypeScript refuse what is not below the order), and the boundaries occur with one
byte and order 3. A signature is the key that made it and the content it is over.
How `originalMessage` was written (missing, `0x`, a bad hex digit, well-formed) is
kept, since the servers treat these differently.

**register-tee.** `state` is `registrationState`, `file` the state file, `run` the
ids at hand, `pc`/`step` the position. The chain mines the transactions of the one
account in order; `mempool` keeps those whose sender no longer waits. `inSync` says
that the FTDC proxy has the signing policy of the current reward epoch: step a
compares the two before it asks for the check (`PolicyOutOfSync`), but sends it when
it cannot read them (`PolicyUnknown`), and data providers reject a check with
another policy than theirs. The proxy may fall behind between the comparison and the
block in which the check is mined. The state file is removed at the start only without
`-resume`, and `Load` takes it whatever the TEE, since it does not name one.
`run.foreign`, which no step reads, records that a file loaded holds the ids of
another TEE (`Own`).

**Pipeline.** `shell` holds the variables of `pre-build.sh`, `env` is
`config/extension.env`, `pb` and `po` are the positions in `pre-build.sh` and
`post-build.sh`; the on-chain state is one set or function per registry (owners, key
types, versions, governance, machines and their status). The active list, from which
the registry draws the machine of an instruction, is kept apart from the status: a
machine joins it when it is promoted and leaves it when it is paused, suspended or
banned (`Bar`) or when its version is disabled (`DisableVersion`), which leaves its
status alone. These two are external: the repository names the statuses and the
effects (`check-tee-state/main.go:29-45`, `:213-220`), nothing in it brings them about.
`dotEnv` is `.env`, which
the operator may edit at any time: `account` is the account `pre-build.sh` took from
it, `po.dotEnv` the file as `post-build.sh` read it, and `node.owner` and `node.gov`
are what the node took from it when it started. `ownerOf` is who registered each
extension, who alone may allow versions and set its governance. register-tee appears
by its effect, `RegisterTee` and `PromoteTee`, and in detail in `Registration`. In
`DeployChecks` a check is a record of its id and status; everything it looks at that
is not the pipeline's state is one "environment" record. In `TeeDiagnosis` the lines
the tool prints are a record of conditions, and `QuickFix` is the contract it tells
the operator to configure.

**Local processes.** `process[p]` is what runs under number `p`: a service and how
far it is (`new`, its port `bound`, `hung`, `ready`), or another program. `pidFile`
is the number in each PID file, `at` the script that runs and where in it.
`start-tee` binds its port, sets the proxy's URL in the node and only then listens
for signals; the proxy fetches the node's info once and serves that for as long as
it runs, so `seesNode` turns false when that node ends. `stray` holds the services
whose script died before it wrote their number down, which no script can find again,
and `calm` says that nothing has gone wrong since the last complete stop; both are
history.

**run-test.** `at` is the client's step, `awaited` the instruction it polls for,
`info` the machine the proxy reports, which may not be the one that runs.
`disturbed` records that something happened to this run that it cannot help.

**Chain selection.** A URL, an addresses file or a Compose overlay is the chain it
belongs to; `shell` is what `full-setup.sh` exports, `Here` what a script works with
after it has sourced `.env` itself; `log` is what each script of this run has worked
on.

## 3. The runs

Twelve runs. "States" are distinct states; the longest run takes well under five
minutes with two workers.

| run | expects | shows |
|---|---|---|
| `go_server` | pass | The Go server is linearizable (`ImplementsRegister`), has no data race, returns no stale signature, acknowledges exactly the updates that stored a key, reports its state truthfully, and no call waits for another's decryption (`WaitsOnlyForOwnDecryption`) |
| `python_server` | pass | One handler at a time, the same register, and every call ends if the node answers |
| `ts_server` | pass | Handlers in order of arrival, so the last update to arrive lasts; the same register; every call ends unless an aborted response wedges the chain, which then stays wedged until the restart |
| `registration` | pass | register-tee: `StateFileTruthful`, `CheckUsesOwnAttestation`, `SuccessMeansProduction`, and `EventuallyInProduction`, 1,458,581 states |
| `registration_resume` | violation | With `-resume` it can fail for ever (`ResumeCompletes`) |
| `setup` | pass | Pipeline, contract, verify-deploy and check-tee-state together: ten properties, 605,104 states |
| `setup_defaults` | violation | With `INITIAL_OWNER` unset, set-governance and the node's container disagree on the governance (`DefaultsAgree`) |
| `local_services` | pass | `RecordsTruthful`, `StopMeansStopped`, `StartedMeansServing`, `EventuallyServing`, 194,220 states |
| `run_test` | pass | run-test: `FailureExplained`, `PassesOnOwnUpdate`, `EventuallyPasses`, 74,778 states |
| `chain` | pass | `PhasesAgree`, `StaysOnChain`, 18,363 states |
| `chain_flag` | violation | `CHAIN` of `.env` beats `--chain` (`FlagWins`) |
| `chain_config` | violation | After a switch, `pre-build.sh` keeps the other chain's extension (`ConfigOfActiveChain`) |

### Bounds, and why they are enough

- **Servers:** three calls, one restart, five payloads. A stale or lost key needs
  two updates and one reader, or an update, a restart and a reader; three calls hold
  both. The payloads decrypt to the two keys there are, to the order itself, to a
  byte string one byte too long and to a scalar above the order. Requests that are
  refused or malformed interact with one other call at most, so when one of them is
  among the calls there are only two (`Bounded`). Calls are interchangeable;
  `Bounded` makes them arrive in the order of their numbers.
- **register-tee:** two TEEs, so that the TEE can be replaced, with and without
  `-resume`; two faults of any kind (a lookup or a save fails, a kill, a late proof,
  a lost proof, an expired challenge, a proxy out of step with the signing policy, a
  replaced TEE), one rerun after success; so a resumed run may find the file of its own
  TEE or of the one before, after any of the steps. Commands are the default, that of
  `post-build.sh`, and the split into `rRa` and `p`. Two faults let a saved state
  meet a chain on which it is no longer of use, and a transaction be mined after the
  run that sent it has died and another has begun.
- **Pipeline:** three contracts, five machines, two events out of the ordinary (a
  failed step, `--force`, a registration by hand, an edited `.env`, a paused, suspended
  or banned machine, a disabled version, a lost node). Each fault uses up at most one
  contract and one machine, so these never run out. Six `.env` files: as documented,
  with a governance of its own, with nothing set, with the key alone, with another owner of the extension,
  and with a threshold that its signers cannot meet. Four environments for
  verify-deploy: nothing set, everything lacking, lacking but with a manager and
  funds, complete. `setup_defaults` needs no fault.
- **Local processes:** five process numbers, two extensions, three faults (a crash,
  a hang, a killed script, a second start, another program, `pre-build.sh --force`).
  Two services, two that have been left over and another program can be there at
  once; a number used again for another program takes two faults, and a killed
  script a third.
- **run-test:** seven machines and three faults. Each restart of the node is
  followed by a repair that replaces it again, so three faults use up six machines
  besides the first.
- **Chain selection:** three chains; a template for `.env` is any subset of the five
  variables for any one chain, or one that mixes two chains. There is no other
  bound: nothing is counted.

`TakeOne` picks the next contract or machine by `CHOOSE`: they are interchangeable
until they are used. `TakeLeast` likewise gives a new process the least of the
numbers that nothing refers to, or any that is still written down somewhere.

### Fairness, and what justifies it

- Go: weak fairness of each step of the server (the scheduler runs every goroutine;
  `sync.RWMutex` admits every waiter). *None* for the node: the request has no
  timeout, so the node may never answer, and the property says so.
- Python, TypeScript: also weak fairness of the node's step, which includes failing.
  The properties claim answers only from a node that does something with each
  request. In TypeScript it may leave its response unfinished.
- register-tee: the process runs, transactions are mined, proofs come unless they
  are lost, a proxy out of step catches up, and the operator starts the tool again
  after a failure, as the documentation tells him to. Faults are bounded.
- Pipeline: the operator runs `full-setup.sh` again until it ends well. Nothing out
  of the ordinary (`--force`, by hand) is ever required.
- Local processes: processes and scripts run, the operator starts the services when
  they are stopped and stops them when they do not serve. That `wait-for-url` gives
  up on services that are well on their way counts as a fault; faults are bounded.
- run-test: the client goes on, the node answers, the operator repairs; and strong
  fairness of the chain's draw: the machine that runs is drawn again and again. A
  replaced machine stays in production and may be drawn, so without that assumption
  the test could fail for ever.

`CHECK_DEADLOCK FALSE` stands where the system really ends: all calls of the
instance are over, the registration is done, the pipeline has nothing left to do.
The runs of run-test, of the chain selection and of the local processes check for
deadlock.

### Findings

1. `registration_resume`: the state file is there "so registration can resume after
   failures" (`registration.go:26-27`). A resumed run skips step R and reuses a
   challenge which may have expired, or polls for a proof that was lost; the state
   file is not dropped, so each later resume fails again. A run without `-resume`
   gets through (`registration`).
2. `setup_defaults`: with `INITIAL_OWNER` and `GOVERNANCE_SIGNERS` unset,
   `docker-compose.yaml:53,57` gives the node a fixed owner and signer, and
   set-governance registers the address of the deployer's key
   (`set-governance/main.go:56`): the registry then refuses the TEE. The header of
   that tool says that both default to the deployer, and
   `SCAFFOLD_SYNC_UPDATE.md:81-82` that the two always agree.
3. `chain_flag`: `full-setup.sh:39` says "flag > env > legacy LOCAL_MODE", but the
   flag is kept in `CHAIN` and `.env` is sourced over it. Applying the flag after
   `.env` in `full-setup.sh` alone would not do: the scripts it starts source `.env`
   again, and `StaysOnChain` fails (that is its mutant, `ResolvedFlagLast`).
4. `chain_config`: `TESTNET_DEPLOYMENT.md:175` says every re-run of `pre-build.sh`
   overwrites `extension.env` with the active chain's values. Without `--force` it
   is reused, whatever chain it is for.

Three remarks on documents, without a run of their own:
`skills/create-extension/references/base-spec.md:37` says that only one handler runs
at a time, while the Go server runs them concurrently (`extension.go:114`), and is
linearizable all the same. check-tee-state says "All consistent", and that the set of
active machines was emptied "for a non-status reason (banned/disabled version)"
(`main.go:220`, `DEPLOYMENT_STEPS.md:478`), just of a TEE whose ids agree and that is
INITIALIZED or PAUSED, which is a status reason; a banned TEE gets "toProduction will
revert", and one whose version was disabled the advice for a TEE in PRODUCTION.
`VerdictExplains` states what the tool does. `DEPLOYMENT_STEPS.md:477`
quotes PRODUCTION as status 1; in the code it is 2.

### Conditions in properties, and what they leave out

- `CachedIdIsConfigured` and `EventuallyReachable` hold unless someone runs
  `register-extension` by hand: then the contract may cache the older id while the
  file names the newer one. `CleanReportMeansAgreement` says that verify-deploy
  notices (a warning of R7).
- `NoOrphan` holds without `--force`: minting again with it orphans the TEE, which
  is what the guard of `pre-build.sh` is for.
- `EventuallyReachable`: in `--local` mode running services are left alone by
  `start-services.sh`, so a later `--force` or edited `.env` does not reach them;
  the property claims nothing then. Nor does it unless `.env` `Suffices`: the
  extension's owner, its governor and the node's owner are one account, and its
  signers can meet the threshold. `setup_defaults` shows a `.env` that does not. And
  unless the node's TEE is `Promotable`: a suspended or banned one, or one in
  PRODUCTION that a disabled version took off the active list, is left as it is by
  every script until the services are started anew or its owner pauses it.
- `PublishedConfigPasses` asks for the account that registered the extension, as R3
  does, for funds and for a manager on this chain.
- `QuickFixWorks` leaves out registrations by hand, after which a contract may have
  several extensions.
- `EventuallyInProduction` holds for a run with `-resume` only while its state file
  is `Resumable` and of its own TEE: the first finding is about the one, the next
  paragraph about the other.
- The state file of another TEE (`run.foreign`). register-tee removes the file only
  without `-resume` (`main.go:27-32`), loads it unconditionally
  (`registration.go:66-73`), and the file names no TEE. When the node has been
  replaced, a run with `-resume` therefore skips for the new TEE the steps that were
  done for the old one. If r or R was the last of them, the check for the new TEE is
  sent with the old challenge and reverts: the run fails, and so does every later one
  with `-resume`. If a was, the run takes the old TEE's proof, promotes the old TEE or
  finds it in production, and says that it is done, with the new TEE not even
  registered. `CheckUsesOwnAttestation` and `SuccessMeansProduction` except just these
  runs, where they must; what they still claim of them is that no check with another's
  attestation is ever noted as done, and that the TEE of the proof is in production.
  `StateFileTruthful` has no such exception. `TESTNET_DEPLOYMENT.md:669` tells the
  operator to delete the file "after rotating the TEE keypair"; the tool does so itself
  when it is run without `-resume`.
- `RecordsTruthful` and `StartedMeansServing` claim nothing once a service has died
  since the last stop (`calm`): `kill -0` cannot tell a process from another that
  has its number. These two and `EventuallyServing` claim nothing while a process
  runs that no script has written down (`stray`): it holds the port of its service,
  and `stop-services.sh` does not know of it.

## 4. The proofs

Every invariant a passing run checks is also a theorem, `Spec => []…`, for every
value of the constants; so are the refinement of the abstract register by each of the
three servers and the action property `WedgedUntilRestart`. Nothing is taken on
trust but the assumptions the modules state about their constants, which TLC
evaluates in the runs:

| assumption | says |
|---|---|
| `ProtocolAssumption`, `CallsAssumption` | there is a message, sizes are sensible, every ciphertext the node decrypts has a plaintext; `NoCall` is not a call, callers send requests |
| `RegistrationAssumption` | commands are sets of the steps r, R, a, p |
| `SenderAssumption`, `SetupAssumption`, `AccountsAssumption`, `EnvironmentsAssumption` | public ids begin above zero; the zero address is no contract's; `.env` files and environments have their types |
| `LocalServicesAssumption` | no process has the number 0, there is an extension |
| `RunTestAssumption` | the client's contract is one of the contracts |
| `ChainAssumption` | the three chains are chains, no chain is called `true`, `false` or unset, templates are `.env` files |

One theorem has a hypothesis of its own: `ChecksUseOwnAttestations` assumes
`AttestsFirst`, that the operator asks for a check (`a`) only together with a step
that brings an attestation. Every command of the scripts and of the documentation
does, and every one of the runs'; the tool itself would check without.

Few of the properties are inductive. Below is what had to be added, and why.

### The servers

For any set of calls, any requests and payloads, any key length and order greater
than one, and any number of restarts.

**Go** (`GoExtensionProofs`). `IInv` strengthens the five invariants of `go_server`:

- `RouteInv`: a call is only where the route of its request leads, and between
  decryption and assignment its local key is the one its own ciphertext yields.
  Types depend on this: a reply over an unreadable message would not be one.
- `MutexInv`: `writer` and `readers` are exactly the calls between their lock and
  unlock, and never both. `NoDataRace` follows from it alone.
- `HistoryInv`: the register holds the last value of the history. Without it what a
  reader copies could not be related to what was stored.
- `ReadInv`: what a reader has copied, and replies, was stored during its call, from
  the `Read` step on; the property itself only speaks of the end.
- `StoreInv`: a call has stored nothing before `Store` and exactly once after, at a
  position later than its arrival.

For each part there is a lemma that the actions preserve it, one step per action;
calls that do not act are covered by lemmas on how `HeldSince` and `Stores` change
when the history grows by one entry. `GoImplementsRegister` proves
`Spec => Register!Spec` with the refinement mapping of the run (`AbsPhase`,
`AbsRes`). An update takes effect at its `Store`, SIGN and `GET /state` at their
`Read`, though the reply is computed after the lock has been released; a refused
request when its reply is decided. All other steps stutter. The proof uses
`RouteInv` and the type invariant.

**Python** (`PythonProofs`). `MuInv` says that a call holds the lock just while it is
between taking and releasing it, so `OneHandlerAtATime` follows. With `RouteInv`
this gives `PythonImplementsRegister`: a call takes effect at the end of its handler,
with the lock still held.

**TypeScript** (`TsProofs`). Only the head of the promise chain runs (`HeadInv`).
`UpdatesInArrivalOrder` compares two stored keys; for the next one to be stored one
has to know that whatever is still in the chain arrived after every call that has
stored, and that the chain itself is in the order of arrival. `OrderInv` says both
over positions in `arrivals`. `TsWedged` needs the types and `HeadInv`: a wedged
call is the head, so nothing else moves. `TsImplementsRegister` is as for Python.

### register-tee

`RegistrationProofs`, for any number of TEEs, faults and reruns and any commands.
The three invariants speak of the file, of the mempool and of the end. In between,
`RInv` has to say

- what the state in memory and the file know: each step marked as done is on chain,
  for a registered TEE (`Truthful`, of both), which takes that requests on chain only
  name registered TEEs (`AllRegistered`, `RequestsNameTees`);
- where a resumed run is, which may have skipped steps (`OwnIds` with `Behind`): its
  ids are of the run's TEE unless the state file was another's;
- that a check the chain has accepted carried an attestation of its TEE
  (`AcceptedCheck`), so that not even a run with another's file can go on after one
  that did not;
- that the receipt a run waits for is that of its own transaction, and tells what
  that one did (`OwnReceipt`): the last of the mempool, since the one account's
  transactions are mined in order. Those of runs that died may still be before it.

`GrowthKeepsKnowledge` is the lemma the argument rests on: the chain only grows
(`Grows`), so what was known of it stays true, whatever earlier runs that died
have left in the mempool. Each step of the tool is shown to be one of a few kinds
(it sends, it is quiet, a transaction is mined), and each kind once to preserve `RInv`.

### The pipeline, verify-deploy and check-tee-state

`SetupProofs`, for any number of contracts, machines and extensions, any `.env`
files, environments and faults. `SetupCachedIdIsFirst` comes first: a new extension
gets an id above all others (`RegisterKeepsFirst`), the scan caches the least that
fits (`SetKeepsFirst`), and no other step touches either. `PInv` adds

- `PreBuildInv`: what `pre-build.sh` has brought about at each of its steps, from
  which `ConfigComplete` follows when it writes the file;
- `NodeInv` and `UnforcedInv`: a machine is registered for the extension its node
  was started with; and without `--force`, `pre-build.sh` runs only while there is
  no file, and whatever there is comes from it. `NoOrphan` alone is not inductive: a
  running node could be of another extension, and be registered next;
- `SendersInv`: an extension's contract has been deployed, and has only this one
  extension unless somebody registers another by hand. With it, and `CachedIdIsFirst`,
  the contract can only have cached what the file names.

The properties of the two tools are theorems about their operators in any state of
`PInv`: `CleanReportsAgree` and `PublishedConfigsPass` go through the checks of the
report, `VerdictsExplain` through the cases of the verdict (`VerdictIs` lists them; that the
active list holds only machines in PRODUCTION, a part of the types, gives
`ReachedIsListed`), and `QuickFixesWork` rests on `OnlyId`.

### Local processes

`LocalProofs`, for any number of process numbers, extensions and faults. `SInv` says
for every moment that a service that runs is written down, about to be written down,
or stray (`Noted`), and at which points a PID file is known to be gone (`Cleared`);
`StopMeansStopped` speaks of the end of a stop only. `DiesKeepsNoted` shows that a
process that ends is missed by nobody, and `StoppedStep` that a PID file is removed
only when its process has ended.

`LInv` adds `CalmInv`, what holds while all is calm: the process of each PID file is
of its own service, and serves the configured extension. It had to allow for stray
processes, which make a fresh process of their service give way (`Blocked`), although
`RecordsTruthful` and `StartedMeansServing` leave them out: strays can go away, and
what happened while they were there must not be forgotten. `TermInv` says that only
processes with a PID file are ever signalled.

### run-test

`RunTestProofs`, for any number of machines, pending instructions and faults. The
queue may be of any length, so that ids are new by a counting argument (`NewIdIsNew`).
`QueueInv` makes ids unique, which is why nobody else's result is taken for the
awaited one; `UpdatedInv` gives `PassesOnOwnUpdate`. For `FailureExplained`,
`SmoothRun` says what a run that nothing has disturbed relies on step by step: the
contract has its id, the target is the running node, the awaited instruction is
pending or answered as expected, and the node holds the test's key from the
acknowledgement on.

### Chain selection

`ChainProofs`, for any set of chains and any templates. `PhasesAgree` and
`StaysOnChain` are preserved once it is known what a script inherits: what
`full-setup.sh` has exported, and nothing when it is run alone (`ShellInv`).
`ExportedIsSet` computes the exported environment, `FullAgrees` and `CompleteAgrees`
what a script makes of it once it has sourced `.env` again.

### Only model-checked

- Liveness: `WaitsOnlyForOwnDecryption`, `EveryCallEnds`, `EveryCallEndsUnlessWedged`,
  `EventuallyInProduction`, `EventuallyReachable`, `EventuallyServing` and
  `EventuallyPasses`. They depend on fairness, whose meaning is by `ENABLED`, which
  the prover does not handle.
- The properties of the four violation runs, which do not hold.

## 5. What is not modelled, and why

- **Encodings and cryptography**: data. Which bytes the ABI codecs accept decides
  only whether a request is `ok`, `badFixed` or `badAction`.
- **audit-deploy**: it lists addresses, code and settings, and draws no conclusion.
- **Diagnostics** other than the verdict of check-tee-state: `query-tee` and
  `diag.go` print what they read, `revert.go` decodes errors into text.
- **Images and bindings**: build files.
- **Local processes**: a process and its children are one process, which
  `_kill_tree` ends together; Redis and the builds are failures of the script;
  `e2e.sh status` only reads.
- **Chain selection**: `stop-services.sh`, which resolves the chain as
  `start-services.sh` does.
- In what is modelled: a transaction that would revert when its gas is estimated is
  treated as sent and reverted, which the caller sees alike; RPC calls of
  verify-deploy and of check-tee-state do not fail; a TypeScript request whose
  instruction is the JSON `null` (an unhandled rejection, which ends the process) is
  not offered, its effect is that of `Crash`; a message that is not UTF-8 makes the
  Python server close the connection without an answer, since nothing catches the
  `UnicodeDecodeError` of `server.py:124-128`, where the model answers 400: no handler
  runs and nothing changes either way; image builds and the hooks
  `extension-setup.sh` and `extension-post-setup.sh`, which change nothing, are left
  out.

## 6. The plan

Done, in this order: the abstract register and the three servers; the proofs about
the Go server; registration; pipeline and contract, with verify-deploy; run-test;
chain selection; the signing policy in registration; accounts, governance and the
status of machines in the pipeline, with check-tee-state; the local processes; then
the proofs, component by component, until every invariant a run checks was a theorem.

To extend the model: the ABI pair codecs (`abiDecodeTwo`, `abiEncodeTwo`) of the
three languages over bounded inputs, decoding inverting encoding. What is left
besides are the parts of section 5.

To prove more, now that the invariants are theorems:

1. What keeps the liveness properties from being blocked, as invariants: in Go no
   call holds the lock across the request to the node; in TypeScript a chain that
   stands still has a wedged head; in register-tee a run that waits always has its
   transaction in the mempool.
2. What a caller may conclude from `KeyRegister` alone, which then holds of all three
   servers: a signature is by a key in force during the call, an update is
   acknowledged just when its key was stored.
3. Action properties: a suspended or banned TEE stays so, an extension never
   changes its contract, a cached id is never replaced.
4. That the two actions by which register-tee appears in the pipeline
   (`RegisterTee`, `PromoteTee`) are what `Registration` does to the chain.
