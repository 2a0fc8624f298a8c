---------------------------- MODULE Registration ----------------------------
(***************************************************************************)
(* register-tee (go/tools): registers the TEE behind the extension proxy in  *)
(* up to four steps, r (register), R (request a fresh attestation), a        *)
(* (availability check) and p (to production).  A state file, written after *)
(* each of the first three, lets a later run resume.  The process may fail   *)
(* or be killed at any point; the operator then starts it again.            *)
(***************************************************************************)
EXTENDS TeeRegistry

CONSTANTS
  Commands,   \* the -command flags the operator uses, as sets of steps
  Resumes,    \* the values of the -resume flag the operator uses
  MaxFaults,  \* bound on everything that goes wrong in a behaviour
  MaxReruns   \* how often a completed registration is run again

ASSUME RegistrationAssumption ==
  /\ Commands \subseteq SUBSET {"r", "R", "a", "p"}
  /\ Resumes \subseteq BOOLEAN
  /\ MaxFaults \in Nat /\ MaxReruns \in Nat

VARIABLES
  tee,     \* the TEE behind the proxy
  pc,      \* where the process is in its present step
  step,    \* the present step
  run,     \* the run's command, its TEE and the ids it has at hand; and, read by
           \* no step, whether it has resumed what a run for another TEE left
  state,   \* registrationState in memory
  file,    \* the state file
  faults,  \* what has gone wrong so far
  reruns   \* runs started after a completed one

toolVars == <<tee, pc, step, run, state, file, faults, reruns>>
vars == <<chainVars, toolVars>>

Steps == {"r", "R", "a", "p"}
\* Mutant: a step letter in the wrong case.
StepAfterMiscased == [r |-> "R", R |-> "a", a |-> "P"]

StepAfter == [r |-> "R", R |-> "a", a |-> "p"]
Fresh == [done |-> {}, attest |-> 0, instr |-> 0]
Missing == [kind |-> "missing", state |-> Fresh]
Corrupt == [kind |-> "corrupt", state |-> Fresh]
Valid(s) == [kind |-> "valid", state |-> s]

Running == pc \notin {"idle", "failed", "outOfSync", "done"}

Init ==
  /\ ChainInit
  /\ tee \in Tees
  /\ pc = "idle" /\ step = "r"
  /\ run = [cmd |-> {}, resume |-> FALSE, foreign |-> FALSE, tee |-> tee,
            attest |-> 0, instr |-> 0]
  /\ state = Fresh
  /\ file = Missing
  /\ faults = 0 /\ reruns = 0

-----------------------------------------------------------------------------
(* The process.                                                             *)

\* main: without -resume the state file is removed (a removal that fails is
\* only a warning, and then it is as with -resume); the TEE is asked who it is;
\* -i gives the instruction a command without "a" waits for.
Start ==
  /\ ~Running
  /\ pc = "outOfSync" => inSync
  /\ pc = "done" => reruns < MaxReruns
  /\ reruns' = IF pc = "done" THEN reruns + 1 ELSE reruns
  /\ \E resume \in Resumes, cmd \in Commands :
       \E i \in IF "a" \in cmd THEN {0} ELSE DOMAIN sent :
         /\ file' = IF resume THEN file ELSE Missing
         /\ run' = [cmd |-> cmd, resume |-> file' # Missing, foreign |-> FALSE,
                    tee |-> tee, attest |-> 0, instr |-> i]
  /\ pc' = "load"
  /\ UNCHANGED <<chainVars, tee, step, state, faults>>

\* The ids of a state are those of TEE t.
Own(s, t) ==
  /\ s.done \cap {"r", "R"} # {} => IsInstruction(s.attest, "attest", t)
  /\ "a" \in s.done => IsInstruction(s.instr, "check", t)

\* The state file does not name its TEE, and is loaded whatever the TEE.
Load ==
  /\ pc = "load"
  /\ file.kind # "corrupt"
  /\ state' = file.state
  /\ run' = [run EXCEPT !.foreign = ~Own(file.state, run.tee)]
  /\ pc' = "step" /\ step' = "r"
  /\ UNCHANGED <<chainVars, tee, file, faults, reruns>>

LoadFails ==
  /\ pc = "load"
  /\ file.kind = "corrupt"
  /\ pc' = "failed"
  /\ UNCHANGED <<chainVars, tee, step, run, state, file, faults, reruns>>

\* On to the next step; after the last the state file is removed.
Advance ==
  IF step = "p" THEN pc' = "cleanup" /\ UNCHANGED step
  ELSE pc' = "step" /\ step' = StepAfter[step]

Skip ==
  /\ pc = "step"
  /\ step \notin run.cmd
  /\ Advance
  /\ UNCHANGED <<chainVars, tee, run, state, file, faults, reruns>>

\* What a completed step left in the state, or in a receipt with id i.
Restored(i) ==
  IF step = "a" THEN [run EXCEPT !.instr = i] ELSE [run EXCEPT !.attest = i]

\* Mutant: the ids are not taken over from the state file.
SkipCompletedWithoutIds ==
  /\ pc = "step"
  /\ step \in run.cmd \cap state.done
  /\ Advance
  /\ UNCHANGED <<chainVars, tee, run, state, file, faults, reruns>>

SkipCompleted ==
  /\ pc = "step"
  /\ step \in run.cmd \cap state.done
  /\ run' = Restored(IF step = "a" THEN state.instr ELSE state.attest)
  /\ Advance
  /\ UNCHANGED <<chainVars, tee, state, file, faults, reruns>>

Due(s) == pc = "step" /\ step = s /\ s \in run.cmd \ state.done

\* Mutant: the machine is not looked up before it is registered.
LookUpNothing ==
  /\ Due("r")
  /\ pc' = "register"
  /\ UNCHANGED <<chainVars, tee, step, run, state, file, faults, reruns>>

LookUpMachine ==
  /\ Due("r")
  /\ pc' = IF status[run.tee] = "NONE" THEN "register" ELSE "attest"
  /\ UNCHANGED <<chainVars, tee, step, run, state, file, faults, reruns>>

\* A lookup that fails counts as "not registered".
LookUpFails ==
  /\ Due("r") /\ faults < MaxFaults
  /\ pc' = "register" /\ faults' = faults + 1
  /\ UNCHANGED <<chainVars, tee, step, run, state, file, reruns>>

Send(op, t, ref) ==
  /\ SendTx(op, t, ref)
  /\ pc' = "wait"
  /\ UNCHANGED <<tee, step, run, state, file, faults, reruns>>

PreRegistration == pc = "register" /\ Send("register", run.tee, 0)

RequestTeeAttestation ==
  /\ pc = "attest" \/ Due("R")
  /\ Send("attest", run.tee, 0)

RequestFTDCAvailabilityCheck ==
  /\ Due("a") /\ inSync
  /\ Send("check", run.tee, run.attest)

\* CheckFTDCProxyPolicyConsistency: a confirmed mismatch ends the run, and the
\* error tells the operator to wait for the proxy to catch up.
PolicyOutOfSync ==
  /\ Due("a") /\ ~inSync
  /\ pc' = "outOfSync"
  /\ UNCHANGED <<chainVars, tee, step, run, state, file, faults, reruns>>

\* A lookup that fails never blocks the registration.
PolicyUnknown ==
  /\ Due("a") /\ ~inSync /\ faults < MaxFaults
  /\ SendTx("check", run.tee, run.attest)
  /\ pc' = "wait" /\ faults' = faults + 1
  /\ UNCHANGED <<tee, step, run, state, file, reruns>>

\* Mutant: the status of the receipt is not looked at.
ConfirmedUnchecked ==
  /\ pc = "wait"
  /\ receipt.state # "pending"
  /\ step # "p"
  /\ run' = Restored(receipt.id)
  /\ state' = [done |-> state.done \cup {step},
               attest |-> IF step = "a" THEN state.attest ELSE receipt.id,
               instr |-> IF step = "a" THEN receipt.id ELSE state.instr]
  /\ pc' = "save"
  /\ UNCHANGED <<chainVars, tee, step, file, faults, reruns>>

\* CheckTx has seen the receipt of r, R or a: the step is noted in memory.
Confirmed ==
  /\ pc = "wait"
  /\ receipt.state = "mined"
  /\ step # "p"
  /\ run' = Restored(receipt.id)
  /\ state' = [done |-> state.done \cup {step},
               attest |-> IF step = "a" THEN state.attest ELSE receipt.id,
               instr |-> IF step = "a" THEN receipt.id ELSE state.instr]
  /\ pc' = "save"
  /\ UNCHANGED <<chainVars, tee, step, file, faults, reruns>>

RevertSeen ==
  /\ pc = "wait"
  /\ receipt.state = "reverted"
  /\ pc' = "failed"
  /\ UNCHANGED <<chainVars, tee, step, run, state, file, faults, reruns>>

SaveState ==
  /\ pc = "save"
  /\ file' = Valid(state)
  /\ Advance
  /\ UNCHANGED <<chainVars, tee, run, state, faults, reruns>>

\* A write that fails, before or after the file is truncated, is a warning.
SaveFails ==
  /\ pc = "save" /\ faults < MaxFaults
  /\ file' \in {file, Corrupt}
  /\ faults' = faults + 1
  /\ Advance
  /\ UNCHANGED <<chainVars, tee, run, state, reruns>>

-----------------------------------------------------------------------------
(* Step p.                                                                  *)

ProofObtained ==
  /\ pc = "step" /\ step = "p" /\ "p" \in run.cmd
  /\ run.instr \in proofs
  /\ pc' = "promote"
  /\ UNCHANGED <<chainVars, tee, step, run, state, file, faults, reruns>>

\* ActionResult polls a fixed number of times.  It gives up on a proof that
\* would have come only when the proof is late, which is a fault.
GiveUp ==
  /\ pc = "step" /\ step = "p" /\ "p" \in run.cmd
  /\ run.instr \notin proofs
  /\ IF IsInstruction(run.instr, "check", tee) /\ run.instr \notin lost
     THEN faults < MaxFaults /\ faults' = faults + 1
     ELSE UNCHANGED faults
  /\ pc' = "failed"
  /\ UNCHANGED <<chainVars, tee, step, run, state, file, reruns>>

\* ToProduction takes the TEE from the proof, and skips one in production.
ProofTee == sent[run.instr].tee

\* Mutant: teeStatusProduction has the value of INITIALIZED.
AlreadyInitialized ==
  /\ pc = "promote"
  /\ status[ProofTee] = "INITIALIZED"
  /\ Advance
  /\ UNCHANGED <<chainVars, tee, run, state, file, faults, reruns>>

AlreadyInProduction ==
  /\ pc = "promote"
  /\ status[ProofTee] = "PRODUCTION"
  /\ Advance
  /\ UNCHANGED <<chainVars, tee, run, state, file, faults, reruns>>

ToProduction ==
  /\ pc = "promote"
  /\ status[ProofTee] # "PRODUCTION"
  /\ Send("production", ProofTee, run.instr)

\* A status that cannot be read does not keep the transaction from being sent.
ToProductionUnchecked ==
  /\ pc = "promote" /\ faults < MaxFaults
  /\ SendTx("production", ProofTee, run.instr)
  /\ pc' = "wait" /\ faults' = faults + 1
  /\ UNCHANGED <<tee, step, run, state, file, reruns>>

Promoted ==
  /\ pc = "wait" /\ step = "p"
  /\ receipt.state = "mined"
  /\ pc' = "cleanup"
  /\ UNCHANGED <<chainVars, tee, step, run, state, file, faults, reruns>>

Finish ==
  /\ pc = "cleanup"
  /\ file' = Missing
  /\ pc' = "done"
  /\ UNCHANGED <<chainVars, tee, step, run, state, faults, reruns>>

-----------------------------------------------------------------------------
(* What goes wrong.                                                         *)

\* The process ends in an error or is killed: a lookup or a send fails, or no
\* receipt comes within two minutes.  A transaction
\* already sent stays sent; a write under way leaves half a file.
Abort ==
  /\ Running /\ faults < MaxFaults
  /\ faults' = faults + 1
  /\ pc' = "failed"
  /\ file' \in IF pc = "save" THEN {file, Corrupt, Valid(state)} ELSE {file}
  /\ UNCHANGED <<chainVars, tee, step, run, state, reruns>>

\* The TEE node is started anew: a new key pair, hence a new identity.
ReplaceTee ==
  /\ faults < MaxFaults
  /\ \E t \in Tees : status[t] = "NONE" /\ t # tee /\ tee' = t
  /\ faults' = faults + 1
  /\ UNCHANGED <<chainVars, pc, step, run, state, file, reruns>>

ServiceFault ==
  /\ faults < MaxFaults
  /\ faults' = faults + 1
  /\ LoseProof \/ ExpireChallenge \/ LoseSync
  /\ UNCHANGED <<tee, pc, step, run, state, file, reruns>>

-----------------------------------------------------------------------------
ToolStep ==
  \/ Load \/ LoadFails \/ Skip \/ SkipCompleted
  \/ LookUpMachine \/ PreRegistration \/ RequestTeeAttestation
  \/ RequestFTDCAvailabilityCheck \/ PolicyOutOfSync \/ Confirmed \/ RevertSeen \/ SaveState
  \/ ProofObtained \/ GiveUp
  \/ AlreadyInProduction \/ ToProduction \/ Promoted \/ Finish

ChainStep == (Mine \/ Prove(tee) \/ CatchUp) /\ UNCHANGED toolVars

Fault ==
  \/ LookUpFails \/ PolicyUnknown \/ SaveFails \/ ToProductionUnchecked
  \/ Abort \/ ReplaceTee \/ ServiceFault

Next == Start \/ ToolStep \/ ChainStep \/ Fault

Spec == Init /\ [][Next]_vars

\* The process runs, transactions are mined, proofs arrive, the proxy catches
\* up, and the operator starts the tool again after a failure.
FairSpec ==
  /\ Spec
  /\ WF_vars(ToolStep) /\ WF_vars(ChainStep)
  /\ WF_vars(CatchUp /\ UNCHANGED toolVars)
  /\ WF_vars(pc # "done" /\ Start)

-----------------------------------------------------------------------------
PCs == {"idle", "load", "step", "register", "attest", "wait", "save",
        "promote", "cleanup", "done", "failed", "outOfSync"}

States == [done : SUBSET {"r", "R", "a"}, attest : Nat, instr : Nat]

TypeOK ==
  /\ status \in [Tees -> Statuses]
  /\ sent \in Seq([kind : {"attest", "check"}, tee : Tees])
  /\ live \cup proofs \cup lost \subseteq DOMAIN sent
  /\ inSync \in BOOLEAN
  /\ mempool \in Seq([op : TxOps, tee : Tees, ref : Nat])
  /\ receipt \in [state : {"pending", "reverted", "mined"}, id : Nat]
  /\ tee \in Tees /\ pc \in PCs /\ step \in Steps
  /\ run \in [cmd : SUBSET Steps, resume : BOOLEAN, foreign : BOOLEAN, tee : Tees,
              attest : Nat, instr : Nat]
  /\ state \in States
  /\ file \in [kind : {"missing", "corrupt", "valid"}, state : States]
  /\ faults \in 0 .. MaxFaults /\ reruns \in 0 .. MaxReruns

\* The state file never claims a step the chain has not seen: whatever run
\* wrote it and wherever that run died, its attestation and its check are on
\* chain, and are those of registered TEEs (saveState follows CheckTx).
StateFileTruthful ==
  LET s == file.state
      Seen(i, kind) == \E t \in Tees : IsInstruction(i, kind, t) /\ status[t] # "NONE"
  IN  file.kind = "valid" =>
        /\ s.done \cap {"r", "R"} # {} => Seen(s.attest, "attest")
        /\ "a" \in s.done => Seen(s.instr, "check")

\* An availability check is sent with an attestation of the very TEE that is
\* being registered, resumed or not, unless the run has resumed the state file of
\* another TEE; and whatever it has resumed, the check is noted as done only
\* when its attestation was that TEE's (registration.go:79, :110 and :143).
CheckUsesOwnAttestation ==
  /\ pc = "wait" /\ step = "a" /\ receipt.state = "pending" /\ ~run.foreign =>
       LET tx == mempool[Len(mempool)]
       IN  tx.tee = run.tee /\ IsInstruction(tx.ref, "attest", run.tee)
  /\ pc = "save" /\ step = "a" => IsInstruction(run.attest, "attest", run.tee)

\* register-tee reports success only when the TEE of the proof it used is in
\* production; and that is the TEE it names, unless the run has resumed the
\* state file of another TEE: then it has promoted, or skipped, that one, and
\* the TEE it names may not even be registered (registration.go:129-131, :164).
SuccessMeansProduction ==
  pc = "done" /\ "p" \in run.cmd =>
    /\ run.instr \in DOMAIN sent /\ status[ProofTee] = "PRODUCTION"
    /\ "a" \in run.cmd => ProofTee = run.tee \/ run.foreign

\* What a resumed run needs of the state file: it can be read, and its proof
\* will come, or its challenge is still good.
Resumable ==
  LET s == file.state
  IN  /\ file.kind # "corrupt"
      /\ "a" \in s.done => s.instr \notin lost
      /\ "a" \notin s.done /\ s.done # {} => s.attest \in live

\* The tool gets the TEE behind the proxy into production in the end, whatever
\* earlier runs, late transactions, a proxy out of step, expired challenges and
\* lost proofs have left behind, and running it again is harmless
\* (registration.go:85-88 and :363-366): from scratch always, and resumed unless
\* the state file is another TEE's or of no use any more.
EventuallyInProduction ==
  <>[]({"a", "p"} \subseteq run.cmd /\ (run.resume => ~run.foreign /\ Resumable)) =>
    <>[](pc = "done" /\ status[run.tee] = "PRODUCTION")

\* registration.go:26-27, "Saved to a state file after each step so
\* registration can resume after failures".
ResumeCompletes == pc = "failed" ~> pc = "done"
=============================================================================
