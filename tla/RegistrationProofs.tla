------------------------- MODULE RegistrationProofs -------------------------
(***************************************************************************)
(* What register-tee may rely on and what it promises, proved for any       *)
(* number of TEEs, of faults and of reruns, and whatever the command.       *)
(***************************************************************************)
EXTENDS Registration, SequenceTheorems, TLAPS

\* The operator asks for a check only together with a step that brings an
\* attestation: so does every command of the scripts and the documentation.
AttestsFirst == \A cmd \in Commands : "a" \in cmd => cmd \cap {"r", "R"} # {}

\* A state, in memory or on file, tells the truth, about whatever TEEs.
Seen(i, kind) == i \in DOMAIN sent /\ sent[i].kind = kind
Truthful(s) ==
  /\ s.done \cap {"r", "R"} # {} => Seen(s.attest, "attest")
  /\ "a" \in s.done => Seen(s.instr, "check")

\* Every instruction on chain is about a TEE that is registered.
AllRegistered == \A i \in DOMAIN sent : status[sent[i].tee] # "NONE"

\* The run has read the state file.
Loaded == Running /\ pc # "load"

\* The steps behind the run, the one whose state is being saved included.
Behind ==
  (CASE step = "r" -> {}
     [] step = "R" -> {"r"}
     [] step = "a" -> {"r", "R"}
     [] step = "p" -> {"r", "R", "a"})
  \cup (IF pc = "save" THEN {step} ELSE {})

Places ==
  /\ pc \in {"register", "attest"} => step = "r"
  /\ pc = "save" => step # "p"
  /\ pc = "promote" => step = "p"
  /\ pc \in {"promote", "wait"} /\ step = "p" => run.instr \in DOMAIN sent
  /\ pc = "cleanup" => step = "p"
  /\ pc \in {"register", "attest", "wait", "promote"} => step \in run.cmd

FileTruthful == Truthful(file.state)
MemoryTruthful == Loaded => Truthful(state) /\ (~run.foreign => Own(state, run.tee))

\* The ids the run has at hand are its TEE's, if the state it loaded was.
OwnIds ==
  Loaded /\ ~run.foreign =>
    /\ run.cmd \cap Behind \cap {"r", "R"} # {} => IsInstruction(run.attest, "attest", run.tee)
    /\ "a" \in run.cmd \cap Behind => IsInstruction(run.instr, "check", run.tee)

\* The transactions a step sends, and the TEE they are about.
OpsOf(s) ==
  CASE s = "r" -> {"register", "attest"}
    [] s = "R" -> {"attest"}
    [] s = "a" -> {"check"}
    [] s = "p" -> {"production"}
Subject == IF step = "p" THEN ProofTee ELSE run.tee

\* The receipt the run waits for is that of the transaction it sent, the last
\* of the mempool until it is mined, and tells what that one brought about.
OwnReceipt ==
  pc = "wait" =>
    /\ receipt.state # "pending" => mempool = <<>>
    /\ receipt.state = "pending" =>
         /\ mempool # <<>>
         /\ mempool[Len(mempool)].op \in OpsOf(step)
         /\ mempool[Len(mempool)].tee = Subject
         /\ step = "a" => mempool[Len(mempool)].ref = run.attest
    /\ receipt.state = "mined" =>
         /\ step \in {"r", "R"} => IsInstruction(receipt.id, "attest", run.tee)
         /\ step = "a" => /\ IsInstruction(receipt.id, "check", run.tee)
                          /\ IsInstruction(run.attest, "attest", run.tee)
         /\ step = "p" => status[ProofTee] = "PRODUCTION"

CommandTaken == run.cmd = {} \/ run.cmd \in Commands

\* A check that was accepted went out with an attestation of its TEE.
AcceptedCheck == pc = "save" /\ step = "a" => IsInstruction(run.attest, "attest", run.tee)

InProduction ==
  pc \in {"cleanup", "done"} /\ "p" \in run.cmd =>
    /\ run.instr \in DOMAIN sent /\ status[ProofTee] = "PRODUCTION"
    /\ "a" \in run.cmd => ProofTee = run.tee \/ run.foreign

Kept ==
  /\ AllRegistered /\ Places /\ CommandTaken
  /\ FileTruthful /\ MemoryTruthful /\ OwnIds
  /\ OwnReceipt /\ AcceptedCheck /\ InProduction

RInv == TypeOK /\ Kept

-----------------------------------------------------------------------------
(* What the chain does in a step.                                           *)

Requests == [kind : {"attest", "check"}, tee : Tees]
Txs == [op : TxOps, tee : Tees, ref : Nat]
Receipts == [state : {"pending", "reverted", "mined"}, id : Nat]

ChainTypes ==
  /\ status \in [Tees -> Statuses]
  /\ sent \in Seq(Requests)
  /\ live \cup proofs \cup lost \subseteq DOMAIN sent
  /\ inSync \in BOOLEAN
  /\ mempool \in Seq(Txs)
  /\ receipt \in Receipts

\* Nothing on chain is undone.
Grows ==
  /\ \A i \in DOMAIN sent : i \in DOMAIN sent' /\ sent'[i] = sent[i]
  /\ \A t \in Tees : /\ status[t] # "NONE" => status'[t] # "NONE"
                     /\ status[t] = "PRODUCTION" => status'[t] = "PRODUCTION"

\* What a transaction that was accepted has brought about, with id i.
Effected(tx, i) ==
  /\ tx.op \in {"register", "attest"} => IsInstruction(i, "attest", tx.tee)
  /\ tx.op = "check" => /\ IsInstruction(i, "check", tx.tee)
                        /\ IsInstruction(tx.ref, "attest", tx.tee)
  /\ tx.op = "production" => status[tx.tee] = "PRODUCTION"

LEMMA TypesOfTheChain == TypeOK => ChainTypes
BY DEF TypeOK, ChainTypes, Requests, Txs, Receipts

\* Appending to a sequence, in the terms the proofs below use.
LEMMA Appended ==
  ASSUME NEW S, NEW s \in Seq(S), NEW e \in S
  PROVE  /\ Append(s, e) \in Seq(S)
         /\ Len(s) \in Nat /\ Len(Append(s, e)) = Len(s) + 1
         /\ Append(s, e)[Len(s) + 1] = e
         /\ \A i \in DOMAIN s : i \in DOMAIN Append(s, e) /\ Append(s, e)[i] = s[i]
         /\ DOMAIN s = 1 .. Len(s)
         /\ DOMAIN Append(s, e) = 1 .. (Len(s) + 1)
<1>1. /\ Append(s, e) \in Seq(S) /\ Len(Append(s, e)) = Len(s) + 1
      /\ Append(s, e)[Len(s) + 1] = e
      /\ \A i \in 1 .. Len(s) : Append(s, e)[i] = s[i]
  BY AppendProperties
<1>2. Len(s) \in Nat /\ DOMAIN s = 1 .. Len(s) /\ DOMAIN Append(s, e) = 1 .. (Len(s) + 1)
  BY <1>1, LenProperties
<1> QED BY <1>1, <1>2

LEMMA RequestsNameTees == ChainTypes => \A i \in DOMAIN sent : sent[i].tee \in Tees
<1> SUFFICES ASSUME ChainTypes, NEW i \in DOMAIN sent
             PROVE  sent[i].tee \in Tees
  OBVIOUS
<1>1. sent \in Seq(Requests) /\ i \in 1 .. Len(sent)
  BY LenProperties DEF ChainTypes
<1>2. sent[i] \in Requests
  BY <1>1, ElementOfSeq
<1> QED BY <1>2 DEF Requests

\* A transaction that is accepted takes effect, and undoes nothing.
LEMMA ExecuteEffect ==
  ASSUME ChainTypes, NEW tx \in Txs, Accepts(tx), Execute(tx)
  PROVE  /\ status' \in [Tees -> Statuses]
         /\ sent' \in Seq(Requests)
         /\ live' \cup proofs \cup lost' \subseteq DOMAIN sent'
         /\ Len(sent') \in Nat
         /\ Grows
         /\ Effected(tx, Len(sent))'
         /\ AllRegistered => AllRegistered'
<1> DEFINE new == [kind |-> IF tx.op = "check" THEN "check" ELSE "attest", tee |-> tx.tee]
<1>1. new \in Requests /\ tx.tee \in Tees /\ tx.op \in TxOps
  BY DEF Requests, Txs
<1>2. /\ Append(sent, new) \in Seq(Requests)
      /\ Len(sent) \in Nat /\ Len(Append(sent, new)) = Len(sent) + 1
      /\ Append(sent, new)[Len(sent) + 1] = new
      /\ \A i \in DOMAIN sent : i \in DOMAIN Append(sent, new) /\ Append(sent, new)[i] = sent[i]
      /\ DOMAIN Append(sent, new) = 1 .. (Len(sent) + 1)
  BY <1>1, Appended DEF ChainTypes
<1>3. /\ status' \in [Tees -> Statuses]
      /\ \A t \in Tees : /\ status[t] # "NONE" => status'[t] # "NONE"
                         /\ status[t] = "PRODUCTION" => status'[t] = "PRODUCTION"
      /\ tx.op \in {"register", "attest"} => status'[tx.tee] # "NONE"
      /\ tx.op = "production" => status'[tx.tee] = "PRODUCTION"
  BY <1>1 DEF ChainTypes, Execute, Accepts, TxOps, Statuses
<1>4. CASE tx.op = "production"
  <2>1. sent' = sent /\ live' = live /\ lost' = lost
    BY <1>4 DEF Execute
  <2>2. AllRegistered => AllRegistered'
    <3>1. \A i \in DOMAIN sent : sent[i].tee \in Tees
      BY RequestsNameTees
    <3> QED BY <1>3, <2>1, <3>1 DEF AllRegistered
  <2> QED BY <1>2, <1>3, <1>4, <2>1, <2>2 DEF ChainTypes, Grows, Effected
<1>5. CASE tx.op # "production"
  <2>1. sent' = Append(sent, new)
    BY <1>1, <1>5 DEF Execute, TxOps
  <2>2. live' \subseteq live \cup {Len(sent) + 1} /\ lost' \subseteq lost \cup {Len(sent) + 1}
    BY <1>1, <1>5 DEF Execute, TxOps
  <2>3. Len(sent') \in DOMAIN sent' /\ sent'[Len(sent')] = new
    BY <1>2, <2>1
  <2>4. Effected(tx, Len(sent))'
    <3>1. CASE tx.op = "check"
      <4>1. IsInstruction(tx.ref, "attest", tx.tee)
        BY <3>1 DEF Accepts
      <4>2. IsInstruction(tx.ref, "attest", tx.tee)'
        BY <1>2, <2>1, <4>1 DEF IsInstruction
      <4> QED BY <2>3, <3>1, <4>2 DEF Effected, IsInstruction
    <3>2. CASE tx.op \in {"register", "attest"}
      BY <1>3, <2>3, <3>2 DEF Effected, IsInstruction
    <3> QED BY <1>1, <1>5, <3>1, <3>2 DEF TxOps
  <2>5. live' \cup proofs \cup lost' \subseteq DOMAIN sent'
    BY <1>2, <2>1, <2>2 DEF ChainTypes
  <2>6. AllRegistered => AllRegistered'
    <3> SUFFICES ASSUME AllRegistered, NEW i \in DOMAIN sent'
                 PROVE  status'[sent'[i].tee] # "NONE"
      BY DEF AllRegistered
    <3>1. CASE i \in DOMAIN sent
      <4>1. sent'[i] = sent[i] /\ sent[i].tee \in Tees
        BY <1>2, <2>1, <3>1, RequestsNameTees
      <4> QED BY <1>3, <3>1, <4>1 DEF AllRegistered
    <3>2. CASE i = Len(sent) + 1
      <4>1. sent'[i].tee = tx.tee
        BY <1>2, <2>1, <3>2
      <4>2. CASE tx.op = "check"
        <5>1. tx.ref \in DOMAIN sent /\ sent[tx.ref].tee = tx.tee
          BY <4>2 DEF Accepts, IsInstruction
        <5> QED BY <1>1, <1>3, <4>1, <5>1 DEF AllRegistered
      <4>3. CASE tx.op \in {"register", "attest"}
        BY <1>3, <4>1, <4>3
      <4> QED BY <1>1, <1>5, <4>2, <4>3 DEF TxOps
    <3>3. i \in DOMAIN sent \/ i = Len(sent) + 1
      BY <1>2, <2>1, LenProperties DEF ChainTypes
    <3> QED BY <3>1, <3>2, <3>3
  <2> QED BY <1>2, <1>3, <2>1, <2>4, <2>5, <2>6 DEF Grows
<1> QED BY <1>4, <1>5

\* Sending a transaction: it is the mempool's last, and its receipt is awaited.
LEMMA SendEffect ==
  ASSUME ChainTypes, NEW op \in TxOps, NEW t \in Tees, NEW ref \in Nat, SendTx(op, t, ref)
  PROVE  /\ ChainTypes' /\ Grows
         /\ receipt'.state = "pending" /\ mempool' # <<>>
         /\ mempool'[Len(mempool')] = [op |-> op, tee |-> t, ref |-> ref]
         /\ \A i \in DOMAIN mempool' :
              \/ i \in DOMAIN mempool /\ mempool'[i] = mempool[i]
              \/ mempool'[i] = [op |-> op, tee |-> t, ref |-> ref]
<1> DEFINE tx == [op |-> op, tee |-> t, ref |-> ref]
<1>1. tx \in Txs
  BY DEF Txs
<1> HIDE DEF tx
<1>2. /\ Append(mempool, tx) \in Seq(Txs)
      /\ Len(mempool) \in Nat /\ Len(Append(mempool, tx)) = Len(mempool) + 1
      /\ Append(mempool, tx)[Len(mempool) + 1] = tx
      /\ \A i \in DOMAIN mempool : Append(mempool, tx)[i] = mempool[i]
      /\ DOMAIN mempool = 1 .. Len(mempool)
      /\ DOMAIN Append(mempool, tx) = 1 .. (Len(mempool) + 1)
  BY <1>1, Appended DEF ChainTypes
<1>3. mempool' = Append(mempool, tx)
  BY DEF SendTx, tx
<1>4. ChainTypes' /\ Grows /\ receipt'.state = "pending"
  BY <1>2, <1>3 DEF SendTx, ChainTypes, Grows, Pending, Receipts
<1>5. mempool' # <<>> /\ mempool'[Len(mempool')] = tx
  BY <1>1, <1>2, <1>3, AppendProperties DEF ChainTypes
<1>6. \A i \in DOMAIN mempool' :
        (i \in DOMAIN mempool /\ mempool'[i] = mempool[i]) \/ mempool'[i] = tx
  BY <1>2, <1>3
<1> QED BY <1>4, <1>5, <1>6 DEF tx

\* Mining the oldest transaction: when it was the only one, the receipt tells
\* what became of it.
LEMMA MineEffect ==
  ASSUME ChainTypes, Mine
  PROVE  /\ ChainTypes' /\ Grows /\ (AllRegistered => AllRegistered')
         /\ \A i \in DOMAIN mempool' : i + 1 \in DOMAIN mempool /\ mempool'[i] = mempool[i + 1]
         /\ \/ /\ receipt' = receipt /\ mempool' # <<>>
               /\ mempool'[Len(mempool')] = mempool[Len(mempool)]
            \/ receipt'.state = "reverted" /\ mempool' = <<>>
            \/ /\ receipt'.state = "mined" /\ mempool' = <<>>
               /\ \E tx \in Txs : tx = mempool[Len(mempool)] /\ Effected(tx, receipt.id)'
<1>1. /\ mempool # <<>> /\ Len(mempool) \in Nat /\ DOMAIN mempool = 1 .. Len(mempool)
      /\ Len(mempool) # 0
      /\ Tail(mempool) \in Seq(Txs) /\ Len(Tail(mempool)) = Len(mempool) - 1
      /\ DOMAIN Tail(mempool) = 1 .. (Len(mempool) - 1)
      /\ \A i \in 1 .. (Len(mempool) - 1) : Tail(mempool)[i] = mempool[i + 1]
  BY HeadTailProperties, LenProperties, EmptySeq DEF Mine, ChainTypes
<1>2. PICK tx \in Txs : tx = Head(mempool) /\ tx = mempool[1]
  BY <1>1, HeadTailProperties DEF ChainTypes
<1>3. mempool' = Tail(mempool) /\ UNCHANGED <<proofs, inSync>>
  BY DEF Mine
<1>4. \A i \in DOMAIN mempool' : i + 1 \in DOMAIN mempool /\ mempool'[i] = mempool[i + 1]
  BY <1>1, <1>3
<1>5. ASSUME Len(mempool) > 1
      PROVE  mempool'[Len(mempool')] = mempool[Len(mempool)] /\ mempool' # <<>>
  <2>1. Len(mempool') = Len(mempool) - 1 /\ Len(mempool') \in 1 .. (Len(mempool) - 1)
    BY <1>1, <1>3, <1>5
  <2>2. mempool'[Len(mempool')] = mempool[Len(mempool') + 1]
    BY <1>1, <1>3, <2>1
  <2>3. Len(mempool') # 0
    BY <2>1
  <2> QED BY <1>1, <2>1, <2>2, <2>3
<1>6. ASSUME ~(Len(mempool) > 1)
      PROVE  mempool' = <<>>
  <2>1. Len(Tail(mempool)) = 0
    BY <1>1, <1>6
  <2> QED BY <1>1, <1>3, <2>1, EmptySeq
<1>7. CASE Accepts(tx)
  <2>1. Execute(tx)
    BY <1>2, <1>7 DEF Mine
  <2>2. /\ status' \in [Tees -> Statuses]
        /\ sent' \in Seq(Requests)
        /\ live' \cup proofs \cup lost' \subseteq DOMAIN sent'
        /\ Len(sent') \in Nat
        /\ Grows
        /\ Effected(tx, Len(sent))'
        /\ AllRegistered => AllRegistered'
    BY <1>7, <2>1, ExecuteEffect
  <2>3. receipt' = IF Len(mempool) > 1 THEN receipt ELSE Mined(Len(sent'))
    BY <1>2, <1>7 DEF Mine
  <2>4. ChainTypes'
    BY <1>1, <1>3, <2>2, <2>3 DEF ChainTypes, Mined, Receipts
  <2>5. CASE Len(mempool) > 1
    <3>1. mempool'[Len(mempool')] = mempool[Len(mempool)] /\ mempool' # <<>>
      BY <1>5, <2>5
    <3> QED BY <1>4, <2>2, <2>3, <2>4, <2>5, <3>1
  <2>6. CASE ~(Len(mempool) > 1)
    <3>1. receipt' = [state |-> "mined", id |-> Len(sent')] /\ tx = mempool[Len(mempool)]
      BY <1>1, <1>2, <2>3, <2>6 DEF Mined
    <3>2. receipt'.id = Len(sent') /\ receipt'.state = "mined"
      BY <3>1
    <3>3. Effected(tx, receipt.id)'
      BY <2>2, <3>2
    <3> QED BY <1>4, <1>6, <2>2, <2>4, <2>6, <3>1, <3>2, <3>3
  <2> QED BY <2>5, <2>6
<1>8. CASE ~Accepts(tx)
  <2>1. UNCHANGED <<status, sent, live, lost>>
    BY <1>2, <1>8 DEF Mine
  <2>2. receipt' = IF Len(mempool) > 1 THEN receipt ELSE Reverted
    BY <1>2, <1>8 DEF Mine
  <2>3. ChainTypes' /\ Grows
    BY <1>1, <1>3, <2>1, <2>2 DEF ChainTypes, Grows, Reverted, Receipts
  <2>6. AllRegistered => AllRegistered'
    BY <2>1 DEF AllRegistered
  <2>4. CASE Len(mempool) > 1
    <3>1. mempool'[Len(mempool')] = mempool[Len(mempool)] /\ mempool' # <<>>
      BY <1>5, <2>4
    <3> QED BY <1>4, <2>2, <2>3, <2>4, <2>6, <3>1
  <2>5. CASE ~(Len(mempool) > 1)
    BY <1>4, <1>6, <2>2, <2>3, <2>5, <2>6 DEF Reverted
  <2> QED BY <2>4, <2>5
<1> QED BY <1>7, <1>8

\* The FTDC service leaves registry, transactions and receipt alone.
LEMMA ServiceEffect ==
  ASSUME ChainTypes,
         \/ \E t \in Tees : Prove(t)
         \/ LoseProof \/ ExpireChallenge \/ LoseSync \/ CatchUp
  PROVE  ChainTypes' /\ Grows /\ UNCHANGED <<status, sent, mempool, receipt>>
BY DEF ChainTypes, Grows, Prove, LoseProof, ExpireChallenge, LoseSync, CatchUp

-----------------------------------------------------------------------------
(* The tool's steps.                                                        *)

ToolTypes ==
  /\ tee \in Tees /\ pc \in PCs /\ step \in Steps
  /\ run \in [cmd : SUBSET Steps, resume : BOOLEAN, foreign : BOOLEAN, tee : Tees,
                 attest : Nat, instr : Nat]
  /\ state \in States
  /\ file \in [kind : {"missing", "corrupt", "valid"}, state : States]
  /\ faults \in 0 .. MaxFaults /\ reruns \in 0 .. MaxReruns

LEMMA TypesSplit == TypeOK <=> ChainTypes /\ ToolTypes
BY DEF TypeOK, ChainTypes, ToolTypes, Requests, Txs, Receipts

LEMMA ProofTeeIsTee ==
  ASSUME ChainTypes, run.instr \in DOMAIN sent
  PROVE  ProofTee \in Tees
<1>1. sent[run.instr] \in Requests
  BY LenProperties, ElementOfSeq DEF ChainTypes
<1> QED BY <1>1 DEF ProofTee, Requests

\* The steps that send nothing, while the chain stands still.
Quiet ==
  \/ Start \/ Load \/ LoadFails \/ Skip \/ SkipCompleted
  \/ LookUpMachine \/ LookUpFails \/ PolicyOutOfSync
  \/ Confirmed \/ RevertSeen \/ SaveState \/ SaveFails
  \/ ProofObtained \/ GiveUp \/ AlreadyInProduction \/ Promoted \/ Finish
  \/ Abort \/ ReplaceTee

LEMMA QuietTypes ==
  ASSUME ChainTypes, ToolTypes, Quiet
  PROVE  ToolTypes'
<1> USE RegistrationAssumption DEF ToolTypes, PCs, Steps, States, Running, Fresh, Due
<1>1. CASE Start
  BY <1>1, LenProperties DEF Start, Missing, ChainTypes
<1>2. CASE Load
  BY <1>2 DEF Load
<1>3. CASE LoadFails
  BY <1>3 DEF LoadFails
<1>4. CASE Skip
  BY <1>4 DEF Skip, Advance, StepAfter
<1>5. CASE SkipCompleted
  <2>1. run' = Restored(IF step = "a" THEN state.instr ELSE state.attest)
    BY <1>5 DEF SkipCompleted
  <2>2. run' \in [cmd : SUBSET Steps, resume : BOOLEAN, foreign : BOOLEAN, tee : Tees,
                 attest : Nat, instr : Nat]
    BY <2>1 DEF Restored
  <2>3. pc' \in PCs /\ step' \in Steps
    BY <1>5 DEF SkipCompleted, Advance, StepAfter
  <2> QED BY <1>5, <2>2, <2>3 DEF SkipCompleted
<1>6. CASE LookUpMachine
  BY <1>6 DEF LookUpMachine
<1>7. CASE LookUpFails
  BY <1>7 DEF LookUpFails
<1>8. CASE PolicyOutOfSync
  BY <1>8 DEF PolicyOutOfSync
<1>9. CASE Confirmed
  <2>1. receipt.id \in Nat
    BY DEF ChainTypes, Receipts
  <2>2. run' \in [cmd : SUBSET Steps, resume : BOOLEAN, foreign : BOOLEAN, tee : Tees,
                 attest : Nat, instr : Nat]
    BY <1>9, <2>1 DEF Confirmed, Restored
  <2>3. state' \in States
    BY <1>9, <2>1 DEF Confirmed
  <2> QED BY <1>9, <2>2, <2>3 DEF Confirmed
<1>10. CASE RevertSeen
  BY <1>10 DEF RevertSeen
<1>11. CASE SaveState
  BY <1>11 DEF SaveState, Valid, Advance, StepAfter
<1>12. CASE SaveFails
  BY <1>12 DEF SaveFails, Corrupt, Advance, StepAfter
<1>13. CASE ProofObtained
  BY <1>13 DEF ProofObtained
<1>14. CASE GiveUp
  BY <1>14 DEF GiveUp
<1>15. CASE AlreadyInProduction
  BY <1>15 DEF AlreadyInProduction, Advance, StepAfter
<1>16. CASE Promoted
  BY <1>16 DEF Promoted
<1>17. CASE Finish
  BY <1>17 DEF Finish, Missing
<1>18. CASE Abort
  BY <1>18 DEF Abort, Valid, Corrupt
<1>19. CASE ReplaceTee
  BY <1>19 DEF ReplaceTee
<1> QED BY <1>1, <1>2, <1>3, <1>4, <1>5, <1>6, <1>7, <1>8, <1>9, <1>10,
         <1>11, <1>12, <1>13, <1>14, <1>15, <1>16, <1>17, <1>18, <1>19 DEF Quiet

LEMMA QuietKeeps ==
  ASSUME ChainTypes, ToolTypes, Kept, Quiet
  PROVE  Kept'
<1>0. UNCHANGED <<status, sent>> /\ AllRegistered /\ AllRegistered'
  <2>1. UNCHANGED <<status, sent>>
    BY DEF Quiet, Start, Load, LoadFails, Skip, SkipCompleted, LookUpMachine, LookUpFails,
          PolicyOutOfSync, Confirmed, RevertSeen, SaveState, SaveFails, ProofObtained, GiveUp,
          AlreadyInProduction, Promoted, Finish, Abort, ReplaceTee, chainVars
  <2> QED BY <2>1 DEF Kept, AllRegistered
<1> USE <1>0 DEF Kept, Places, CommandTaken, FileTruthful, MemoryTruthful, OwnIds, OwnReceipt,
            AcceptedCheck, InProduction,
            Loaded, Running, Behind, Truthful, Seen, Own, IsInstruction, Subject, ProofTee,
            ToolTypes, PCs, Steps, States, Statuses, chainVars
<1>1. CASE Start
  BY <1>1 DEF Start, Missing, Fresh
<1>2. CASE Load
  BY <1>2 DEF Load
<1>3. CASE LoadFails
  BY <1>3 DEF LoadFails
<1>4. CASE Skip
  BY <1>4 DEF Skip, Advance, StepAfter
<1>5. CASE SkipCompleted
  BY <1>5 DEF SkipCompleted, Advance, StepAfter, Restored
<1>6. CASE LookUpMachine
  BY <1>6 DEF LookUpMachine, Due
<1>7. CASE LookUpFails
  BY <1>7 DEF LookUpFails, Due
<1>8. CASE PolicyOutOfSync
  BY <1>8 DEF PolicyOutOfSync
<1>9. CASE Confirmed
  BY <1>9 DEF Confirmed, Restored
<1>10. CASE RevertSeen
  BY <1>10 DEF RevertSeen
<1>11. CASE SaveState
  BY <1>11 DEF SaveState, Valid, Advance, StepAfter
<1>12. CASE SaveFails
  BY <1>12 DEF SaveFails, Corrupt, Advance, StepAfter, Fresh
<1>13. CASE ProofObtained
  BY <1>13 DEF ProofObtained, ChainTypes
<1>14. CASE GiveUp
  BY <1>14 DEF GiveUp
<1>15. CASE AlreadyInProduction
  BY <1>15 DEF AlreadyInProduction, Advance
<1>16. CASE Promoted
  BY <1>16 DEF Promoted
<1>17. CASE Finish
  BY <1>17 DEF Finish, Missing, Fresh
<1>18. CASE Abort
  BY <1>18 DEF Abort, Valid, Corrupt, Fresh
<1>19. CASE ReplaceTee
  BY <1>19 DEF ReplaceTee
<1> QED BY <1>1, <1>2, <1>3, <1>4, <1>5, <1>6, <1>7, <1>8, <1>9, <1>10,
         <1>11, <1>12, <1>13, <1>14, <1>15, <1>16, <1>17, <1>18, <1>19 DEF Quiet

\* What the run and the state file know stays true when the chain grows.
LEMMA GrowthKeepsKnowledge ==
  ASSUME ToolTypes, Grows, FileTruthful, MemoryTruthful, OwnIds,
         UNCHANGED <<step, run, state, file>>,
         pc' = pc \/ (Loaded /\ pc # "save" /\ pc' = "wait")
  PROVE  FileTruthful' /\ MemoryTruthful' /\ OwnIds'
<1> USE DEF Grows, ToolTypes, Steps, IsInstruction, Truthful, Seen, Own
<1>1. FileTruthful'
  BY DEF FileTruthful
<1>2. MemoryTruthful'
  BY DEF MemoryTruthful, Loaded, Running
<1>3. OwnIds'
  BY DEF OwnIds, Loaded, Running, Behind
<1> QED BY <1>1, <1>2, <1>3

\* The run sends the transaction its step calls for.
LEMMA SendKeeps ==
  ASSUME ChainTypes, ToolTypes, Kept, pc \notin {"load", "save"}, Running,
         NEW op \in OpsOf(step), NEW ref \in Nat, SendTx(op, Subject, ref), Subject \in Tees,
         step = "p" => run.instr \in DOMAIN sent,
         op = "check" => ref = run.attest, step \in run.cmd,
         pc' = "wait", UNCHANGED <<tee, step, run, state, file, reruns>>, faults' \in 0 .. MaxFaults
  PROVE  ChainTypes' /\ ToolTypes' /\ Kept'
<1>1. op \in TxOps
  BY DEF OpsOf, TxOps, ToolTypes, Steps
<1>2. PICK t \in Tees : t = Subject
  OBVIOUS
<1>3. SendTx(op, t, ref)
  BY <1>2
<1>4. /\ ChainTypes' /\ Grows
      /\ receipt'.state = "pending" /\ mempool' # <<>>
      /\ mempool'[Len(mempool')] = [op |-> op, tee |-> t, ref |-> ref]
      /\ \A i \in DOMAIN mempool' :
           \/ i \in DOMAIN mempool /\ mempool'[i] = mempool[i]
           \/ mempool'[i] = [op |-> op, tee |-> t, ref |-> ref]
  BY <1>1, <1>3, SendEffect
<1>5. UNCHANGED <<status, sent>>
  BY DEF SendTx
<1>6. ToolTypes'
  BY DEF ToolTypes, PCs
<1>7. FileTruthful' /\ MemoryTruthful' /\ OwnIds'
  BY <1>4, GrowthKeepsKnowledge DEF Kept, Loaded
<1>8. AllRegistered' /\ Places' /\ CommandTaken' /\ AcceptedCheck' /\ InProduction'
  BY <1>5 DEF Kept, AllRegistered, Places, CommandTaken, AcceptedCheck, InProduction
<1>9. OwnReceipt'
  <2>1. Subject' = Subject /\ OpsOf(step)' = OpsOf(step)
    BY <1>5 DEF Subject, ProofTee, OpsOf
  <2>2. step = "a" => op = "check"
    BY DEF OpsOf
  <2> QED BY <1>2, <1>4, <2>1, <2>2 DEF OwnReceipt
<1> QED BY <1>4, <1>6, <1>7, <1>8, <1>9 DEF Kept

\* Every step that sends a transaction.
Sends ==
  \/ PreRegistration \/ RequestTeeAttestation
  \/ RequestFTDCAvailabilityCheck \/ PolicyUnknown
  \/ ToProduction \/ ToProductionUnchecked

LEMMA SendsKeep ==
  ASSUME ChainTypes, ToolTypes, Kept, Sends
  PROVE  ChainTypes' /\ ToolTypes' /\ Kept'
<1>1. /\ faults \in 0 .. MaxFaults /\ MaxFaults \in Nat /\ step \in Steps
      /\ run.tee \in Tees /\ run.attest \in Nat /\ run.instr \in Nat
  BY RegistrationAssumption DEF ToolTypes
<1>2. step # "p" => Subject = run.tee
  BY DEF Subject
<1>3. ASSUME pc = "promote"
      PROVE  step = "p" /\ "p" \in run.cmd /\ run.instr \in DOMAIN sent /\ Subject = ProofTee /\ Subject \in Tees
  BY <1>3, ProofTeeIsTee DEF Kept, Places, Subject
<1>4. CASE PreRegistration
  <2>1. step = "r" /\ SendTx("register", Subject, 0)
    BY <1>2, <1>4 DEF PreRegistration, Send, Kept, Places
  <2> QED BY <1>1, <1>2, <1>4, <2>1, SendKeeps DEF PreRegistration, Send, OpsOf, Running, Kept, Places
<1>5. CASE RequestTeeAttestation
  <2>1. step \in {"r", "R"} /\ SendTx("attest", Subject, 0)
    BY <1>2, <1>5 DEF RequestTeeAttestation, Send, Due, Kept, Places
  <2>2. step \in run.cmd
    BY <1>5 DEF RequestTeeAttestation, Due, Kept, Places
  <2> QED BY <1>1, <1>2, <1>5, <2>1, <2>2, SendKeeps DEF RequestTeeAttestation, Send, Due, OpsOf, Running
<1>7. ASSUME Due("a"), SendTx("check", run.tee, run.attest), pc' = "wait",
             UNCHANGED <<tee, step, run, state, file, reruns>>, faults' \in 0 .. MaxFaults
      PROVE  ChainTypes' /\ ToolTypes' /\ Kept'
  <2>1. step = "a" /\ SendTx("check", Subject, run.attest)
    BY <1>2, <1>7 DEF Due
  <2> QED BY <1>1, <1>2, <1>7, <2>1, SendKeeps DEF Due, OpsOf, Running
<1>8. CASE RequestFTDCAvailabilityCheck
  BY <1>1, <1>7, <1>8 DEF RequestFTDCAvailabilityCheck, Send
<1>9. CASE PolicyUnknown
  BY <1>1, <1>7, <1>9 DEF PolicyUnknown
<1>10. ASSUME pc = "promote", SendTx("production", ProofTee, run.instr), pc' = "wait",
              UNCHANGED <<tee, step, run, state, file, reruns>>, faults' \in 0 .. MaxFaults
       PROVE  ChainTypes' /\ ToolTypes' /\ Kept'
  BY <1>1, <1>3, <1>10, SendKeeps DEF OpsOf, Running
<1>11. CASE ToProduction
  BY <1>1, <1>10, <1>11 DEF ToProduction, Send
<1>12. CASE ToProductionUnchecked
  BY <1>1, <1>10, <1>12 DEF ToProductionUnchecked
<1> QED BY <1>4, <1>5, <1>8, <1>9, <1>11, <1>12 DEF Sends

-----------------------------------------------------------------------------
(* The chain's and the services' steps.                                     *)

\* A transaction is mined, whoever sent it and whether anyone waits for it.
LEMMA MineKeeps ==
  ASSUME ChainTypes, ToolTypes, Kept, Mine, UNCHANGED toolVars
  PROVE  ChainTypes' /\ Kept'
<1>1. /\ ChainTypes' /\ Grows /\ (AllRegistered => AllRegistered')
      /\ \A i \in DOMAIN mempool' : i + 1 \in DOMAIN mempool /\ mempool'[i] = mempool[i + 1]
      /\ \/ /\ receipt' = receipt /\ mempool' # <<>>
            /\ mempool'[Len(mempool')] = mempool[Len(mempool)]
         \/ receipt'.state = "reverted" /\ mempool' = <<>>
         \/ /\ receipt'.state = "mined" /\ mempool' = <<>>
            /\ \E tx \in Txs : tx = mempool[Len(mempool)] /\ Effected(tx, receipt.id)'
  BY MineEffect
<1>2. pc' = pc /\ UNCHANGED <<step, run, state, file>>
  BY DEF toolVars
<1>3. FileTruthful' /\ MemoryTruthful' /\ OwnIds'
  <2>1. FileTruthful /\ MemoryTruthful /\ OwnIds
    BY DEF Kept
  <2> QED BY <1>1, <1>2, <2>1, GrowthKeepsKnowledge
<1>4. AllRegistered' /\ Places' /\ CommandTaken' /\ AcceptedCheck' /\ InProduction'
  <2>1. AllRegistered' /\ Places' /\ CommandTaken'
    BY <1>1, <1>2 DEF Kept, Places, CommandTaken, Grows
  <2>2. AcceptedCheck'
    BY <1>1, <1>2 DEF Kept, AcceptedCheck, IsInstruction, Grows
  <2>3. ASSUME run.instr \in DOMAIN sent, status[ProofTee] = "PRODUCTION"
        PROVE  ProofTee' = ProofTee /\ status'[ProofTee] = "PRODUCTION"
    BY <1>1, <1>2, <2>3, ProofTeeIsTee DEF Grows, ProofTee
  <2>4. InProduction'
    BY <1>1, <1>2, <2>3 DEF Kept, InProduction, Grows
  <2> QED BY <2>1, <2>2, <2>4
<1>5. OwnReceipt'
  <2> SUFFICES ASSUME pc' = "wait"
               PROVE  OwnReceipt'
    BY DEF OwnReceipt
  <2>1. receipt.state = "pending" /\ mempool[Len(mempool)].op \in OpsOf(step)
        /\ mempool[Len(mempool)].tee = Subject
    BY <1>2 DEF Mine, Kept, OwnReceipt, ChainTypes, Receipts
  <2>7. step = "a" => mempool[Len(mempool)].ref = run.attest
    BY <1>2, <2>1 DEF Kept, OwnReceipt
  <2>2. step = "p" => ProofTee' = ProofTee
    BY <1>1, <1>2 DEF Kept, Places, Grows, ProofTee
  <2>3. Subject' = Subject /\ OpsOf(step)' = OpsOf(step)
    BY <1>2, <2>2 DEF Subject, OpsOf
  <2>4. CASE receipt' = receipt /\ mempool' # <<>>
             /\ mempool'[Len(mempool')] = mempool[Len(mempool)]
    BY <1>2, <2>1, <2>3, <2>4, <2>7 DEF OwnReceipt
  <2>5. CASE receipt'.state = "reverted" /\ mempool' = <<>>
    BY <2>5 DEF OwnReceipt
  <2>6. CASE /\ receipt'.state = "mined" /\ mempool' = <<>>
             /\ \E tx \in Txs : tx = mempool[Len(mempool)] /\ Effected(tx, receipt.id)'
    <3>1. PICK tx \in Txs : tx = mempool[Len(mempool)] /\ Effected(tx, receipt.id)'
      BY <2>6
    <3>2. tx.op \in OpsOf(step) /\ tx.tee = Subject /\ (step = "a" => tx.ref = run.attest)
      BY <2>1, <2>7, <3>1
    <3>3. /\ step \in {"r", "R"} => IsInstruction(receipt.id, "attest", run.tee)'
          /\ step = "a" => /\ IsInstruction(receipt.id, "check", run.tee)'
                           /\ IsInstruction(run.attest, "attest", run.tee)'
          /\ step = "p" => status'[ProofTee] = "PRODUCTION"
      <4>1. tx.op = "production" => status'[tx.tee] = "PRODUCTION"
        BY <3>1 DEF Effected
      <4>2. CASE step \in {"r", "R"}
        BY <1>2, <3>1, <3>2, <4>2 DEF Effected, OpsOf, Subject, IsInstruction
      <4>3. CASE step = "a"
        BY <1>2, <3>1, <3>2, <4>3 DEF Effected, OpsOf, Subject, IsInstruction
      <4>4. CASE step = "p"
        BY <3>2, <4>1, <4>4 DEF OpsOf, Subject
      <4> QED BY <4>2, <4>3, <4>4 DEF ToolTypes, Steps
    <3> QED BY <1>2, <2>2, <2>6, <3>3 DEF OwnReceipt
  <2> QED BY <1>1, <2>4, <2>5, <2>6
<1> QED BY <1>1, <1>3, <1>4, <1>5 DEF Kept

\* The registry, the transactions and the run stand still.
LEMMA StillKeeps ==
  ASSUME ToolTypes, Kept, UNCHANGED <<status, sent, mempool, receipt>>,
         pc' = pc, UNCHANGED <<step, run, state, file>>
  PROVE  Kept'
<1>1. Grows
  BY DEF Grows
<1>2. FileTruthful' /\ MemoryTruthful' /\ OwnIds'
  <2>1. FileTruthful /\ MemoryTruthful /\ OwnIds
    BY DEF Kept
  <2> QED BY <1>1, <2>1, GrowthKeepsKnowledge
<1>3. AllRegistered' /\ Places' /\ CommandTaken' /\ AcceptedCheck' /\ InProduction'
  BY DEF Kept, AllRegistered, Places, CommandTaken, AcceptedCheck, InProduction, IsInstruction, ProofTee
<1>4. OwnReceipt'
  <2>1. Subject' = Subject /\ OpsOf(step)' = OpsOf(step) /\ ProofTee' = ProofTee
    BY DEF Subject, ProofTee, OpsOf
  <2> QED BY <2>1 DEF Kept, OwnReceipt, IsInstruction
<1> QED BY <1>2, <1>3, <1>4 DEF Kept

-----------------------------------------------------------------------------
LEMMA RInvInit == Init => RInv
<1> SUFFICES ASSUME Init
             PROVE  RInv
  OBVIOUS
<1> USE DEF Init, ChainInit
<1>1. ChainTypes
  BY EmptySeq DEF ChainTypes, Statuses, Pending, Receipts
<1>2. ToolTypes
  BY RegistrationAssumption DEF ToolTypes, PCs, Steps, States, Fresh, Missing
<1>3. Kept
  BY EmptySeq DEF Kept, Places, CommandTaken, FileTruthful, MemoryTruthful, OwnIds, OwnReceipt,
        AllRegistered, AcceptedCheck, InProduction, Loaded, Running, Truthful, Fresh, Missing
<1> QED BY <1>1, <1>2, <1>3, TypesSplit DEF RInv

LEMMA RInvStep == RInv /\ [Next]_vars => RInv'
<1> SUFFICES ASSUME RInv, [Next]_vars
             PROVE  RInv'
  OBVIOUS
<1>1. ChainTypes /\ ToolTypes /\ Kept
  BY TypesSplit DEF RInv
<1> SUFFICES ChainTypes' /\ ToolTypes' /\ Kept'
  BY DEF RInv, TypeOK, ChainTypes, ToolTypes, Requests, Txs, Receipts
<1>2. CASE Quiet
  <2>1. UNCHANGED chainVars
    BY <1>2 DEF Quiet, Start, Load, LoadFails, Skip, SkipCompleted, LookUpMachine, LookUpFails,
          PolicyOutOfSync, Confirmed, RevertSeen, SaveState, SaveFails, ProofObtained, GiveUp,
          AlreadyInProduction, Promoted, Finish, Abort, ReplaceTee
  <2>2. ChainTypes'
    BY <1>1, <2>1 DEF ChainTypes, chainVars
  <2> QED BY <1>1, <1>2, <2>2, QuietTypes, QuietKeeps
<1>3. CASE Sends
  BY <1>1, <1>3, SendsKeep
<1>4. CASE ChainStep
  <2>1. pc' = pc /\ UNCHANGED <<step, run, state, file>> /\ ToolTypes'
    BY <1>1, <1>4 DEF ChainStep, toolVars, ToolTypes
  <2>2. CASE Mine
    BY <1>1, <1>4, <2>1, <2>2, MineKeeps DEF ChainStep
  <2>3. CASE Prove(tee) \/ CatchUp
    BY <1>1, <2>1, <2>3, ServiceEffect, StillKeeps DEF ToolTypes
  <2> QED BY <1>4, <2>2, <2>3 DEF ChainStep
<1>5. CASE ServiceFault
  <2>1. pc' = pc /\ UNCHANGED <<step, run, state, file>> /\ ToolTypes'
    BY <1>1, <1>5, RegistrationAssumption DEF ServiceFault, ToolTypes
  <2>2. LoseProof \/ ExpireChallenge \/ LoseSync
    BY <1>5 DEF ServiceFault
  <2> QED BY <1>1, <2>1, <2>2, ServiceEffect, StillKeeps
<1>6. CASE UNCHANGED vars
  <2>1. ChainTypes' /\ ToolTypes'
    BY <1>1, <1>6 DEF vars, chainVars, toolVars, ChainTypes, ToolTypes
  <2>2. UNCHANGED <<status, sent, mempool, receipt>> /\ pc' = pc /\ UNCHANGED <<step, run, state, file>>
    BY <1>6 DEF vars, chainVars, toolVars
  <2> QED BY <1>1, <2>1, <2>2, StillKeeps
<1> QED
  BY <1>2, <1>3, <1>4, <1>5, <1>6 DEF Next, ToolStep, Fault, Quiet, Sends

\* What the three invariants below are parts or consequences of.
THEOREM RegistrationInvariant == Spec => []RInv
BY RInvInit, RInvStep, PTL DEF Spec

\* The tool's variables, the chain's and the ids between them keep their types:
\* every id the tool has at hand or on file is a number, and every proof and
\* every live challenge is one of an instruction on chain.
THEOREM RegistrationTypes == Spec => []TypeOK
<1>1. RInv => TypeOK
  BY DEF RInv
<1> QED BY <1>1, RegistrationInvariant, PTL

\* However often a run dies, and in whatever step, the state file the next one
\* resumes from never claims a step the chain has not seen (saveState).
THEOREM StateFileIsTruthful == Spec => []StateFileTruthful
<1>1. ASSUME RInv, NEW i, NEW kind, Seen(i, kind)
      PROVE  \E t \in Tees : IsInstruction(i, kind, t) /\ status[t] # "NONE"
  <2>1. i \in DOMAIN sent /\ sent[i].kind = kind /\ status[sent[i].tee] # "NONE"
    BY <1>1 DEF Seen, RInv, Kept, AllRegistered
  <2>2. sent[i] \in Requests
    BY <1>1, <2>1, TypesSplit, LenProperties, ElementOfSeq DEF RInv, ChainTypes
  <2>3. sent[i].tee \in Tees /\ sent[i] = [kind |-> kind, tee |-> sent[i].tee]
    BY <2>1, <2>2 DEF Requests
  <2> QED BY <2>1, <2>3 DEF IsInstruction
<1>2. RInv => StateFileTruthful
  BY <1>1 DEF RInv, Kept, FileTruthful, Truthful, StateFileTruthful
<1> QED BY <1>2, RegistrationInvariant, PTL

\* With a command that asks for an attestation before a check, a run that has
\* not resumed the state file of another TEE sends every check with an
\* attestation of its own; and no run, whatever it has resumed, notes a check as
\* done that carried another one.
THEOREM ChecksUseOwnAttestations ==
  ASSUME AttestsFirst
  PROVE  Spec => []CheckUsesOwnAttestation
<1>1. RInv => CheckUsesOwnAttestation
  <2> SUFFICES ASSUME RInv, pc = "wait", step = "a", receipt.state = "pending", ~run.foreign
               PROVE  /\ mempool[Len(mempool)].tee = run.tee
                      /\ IsInstruction(mempool[Len(mempool)].ref, "attest", run.tee)
    BY DEF RInv, Kept, AcceptedCheck, CheckUsesOwnAttestation
  <2>1. mempool[Len(mempool)].tee = run.tee /\ mempool[Len(mempool)].ref = run.attest
    BY DEF RInv, Kept, OwnReceipt, Subject
  <2>2. run.cmd \cap Behind \cap {"r", "R"} # {}
    <3>1. "a" \in run.cmd /\ run.cmd \in Commands
      BY DEF RInv, Kept, Places, CommandTaken
    <3>2. run.cmd \cap {"r", "R"} # {}
      BY <3>1 DEF AttestsFirst
    <3> QED BY <3>2 DEF Behind
  <2>3. IsInstruction(run.attest, "attest", run.tee)
    BY <2>2 DEF RInv, Kept, OwnIds, Loaded, Running
  <2> QED BY <2>1, <2>3
<1> QED BY <1>1, RegistrationInvariant, PTL

\* A run that says it is done has brought the TEE of its proof into production;
\* with the steps a and p that is the TEE it names, unless it has resumed the
\* state file of another.
THEOREM DoneMeansInProduction == Spec => []SuccessMeansProduction
<1>1. RInv => SuccessMeansProduction
  BY DEF RInv, Kept, InProduction, SuccessMeansProduction
<1> QED BY <1>1, RegistrationInvariant, PTL
=============================================================================
