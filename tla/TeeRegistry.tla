----------------------------- MODULE TeeRegistry -----------------------------
(***************************************************************************)
(* The on-chain TEE registry and the FTDC attestation service, modelled     *)
(* from how go/tools uses them.  One account sends the transactions, so     *)
(* they are mined in the order of their nonces.  A transaction whose sender *)
(* gave up waiting for it, or died, is mined all the same.                  *)
(*                                                                         *)
(* An instruction is known by its position in sent.  An attestation's       *)
(* challenge is one-shot and expires.                                       *)
(***************************************************************************)
EXTENDS Integers, Sequences, FiniteSets

CONSTANT Tees   \* the identities (key pairs) of TEE nodes

VARIABLES
  status,   \* the registry's status of each TEE
  sent,     \* the attestation requests and availability checks on chain
  live,     \* attestations whose challenge is neither used nor expired
  proofs,   \* availability checks whose proof the FTDC proxy has
  lost,     \* availability checks whose proof will never be there
  inSync,   \* the FTDC proxy has the signing policy of the reward epoch
  mempool,  \* transactions sent and not yet mined
  receipt   \* what became of the transaction sent last

chainVars == <<status, sent, live, proofs, lost, inSync, mempool, receipt>>

Statuses == {"NONE", "INITIALIZED", "PRODUCTION"}
TxOps == {"register", "attest", "check", "production"}
Pending == [state |-> "pending", id |-> 0]
Reverted == [state |-> "reverted", id |-> 0]
Mined(i) == [state |-> "mined", id |-> i]

ChainInit ==
  /\ status = [t \in Tees |-> "NONE"]
  /\ sent = <<>>
  /\ live = {}
  /\ proofs = {}
  /\ lost = {}
  /\ inSync = TRUE
  /\ mempool = <<>>
  /\ receipt = Pending

IsInstruction(i, kind, t) == i \in DOMAIN sent /\ sent[i] = [kind |-> kind, tee |-> t]

\* A client sends a transaction and starts to wait for its receipt.
SendTx(op, t, ref) ==
  /\ mempool' = Append(mempool, [op |-> op, tee |-> t, ref |-> ref])
  /\ receipt' = Pending
  /\ UNCHANGED <<status, sent, live, proofs, lost, inSync>>

Accepts(tx) ==
  CASE tx.op = "register" -> status[tx.tee] = "NONE"
    [] tx.op = "attest" -> status[tx.tee] # "NONE"
    [] tx.op = "check" -> tx.ref \in live /\ IsInstruction(tx.ref, "attest", tx.tee)
    [] tx.op = "production" -> status[tx.tee] = "INITIALIZED"

\* register() also asks for a first attestation.  The data providers reject a
\* check that comes with another signing policy than theirs.
Execute(tx) ==
  /\ status' = CASE tx.op = "register" -> [status EXCEPT ![tx.tee] = "INITIALIZED"]
                 [] tx.op = "production" -> [status EXCEPT ![tx.tee] = "PRODUCTION"]
                 [] OTHER -> status
  /\ sent' = CASE tx.op \in {"register", "attest"} ->
                    Append(sent, [kind |-> "attest", tee |-> tx.tee])
               [] tx.op = "check" -> Append(sent, [kind |-> "check", tee |-> tx.tee])
               [] OTHER -> sent
  /\ live' = CASE tx.op \in {"register", "attest"} -> live \cup {Len(sent) + 1}
               [] tx.op = "check" -> live \ {tx.ref}
               [] OTHER -> live
  /\ lost' = IF tx.op = "check" /\ ~inSync THEN lost \cup {Len(sent) + 1} ELSE lost

Mine ==
  /\ mempool # <<>>
  /\ mempool' = Tail(mempool)
  /\ IF Accepts(Head(mempool))
     THEN Execute(Head(mempool)) ELSE UNCHANGED <<status, sent, live, lost>>
  /\ receipt' = IF Len(mempool) > 1 THEN receipt
                ELSE IF Accepts(Head(mempool)) THEN Mined(Len(sent')) ELSE Reverted
  /\ UNCHANGED <<proofs, inSync>>

\* The data providers attest that the TEE is there, which must be running.
Prove(t) ==
  /\ \E i \in DOMAIN sent \ (proofs \cup lost) :
       sent[i] = [kind |-> "check", tee |-> t] /\ proofs' = proofs \cup {i}
  /\ UNCHANGED <<status, sent, live, lost, inSync, mempool, receipt>>

LoseProof ==
  /\ \E i \in DOMAIN sent \ (proofs \cup lost) :
       sent[i].kind = "check" /\ lost' = lost \cup {i}
  /\ UNCHANGED <<status, sent, live, proofs, inSync, mempool, receipt>>

ExpireChallenge ==
  /\ \E i \in live : live' = live \ {i}
  /\ UNCHANGED <<status, sent, proofs, lost, inSync, mempool, receipt>>

\* The proxy falls behind the reward epoch, or runs ahead of it, and recovers.
LoseSync ==
  /\ inSync /\ inSync' = FALSE
  /\ UNCHANGED <<status, sent, live, proofs, lost, mempool, receipt>>

CatchUp ==
  /\ ~inSync /\ inSync' = TRUE
  /\ UNCHANGED <<status, sent, live, proofs, lost, mempool, receipt>>
=============================================================================
