--------------------------- MODULE ExtensionCalls ---------------------------
(***************************************************************************)
(* The part the three extension servers have in common: the stored key, the *)
(* HTTP exchanges with their program counters, requests and replies, the    *)
(* arrival of a request, the departure of a reply, and the crash of the     *)
(* process.  Each implementation extends this module with its own steps     *)
(* between an arrival and a departure.                                      *)
(*                                                                         *)
(* history, since and arrivals only record what happened: no action reads   *)
(* them, except for the bound on restarts.                                  *)
(***************************************************************************)
EXTENDS SignProtocol, Sequences, FiniteSets

CONSTANTS
  Calls,        \* the HTTP exchanges of a behaviour
  NoCall,       \* no exchange: a free lock, a key that no update stored
  Offered,      \* the requests callers send
  MaxRestarts   \* how often the process may crash and start again

ASSUME CallsAssumption ==
  /\ NoCall \notin Calls
  /\ Offered \subseteq Requests
  /\ MaxRestarts \in Nat

VARIABLES
  key,       \* the stored private key, NoKey for nil
  pc,        \* where each call is
  req,       \* the request of each call
  res,       \* the reply of each call
  history,   \* the values the register has held, each with the call it is by
  since,     \* the length of history when each call arrived
  arrivals   \* the calls in the order they arrived

callVars == <<key, pc, req, res, history, since, arrivals>>

Ended == {"idle", "closed", "lost"}
UnderWay(c) == pc[c] \notin Ended

CallsInit ==
  /\ key = NoKey
  /\ pc = [c \in Calls |-> "idle"]
  /\ req = [c \in Calls |-> NoRequest]
  /\ res = [c \in Calls |-> NoReply]
  /\ history = <<[key |-> NoKey, by |-> NoCall]>>
  /\ since = [c \in Calls |-> 0]
  /\ arrivals = <<>>

\* The server has read the body of a request; next is its first step.
Arrive(c, next) ==
  /\ pc[c] = "idle"
  /\ \E rq \in Offered : req' = [req EXCEPT ![c] = rq]
  /\ pc' = [pc EXCEPT ![c] = next]
  /\ since' = [since EXCEPT ![c] = Len(history)]
  /\ arrivals' = Append(arrivals, c)
  /\ UNCHANGED <<key, res, history>>

\* Steps of a call that keep the key: to another step, or to its reply.
Continue(c, from, to) ==
  /\ pc[c] = from
  /\ pc' = [pc EXCEPT ![c] = to]
  /\ UNCHANGED <<key, req, res, history, since, arrivals>>

Answer(c, from, r, to) ==
  /\ pc[c] = from
  /\ pc' = [pc EXCEPT ![c] = to]
  /\ res' = [res EXCEPT ![c] = r]
  /\ UNCHANGED <<key, req, history, since, arrivals>>

\* Mutant: the key is set once and never replaced.
StoreKeyOnce(c, k) ==
  /\ key' = IF key = NoKey THEN k ELSE key
  /\ history' = Append(history, [key |-> k, by |-> c])

\* The step that assigns the stored key.
StoreKey(c, k) ==
  /\ key' = k
  /\ history' = Append(history, [key |-> k, by |-> c])

\* The reply is written to the connection.
Depart(c) == Continue(c, "respond", "closed")

\* The process dies and starts again.  Nothing was persisted.
CallsCrash ==
  /\ Cardinality({i \in DOMAIN history : history[i].by = NoCall}) <= MaxRestarts
  /\ key' = NoKey
  /\ pc' = [c \in Calls |-> IF UnderWay(c) THEN "lost" ELSE pc[c]]
  /\ history' = Append(history, [key |-> NoKey, by |-> NoCall])
  /\ UNCHANGED <<req, res, since, arrivals>>

-----------------------------------------------------------------------------
\* The values the register held at some instant since call c arrived, and the
\* positions of the keys that call c stored.
HeldSince(c) == {history[i].key : i \in since[c] .. Len(history)}
Stores(c) == {i \in DOMAIN history : history[i].by = c}

\* Every signature a caller receives was made with a key that was the stored
\* key at some instant of the call: once an update has been acknowledged, no
\* later SIGN uses an older key (processKeySign, handle_key_sign,
\* handleKeySign), whatever other updates and restarts happen meanwhile.
NoStaleSignature ==
  \A c \in Calls :
    pc[c] = "closed" /\ res[c].signer # NoKey => res[c].signer \in HeldSince(c)

\* An UPDATE is acknowledged if and only if this very call stored a key, and
\* then it stored it once, after it arrived: a refused update (decryption
\* failed, key invalid) has stored nothing, and no two calls are confused.
UpdateOutcome ==
  \A c \in Calls :
    pc[c] = "closed" =>
      IF req[c].path = "action" /\ req[c].opCommand = "UPDATE" /\ res[c] = Updated
      THEN \E i \in DOMAIN history : i > since[c] /\ Stores(c) = {i}
      ELSE Stores(c) = {}

\* GET /state reports a key only if one was stored at some instant of the
\* call, and none only if none was: hasKey is never an older view.
StateReportTruthful ==
  \A c \in Calls :
    pc[c] = "closed" /\ req[c].path = "state" =>
      \E k \in HeldSince(c) : res[c].hasKey = (k # NoKey)
=============================================================================
