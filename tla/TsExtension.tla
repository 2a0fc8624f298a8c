----------------------------- MODULE TsExtension -----------------------------
(***************************************************************************)
(* The TypeScript sign extension (typescript/src).  One event loop runs      *)
(* everything; the handlers, and the reads of the state, are chained on the *)
(* promise handlerQueue, so each starts when the one before it has settled. *)
(* A request is routed and appended to the chain in one synchronous step.   *)
(* If the node closes its connection in the middle of a response, 'end' is   *)
(* never emitted, the promise of decryptViaNode never settles, and nothing  *)
(* behind it in the chain is ever run.                                      *)
(***************************************************************************)
EXTENDS ExtensionCalls

VARIABLE queue   \* the calls whose handler is running or waiting, in order

vars == <<callVars, queue>>

PCs == {"idle", "received", "queued", "decrypt", "wedged", "respond",
        "closed", "lost"}

\* The routing of handleRequest and processAction: an unknown path is 501.
TsOp(rq) == Route(rq, "501")

\* Buffer.from(h, "hex") stops at a bad digit and keeps what it has read.
TsText(rq) ==
  CASE rq.form \in {"hex", "badHex"} -> rq.msg
    [] rq.form = "0x" -> Empty
    [] OTHER -> Unreadable

Init == CallsInit /\ queue = <<>>

\* Mutant: the handler is put in front of the waiting ones.
ReceiveAtFront(c) ==
  /\ Arrive(c, IF TsOp(req'[c]) \in Operations THEN "queued" ELSE "received")
  /\ queue' = IF TsOp(req'[c]) \in Operations THEN <<c>> \o queue ELSE queue

Receive(c) ==
  /\ Arrive(c, IF TsOp(req'[c]) \in Operations THEN "queued" ELSE "received")
  /\ queue' = IF TsOp(req'[c]) \in Operations THEN Append(queue, c) ELSE queue

RouteToError(c) ==
  /\ Answer(c, "received", HttpError(TsOp(req[c])), "respond")
  /\ UNCHANGED queue

-----------------------------------------------------------------------------
(* The head of the queue runs; when its handler settles, the next one may.  *)

\* Mutant: the handler is called at once, without the chain.
InQueue(c) == \E i \in DOMAIN queue : queue[i] = c

AtHead(c) == queue # <<>> /\ Head(queue) = c

\* Mutant: the chain does not go on.
ResolveOnly(c, from, r) ==
  /\ AtHead(c)
  /\ Answer(c, from, r, "respond")
  /\ UNCHANGED queue

\* The handler resolves with reply r without changing the key.
Resolve(c, from, r) ==
  /\ AtHead(c)
  /\ Answer(c, from, r, "respond")
  /\ queue' = Tail(queue)

RefuseUnreadable(c) ==
  /\ TsOp(req[c]) = "UPDATE"
  /\ TsText(req[c]) = Unreadable
  /\ Resolve(c, "queued", Refused)

AskNode(c) ==
  /\ TsOp(req[c]) = "UPDATE"
  /\ TsText(req[c]) # Unreadable
  /\ AtHead(c)
  /\ Continue(c, "queued", "decrypt")
  /\ UNCHANGED queue

Sign(c) ==
  /\ TsOp(req[c]) = "SIGN"
  /\ Resolve(c, "queued", SignReply(key, TsText(req[c])))

Report(c) ==
  /\ TsOp(req[c]) = "STATE"
  /\ Resolve(c, "queued", StateReport(key))

-----------------------------------------------------------------------------
(* What the node does with the request of decryptViaNode.                   *)

DecryptToKey(c) ==
  /\ AtHead(c)
  /\ pc[c] = "decrypt"
  /\ TsText(req[c]) # Empty
  /\ LET k == StrictParseKey(Decrypt[TsText(req[c])])
     IN  k # NoKey /\ StoreKey(c, k)
  /\ pc' = [pc EXCEPT ![c] = "respond"]
  /\ res' = [res EXCEPT ![c] = Updated]
  /\ queue' = Tail(queue)
  /\ UNCHANGED <<req, since, arrivals>>

DecryptToInvalidKey(c) ==
  /\ Resolve(c, "decrypt", Refused)
  /\ TsText(req[c]) # Empty
  /\ StrictParseKey(Decrypt[TsText(req[c])]) = NoKey

\* Mutant: privateKey is reset when the decryption fails.
DecryptFailsAndResets(c) ==
  /\ AtHead(c)
  /\ pc[c] = "decrypt"
  /\ pc' = [pc EXCEPT ![c] = "respond"]
  /\ res' = [res EXCEPT ![c] = Refused]
  /\ StoreKey(c, NoKey)
  /\ queue' = Tail(queue)
  /\ UNCHANGED <<req, since, arrivals>>

DecryptFails(c) == Resolve(c, "decrypt", Refused)

NodeAborts(c) == Continue(c, "decrypt", "wedged") /\ UNCHANGED queue

-----------------------------------------------------------------------------
Respond(c) == Depart(c) /\ UNCHANGED queue

\* The process dies; so it does on a rejected processAction, which has no
\* catch (an instruction whose JSON is null).
Crash == CallsCrash /\ queue' = <<>>

NodeStep(c) ==
  DecryptToKey(c) \/ DecryptToInvalidKey(c) \/ DecryptFails(c) \/ NodeAborts(c)

ServerStep(c) ==
  \/ RouteToError(c) \/ Respond(c)
  \/ RefuseUnreadable(c) \/ AskNode(c) \/ Sign(c) \/ Report(c)

Next ==
  \/ \E c \in Calls : Receive(c) \/ ServerStep(c) \/ NodeStep(c)
  \/ Crash

Spec == Init /\ [][Next]_vars

\* The event loop runs every callback that is ready; the node, if it is
\* fair, does something with every request.
FairSpec == Spec /\ \A c \in Calls : WF_vars(ServerStep(c)) /\ WF_vars(NodeStep(c))

-----------------------------------------------------------------------------
TypeOK ==
  /\ key \in Stored
  /\ pc \in [Calls -> PCs]
  /\ req \in [Calls -> Requests]
  /\ res \in [Calls -> Replies]
  /\ history \in Seq([key : Stored, by : Calls \cup {NoCall}])
  /\ since \in [Calls -> Nat]
  /\ arrivals \in Seq(Calls)
  /\ queue \in Seq(Calls)

\* Keys are stored in the order their updates arrived: the caller's last
\* update is the one that lasts, however long the node took for the others.
UpdatesInArrivalOrder ==
  \A i, j \in DOMAIN history :
    i < j /\ history[i].by # NoCall /\ history[j].by # NoCall =>
      \E a, b \in DOMAIN arrivals :
        a < b /\ arrivals[a] = history[i].by /\ arrivals[b] = history[j].by

\* Every call is answered unless the node has left a response unfinished.
EveryCallEndsUnlessWedged ==
  \A c \in Calls : UnderWay(c) ~> ~UnderWay(c) \/ \E d \in Calls : pc[d] = "wedged"

\* Once the chain is wedged no call settles until the process is restarted.
WedgedUntilRestart ==
  [][(\E d \in Calls : pc[d] = "wedged") =>
       /\ key' = key \/ key' = NoKey
       /\ \A c \in Calls : pc[c] = "queued" => pc'[c] \in {"queued", "lost"}]_vars

-----------------------------------------------------------------------------
AbsPhase(c) ==
  CASE pc[c] \in Ended -> pc[c]
    [] pc[c] = "respond" -> "applied"
    [] OTHER -> "open"

AbsRes(c) == IF pc[c] = "lost" THEN NoReply ELSE res[c]

Register == INSTANCE KeyRegister WITH
  phase <- [c \in Calls |-> AbsPhase(c)],
  res <- [c \in Calls |-> AbsRes(c)],
  Op <- TsOp, Text <- TsText, ParseKey <- StrictParseKey

\* The TypeScript server is linearizable as well.
ImplementsRegister == Register!Spec
=============================================================================
