--------------------------- MODULE PythonExtension ---------------------------
(***************************************************************************)
(* The Python sign extension (python/base, python/app).  ThreadingHTTPServer *)
(* gives every request a thread; the whole handler, the request to the TEE  *)
(* node included, runs under Server.mu, and so does the state report.       *)
(* threading.Lock admits waiters in any order.                              *)
(***************************************************************************)
EXTENDS ExtensionCalls

VARIABLE mu   \* the call holding Server.mu, or NoCall

vars == <<callVars, mu>>

PCs == {"idle", "received", "handler", "decrypt", "release", "respond",
        "closed", "lost"}

\* The routing of do_POST, do_GET and _process_action.
PyOp(rq) == Route(rq, "404")

\* "" is falsy and a bad digit makes bytes.fromhex raise; "0x" is b"".
PyText(rq) ==
  CASE rq.form = "hex" -> rq.msg
    [] rq.form = "0x" -> Empty
    [] OTHER -> Unreadable

Init == CallsInit /\ mu = NoCall

Receive(c) == Arrive(c, "received") /\ UNCHANGED mu

\* A message that is not UTF-8 is not caught (server.py:124-128): the connection is
\* closed without an answer, which counts as a 400 here.
RouteToError(c) ==
  /\ PyOp(req[c]) \in HttpErrors
  /\ Answer(c, "received", HttpError(PyOp(req[c])), "respond")
  /\ UNCHANGED mu

\* Mutant: the handler is called without the lock.
AcquireNothing(c) ==
  /\ PyOp(req[c]) \in Operations
  /\ Continue(c, "received", "handler")
  /\ mu' = c

Acquire(c) ==
  /\ PyOp(req[c]) \in Operations
  /\ mu = NoCall
  /\ Continue(c, "received", "handler")
  /\ mu' = c

-----------------------------------------------------------------------------
(* The handlers.  Each runs to its end, or to the request to the node.      *)

RefuseUnreadable(c) ==
  /\ PyOp(req[c]) = "UPDATE"
  /\ PyText(req[c]) = Unreadable
  /\ Answer(c, "handler", Refused, "release")
  /\ UNCHANGED mu

\* Mutant: the old key is dropped before the new one is there.
AskNodeAndReset(c) ==
  /\ PyOp(req[c]) = "UPDATE"
  /\ PyText(req[c]) # Unreadable
  /\ pc[c] = "handler"
  /\ pc' = [pc EXCEPT ![c] = "decrypt"]
  /\ key' = NoKey
  /\ UNCHANGED <<req, res, history, since, arrivals, mu>>

AskNode(c) ==
  /\ PyOp(req[c]) = "UPDATE"
  /\ PyText(req[c]) # Unreadable
  /\ Continue(c, "handler", "decrypt")
  /\ UNCHANGED mu

\* The node returns a plaintext; a private key is stored, anything else is
\* refused.  No ciphertext is empty, so the node refuses an empty message.
DecryptToKey(c) ==
  /\ pc[c] = "decrypt"
  /\ PyText(req[c]) # Empty
  /\ LET k == StrictParseKey(Decrypt[PyText(req[c])])
     IN  k # NoKey /\ StoreKey(c, k)
  /\ pc' = [pc EXCEPT ![c] = "release"]
  /\ res' = [res EXCEPT ![c] = Updated]
  /\ UNCHANGED <<req, since, arrivals, mu>>

DecryptToInvalidKey(c) ==
  /\ Answer(c, "decrypt", Refused, "release")
  /\ PyText(req[c]) # Empty
  /\ StrictParseKey(Decrypt[PyText(req[c])]) = NoKey
  /\ UNCHANGED mu

\* The node answers with an error, or the request to it fails.
DecryptFails(c) == Answer(c, "decrypt", Refused, "release") /\ UNCHANGED mu

Sign(c) ==
  /\ PyOp(req[c]) = "SIGN"
  /\ Answer(c, "handler", SignReply(key, PyText(req[c])), "release")
  /\ UNCHANGED mu

Report(c) ==
  /\ PyOp(req[c]) = "STATE"
  /\ Answer(c, "handler", StateReport(key), "release")
  /\ UNCHANGED mu

-----------------------------------------------------------------------------
\* Mutant: the lock is not released.
ReleaseForgotten(c) == Continue(c, "release", "respond") /\ UNCHANGED mu

Release(c) == Continue(c, "release", "respond") /\ mu' = NoCall

Respond(c) == Depart(c) /\ UNCHANGED mu

Crash == CallsCrash /\ mu' = NoCall

NodeStep(c) == DecryptToKey(c) \/ DecryptToInvalidKey(c) \/ DecryptFails(c)

ServerStep(c) ==
  \/ RouteToError(c) \/ Acquire(c) \/ Release(c) \/ Respond(c)
  \/ RefuseUnreadable(c) \/ AskNode(c) \/ Sign(c) \/ Report(c)

Next ==
  \/ \E c \in Calls : Receive(c) \/ ServerStep(c) \/ NodeStep(c)
  \/ Crash

Spec == Init /\ [][Next]_vars

\* Threads are scheduled, and a thread waiting for mu gets it in the end.
FairSpec == Spec /\ \A c \in Calls : WF_vars(ServerStep(c)) /\ WF_vars(NodeStep(c))

-----------------------------------------------------------------------------
TypeOK ==
  /\ key \in Stored
  /\ pc \in [Calls -> PCs]
  /\ req \in [Calls -> Requests]
  /\ res \in [Calls -> Replies]
  /\ history \in Seq([key : Stored, by : Calls \cup {NoCall}])
  /\ since \in [Calls -> Nat]
  /\ arrivals \in Seq(Calls)
  /\ mu \in Calls \cup {NoCall}

\* base-spec.md:37, "Only one handler runs at a time": mu covers the request
\* to the node too.
OneHandlerAtATime ==
  \A c, d \in Calls :
    {pc[c], pc[d]} \subseteq {"handler", "decrypt", "release"} => c = d

\* A call that waits for mu waits for at most one call of the node: every
\* call is answered, GET /state included, if the node answers or fails.
EveryCallEnds == \A c \in Calls : UnderWay(c) ~> ~UnderWay(c)

-----------------------------------------------------------------------------
AbsPhase(c) ==
  CASE pc[c] \in Ended -> pc[c]
    [] pc[c] \in {"release", "respond"} -> "applied"
    [] OTHER -> "open"

AbsRes(c) == IF pc[c] = "lost" THEN NoReply ELSE res[c]

Register == INSTANCE KeyRegister WITH
  phase <- [c \in Calls |-> AbsPhase(c)],
  res <- [c \in Calls |-> AbsRes(c)],
  Op <- PyOp, Text <- PyText, ParseKey <- StrictParseKey

\* The Python server is linearizable as well, with its own parser.
ImplementsRegister == Register!Spec
=============================================================================
