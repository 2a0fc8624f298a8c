---------------------------- MODULE PythonProofs -----------------------------
(***************************************************************************)
(* Proofs about the Python extension, for any number of concurrent calls:   *)
(* its types, the exclusion that Server.mu provides, and that the server    *)
(* behaves as the atomic key register of KeyRegister.                       *)
(***************************************************************************)
EXTENDS PythonExtension, TLAPS

-----------------------------------------------------------------------------
(* The values exchanged are well typed.                                     *)

\* crypto.py parse_private_key returns a scalar of 1 .. N-1 or raises.
LEMMA ParseTyped == \A p \in Plaintexts : StrictParseKey(p) \in Stored
  BY ProtocolAssumption DEF StrictParseKey, Stored, Keys, NoKey

LEMMA TextTyped ==
  \A rq \in Requests :
    /\ PyText(rq) \in Messages \cup {Empty, Unreadable}
    /\ PyText(rq) \notin {Empty, Unreadable} => PyText(rq) \in Messages
  BY DEF PyText, Requests

\* What the node decrypts is the caller's own ciphertext: the handler has
\* refused an unreadable message, and the node refuses an empty one.
LEMMA DecryptedTyped ==
  ASSUME NEW rq \in Requests, PyText(rq) \notin {Empty, Unreadable}
  PROVE  /\ PyText(rq) \in Messages
         /\ StrictParseKey(Decrypt[PyText(rq)]) \in Stored
  BY TextTyped, ParseTyped, ProtocolAssumption

LEMMA ReplyTyped ==
  /\ NoReply \in Replies /\ Refused \in Replies /\ Updated \in Replies
  /\ \A code \in HttpErrors : HttpError(code) \in Replies
  /\ \A k \in Stored : StateReport(k) \in Replies
  /\ \A k \in Stored, rq \in Requests : SignReply(k, PyText(rq)) \in Replies
  BY TextTyped DEF NoReply, Refused, Updated, HttpError, SignReply, StateReport,
     Reply, Replies, HttpErrors, Contents, Stored, NoKey

LEMMA NoRequestTyped == NoRequest \in Requests
  BY ProtocolAssumption DEF NoRequest, Requests, Paths, Bodies, Forms

-----------------------------------------------------------------------------
(* The inductive invariant.                                                 *)

\* A call whose request the node is decrypting is an update with a message
\* the handler could read.
RouteInv ==
  \A c \in Calls :
    pc[c] = "decrypt" => PyOp(req[c]) = "UPDATE" /\ PyText(req[c]) # Unreadable

\* Server.mu is held by exactly the call between its acquire and its release.
MuInv == \A c \in Calls : mu = c <=> pc[c] \in {"handler", "decrypt", "release"}

PyInv == TypeOK /\ RouteInv /\ MuInv

LEMMA PyInvInit == Init => PyInv
  <1> SUFFICES ASSUME Init PROVE PyInv
    OBVIOUS
  <1>1. TypeOK
    BY NoRequestTyped, ReplyTyped, CallsAssumption
    DEF Init, CallsInit, TypeOK, PCs, Stored
  <1>2. RouteInv /\ MuInv
    BY CallsAssumption DEF Init, CallsInit, RouteInv, MuInv
  <1>3. QED
    BY <1>1, <1>2 DEF PyInv

LEMMA TypesKept == TypeOK /\ RouteInv /\ [Next]_vars => TypeOK'
  <1> SUFFICES ASSUME TypeOK, RouteInv, [Next]_vars PROVE TypeOK'
    OBVIOUS
  <1> USE DEF TypeOK, PCs
  <1>1. ASSUME NEW c \in Calls, Receive(c) PROVE TypeOK'
    BY <1>1, CallsAssumption DEF Receive, Arrive
  <1>2. ASSUME NEW c \in Calls, NEW from, NEW to \in PCs, Continue(c, from, to),
               mu' \in Calls \cup {NoCall}
        PROVE  TypeOK'
    BY <1>2 DEF Continue
  <1>3. ASSUME NEW c \in Calls, NEW from, NEW r \in Replies, NEW to \in PCs,
               Answer(c, from, r, to), UNCHANGED mu
        PROVE  TypeOK'
    BY <1>3 DEF Answer
  <1>4. ASSUME NEW c \in Calls, ServerStep(c) PROVE TypeOK'
    <2>1. CASE RouteToError(c)
      BY <2>1, <1>3, ReplyTyped DEF RouteToError
    <2>2. CASE Acquire(c) \/ Release(c) \/ Respond(c) \/ AskNode(c)
      BY <2>2, <1>2 DEF Acquire, Release, Respond, Depart, AskNode
    <2>3. CASE RefuseUnreadable(c)
      BY <2>3, <1>3, ReplyTyped DEF RefuseUnreadable
    <2>4. CASE Sign(c)
      BY <2>4, <1>3, ReplyTyped DEF Sign
    <2>5. CASE Report(c)
      BY <2>5, <1>3, ReplyTyped DEF Report
    <2>6. QED
      BY <1>4, <2>1, <2>2, <2>3, <2>4, <2>5 DEF ServerStep
  <1>5. ASSUME NEW c \in Calls, NodeStep(c) PROVE TypeOK'
    <2>1. CASE DecryptToKey(c)
      <3>1. StrictParseKey(Decrypt[PyText(req[c])]) \in Stored
        BY <2>1, DecryptedTyped DEF DecryptToKey, RouteInv
      <3>2. QED
        BY <2>1, <3>1, ReplyTyped DEF DecryptToKey, StoreKey
    <2>2. CASE DecryptToInvalidKey(c) \/ DecryptFails(c)
      BY <2>2, <1>3, ReplyTyped DEF DecryptToInvalidKey, DecryptFails
    <2>3. QED
      BY <1>5, <2>1, <2>2 DEF NodeStep
  <1>6. CASE Crash
    BY <1>6, CallsAssumption DEF Crash, CallsCrash, Stored
  <1>7. CASE UNCHANGED vars
    BY <1>7 DEF vars, callVars
  <1>8. QED
    BY <1>1, <1>4, <1>5, <1>6, <1>7 DEF Next

LEMMA RouteAndMuKept == PyInv /\ [Next]_vars => RouteInv' /\ MuInv'
  <1> SUFFICES ASSUME PyInv, [Next]_vars PROVE RouteInv' /\ MuInv'
    OBVIOUS
  <1> USE CallsAssumption DEF PyInv, TypeOK, RouteInv, MuInv
  <1>1. ASSUME NEW c \in Calls, Receive(c) PROVE RouteInv' /\ MuInv'
    BY <1>1 DEF Receive, Arrive
  <1>2. ASSUME NEW c \in Calls, ServerStep(c) PROVE RouteInv' /\ MuInv'
    <2>1. CASE RouteToError(c) \/ Respond(c)
      BY <2>1 DEF RouteToError, Respond, Depart, Continue, Answer
    <2>2. CASE Acquire(c)
      BY <2>2 DEF Acquire, Continue
    <2>3. CASE Release(c)
      BY <2>3 DEF Release, Continue
    <2>4. CASE AskNode(c)
      BY <2>4 DEF AskNode, Continue
    <2>5. CASE RefuseUnreadable(c) \/ Sign(c) \/ Report(c)
      BY <2>5 DEF RefuseUnreadable, Sign, Report, Answer
    <2>6. QED
      BY <1>2, <2>1, <2>2, <2>3, <2>4, <2>5 DEF ServerStep
  <1>3. ASSUME NEW c \in Calls, NodeStep(c) PROVE RouteInv' /\ MuInv'
    BY <1>3 DEF NodeStep, DecryptToKey, DecryptToInvalidKey, DecryptFails, Answer
  <1>4. CASE Crash
    BY <1>4 DEF Crash, CallsCrash, UnderWay, Ended, PCs
  <1>5. CASE UNCHANGED vars
    BY <1>5 DEF vars, callVars
  <1>6. QED
    BY <1>1, <1>2, <1>3, <1>4, <1>5 DEF Next

\* In every behaviour, a request is decrypted only for a readable update, and
\* Server.mu belongs to the one call whose handler runs (or waits for the
\* node, or has just ended).
THEOREM PythonInvariant == Spec => []PyInv
  <1>1. PyInv /\ [Next]_vars => PyInv'
    BY TypesKept, RouteAndMuKept DEF PyInv
  <1>2. QED
    BY PyInvInit, <1>1, PTL DEF Spec

\* The variables of the Python server keep their types in every behaviour: in
\* particular only a scalar of 1 .. Order-1 is ever stored.
THEOREM PythonTypes == Spec => []TypeOK
  <1>1. PyInv => TypeOK
    BY DEF PyInv
  <1>2. QED
    BY <1>1, PythonInvariant, PTL

\* base-spec.md:37: whatever the number of threads, only one handler runs at
\* a time, the request to the node included.
THEOREM PythonOneHandler == Spec => []OneHandlerAtATime
  <1>1. PyInv => OneHandlerAtATime
    BY DEF PyInv, MuInv, OneHandlerAtATime
  <1>2. QED
    BY <1>1, PythonInvariant, PTL

-----------------------------------------------------------------------------
(* The refinement.  A call takes effect when its reply is decided.          *)

\* The instance of KeyRegister speaks of the same requests and replies.
LEMMA SameProtocol ==
  /\ Register!Requests = Requests
  /\ Register!NoKey = NoKey /\ Register!NoReply = NoReply
  /\ Register!Refused = Refused /\ Register!Updated = Updated
  /\ Register!HttpErrors = HttpErrors
  /\ \A code : Register!HttpError(code) = HttpError(code)
  /\ \A k, t : Register!SignReply(k, t) = SignReply(k, t)
  /\ \A k : Register!StateReport(k) = StateReport(k)
  BY DEF Register!Requests, Requests, Register!Paths, Paths, Register!Bodies,
     Bodies, Register!Forms, Forms, Register!NoKey, NoKey, Register!NoReply,
     NoReply, Register!Refused, Refused, Register!Updated, Updated,
     Register!HttpErrors, HttpErrors, Register!HttpError, HttpError,
     Register!SignReply, SignReply, Register!StateReport, StateReport,
     Register!Reply, Reply, Register!Empty, Empty, Register!Unreadable, Unreadable

LEMMA RefinesInit == Init => Register!Init
  <1> SUFFICES ASSUME Init PROVE Register!Init
    OBVIOUS
  <1>1. \A c \in Calls : AbsPhase(c) = "idle" /\ AbsRes(c) = NoReply
    BY DEF Init, CallsInit, AbsPhase, AbsRes, Ended
  <1>2. req \in [Calls -> Requests] /\ key = NoKey
    BY NoRequestTyped DEF Init, CallsInit
  <1>3. QED
    BY <1>1, <1>2, SameProtocol DEF Register!Init

\* A step that changes neither the key nor what a call looks like from outside.
LEMMA Stutter ==
  ASSUME key' = key, req' = req,
         \A d \in Calls : AbsPhase(d)' = AbsPhase(d) /\ AbsRes(d)' = AbsRes(d)
  PROVE  UNCHANGED Register!vars
  BY DEF Register!vars

\* A step that makes call c take effect.
LEMMA TakesEffect ==
  ASSUME NEW c \in Calls, NEW k, NEW r, key' = k, req' = req,
         AbsPhase(c) = "open", AbsPhase(c)' = "applied", AbsRes(c)' = r,
         \A d \in Calls \ {c} :
           AbsPhase(d)' = AbsPhase(d) /\ AbsRes(d)' = AbsRes(d)
  PROVE  Register!Apply(c, k, r)
  BY DEF Register!Apply

\* What a step of call c leaves alone in the other calls.
LEMMA OthersUntouched ==
  ASSUME TypeOK, NEW c \in Calls, NEW d \in Calls \ {c},
         Receive(c) \/ ServerStep(c) \/ NodeStep(c)
  PROVE  AbsPhase(d)' = AbsPhase(d) /\ AbsRes(d)' = AbsRes(d)
  <1>1. pc'[d] = pc[d] /\ res'[d] = res[d]
    BY DEF Receive, Arrive, ServerStep, RouteToError, Acquire, Release, Respond,
       Depart, RefuseUnreadable, AskNode, Sign, Report, NodeStep, DecryptToKey,
       DecryptToInvalidKey, DecryptFails, Continue, Answer, TypeOK
  <1>2. QED
    BY <1>1 DEF AbsPhase, AbsRes

\* The steps of call c, one by one: each is a step of the register or none.
LEMMA RefinesCallStep ==
  ASSUME PyInv, NEW c \in Calls, Receive(c) \/ ServerStep(c) \/ NodeStep(c)
  PROVE  Register!Next \/ UNCHANGED Register!vars
  <1> USE DEF PyInv
  <1>1. \A d \in Calls \ {c} : AbsPhase(d)' = AbsPhase(d) /\ AbsRes(d)' = AbsRes(d)
    BY OthersUntouched
  <1>2. ASSUME NEW k, NEW r, key' = k, req' = req,
               AbsPhase(c) = "open", AbsPhase(c)' = "applied", AbsRes(c)' = r
        PROVE  Register!Apply(c, k, r)
    BY <1>1, <1>2, TakesEffect
  <1>3. ASSUME NEW from, NEW to, Continue(c, from, to),
               \/ {from, to} \subseteq {"received", "handler", "decrypt"}
               \/ {from, to} \subseteq {"release", "respond"}
        PROVE  UNCHANGED Register!vars
    <2>1. key' = key /\ req' = req /\ AbsPhase(c)' = AbsPhase(c) /\ AbsRes(c)' = AbsRes(c)
      BY <1>3 DEF Continue, TypeOK, AbsPhase, AbsRes, Ended
    <2>2. QED
      BY <2>1, <1>1, Stutter
  <1>4. CASE Receive(c)
    <2>1. /\ AbsPhase(c) = "idle" /\ AbsPhase(c)' = "open"
          /\ AbsRes(c)' = AbsRes(c) /\ key' = key
          /\ \E rq \in Requests : req' = [req EXCEPT ![c] = rq]
      BY <1>4, CallsAssumption DEF Receive, Arrive, TypeOK, AbsPhase, AbsRes, Ended
    <2>2. Register!Open(c)
      BY <2>1, <1>1, SameProtocol DEF Register!Open
    <2>3. QED
      BY <2>2 DEF Register!Next
  <1>5. CASE RouteToError(c)
    <2>1. /\ key' = key /\ req' = req /\ PyOp(req[c]) \in HttpErrors
          /\ AbsPhase(c) = "open" /\ AbsPhase(c)' = "applied"
          /\ AbsRes(c)' = HttpError(PyOp(req[c]))
      BY <1>5 DEF RouteToError, Answer, TypeOK, AbsPhase, AbsRes, Ended
    <2>2. Register!Apply(c, key, HttpError(PyOp(req[c])))
      BY <2>1, <1>2
    <2>3. Register!Reject(c)
      BY <2>1, <2>2, SameProtocol DEF Register!Reject
    <2>4. QED
      BY <2>3 DEF Register!Next
  <1>6. CASE Acquire(c) \/ AskNode(c) \/ Release(c)
    BY <1>6, <1>3 DEF Acquire, AskNode, Release
  <1>7. CASE RefuseUnreadable(c) \/ DecryptToInvalidKey(c) \/ DecryptFails(c)
    <2>1. /\ key' = key /\ req' = req /\ PyOp(req[c]) = "UPDATE"
          /\ AbsPhase(c) = "open" /\ AbsPhase(c)' = "applied"
          /\ AbsRes(c)' = Refused
      BY <1>7 DEF RefuseUnreadable, DecryptToInvalidKey, DecryptFails, RouteInv, Answer, TypeOK, AbsPhase, AbsRes, Ended
    <2>2. Register!Apply(c, key, Refused)
      BY <2>1, <1>2
    <2>3. Register!RefuseUpdate(c)
      BY <2>1, <2>2, SameProtocol DEF Register!RefuseUpdate
    <2>4. QED
      BY <2>3 DEF Register!Next
  <1>8. CASE DecryptToKey(c)
    <2> DEFINE k == StrictParseKey(Decrypt[PyText(req[c])])
    <2>1. /\ key' = k /\ req' = req /\ k # NoKey
          /\ PyOp(req[c]) = "UPDATE" /\ PyText(req[c]) \in Messages
      BY <1>8, DecryptedTyped DEF DecryptToKey, StoreKey, TypeOK, RouteInv
    <2>2. AbsPhase(c) = "open" /\ AbsPhase(c)' = "applied" /\ AbsRes(c)' = Updated
      BY <1>8 DEF DecryptToKey, TypeOK, AbsPhase, AbsRes, Ended
    <2>3. Register!Apply(c, k, Updated)
      BY <2>1, <2>2, <1>1, TakesEffect
    <2>4. Register!Update(c)
      BY <2>1, <2>3, SameProtocol DEF Register!Update
    <2>5. QED
      BY <2>4 DEF Register!Next
  <1>9. CASE Sign(c)
    <2>1. /\ key' = key /\ req' = req /\ PyOp(req[c]) = "SIGN"
          /\ AbsPhase(c) = "open" /\ AbsPhase(c)' = "applied"
          /\ AbsRes(c)' = SignReply(key, PyText(req[c]))
      BY <1>9 DEF Sign, Answer, TypeOK, AbsPhase, AbsRes, Ended
    <2>2. Register!Apply(c, key, SignReply(key, PyText(req[c])))
      BY <2>1, <1>2
    <2>3. Register!Sign(c)
      BY <2>1, <2>2, SameProtocol DEF Register!Sign
    <2>4. QED
      BY <2>3 DEF Register!Next
  <1>10. CASE Report(c)
    <2>1. /\ key' = key /\ req' = req /\ PyOp(req[c]) = "STATE"
          /\ AbsPhase(c) = "open" /\ AbsPhase(c)' = "applied"
          /\ AbsRes(c)' = StateReport(key)
      BY <1>10 DEF Report, Answer, TypeOK, AbsPhase, AbsRes, Ended
    <2>2. Register!Apply(c, key, StateReport(key))
      BY <2>1, <1>2
    <2>3. Register!Report(c)
      BY <2>1, <2>2, SameProtocol DEF Register!Report
    <2>4. QED
      BY <2>3 DEF Register!Next
  <1>11. CASE Respond(c)
    <2>1. /\ key' = key /\ req' = req /\ AbsRes(c)' = AbsRes(c)
          /\ AbsPhase(c) = "applied" /\ AbsPhase(c)' = "closed"
      BY <1>11 DEF Respond, Depart, Continue, TypeOK, AbsPhase, AbsRes, Ended
    <2>2. Register!Close(c)
      BY <2>1, <1>1 DEF Register!Close
    <2>3. QED
      BY <2>2 DEF Register!Next
  <1>12. QED
    BY <1>4, <1>5, <1>6, <1>7, <1>8, <1>9, <1>10, <1>11 DEF ServerStep, NodeStep

LEMMA RefinesCrash == TypeOK /\ Crash => Register!Restart
  <1> SUFFICES ASSUME TypeOK, Crash PROVE Register!Restart
    OBVIOUS
  <1>1. /\ key' = NoKey /\ req' = req /\ res' = res
        /\ \A c \in Calls : pc'[c] = IF pc[c] \in Ended THEN pc[c] ELSE "lost"
    BY DEF Crash, CallsCrash, UnderWay
  <1>2. \A c \in Calls :
          /\ AbsPhase(c)' = IF AbsPhase(c) \in {"open", "applied"}
                             THEN "lost" ELSE AbsPhase(c)
          /\ AbsRes(c)' = IF AbsPhase(c) \in {"open", "applied"}
                           THEN NoReply ELSE AbsRes(c)
    BY <1>1 DEF AbsPhase, AbsRes, Ended, TypeOK, PCs
  <1>3. QED
    BY <1>1, <1>2, SameProtocol DEF Register!Restart

LEMMA RefinesNext == PyInv /\ [Next]_vars => [Register!Next]_(Register!vars)
  <1> SUFFICES ASSUME PyInv, [Next]_vars
               PROVE  Register!Next \/ UNCHANGED Register!vars
    OBVIOUS
  <1>1. CASE \E c \in Calls : Receive(c) \/ ServerStep(c) \/ NodeStep(c)
    BY <1>1, RefinesCallStep
  <1>2. CASE Crash
    BY <1>2, RefinesCrash DEF Register!Next, PyInv
  <1>3. CASE UNCHANGED vars
    <2>1. key' = key /\ req' = req /\ res' = res /\ pc' = pc
      BY <1>3 DEF vars, callVars
    <2>2. \A c \in Calls : AbsPhase(c)' = AbsPhase(c) /\ AbsRes(c)' = AbsRes(c)
      BY <2>1 DEF AbsPhase, AbsRes
    <2>3. QED
      BY <2>1, <2>2, Stutter
  <1>4. QED
    BY <1>1, <1>2, <1>3 DEF Next

\* The threads of the Python server are linearizable, restarts included:
\* together they behave as one atomic register, with the strict key parser.
THEOREM PythonImplementsRegister == Spec => ImplementsRegister
  BY PythonInvariant, RefinesInit, RefinesNext, PTL
  DEF Spec, ImplementsRegister, Register!Spec
=============================================================================
