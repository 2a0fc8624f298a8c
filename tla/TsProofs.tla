------------------------------ MODULE TsProofs -------------------------------
(***************************************************************************)
(* Proofs about the TypeScript extension, for any number of calls: the      *)
(* order in which the promise chain stores keys, what a wedged chain does    *)
(* until the process restarts, and that the server behaves as the atomic     *)
(* key register of KeyRegister.                                             *)
(***************************************************************************)
EXTENDS TsExtension, TLAPS, SequenceTheorems

-----------------------------------------------------------------------------
(* The values exchanged are well typed.                                     *)

\* crypto.ts parsePrivateKey returns a scalar of 1 .. N-1 or throws.
LEMMA ParseTyped == \A p \in Plaintexts : StrictParseKey(p) \in Stored
  BY ProtocolAssumption DEF StrictParseKey, Stored, Keys, NoKey

LEMMA TextTyped ==
  \A rq \in Requests :
    /\ TsText(rq) \in Messages \cup {Empty, Unreadable}
    /\ TsText(rq) \notin {Empty, Unreadable} => TsText(rq) \in Messages
  BY DEF TsText, Requests

\* Every request is either one of the operations or an HTTP error.
LEMMA OpTyped == \A rq \in Requests : TsOp(rq) \in Operations \cup HttpErrors
  BY DEF TsOp, Route, Handler, Operations, HttpErrors, Requests, Paths

\* The node decrypts the caller's own ciphertext: the handler has refused an
\* unreadable message, and the node refuses an empty one.
LEMMA DecryptedTyped ==
  ASSUME NEW rq \in Requests, TsText(rq) \notin {Empty, Unreadable}
  PROVE  /\ TsText(rq) \in Messages
         /\ StrictParseKey(Decrypt[TsText(rq)]) \in Stored
  BY TextTyped, ParseTyped, ProtocolAssumption

LEMMA ReplyTyped ==
  /\ NoReply \in Replies /\ Refused \in Replies /\ Updated \in Replies
  /\ \A code \in HttpErrors : HttpError(code) \in Replies
  /\ \A k \in Stored : StateReport(k) \in Replies
  /\ \A k \in Stored, rq \in Requests : SignReply(k, TsText(rq)) \in Replies
  BY TextTyped DEF NoReply, Refused, Updated, HttpError, SignReply, StateReport,
     Reply, Replies, HttpErrors, Contents, Stored, NoKey

LEMMA NoRequestTyped == NoRequest \in Requests
  BY ProtocolAssumption DEF NoRequest, Requests, Paths, Bodies, Forms

-----------------------------------------------------------------------------
(* The inductive invariant.                                                 *)

\* A request that was routed outside the chain is an HTTP error, and the node
\* decrypts only for an update whose message the handler could read.
RouteInv ==
  \A c \in Calls :
    /\ pc[c] = "received" => TsOp(req[c]) \in HttpErrors
    /\ pc[c] \in {"decrypt", "wedged"} =>
         TsOp(req[c]) = "UPDATE" /\ TsText(req[c]) # Unreadable

\* Only the head of the chain runs.
HeadInv == \A c \in Calls : pc[c] \in {"decrypt", "wedged"} => AtHead(c)

\* In the sequence s of arrivals, call c comes before call d.
Precedes(s, c, d) == \E a, b \in DOMAIN s : a < b /\ s[a] = c /\ s[b] = d
Arrived(s, c) == \E a \in DOMAIN s : s[a] = c

\* The chain is in the order of arrival, and whatever it still holds arrived
\* after every call that has stored a key.
OrderInv ==
  /\ \A i \in DOMAIN queue : Arrived(arrivals, queue[i])
  /\ \A i \in DOMAIN history : history[i].by # NoCall => Arrived(arrivals, history[i].by)
  /\ \A i, j \in DOMAIN queue : i < j => Precedes(arrivals, queue[i], queue[j])
  /\ \A i \in DOMAIN history, j \in DOMAIN queue :
       history[i].by # NoCall => Precedes(arrivals, history[i].by, queue[j])
  /\ \A i, j \in DOMAIN history :
       i < j /\ history[i].by # NoCall /\ history[j].by # NoCall =>
         Precedes(arrivals, history[i].by, history[j].by)

TsInv == TypeOK /\ RouteInv /\ HeadInv /\ OrderInv

LEMMA TsInvInit == Init => TsInv
  <1> SUFFICES ASSUME Init PROVE TsInv
    OBVIOUS
  <1>1. TypeOK
    BY NoRequestTyped, ReplyTyped, CallsAssumption
    DEF Init, CallsInit, TypeOK, PCs, Stored
  <1>2. RouteInv /\ HeadInv /\ OrderInv
    BY DEF Init, CallsInit, RouteInv, HeadInv, OrderInv
  <1>3. QED
    BY <1>1, <1>2 DEF TsInv

\* The chain once its head has settled.
LEMMA TailIs ==
  ASSUME NEW S, NEW s \in Seq(S), s # <<>>
  PROVE  /\ Tail(s) \in Seq(S) /\ Head(s) = s[1] /\ Len(s) \in Nat \ {0}
         /\ DOMAIN s = 1 .. Len(s) /\ DOMAIN Tail(s) = 1 .. (Len(s) - 1)
         /\ \A i \in DOMAIN Tail(s) : Tail(s)[i] = s[i + 1] /\ i + 1 \in DOMAIN s
  BY HeadTailProperties

\* A sequence with one more element.
LEMMA Appended ==
  ASSUME NEW S, NEW s \in Seq(S), NEW e \in S
  PROVE  /\ Append(s, e) \in Seq(S) /\ Len(s) \in Nat
         /\ DOMAIN s = 1 .. Len(s) /\ DOMAIN Append(s, e) = 1 .. (Len(s) + 1)
         /\ Append(s, e)[Len(s) + 1] = e
         /\ \A i \in DOMAIN s : Append(s, e)[i] = s[i]
  <1>1. Append(s, e) \in Seq(S) /\ Len(Append(s, e)) = Len(s) + 1
    BY AppendProperties
  <1>2. QED
    BY <1>1, AppendProperties

LEMMA TypesKept == TypeOK /\ RouteInv /\ [Next]_vars => TypeOK'
  <1> SUFFICES ASSUME TypeOK, RouteInv, [Next]_vars PROVE TypeOK'
    OBVIOUS
  <1> USE DEF TypeOK, PCs
  <1>1. ASSUME NEW c \in Calls, Receive(c) PROVE TypeOK'
    BY <1>1, CallsAssumption DEF Receive, Arrive
  <1>2. ASSUME NEW c \in Calls, NEW from, NEW to \in PCs, Continue(c, from, to),
               UNCHANGED queue
        PROVE  TypeOK'
    BY <1>2 DEF Continue
  <1>3. ASSUME NEW c \in Calls, NEW from, NEW r \in Replies, NEW to \in PCs,
               Answer(c, from, r, to), queue' \in Seq(Calls)
        PROVE  TypeOK'
    BY <1>3 DEF Answer
  <1>4. ASSUME NEW c \in Calls, NEW from, NEW r \in Replies, Resolve(c, from, r)
        PROVE  TypeOK'
    <2>1. queue' \in Seq(Calls)
      BY <1>4, TailIs DEF Resolve, AtHead
    <2>2. QED
      BY <1>4, <2>1, <1>3 DEF Resolve
  <1>5. ASSUME NEW c \in Calls, ServerStep(c) PROVE TypeOK'
    <2>1. CASE RouteToError(c)
      <3>1. HttpError(TsOp(req[c])) \in Replies
        BY <2>1, ReplyTyped DEF RouteToError, Answer, RouteInv
      <3>2. QED
        BY <2>1, <3>1, <1>3 DEF RouteToError
    <2>2. CASE Respond(c) \/ AskNode(c)
      BY <2>2, <1>2 DEF Respond, Depart, AskNode
    <2>3. CASE RefuseUnreadable(c)
      BY <2>3, <1>4, ReplyTyped DEF RefuseUnreadable
    <2>4. CASE Sign(c)
      BY <2>4, <1>4, ReplyTyped DEF Sign
    <2>5. CASE Report(c)
      BY <2>5, <1>4, ReplyTyped DEF Report
    <2>6. QED
      BY <1>5, <2>1, <2>2, <2>3, <2>4, <2>5 DEF ServerStep
  <1>6. ASSUME NEW c \in Calls, NodeStep(c) PROVE TypeOK'
    <2>1. CASE DecryptToKey(c)
      <3>1. StrictParseKey(Decrypt[TsText(req[c])]) \in Stored
        BY <2>1, DecryptedTyped DEF DecryptToKey, RouteInv
      <3>2. queue' \in Seq(Calls)
        BY <2>1, TailIs DEF DecryptToKey, AtHead
      <3>3. QED
        BY <2>1, <3>1, <3>2, ReplyTyped DEF DecryptToKey, StoreKey
    <2>2. CASE DecryptToInvalidKey(c) \/ DecryptFails(c)
      BY <2>2, <1>4, ReplyTyped DEF DecryptToInvalidKey, DecryptFails
    <2>3. CASE NodeAborts(c)
      BY <2>3, <1>2 DEF NodeAborts
    <2>4. QED
      BY <1>6, <2>1, <2>2, <2>3 DEF NodeStep
  <1>7. CASE Crash
    BY <1>7, CallsAssumption DEF Crash, CallsCrash, Stored
  <1>8. CASE UNCHANGED vars
    BY <1>8 DEF vars, callVars
  <1>9. QED
    BY <1>1, <1>5, <1>6, <1>7, <1>8 DEF Next

\* The head of the chain settles: nobody else was running, and the chain goes
\* on with the next call in its "queued" state.
LEMMA RouteAndHeadKept == TsInv /\ [Next]_vars => RouteInv' /\ HeadInv'
  <1> SUFFICES ASSUME TsInv, [Next]_vars PROVE RouteInv' /\ HeadInv'
    OBVIOUS
  <1> USE DEF TsInv, TypeOK, RouteInv, HeadInv
  <1>1. ASSUME NEW c \in Calls, Receive(c) PROVE RouteInv' /\ HeadInv'
    <2>1. queue # <<>> => queue' # <<>> /\ Head(queue') = Head(queue)
      <3>1. CASE queue' = queue
        BY <3>1
      <3>2. CASE queue' = Append(queue, c)
        BY <3>2, AppendProperties
      <3>3. QED
        BY <1>1, <3>1, <3>2 DEF Receive
    <2>2. HeadInv'
      BY <1>1, <2>1 DEF Receive, Arrive, AtHead
    <2>3. RouteInv'
      BY <1>1, OpTyped, CallsAssumption DEF Receive, Arrive
    <2>4. QED
      BY <2>2, <2>3
  <1>2. ASSUME NEW c \in Calls, AtHead(c), NEW to \in {"respond"},
               pc' = [pc EXCEPT ![c] = to], req' = req, queue' = Tail(queue)
        PROVE  RouteInv' /\ HeadInv'
    BY <1>2 DEF AtHead
  <1>3. ASSUME NEW c \in Calls, ServerStep(c) PROVE RouteInv' /\ HeadInv'
    <2>1. CASE RouteToError(c) \/ Respond(c)
      BY <2>1 DEF RouteToError, Respond, Depart, Continue, Answer, AtHead
    <2>2. CASE AskNode(c)
      BY <2>2 DEF AskNode, Continue, AtHead
    <2>3. CASE RefuseUnreadable(c) \/ Sign(c) \/ Report(c)
      BY <2>3, <1>2 DEF RefuseUnreadable, Sign, Report, Resolve, Answer
    <2>4. QED
      BY <1>3, <2>1, <2>2, <2>3 DEF ServerStep
  <1>4. ASSUME NEW c \in Calls, NodeStep(c) PROVE RouteInv' /\ HeadInv'
    <2>1. CASE DecryptToKey(c) \/ DecryptToInvalidKey(c) \/ DecryptFails(c)
      BY <2>1, <1>2
      DEF DecryptToKey, DecryptToInvalidKey, DecryptFails, Resolve, Answer
    <2>2. CASE NodeAborts(c)
      BY <2>2 DEF NodeAborts, Continue, AtHead
    <2>3. QED
      BY <1>4, <2>1, <2>2 DEF NodeStep
  <1>5. CASE Crash
    BY <1>5 DEF Crash, CallsCrash, UnderWay, Ended, PCs
  <1>6. CASE UNCHANGED vars
    BY <1>6 DEF vars, callVars, AtHead
  <1>7. QED
    BY <1>1, <1>3, <1>4, <1>5, <1>6 DEF Next

-----------------------------------------------------------------------------
(* The order of the chain.                                                  *)

\* An arrival keeps the order so far, and comes after everyone.
LEMMA ArrivalOrder ==
  ASSUME NEW s \in Seq(Calls), NEW e \in Calls
  PROVE  /\ Arrived(Append(s, e), e)
         /\ \A c : Arrived(s, c) =>
              Arrived(Append(s, e), c) /\ Precedes(Append(s, e), c, e)
         /\ \A c, d : Precedes(s, c, d) => Precedes(Append(s, e), c, d)
  <1> DEFINE t == Append(s, e)
  <1>1. /\ Len(s) \in Nat /\ t[Len(s) + 1] = e
        /\ DOMAIN s = 1 .. Len(s) /\ DOMAIN t = 1 .. (Len(s) + 1)
        /\ \A i \in DOMAIN s : t[i] = s[i]
    BY Appended
  <1> HIDE DEF t
  <1>2. Arrived(t, e) /\ \A c : Arrived(s, c) => Arrived(t, c) /\ Precedes(t, c, e)
    BY <1>1 DEF Arrived, Precedes
  <1>3. \A c, d : Precedes(s, c, d) => Precedes(t, c, d)
    BY <1>1 DEF Precedes
  <1>4. QED
    BY <1>2, <1>3 DEF t

LEMMA OrderKept == TsInv /\ [Next]_vars => OrderInv'
  <1> SUFFICES ASSUME TsInv, [Next]_vars PROVE OrderInv'
    OBVIOUS
  <1>1. TypeOK /\ OrderInv
    BY DEF TsInv
  <1>2. ASSUME NEW c \in Calls, Receive(c) PROVE OrderInv'
    <2>1. arrivals' = Append(arrivals, c) /\ history' = history
      BY <1>2 DEF Receive, Arrive
    <2>2. /\ Arrived(arrivals', c)
          /\ \A d : Arrived(arrivals, d) => Arrived(arrivals', d) /\ Precedes(arrivals', d, c)
          /\ \A d, e : Precedes(arrivals, d, e) => Precedes(arrivals', d, e)
      BY <1>1, <2>1, ArrivalOrder DEF TypeOK
    <2>3. CASE queue' = queue
      BY <1>1, <2>1, <2>2, <2>3 DEF OrderInv
    <2>4. CASE queue' = Append(queue, c)
      <3>1. /\ Len(queue) \in Nat /\ DOMAIN queue = 1 .. Len(queue)
            /\ DOMAIN queue' = 1 .. (Len(queue) + 1)
            /\ queue'[Len(queue) + 1] = c
            /\ \A i \in DOMAIN queue : queue'[i] = queue[i]
        BY <1>1, <2>4, Appended DEF TypeOK
      <3>2. \A i \in DOMAIN queue' :
              i \in DOMAIN queue \/ (i = Len(queue) + 1 /\ queue'[i] = c)
        BY <3>1
      <3>3. \A i \in DOMAIN queue' : Arrived(arrivals', queue'[i])
        BY <1>1, <2>2, <3>1, <3>2 DEF OrderInv
      <3>4. \A i, j \in DOMAIN queue' : i < j => Precedes(arrivals', queue'[i], queue'[j])
        BY <1>1, <2>2, <3>1, <3>2 DEF OrderInv
      <3>5. \A i \in DOMAIN history', j \in DOMAIN queue' :
              history'[i].by # NoCall => Precedes(arrivals', history'[i].by, queue'[j])
        BY <1>1, <2>1, <2>2, <3>1, <3>2 DEF OrderInv
      <3>6. QED
        BY <1>1, <2>1, <2>2, <3>3, <3>4, <3>5 DEF OrderInv
    <2>5. QED
      BY <1>2, <2>3, <2>4 DEF Receive
  <1>3. ASSUME NEW c \in Calls, AtHead(c), arrivals' = arrivals,
               history' = history, queue' = Tail(queue)
        PROVE  OrderInv'
    <2>1. /\ DOMAIN queue' = 1 .. (Len(queue) - 1) /\ Len(queue) \in Nat
          /\ \A i \in DOMAIN queue' : queue'[i] = queue[i + 1] /\ i + 1 \in DOMAIN queue
      BY <1>1, <1>3, TailIs DEF TypeOK, AtHead
    <2>2. QED
      BY <1>1, <1>3, <2>1 DEF OrderInv
  <1>4. ASSUME arrivals' = arrivals, history' = history, queue' = queue
        PROVE  OrderInv'
    BY <1>1, <1>4 DEF OrderInv
  <1>5. ASSUME NEW c \in Calls, DecryptToKey(c) PROVE OrderInv'
    <2>1. /\ AtHead(c) /\ arrivals' = arrivals /\ queue' = Tail(queue)
          /\ history' = Append(history, [key |-> key', by |-> c])
      BY <1>5 DEF DecryptToKey, StoreKey
    <2>2. /\ DOMAIN queue' = 1 .. (Len(queue) - 1) /\ Len(queue) \in Nat \ {0}
          /\ queue[1] = c /\ DOMAIN queue = 1 .. Len(queue)
          /\ \A i \in DOMAIN queue' : queue'[i] = queue[i + 1] /\ i + 1 \in DOMAIN queue
      BY <1>1, <2>1, TailIs DEF TypeOK, AtHead
    <2>3. /\ Len(history) \in Nat /\ DOMAIN history = 1 .. Len(history)
          /\ DOMAIN history' = 1 .. (Len(history) + 1)
          /\ history'[Len(history) + 1] = [key |-> key', by |-> c]
          /\ \A i \in DOMAIN history : history'[i] = history[i]
      <3>1. key' \in Stored
        BY <1>1, TypesKept DEF TsInv, TypeOK
      <3>2. QED
        BY <1>1, <2>1, <3>1, Appended DEF TypeOK
    <2>4. \A i \in DOMAIN history' :
            \/ i \in DOMAIN history /\ history'[i] = history[i]
            \/ i = Len(history) + 1 /\ history'[i].by = c
      BY <2>3
    <2>5. \A i \in DOMAIN queue : i # 1 => Precedes(arrivals, c, queue[i])
      BY <1>1, <2>2 DEF OrderInv
    <2>6. Arrived(arrivals, c) /\ \A i \in DOMAIN history :
                          history[i].by # NoCall => Precedes(arrivals, history[i].by, c)
      BY <1>1, <2>2 DEF OrderInv
    <2>7. /\ \A i \in DOMAIN queue' : Arrived(arrivals', queue'[i])
          /\ \A i, j \in DOMAIN queue' : i < j => Precedes(arrivals', queue'[i], queue'[j])
      BY <1>1, <2>1, <2>2 DEF OrderInv
    <2>8. \A i \in DOMAIN history' :
            history'[i].by # NoCall => Arrived(arrivals', history'[i].by)
      BY <1>1, <2>1, <2>4, <2>6 DEF OrderInv
    <2>9. \A i \in DOMAIN history', j \in DOMAIN queue' :
            history'[i].by # NoCall => Precedes(arrivals', history'[i].by, queue'[j])
      BY <1>1, <2>1, <2>2, <2>4, <2>5 DEF OrderInv
    <2>10. \A i, j \in DOMAIN history' :
             i < j /\ history'[i].by # NoCall /\ history'[j].by # NoCall =>
               Precedes(arrivals', history'[i].by, history'[j].by)
      BY <1>1, <2>1, <2>3, <2>4, <2>6 DEF OrderInv
    <2>11. QED
      BY <2>7, <2>8, <2>9, <2>10 DEF OrderInv
  <1>6. CASE Crash
    <2>1. /\ queue' = <<>> /\ arrivals' = arrivals
          /\ history' = Append(history, [key |-> NoKey, by |-> NoCall])
      BY <1>6 DEF Crash, CallsCrash
    <2>2. \A i \in DOMAIN history' :
            history'[i].by # NoCall => i \in DOMAIN history /\ history'[i] = history[i]
      BY <1>1, <2>1, Appended DEF TypeOK, Stored
    <2>3. QED
      BY <1>1, <2>1, <2>2 DEF OrderInv
  <1>7. ASSUME NEW c \in Calls, ServerStep(c) PROVE OrderInv'
    <2>1. CASE RouteToError(c) \/ Respond(c) \/ AskNode(c)
      BY <2>1, <1>4 DEF RouteToError, Respond, Depart, AskNode, Continue, Answer
    <2>2. CASE RefuseUnreadable(c) \/ Sign(c) \/ Report(c)
      BY <2>2, <1>3 DEF RefuseUnreadable, Sign, Report, Resolve, Answer
    <2>3. QED
      BY <1>7, <2>1, <2>2 DEF ServerStep
  <1>8. ASSUME NEW c \in Calls, NodeStep(c) PROVE OrderInv'
    <2>1. CASE DecryptToInvalidKey(c) \/ DecryptFails(c)
      BY <2>1, <1>3 DEF DecryptToInvalidKey, DecryptFails, Resolve, Answer
    <2>2. CASE NodeAborts(c)
      BY <2>2, <1>4 DEF NodeAborts, Continue
    <2>3. QED
      BY <1>8, <2>1, <2>2, <1>5 DEF NodeStep
  <1>9. CASE UNCHANGED vars
    BY <1>9, <1>4 DEF vars, callVars
  <1>10. QED
    BY <1>2, <1>6, <1>7, <1>8, <1>9 DEF Next

\* In every behaviour only the head of the promise chain runs, and the chain
\* is in the order of arrival, behind every call that has stored a key.
THEOREM TsInvariant == Spec => []TsInv
  <1>1. TsInv /\ [Next]_vars => TsInv'
    BY TypesKept, RouteAndHeadKept, OrderKept DEF TsInv
  <1>2. QED
    BY TsInvInit, <1>1, PTL DEF Spec

\* Keys are stored in the order their updates arrived, whatever the number of
\* calls and however long the node takes for each.
THEOREM TsArrivalOrder == Spec => []UpdatesInArrivalOrder
  <1>1. TsInv => UpdatesInArrivalOrder
    BY DEF TsInv, OrderInv, UpdatesInArrivalOrder, Precedes
  <1>2. QED
    BY <1>1, TsInvariant, PTL

\* Once the node has left a response unfinished, no update changes the key and
\* no queued call settles before the process is restarted.
THEOREM TsWedged == Spec => WedgedUntilRestart
  <1> DEFINE Waits == /\ key' = key \/ key' = NoKey
                      /\ \A c \in Calls : pc[c] = "queued" => pc'[c] \in {"queued", "lost"}
  <1>1. ASSUME TsInv, [Next]_vars, NEW d \in Calls, pc[d] = "wedged" PROVE Waits
    <2> USE DEF TypeOK
    <2>1. TypeOK /\ AtHead(d)
      BY <1>1 DEF TsInv, HeadInv
    <2>2. \A c \in Calls : AtHead(c) => pc[c] = "wedged"
      BY <1>1, <2>1 DEF AtHead
    <2>3. ASSUME NEW c \in Calls, Receive(c) PROVE Waits
      BY <2>1, <2>3 DEF Receive, Arrive
    <2>4. ASSUME NEW c \in Calls, ServerStep(c) PROVE Waits
      BY <2>1, <2>2, <2>4 DEF ServerStep, RouteToError, Respond, Depart, AskNode,
         RefuseUnreadable, Sign, Report, Resolve, Continue, Answer
    <2>5. ASSUME NEW c \in Calls, NodeStep(c) PROVE Waits
      BY <2>1, <2>2, <2>5 DEF NodeStep, DecryptToKey, DecryptToInvalidKey,
         DecryptFails, NodeAborts, Resolve, Continue, Answer
    <2>6. CASE Crash
      BY <2>1, <2>6 DEF Crash, CallsCrash, UnderWay, Ended
    <2>7. CASE UNCHANGED vars
      BY <2>1, <2>7 DEF vars, callVars
    <2>8. QED
      BY <1>1, <2>3, <2>4, <2>5, <2>6, <2>7 DEF Next
  <1>2. TsInv /\ [Next]_vars => [(\E d \in Calls : pc[d] = "wedged") => Waits]_vars
    BY <1>1
  <1>3. QED
    BY <1>2, TsInvariant, PTL DEF Spec, WedgedUntilRestart

-----------------------------------------------------------------------------
(* The refinement.  A call takes effect when its reply is decided.          *)

\* The instance of KeyRegister speaks of the same requests and replies.
LEMMA SameProtocol ==
  /\ Register!Requests = Requests
  /\ Register!NoKey = NoKey /\ Register!NoReply = NoReply
  /\ Register!Refused = Refused /\ Register!Updated = Updated
  /\ Register!HttpErrors = HttpErrors
  /\ \A code : Register!HttpError(code) = HttpError(code)
  /\ \A k, t : Register!SignReply(k, t) = SignReply(k, t)
  /\ \A k : Register!StateReport(k) = StateReport(k)
  BY DEF Register!Requests, Requests, Register!Paths, Paths, Register!Bodies,
     Bodies, Register!Forms, Forms, Register!NoKey, NoKey, Register!NoReply,
     NoReply, Register!Refused, Refused, Register!Updated, Updated,
     Register!HttpErrors, HttpErrors, Register!HttpError, HttpError,
     Register!SignReply, SignReply, Register!StateReport, StateReport,
     Register!Reply, Reply, Register!Empty, Empty, Register!Unreadable, Unreadable

LEMMA RefinesInit == Init => Register!Init
  <1> SUFFICES ASSUME Init PROVE Register!Init
    OBVIOUS
  <1>1. \A c \in Calls : AbsPhase(c) = "idle" /\ AbsRes(c) = NoReply
    BY DEF Init, CallsInit, AbsPhase, AbsRes, Ended
  <1>2. req \in [Calls -> Requests] /\ key = NoKey
    BY NoRequestTyped DEF Init, CallsInit
  <1>3. QED
    BY <1>1, <1>2, SameProtocol DEF Register!Init

\* A step that changes neither the key nor what a call looks like from outside.
LEMMA Stutter ==
  ASSUME key' = key, req' = req,
         \A d \in Calls : AbsPhase(d)' = AbsPhase(d) /\ AbsRes(d)' = AbsRes(d)
  PROVE  UNCHANGED Register!vars
  BY DEF Register!vars

\* A step that makes call c take effect.
LEMMA TakesEffect ==
  ASSUME NEW c \in Calls, NEW k, NEW r, key' = k, req' = req,
         AbsPhase(c) = "open", AbsPhase(c)' = "applied", AbsRes(c)' = r,
         \A d \in Calls \ {c} :
           AbsPhase(d)' = AbsPhase(d) /\ AbsRes(d)' = AbsRes(d)
  PROVE  Register!Apply(c, k, r)
  BY DEF Register!Apply

\* What a step of call c leaves alone in the other calls.
LEMMA OthersUntouched ==
  ASSUME TypeOK, NEW c \in Calls, NEW d \in Calls \ {c},
         Receive(c) \/ ServerStep(c) \/ NodeStep(c)
  PROVE  AbsPhase(d)' = AbsPhase(d) /\ AbsRes(d)' = AbsRes(d)
  <1>1. pc'[d] = pc[d] /\ res'[d] = res[d]
    BY DEF Receive, Arrive, ServerStep, RouteToError, Respond, Depart,
       RefuseUnreadable, AskNode, Sign, Report, NodeStep, DecryptToKey,
       DecryptToInvalidKey, DecryptFails, NodeAborts, Resolve, Continue, Answer, TypeOK
  <1>2. QED
    BY <1>1 DEF AbsPhase, AbsRes

\* The steps of call c, one by one: each is a step of the register or none.
LEMMA RefinesCallStep ==
  ASSUME TsInv, NEW c \in Calls, Receive(c) \/ ServerStep(c) \/ NodeStep(c)
  PROVE  Register!Next \/ UNCHANGED Register!vars
  <1> USE DEF TsInv
  <1>1. \A d \in Calls \ {c} : AbsPhase(d)' = AbsPhase(d) /\ AbsRes(d)' = AbsRes(d)
    BY OthersUntouched
  <1>2. ASSUME NEW k, NEW r, key' = k, req' = req,
               AbsPhase(c) = "open", AbsPhase(c)' = "applied", AbsRes(c)' = r
        PROVE  Register!Apply(c, k, r)
    BY <1>1, <1>2, TakesEffect
  <1>3. ASSUME NEW from, NEW to, Continue(c, from, to),
               {from, to} \subseteq {"queued", "decrypt", "wedged"}
        PROVE  UNCHANGED Register!vars
    <2>1. key' = key /\ req' = req /\ AbsPhase(c)' = AbsPhase(c) /\ AbsRes(c)' = AbsRes(c)
      BY <1>3 DEF Continue, TypeOK, AbsPhase, AbsRes, Ended
    <2>2. QED
      BY <2>1, <1>1, Stutter
  <1>4. CASE Receive(c)
    <2>1. /\ AbsPhase(c) = "idle" /\ AbsPhase(c)' = "open"
          /\ AbsRes(c)' = AbsRes(c) /\ key' = key
          /\ \E rq \in Requests : req' = [req EXCEPT ![c] = rq]
      BY <1>4, CallsAssumption DEF Receive, Arrive, TypeOK, AbsPhase, AbsRes, Ended
    <2>2. Register!Open(c)
      BY <2>1, <1>1, SameProtocol DEF Register!Open
    <2>3. QED
      BY <2>2 DEF Register!Next
  <1>5. CASE RouteToError(c)
    <2>1. /\ key' = key /\ req' = req /\ TsOp(req[c]) \in HttpErrors
          /\ AbsPhase(c) = "open" /\ AbsPhase(c)' = "applied"
          /\ AbsRes(c)' = HttpError(TsOp(req[c]))
      BY <1>5 DEF RouteToError, RouteInv, Answer, TypeOK, AbsPhase, AbsRes, Ended
    <2>2. Register!Apply(c, key, HttpError(TsOp(req[c])))
      BY <2>1, <1>2
    <2>3. Register!Reject(c)
      BY <2>1, <2>2, SameProtocol DEF Register!Reject
    <2>4. QED
      BY <2>3 DEF Register!Next
  <1>6. CASE AskNode(c) \/ NodeAborts(c)
    BY <1>6, <1>3 DEF AskNode, NodeAborts
  <1>7. CASE RefuseUnreadable(c) \/ DecryptToInvalidKey(c) \/ DecryptFails(c)
    <2>1. /\ key' = key /\ req' = req /\ TsOp(req[c]) = "UPDATE"
          /\ AbsPhase(c) = "open" /\ AbsPhase(c)' = "applied"
          /\ AbsRes(c)' = Refused
      BY <1>7 DEF RefuseUnreadable, DecryptToInvalidKey, DecryptFails, RouteInv, Resolve, Answer, TypeOK, AbsPhase, AbsRes, Ended
    <2>2. Register!Apply(c, key, Refused)
      BY <2>1, <1>2
    <2>3. Register!RefuseUpdate(c)
      BY <2>1, <2>2, SameProtocol DEF Register!RefuseUpdate
    <2>4. QED
      BY <2>3 DEF Register!Next
  <1>8. CASE DecryptToKey(c)
    <2> DEFINE k == StrictParseKey(Decrypt[TsText(req[c])])
    <2>1. /\ key' = k /\ req' = req /\ k # NoKey
          /\ TsOp(req[c]) = "UPDATE" /\ TsText(req[c]) \in Messages
      BY <1>8, DecryptedTyped DEF DecryptToKey, StoreKey, TypeOK, RouteInv
    <2>2. AbsPhase(c) = "open" /\ AbsPhase(c)' = "applied" /\ AbsRes(c)' = Updated
      BY <1>8 DEF DecryptToKey, TypeOK, AbsPhase, AbsRes, Ended
    <2>3. Register!Apply(c, k, Updated)
      BY <2>1, <2>2, <1>1, TakesEffect
    <2>4. Register!Update(c)
      BY <2>1, <2>3, SameProtocol DEF Register!Update
    <2>5. QED
      BY <2>4 DEF Register!Next
  <1>9. CASE Sign(c)
    <2>1. /\ key' = key /\ req' = req /\ TsOp(req[c]) = "SIGN"
          /\ AbsPhase(c) = "open" /\ AbsPhase(c)' = "applied"
          /\ AbsRes(c)' = SignReply(key, TsText(req[c]))
      BY <1>9 DEF Sign, Resolve, Answer, TypeOK, AbsPhase, AbsRes, Ended
    <2>2. Register!Apply(c, key, SignReply(key, TsText(req[c])))
      BY <2>1, <1>2
    <2>3. Register!Sign(c)
      BY <2>1, <2>2, SameProtocol DEF Register!Sign
    <2>4. QED
      BY <2>3 DEF Register!Next
  <1>10. CASE Report(c)
    <2>1. /\ key' = key /\ req' = req /\ TsOp(req[c]) = "STATE"
          /\ AbsPhase(c) = "open" /\ AbsPhase(c)' = "applied"
          /\ AbsRes(c)' = StateReport(key)
      BY <1>10 DEF Report, Resolve, Answer, TypeOK, AbsPhase, AbsRes, Ended
    <2>2. Register!Apply(c, key, StateReport(key))
      BY <2>1, <1>2
    <2>3. Register!Report(c)
      BY <2>1, <2>2, SameProtocol DEF Register!Report
    <2>4. QED
      BY <2>3 DEF Register!Next
  <1>11. CASE Respond(c)
    <2>1. /\ key' = key /\ req' = req /\ AbsRes(c)' = AbsRes(c)
          /\ AbsPhase(c) = "applied" /\ AbsPhase(c)' = "closed"
      BY <1>11 DEF Respond, Depart, Continue, TypeOK, AbsPhase, AbsRes, Ended
    <2>2. Register!Close(c)
      BY <2>1, <1>1 DEF Register!Close
    <2>3. QED
      BY <2>2 DEF Register!Next
  <1>12. QED
    BY <1>4, <1>5, <1>6, <1>7, <1>8, <1>9, <1>10, <1>11 DEF ServerStep, NodeStep

LEMMA RefinesCrash == TypeOK /\ Crash => Register!Restart
  <1> SUFFICES ASSUME TypeOK, Crash PROVE Register!Restart
    OBVIOUS
  <1>1. /\ key' = NoKey /\ req' = req /\ res' = res
        /\ \A c \in Calls : pc'[c] = IF pc[c] \in Ended THEN pc[c] ELSE "lost"
    BY DEF Crash, CallsCrash, UnderWay
  <1>2. \A c \in Calls :
          /\ AbsPhase(c)' = IF AbsPhase(c) \in {"open", "applied"}
                             THEN "lost" ELSE AbsPhase(c)
          /\ AbsRes(c)' = IF AbsPhase(c) \in {"open", "applied"}
                           THEN NoReply ELSE AbsRes(c)
    BY <1>1 DEF AbsPhase, AbsRes, Ended, TypeOK, PCs
  <1>3. QED
    BY <1>1, <1>2, SameProtocol DEF Register!Restart

LEMMA RefinesNext == TsInv /\ [Next]_vars => [Register!Next]_(Register!vars)
  <1> SUFFICES ASSUME TsInv, [Next]_vars
               PROVE  Register!Next \/ UNCHANGED Register!vars
    OBVIOUS
  <1>1. CASE \E c \in Calls : Receive(c) \/ ServerStep(c) \/ NodeStep(c)
    BY <1>1, RefinesCallStep
  <1>2. CASE Crash
    BY <1>2, RefinesCrash DEF Register!Next, TsInv
  <1>3. CASE UNCHANGED vars
    <2>1. key' = key /\ req' = req /\ res' = res /\ pc' = pc
      BY <1>3 DEF vars, callVars
    <2>2. \A c \in Calls : AbsPhase(c)' = AbsPhase(c) /\ AbsRes(c)' = AbsRes(c)
      BY <2>1 DEF AbsPhase, AbsRes
    <2>3. QED
      BY <2>1, <2>2, Stutter
  <1>4. QED
    BY <1>1, <1>2, <1>3 DEF Next

\* The calls of the TypeScript server are linearizable, restarts included:
\* whatever their number, they behave as one atomic register.
THEOREM TsImplementsRegister == Spec => ImplementsRegister
  BY TsInvariant, RefinesInit, RefinesNext, PTL
  DEF Spec, ImplementsRegister, Register!Spec
=============================================================================
