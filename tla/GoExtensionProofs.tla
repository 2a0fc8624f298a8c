-------------------------- MODULE GoExtensionProofs --------------------------
(***************************************************************************)
(* Proofs about the Go extension, for any number of concurrent calls.       *)
(***************************************************************************)
EXTENDS GoExtension, TLAPS, SequenceTheorems

-----------------------------------------------------------------------------
(* The values exchanged are well typed.                                     *)

\* utils.go parseSecp256k1PrivateKey yields a scalar of 1 .. N-1 or an error.
LEMMA ParseTyped == \A p \in Plaintexts : GoParseKey(p) \in Stored
  <1>1. SUFFICES ASSUME NEW p \in Plaintexts PROVE GoParseKey(p) \in Stored
    OBVIOUS
  <1>2. p.val \in Nat /\ Order \in Nat /\ Order > 1
    BY ProtocolAssumption
  <1>3. p.val % Order \in 0 .. (Order - 1)
    BY <1>2, SMT
  <1>4. QED
    BY <1>2, <1>3 DEF GoParseKey, Stored, Keys, NoKey

\* A readable message is a payload, since the code refuses the others first.
LEMMA TextTyped ==
  \A rq \in Requests : GoText(rq) \in Messages \cup {Unreadable}
  BY DEF GoText, Requests

LEMMA ReplyTyped ==
  /\ NoReply \in Replies /\ Refused \in Replies /\ Updated \in Replies
  /\ \A code \in HttpErrors : HttpError(code) \in Replies
  /\ \A rq \in Requests, k \in Stored : ReadReply(rq, k) \in Replies
  BY TextTyped DEF NoReply, Refused, Updated, HttpError, ReadReply, SignReply, StateReport,
     Reply, Replies, HttpErrors, Contents, Stored, NoKey

LEMMA NoRequestTyped == NoRequest \in Requests
  BY ProtocolAssumption
  DEF NoRequest, Requests, Paths, Bodies, Forms

LEMMA KeyTyped == NoKey \in Stored
  BY DEF Stored

-----------------------------------------------------------------------------
(* The inductive invariant.                                                 *)

\* A call is only where its route leads, and carries what it needs there.
RouteInv ==
  \A c \in Calls :
    /\ pc[c] \in {"decrypt", "lock", "store", "unlock"} =>
         GoOp(req[c]) = "UPDATE" /\ GoText(req[c]) \in Messages
    /\ pc[c] \in {"lock", "store"} =>
         local[c] = GoParseKey(Decrypt[GoText(req[c])]) /\ local[c] # NoKey
    /\ pc[c] \in {"rlock", "read", "runlock"} =>
         GoOp(req[c]) \in {"SIGN", "STATE"}

\* The mutex is held by exactly the calls between their lock and unlock.
MutexInv ==
  /\ \A c \in Calls : writer = c <=> pc[c] \in {"store", "unlock"}
  /\ \A c \in Calls : c \in readers <=> pc[c] \in {"read", "runlock"}
  /\ writer # NoCall => readers = {}

\* The register holds the last value of its history, and no call arrived
\* later than now.
HistoryInv ==
  /\ history # <<>>
  /\ history[Len(history)].key = key
  /\ \A c \in Calls : since[c] <= Len(history)
  /\ \A c \in Calls : pc[c] # "idle" => since[c] > 0

\* What a reader copied, and what it replies, was stored during its call.
ReadInv ==
  \A c \in Calls :
    /\ pc[c] = "runlock" => local[c] \in HeldSince(c)
    /\ pc[c] \in {"respond", "closed"} /\ res[c].signer # NoKey =>
         res[c].signer \in HeldSince(c)
    /\ pc[c] \in {"respond", "closed"} /\ req[c].path = "state" =>
         \E k \in HeldSince(c) : res[c].hasKey = (k # NoKey)

\* A call has stored nothing before its Store step, one key after it, and
\* acknowledges exactly that.
StoreInv ==
  \A c \in Calls :
    /\ pc[c] \in {"idle", "received", "decrypt", "lock", "store",
                  "rlock", "read", "runlock"} => Stores(c) = {}
    /\ pc[c] = "unlock" => \E i \in DOMAIN history : i > since[c] /\ Stores(c) = {i}
    /\ pc[c] \in {"respond", "closed"} =>
         IF req[c].path = "action" /\ req[c].opCommand = "UPDATE" /\ res[c] = Updated
         THEN \E i \in DOMAIN history : i > since[c] /\ Stores(c) = {i}
         ELSE Stores(c) = {}

-----------------------------------------------------------------------------
(* Type correctness.                                                        *)

LEMMA InitTypeOK == Init => TypeOK
  BY NoRequestTyped, ReplyTyped, KeyTyped
  DEF Init, CallsInit, TypeOK, PCs

LEMMA NextTypeOK == TypeOK /\ RouteInv /\ [Next]_vars => TypeOK'
  <1> SUFFICES ASSUME TypeOK, RouteInv, [Next]_vars PROVE TypeOK'
    OBVIOUS
  <1> USE DEF TypeOK
  <1>1. ASSUME NEW c \in Calls, Receive(c) PROVE TypeOK'
    BY <1>1, CallsAssumption
    DEF Receive, Arrive, mutexVars, PCs
  <1>2. ASSUME NEW c \in Calls, NEW from, NEW to \in PCs, Continue(c, from, to),
               writer' \in Calls \cup {NoCall}, readers' \subseteq Calls,
               local' \in [Calls -> Stored]
        PROVE TypeOK'
    BY <1>2 DEF Continue
  <1>3. ASSUME NEW c \in Calls, NEW from, NEW r \in Replies,
               Answer(c, from, r, "respond"),
               writer' \in Calls \cup {NoCall}, readers' \subseteq Calls,
               local' \in [Calls -> Stored]
        PROVE TypeOK'
    BY <1>3 DEF Answer, PCs
  <1>4. ASSUME NEW c \in Calls, ServerStep(c) PROVE TypeOK'
    <2>1. CASE RouteToError(c)
      BY <2>1, <1>3, ReplyTyped DEF RouteToError, mutexVars
    <2>2. CASE RefuseEmptyUpdate(c)
      BY <2>2, <1>3, ReplyTyped DEF RefuseEmptyUpdate, mutexVars
    <2>3. CASE BeginUpdate(c)
      BY <2>3, <1>2 DEF BeginUpdate, mutexVars, PCs
    <2>4. CASE BeginRead(c)
      BY <2>4, <1>2 DEF BeginRead, mutexVars, PCs
    <2>5. CASE Lock(c)
      BY <2>5, <1>2 DEF Lock, PCs
    <2>6. CASE Store(c)
      BY <2>6, CallsAssumption DEF Store, StoreKey, mutexVars, PCs
    <2>7. CASE Unlock(c)
      BY <2>7, <1>3, ReplyTyped DEF Unlock
    <2>8. CASE RLock(c)
      BY <2>8, <1>2 DEF RLock, PCs
    <2>9. CASE Read(c)
      BY <2>9, <1>2 DEF Read, mutexVars, PCs
    <2>10. CASE RUnlock(c)
      BY <2>10, <1>3, ReplyTyped DEF RUnlock
    <2>11. CASE Respond(c)
      BY <2>11, <1>2 DEF Respond, Depart, mutexVars, PCs
    <2>12. QED
      BY <1>4, <2>1, <2>2, <2>3, <2>4, <2>5, <2>6, <2>7, <2>8, <2>9, <2>10,
         <2>11 DEF ServerStep
  <1>5. ASSUME NEW c \in Calls, NodeStep(c) PROVE TypeOK'
    <2>1. CASE DecryptToKey(c)
      <3>1. GoParseKey(Decrypt[GoText(req[c])]) \in Stored
        BY <2>1, ParseTyped, ProtocolAssumption
        DEF DecryptToKey, Continue, RouteInv
      <3>2. QED
        BY <2>1, <3>1, <1>2 DEF DecryptToKey, mutexVars, PCs
    <2>2. CASE DecryptToInvalidKey(c)
      BY <2>2, <1>3, ReplyTyped DEF DecryptToInvalidKey, mutexVars
    <2>3. CASE DecryptFails(c)
      BY <2>3, <1>3, ReplyTyped DEF DecryptFails, mutexVars
    <2>4. QED
      BY <1>5, <2>1, <2>2, <2>3 DEF NodeStep
  <1>6. CASE Crash
    BY <1>6, CallsAssumption, KeyTyped DEF Crash, CallsCrash, PCs
  <1>7. CASE UNCHANGED vars
    BY <1>7 DEF vars, callVars
  <1>8. QED
    BY <1>1, <1>4, <1>5, <1>6, <1>7 DEF Next

-----------------------------------------------------------------------------
(* Routing and mutual exclusion.                                            *)

LEMMA NextRouteInv == TypeOK /\ RouteInv /\ [Next]_vars => RouteInv'
  <1> SUFFICES ASSUME TypeOK, RouteInv, [Next]_vars, NEW d \in Calls
               PROVE RouteInv!(d)'
    BY DEF RouteInv
  <1> USE DEF TypeOK, RouteInv, Ended
  <1>1. ASSUME NEW c \in Calls, Receive(c) PROVE RouteInv!(d)'
    BY <1>1 DEF Receive, Arrive
  <1>2. ASSUME NEW c \in Calls, ServerStep(c) PROVE RouteInv!(d)'
    <2>1. CASE RouteToError(c) \/ RefuseEmptyUpdate(c) \/ Unlock(c) \/ RUnlock(c)
      BY <2>1 DEF RouteToError, RefuseEmptyUpdate, Unlock, RUnlock, Answer,
         mutexVars
    <2>2. CASE BeginUpdate(c)
      BY <2>2, TextTyped DEF BeginUpdate, Continue, mutexVars
    <2>3. CASE BeginRead(c) \/ Respond(c) \/ Lock(c) \/ RLock(c) \/ Read(c)
      BY <2>3 DEF BeginRead, Respond, Depart, Lock, RLock, Read, Continue,
         mutexVars
    <2>4. CASE Store(c)
      BY <2>4 DEF Store, mutexVars
    <2>5. QED
      BY <1>2, <2>1, <2>2, <2>3, <2>4 DEF ServerStep
  <1>3. ASSUME NEW c \in Calls, NodeStep(c) PROVE RouteInv!(d)'
    <2>1. CASE DecryptToKey(c)
      BY <2>1 DEF DecryptToKey, Continue, mutexVars
    <2>2. CASE DecryptToInvalidKey(c) \/ DecryptFails(c)
      BY <2>2 DEF DecryptToInvalidKey, DecryptFails, Answer, mutexVars
    <2>3. QED
      BY <1>3, <2>1, <2>2 DEF NodeStep
  <1>4. CASE Crash
    BY <1>4 DEF Crash, CallsCrash, UnderWay
  <1>5. CASE UNCHANGED vars
    BY <1>5 DEF vars, callVars
  <1>6. QED
    BY <1>1, <1>2, <1>3, <1>4, <1>5 DEF Next

LEMMA NextMutexInv == TypeOK /\ MutexInv /\ [Next]_vars => MutexInv'
  <1> SUFFICES ASSUME TypeOK, MutexInv, [Next]_vars PROVE MutexInv'
    OBVIOUS
  <1> USE CallsAssumption DEF TypeOK, MutexInv
  <1>1. ASSUME NEW c \in Calls, Receive(c) PROVE MutexInv'
    BY <1>1 DEF Receive, Arrive, mutexVars
  <1>2. ASSUME NEW c \in Calls, ServerStep(c) PROVE MutexInv'
    <2>1. CASE RouteToError(c) \/ RefuseEmptyUpdate(c)
      BY <2>1 DEF RouteToError, RefuseEmptyUpdate, Answer, mutexVars
    <2>2. CASE BeginUpdate(c) \/ BeginRead(c) \/ Respond(c) \/ Read(c)
      BY <2>2 DEF BeginUpdate, BeginRead, Respond, Depart, Read, Continue,
         mutexVars
    <2>3. CASE Lock(c)
      BY <2>3 DEF Lock, Continue
    <2>4. CASE Store(c)
      BY <2>4 DEF Store, mutexVars
    <2>5. CASE Unlock(c)
      BY <2>5 DEF Unlock, Answer
    <2>6. CASE RLock(c)
      BY <2>6 DEF RLock, Continue
    <2>7. CASE RUnlock(c)
      BY <2>7 DEF RUnlock, Answer
    <2>8. QED
      BY <1>2, <2>1, <2>2, <2>3, <2>4, <2>5, <2>6, <2>7 DEF ServerStep
  <1>3. ASSUME NEW c \in Calls, NodeStep(c) PROVE MutexInv'
    BY <1>3 DEF NodeStep, DecryptToKey, DecryptToInvalidKey, DecryptFails,
       Continue, Answer, mutexVars
  <1>4. CASE Crash
    BY <1>4 DEF Crash, CallsCrash, UnderWay, Ended
  <1>5. CASE UNCHANGED vars
    BY <1>5 DEF vars, callVars
  <1>6. QED
    BY <1>1, <1>2, <1>3, <1>4, <1>5 DEF Next

-----------------------------------------------------------------------------
(* The history of the register.                                             *)

\* What it means to add one entry to the history.
LEMMA Appended ==
  ASSUME NEW S, NEW s \in Seq(S), NEW e \in S
  PROVE  /\ Append(s, e) \in Seq(S)
         /\ Len(Append(s, e)) = Len(s) + 1
         /\ Append(s, e) # <<>>
         /\ Append(s, e)[Len(s) + 1] = e
         /\ \A i \in 1 .. Len(s) : Append(s, e)[i] = s[i]
         /\ DOMAIN s = 1 .. Len(s)
         /\ DOMAIN Append(s, e) = 1 .. (Len(s) + 1)
  <1>1. Append(s, e) \in Seq(S) /\ Len(Append(s, e)) = Len(s) + 1
    BY AppendProperties
  <1>2. QED
    BY <1>1, AppendProperties

Entries == [key : Stored, by : Calls \cup {NoCall}]

\* The three ways a step treats the history: it keeps it, a Store step adds
\* the key of one call, and a crash adds the empty register.
LEMMA HistoryStep ==
  ASSUME TypeOK, [Next]_vars
  PROVE  \/ history' = history /\ key' = key
         \/ \E c \in Calls : Store(c)
         \/ Crash
  <1>1. ASSUME NEW c \in Calls, Receive(c)
        PROVE history' = history /\ key' = key
    BY <1>1 DEF Receive, Arrive
  <1>2. ASSUME NEW c \in Calls, ServerStep(c), ~Store(c)
        PROVE history' = history /\ key' = key
    BY <1>2 DEF ServerStep, RouteToError, RefuseEmptyUpdate, BeginUpdate,
       BeginRead, Lock, Unlock, RLock, Read, RUnlock, Respond, Depart,
       Continue, Answer
  <1>3. ASSUME NEW c \in Calls, NodeStep(c)
        PROVE history' = history /\ key' = key
    BY <1>3 DEF NodeStep, DecryptToKey, DecryptToInvalidKey, DecryptFails,
       Continue, Answer
  <1>4. QED
    BY <1>1, <1>2, <1>3 DEF Next, vars, callVars

\* A call's place in the history is fixed when it arrives, and only a call
\* that is arriving leaves "idle".
LEMMA SinceStep ==
  ASSUME TypeOK, [Next]_vars, NEW d \in Calls
  PROVE  \/ since'[d] = since[d] /\ (pc'[d] = "idle" <=> pc[d] = "idle")
         \/ /\ pc[d] = "idle" /\ pc'[d] = "received"
            /\ since'[d] = Len(history) /\ history' = history
  <1> USE DEF TypeOK
  <1>1. ASSUME NEW c \in Calls, Receive(c)
        PROVE \/ since'[d] = since[d] /\ (pc'[d] = "idle" <=> pc[d] = "idle")
              \/ /\ pc[d] = "idle" /\ pc'[d] = "received"
                 /\ since'[d] = Len(history) /\ history' = history
    BY <1>1 DEF Receive, Arrive
  <1>2. ASSUME NEW c \in Calls, ServerStep(c)
        PROVE since' = since /\ (pc'[d] = "idle" <=> pc[d] = "idle")
    BY <1>2 DEF ServerStep, RouteToError, RefuseEmptyUpdate, BeginUpdate,
       BeginRead, Lock, Store, Unlock, RLock, Read, RUnlock, Respond, Depart,
       Continue, Answer
  <1>3. ASSUME NEW c \in Calls, NodeStep(c)
        PROVE since' = since /\ (pc'[d] = "idle" <=> pc[d] = "idle")
    BY <1>3 DEF NodeStep, DecryptToKey, DecryptToInvalidKey, DecryptFails,
       Continue, Answer
  <1>4. ASSUME Crash
        PROVE since' = since /\ (pc'[d] = "idle" <=> pc[d] = "idle")
    BY <1>4 DEF Crash, CallsCrash, UnderWay, Ended
  <1>5. QED
    BY <1>1, <1>2, <1>3, <1>4 DEF Next, vars, callVars

\* The history only grows, and the register is its last entry.
LEMMA HistoryGrows ==
  ASSUME TypeOK, HistoryInv, [Next]_vars
  PROVE  /\ history' # <<>> /\ history'[Len(history')].key = key'
         /\ Len(history') \in Nat /\ Len(history') >= Len(history)
  <1> USE DEF TypeOK, HistoryInv
  <1>1. ASSUME NEW b \in Calls \cup {NoCall}, key' \in Stored,
               history' = Append(history, [key |-> key', by |-> b])
        PROVE  /\ Len(history') = Len(history) + 1 /\ history' # <<>>
               /\ history'[Len(history')].key = key'
    <2>1. history \in Seq(Entries) /\ [key |-> key', by |-> b] \in Entries
      BY <1>1 DEF Entries
    <2>2. QED
      BY <1>1, <2>1, Appended
  <1>2. ASSUME NEW c \in Calls, Store(c)
        PROVE key' \in Stored /\ history' = Append(history, [key |-> key', by |-> c])
    BY <1>2 DEF Store, StoreKey
  <1>3. ASSUME Crash
        PROVE key' \in Stored /\ history' = Append(history, [key |-> key', by |-> NoCall])
    BY <1>3, KeyTyped DEF Crash, CallsCrash
  <1>5. Len(history) \in Nat
    OBVIOUS
  <1>6. CASE history' = history /\ key' = key
    BY <1>5, <1>6
  <1>7. CASE \E c \in Calls : Store(c)
    <2>1. PICK c \in Calls : Store(c)
      BY <1>7
    <2>2. key' \in Stored /\ history' = Append(history, [key |-> key', by |-> c])
      BY <1>2, <2>1
    <2>3. QED
      BY <1>1, <1>5, <2>2
  <1>8. CASE Crash
    BY <1>1, <1>3, <1>5, <1>8
  <1>9. QED
    BY <1>6, <1>7, <1>8, HistoryStep

LEMMA NextHistoryInv == TypeOK /\ HistoryInv /\ [Next]_vars => HistoryInv'
  <1> SUFFICES ASSUME TypeOK, HistoryInv, [Next]_vars PROVE HistoryInv'
    OBVIOUS
  <1> USE DEF TypeOK, HistoryInv
  <1>1. /\ history' # <<>> /\ history'[Len(history')].key = key'
        /\ Len(history') \in Nat /\ Len(history') >= Len(history)
    BY HistoryGrows
  <1>2. \A d \in Calls : /\ since'[d] <= Len(history')
                         /\ pc'[d] # "idle" => since'[d] > 0
    <2> SUFFICES ASSUME NEW d \in Calls
                 PROVE /\ since'[d] <= Len(history')
                       /\ pc'[d] # "idle" => since'[d] > 0
      OBVIOUS
    <2>1. Len(history) \in Nat /\ Len(history) > 0 /\ since[d] \in Nat
      OBVIOUS
    <2>2. QED
      BY <1>1, <2>1, SinceStep
  <1>3. QED
    BY <1>1, <1>2

-----------------------------------------------------------------------------
(* What readers see, and what updates store.                                *)

LEMMA RouteFacts ==
  \A rq \in Requests :
    /\ rq.path = "state" <=> GoOp(rq) = "STATE"
    /\ GoOp(rq) = "UPDATE" => rq.path = "action" /\ rq.opCommand = "UPDATE"
    /\ GoOp(rq) = "SIGN" => rq.path = "action" /\ rq.opCommand = "SIGN"
  BY DEF GoOp, Route, Handler, Requests, Paths, Bodies, Forms

\* A reply to a reader names the key it copied, or none.
LEMMA ReadReplyFacts ==
  \A rq, k :
    /\ ReadReply(rq, k).signer \in {NoKey, k}
    /\ GoOp(rq) = "STATE" => ReadReply(rq, k).hasKey = (k # NoKey)
  <1>1. ASSUME NEW rq, NEW k PROVE ReadReply(rq, k).signer \in {NoKey, k}
    BY DEF ReadReply, StateReport, SignReply, Reply
  <1>2. ASSUME NEW rq, NEW k, GoOp(rq) = "STATE"
        PROVE  ReadReply(rq, k).hasKey = (k # NoKey)
    BY <1>2, Zenon DEF ReadReply, StateReport, Reply
  <1>3. QED
    BY <1>1, <1>2

\* The current key has been held since any call that has arrived.
LEMMA CurrentHeld ==
  ASSUME TypeOK, HistoryInv, NEW d \in Calls
  PROVE  key \in HeldSince(d)
  <1>1. Len(history) \in since[d] .. Len(history)
    BY DEF TypeOK, HistoryInv
  <1>2. QED
    BY <1>1 DEF HeldSince, HistoryInv

\* What a call has seen held, it goes on seeing.
LEMMA HeldSinceGrows ==
  ASSUME TypeOK, HistoryInv, [Next]_vars, NEW d \in Calls, pc[d] # "idle"
  PROVE  HeldSince(d) \subseteq HeldSince(d)'
  <1>1. since'[d] = since[d] /\ since[d] \in Nat /\ since[d] > 0
    BY SinceStep DEF HistoryInv, TypeOK
  <1>2. ASSUME NEW k, NEW b, [key |-> k, by |-> b] \in Entries,
               history' = Append(history, [key |-> k, by |-> b])
        PROVE  HeldSince(d) \subseteq HeldSince(d)'
    <2>1. /\ Len(history) \in Nat /\ Len(history') = Len(history) + 1
          /\ \A i \in 1 .. Len(history) : history'[i] = history[i]
      BY <1>2, Appended DEF TypeOK, Entries
    <2>2. QED
      BY <1>1, <2>1 DEF HeldSince
  <1>3. CASE history' = history
    BY <1>1, <1>3 DEF HeldSince
  <1>4. ASSUME NEW c \in Calls, Store(c)
        PROVE  HeldSince(d) \subseteq HeldSince(d)'
    <2>1. history' = Append(history, [key |-> local[c], by |-> c])
      BY <1>4 DEF Store, StoreKey
    <2>2. [key |-> local[c], by |-> c] \in Entries
      BY DEF Entries, TypeOK
    <2>3. QED
      BY <1>2, <2>1, <2>2
  <1>5. CASE Crash
    <2>1. history' = Append(history, [key |-> NoKey, by |-> NoCall])
      BY <1>5 DEF Crash, CallsCrash
    <2>2. [key |-> NoKey, by |-> NoCall] \in Entries
      BY KeyTyped DEF Entries
    <2>3. QED
      BY <1>2, <2>1, <2>2
  <1>6. QED
    BY <1>3, <1>4, <1>5, HistoryStep

LEMMA NextReadInv ==
  TypeOK /\ RouteInv /\ HistoryInv /\ ReadInv /\ [Next]_vars => ReadInv'
  <1> SUFFICES ASSUME TypeOK, RouteInv, HistoryInv, ReadInv, [Next]_vars,
                      NEW d \in Calls
               PROVE  ReadInv!(d)'
    BY DEF ReadInv
  <1>1. /\ pc[d] # "idle" => HeldSince(d) \subseteq HeldSince(d)'
        /\ key \in HeldSince(d)
    BY HeldSinceGrows, CurrentHeld
  <1>2. /\ req[d].path = "state" <=> GoOp(req[d]) = "STATE"
        /\ GoOp(req[d]) = "UPDATE" => req[d].path = "action"
        /\ GoOp(req[d]) = "SIGN" => req[d].path = "action"
    BY RouteFacts DEF TypeOK
  \* A step that leaves the call where it is keeps what it has seen.
  <1>3. ASSUME pc'[d] = pc[d] \/ pc'[d] \notin {"runlock", "respond", "closed"}
                 \/ (pc[d] = "respond" /\ pc'[d] = "closed"),
               pc[d] # "idle" => req'[d] = req[d],
               pc'[d] \in {"respond", "closed"} => res'[d] = res[d],
               pc'[d] = "runlock" => local'[d] = local[d]
        PROVE  ReadInv!(d)'
    BY <1>1, <1>3 DEF ReadInv
  <1>4. ASSUME NEW c \in Calls, Receive(c) PROVE ReadInv!(d)'
    BY <1>3, <1>4 DEF Receive, Arrive, TypeOK
  <1>5. ASSUME NEW c \in Calls, ServerStep(c) PROVE ReadInv!(d)'
    <2>1. ASSUME pc'[d] = "respond", res'[d].signer = NoKey, req' = req,
                 GoOp(req[d]) # "STATE"
          PROVE  ReadInv!(d)'
      BY <1>2, <2>1
    <2>2. CASE RouteToError(c)
      <3>1. CASE c = d
        <4>1. pc'[d] = "respond" /\ res'[d] = HttpError(GoOp(req[d])) /\ req' = req
          BY <2>2, <3>1 DEF RouteToError, Answer, TypeOK
        <4>2. (HttpError(GoOp(req[d]))).signer = NoKey
          BY DEF HttpError, Refused, Updated, Reply
        <4>3. GoOp(req[d]) # "STATE"
          BY <2>2, <3>1 DEF RouteToError, Answer, HttpErrors, RouteInv
        <4>4. QED
          BY <2>1, <4>1, <4>2, <4>3
      <3>2. CASE c # d
        BY <2>2, <3>2, <1>3 DEF RouteToError, Answer, TypeOK
      <3>3. QED
        BY <3>1, <3>2
    <2>3. CASE RefuseEmptyUpdate(c)
      <3>1. CASE c = d
        <4>1. pc'[d] = "respond" /\ res'[d] = Refused /\ req' = req
          BY <2>3, <3>1 DEF RefuseEmptyUpdate, Answer, TypeOK
        <4>2. (Refused).signer = NoKey
          BY DEF HttpError, Refused, Updated, Reply
        <4>3. GoOp(req[d]) # "STATE"
          BY <2>3, <3>1 DEF RefuseEmptyUpdate, Answer, HttpErrors, RouteInv
        <4>4. QED
          BY <2>1, <4>1, <4>2, <4>3
      <3>2. CASE c # d
        BY <2>3, <3>2, <1>3 DEF RefuseEmptyUpdate, Answer, TypeOK
      <3>3. QED
        BY <3>1, <3>2
    <2>4. CASE BeginUpdate(c) \/ BeginRead(c) \/ Respond(c) \/ Lock(c) \/ RLock(c)
      BY <2>4, <1>3 DEF BeginUpdate, BeginRead, Respond, Depart, Lock, RLock,
         Continue, TypeOK, mutexVars
    <2>5. CASE Store(c)
      BY <2>5, <1>3 DEF Store, TypeOK, mutexVars
    <2>6. CASE Unlock(c)
      <3>1. CASE c = d
        <4>1. pc'[d] = "respond" /\ res'[d] = Updated /\ req' = req
          BY <2>6, <3>1 DEF Unlock, Answer, TypeOK
        <4>2. (Updated).signer = NoKey
          BY DEF HttpError, Refused, Updated, Reply
        <4>3. GoOp(req[d]) # "STATE"
          BY <2>6, <3>1 DEF Unlock, Answer, HttpErrors, RouteInv
        <4>4. QED
          BY <2>1, <4>1, <4>2, <4>3
      <3>2. CASE c # d
        BY <2>6, <3>2, <1>3 DEF Unlock, Answer, TypeOK
      <3>3. QED
        BY <3>1, <3>2
    <2>7. CASE Read(c)
      <3>1. CASE c = d
        BY <2>7, <3>1, <1>1 DEF Read, Continue, HeldSince, TypeOK
      <3>2. CASE c # d
        BY <2>7, <3>2, <1>3 DEF Read, Continue, TypeOK
      <3>3. QED
        BY <3>1, <3>2
    <2>8. CASE RUnlock(c)
      <3>1. CASE c = d
        <4>1. /\ pc'[d] = "respond" /\ res'[d] = ReadReply(req[d], local[d])
              /\ req' = req /\ history' = history /\ since' = since
              /\ local[d] \in HeldSince(d)
          BY <2>8, <3>1 DEF RUnlock, Answer, TypeOK, ReadInv
        <4>2. HeldSince(d)' = HeldSince(d)
          BY <4>1 DEF HeldSince
        <4>3. /\ res'[d].signer \in {NoKey, local[d]}
              /\ GoOp(req[d]) = "STATE" => res'[d].hasKey = (local[d] # NoKey)
          BY <4>1, ReadReplyFacts
        <4>4. QED
          BY <1>2, <4>1, <4>2, <4>3
      <3>2. CASE c # d
        BY <2>8, <3>2, <1>3 DEF RUnlock, Answer, TypeOK
      <3>3. QED
        BY <3>1, <3>2
    <2>9. QED
      BY <1>5, <2>2, <2>3, <2>4, <2>5, <2>6, <2>7, <2>8 DEF ServerStep
  <1>6. ASSUME NEW c \in Calls, NodeStep(c) PROVE ReadInv!(d)'
    <2>1. CASE DecryptToKey(c)
      BY <2>1, <1>3 DEF DecryptToKey, Continue, TypeOK
    <2>2. CASE DecryptToInvalidKey(c) \/ DecryptFails(c)
      <3>1. CASE c = d
        BY <2>2, <3>1, <1>2
        DEF DecryptToInvalidKey, DecryptFails, Answer, Refused, Reply, TypeOK,
            RouteInv
      <3>2. CASE c # d
        BY <2>2, <3>2, <1>3
        DEF DecryptToInvalidKey, DecryptFails, Answer, TypeOK
      <3>3. QED
        BY <3>1, <3>2
    <2>3. QED
      BY <1>6, <2>1, <2>2 DEF NodeStep
  <1>7. CASE Crash
    BY <1>7, <1>3 DEF Crash, CallsCrash, UnderWay, Ended, TypeOK
  <1>8. CASE UNCHANGED vars
    BY <1>8, <1>3 DEF vars, callVars
  <1>9. QED
    BY <1>4, <1>5, <1>6, <1>7, <1>8 DEF Next

\* Only a Store step adds to what a call has stored, and only for its call.
LEMMA StoresStep ==
  ASSUME TypeOK, [Next]_vars, NEW d \in Calls
  PROVE  \/ Stores(d)' = Stores(d)
         \/ /\ Store(d) /\ Stores(d)' = Stores(d) \cup {Len(history')}
            /\ Len(history') = Len(history) + 1
  <1>1. ASSUME NEW k, NEW b, [key |-> k, by |-> b] \in Entries,
               history' = Append(history, [key |-> k, by |-> b])
        PROVE  /\ Len(history') = Len(history) + 1
               /\ Stores(d)' = IF b = d THEN Stores(d) \cup {Len(history')}
                               ELSE Stores(d)
    <2>1. /\ Len(history) \in Nat /\ Len(history') = Len(history) + 1
          /\ history'[Len(history) + 1] = [key |-> k, by |-> b]
          /\ \A i \in 1 .. Len(history) : history'[i] = history[i]
          /\ DOMAIN history = 1 .. Len(history)
          /\ DOMAIN history' = 1 .. (Len(history) + 1)
      BY <1>1, Appended DEF TypeOK, Entries
    <2>2. QED
      BY <2>1 DEF Stores
  <1>2. CASE history' = history
    BY <1>2 DEF Stores
  <1>3. ASSUME NEW c \in Calls, Store(c)
        PROVE  \/ Stores(d)' = Stores(d)
               \/ /\ c = d /\ Stores(d)' = Stores(d) \cup {Len(history')}
                  /\ Len(history') = Len(history) + 1
    <2>1. history' = Append(history, [key |-> local[c], by |-> c])
      BY <1>3 DEF Store, StoreKey
    <2>2. [key |-> local[c], by |-> c] \in Entries
      BY DEF Entries, TypeOK
    <2>3. QED
      BY <1>1, <2>1, <2>2
  <1>4. CASE Crash
    <2>1. history' = Append(history, [key |-> NoKey, by |-> NoCall])
      BY <1>4 DEF Crash, CallsCrash
    <2>2. [key |-> NoKey, by |-> NoCall] \in Entries
      BY KeyTyped DEF Entries
    <2>3. NoCall # d
      BY CallsAssumption
    <2>4. QED
      BY <1>1, <2>1, <2>2, <2>3
  <1>5. QED
    BY <1>2, <1>3, <1>4, HistoryStep

LEMMA NextStoreInv ==
  TypeOK /\ RouteInv /\ HistoryInv /\ StoreInv /\ [Next]_vars => StoreInv'
  <1> DEFINE Early == {"idle", "received", "decrypt", "lock", "store",
                       "rlock", "read", "runlock"}
             Acknowledges(d) == /\ req[d].path = "action"
                                /\ req[d].opCommand = "UPDATE"
                                /\ res[d] = Updated
             StoredOnce(d) == \E i \in DOMAIN history : i > since[d] /\ Stores(d) = {i}
  <1> SUFFICES ASSUME TypeOK, RouteInv, HistoryInv, StoreInv, [Next]_vars,
                      NEW d \in Calls
               PROVE  StoreInv!(d)'
    BY DEF StoreInv
  <1>1. /\ req[d].path = "state" <=> GoOp(req[d]) = "STATE"
        /\ GoOp(req[d]) = "UPDATE" => req[d].path = "action" /\ req[d].opCommand = "UPDATE"
        /\ GoOp(req[d]) = "SIGN" => req[d].opCommand = "SIGN"
    BY RouteFacts DEF TypeOK
  \* Away from the Store step nothing is stored; the call may move on.
  <1>2. ASSUME ~Store(d) PROVE Stores(d)' = Stores(d)
    BY <1>2, StoresStep
  <1>3. ASSUME ~Store(d), pc[d] # "idle" PROVE StoredOnce(d) => StoredOnce(d)'
    <2>1. since'[d] = since[d] /\ since[d] \in Nat
      BY <1>3, SinceStep DEF TypeOK
    <2>2. DOMAIN history \subseteq DOMAIN history'
      <3>1. Len(history) \in Nat /\ Len(history') \in Nat
            /\ DOMAIN history = 1 .. Len(history)
            /\ DOMAIN history' = 1 .. Len(history')
        BY NextTypeOK DEF TypeOK
      <3>2. Len(history') >= Len(history)
        BY HistoryGrows
      <3>3. QED
        BY <3>1, <3>2
    <2>3. QED
      BY <1>2, <1>3, <2>1, <2>2
  <1>4. CASE Store(d)
    <2>1. Stores(d) = {} /\ Stores(d)' = Stores(d) \cup {Len(history')}
          /\ Len(history') = Len(history) + 1 /\ pc'[d] = "unlock"
          /\ since'[d] = since[d]
      <3>1. Stores(d) = {} /\ pc'[d] = "unlock" /\ since'[d] = since[d]
        BY <1>4 DEF Store, StoreInv, TypeOK
      <3>2. Stores(d)' # Stores(d)
        <4>1. history' = Append(history, [key |-> local[d], by |-> d])
          BY <1>4 DEF Store, StoreKey
        <4>2. [key |-> local[d], by |-> d] \in Entries
          BY DEF Entries, TypeOK
        <4>3. Len(history) + 1 \in Stores(d)'
          BY <4>1, <4>2, Appended DEF Stores, TypeOK, Entries
        <4>4. QED
          BY <3>1, <4>3
      <3>3. QED
        BY <3>1, <3>2, StoresStep
    <2>2. Len(history') > since[d] /\ Len(history') \in DOMAIN history'
      BY <2>1, NextTypeOK DEF HistoryInv, TypeOK
    <2>3. QED
      BY <2>1, <2>2
  \* A step after which the call is as far as it was, or still has not stored.
  <1>5. ASSUME ~Store(d),
               \/ pc'[d] = pc[d]
               \/ pc[d] \in Early /\ pc'[d] \in Early
               \/ pc[d] = "respond" /\ pc'[d] = "closed"
               \/ pc'[d] = "lost",
               pc[d] # "idle" => req'[d] = req[d],
               pc'[d] \in {"respond", "closed"} => res'[d] = res[d]
        PROVE  StoreInv!(d)'
    BY <1>2, <1>3, <1>5 DEF StoreInv
  \* A step from before the Store step to a reply that is no acknowledgement.
  <1>6. ASSUME ~Store(d), pc[d] \in Early, pc'[d] = "respond", req' = req,
               ~Acknowledges(d)'
        PROVE  StoreInv!(d)'
    BY <1>2, <1>6 DEF StoreInv
  <1>7. ASSUME NEW c \in Calls, Receive(c) PROVE StoreInv!(d)'
    BY <1>4, <1>5, <1>7 DEF Receive, Arrive, TypeOK
  <1>8. ASSUME NEW c \in Calls, ServerStep(c) PROVE StoreInv!(d)'
    <2>1. CASE RouteToError(c)
      <3>1. HttpError(GoOp(req[c])) # Updated
        BY <2>1 DEF RouteToError, HttpError, HttpErrors, Updated, Reply
      <3>2. QED
        BY <2>1, <3>1, <1>4, <1>5, <1>6 DEF RouteToError, Answer, TypeOK
    <2>2. CASE RefuseEmptyUpdate(c)
      <3>1. Refused # Updated
        BY DEF Refused, Updated, Reply
      <3>2. QED
        BY <2>2, <3>1, <1>4, <1>5, <1>6 DEF RefuseEmptyUpdate, Answer, TypeOK
    <2>3. CASE BeginUpdate(c) \/ BeginRead(c) \/ Lock(c) \/ RLock(c) \/ Read(c)
      BY <2>3, <1>4, <1>5
      DEF BeginUpdate, BeginRead, Lock, RLock, Read, Continue, TypeOK
    <2>4. CASE Store(c)
      <3>1. CASE c = d
        BY <2>4, <3>1, <1>4
      <3>2. CASE c # d
        <4>1. ~Store(d) /\ pc'[d] = pc[d] /\ req' = req /\ res' = res
          BY <2>4, <3>2 DEF Store, TypeOK
        <4>2. QED
          BY <4>1, <1>5
      <3>3. QED
        BY <3>1, <3>2
    <2>5. CASE Unlock(c)
      <3>1. CASE c = d
        <4>1. /\ pc[d] = "unlock" /\ pc'[d] = "respond" /\ req' = req
              /\ res'[d] = Updated /\ GoOp(req[d]) = "UPDATE" /\ ~Store(d)
          BY <2>5, <3>1 DEF Unlock, Answer, Store, RouteInv, TypeOK
        <4>2. StoredOnce(d)' /\ Acknowledges(d)'
          BY <4>1, <1>1, <1>3 DEF StoreInv
        <4>3. QED
          BY <4>1, <4>2
      <3>2. CASE c # d
        BY <2>5, <3>2, <1>4, <1>5 DEF Unlock, Answer, TypeOK
      <3>3. QED
        BY <3>1, <3>2
    <2>6. CASE RUnlock(c)
      <3>1. GoOp(req[c]) \in {"SIGN", "STATE"}
        BY <2>6 DEF RUnlock, Answer, RouteInv
      <3>2. CASE c = d
        BY <2>6, <3>1, <3>2, <1>1, <1>4, <1>6 DEF RUnlock, Answer, TypeOK
      <3>3. CASE c # d
        BY <2>6, <3>3, <1>4, <1>5 DEF RUnlock, Answer, TypeOK
      <3>4. QED
        BY <3>2, <3>3
    <2>7. CASE Respond(c)
      BY <2>7, <1>4, <1>5 DEF Respond, Depart, Continue, TypeOK
    <2>8. QED
      BY <1>8, <2>1, <2>2, <2>3, <2>4, <2>5, <2>6, <2>7 DEF ServerStep
  <1>9. ASSUME NEW c \in Calls, NodeStep(c) PROVE StoreInv!(d)'
    <2>1. CASE DecryptToKey(c)
      <3>1. /\ pc'[d] = pc[d] \/ (pc[d] = "decrypt" /\ pc'[d] = "lock")
            /\ req' = req /\ res' = res
        BY <2>1 DEF DecryptToKey, Continue, TypeOK
      <3>2. QED
        BY <3>1, <1>4, <1>5
    <2>2. CASE DecryptToInvalidKey(c) \/ DecryptFails(c)
      <3>1. Refused # Updated
        BY DEF Refused, Updated, Reply
      <3>2. QED
        BY <2>2, <3>1, <1>4, <1>5, <1>6
        DEF DecryptToInvalidKey, DecryptFails, Answer, TypeOK
    <2>3. QED
      BY <1>9, <2>1, <2>2 DEF NodeStep
  <1>10. CASE Crash
    BY <1>10, <1>4, <1>5 DEF Crash, CallsCrash, UnderWay, Ended, TypeOK
  <1>11. CASE UNCHANGED vars
    BY <1>11, <1>4, <1>5 DEF vars, callVars
  <1>12. QED
    BY <1>7, <1>8, <1>9, <1>10, <1>11 DEF Next

-----------------------------------------------------------------------------
(* The theorems.                                                            *)

IInv == TypeOK /\ RouteInv /\ MutexInv /\ HistoryInv /\ ReadInv /\ StoreInv

LEMMA InitIInv == Init => IInv
  <1> SUFFICES ASSUME Init PROVE IInv
    OBVIOUS
  <1>1. TypeOK
    BY InitTypeOK
  <1>2. RouteInv /\ MutexInv /\ HistoryInv /\ ReadInv
    BY CallsAssumption
    DEF Init, CallsInit, RouteInv, MutexInv, HistoryInv, ReadInv
  <1>3. StoreInv
    BY CallsAssumption DEF Init, CallsInit, StoreInv, Stores
  <1>4. QED
    BY <1>1, <1>2, <1>3 DEF IInv

LEMMA IInvInvariant == Spec => []IInv
  <1>1. IInv /\ [Next]_vars => IInv'
    BY NextTypeOK, NextRouteInv, NextMutexInv, NextHistoryInv, NextReadInv,
       NextStoreInv DEF IInv
  <1>2. QED
    BY InitIInv, <1>1, PTL DEF Spec

\* The variables of the Go server keep their types in every behaviour.
THEOREM GoTypeCorrect == Spec => []TypeOK
  <1>1. IInv => TypeOK
    BY DEF IInv
  <1>2. QED
    BY <1>1, IInvInvariant, PTL

\* However many requests run at once, no goroutine touches privateKey while
\* another assigns it.
THEOREM GoNoDataRace == Spec => []NoDataRace
  <1>1. IInv => NoDataRace
    BY CallsAssumption DEF IInv, MutexInv, NoDataRace
  <1>2. QED
    BY <1>1, IInvInvariant, PTL

\* However many updates, restarts and other calls interleave with it, a SIGN
\* uses a key that was current during the call.
THEOREM GoNoStaleSignature == Spec => []NoStaleSignature
  <1>1. IInv => NoStaleSignature
    BY DEF IInv, ReadInv, NoStaleSignature
  <1>2. QED
    BY <1>1, IInvInvariant, PTL

\* However many updates race, each is acknowledged if and only if it stored
\* its key, once, during the call.
THEOREM GoUpdateOutcome == Spec => []UpdateOutcome
  <1>1. IInv => UpdateOutcome
    BY DEF IInv, StoreInv, UpdateOutcome
  <1>2. QED
    BY <1>1, IInvInvariant, PTL

\* hasKey was the truth at some instant of every GET /state.
THEOREM GoStateReportTruthful == Spec => []StateReportTruthful
  <1>1. IInv => StateReportTruthful
    BY DEF IInv, ReadInv, StateReportTruthful
  <1>2. QED
    BY <1>1, IInvInvariant, PTL

-----------------------------------------------------------------------------
(* The refinement: the Go server, with its interleaved goroutines,          *)
(* implements the atomic key register.  Every step is a step of KeyRegister, *)
(* or leaves the register and the calls as they are.                        *)

\* The instance of KeyRegister speaks of the same requests and replies.
LEMMA SameProtocol ==
  /\ Register!Requests = Requests
  /\ Register!NoKey = NoKey /\ Register!NoReply = NoReply
  /\ Register!Refused = Refused /\ Register!Updated = Updated
  /\ Register!HttpErrors = HttpErrors
  /\ \A code : Register!HttpError(code) = HttpError(code)
  /\ \A k, t : Register!SignReply(k, t) = SignReply(k, t)
  /\ \A k : Register!StateReport(k) = StateReport(k)
  BY DEF Register!Requests, Requests, Register!Paths, Paths, Register!Bodies,
     Bodies, Register!Forms, Forms, Register!NoKey, NoKey, Register!NoReply,
     NoReply, Register!Refused, Refused, Register!Updated, Updated,
     Register!HttpErrors, HttpErrors, Register!HttpError, HttpError,
     Register!SignReply, SignReply, Register!StateReport, StateReport,
     Register!Reply, Reply, Register!Empty, Empty, Register!Unreadable, Unreadable

LEMMA RefinesInit == Init => Register!Init
  <1> SUFFICES ASSUME Init PROVE Register!Init
    OBVIOUS
  <1>1. \A c \in Calls : AbsPhase(c) = "idle" /\ AbsRes(c) = NoReply
    BY DEF Init, CallsInit, AbsPhase, AbsRes, Ended
  <1>2. req \in [Calls -> Requests] /\ key = NoKey
    BY NoRequestTyped DEF Init, CallsInit
  <1>3. QED
    BY <1>1, <1>2, SameProtocol DEF Register!Init

\* A step that changes neither the key nor what a call looks like from outside.
LEMMA Stutter ==
  ASSUME key' = key, req' = req,
         \A d \in Calls : AbsPhase(d)' = AbsPhase(d) /\ AbsRes(d)' = AbsRes(d)
  PROVE  UNCHANGED Register!vars
  BY DEF Register!vars

\* A step that makes call c take effect.
LEMMA TakesEffect ==
  ASSUME NEW c \in Calls, NEW k, NEW r, key' = k, req' = req,
         AbsPhase(c) = "open", AbsPhase(c)' = "applied", AbsRes(c)' = r,
         \A d \in Calls \ {c} :
           AbsPhase(d)' = AbsPhase(d) /\ AbsRes(d)' = AbsRes(d)
  PROVE  Register!Apply(c, k, r)
  BY DEF Register!Apply

\* What a step of call c leaves alone in the other calls.
LEMMA OthersUntouched ==
  ASSUME TypeOK, NEW c \in Calls, NEW d \in Calls \ {c},
         Receive(c) \/ ServerStep(c) \/ NodeStep(c)
  PROVE  AbsPhase(d)' = AbsPhase(d) /\ AbsRes(d)' = AbsRes(d)
  <1>1. pc'[d] = pc[d] /\ req'[d] = req[d] /\ res'[d] = res[d] /\ local'[d] = local[d]
    <2>1. CASE Receive(c)
      BY <2>1 DEF Receive, Arrive, TypeOK
    <2>2. CASE ServerStep(c)
      BY <2>2 DEF ServerStep, RouteToError, RefuseEmptyUpdate, BeginUpdate,
         BeginRead, Lock, Store, Unlock, RLock, Read, RUnlock, Respond, Depart,
         Continue, Answer, TypeOK, mutexVars
    <2>3. CASE NodeStep(c)
      BY <2>3 DEF NodeStep, DecryptToKey, DecryptToInvalidKey, DecryptFails,
         Continue, Answer, TypeOK, mutexVars
    <2>4. QED
      BY <2>1, <2>2, <2>3
  <1>2. QED
    BY <1>1 DEF AbsPhase, AbsRes

\* The steps of call c, one by one: each is a step of the register or none.
LEMMA RefinesCallStep ==
  ASSUME TypeOK, RouteInv, NEW c \in Calls,
         Receive(c) \/ ServerStep(c) \/ NodeStep(c)
  PROVE  Register!Next \/ UNCHANGED Register!vars
  <1> DEFINE Others == \A d \in Calls \ {c} :
                         AbsPhase(d)' = AbsPhase(d) /\ AbsRes(d)' = AbsRes(d)
  <1>1. Others
    BY OthersUntouched
  <1>2. ASSUME key' = key, req' = req,
               AbsPhase(c)' = AbsPhase(c), AbsRes(c)' = AbsRes(c)
        PROVE  UNCHANGED Register!vars
    BY <1>1, <1>2, Stutter
  <1>3. ASSUME NEW k, NEW r, key' = k, req' = req,
               AbsPhase(c) = "open", AbsPhase(c)' = "applied", AbsRes(c)' = r
        PROVE  Register!Apply(c, k, r)
    BY <1>1, <1>3, TakesEffect
  <1>4. CASE Receive(c)
    <2>1. /\ AbsPhase(c) = "idle" /\ AbsPhase(c)' = "open"
          /\ AbsRes(c)' = AbsRes(c) /\ key' = key
          /\ \E rq \in Requests : req' = [req EXCEPT ![c] = rq]
      BY <1>4, CallsAssumption DEF Receive, Arrive, TypeOK, AbsPhase, AbsRes, Ended
    <2>2. Register!Open(c)
      BY <2>1, <1>1, SameProtocol DEF Register!Open
    <2>3. QED
      BY <2>2 DEF Register!Next
  <1>5. CASE RouteToError(c)
    <2>1. /\ key' = key /\ req' = req /\ GoOp(req[c]) \in HttpErrors
          /\ AbsPhase(c) = "open" /\ AbsPhase(c)' = "applied"
          /\ AbsRes(c)' = HttpError(GoOp(req[c]))
      BY <1>5 DEF RouteToError, Answer, TypeOK, AbsPhase, AbsRes, Ended
    <2>2. Register!Apply(c, key, HttpError(GoOp(req[c])))
      BY <2>1, <1>3
    <2>3. Register!Reject(c)
      BY <2>1, <2>2, SameProtocol DEF Register!Reject
    <2>4. QED
      BY <2>3 DEF Register!Next
  <1>6. CASE RefuseEmptyUpdate(c) \/ DecryptToInvalidKey(c) \/ DecryptFails(c)
    <2>1. /\ key' = key /\ req' = req /\ GoOp(req[c]) = "UPDATE"
          /\ AbsPhase(c) = "open" /\ AbsPhase(c)' = "applied"
          /\ AbsRes(c)' = Refused
      BY <1>6 DEF RefuseEmptyUpdate, DecryptToInvalidKey, DecryptFails, Answer,
         TypeOK, RouteInv, AbsPhase, AbsRes, Ended
    <2>2. Register!Apply(c, key, Refused)
      BY <2>1, <1>3
    <2>3. Register!RefuseUpdate(c)
      BY <2>1, <2>2, SameProtocol DEF Register!RefuseUpdate
    <2>4. QED
      BY <2>3 DEF Register!Next
  <1>7. CASE BeginUpdate(c) \/ BeginRead(c) \/ DecryptToKey(c) \/ Lock(c) \/ RLock(c)
    <2>1. /\ key' = key /\ req' = req /\ res' = res
          /\ pc[c] \in {"received", "decrypt", "lock", "rlock"}
          /\ pc'[c] \in {"decrypt", "lock", "rlock", "store", "read"}
      BY <1>7 DEF BeginUpdate, BeginRead, DecryptToKey, Lock, RLock, Continue, TypeOK
    <2>2. AbsPhase(c)' = AbsPhase(c) /\ AbsRes(c)' = AbsRes(c)
      BY <2>1 DEF AbsPhase, AbsRes, Ended
    <2>3. QED
      BY <2>1, <2>2, <1>2
  <1>8. CASE Store(c)
    <2> DEFINE k == GoParseKey(Decrypt[GoText(req[c])])
    <2>1. /\ key' = k /\ req' = req /\ k # NoKey
          /\ GoOp(req[c]) = "UPDATE" /\ GoText(req[c]) \in Messages
          /\ AbsPhase(c) = "open" /\ AbsPhase(c)' = "applied"
          /\ AbsRes(c)' = Updated
      BY <1>8 DEF Store, StoreKey, TypeOK, RouteInv, AbsPhase, AbsRes, Ended
    <2>2. Register!Apply(c, k, Updated)
      BY <2>1, <1>3
    <2>3. Register!Update(c)
      BY <2>1, <2>2, SameProtocol DEF Register!Update
    <2>4. QED
      BY <2>3 DEF Register!Next
  <1>9. CASE Read(c)
    <2>1. /\ key' = key /\ req' = req /\ GoOp(req[c]) \in {"SIGN", "STATE"}
          /\ AbsPhase(c) = "open" /\ AbsPhase(c)' = "applied"
          /\ AbsRes(c)' = ReadReply(req[c], key)
      BY <1>9 DEF Read, Continue, TypeOK, RouteInv, mutexVars, AbsPhase, AbsRes, Ended
    <2>2. CASE GoOp(req[c]) = "SIGN"
      <3>1. AbsRes(c)' = SignReply(key, GoText(req[c]))
        BY <2>1, <2>2 DEF ReadReply
      <3>2. Register!Apply(c, key, SignReply(key, GoText(req[c])))
        BY <2>1, <3>1, <1>3
      <3>3. Register!Sign(c)
        BY <2>2, <3>2, SameProtocol DEF Register!Sign
      <3>4. QED
        BY <3>3 DEF Register!Next
    <2>3. CASE GoOp(req[c]) = "STATE"
      <3>1. AbsRes(c)' = StateReport(key)
        BY <2>1, <2>3 DEF ReadReply
      <3>2. Register!Apply(c, key, StateReport(key))
        BY <2>1, <3>1, <1>3
      <3>3. Register!Report(c)
        BY <2>3, <3>2, SameProtocol DEF Register!Report
      <3>4. QED
        BY <3>3 DEF Register!Next
    <2>4. QED
      BY <2>1, <2>2, <2>3
  <1>10. CASE Unlock(c) \/ RUnlock(c)
    <2>1. /\ key' = key /\ req' = req
          /\ AbsPhase(c)' = AbsPhase(c) /\ AbsRes(c)' = AbsRes(c)
      BY <1>10 DEF Unlock, RUnlock, Answer, TypeOK, AbsPhase, AbsRes, Ended
    <2>2. QED
      BY <2>1, <1>2
  <1>11. CASE Respond(c)
    <2>1. /\ key' = key /\ req' = req /\ AbsRes(c)' = AbsRes(c)
          /\ AbsPhase(c) = "applied" /\ AbsPhase(c)' = "closed"
      BY <1>11 DEF Respond, Depart, Continue, TypeOK, AbsPhase, AbsRes, Ended
    <2>2. Register!Close(c)
      BY <2>1, <1>1 DEF Register!Close
    <2>3. QED
      BY <2>2 DEF Register!Next
  <1>12. QED
    BY <1>4, <1>5, <1>6, <1>7, <1>8, <1>9, <1>10, <1>11 DEF ServerStep, NodeStep

LEMMA RefinesCrash == TypeOK /\ Crash => Register!Restart
  <1> SUFFICES ASSUME TypeOK, Crash PROVE Register!Restart
    OBVIOUS
  <1>1. /\ key' = NoKey /\ req' = req /\ res' = res
        /\ \A c \in Calls : pc'[c] = IF pc[c] \in Ended THEN pc[c] ELSE "lost"
    BY DEF Crash, CallsCrash, UnderWay
  <1>2. \A c \in Calls :
          /\ AbsPhase(c)' = IF AbsPhase(c) \in {"open", "applied"}
                             THEN "lost" ELSE AbsPhase(c)
          /\ AbsRes(c)' = IF AbsPhase(c) \in {"open", "applied"}
                           THEN NoReply ELSE AbsRes(c)
    BY <1>1 DEF AbsPhase, AbsRes, Ended, TypeOK, PCs
  <1>3. QED
    BY <1>1, <1>2, SameProtocol DEF Register!Restart

LEMMA RefinesNext ==
  TypeOK /\ RouteInv /\ [Next]_vars => [Register!Next]_(Register!vars)
  <1> SUFFICES ASSUME TypeOK, RouteInv, [Next]_vars
               PROVE  Register!Next \/ UNCHANGED Register!vars
    OBVIOUS
  <1>1. CASE \E c \in Calls : Receive(c) \/ ServerStep(c) \/ NodeStep(c)
    BY <1>1, RefinesCallStep
  <1>2. CASE Crash
    BY <1>2, RefinesCrash DEF Register!Next
  <1>3. CASE UNCHANGED vars
    <2>1. /\ key' = key /\ req' = req /\ res' = res /\ pc' = pc /\ local' = local
      BY <1>3 DEF vars, callVars
    <2>2. \A c \in Calls : AbsPhase(c)' = AbsPhase(c) /\ AbsRes(c)' = AbsRes(c)
      BY <2>1 DEF AbsPhase, AbsRes
    <2>3. QED
      BY <2>1, <2>2, Stutter
  <1>4. QED
    BY <1>1, <1>2, <1>3 DEF Next

\* The concurrent calls of extension.go are linearizable, restarts included:
\* whatever their number and interleaving, they behave as one atomic register.
THEOREM GoImplementsRegister == Spec => ImplementsRegister
  <1>1. Spec => []IInv
    BY IInvInvariant
  <1>2. IInv => TypeOK /\ RouteInv
    BY DEF IInv
  <1>3. QED
    BY <1>1, <1>2, RefinesInit, RefinesNext, PTL
    DEF Spec, ImplementsRegister, Register!Spec
=============================================================================
