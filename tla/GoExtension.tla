----------------------------- MODULE GoExtension -----------------------------
(***************************************************************************)
(* The Go sign extension (go/internal/extension).  net/http runs every      *)
(* request in a goroutine of its own, so calls interleave freely; the only  *)
(* synchronization is the RWMutex around the assignment and the reads of    *)
(* privateKey.  An update asks the TEE node to decrypt its message before   *)
(* it takes the lock, and the request has no timeout.                       *)
(***************************************************************************)
EXTENDS ExtensionCalls

VARIABLES
  writer,   \* the call holding the mutex for writing, or NoCall
  readers,  \* the calls holding it for reading
  local     \* each call's local copy of a key: parsed, or read from the field

vars == <<callVars, writer, readers, local>>
mutexVars == <<writer, readers>>

PCs == {"idle", "received", "decrypt", "lock", "store", "unlock",
        "rlock", "read", "runlock", "respond", "closed", "lost"}

\* originalMessage is decoded with the rest of DataFixed, so a bad hex digit
\* fails the decoding of the instruction; missing and "0x" both have length 0.
GoOp(rq) ==
  LET route == Route(rq, "404")
  IN  IF route \in {"UPDATE", "SIGN"} /\ rq.form = "badHex" THEN "400" ELSE route

GoText(rq) == IF rq.form = "hex" THEN rq.msg ELSE Unreadable

-----------------------------------------------------------------------------
Init ==
  /\ CallsInit
  /\ writer = NoCall
  /\ readers = {}
  /\ local = [c \in Calls |-> NoKey]

Receive(c) == Arrive(c, "received") /\ UNCHANGED <<mutexVars, local>>

\* processAction and processKey route the request; processKeyUpdate refuses
\* an empty message before it calls the node.
RouteToError(c) ==
  /\ GoOp(req[c]) \in HttpErrors
  /\ Answer(c, "received", HttpError(GoOp(req[c])), "respond")
  /\ UNCHANGED <<mutexVars, local>>

RefuseEmptyUpdate(c) ==
  /\ GoOp(req[c]) = "UPDATE"
  /\ GoText(req[c]) = Unreadable
  /\ Answer(c, "received", Refused, "respond")
  /\ UNCHANGED <<mutexVars, local>>

\* Mutant: the mutex is taken before the node is asked.
BeginUpdateLocked(c) ==
  /\ writer = NoCall /\ readers = {}
  /\ GoOp(req[c]) = "UPDATE"
  /\ GoText(req[c]) # Unreadable
  /\ Continue(c, "received", "decrypt")
  /\ writer' = c
  /\ UNCHANGED <<readers, local>>

BeginUpdate(c) ==
  /\ GoOp(req[c]) = "UPDATE"
  /\ GoText(req[c]) # Unreadable
  /\ Continue(c, "received", "decrypt")
  /\ UNCHANGED <<mutexVars, local>>

BeginRead(c) ==
  /\ GoOp(req[c]) \in {"SIGN", "STATE"}
  /\ Continue(c, "received", "rlock")
  /\ UNCHANGED <<mutexVars, local>>

\* Mutant: the parsed key is kept in a variable all the calls share.
DecryptToSharedKey(c) ==
  LET k == GoParseKey(Decrypt[GoText(req[c])])
  IN  /\ Continue(c, "decrypt", "lock")
      /\ k # NoKey
      /\ local' = [d \in Calls |->
                     IF d = c \/ pc[d] \in {"lock", "store"} THEN k ELSE local[d]]
      /\ UNCHANGED mutexVars

\* The node answers with a plaintext, which either is a private key or not;
\* or it refuses the ciphertext, or the request to it fails.
DecryptToKey(c) ==
  LET k == GoParseKey(Decrypt[GoText(req[c])])
  IN  /\ Continue(c, "decrypt", "lock")
      /\ k # NoKey
      /\ local' = [local EXCEPT ![c] = k]
      /\ UNCHANGED mutexVars

DecryptToInvalidKey(c) ==
  /\ Answer(c, "decrypt", Refused, "respond")
  /\ GoParseKey(Decrypt[GoText(req[c])]) = NoKey
  /\ UNCHANGED <<mutexVars, local>>

\* Mutant: the error of decryptViaNode is dropped.
DecryptFailsUnnoticed(c) ==
  /\ Answer(c, "decrypt", Updated, "respond")
  /\ UNCHANGED <<mutexVars, local>>

DecryptFails(c) ==
  /\ Answer(c, "decrypt", Refused, "respond")
  /\ UNCHANGED <<mutexVars, local>>

\* Mutant: an RLock where a Lock is due, which admits readers.
LockAmongReaders(c) ==
  /\ writer = NoCall
  /\ Continue(c, "lock", "store")
  /\ writer' = c
  /\ UNCHANGED <<readers, local>>

Lock(c) ==
  /\ writer = NoCall /\ readers = {}
  /\ Continue(c, "lock", "store")
  /\ writer' = c
  /\ UNCHANGED <<readers, local>>

Store(c) ==
  /\ pc[c] = "store"
  /\ pc' = [pc EXCEPT ![c] = "unlock"]
  /\ StoreKey(c, local[c])
  /\ UNCHANGED <<req, res, since, arrivals, mutexVars, local>>

Unlock(c) ==
  /\ Answer(c, "unlock", Updated, "respond")
  /\ writer' = NoCall
  /\ UNCHANGED <<readers, local>>

RLock(c) ==
  /\ writer = NoCall
  /\ Continue(c, "rlock", "read")
  /\ readers' = readers \cup {c}
  /\ UNCHANGED <<writer, local>>

Read(c) ==
  /\ Continue(c, "read", "runlock")
  /\ local' = [local EXCEPT ![c] = key]
  /\ UNCHANGED mutexVars

\* The reply is computed from the local copy, after the lock is released.
ReadReply(rq, k) ==
  IF GoOp(rq) = "STATE" THEN StateReport(k) ELSE SignReply(k, GoText(rq))

RUnlock(c) ==
  /\ Answer(c, "runlock", ReadReply(req[c], local[c]), "respond")
  /\ readers' = readers \ {c}
  /\ UNCHANGED <<writer, local>>

Respond(c) == Depart(c) /\ UNCHANGED <<mutexVars, local>>

Crash ==
  /\ CallsCrash
  /\ writer' = NoCall
  /\ readers' = {}
  /\ local' = [c \in Calls |-> NoKey]

-----------------------------------------------------------------------------
NodeStep(c) == DecryptToKey(c) \/ DecryptToInvalidKey(c) \/ DecryptFails(c)

ServerStep(c) ==
  \/ RouteToError(c) \/ RefuseEmptyUpdate(c) \/ BeginUpdate(c) \/ BeginRead(c)
  \/ Lock(c) \/ Store(c) \/ Unlock(c)
  \/ RLock(c) \/ Read(c) \/ RUnlock(c)
  \/ Respond(c)

Next ==
  \/ \E c \in Calls : Receive(c) \/ ServerStep(c) \/ NodeStep(c)
  \/ Crash

Spec == Init /\ [][Next]_vars

\* The scheduler runs every goroutine, and sync.RWMutex admits every waiter.
\* The node is free never to answer.
FairSpec == Spec /\ \A c \in Calls : WF_vars(ServerStep(c))

-----------------------------------------------------------------------------
TypeOK ==
  /\ key \in Stored
  /\ pc \in [Calls -> PCs]
  /\ req \in [Calls -> Requests]
  /\ res \in [Calls -> Replies]
  /\ history \in Seq([key : Stored, by : Calls \cup {NoCall}])
  /\ since \in [Calls -> Nat]
  /\ arrivals \in Seq(Calls)
  /\ writer \in Calls \cup {NoCall}
  /\ readers \subseteq Calls
  /\ local \in [Calls -> Stored]

\* While one goroutine is about to assign privateKey no other is about to
\* assign or to read it: extension.go:21's "Access is serialized by the mutex".
NoDataRace ==
  \A c, d \in Calls :
    c # d /\ pc[c] = "store" => pc[d] \notin {"store", "read"}

\* Every call ends, or waits for the node to decrypt its own key: no lock is
\* held across that request, so that GET /state, SIGN and the other updates
\* are answered even when the node never answers.
WaitsOnlyForOwnDecryption ==
  \A c \in Calls : UnderWay(c) ~> ~UnderWay(c) \/ pc[c] = "decrypt"

-----------------------------------------------------------------------------
(* Refinement: the call takes effect at its Store or Read step, or when its *)
(* error reply is decided.                                                  *)

AbsPhase(c) ==
  CASE pc[c] \in Ended -> pc[c]
    [] pc[c] \in {"unlock", "runlock", "respond"} -> "applied"
    [] OTHER -> "open"

AbsRes(c) ==
  CASE pc[c] = "lost" -> NoReply
    [] pc[c] = "unlock" -> Updated
    [] pc[c] = "runlock" -> ReadReply(req[c], local[c])
    [] OTHER -> res[c]

Register == INSTANCE KeyRegister WITH
  phase <- [c \in Calls |-> AbsPhase(c)],
  res <- [c \in Calls |-> AbsRes(c)],
  Op <- GoOp, Text <- GoText, ParseKey <- GoParseKey

\* Concurrent calls of the Go server are linearizable: together they behave
\* as the register of KeyRegister.
ImplementsRegister == Register!Spec
=============================================================================
