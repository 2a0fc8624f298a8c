----------------------------- MODULE KeyRegister -----------------------------
(***************************************************************************)
(* What the sign extension promises, whatever the language it is written    *)
(* in: one register holding the private key, on which every call takes      *)
(* effect at a single instant between its arrival and its reply.  The key    *)
(* lives in memory only, so a restart empties the register and every call   *)
(* under way is lost.                                                       *)
(***************************************************************************)
EXTENDS SignProtocol

CONSTANTS
  Calls,       \* the HTTP exchanges of a behaviour
  Op(_),       \* the operation a request asks for, or an HTTP error code
  Text(_),     \* the content of a request's message, or Unreadable
  ParseKey(_)  \* the key a plaintext yields, or NoKey

VARIABLES
  key,    \* the stored key, or NoKey
  phase,  \* of each call: idle, open, applied, closed or lost
  req,    \* the request of each call that is not idle
  res     \* the reply of each call that is applied or closed

vars == <<key, phase, req, res>>

Init ==
  /\ key = NoKey
  /\ phase = [c \in Calls |-> "idle"]
  /\ req \in [Calls -> Requests]
  /\ res = [c \in Calls |-> NoReply]

Open(c) ==
  /\ phase[c] = "idle"
  /\ \E rq \in Requests : req' = [req EXCEPT ![c] = rq]
  /\ phase' = [phase EXCEPT ![c] = "open"]
  /\ UNCHANGED <<key, res>>

Apply(c, k, r) ==
  /\ phase[c] = "open"
  /\ key' = k
  /\ res' = [res EXCEPT ![c] = r]
  /\ phase' = [phase EXCEPT ![c] = "applied"]
  /\ UNCHANGED req

\* A request no handler takes is answered with an HTTP error.
Reject(c) ==
  /\ Op(req[c]) \in HttpErrors
  /\ Apply(c, key, HttpError(Op(req[c])))

\* An update that fails leaves the key as it was.
RefuseUpdate(c) ==
  /\ Op(req[c]) = "UPDATE"
  /\ Apply(c, key, Refused)

\* An update that succeeds stores the key its own ciphertext decrypts to.
Update(c) ==
  /\ Op(req[c]) = "UPDATE"
  /\ Text(req[c]) \in Messages
  /\ ParseKey(Decrypt[Text(req[c])]) # NoKey
  /\ Apply(c, ParseKey(Decrypt[Text(req[c])]), Updated)

Sign(c) ==
  /\ Op(req[c]) = "SIGN"
  /\ Apply(c, key, SignReply(key, Text(req[c])))

Report(c) ==
  /\ Op(req[c]) = "STATE"
  /\ Apply(c, key, StateReport(key))

Close(c) ==
  /\ phase[c] = "applied"
  /\ phase' = [phase EXCEPT ![c] = "closed"]
  /\ UNCHANGED <<key, req, res>>

Restart ==
  /\ key' = NoKey
  /\ phase' = [c \in Calls |->
                 IF phase[c] \in {"open", "applied"} THEN "lost" ELSE phase[c]]
  /\ res' = [c \in Calls |->
               IF phase[c] \in {"open", "applied"} THEN NoReply ELSE res[c]]
  /\ UNCHANGED req

Next ==
  \/ \E c \in Calls :
       \/ Open(c) \/ Close(c)
       \/ Reject(c) \/ RefuseUpdate(c) \/ Update(c) \/ Sign(c) \/ Report(c)
  \/ Restart

Spec == Init /\ [][Next]_vars
=============================================================================
