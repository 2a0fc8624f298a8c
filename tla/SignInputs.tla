------------------------------ MODULE SignInputs ------------------------------
(* The inputs of the small instances of the three servers: the payloads, the *)
(* byte strings the node returns for them, and the requests callers send.    *)
EXTENDS ExtensionCalls, TLC

CONSTANTS m1, m2, m3, m4, m5

MCMessages == {m1, m2, m3, m4, m5}

\* A key of one byte and a curve of order 3: m1 and m2 decrypt to the two
\* keys; m3 to the order itself, whose scalar is zero; m4 to a byte string one
\* byte too long; m5 to a scalar above the order.
MCDecrypt ==
  (m1 :> [len |-> 1, val |-> 1]) @@ (m2 :> [len |-> 1, val |-> 2]) @@
  (m3 :> [len |-> 1, val |-> 3]) @@ (m4 :> [len |-> 2, val |-> 2]) @@
  (m5 :> [len |-> 1, val |-> 5])

MCPlaintexts == {MCDecrypt[m] : m \in MCMessages}

Action(type, command, form, m) ==
  [path |-> "action", body |-> "ok", opType |-> type, opCommand |-> command,
   form |-> form, msg |-> m]

GetState == [NoRequest EXCEPT !.path = "state"]

\* Updates with two messages, a signature, and a look at the state.
KeyRequests(a, b) ==
  {Action("KEY", "UPDATE", "hex", a), Action("KEY", "UPDATE", "hex", b),
   Action("KEY", "SIGN", "hex", a), GetState}

\* What the servers refuse, or treat differently.
OddRequests ==
  {Action("KEY", "UPDATE", "hex", m3), Action("KEY", "UPDATE", "hex", m4),
   Action("KEY", "UPDATE", "hex", m5), Action("KEY", "UPDATE", "absent", m1),
   Action("KEY", "UPDATE", "0x", m1), Action("KEY", "UPDATE", "badHex", m1),
   Action("KEY", "SIGN", "0x", m1), Action("KEY", "OTHER", "hex", m1),
   Action("OTHER", "SIGN", "hex", m1),
   [Action("KEY", "SIGN", "hex", m1) EXCEPT !.body = "badFixed"],
   [NoRequest EXCEPT !.path = "other"]}

AllRequests == KeyRequests(m1, m2) \cup OddRequests

\* Calls are interchangeable, so let them arrive in the order of their
\* numbers; and when one of them is odd, let there be only two.
Bounded ==
  /\ arrivals' = [i \in DOMAIN arrivals' |-> i]
  /\ (\E i \in DOMAIN arrivals' : req'[i] \in OddRequests) => Len(arrivals') <= 2
=============================================================================
