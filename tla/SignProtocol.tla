---------------------------- MODULE SignProtocol ----------------------------
(***************************************************************************)
(* What the three implementations of the sign extension (Go, Python and    *)
(* TypeScript) exchange with their callers and with the TEE node: requests, *)
(* replies, the routing of a request to a handler, and the conversion of a  *)
(* decrypted plaintext into a private key.  The module has no state.        *)
(*                                                                         *)
(* Data are reduced to what the properties tell apart.  A byte string is    *)
(* its length and its big-endian value, the key size is KeyLen bytes and    *)
(* the order of the curve is Order, so the boundaries of the key parser     *)
(* (empty, too long, zero, equal to the order, above it) all occur with     *)
(* small numbers.  The payload of a message is a member of Messages.        *)
(***************************************************************************)
EXTENDS Integers

CONSTANTS
  Messages,    \* the payloads of instructions
  KeyLen,      \* the length of a private key in bytes (32 in the code)
  Order,       \* the order of the curve (secp256k1's N in the code)
  Plaintexts,  \* byte strings the TEE node may return, as [len, val]
  Decrypt      \* the plaintext of each ciphertext the node can decrypt

ASSUME ProtocolAssumption ==
  /\ Messages # {}
  /\ KeyLen \in Nat \ {0}
  /\ Order \in Nat \ {0, 1}
  /\ Plaintexts \subseteq [len : Nat, val : Nat]
  /\ Decrypt \in [Messages -> Plaintexts]

-----------------------------------------------------------------------------
(* Keys.  The scalar 0 is never a key: it stands for the nil pointer.       *)

Keys == 1 .. (Order - 1)
NoKey == 0
Stored == Keys \cup {NoKey}

\* Each parser maps a plaintext to the key it yields, NoKey if it refuses it.

\* Mutant: the scalar is used as it came.
GoParseKeyUnreduced(p) ==
  IF p.len = 0 \/ p.len > KeyLen THEN NoKey ELSE p.val

\* Go reduces the scalar modulo the order before it tests for zero.
GoParseKey(p) ==
  IF p.len = 0 \/ p.len > KeyLen THEN NoKey ELSE p.val % Order

\* Mutant: the scalar is not compared with the order.
StrictParseKeyUnbounded(p) ==
  IF p.len = 0 \/ p.len > KeyLen \/ p.val = 0 THEN NoKey ELSE p.val

\* Python and TypeScript test the raw bytes for zero and refuse a scalar
\* that is not below the order.
StrictParseKey(p) ==
  IF p.len = 0 \/ p.len > KeyLen \/ p.val = 0 \/ p.val >= Order
  THEN NoKey ELSE p.val

-----------------------------------------------------------------------------
(* Requests.  "form" says how originalMessage was written: it may be        *)
(* missing, the string "0x", a hex string with a bad digit (whose valid     *)
(* prefix is msg), or a well-formed hex string.                             *)

Paths == {"action", "state", "other"}
Bodies == {"badAction", "badFixed", "ok"}
Forms == {"absent", "0x", "badHex", "hex"}

Requests ==
  [path : Paths, body : Bodies, opType : {"KEY", "OTHER"},
   opCommand : {"UPDATE", "SIGN", "OTHER"}, form : Forms, msg : Messages]

\* The value of a request variable before its call arrives.
NoRequest ==
  [path |-> "other", body |-> "badAction", opType |-> "OTHER",
   opCommand |-> "OTHER", form |-> "absent", msg |-> CHOOSE m \in Messages : TRUE]

\* The content of a message once decoded: Empty is the empty byte string,
\* Unreadable what the handler refuses before it uses it.
Empty == "empty"
Unreadable == "unreadable"
Contents == Messages \cup {Empty}

\* The handler the routing tables select for an instruction.
Handler(rq) ==
  IF rq.opType # "KEY" THEN "none"
  ELSE IF rq.opCommand \in {"UPDATE", "SIGN"} THEN rq.opCommand
  ELSE "none"

\* What the router does with a request: the name of a handler, or the code
\* of the HTTP error it answers at once.
Route(rq, otherCode) ==
  CASE rq.path = "other" -> otherCode
    [] rq.path = "state" -> "STATE"
    [] rq.path = "action" /\ rq.body # "ok" -> "400"
    [] OTHER -> IF Handler(rq) = "none" THEN "501" ELSE Handler(rq)

Operations == {"UPDATE", "SIGN", "STATE"}
HttpErrors == {"400", "404", "405", "501"}

-----------------------------------------------------------------------------
(* Replies.  signer and signed are the key and the content of a signature   *)
(* (NoKey and Empty when there is none), hasKey the report of GET /state.   *)

Replies ==
  [http : HttpErrors \cup {"200"}, status : {0, 1},
   signer : Stored, signed : Contents, hasKey : BOOLEAN]

Reply(http, status, signer, signed, hasKey) ==
  [http |-> http, status |-> status,
   signer |-> signer, signed |-> signed, hasKey |-> hasKey]

SignReply(k, text) ==
  IF k = NoKey \/ text = Unreadable
  THEN Reply("200", 0, NoKey, Empty, FALSE) ELSE Reply("200", 1, k, text, FALSE)

\* Mutant: the nil test is inverted.
StateReportInverted(k) == Reply("200", 1, NoKey, Empty, k = NoKey)

HttpError(code) == Reply(code, 0, NoKey, Empty, FALSE)
Refused == Reply("200", 0, NoKey, Empty, FALSE)
Updated == Reply("200", 1, NoKey, Empty, FALSE)
StateReport(k) == Reply("200", 1, NoKey, Empty, k # NoKey)
NoReply == HttpError("404")
=============================================================================
