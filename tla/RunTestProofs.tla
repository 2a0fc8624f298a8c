---------------------------- MODULE RunTestProofs ----------------------------
(***************************************************************************)
(* Proofs about run-test, for any number of machines, of pending            *)
(* instructions and of faults: a test that passes has set the key itself,   *)
(* and a test that fails has been disturbed.                                *)
(***************************************************************************)
EXTENDS RunTest, FiniteSetTheorems, TLAPS

-----------------------------------------------------------------------------
(* Instruction ids.                                                         *)

\* The chain gives an instruction an id that no pending one has.
LEMMA NewIdIsNew ==
  ASSUME IsFiniteSet(queue), queue \subseteq Instructions, awaited \in Nat
  PROVE  NewId \in Nat \ {0} /\ NewId # awaited /\ \A q \in queue : q.id # NewId
  <1> DEFINE Ids == {q.id : q \in queue}
             Room == 1 .. Cardinality(queue) + 2
  <1>1. Cardinality(queue) \in Nat
    BY FS_CardinalityType
  <1>2. IsFiniteSet(Ids) /\ Cardinality(Ids) <= Cardinality(queue)
    <2>1. [q \in queue |-> q.id] \in Surjection(queue, Ids)
      BY DEF Surjection
    <2>2. QED
      BY <2>1, FS_Surjection
  <1>3. /\ IsFiniteSet(Ids \cup {awaited})
        /\ Cardinality(Ids \cup {awaited}) <= Cardinality(queue) + 1
    <2> HIDE DEF Ids
    <2>1. Cardinality(Ids) \in Nat
      BY <1>2, FS_CardinalityType
    <2>2. /\ IsFiniteSet(Ids \cup {awaited})
          /\ Cardinality(Ids \cup {awaited}) =
               IF awaited \in Ids THEN Cardinality(Ids) ELSE Cardinality(Ids) + 1
      BY <1>2, FS_AddElement, Zenon
    <2>3. QED
      BY <1>1, <1>2, <2>1, <2>2
  <1>4. IsFiniteSet(Room) /\ Cardinality(Room) = Cardinality(queue) + 2
    <2>1. ASSUME NEW n \in Nat
          PROVE  IsFiniteSet(1 .. n + 2) /\ Cardinality(1 .. n + 2) = n + 2
      <3>1. 1 \in Int /\ n + 2 \in Int /\ ~(1 > n + 2)
        OBVIOUS
      <3>2. /\ IsFiniteSet(1 .. n + 2)
            /\ Cardinality(1 .. n + 2) = IF 1 > n + 2 THEN 0 ELSE (n + 2) - 1 + 1
        BY <3>1, FS_Interval, Zenon
      <3>3. QED
        BY <3>1, <3>2
    <2>2. QED
      BY <1>1, <2>1, Zenon
  <1>5. ~(Room \subseteq Ids \cup {awaited})
    <2>1. SUFFICES ASSUME Room \subseteq Ids \cup {awaited} PROVE FALSE
      OBVIOUS
    <2>2. Cardinality(Room) <= Cardinality(Ids \cup {awaited})
      BY <1>3, <2>1, FS_Subset
    <2>3. Cardinality(Ids \cup {awaited}) \in Nat
      BY <1>3, FS_CardinalityType
    <2>4. QED
      BY <1>1, <1>3, <1>4, <2>2, <2>3
  <1>6. PICK i \in Room : i \notin Ids \cup {awaited}
    BY <1>5
  <1>7. NewId \in Room /\ NewId \notin Ids \cup {awaited}
    BY <1>6 DEF NewId
  <1>8. QED
    BY <1>1, <1>7

-----------------------------------------------------------------------------
(* The inductive invariant.                                                 *)

\* The pending instructions: their ids differ, an update carries a key, and
\* the one that is awaited is pending until its result is there.
QueueInv ==
  /\ IsFiniteSet(queue)
  /\ \A q \in queue :
       /\ q.id # 0
       /\ q.opCommand = "UPDATE" => q.key \in {"test", "other"}
       /\ result # None => q.id # awaited
  /\ \A q, r \in queue : q.id = r.id => q = r

\* An acknowledged update was this run's, and it signs only after one.
UpdatedInv ==
  /\ result = "updated" => updated
  /\ at \in {"sign", "pollSign", "passed"} => updated

Pending(opCommand, for, key) ==
  result = None /\ \E q \in queue :
    q.id = awaited /\ q.opCommand = opCommand /\ q.for = for /\ q.key = key

\* What a run that nothing has disturbed can rely on, step by step.
SmoothRun ==
  /\ Healthy
  /\ at # "setId" => extensionId[Contract] # 0
  /\ at \in {"update", "pollUpdate", "sign", "pollSign"} => target = node
  /\ at = "pollUpdate" =>
       \/ Pending("UPDATE", node, "test")
       \/ result = "updated" /\ held = "test"
  /\ at \in {"sign", "pollSign"} => held = "test"
  /\ at = "pollSign" => result = "test" \/ Pending("SIGN", None, None)

UndisturbedInv ==
  /\ at = "failed" => disturbed
  /\ ~disturbed /\ at \notin Ended => SmoothRun

TestInv == TypeOK /\ QueueInv /\ UpdatedInv /\ UndisturbedInv

LEMMA TestInvInit == Init => TestInv
  <1> SUFFICES ASSUME Init PROVE TestInv
    OBVIOUS
  <1>1. TypeOK
    <2>1. PICK m \in Machines :
            /\ node = m /\ info = m
            /\ machineOf \in {[n \in Machines |-> 0],
                              [n \in Machines |-> IF n = m THEN FirstPublicId ELSE 0]}
      BY DEF Init
    <2>2. machineOf \in [Machines -> {0, FirstPublicId}]
      BY <2>1
    <2>3. faults \in 0 .. MaxFaults /\ extensionId \in [Senders -> {0, FirstPublicId}]
      BY RunTestAssumption DEF Init
    <2>4. queue = {} /\ updated = FALSE /\ disturbed = FALSE
      BY DEF Init
    <2>5. QED
      BY <2>1, <2>2, <2>3, <2>4 DEF Init, TypeOK, None, Ended
  <1>2. QueueInv
    BY FS_EmptySet DEF Init, QueueInv
  <1>3. UpdatedInv /\ UndisturbedInv
    BY DEF Init, UpdatedInv, UndisturbedInv, Ended, None
  <1>4. QED
    BY <1>1, <1>2, <1>3 DEF TestInv

\* One more pending instruction, with a new id.
LEMMA QueueGrows ==
  ASSUME TypeOK, QueueInv, NEW i \in Instructions, i.id = NewId,
         i.opCommand = "UPDATE" => i.key \in {"test", "other"}
  PROVE  /\ IsFiniteSet(queue \cup {i})
         /\ \A q \in queue \cup {i} :
              q.id # 0 /\ (q.opCommand = "UPDATE" => q.key \in {"test", "other"})
         /\ \A q, r \in queue \cup {i} : q.id = r.id => q = r
         /\ i.id # awaited /\ \A q \in queue : q.id # i.id
  <1>1. IsFiniteSet(queue \cup {i})
    BY FS_AddElement DEF QueueInv
  <1>2. i.id \in Nat \ {0} /\ i.id # awaited /\ \A q \in queue : q.id # i.id
    BY NewIdIsNew DEF QueueInv, TypeOK
  <1>3. QED
    BY <1>1, <1>2 DEF QueueInv

\* The types, one action after the other.
LEMMA TypesKept == TypeOK /\ QueueInv /\ [Next]_vars => TypeOK'
  <1> SUFFICES ASSUME TypeOK, QueueInv, [Next]_vars PROVE TypeOK'
    OBVIOUS
  <1> USE RunTestAssumption, SenderAssumption
      DEF TypeOK, contractVars, clientVars, teeVars, Ended, None
  <1>1. CASE Begin \/ FetchInfo \/ SendReverts \/ PollUpdate \/ PollSign
    <2>1. CASE Begin
      BY <2>1 DEF Begin, Healthy
    <2>2. CASE FetchInfo \/ SendReverts \/ PollUpdate \/ PollSign
      BY <2>2 DEF FetchInfo, SendReverts, PollUpdate, PollSign
    <2>3. QED
      BY <1>1, <2>1, <2>2
  <1>2. CASE GiveUp
    <2>1. CASE \E q \in queue : q.id = awaited
      <3>1. faults' = faults + 1 /\ faults < MaxFaults /\ disturbed' = TRUE
        BY <1>2, <2>1, Zenon DEF GiveUp, Fault
      <3>2. QED
        BY <1>2, <3>1 DEF GiveUp
    <2>2. CASE ~\E q \in queue : q.id = awaited
      BY <1>2, <2>2 DEF GiveUp
    <2>3. QED
      BY <2>1, <2>2
  <1>3. CASE TestSetsId \/ OtherSetsId
    BY <1>3 DEF TestSetsId, OtherSetsId, SetExtensionId, PublicIds, NextPublicExtensionId
  <1>4. CASE RequestFails \/ NodeRestarts \/ StartServices
    <2>1. CASE RequestFails
      BY <2>1 DEF RequestFails, Fault
    <2>2. CASE NodeRestarts
      BY <2>2 DEF NodeRestarts, Fault, Unused
    <2>3. CASE StartServices
      BY <2>3 DEF StartServices, Unused
    <2>4. QED
      BY <1>4, <2>1, <2>2, <2>3
  <1>5. CASE PostBuild
    BY <1>5 DEF PostBuild
  <1>6. ASSUME NEW m \in Machines, SendUpdateKey(m) \/ SendSign(m) PROVE TypeOK'
    <2>1. NewId \in Nat
      BY NewIdIsNew DEF QueueInv
    <2>2. QED
      BY <1>6, <2>1 DEF SendUpdateKey, SendSign, Send, Instructions
  <1>7. ASSUME NEW q \in queue, Answers(q) PROVE TypeOK'
    <2>1. /\ Outcome(q) \in {"refused", "updated", "test", "other"}
          /\ Outcome(q) = "updated" => q.key \in {"test", "other"}
      BY <1>7 DEF Outcome, QueueInv, Instructions
    <2>2. held' \in {None, "test", "other"} /\ queue' \subseteq Instructions
      BY <1>7, <2>1 DEF Answers
    <2>3. result' \in {None, "refused", "updated", "test", "other"}
      BY <1>7, <2>1 DEF Answers
    <2>4. updated' \in BOOLEAN
      BY <1>7 DEF Answers
    <2>5. UNCHANGED <<contractVars, at, target, awaited, node, info, disturbed, faults>>
      BY <1>7 DEF Answers
    <2>6. QED
      BY <2>2, <2>3, <2>4, <2>5
  <1>8. ASSUME NEW k \in {"test", "other"}, OtherUpdates(k) PROVE TypeOK'
    <2>1. NewId \in Nat
      BY NewIdIsNew DEF QueueInv
    <2>2. queue' \subseteq Instructions
      <3>1. [id |-> NewId, opCommand |-> "UPDATE", for |-> node, key |-> k] \in Instructions
        BY <1>8, <2>1 DEF Instructions
      <3>2. QED
        BY <1>8, <3>1 DEF OtherUpdates
    <2>3. disturbed' \in BOOLEAN
      BY <1>8 DEF OtherUpdates
    <2>4. faults' \in 0 .. MaxFaults
      BY <1>8 DEF OtherUpdates, Fault
    <2>5. UNCHANGED <<contractVars, clientVars, teeVars, updated>>
      BY <1>8 DEF OtherUpdates
    <2>6. QED
      BY <2>2, <2>3, <2>4, <2>5
  <1>9. CASE UNCHANGED vars
    BY <1>9 DEF vars
  <1>10. QED
    BY <1>1, <1>2, <1>3, <1>4, <1>5, <1>6, <1>7, <1>8, <1>9 DEF Next, Steps

LEMMA QueueKept == TestInv /\ [Next]_vars => QueueInv'
  <1> SUFFICES ASSUME TestInv, [Next]_vars PROVE QueueInv'
    OBVIOUS
  <1> USE DEF TestInv, contractVars, clientVars, teeVars
  <1>1. CASE \/ Begin \/ TestSetsId \/ FetchInfo \/ SendReverts \/ PollUpdate
             \/ PollSign \/ GiveUp \/ RequestFails \/ OtherSetsId \/ PostBuild
    BY <1>1 DEF QueueInv, Begin, TestSetsId, FetchInfo, SendReverts, PollUpdate,
       PollSign, GiveUp, RequestFails, OtherSetsId, PostBuild
  <1>2. CASE NodeRestarts \/ StartServices
    BY <1>2, FS_EmptySet DEF QueueInv, NodeRestarts, StartServices
  <1>3. ASSUME NEW m \in Machines, NEW i \in Instructions, i.id = NewId, Send(m, i),
               i.opCommand = "UPDATE" => i.key \in {"test", "other"}
        PROVE  QueueInv'
    BY <1>3, QueueGrows DEF Send, QueueInv
  <1>4. ASSUME NEW m \in Machines, SendUpdateKey(m) PROVE QueueInv'
    <2>1. [id |-> NewId, opCommand |-> "UPDATE", for |-> target, key |-> "test"]
            \in Instructions
      BY NewIdIsNew DEF TypeOK, QueueInv, Instructions
    <2>2. QED
      BY <1>4, <1>3, <2>1 DEF SendUpdateKey
  <1>5. ASSUME NEW m \in Machines, SendSign(m) PROVE QueueInv'
    <2>1. [id |-> NewId, opCommand |-> "SIGN", for |-> None, key |-> None]
            \in Instructions
      BY NewIdIsNew DEF TypeOK, QueueInv, Instructions
    <2>2. QED
      BY <1>5, <1>3, <2>1 DEF SendSign
  <1>6. ASSUME NEW q \in queue, Answers(q) PROVE QueueInv'
    BY <1>6, FS_RemoveElement DEF Answers, QueueInv
  <1>7. ASSUME NEW k \in {"test", "other"}, OtherUpdates(k) PROVE QueueInv'
    <2> DEFINE i == [id |-> NewId, opCommand |-> "UPDATE", for |-> node, key |-> k]
    <2>1. i \in Instructions
      BY NewIdIsNew DEF TypeOK, QueueInv, Instructions
    <2>2. i.id = NewId /\ i.key = k /\ queue' = queue \cup {i}
          /\ awaited' = awaited /\ result' = result
      BY <1>7 DEF OtherUpdates
    <2> HIDE DEF i
    <2>3. QED
      BY <2>1, <2>2, QueueGrows DEF QueueInv
  <1>8. CASE UNCHANGED vars
    BY <1>8 DEF vars, QueueInv
  <1>9. QED
    BY <1>1, <1>2, <1>4, <1>5, <1>6, <1>7, <1>8 DEF Next, Steps

LEMMA UpdatedKept == TestInv /\ [Next]_vars => UpdatedInv'
  <1> SUFFICES ASSUME TestInv, [Next]_vars PROVE UpdatedInv'
    OBVIOUS
  <1> USE DEF TestInv, TypeOK, UpdatedInv, contractVars, clientVars, teeVars, Ended, None
  <1>1. CASE Steps
    BY <1>1 DEF Steps, Begin, TestSetsId, FetchInfo, SendReverts, PollUpdate,
       PollSign, GiveUp
  <1>2. CASE RequestFails \/ OtherSetsId \/ NodeRestarts \/ StartServices \/ PostBuild
    BY <1>2 DEF RequestFails, OtherSetsId, NodeRestarts, StartServices, PostBuild
  <1>3. ASSUME NEW m \in Machines, SendUpdateKey(m) \/ SendSign(m) PROVE UpdatedInv'
    BY <1>3 DEF SendUpdateKey, SendSign, Send
  <1>4. ASSUME NEW q \in queue, Answers(q) PROVE UpdatedInv'
    BY <1>4 DEF Answers
  <1>5. ASSUME NEW k \in {"test", "other"}, OtherUpdates(k) PROVE UpdatedInv'
    BY <1>5 DEF OtherUpdates
  <1>6. CASE UNCHANGED vars
    BY <1>6 DEF vars
  <1>7. QED
    BY <1>1, <1>2, <1>3, <1>4, <1>5, <1>6 DEF Next

-----------------------------------------------------------------------------
(* A run that nothing disturbs goes smoothly.                               *)

\* The instructions of such a run reach the running machine, and no other.
LEMMA SmoothReaches ==
  ASSUME TypeOK, SmoothRun, at # "setId"
  PROVE  \A m \in Machines : Reaches(Contract, m) <=> m = node
  <1>1. extensionId[Contract] = FirstPublicId /\ SenderOf(FirstPublicId) = Contract
    BY RunTestAssumption, SenderAssumption DEF TypeOK, SmoothRun, SenderOf
  <1>2. \A m \in Machines : machineOf[m] # 0 <=> m = node
    BY DEF TypeOK, SmoothRun, Healthy
  <1>3. QED
    BY <1>1, <1>2, RunTestAssumption, SenderAssumption DEF TypeOK, Reaches, GetActiveTeeMachines

\* The client's own steps.
LEMMA ClientSmooth == TestInv /\ Steps => UndisturbedInv'
  <1> SUFFICES ASSUME TestInv, Steps PROVE UndisturbedInv'
    OBVIOUS
  <1> USE RunTestAssumption, SenderAssumption
      DEF TestInv, TypeOK, UndisturbedInv, SmoothRun, Healthy, Pending, Ended,
          contractVars, clientVars, teeVars, None
  <1>1. CASE Begin
    BY <1>1 DEF Begin
  <1>2. CASE TestSetsId
    BY <1>2 DEF TestSetsId, SetExtensionId, PublicIds, NextPublicExtensionId
  <1>3. CASE FetchInfo
    BY <1>3 DEF FetchInfo
  <1>4. CASE SendReverts
    BY <1>4, SmoothReaches DEF SendReverts
  <1>5. CASE PollUpdate \/ PollSign
    BY <1>5 DEF PollUpdate, PollSign
  <1>6. CASE GiveUp
    BY <1>6 DEF GiveUp
  <1>7. QED
    BY <1>1, <1>2, <1>3, <1>4, <1>5, <1>6 DEF Steps

\* The client's instructions, which wait to be carried out.
LEMMA SendSmooth ==
  ASSUME TestInv, NEW m \in Machines, SendUpdateKey(m) \/ SendSign(m)
  PROVE  UndisturbedInv'
  <1> USE DEF TestInv
  <1>1. SUFFICES ASSUME ~disturbed PROVE at' # "failed" /\ SmoothRun'
    BY DEF SendUpdateKey, SendSign, Send, UndisturbedInv
  <1>2. SmoothRun /\ at \in {"update", "sign"}
    BY <1>1 DEF SendUpdateKey, SendSign, UndisturbedInv, Ended
  <1>3. m = node
    BY <1>2, SmoothReaches DEF SendUpdateKey, SendSign, Send
  <1>4. Healthy' /\ extensionId'[Contract] # 0
    <2>1. /\ info' = info /\ node' = node /\ machineOf' = machineOf
          /\ extensionId' = extensionId
          /\ \A q \in queue' : q \in queue \/ q.key # "other"
      BY DEF SendUpdateKey, SendSign, Send, contractVars, teeVars, None
    <2>2. QED
      BY <1>2, <2>1 DEF SmoothRun, Healthy
  <1>5. CASE SendUpdateKey(m)
    <2> DEFINE i == [id |-> NewId, opCommand |-> "UPDATE", for |-> target, key |-> "test"]
    <2>1. /\ at' = "pollUpdate" /\ target' = target /\ node' = node
          /\ awaited' = NewId /\ queue' = queue \cup {i} /\ result' = None
      BY <1>3, <1>5 DEF SendUpdateKey, Send, teeVars
    <2>2. target = node
      BY <1>2 DEF SmoothRun
    <2>3. i \in queue' /\ i.id = awaited' /\ i.opCommand = "UPDATE" /\ i.for = node' /\ i.key = "test"
      BY <2>1, <2>2
    <2> HIDE DEF i
    <2>4. QED
      BY <1>4, <2>1, <2>2, <2>3 DEF SmoothRun, Pending
  <1>6. CASE SendSign(m)
    <2> DEFINE i == [id |-> NewId, opCommand |-> "SIGN", for |-> None, key |-> None]
    <2>1. /\ at = "sign" /\ at' = "pollSign" /\ target' = target /\ node' = node
          /\ awaited' = NewId /\ queue' = queue \cup {i} /\ result' = None
          /\ held' = held
      BY <1>3, <1>6 DEF SendSign, Send, teeVars
    <2>2. target = node /\ held = "test"
      BY <1>2, <2>1 DEF SmoothRun
    <2>3. i \in queue' /\ i.id = awaited' /\ i.opCommand = "SIGN" /\ i.for = None /\ i.key = None
      BY <2>1
    <2> HIDE DEF i
    <2>4. QED
      BY <1>4, <2>1, <2>2, <2>3 DEF SmoothRun, Pending
  <1>7. QED
    BY <1>1, <1>5, <1>6

\* The node's answers: in a smooth run every update is acknowledged with the
\* test key, whether it is this run's or not.
LEMMA AnswerSmooth ==
  ASSUME TestInv, NEW q \in queue, Answers(q)
  PROVE  UndisturbedInv'
  BY DEF TestInv, TypeOK, QueueInv, UndisturbedInv, SmoothRun, Healthy, Pending,
     Answers, Outcome, contractVars, clientVars, teeVars, Instructions, None, Ended

\* What others do either is harmless or counts as a disturbance.
LEMMA OthersSmooth ==
  ASSUME TestInv,
         \/ RequestFails \/ OtherSetsId \/ NodeRestarts \/ StartServices \/ PostBuild
         \/ \E k \in {"test", "other"} : OtherUpdates(k)
  PROVE  UndisturbedInv'
  <1> USE RunTestAssumption, SenderAssumption
      DEF TestInv, TypeOK, UndisturbedInv, SmoothRun, Healthy, Pending, Ended,
          contractVars, clientVars, teeVars, None
  <1>1. CASE RequestFails \/ NodeRestarts \/ StartServices
    BY <1>1 DEF RequestFails, NodeRestarts, StartServices
  <1>2. CASE OtherSetsId
    BY <1>2 DEF OtherSetsId, SetExtensionId, PublicIds, NextPublicExtensionId
  <1>3. CASE PostBuild
    BY <1>3 DEF PostBuild
  <1>4. ASSUME NEW k \in {"test", "other"}, OtherUpdates(k) PROVE UndisturbedInv'
    <2>1. /\ UNCHANGED <<contractVars, clientVars, teeVars, updated>>
          /\ \A q \in queue : q \in queue'
          /\ disturbed' = (disturbed \/ k = "other")
          /\ k # "other" => \A q \in queue' : q \in queue \/ q.key # "other"
      BY <1>4 DEF OtherUpdates
    <2>2. QED
      BY <2>1
  <1>5. QED
    BY <1>1, <1>2, <1>3, <1>4

LEMMA UndisturbedKept == TestInv /\ [Next]_vars => UndisturbedInv'
  <1> SUFFICES ASSUME TestInv, [Next]_vars PROVE UndisturbedInv'
    OBVIOUS
  <1>1. CASE UNCHANGED vars
    BY <1>1 DEF TestInv, UndisturbedInv, SmoothRun, Healthy, Pending, vars,
       contractVars, clientVars, teeVars
  <1>2. QED
    BY <1>1, ClientSmooth, SendSmooth, AnswerSmooth, OthersSmooth DEF Next

-----------------------------------------------------------------------------
(* The theorems.                                                            *)

\* In every behaviour, pending instructions have different ids, an update that
\* is acknowledged to the client is its own, and a run that nothing disturbs
\* talks to the one machine that runs, which holds the test key when it signs.
THEOREM RunTestInvariant == Spec => []TestInv
  <1>1. TestInv /\ [Next]_vars => TestInv'
    BY TypesKept, QueueKept, UpdatedKept, UndisturbedKept DEF TestInv
  <1>2. QED
    BY TestInvInit, <1>1, PTL DEF Spec

\* The variables of run-test keep their types in every behaviour; once it is
\* past FetchInfo the client has a machine to encrypt for.
THEOREM RunTestTypes == Spec => []TypeOK
  <1>1. TestInv => TypeOK
    BY DEF TestInv
  <1>2. QED
    BY <1>1, RunTestInvariant, PTL

\* A run-test that passes has had its own update acknowledged, whatever other
\* clients, earlier runs and replaced nodes have left behind.
THEOREM RunTestPassesOnOwnUpdate == Spec => []PassesOnOwnUpdate
  <1>1. TestInv => PassesOnOwnUpdate
    BY DEF TestInv, UpdatedInv, PassesOnOwnUpdate
  <1>2. QED
    BY <1>1, RunTestInvariant, PTL

\* A run-test fails only when something it cannot help has happened to it.
THEOREM RunTestFailureExplained == Spec => []FailureExplained
  <1>1. TestInv => FailureExplained
    BY DEF TestInv, UndisturbedInv, FailureExplained
  <1>2. QED
    BY <1>1, RunTestInvariant, PTL
=============================================================================
