--------------------------- MODULE Nfs4ClientProofs ---------------------------
(***************************************************************************)
(* Theorems about the slot table of nfs4-client and its users: first       *)
(* SessionSlots, for any number of actors and slots; then Keepalive, for   *)
(* any set of users beside the loop and any lease; then NfsClient, for any *)
(* number of callers and sessions.  Keepalive and NfsClient each extend    *)
(* the slot table; the variables of either are free in the theorems about  *)
(* the other.                                                              *)
(***************************************************************************)
EXTENDS Keepalive, NfsClient, FiniteSetTheorems, TLAPS

-----------------------------------------------------------------------------
(* The inductive invariants. *)

\* A running request still has its slot marked in use, and nobody has moved
\* the slot's sequence id since it was read.
HeldInUse ==
  \A a \in Actors : pc[a] # "idle" =>
    /\ inUse[held[a].slot]
    /\ held[a].seq = sequenceIds[held[a].slot]

TableInv == TypeOK /\ HeldInUse /\ SlotsExclusive

\* The sequence ids of a slot below the bound: never beyond the client's
\* counter, and never at it unless the slot is in use.
Spent(s, n) ==
  /\ n <= sequenceIds[s]
  /\ n = sequenceIds[s] => inUse[s]

\* Every (slot, sequence id) pair is sent once.
RetryInv ==
  /\ TableInv
  /\ \A s \in Slots : inUse[s] => sequenceIds[s] < MaxSeq
  /\ \A s \in Slots : Spent(s, srvSeq[s])
  /\ \A r \in net : Spent(r.slot, r.seq) /\ r.seq # srvSeq[r.slot]
  /\ \A r, q \in net : r.slot = q.slot /\ r.seq = q.seq => r = q
  /\ NoFalseRetry

\* Without failures a slot in use has at most one request on its way, which
\* is the one the server expects, or has been answered.
InStep ==
  /\ \A s \in Slots : ~inUse[s] => sequenceIds[s] = Inc(srvSeq[s])
  /\ \A a \in Actors : pc[a] = "waiting" => Request(a) \in net
  /\ \A a \in Actors : pc[a] = "answered" =>
       /\ srvSeq[held[a].slot] = held[a].seq
       /\ \A r \in net : r.slot # held[a].slot
  /\ \A r \in net : inUse[r.slot] /\ InTurn(r)
  /\ \A r, q \in net : r.slot = q.slot => r = q

StepInv == TableInv /\ (faults = 0 /\ srvAlive => InStep)

-----------------------------------------------------------------------------
\* u32 addition stays in range and never returns its argument.
LEMMA IncFacts ==
  ASSUME NEW n \in SeqIds
  PROVE  Inc(n) \in SeqIds /\ Inc(n) # n
  BY SlotsAssumption DEF Inc, SeqIds

\* Below the bound it is plain addition.
LEMMA IncBelowBound ==
  ASSUME NEW n \in SeqIds, n < MaxSeq, MaxSeq < SeqSpace
  PROVE  Inc(n) = n + 1
  BY SlotsAssumption DEF Inc, SeqIds

\* Init establishes the type invariant.
LEMMA InitType == Init => TypeOK
  BY SlotsAssumption
  DEF Init, TypeOK, NewSlotTable, Slots, SeqIds, Tickets, Results

\* Every step of the specification preserves the type invariant.
LEMMA NextType == TypeOK /\ [Next]_vars => TypeOK'
<1> SUFFICES ASSUME TypeOK, [Next]_vars PROVE TypeOK'
  OBVIOUS
<1> USE SlotsAssumption DEF TypeOK
<1>1. ASSUME NEW a \in Actors, StartRequest(a) PROVE TypeOK'
  BY <1>1 DEF StartRequest, TryAllocSlot, Tickets, Requests, Results
<1>2. ASSUME NEW a \in Actors, NoSlotFree(a) PROVE TypeOK'
  BY <1>2 DEF NoSlotFree, slotTable, server, Results
<1>3. ASSUME NEW a \in Actors, FinishRequest(a) PROVE TypeOK'
  <2>1. held[a].slot \in Slots
    BY DEF Tickets
  <2>2. Inc(sequenceIds[held[a].slot]) \in SeqIds
    BY <2>1, IncFacts
  <2> QED
    BY <1>3, <2>1, <2>2 DEF FinishRequest, ReleaseSlot, server
<1>4. ASSUME NEW a \in Actors, DropRequest(a) PROVE TypeOK'
  BY <1>4 DEF DropRequest, slotTable, server
<1>5. ASSUME NEW r \in net, NEW v \in Results, Answer(r, v)
      PROVE  /\ pc' \in [Actors -> {"idle", "waiting", "answered"}]
             /\ result' \in [Actors -> Results]
             /\ held' = held
  BY <1>5 DEF Answer, Requests
<1>6. ASSUME NEW r \in net, Execute(r) \/ LoseReply(r) PROVE TypeOK'
  BY <1>5, <1>6 DEF Execute, LoseReply, Executed, slotTable, Requests, Results
<1>7. ASSUME NEW r \in net, FailUnexecuted(r) \/ EarlyError(r) PROVE TypeOK'
  BY <1>5, <1>7 DEF FailUnexecuted, EarlyError, slotTable, server, Results
<1>8. ASSUME NEW r \in net,
             Replay(r) \/ RejectMisordered(r) \/ RejectBadSession(r)
      PROVE  TypeOK'
  BY <1>5, <1>8
  DEF Replay, RejectMisordered, RejectBadSession, slotTable, Results
<1>9. CASE ForgetSession
  BY <1>9 DEF ForgetSession, slotTable, tasks
<1>10. CASE UNCHANGED vars
  BY <1>10 DEF vars, slotTable, tasks, server
<1> QED
  BY <1>1, <1>2, <1>3, <1>4, <1>6, <1>7, <1>8, <1>9, <1>10
  DEF Next, ServerStep, FaultStep

\* Every variable keeps its type: sequence ids stay u32 values, and a task
\* only ever holds a slot of the table.
THEOREM TypeCorrect == Spec => []TypeOK
  BY InitType, NextType, PTL DEF Spec

-----------------------------------------------------------------------------
(* Exclusive slots. *)

\* What the server and the transport can do to the tasks: answer the awaited
\* request, and nothing else.
LEMMA AnswerFacts ==
  ASSUME TypeOK, NEW r \in net, ServerStep(r) \/ FaultStep(r)
  PROVE  /\ UNCHANGED <<inUse, sequenceIds, held, srvAlive, drops>>
         /\ \A a \in Actors :
              \/ pc'[a] = pc[a] /\ result'[a] = result[a]
              \/ a = r.actor /\ Awaited(r) /\ pc'[a] = "answered"
         /\ net' \in {net, net \ {r}}
<1> USE DEF TypeOK, Requests, slotTable, server
<1>1. ASSUME NEW v, Answer(r, v)
      PROVE  /\ held' = held
             /\ \A a \in Actors :
                  \/ pc'[a] = pc[a] /\ result'[a] = result[a]
                  \/ a = r.actor /\ Awaited(r) /\ pc'[a] = "answered"
  BY <1>1 DEF Answer
<1>2. CASE Execute(r) \/ LoseReply(r)
  BY <1>1, <1>2 DEF Execute, LoseReply, Executed
<1>3. CASE FailUnexecuted(r) \/ EarlyError(r)
  BY <1>1, <1>3 DEF FailUnexecuted, EarlyError
<1>4. CASE Replay(r) \/ RejectMisordered(r) \/ RejectBadSession(r)
  BY <1>1, <1>4 DEF Replay, RejectMisordered, RejectBadSession
<1> QED
  BY <1>2, <1>3, <1>4 DEF ServerStep, FaultStep

LEMMA InitTable == Init => TableInv
  BY InitType DEF Init, TableInv, HeldInUse, SlotsExclusive, Holds

LEMMA NextTable == TableInv /\ [Next]_vars => TableInv'
<1> SUFFICES ASSUME TableInv, [Next]_vars PROVE TableInv'
  OBVIOUS
<1>0. TypeOK /\ TypeOK'
  BY NextType DEF TableInv
<1>t. \A a \in Actors : held[a].slot \in Slots
  BY <1>0 DEF TypeOK, Tickets
<1> USE <1>0, <1>t DEF TableInv, HeldInUse, SlotsExclusive, Holds
<1>1. ASSUME NEW a \in Actors, StartRequest(a) PROVE TableInv'
  <2>1. PICK s \in Slots :
          /\ TryAllocSlot(s)
          /\ held' = [held EXCEPT ![a] = [slot |-> s, seq |-> sequenceIds[s]]]
    BY <1>1 DEF StartRequest
  <2>2. \A b \in Actors : b # a /\ pc[b] # "idle" => held[b].slot # s
    BY <2>1 DEF TryAllocSlot
  <2> QED
    BY <1>1, <2>1, <2>2 DEF StartRequest, TryAllocSlot, TypeOK
<1>2. ASSUME NEW a \in Actors, FinishRequest(a) PROVE TableInv'
  BY <1>2 DEF FinishRequest, ReleaseSlot, TypeOK
<1>3. ASSUME NEW a \in Actors, NoSlotFree(a) \/ DropRequest(a)
      PROVE  TableInv'
  BY <1>3 DEF NoSlotFree, DropRequest, slotTable, TypeOK
<1>4. ASSUME NEW r \in net, ServerStep(r) \/ FaultStep(r) PROVE TableInv'
  <2>1. \A a \in Actors : pc'[a] # "idle" => pc[a] # "idle"
    BY <1>4, AnswerFacts DEF Awaited
  <2> QED
    BY <1>4, <2>1, AnswerFacts
<1>5. CASE ForgetSession \/ UNCHANGED vars
  BY <1>5 DEF ForgetSession, vars, slotTable, tasks
<1> QED
  BY <1>1, <1>2, <1>3, <1>4, <1>5 DEF Next

\* try_alloc_slot never gives two running requests the same slot, whatever
\* fails and whichever futures are dropped.
THEOREM Exclusive == Spec => []SlotsExclusive
<1>1. TableInv => SlotsExclusive
  BY DEF TableInv
<1> QED
  BY <1>1, InitTable, NextTable, PTL DEF Spec

-----------------------------------------------------------------------------
(* Every slot is accounted for. *)

\* The slots in use that no running request holds.
Abandoned == {s \in Slots : inUse[s] /\ ~\E a \in Actors : Holds(a, s)}

AccountInv == TableInv /\ SlotsAccounted

LEMMA SlotSetsFinite ==
  ASSUME NEW S \in SUBSET Slots
  PROVE  IsFiniteSet(S)
<1>1. 0 \in Int /\ NumSlots - 1 \in Int
  BY SlotsAssumption
<1>2. IsFiniteSet(Slots)
  BY <1>1, FS_Interval DEF Slots
<1> QED
  BY <1>2, FS_Subset

\* What a request does to the abandoned slots from start to end: nothing.
LEMMA StartAbandonsNone ==
  ASSUME TableInv, NEW a \in Actors, StartRequest(a)
  PROVE  Abandoned' = Abandoned
<1>0. TypeOK /\ \A b \in Actors : held[b].slot \in Slots
  BY DEF TableInv, TypeOK, Tickets
<1>1. PICK s \in Slots :
        /\ ~inUse[s]
        /\ inUse' = [inUse EXCEPT ![s] = TRUE]
        /\ held' = [held EXCEPT ![a] = [slot |-> s, seq |-> sequenceIds[s]]]
  BY DEF StartRequest, TryAllocSlot
<1>2. pc[a] = "idle" /\ pc' = [pc EXCEPT ![a] = "waiting"]
  BY DEF StartRequest
<1>3. \A t \in Slots, b \in Actors : t # s => (Holds(b, t)' <=> Holds(b, t))
  BY <1>0, <1>1, <1>2 DEF Holds, TypeOK
<1>4. Holds(a, s)'
  BY <1>0, <1>1, <1>2 DEF Holds, TypeOK
<1>5. \A t \in Slots : t # s => inUse'[t] = inUse[t]
  BY <1>0, <1>1 DEF TypeOK
<1> QED
  BY <1>1, <1>3, <1>4, <1>5 DEF Abandoned

LEMMA FinishAbandonsNone ==
  ASSUME TableInv, NEW a \in Actors, FinishRequest(a)
  PROVE  Abandoned' = Abandoned
<1>0. TypeOK /\ held[a].slot \in Slots
  BY DEF TableInv, TypeOK, Tickets
<1>1. /\ pc[a] = "answered" /\ pc' = [pc EXCEPT ![a] = "idle"]
      /\ held' = held
      /\ inUse' = [inUse EXCEPT ![held[a].slot] = FALSE]
  BY DEF FinishRequest, ReleaseSlot
<1>2. \A t \in Slots, b \in Actors :
        t # held[a].slot => (Holds(b, t)' <=> Holds(b, t))
  BY <1>0, <1>1 DEF Holds, TypeOK
<1>3. Holds(a, held[a].slot)
  BY <1>1 DEF Holds
<1>4. \A t \in Slots :
        inUse'[t] <=> (t # held[a].slot /\ inUse[t])
  BY <1>0, <1>1 DEF TypeOK
<1> QED
  BY <1>2, <1>3, <1>4 DEF Abandoned

LEMMA ServerAbandonsNone ==
  ASSUME TableInv, NEW r \in net, ServerStep(r) \/ FaultStep(r)
  PROVE  Abandoned' = Abandoned
<1>1. inUse' = inUse /\ held' = held
  BY AnswerFacts DEF TableInv
<1>2. \A a \in Actors : pc'[a] # "idle" <=> pc[a] # "idle"
  BY AnswerFacts DEF TableInv, Awaited
<1> QED
  BY <1>1, <1>2 DEF Abandoned, Holds

\* A request that ends without release_slot abandons its slot, and nothing
\* else.
LEMMA LeavingAbandonsOne ==
  ASSUME TableInv, NEW a \in Actors, pc[a] # "idle",
         pc' = [pc EXCEPT ![a] = "idle"], UNCHANGED <<inUse, held>>
  PROVE  /\ Cardinality(Abandoned) \in Nat
         /\ Cardinality(Abandoned') = Cardinality(Abandoned) + 1
<1>0. TypeOK /\ held[a].slot \in Slots
  BY DEF TableInv, TypeOK, Tickets
<1>1. \A b \in Actors : Holds(b, held[a].slot) => b = a
  BY <1>0 DEF TableInv, SlotsExclusive, Holds
<1>2. \A t \in Slots, b \in Actors : Holds(b, t)' <=> Holds(b, t) /\ b # a
  BY <1>0 DEF Holds, TypeOK
<1>3. inUse[held[a].slot] /\ Holds(a, held[a].slot)
  BY DEF TableInv, HeldInUse, Holds
<1>4. \A t \in Slots : Holds(a, t) => t = held[a].slot
  BY DEF Holds
<1>5. Abandoned' = Abandoned \cup {held[a].slot}
  BY <1>0, <1>1, <1>2, <1>3, <1>4 DEF Abandoned
<1>6. held[a].slot \notin Abandoned
  BY <1>3 DEF Abandoned
<1>7. IsFiniteSet(Abandoned)
  BY SlotSetsFinite DEF Abandoned
<1> QED
  BY <1>5, <1>6, <1>7, FS_AddElement, FS_CardinalityType

LEMMA InitAccount == Init => AccountInv
<1> SUFFICES ASSUME Init PROVE SlotsAccounted
  BY InitTable DEF AccountInv
<1>1. Abandoned = {}
  BY DEF Init, Abandoned, NewSlotTable
<1> QED
  BY <1>1, FS_EmptySet DEF Init, SlotsAccounted, Abandoned

LEMMA NextAccount == AccountInv /\ [Next]_vars => AccountInv'
<1> SUFFICES ASSUME AccountInv, [Next]_vars
             PROVE  Cardinality(Abandoned') = drops'
  BY NextTable DEF AccountInv, SlotsAccounted, Abandoned, Holds
<1>0. TableInv /\ Cardinality(Abandoned) = drops
  BY DEF AccountInv, SlotsAccounted, Abandoned
<1>1. ASSUME NEW a \in Actors, StartRequest(a)
      PROVE  Abandoned' = Abandoned /\ drops' = drops
  BY <1>0, <1>1, StartAbandonsNone DEF StartRequest
<1>2. ASSUME NEW a \in Actors, NoSlotFree(a)
      PROVE  Abandoned' = Abandoned /\ drops' = drops
  BY <1>2 DEF NoSlotFree, slotTable, Abandoned, Holds
<1>3. ASSUME NEW a \in Actors, FinishRequest(a)
      PROVE  Abandoned' = Abandoned /\ drops' = drops
  BY <1>0, <1>3, FinishAbandonsNone DEF FinishRequest
<1>4. ASSUME NEW a \in Actors, DropRequest(a)
      PROVE  Cardinality(Abandoned') = drops'
  BY <1>0, <1>4, LeavingAbandonsOne DEF DropRequest, slotTable
<1>5. ASSUME NEW r \in net, ServerStep(r) \/ FaultStep(r)
      PROVE  Abandoned' = Abandoned /\ drops' = drops
  BY <1>0, <1>5, ServerAbandonsNone, AnswerFacts DEF TableInv
<1>6. CASE ForgetSession \/ UNCHANGED vars
  BY <1>0, <1>6
  DEF ForgetSession, vars, slotTable, tasks, Abandoned, Holds
<1> QED
  BY <1>0, <1>1, <1>2, <1>3, <1>4, <1>5, <1>6 DEF Next

\* A slot is lost for each future dropped before release_slot and for
\* nothing else: every other slot in use is held by exactly one request.
THEOREM Accounted == Spec => []SlotsAccounted
<1>1. AccountInv => SlotsAccounted
  BY DEF AccountInv
<1> QED
  BY <1>1, InitAccount, NextAccount, PTL DEF Spec

-----------------------------------------------------------------------------
(* No request is taken for a retry. *)

LEMMA InitRetry == Init => RetryInv
  BY InitTable, InitType, SlotsAssumption
  DEF Init, RetryInv, NewSlotTable, Spent, NoFalseRetry, Slots

LEMMA NextRetry ==
  ASSUME MaxSeq < SeqSpace
  PROVE  RetryInv /\ [Next]_vars => RetryInv'
<1> SUFFICES ASSUME RetryInv, [Next]_vars PROVE RetryInv'
  OBVIOUS
<1>0. TypeOK /\ TableInv /\ TypeOK' /\ TableInv'
  BY NextType, NextTable DEF TableInv, RetryInv
<1>t. /\ \A a \in Actors : held[a].slot \in Slots
      /\ \A r \in net : r.slot \in Slots /\ r.seq \in SeqIds /\ r.actor \in Actors
      /\ \A s \in Slots : sequenceIds[s] \in SeqIds /\ srvSeq[s] \in SeqIds
      /\ SeqIds \subseteq Nat
  BY <1>0 DEF TypeOK, Tickets, Requests, SeqIds
<1> USE <1>0, <1>t, SlotsAssumption
<1>1. ASSUME NEW a \in Actors, StartRequest(a) PROVE RetryInv'
  <2>1. PICK s \in Slots :
          /\ sequenceIds[s] < MaxSeq
          /\ TryAllocSlot(s)
          /\ net' = net \cup {[actor |-> a, slot |-> s, seq |-> sequenceIds[s]]}
    BY <1>1 DEF StartRequest
  <2>2. inUse' = [inUse EXCEPT ![s] = TRUE] /\ ~inUse[s]
        /\ sequenceIds' = sequenceIds /\ srvSeq' = srvSeq
    BY <1>1, <2>1 DEF StartRequest, TryAllocSlot
  <2>3. /\ \A r \in net : r.slot = s => r.seq # sequenceIds[s]
        /\ srvSeq[s] # sequenceIds[s]
    BY <2>2 DEF RetryInv, Spent
  <2>4. \A t \in Slots : inUse'[t] => sequenceIds'[t] < MaxSeq
    BY <2>1, <2>2 DEF RetryInv, TypeOK
  <2>5. \A t \in Slots, n \in SeqIds : Spent(t, n) => Spent(t, n)'
    BY <2>2 DEF Spent, TypeOK
  <2>6. Spent(s, sequenceIds[s])'
    <3>1. inUse'[s] /\ sequenceIds'[s] \in Nat
      BY <2>2 DEF TypeOK
    <3> QED
      BY <3>1 DEF Spent
  <2>7. \A t \in Slots : Spent(t, srvSeq[t])'
    BY <2>2, <2>5 DEF RetryInv, Spent
  <2>8. \A r \in net' : Spent(r.slot, r.seq)' /\ r.seq # srvSeq'[r.slot]
    BY <2>1, <2>2, <2>3, <2>5, <2>6 DEF RetryInv, Spent
  <2>9. \A r, q \in net' : r.slot = q.slot /\ r.seq = q.seq => r = q
    BY <2>1, <2>3 DEF RetryInv
  <2>10. NoFalseRetry'
    BY <1>1 DEF StartRequest, RetryInv, NoFalseRetry, TypeOK
  <2> QED
    BY <2>4, <2>7, <2>8, <2>9, <2>10 DEF RetryInv, Spent
<1>2. ASSUME NEW a \in Actors, FinishRequest(a) PROVE RetryInv'
  <2> DEFINE s == held[a].slot
  <2>1. /\ inUse' = [inUse EXCEPT ![s] = FALSE]
        /\ sequenceIds' = [sequenceIds EXCEPT ![s] = Inc(sequenceIds[s])]
        /\ UNCHANGED <<net, srvSeq, result>>
    BY <1>2 DEF FinishRequest, ReleaseSlot, server
  <2>2. inUse[s] /\ sequenceIds[s] < MaxSeq
    BY <1>2 DEF FinishRequest, RetryInv, TableInv, HeldInUse
  <2>3. Inc(sequenceIds[s]) = sequenceIds[s] + 1
    BY <2>2, IncBelowBound
  <2>4. ASSUME NEW t \in Slots, NEW n \in SeqIds, Spent(t, n)
        PROVE  Spent(t, n)'
    <3>1. CASE t = s
      <4>1. sequenceIds'[t] = sequenceIds[t] + 1
        BY <2>1, <2>3, <3>1 DEF TypeOK
      <4>2. n \in Nat /\ sequenceIds[t] \in Nat /\ n <= sequenceIds[t]
        BY <2>4 DEF Spent
      <4> QED
        BY <4>1, <4>2 DEF Spent
    <3>2. CASE t # s
      <4>1. sequenceIds'[t] = sequenceIds[t] /\ inUse'[t] = inUse[t]
        BY <2>1, <3>2 DEF TypeOK
      <4> QED
        BY <2>4, <4>1 DEF Spent
    <3> QED
      BY <3>1, <3>2
  <2>5. \A t \in Slots : inUse'[t] => sequenceIds'[t] < MaxSeq
    BY <2>1 DEF RetryInv, TypeOK
  <2>6. \A t \in Slots : Spent(t, srvSeq[t])'
    BY <2>1, <2>4 DEF RetryInv, Spent
  <2>7. \A r \in net' : Spent(r.slot, r.seq)' /\ r.seq # srvSeq'[r.slot]
    BY <2>1, <2>4 DEF RetryInv, Spent
  <2> QED
    BY <2>1, <2>5, <2>6, <2>7 DEF RetryInv, NoFalseRetry, Spent
<1>3. ASSUME NEW a \in Actors, NoSlotFree(a) \/ DropRequest(a)
      PROVE  RetryInv'
  BY <1>3
  DEF NoSlotFree, DropRequest, slotTable, server, RetryInv, NoFalseRetry,
      Spent, TypeOK
<1>4. ASSUME NEW r \in net, ServerStep(r) \/ FaultStep(r) PROVE RetryInv'
  <2>1. /\ UNCHANGED <<inUse, sequenceIds, held>>
        /\ net' \subseteq net
    BY <1>4, AnswerFacts
  <2>2. \/ srvSeq' = srvSeq
        \/ srvSeq' = [srvSeq EXCEPT ![r.slot] = r.seq] /\ net' = net \ {r}
    BY <1>4
    DEF ServerStep, FaultStep, Execute, LoseReply, Executed, Replay,
        RejectMisordered, RejectBadSession, FailUnexecuted, EarlyError, server
  <2>3. ~Replay(r)
    BY DEF Replay, RetryInv
  <2>4. NoFalseRetry'
    <3>1. ASSUME NEW v \in Results, v # "replayed", Answer(r, v)
          PROVE  NoFalseRetry'
      BY <3>1 DEF Answer, RetryInv, NoFalseRetry, TypeOK
    <3> QED
      BY <1>4, <2>3, <3>1
      DEF ServerStep, FaultStep, Execute, LoseReply, Executed,
          RejectMisordered, RejectBadSession, FailUnexecuted, EarlyError,
          Results
  <2>5. \A t \in Slots : Spent(t, srvSeq[t])'
    BY <2>1, <2>2 DEF RetryInv, Spent, TypeOK
  <2>6. \A q \in net' : Spent(q.slot, q.seq)' /\ q.seq # srvSeq'[q.slot]
    <3>1. \A q \in net : q # r => q.slot # r.slot \/ q.seq # r.seq
      BY DEF RetryInv
    <3> QED
      BY <2>1, <2>2, <3>1 DEF RetryInv, Spent, TypeOK
  <2> QED
    BY <2>1, <2>4, <2>5, <2>6 DEF RetryInv, Spent
<1>5. CASE ForgetSession \/ UNCHANGED vars
  BY <1>5
  DEF ForgetSession, vars, slotTable, tasks, server, RetryInv, NoFalseRetry,
      Spent
<1> QED
  BY <1>1, <1>2, <1>3, <1>4, <1>5 DEF Next

\* As long as the sequence ids have not wrapped, the server never answers a
\* request from its reply cache: release_slot counts every attempt, so no
\* failure, dropped future or late request makes two requests look alike.
THEOREM RetryFree ==
  ASSUME MaxSeq < SeqSpace
  PROVE  Spec => []NoFalseRetry
<1>1. RetryInv => NoFalseRetry
  BY DEF RetryInv
<1>2. RetryInv /\ [Next]_vars => RetryInv'
  BY NextRetry
<1> QED
  BY <1>1, <1>2, InitRetry, PTL DEF Spec

-----------------------------------------------------------------------------
(* A slot out of step stays out of step. *)

LEMMA LostStep ==
  ASSUME MaxSeq < SeqSpace, RetryInv, [Next]_vars,
         NEW s \in Slots, OutOfStep(s)
  PROVE  OutOfStep(s)' /\ srvSeq'[s] = srvSeq[s]
<1>0. TypeOK
  BY DEF RetryInv, TableInv
<1>t. /\ \A r \in net : r.slot \in Slots /\ r.seq \in SeqIds /\ r.actor \in Actors
      /\ \A t \in Slots : sequenceIds[t] \in Nat /\ srvSeq[t] \in SeqIds
      /\ \A n \in SeqIds : Inc(n) \in Nat
  BY <1>0, IncFacts DEF TypeOK, Requests, SeqIds
\* It is enough that the counter does not fall, the server's slot does not
\* move, and no request in turn appears.
<1>s. SUFFICES /\ sequenceIds'[s] \in Nat /\ sequenceIds'[s] >= sequenceIds[s]
               /\ srvSeq'[s] = srvSeq[s]
               /\ \A r \in net' : r.slot = s => r.seq # Inc(srvSeq[s])
  BY <1>t DEF OutOfStep, InTurn
<1>o. /\ sequenceIds[s] > Inc(srvSeq[s])
      /\ \A r \in net : r.slot = s => r.seq # Inc(srvSeq[s])
  BY DEF OutOfStep, InTurn
<1> USE <1>0, <1>t, <1>o
<1>1. ASSUME NEW a \in Actors, StartRequest(a)
      PROVE  /\ sequenceIds' = sequenceIds
             /\ srvSeq' = srvSeq
             /\ \A r \in net' : r.slot = s => r.seq # Inc(srvSeq[s])
  <2>1. PICK t \in Slots :
          /\ TryAllocSlot(t)
          /\ net' = net \cup {[actor |-> a, slot |-> t, seq |-> sequenceIds[t]]}
    BY <1>1 DEF StartRequest
  <2>2. sequenceIds[s] # Inc(srvSeq[s])
    OBVIOUS
  <2> QED
    BY <1>1, <2>1, <2>2 DEF StartRequest, TryAllocSlot
<1>2. ASSUME NEW a \in Actors, FinishRequest(a)
      PROVE  /\ sequenceIds'[s] \in Nat /\ sequenceIds'[s] >= sequenceIds[s]
             /\ srvSeq' = srvSeq /\ net' = net
  <2>1. /\ held[a].slot \in Slots
        /\ sequenceIds[held[a].slot] \in SeqIds
        /\ sequenceIds[held[a].slot] < MaxSeq
    BY <1>2
    DEF FinishRequest, RetryInv, TableInv, HeldInUse, TypeOK, Tickets
  <2>2. Inc(sequenceIds[held[a].slot]) = sequenceIds[held[a].slot] + 1
    BY <2>1, IncBelowBound
  <2> QED
    BY <1>2, <2>1, <2>2 DEF FinishRequest, ReleaseSlot, server, TypeOK
<1>3. ASSUME NEW a \in Actors, NoSlotFree(a) \/ DropRequest(a)
      PROVE  UNCHANGED <<sequenceIds, srvSeq, net>>
  BY <1>3 DEF NoSlotFree, DropRequest, slotTable, server
<1>4. ASSUME NEW r \in net, ServerStep(r) \/ FaultStep(r)
      PROVE  /\ sequenceIds' = sequenceIds
             /\ srvSeq'[s] = srvSeq[s]
             /\ net' \subseteq net
  <2>1. sequenceIds' = sequenceIds /\ net' \subseteq net
    BY <1>4, AnswerFacts
  <2>2. srvSeq' = srvSeq \/ Executed(r)
    BY <1>4
    DEF ServerStep, FaultStep, Execute, LoseReply, Replay,
        RejectMisordered, RejectBadSession, FailUnexecuted, EarlyError, server
  <2>3. Executed(r) => srvSeq'[s] = srvSeq[s]
    BY DEF Executed, InTurn, TypeOK
  <2> QED
    BY <2>1, <2>2, <2>3
<1>5. CASE ForgetSession \/ UNCHANGED vars
  BY <1>5 DEF ForgetSession, vars, slotTable, server
<1> QED
  BY <1>1, <1>2, <1>3, <1>4, <1>5 DEF Next

\* A request the server did not execute costs the slot: from then on every
\* request in it is refused, because nothing brings the client's sequence id
\* back to the one the server expects.
THEOREM LostSlots ==
  ASSUME MaxSeq < SeqSpace
  PROVE  Spec => LostSlotsStayLost
<1>1. RetryInv /\ [Next]_vars =>
        [\A s \in Slots : OutOfStep(s) =>
           OutOfStep(s)' /\ srvSeq'[s] = srvSeq[s]]_vars
  BY LostStep
<1>2. RetryInv /\ [Next]_vars => RetryInv'
  BY NextRetry
<1> QED
  BY <1>1, <1>2, InitRetry, PTL DEF Spec, LostSlotsStayLost

-----------------------------------------------------------------------------
(* In step while nothing fails. *)

LEMMA InitStep == Init => StepInv
<1> SUFFICES ASSUME Init PROVE StepInv
  OBVIOUS
<1>1. Inc(0) = 1
  BY SlotsAssumption DEF Inc
<1> QED
  BY <1>1, InitTable DEF Init, StepInv, InStep, NewSlotTable

\* Failures are counted and a forgotten session stays forgotten.
LEMMA FailuresStay ==
  ASSUME TypeOK, [Next]_vars, faults' = 0, srvAlive'
  PROVE  faults = 0 /\ srvAlive
<1>0. faults \in Nat
  BY SlotsAssumption DEF TypeOK
<1>1. ASSUME NEW a \in Actors,
             \/ StartRequest(a) \/ NoSlotFree(a)
             \/ FinishRequest(a) \/ DropRequest(a)
      PROVE  UNCHANGED <<faults, srvAlive>>
  BY <1>1 DEF StartRequest, NoSlotFree, FinishRequest, DropRequest, server
<1>2. ASSUME NEW r \in net, ServerStep(r)
      PROVE  UNCHANGED <<faults, srvAlive>>
  <2>1. CASE Execute(r)
    BY <2>1 DEF Execute, Executed
  <2>2. CASE Replay(r) \/ RejectMisordered(r) \/ RejectBadSession(r)
    BY <2>2 DEF Replay, RejectMisordered, RejectBadSession
  <2> QED
    BY <1>2, <2>1, <2>2 DEF ServerStep
<1>3. ASSUME NEW r \in net, FaultStep(r) PROVE FALSE
  <2>1. faults' = faults + 1
    BY <1>3 DEF FaultStep, LoseReply, FailUnexecuted, EarlyError
  <2> QED
    BY <1>0, <2>1
<1>4. ~ForgetSession
  BY DEF ForgetSession
<1>5. CASE UNCHANGED vars
  BY <1>5 DEF vars, server
<1> QED
  BY <1>1, <1>2, <1>3, <1>4, <1>5 DEF Next

LEMMA NextStep == StepInv /\ [Next]_vars => StepInv'
<1> SUFFICES ASSUME StepInv, [Next]_vars, (faults = 0 /\ srvAlive)'
             PROVE  InStep'
  BY NextTable DEF StepInv
<1>0. TypeOK /\ TableInv
  BY DEF StepInv, TableInv
<1>f. faults = 0 /\ srvAlive
  BY <1>0, FailuresStay DEF TypeOK
<1>i. InStep
  BY <1>f DEF StepInv
<1>t. /\ \A a \in Actors : held[a].slot \in Slots
      /\ \A r \in net : r.slot \in Slots /\ r.seq \in SeqIds /\ r.actor \in Actors
      /\ \A s \in Slots : srvSeq[s] \in SeqIds
  BY <1>0 DEF TypeOK, Tickets, Requests
<1> USE <1>0, <1>t
<1>1. ASSUME NEW a \in Actors, StartRequest(a) PROVE InStep'
  <2>1. PICK s \in Slots :
          /\ TryAllocSlot(s)
          /\ held' = [held EXCEPT ![a] = [slot |-> s, seq |-> sequenceIds[s]]]
          /\ net' = net \cup {[actor |-> a, slot |-> s, seq |-> sequenceIds[s]]}
    BY <1>1 DEF StartRequest
  <2>2. /\ ~inUse[s] /\ inUse' = [inUse EXCEPT ![s] = TRUE]
        /\ sequenceIds' = sequenceIds /\ srvSeq' = srvSeq
        /\ pc' = [pc EXCEPT ![a] = "waiting"]
    BY <1>1, <2>1 DEF StartRequest, TryAllocSlot
  <2>3. /\ sequenceIds[s] = Inc(srvSeq[s])
        /\ \A r \in net : r.slot # s
        /\ \A b \in Actors : pc[b] # "idle" => held[b].slot # s
    BY <1>i, <2>2 DEF InStep, TableInv, HeldInUse
  <2>4. \A t \in Slots : ~inUse'[t] => sequenceIds'[t] = Inc(srvSeq'[t])
    BY <1>i, <2>2 DEF InStep, TypeOK
  <2>5. \A b \in Actors : pc'[b] = "waiting" => Request(b)' \in net'
    BY <1>i, <2>1, <2>2 DEF InStep, TypeOK, Request
  <2>6. \A b \in Actors : pc'[b] = "answered" =>
          /\ srvSeq'[held'[b].slot] = held'[b].seq
          /\ \A r \in net' : r.slot # held'[b].slot
    BY <1>i, <2>1, <2>2, <2>3 DEF InStep, TypeOK
  <2>7. \A r \in net' : inUse'[r.slot] /\ r.seq = Inc(srvSeq'[r.slot])
    BY <1>i, <2>1, <2>2, <2>3 DEF InStep, InTurn, TypeOK
  <2>8. \A r, q \in net' : r.slot = q.slot => r = q
    BY <1>i, <2>1, <2>3 DEF InStep
  <2> QED
    BY <2>4, <2>5, <2>6, <2>7, <2>8 DEF InStep, InTurn
<1>2. ASSUME NEW a \in Actors, FinishRequest(a) PROVE InStep'
  <2> DEFINE s == held[a].slot
  <2>1. /\ pc[a] = "answered" /\ pc' = [pc EXCEPT ![a] = "idle"]
        /\ inUse' = [inUse EXCEPT ![s] = FALSE]
        /\ sequenceIds' = [sequenceIds EXCEPT ![s] = Inc(sequenceIds[s])]
        /\ UNCHANGED <<held, net, srvSeq>>
    BY <1>2 DEF FinishRequest, ReleaseSlot, server
  <2>2. /\ srvSeq[s] = sequenceIds[s]
        /\ \A r \in net : r.slot # s
    BY <1>i, <2>1 DEF InStep, TableInv, HeldInUse
  <2>3. \A t \in Slots : ~inUse'[t] => sequenceIds'[t] = Inc(srvSeq'[t])
    BY <1>i, <2>1, <2>2 DEF InStep, TypeOK
  <2>4. \A r \in net' : inUse'[r.slot] /\ r.seq = Inc(srvSeq'[r.slot])
    BY <1>i, <2>1, <2>2 DEF InStep, InTurn, TypeOK
  <2> QED
    BY <1>i, <2>1, <2>3, <2>4 DEF InStep, InTurn, Request, TypeOK
<1>3. ASSUME NEW a \in Actors, NoSlotFree(a) \/ DropRequest(a)
      PROVE  InStep'
  <2>1. /\ UNCHANGED <<inUse, sequenceIds, held, net, srvSeq>>
        /\ \A b \in Actors : pc'[b] = pc[b] \/ pc'[b] = "idle"
    BY <1>3 DEF NoSlotFree, DropRequest, slotTable, server, TypeOK
  <2>2. \A b \in Actors : Request(b)' = Request(b)
    BY <2>1 DEF Request
  <2> QED
    BY <1>i, <2>1, <2>2 DEF InStep, InTurn
<1>4. ASSUME NEW r \in net, ServerStep(r) \/ FaultStep(r) PROVE InStep'
  <2>1. Execute(r)
    <3>1. srvAlive /\ InTurn(r) /\ r.seq # srvSeq[r.slot]
      BY <1>i, <1>4, AnswerFacts, IncFacts DEF InStep, InTurn
    <3>2. ~FaultStep(r)
      <4>1. faults + 1 # 0
        BY <1>f
      <4> QED
        BY <4>1, <1>f DEF FaultStep, LoseReply, FailUnexecuted, EarlyError
    <3> QED
      BY <1>4, <3>1, <3>2
      DEF ServerStep, Replay, RejectMisordered, RejectBadSession
  <2>2. /\ net' = net \ {r}
        /\ srvSeq' = [srvSeq EXCEPT ![r.slot] = r.seq]
        /\ UNCHANGED <<inUse, sequenceIds, held>>
    BY <2>1 DEF Execute, Executed, Answer, slotTable
  <2>3. /\ inUse[r.slot]
        /\ \A q \in net' : q.slot # r.slot
    BY <1>i, <2>2 DEF InStep
  <2>4. \A t \in Slots : ~inUse'[t] => sequenceIds'[t] = Inc(srvSeq'[t])
    BY <1>i, <2>2, <2>3 DEF InStep, TypeOK
  <2>5. \A a \in Actors : pc'[a] = "waiting" => Request(a)' \in net'
    <3>1. Awaited(r) => pc'[r.actor] = "answered"
      BY <2>1 DEF Execute, Answer, TypeOK
    <3>2. ASSUME NEW a \in Actors, pc'[a] = "waiting"
          PROVE  pc[a] = "waiting" /\ Request(a) # r
      <4>1. pc[a] = "waiting"
        BY <3>2, <1>4, AnswerFacts
      <4>2. Request(a) = r => a = r.actor
        BY DEF Request
      <4> QED
        BY <3>1, <3>2, <4>1, <4>2 DEF Awaited
    <3> QED
      BY <1>i, <2>2, <3>2 DEF InStep, Request
  <2>6. ASSUME NEW a \in Actors, pc'[a] = "answered"
        PROVE  /\ srvSeq'[held'[a].slot] = held'[a].seq
               /\ \A q \in net' : q.slot # held'[a].slot
    <3>1. CASE pc[a] = "answered"
      BY <1>i, <2>2, <3>1 DEF InStep, TypeOK
    <3>2. CASE pc[a] # "answered"
      <4>1. held[a].slot = r.slot /\ held[a].seq = r.seq
        <5>1. a = r.actor /\ Awaited(r)
          BY <1>4, <2>6, <3>2, AnswerFacts
        <5>2. Request(a).slot = held[a].slot /\ Request(a).seq = held[a].seq
          BY DEF Request
        <5> QED
          BY <5>1, <5>2 DEF Awaited
      <4> QED
        BY <2>2, <2>3, <4>1 DEF TypeOK
    <3> QED
      BY <3>1, <3>2
  <2>7. \A q \in net' : inUse'[q.slot] /\ q.seq = Inc(srvSeq'[q.slot])
    BY <1>i, <2>2, <2>3 DEF InStep, InTurn, TypeOK
  <2>8. \A q, p \in net' : q.slot = p.slot => q = p
    BY <1>i, <2>2 DEF InStep
  <2> QED
    BY <2>4, <2>5, <2>6, <2>7, <2>8 DEF InStep, InTurn
<1>5. CASE ForgetSession \/ UNCHANGED vars
  BY <1>5, <1>i
  DEF ForgetSession, vars, slotTable, tasks, server, InStep, InTurn, Request
<1> QED
  BY <1>1, <1>2, <1>3, <1>4, <1>5 DEF Next

\* While nothing has failed, client and server agree on the next sequence id
\* of every free slot, for any number of requests and across the u32 wrap.
THEOREM FaultFree == Spec => []FaultFreeInStep
<1>1. StepInv => FaultFreeInStep
  BY DEF StepInv, InStep, FaultFreeInStep
<1> QED
  BY <1>1, InitStep, NextStep, PTL DEF Spec

-----------------------------------------------------------------------------
(* The loop among the users of a slot table. *)

LEMMA InitImplements == KeepaliveInit => Init
  BY DEF KeepaliveInit

LEMMA StepImplements == [KeepaliveNext]_kaVars => [Next]_vars
<1> SUFFICES ASSUME [KeepaliveNext]_kaVars PROVE [Next]_vars
  OBVIOUS
<1> USE KeepaliveAssumption
<1>1. CASE TickSends \/ TickSkips \/ TickEnds
  BY <1>1 DEF TickSends, TickSkips, TickEnds, Next
<1>2. CASE LoopExits \/ RequestShutdown
  BY <1>2 DEF LoopExits, RequestShutdown
<1>3. ASSUME NEW a \in Actors \ {Loop}, OtherUser(a) PROVE Next
  BY <1>3 DEF OtherUser, Next
<1>4. ASSUME NEW r \in net, ServeAndRenew(r) PROVE Next
  BY <1>4 DEF ServeAndRenew, Next
<1>5. CASE ClockTick
  BY <1>5 DEF ClockTick, Next
<1>6. CASE UNCHANGED kaVars
  BY <1>6 DEF kaVars
<1> QED
  BY <1>1, <1>2, <1>3, <1>4, <1>5, <1>6 DEF KeepaliveNext

\* Whatever keepalive_loop does to the SessionManager, a user that allocates,
\* sends and releases could have done: so the theorems about the slot table
\* hold of a table that the loop shares.
THEOREM LoopKeepsDiscipline == KeepaliveSpec => ImplementsSessionSlots
  BY InitImplements, StepImplements, PTL
  DEF KeepaliveSpec, ImplementsSessionSlots, Spec

-----------------------------------------------------------------------------
(* Typing. *)

LEMMA InitKeepaliveType == KeepaliveInit => KeepaliveTypeOK
<1> SUFFICES ASSUME KeepaliveInit PROVE KeepaliveTypeOK
  OBVIOUS
<1>1. TypeOK
  BY InitType DEF KeepaliveInit
<1>2. due \in 0 .. MaxDue /\ age \in 0 .. LeaseTicks + 1 /\ stalls \in 0 .. MaxStalls
  BY KeepaliveAssumption DEF KeepaliveInit
<1> QED
  BY <1>1, <1>2 DEF KeepaliveInit, KeepaliveTypeOK

LEMMA NextKeepaliveType ==
  KeepaliveTypeOK /\ [KeepaliveNext]_kaVars => KeepaliveTypeOK'
<1> SUFFICES ASSUME KeepaliveTypeOK, [KeepaliveNext]_kaVars
             PROVE  KeepaliveTypeOK'
  OBVIOUS
<1>0. TypeOK'
  BY NextType, StepImplements DEF KeepaliveTypeOK
<1> USE <1>0, KeepaliveAssumption DEF KeepaliveTypeOK, clockVars
<1>1. CASE TickSends \/ TickSkips \/ TickEnds
  BY <1>1 DEF TickSends, TickSkips, TickEnds
<1>2. CASE LoopExits \/ RequestShutdown
  BY <1>2 DEF LoopExits, RequestShutdown
<1>3. ASSUME NEW a \in Actors \ {Loop}, OtherUser(a) PROVE KeepaliveTypeOK'
  BY <1>3 DEF OtherUser, loopVars
<1>4. ASSUME NEW r \in net, ServeAndRenew(r) PROVE KeepaliveTypeOK'
  BY <1>4 DEF ServeAndRenew, loopVars
<1>5. CASE ClockTick
  BY <1>5 DEF ClockTick
<1>6. CASE UNCHANGED kaVars
  BY <1>6 DEF kaVars, loopVars
<1> QED
  BY <1>1, <1>2, <1>3, <1>4, <1>5, <1>6 DEF KeepaliveNext

\* The loop's state, the ticks it owes and the age of the lease keep their
\* ranges.
THEOREM KeepaliveTypeCorrect == KeepaliveSpec => []KeepaliveTypeOK
  BY InitKeepaliveType, NextKeepaliveType, PTL DEF KeepaliveSpec

-----------------------------------------------------------------------------
(* The lease. *)

Undisturbed == loop # "exited" /\ faults = 0 /\ drops = 0 /\ stalls < LeaseTicks

\* A request that will renew the lease is on its way or the loop owes one,
\* and none has been answered since the interval began.
RenewalDue ==
  /\ due > 0 \/ \E a \in Actors : pc[a] = "waiting"
  /\ \A a \in Actors : pc[a] # "answered"

\* The lease has aged one interval for each stall, and one more only while a
\* renewal is due.
LeaseMargin ==
  Undisturbed => age <= stalls \/ (age <= stalls + 1 /\ RenewalDue)

LeaseInv ==
  /\ KeepaliveTypeOK
  /\ StepInv
  /\ AccountInv
  /\ ~srvAlive => Expired
  /\ LeaseMargin

LEMMA InitLease == KeepaliveInit => LeaseInv
  BY InitKeepaliveType, InitStep, InitAccount
  DEF KeepaliveInit, Init, LeaseInv, LeaseMargin

LEMMA MarginEnough == LeaseInv => LeaseSurvivesStalls
<1> SUFFICES ASSUME LeaseInv, Undisturbed PROVE age <= LeaseTicks
  BY KeepaliveAssumption
  DEF LeaseSurvivesStalls, Undisturbed, Expired, LeaseInv, KeepaliveTypeOK
<1>1. age <= stalls + 1
  BY DEF LeaseInv, LeaseMargin, KeepaliveTypeOK
<1> QED
  BY <1>1, KeepaliveAssumption DEF Undisturbed, LeaseInv, KeepaliveTypeOK

\* The server forgets the session only when the lease has run out, and a
\* lease that has run out is not renewed.
LEMMA AliveUnlessExpired ==
  ASSUME LeaseInv, [KeepaliveNext]_kaVars
  PROVE  (~srvAlive => Expired)'
<1>t. age \in Nat /\ TypeOK
  BY DEF LeaseInv, KeepaliveTypeOK
<1> USE <1>t, KeepaliveAssumption DEF LeaseInv, Expired
<1>1. CASE TickSends \/ TickSkips \/ TickEnds
  BY <1>1
  DEF TickSends, TickSkips, TickEnds, clockVars, StartRequest, NoSlotFree,
      FinishRequest, server
<1>2. CASE LoopExits \/ RequestShutdown
  BY <1>2 DEF LoopExits, RequestShutdown, clockVars, vars, server
<1>3. ASSUME NEW a \in Actors \ {Loop}, OtherUser(a)
      PROVE  (~srvAlive => Expired)'
  BY <1>3
  DEF OtherUser, clockVars, StartRequest, NoSlotFree, FinishRequest,
      DropRequest, server
<1>4. ASSUME NEW r \in net, ServeAndRenew(r) PROVE (~srvAlive => Expired)'
  <2>1. srvAlive' = srvAlive
    BY <1>4, AnswerFacts DEF ServeAndRenew
  <2>2. srvSeq' # srvSeq => srvAlive
    BY <1>4
    DEF ServeAndRenew, ServerStep, FaultStep, Execute, LoseReply, Executed,
        FailUnexecuted, EarlyError, Replay, RejectMisordered,
        RejectBadSession, server
  <2> QED
    BY <1>4, <2>1, <2>2 DEF ServeAndRenew
<1>5. CASE ClockTick
  BY <1>5 DEF ClockTick, vars, server
<1>6. CASE UNCHANGED kaVars
  BY <1>6 DEF kaVars, vars, server, clockVars
<1> QED
  BY <1>1, <1>2, <1>3, <1>4, <1>5, <1>6 DEF KeepaliveNext

LEMMA NextMargin ==
  ASSUME LeaseInv, [KeepaliveNext]_kaVars
  PROVE  LeaseMargin'
<1> SUFFICES ASSUME Undisturbed'
             PROVE  \/ age' <= stalls'
                    \/ age' <= stalls' + 1 /\ RenewalDue'
  BY DEF LeaseMargin
<1>t. /\ TypeOK /\ Loop \in Actors /\ LeaseTicks \in Nat
      /\ faults \in Nat /\ drops \in Nat
      /\ age \in Nat /\ stalls \in Nat /\ due \in Nat
      /\ age' \in Nat /\ stalls' \in Nat /\ due' \in Nat
  BY NextKeepaliveType, KeepaliveAssumption, SlotsAssumption
  DEF LeaseInv, KeepaliveTypeOK, TypeOK
<1> USE <1>t
<1> DEFINE Margin == age <= stalls \/ (age <= stalls + 1 /\ RenewalDue)
<1>m. Undisturbed => Margin
  BY DEF LeaseInv, LeaseMargin
<1>1. CASE TickSends
  <2>1. /\ UNCHANGED <<age, stalls, faults, drops>> /\ loop = "select"
        /\ pc' = [pc EXCEPT ![Loop] = "waiting"]
    BY <1>1 DEF TickSends, StartRequest, clockVars
  <2>2. Margin
    BY <1>m, <2>1 DEF Undisturbed
  <2>3. RenewalDue => RenewalDue'
    BY <2>1 DEF RenewalDue, TypeOK
  <2> QED
    BY <2>1, <2>2, <2>3
<1>2. CASE TickSkips
  <2>1. /\ UNCHANGED <<age, stalls, faults, drops, pc>> /\ loop = "select"
        /\ AllSlotsBusy
    BY <1>2 DEF TickSkips, NoSlotFree, clockVars
  <2>2. Margin /\ drops = 0
    BY <1>m, <2>1 DEF Undisturbed
  <2>3. Abandoned = {}
    <3>1. IsFiniteSet(Abandoned)
      BY SlotSetsFinite DEF Abandoned
    <3>2. Cardinality(Abandoned) = 0
      BY <2>2 DEF LeaseInv, AccountInv, SlotsAccounted, Abandoned
    <3> QED
      BY <3>1, <3>2, FS_EmptySet
  <2>4. 0 \in Slots /\ inUse[0]
    BY <2>1, SlotsAssumption DEF AllSlotsBusy, Slots
  <2>5. PICK a \in Actors : pc[a] # "idle"
    BY <2>3, <2>4 DEF Abandoned, Holds
  <2>6. RenewalDue => RenewalDue'
    BY <2>1, <2>5 DEF RenewalDue, TypeOK
  <2> QED
    BY <2>1, <2>2, <2>6
<1>3. CASE TickEnds
  <2>1. /\ UNCHANGED <<age, stalls, faults, drops>> /\ loop = "body"
        /\ pc[Loop] = "answered"
    BY <1>3 DEF TickEnds, FinishRequest, clockVars
  <2>2. Margin /\ ~RenewalDue
    BY <1>m, <2>1 DEF Undisturbed, RenewalDue
  <2> QED
    BY <2>1, <2>2
<1>4. CASE LoopExits
  BY <1>4 DEF LoopExits, Undisturbed
<1>5. CASE RequestShutdown
  <2>1. UNCHANGED <<age, stalls, faults, drops, pc, due, loop>>
    BY <1>5 DEF RequestShutdown, vars, tasks, clockVars
  <2>2. Margin
    BY <1>m, <2>1 DEF Undisturbed
  <2>3. RenewalDue => RenewalDue'
    BY <2>1 DEF RenewalDue
  <2> QED
    BY <2>1, <2>2, <2>3
<1>6. ASSUME NEW a \in Actors \ {Loop}, OtherUser(a)
      PROVE  \/ age' <= stalls'
             \/ age' <= stalls' + 1 /\ RenewalDue'
  <2>1. UNCHANGED <<age, stalls, due, loop, faults>>
    BY <1>6
    DEF OtherUser, loopVars, clockVars, StartRequest, NoSlotFree,
        FinishRequest, DropRequest
  <2>2. ~DropRequest(a)
    BY DEF DropRequest, Undisturbed
  <2>3. Margin
    BY <1>6, <1>m, <2>1, <2>2
    DEF OtherUser, StartRequest, NoSlotFree, FinishRequest, Undisturbed
  <2>4. CASE StartRequest(a)
    BY <2>1, <2>3, <2>4 DEF StartRequest, RenewalDue, TypeOK
  <2>5. CASE NoSlotFree(a)
    BY <2>1, <2>3, <2>5 DEF NoSlotFree, RenewalDue
  <2>6. CASE FinishRequest(a)
    BY <2>1, <2>3, <2>6 DEF FinishRequest, RenewalDue
  <2> QED
    BY <1>6, <2>2, <2>4, <2>5, <2>6 DEF OtherUser
<1>7. ASSUME NEW r \in net, ServeAndRenew(r)
      PROVE  age' <= stalls'
  <2>1. UNCHANGED <<stalls, loop, inUse, drops, srvAlive>>
    BY <1>7, AnswerFacts DEF ServeAndRenew, loopVars
  <2>2. ~FaultStep(r)
    BY DEF FaultStep, LoseReply, FailUnexecuted, EarlyError, Undisturbed
  <2>3. faults' = faults
    BY <1>7, <2>2
    DEF ServeAndRenew, ServerStep, Execute, Replay, RejectMisordered,
        RejectBadSession
  <2>4. Undisturbed
    BY <2>1, <2>3 DEF Undisturbed
  <2>5. srvAlive
    BY <1>m, <2>4 DEF LeaseInv, Expired, Undisturbed
  <2>6. InTurn(r) /\ r.slot \in Slots /\ r.seq \in SeqIds
    BY <2>4, <2>5
    DEF LeaseInv, StepInv, InStep, Undisturbed, TypeOK, Requests
  <2>7. srvSeq \in [Slots -> SeqIds] /\ r.seq # srvSeq[r.slot]
    BY <2>6, IncFacts DEF TypeOK, InTurn
  <2>8. Execute(r)
    BY <1>7, <2>2, <2>5, <2>6, <2>7
    DEF ServeAndRenew, ServerStep, Replay, RejectMisordered, RejectBadSession
  <2>9. srvSeq' # srvSeq
    BY <2>6, <2>7, <2>8 DEF Execute, Executed
  <2> QED
    BY <1>7, <2>1, <2>9 DEF ServeAndRenew
<1>8. CASE ClockTick
  <2>1. UNCHANGED <<loop, pc, faults, drops>>
    BY <1>8 DEF ClockTick, ForgetSession, vars, tasks
  <2>2. /\ age' <= age + 1
        /\ stalls' \in {stalls, stalls + 1}
        /\ due' = due + 1
    BY <1>8, <2>1 DEF ClockTick, Undisturbed
  <2>3. Undisturbed
    BY <2>1, <2>2 DEF Undisturbed
  <2>4. CASE Settled /\ stalls' = stalls
    <3>1. ~RenewalDue /\ \A a \in Actors : pc[a] # "answered"
      BY <2>3, <2>4 DEF Settled, RenewalDue, Undisturbed
    <3>2. RenewalDue'
      BY <2>1, <2>2, <3>1 DEF RenewalDue
    <3> QED
      BY <1>m, <2>2, <2>3, <2>4, <3>1, <3>2
  <2>5. CASE stalls' = stalls + 1
    <3>1. RenewalDue => RenewalDue'
      BY <2>1, <2>2 DEF RenewalDue
    <3> QED
      BY <1>m, <2>2, <2>3, <2>5, <3>1
  <2> QED
    BY <1>8, <2>4, <2>5 DEF ClockTick
<1>9. CASE UNCHANGED kaVars
  <2>1. UNCHANGED <<age, stalls, faults, drops, pc, due, loop>>
    BY <1>9 DEF kaVars, vars, tasks, loopVars, clockVars
  <2>2. Margin
    BY <1>m, <2>1 DEF Undisturbed
  <2>3. RenewalDue => RenewalDue'
    BY <2>1 DEF RenewalDue
  <2> QED
    BY <2>1, <2>2, <2>3
<1> QED
  BY <1>1, <1>2, <1>3, <1>4, <1>5, <1>6, <1>7, <1>8, <1>9
  DEF KeepaliveNext

LEMMA NextLease == LeaseInv /\ [KeepaliveNext]_kaVars => LeaseInv'
<1> SUFFICES ASSUME LeaseInv, [KeepaliveNext]_kaVars PROVE LeaseInv'
  OBVIOUS
<1>1. KeepaliveTypeOK'
  BY NextKeepaliveType DEF LeaseInv
<1>2. StepInv' /\ AccountInv'
  BY StepImplements, NextStep, NextAccount DEF LeaseInv
<1> QED
  BY <1>1, <1>2, AliveUnlessExpired, NextMargin DEF LeaseInv

\* Without failures and dropped requests the lease outlives fewer stalled
\* intervals than it has, for any lease, any number of slots and any number
\* of other users: a tick that finds every slot busy may be skipped, because
\* whoever holds a slot renews the lease.
THEOREM LeaseHolds == KeepaliveSpec => []LeaseSurvivesStalls
  BY InitLease, NextLease, MarginEnough, PTL DEF KeepaliveSpec

-----------------------------------------------------------------------------
(* The steps, by what they do to the slots. *)

\* A step of SessionSlots: one request is sent, handled or finished.
SlotStep ==
  \/ SendReclaim
  \/ ReclaimReturns
  \/ \E a \in Callers :
       ResolveSends(a) \/ ResolveReturns(a) \/ ResolveDropped(a)
  \/ \E r \in net : Serve(r)
  \/ ServerForgets

\* A step beside the slots: no request is touched.
Beside ==
  /\ UNCHANGED <<slotTable, pc, held, net, srvSeq, drops>>
  /\ \/ result' = result
     \/ \E a \in Actors : result' = [result EXCEPT ![a] = "nosession"]
  /\ srvAlive' \in BOOLEAN /\ (srvAlive' => srvAlive)
  /\ UNCHANGED faults \/ Fault

LEMMA SlotStepIsNext == SlotStep => Next
  BY ClientAssumption
  DEF SlotStep, SendReclaim, ReclaimReturns, ResolveSends, ResolveReturns,
      ResolveDropped, Serve, ServerForgets, Next, Callers

LEMMA StepKinds ==
  ASSUME [ClientNext]_allVars, TypeOK
  PROVE  SlotStep \/ CreateSession \/ ReclaimFails \/ Beside
<1> USE DEF Beside, tasks, server, TypeOK
<1>1. CASE ExchangeId \/ CreateSessionFails
  BY <1>1 DEF ExchangeId, CreateSessionFails
<1>2. CASE Disconnect \/ DisconnectFails
  BY <1>2 DEF Disconnect, DisconnectFails
<1>3. CASE Mount \/ UNCHANGED allVars
  BY <1>3 DEF Mount, allVars, vars
<1>4. ASSUME NEW a \in Callers, ResolvePath(a) \/ ResolveRefused(a)
      PROVE  Beside
  BY <1>4 DEF ResolvePath, ResolveRefused, vars, Callers
<1> QED
  BY <1>1, <1>2, <1>3, <1>4 DEF ClientNext, SlotStep

-----------------------------------------------------------------------------
(* Typing. *)

LEMMA InitClientType == ClientInit => ClientTypeOK
<1> SUFFICES ASSUME ClientInit PROVE ClientTypeOK
  OBVIOUS
<1>1. TypeOK
  BY InitType DEF ClientInit
<1>2. lockQueue \in Seq(Callers)
  BY DEF ClientInit
<1>3. created \in 0 .. MaxSessions /\ leaked \in Nat /\ srvSessions \subseteq SessionIds
  BY ClientAssumption DEF ClientInit
<1> QED
  BY <1>1, <1>2, <1>3 DEF ClientInit, ClientTypeOK

LEMMA NextClientType ==
  ClientTypeOK /\ [ClientNext]_allVars => ClientTypeOK'
<1> SUFFICES ASSUME ClientTypeOK, [ClientNext]_allVars PROVE ClientTypeOK'
  OBVIOUS
<1>0. TypeOK'
  <2>1. CASE SlotStep
    BY <2>1, SlotStepIsNext, NextType DEF ClientTypeOK
  <2>2. CASE CreateSession
    BY <2>2, SlotsAssumption
    DEF CreateSession, NewSlotTable, ClientTypeOK, TypeOK, tasks, SeqIds
  <2>3. CASE ReclaimFails
    BY <2>3 DEF ReclaimFails, ClientTypeOK, TypeOK, slotTable, server
  <2>4. CASE Beside
    BY <2>4, SlotsAssumption
    DEF Beside, Fault, ClientTypeOK, TypeOK, slotTable, Results
  <2> QED
    BY <2>1, <2>2, <2>3, <2>4, StepKinds DEF ClientTypeOK
\* CREATE_SESSION may add an id, and others may take one away.
<1>1. /\ created' \in 0 .. MaxSessions
      /\ srvSessions' \subseteq SessionIds
      /\ created' # created => created' \in SessionIds
  <2> USE ClientAssumption DEF ClientTypeOK, SessionIds, srvVars
  <2>1. CASE created' = created /\ srvSessions' \subseteq srvSessions
    BY <2>1
  <2>2. CASE /\ created < MaxSessions /\ created' = created + 1
             /\ srvSessions' = srvSessions \cup {created + 1}
    BY <2>2
  <2>3. CASE CreateSession \/ CreateSessionFails
    BY <2>1, <2>2, <2>3 DEF CreateSession, CreateSessionFails
  <2> QED
    BY <2>1, <2>3
    DEF ClientNext, ExchangeId, SendReclaim, ReclaimFails, ReclaimReturns,
        Disconnect, DisconnectFails, Mount, ResolvePath, ResolveSends,
        ResolveRefused, ResolveReturns, ResolveDropped, Serve,
        ServerForgets, allVars
<1>2. lockQueue' \in Seq(Callers)
  <2>1. lockQueue \in Seq(Callers)
    BY DEF ClientTypeOK
  <2>2. ASSUME NEW a \in Callers, ResolvePath(a)
        PROVE  lockQueue' \in Seq(Callers)
    BY <2>1, <2>2 DEF ResolvePath
  <2>3. ASSUME NEW a \in Callers,
               ResolveRefused(a) \/ ResolveReturns(a) \/ ResolveDropped(a)
        PROVE  lockQueue' \in Seq(Callers)
    <3>1. lockQueue # <<>> /\ lockQueue' = Tail(lockQueue)
      BY <2>3 DEF ResolveRefused, ResolveReturns, ResolveDropped, HoldsLock
    <3> QED
      BY <2>1, <3>1
  <2> QED
    BY <2>1, <2>2, <2>3
    DEF ClientNext, ExchangeId, CreateSession, CreateSessionFails,
        SendReclaim, ReclaimFails, ReclaimReturns, Disconnect,
        DisconnectFails, Mount, ResolveSends, Serve, ServerForgets, allVars,
        clientVars
<1>3. /\ session' \in {0} \cup SessionIds
      /\ established' \in {0} \cup SessionIds
      /\ step' \in {"none", "create", "reclaim"}
      /\ mounted' \in BOOLEAN
      /\ leaked' \in Nat
  <2> USE DEF ClientTypeOK, clientVars
  <2>1. CASE CreateSession
    <3>1. created + 1 \in SessionIds
      BY <1>1, <2>1 DEF CreateSession
    <3> QED
      BY <2>1, <3>1 DEF CreateSession
  <2>2. CASE ExchangeId \/ CreateSessionFails \/ Mount
    BY <2>2 DEF ExchangeId, CreateSessionFails, Mount
  <2>3. CASE SendReclaim \/ ReclaimFails \/ ReclaimReturns
    BY <2>3 DEF SendReclaim, ReclaimFails, ReclaimReturns, ReclaimAccepted,
                ReclaimRefused
  <2>4. CASE Disconnect \/ DisconnectFails
    BY <2>4 DEF Disconnect, DisconnectFails
  <2>5. ASSUME NEW a \in Callers,
               \/ ResolvePath(a) \/ ResolveSends(a) \/ ResolveRefused(a)
               \/ ResolveReturns(a) \/ ResolveDropped(a)
        PROVE  /\ UNCHANGED <<session, step, established, mounted>>
               /\ leaked' \in Nat
    BY <2>5
    DEF ResolvePath, ResolveSends, ResolveRefused, ResolveReturns,
        ResolveDropped
  <2>6. ASSUME NEW r \in net, Serve(r) PROVE UNCHANGED <<clientVars, leaked>>
    BY <2>6 DEF Serve
  <2>7. CASE ServerForgets \/ UNCHANGED allVars
    BY <2>7 DEF ServerForgets, allVars
  <2> QED
    BY <2>1, <2>2, <2>3, <2>4, <2>5, <2>6, <2>7 DEF ClientNext
<1> QED
  BY <1>0, <1>1, <1>2, <1>3 DEF ClientTypeOK

\* The client's session, the queue at its mutex and the server's sessions
\* keep their types.
THEOREM ClientTypeCorrect == ClientSpec => []ClientTypeOK
  BY InitClientType, NextClientType, PTL DEF ClientSpec

-----------------------------------------------------------------------------
(* One operation at a time, and no slot lost unseen. *)

\* A request is under way only for the holder of the mutex, or in connect
\* before the client is mounted.
OneAtATime ==
  /\ mounted => step = "none"
  /\ lockQueue # <<>> => mounted
  /\ pc[Connector] # "idle" => step = "reclaim"
  /\ \A a \in Callers : pc[a] # "idle" => HoldsLock(a)

LockInv ==
  /\ ClientTypeOK
  /\ TableInv
  /\ OneAtATime
  /\ Cardinality(Abandoned) = leaked

LEMMA InitLock == ClientInit => LockInv
<1> SUFFICES ASSUME ClientInit PROVE LockInv
  OBVIOUS
<1>1. Abandoned = {}
  BY DEF ClientInit, Init, Abandoned, NewSlotTable
<1>2. Cardinality(Abandoned) = leaked
  BY <1>1, FS_EmptySet DEF ClientInit
<1>3. OneAtATime
  BY ClientAssumption DEF ClientInit, Init, OneAtATime, Callers
<1> QED
  BY <1>2, <1>3, InitClientType, InitTable DEF ClientInit, LockInv

\* When connect is between requests, no request is under way.
LEMMA NoRequest ==
  ASSUME ClientTypeOK, OneAtATime, step = "create"
  PROVE  \A a \in Actors : pc[a] = "idle"
  BY DEF OneAtATime, HoldsLock, Callers

LEMMA NextTableClient ==
  ASSUME LockInv, [ClientNext]_allVars
  PROVE  TableInv'
<1>0. TypeOK /\ TypeOK'
  BY NextClientType DEF LockInv, ClientTypeOK
<1>1. CASE SlotStep
  BY <1>1, SlotStepIsNext, NextTable DEF LockInv
<1>2. CASE CreateSession
  <2>1. \A a \in Actors : pc'[a] = "idle"
    BY <1>2, NoRequest DEF CreateSession, LockInv, tasks
  <2> QED
    BY <1>0, <2>1 DEF TableInv, HeldInUse, SlotsExclusive, Holds
<1>3. CASE ReclaimFails
  BY <1>0, <1>3
  DEF ReclaimFails, LockInv, TableInv, HeldInUse, SlotsExclusive, Holds,
      slotTable, TypeOK
<1>4. CASE Beside
  BY <1>0, <1>4
  DEF Beside, LockInv, TableInv, HeldInUse, SlotsExclusive, Holds, slotTable
<1> QED
  BY <1>0, <1>1, <1>2, <1>3, <1>4, StepKinds

LEMMA NextOneAtATime ==
  ASSUME LockInv, [ClientNext]_allVars
  PROVE  OneAtATime'
<1>0. /\ ClientTypeOK /\ TypeOK /\ OneAtATime /\ Connector \in Actors
      /\ Callers = Actors \ {Connector} /\ lockQueue \in Seq(Callers)
  BY ClientAssumption DEF LockInv, ClientTypeOK, Callers
<1> USE <1>0 DEF OneAtATime, HoldsLock, clientVars
<1>1. CASE ExchangeId \/ CreateSession \/ CreateSessionFails
  BY <1>1
  DEF ExchangeId, CreateSession, CreateSessionFails, ClientIdle, tasks
<1>2. CASE SendReclaim \/ ReclaimFails \/ ReclaimReturns
  BY <1>2
  DEF SendReclaim, ReclaimFails, ReclaimReturns, StartRequest,
      FinishRequest, TypeOK
<1>3. CASE Disconnect \/ DisconnectFails \/ Mount
  BY <1>3
  DEF Disconnect, DisconnectFails, Mount, ClientIdle, vars, tasks
<1>4. ASSUME NEW a \in Callers, ResolvePath(a) PROVE OneAtATime'
  <2>1. lockQueue # <<>> =>
          lockQueue' # <<>> /\ Head(lockQueue') = Head(lockQueue)
    BY <1>4 DEF ResolvePath
  <2> QED
    BY <1>4, <2>1 DEF ResolvePath, vars, tasks
<1>5. ASSUME NEW a \in Callers, ResolveSends(a) PROVE OneAtATime'
  BY <1>5 DEF ResolveSends, StartRequest, TypeOK
<1>6. ASSUME NEW a \in Callers,
             ResolveRefused(a) \/ ResolveReturns(a) \/ ResolveDropped(a)
      PROVE  OneAtATime'
  <2>1. /\ lockQueue # <<>> /\ Head(lockQueue) = a /\ mounted
        /\ UNCHANGED <<mounted, step>>
        /\ \A b \in Callers : pc'[b] = "idle"
        /\ pc'[Connector] = pc[Connector]
    BY <1>6
    DEF ResolveRefused, ResolveReturns, ResolveDropped, FinishRequest,
        DropRequest, TypeOK
  <2> QED
    BY <2>1
<1>7. ASSUME NEW r \in net, Serve(r) PROVE OneAtATime'
  <2>1. \A a \in Actors : pc'[a] # "idle" => pc[a] # "idle"
    BY <1>7, AnswerFacts DEF Serve, Awaited
  <2> QED
    BY <1>7, <2>1 DEF Serve
<1>8. CASE ServerForgets \/ UNCHANGED allVars
  BY <1>8 DEF ServerForgets, ForgetSession, allVars, vars, tasks
<1> QED
  BY <1>1, <1>2, <1>3, <1>4, <1>5, <1>6, <1>7, <1>8 DEF ClientNext

LEMMA NextLeaks ==
  ASSUME LockInv, [ClientNext]_allVars
  PROVE  Cardinality(Abandoned') = leaked'
<1>0. TypeOK /\ TableInv /\ Cardinality(Abandoned) = leaked /\ Connector \in Actors
  BY ClientAssumption DEF LockInv, ClientTypeOK
<1> USE <1>0
<1>1. CASE SendReclaim
  BY <1>1, StartAbandonsNone DEF SendReclaim
<1>2. CASE ReclaimReturns
  BY <1>2, FinishAbandonsNone DEF ReclaimReturns
<1>3. CASE ReclaimFails
  BY <1>3, LeavingAbandonsOne DEF ReclaimFails, slotTable
<1>4. ASSUME NEW a \in Callers, ResolveSends(a)
      PROVE  Cardinality(Abandoned') = leaked'
  BY <1>4, StartAbandonsNone DEF ResolveSends, Callers
<1>5. ASSUME NEW a \in Callers, ResolveReturns(a)
      PROVE  Cardinality(Abandoned') = leaked'
  BY <1>5, FinishAbandonsNone DEF ResolveReturns, Callers
<1>6. ASSUME NEW a \in Callers, ResolveDropped(a)
      PROVE  Cardinality(Abandoned') = leaked'
  BY <1>6, LeavingAbandonsOne
  DEF ResolveDropped, DropRequest, slotTable, Callers
<1>7. ASSUME NEW r \in net, Serve(r)
      PROVE  Cardinality(Abandoned') = leaked'
  BY <1>7, ServerAbandonsNone DEF Serve
<1>8. CASE CreateSession
  <2>1. Abandoned' = {}
    BY <1>8 DEF CreateSession, NewSlotTable, Abandoned
  <2> QED
    BY <1>8, <2>1, FS_EmptySet DEF CreateSession
<1>9. CASE ServerForgets
  BY <1>9
  DEF ServerForgets, ForgetSession, slotTable, tasks, Abandoned, Holds
<1>10. ASSUME Beside, leaked' = leaked
       PROVE  Cardinality(Abandoned') = leaked'
  BY <1>10 DEF Beside, slotTable, Abandoned, Holds
<1>11. CASE ExchangeId \/ CreateSessionFails \/ Disconnect \/ DisconnectFails
            \/ Mount \/ UNCHANGED allVars
  <2>1. UNCHANGED <<inUse, pc, held, leaked>>
    BY <1>11
    DEF ExchangeId, CreateSessionFails, Disconnect, DisconnectFails, Mount,
        allVars, vars, slotTable, tasks
  <2> QED
    BY <2>1 DEF Abandoned, Holds
<1>12. ASSUME NEW a \in Callers, ResolvePath(a) \/ ResolveRefused(a)
       PROVE  Cardinality(Abandoned') = leaked'
  <2>1. UNCHANGED <<inUse, pc, held, leaked>>
    BY <1>12 DEF ResolvePath, ResolveRefused, vars, slotTable, tasks
  <2> QED
    BY <2>1 DEF Abandoned, Holds
<1> QED
  BY <1>1, <1>2, <1>3, <1>4, <1>5, <1>6, <1>7, <1>8, <1>9, <1>11, <1>12
  DEF ClientNext

LEMMA NextLock == LockInv /\ [ClientNext]_allVars => LockInv'
<1> SUFFICES ASSUME LockInv, [ClientNext]_allVars PROVE LockInv'
  OBVIOUS
<1>1. ClientTypeOK'
  BY NextClientType DEF LockInv
<1>2. Cardinality(Abandoned)' = leaked'
  BY NextLeaks DEF Abandoned, Holds
<1> QED
  BY <1>1, <1>2, NextTableClient, NextOneAtATime DEF LockInv

\* Slots go out of service one for each dropped resolve_path and each failed
\* RECLAIM_COMPLETE of the current session, and a new session has them all.
THEOREM LeaksCounted == ClientSpec => []LeaksAccounted
<1>1. LockInv => LeaksAccounted
  BY DEF LockInv, LeaksAccounted, Abandoned, Unheld
<1> QED
  BY <1>1, InitLock, NextLock, PTL DEF ClientSpec

\* A caller that holds the mutex finds no free slot only if leaks have used
\* up all of them.
LEMMA BusyMeansLeaked == LockInv => RefusalJustified
<1> SUFFICES ASSUME LockInv, NEW a \in Callers,
                    HoldsLock(a), pc[a] = "idle", AllSlotsBusy
             PROVE  leaked = NumSlots
  BY DEF RefusalJustified
<1>1. \A b \in Actors : pc[b] = "idle"
  BY DEF LockInv, OneAtATime, HoldsLock, Callers
<1>2. Abandoned = Slots
  BY <1>1 DEF Abandoned, Holds, AllSlotsBusy
<1>3. 0 \in Int /\ NumSlots - 1 \in Int /\ ~(0 > NumSlots - 1)
  BY SlotsAssumption
<1>4. Cardinality(Slots) = NumSlots - 1 - 0 + 1
  BY <1>3, FS_Interval DEF Slots
<1> QED
  BY <1>2, <1>4, SlotsAssumption DEF LockInv

\* Callers of resolve_path never compete for slots: NoSession means that
\* there is no session, or that leaks have used up its slots.
THEOREM RefusalsJustified == ClientSpec => []RefusalJustified
  BY BusyMeansLeaked, InitLock, NextLock, PTL DEF ClientSpec

-----------------------------------------------------------------------------
(* Sequence ids over reconnects. *)

NoMisorder == faults = 0 => \A a \in Actors : result[a] # "misordered"

ReconnectInv == LockInv /\ RetryInv /\ StepInv /\ NoMisorder

LEMMA InitReconnect == ClientInit => ReconnectInv
  BY InitLock, InitRetry, InitStep
  DEF ClientInit, Init, ReconnectInv, NoMisorder

LEMMA NextRetryClient ==
  ASSUME MaxSeq < SeqSpace, ReconnectInv, [ClientNext]_allVars
  PROVE  RetryInv'
<1>0. TypeOK /\ TableInv' /\ RetryInv
  BY NextTableClient DEF ReconnectInv, LockInv, ClientTypeOK
<1>1. CASE SlotStep
  BY <1>0, <1>1, SlotStepIsNext, NextRetry
<1>2. CASE CreateSession
  BY <1>0, <1>2
  DEF CreateSession, NewSlotTable, RetryInv, Spent, NoFalseRetry, tasks
<1>3. CASE ReclaimFails
  BY <1>0, <1>3
  DEF ReclaimFails, RetryInv, Spent, NoFalseRetry, slotTable, server
<1>4. CASE Beside
  BY <1>0, <1>4
  DEF Beside, RetryInv, Spent, NoFalseRetry, slotTable, TypeOK
<1> QED
  BY <1>0, <1>1, <1>2, <1>3, <1>4, StepKinds

LEMMA NextStepClient ==
  ASSUME ReconnectInv, [ClientNext]_allVars
  PROVE  StepInv'
<1>0. TypeOK /\ TableInv' /\ StepInv /\ faults \in Nat
  BY NextTableClient, SlotsAssumption
  DEF ReconnectInv, LockInv, ClientTypeOK, TypeOK
<1>1. CASE SlotStep
  BY <1>0, <1>1, SlotStepIsNext, NextStep
<1>2. CASE CreateSession
  <2>1. \A a \in Actors : pc'[a] = "idle"
    BY <1>2, NoRequest DEF CreateSession, ReconnectInv, LockInv, tasks
  <2>2. Inc(0) = 1
    BY SlotsAssumption DEF Inc
  <2>3. InStep'
    BY <1>2, <2>1, <2>2 DEF CreateSession, NewSlotTable, InStep
  <2> QED
    BY <1>0, <2>3 DEF StepInv
<1>3. CASE ReclaimFails
  BY <1>0, <1>3
  DEF ReclaimFails, StepInv, InStep, Request, InTurn, slotTable, server,
      TypeOK
<1>4. CASE Beside
  BY <1>0, <1>4
  DEF Beside, Fault, StepInv, InStep, Request, InTurn, slotTable
<1> QED
  BY <1>0, <1>1, <1>2, <1>3, <1>4, StepKinds

\* Only a fault makes the server refuse a sequence id.
LEMMA NextNoMisorder ==
  ASSUME ReconnectInv, [ClientNext]_allVars
  PROVE  NoMisorder'
<1> SUFFICES ASSUME faults' = 0
             PROVE  \A a \in Actors : result'[a] # "misordered"
  BY DEF NoMisorder
<1>0. TypeOK /\ faults \in Nat /\ Connector \in Actors
  BY SlotsAssumption, ClientAssumption
  DEF ReconnectInv, LockInv, ClientTypeOK, TypeOK
<1>s. ASSUME faults = 0 PROVE \A a \in Actors : result[a] # "misordered"
  BY <1>s DEF ReconnectInv, NoMisorder
<1> USE <1>0
<1>1. ASSUME NEW a \in Actors, StartRequest(a) \/ FinishRequest(a) \/ DropRequest(a)
      PROVE  \A b \in Actors : result'[b] # "misordered"
  BY <1>s, <1>1 DEF StartRequest, FinishRequest, DropRequest, TypeOK
<1>2. ASSUME NEW r \in net, Serve(r)
      PROVE  \A a \in Actors : result'[a] # "misordered"
  <2>1. ~FaultStep(r)
    BY DEF FaultStep, LoseReply, FailUnexecuted, EarlyError
  <2>2. faults = 0
    BY <1>2, <2>1
    DEF Serve, ServerStep, Execute, Replay, RejectMisordered,
        RejectBadSession
  <2>3. srvAlive => InTurn(r)
    BY <2>2 DEF ReconnectInv, StepInv, InStep
  <2>4. ~RejectMisordered(r)
    BY <2>3 DEF RejectMisordered
  <2>5. ASSUME NEW v, v # "misordered", Answer(r, v)
        PROVE  \A a \in Actors : result'[a] # "misordered"
    BY <1>s, <2>2, <2>5 DEF Answer, TypeOK
  <2> QED
    BY <1>2, <2>1, <2>4, <2>5
    DEF Serve, ServerStep, Execute, Replay, RejectBadSession
<1>3. CASE SlotStep
  <2>1. CASE ServerForgets
    BY <1>s, <2>1 DEF ServerForgets, ForgetSession, tasks
  <2> QED
    BY <1>1, <1>2, <1>3, <2>1
    DEF SlotStep, SendReclaim, ReclaimReturns, ResolveSends, ResolveReturns,
        ResolveDropped, Callers
<1>4. CASE CreateSession \/ ReclaimFails
  BY <1>s, <1>4 DEF CreateSession, ReclaimFails, tasks
<1>5. CASE Beside
  BY <1>s, <1>5 DEF Beside, Fault, TypeOK
<1> QED
  BY <1>3, <1>4, <1>5, StepKinds

LEMMA NextReconnect ==
  ASSUME MaxSeq < SeqSpace
  PROVE  ReconnectInv /\ [ClientNext]_allVars => ReconnectInv'
<1> SUFFICES ASSUME ReconnectInv, [ClientNext]_allVars PROVE ReconnectInv'
  OBVIOUS
<1> QED
  BY NextLock, NextRetryClient, NextStepClient, NextNoMisorder
  DEF ReconnectInv

\* In every session of a client, the first and those after reconnects, no
\* request is taken for a retry, and none is refused as out of order while
\* nothing has failed.
THEOREM ReconnectsInStep ==
  ASSUME MaxSeq < SeqSpace
  PROVE  ClientSpec => []ReconnectInStep
<1>1. ReconnectInv => ReconnectInStep
  BY DEF ReconnectInv, RetryInv, ReconnectInStep, NoMisorder
<1>2. ReconnectInv /\ [ClientNext]_allVars => ReconnectInv'
  BY NextReconnect
<1> QED
  BY <1>1, <1>2, InitReconnect, PTL DEF ClientSpec
=============================================================================
