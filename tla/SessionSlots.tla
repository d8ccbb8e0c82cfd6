---------------------------- MODULE SessionSlots ----------------------------
(***************************************************************************)
(* The NFSv4.1 slot table of nfs4-client (SessionManager, session.rs), the *)
(* tasks that share it, and the server's view of the same slots.           *)
(*                                                                         *)
(* Every request of this client follows one discipline: try_alloc_slot,    *)
(* one COMPOUND whose SEQUENCE carries the slot and its sequence id,       *)
(* release_slot.  resolve_path (mount.rs) and keepalive_loop               *)
(* (keepalive.rs) both release whatever the COMPOUND returned.             *)
(*                                                                         *)
(* The server is outside the repository.  It executes a request whose      *)
(* sequence id is the successor of the last one it executed in that slot,  *)
(* answers the last one again from its reply cache, and rejects any other  *)
(* (RFC 8881, the rule the client's sequence ids exist for).               *)
(***************************************************************************)
EXTENDS Integers, FiniteSets

CONSTANTS
  Actors,     \* tasks that hold a reference to the SessionManager
  NumSlots,   \* ca_maxrequests granted by CREATE_SESSION
  SeqSpace,   \* sequence ids are u32: 2^32 in the code
  MaxSeq,     \* bound: no slot is allocated at or beyond this sequence id
  MaxFaults,  \* bound: transport and server failures
  MaxDrops    \* bound: request futures dropped before release_slot

ASSUME SlotsAssumption ==
  /\ NumSlots \in Nat \ {0}
  /\ SeqSpace \in Nat /\ SeqSpace >= 2
  /\ MaxSeq \in Nat /\ MaxSeq <= SeqSpace
  /\ MaxFaults \in Nat
  /\ MaxDrops \in Nat

VARIABLES
  inUse,        \* SlotTable.in_use
  sequenceIds,  \* SlotTable.sequence_ids
  pc,           \* where each task is
  held,         \* the (slot, seq) a task got from try_alloc_slot
  result,       \* what the task's last COMPOUND returned
  net,          \* requests the server has not handled yet
  srvSeq,       \* server: the last sequence id executed in each slot
  srvAlive,     \* server: whether it still knows the session
  faults,       \* failures so far
  drops         \* dropped futures so far

slotTable == <<inUse, sequenceIds>>
tasks == <<pc, held, result>>
server == <<net, srvSeq, srvAlive>>
vars == <<slotTable, tasks, server, faults, drops>>

-----------------------------------------------------------------------------
Slots == 0 .. NumSlots - 1
SeqIds == 0 .. SeqSpace - 1
Tickets == [slot : Slots, seq : SeqIds]
Requests == [actor : Actors, slot : Slots, seq : SeqIds]
Results == {"none", "ok", "err", "misordered", "replayed",
            "badsession", "nosession"}

\* u32 += 1.  A release build wraps; a debug build would panic instead.
Inc(n) == (n + 1) % SeqSpace

TypeOK ==
  /\ inUse \in [Slots -> BOOLEAN]
  /\ sequenceIds \in [Slots -> SeqIds]
  /\ pc \in [Actors -> {"idle", "waiting", "answered"}]
  /\ held \in [Actors -> Tickets]
  /\ result \in [Actors -> Results]
  /\ net \subseteq Requests
  /\ srvSeq \in [Slots -> SeqIds]
  /\ srvAlive \in BOOLEAN
  /\ faults \in 0 .. MaxFaults
  /\ drops \in 0 .. MaxDrops

-----------------------------------------------------------------------------
\* SessionManager

\* Mutant: one slot too many.
NewSlotTableOneMore ==
  [in_use |-> [s \in 0 .. NumSlots |-> FALSE],
   sequence_ids |-> [s \in 0 .. NumSlots |-> 1]]

\* SessionManager::new: every slot free, sequence ids start at 1.
NewSlotTable ==
  [in_use |-> [s \in Slots |-> FALSE], sequence_ids |-> [s \in Slots |-> 1]]

\* Mutant: the slot found is not marked.
TryAllocSlotUnmarked(s) ==
  /\ ~inUse[s]
  /\ \A t \in Slots : t < s => inUse[t]
  /\ UNCHANGED slotTable

\* try_alloc_slot, Some: the first free slot is marked in use.
TryAllocSlot(s) ==
  /\ ~inUse[s]
  /\ \A t \in Slots : t < s => inUse[t]
  /\ inUse' = [inUse EXCEPT ![s] = TRUE]
  /\ UNCHANGED sequenceIds

\* try_alloc_slot, None: all slots are in use.
AllSlotsBusy == \A s \in Slots : inUse[s]

\* Mutants: the mark stays; the sequence id stays, or counts twice.
ReleaseSlotKeepsMark(s) ==
  /\ UNCHANGED inUse
  /\ sequenceIds' = [sequenceIds EXCEPT ![s] = Inc(@)]

ReleaseSlotKeepsSeq(s) ==
  /\ inUse' = [inUse EXCEPT ![s] = FALSE]
  /\ UNCHANGED sequenceIds

ReleaseSlotCountsTwice(s) ==
  /\ inUse' = [inUse EXCEPT ![s] = FALSE]
  /\ sequenceIds' = [sequenceIds EXCEPT ![s] = Inc(Inc(@))]

\* release_slot: free the slot and move on to its next sequence id.
ReleaseSlot(s) ==
  /\ inUse' = [inUse EXCEPT ![s] = FALSE]
  /\ sequenceIds' = [sequenceIds EXCEPT ![s] = Inc(@)]

-----------------------------------------------------------------------------
\* Tasks

Init ==
  /\ inUse = NewSlotTable.in_use
  /\ sequenceIds = NewSlotTable.sequence_ids
  /\ pc = [a \in Actors |-> "idle"]
  /\ held = [a \in Actors |-> [slot |-> 0, seq |-> 1]]
  /\ result = [a \in Actors |-> "none"]
  /\ net = {}
  /\ srvSeq = [s \in Slots |-> 0]
  /\ srvAlive = TRUE
  /\ faults = 0
  /\ drops = 0

Request(a) == [actor |-> a, slot |-> held[a].slot, seq |-> held[a].seq]

\* Allocate a slot and hand the COMPOUND to the transport.
StartRequest(a) ==
  /\ pc[a] = "idle"
  /\ \E s \in Slots :
       /\ sequenceIds[s] < MaxSeq
       /\ TryAllocSlot(s)
       /\ held' = [held EXCEPT ![a] = [slot |-> s, seq |-> sequenceIds[s]]]
       /\ net' = net \cup {[actor |-> a, slot |-> s, seq |-> sequenceIds[s]]}
  /\ pc' = [pc EXCEPT ![a] = "waiting"]
  /\ result' = [result EXCEPT ![a] = "none"]
  /\ UNCHANGED <<srvSeq, srvAlive, faults, drops>>

\* No slot: the caller fails with NoSession without sending anything.
NoSlotFree(a) ==
  /\ pc[a] = "idle"
  /\ AllSlotsBusy
  /\ result' = [result EXCEPT ![a] = "nosession"]
  /\ UNCHANGED <<slotTable, pc, held, server, faults, drops>>

\* Mutants: an error returns before release_slot; a refused slot starts over.
FinishReleasesOnOk(a) ==
  /\ pc[a] = "answered"
  /\ IF result[a] = "ok" THEN ReleaseSlot(held[a].slot) ELSE UNCHANGED slotTable
  /\ pc' = [pc EXCEPT ![a] = "idle"]
  /\ UNCHANGED <<held, result, server, faults, drops>>

FinishStartsOver(a) ==
  /\ pc[a] = "answered"
  /\ inUse' = [inUse EXCEPT ![held[a].slot] = FALSE]
  /\ sequenceIds' = [sequenceIds EXCEPT
       ![held[a].slot] = IF result[a] = "misordered" THEN 1 ELSE Inc(@)]
  /\ pc' = [pc EXCEPT ![a] = "idle"]
  /\ UNCHANGED <<held, result, server, faults, drops>>

\* The COMPOUND returned, Ok or Err: release the slot and return.
FinishRequest(a) ==
  /\ pc[a] = "answered"
  /\ ReleaseSlot(held[a].slot)
  /\ pc' = [pc EXCEPT ![a] = "idle"]
  /\ UNCHANGED <<held, result, server, faults, drops>>

\* The caller drops the future while it awaits the COMPOUND: no guard object
\* releases the slot, and the request may already be on its way.
DropRequest(a) ==
  /\ pc[a] = "waiting"
  /\ drops < MaxDrops
  /\ drops' = drops + 1
  /\ pc' = [pc EXCEPT ![a] = "idle"]
  /\ UNCHANGED <<slotTable, held, result, server, faults>>

-----------------------------------------------------------------------------
\* Transport and server

Awaited(r) == pc[r.actor] = "waiting" /\ Request(r.actor) = r

\* The COMPOUND of r returns v to its caller, if it is still waiting.
Answer(r, v) ==
  /\ pc' = [pc EXCEPT ![r.actor] = IF Awaited(r) THEN "answered" ELSE @]
  /\ result' = [result EXCEPT ![r.actor] = IF Awaited(r) THEN v ELSE @]
  /\ UNCHANGED held

InTurn(r) == r.seq = Inc(srvSeq[r.slot])

Executed(r) ==
  /\ srvAlive
  /\ InTurn(r)
  /\ net' = net \ {r}
  /\ srvSeq' = [srvSeq EXCEPT ![r.slot] = r.seq]
  /\ UNCHANGED srvAlive

\* The server executes the request and the client reads the reply.
Execute(r) ==
  /\ Executed(r)
  /\ Answer(r, "ok")
  /\ UNCHANGED <<slotTable, faults, drops>>

\* The server executes the request but its reply is lost.
LoseReply(r) ==
  /\ Executed(r)
  /\ Answer(r, "err")
  /\ faults < MaxFaults /\ faults' = faults + 1
  /\ UNCHANGED <<slotTable, drops>>

\* The request is lost, refused by the RPC layer, or its SEQUENCE is refused
\* (NFS4ERR_DELAY): the server's slot does not advance.
FailUnexecuted(r) ==
  /\ net' = net \ {r}
  /\ Answer(r, "err")
  /\ faults < MaxFaults /\ faults' = faults + 1
  /\ UNCHANGED <<slotTable, srvSeq, srvAlive, drops>>

\* The transport reports an error while the request is still on its way.
EarlyError(r) ==
  /\ Awaited(r)
  /\ Answer(r, "err")
  /\ faults < MaxFaults /\ faults' = faults + 1
  /\ UNCHANGED <<slotTable, server, drops>>

\* A sequence id the server has executed last: the cached reply is sent again.
Replay(r) ==
  /\ srvAlive
  /\ r.seq = srvSeq[r.slot]
  /\ net' = net \ {r}
  /\ Answer(r, "replayed")
  /\ UNCHANGED <<slotTable, srvSeq, srvAlive, faults, drops>>

\* Any other sequence id: NFS4ERR_SEQ_MISORDERED.
RejectMisordered(r) ==
  /\ srvAlive
  /\ ~InTurn(r) /\ r.seq # srvSeq[r.slot]
  /\ net' = net \ {r}
  /\ Answer(r, "misordered")
  /\ UNCHANGED <<slotTable, srvSeq, srvAlive, faults, drops>>

\* A session the server has forgotten: NFS4ERR_BADSESSION.
RejectBadSession(r) ==
  /\ ~srvAlive
  /\ net' = net \ {r}
  /\ Answer(r, "badsession")
  /\ UNCHANGED <<slotTable, srvSeq, srvAlive, faults, drops>>

\* The server restarts, or the client's lease expires.
ForgetSession ==
  /\ srvAlive
  /\ srvAlive' = FALSE
  /\ UNCHANGED <<slotTable, tasks, net, srvSeq, faults, drops>>

ServerStep(r) ==
  \/ Execute(r)
  \/ Replay(r)
  \/ RejectMisordered(r)
  \/ RejectBadSession(r)

FaultStep(r) ==
  \/ LoseReply(r)
  \/ FailUnexecuted(r)
  \/ EarlyError(r)

Next ==
  \/ \E a \in Actors :
       \/ StartRequest(a)
       \/ NoSlotFree(a)
       \/ FinishRequest(a)
       \/ DropRequest(a)
  \/ \E r \in net : ServerStep(r) \/ FaultStep(r)
  \/ ForgetSession

Spec == Init /\ [][Next]_vars

\* Tasks run, and the server handles what reaches it.  A caller need never
\* start a request, and no failure need ever happen.
Fairness ==
  /\ \A a \in Actors : WF_vars(FinishRequest(a))
  /\ \A s \in Slots : WF_vars(\E r \in net : r.slot = s /\ ServerStep(r))

FairSpec == Spec /\ Fairness

-----------------------------------------------------------------------------
\* Properties

Holds(a, s) == pc[a] # "idle" /\ held[a].slot = s

\* try_alloc_slot never hands one slot to two tasks (session.rs 57-68).
SlotsExclusive ==
  \A a, b \in Actors : \A s \in Slots :
    Holds(a, s) /\ Holds(b, s) => a = b

\* Every slot in use is held by a running request, except one slot for each
\* future dropped before it reached release_slot.
SlotsAccounted ==
  Cardinality({s \in Slots : inUse[s] /\ ~\E a \in Actors : Holds(a, s)})
    = drops

\* No request is mistaken for a retry of an earlier one: the server never
\* answers a request of this client from its reply cache, whatever failed
\* before (release_slot counts every attempt, session.rs 77).
NoFalseRetry == \A a \in Actors : result[a] # "replayed"

\* While nothing has failed and the session lives, the client and the server
\* agree on the next sequence id of every free slot, across the u32 wrap.
FaultFreeInStep ==
  faults = 0 /\ srvAlive =>
    \A s \in Slots : ~inUse[s] => sequenceIds[s] = Inc(srvSeq[s])

\* The client has moved past the sequence id the server expects and no
\* request on its way carries it.
OutOfStep(s) ==
  /\ sequenceIds[s] > Inc(srvSeq[s])
  /\ \A r \in net : r.slot = s => ~InTurn(r)

\* A slot that has lost step never executes a request again: release_slot
\* only counts up and nothing else writes sequence_ids, so one request the
\* server did not execute makes every later use of the slot fail.
LostSlotsStayLost ==
  [][\A s \in Slots : OutOfStep(s) =>
       OutOfStep(s)' /\ srvSeq'[s] = srvSeq[s]]_vars

\* A slot in use is released again as long as no future is dropped: every
\* path of resolve_path and keepalive_loop after the COMPOUND reaches
\* release_slot.
SlotsReturn ==
  \A s \in Slots : inUse[s] ~> (~inUse[s] \/ drops > 0)
=============================================================================
