------------------------------ MODULE NfsClient ------------------------------
(***************************************************************************)
(* Nfs4Client (client.rs) and MountHandle::resolve_path (mount.rs): the    *)
(* session handshake, its teardown, and concurrent path lookups behind the *)
(* client mutex, on top of the slot table of SessionSlots.                 *)
(*                                                                         *)
(* connect and disconnect take &mut self, and a MountHandle owns its       *)
(* client behind a mutex held for the whole of resolve_path, so one        *)
(* operation runs at a time.  EXCHANGE_ID, CREATE_SESSION and              *)
(* DESTROY_SESSION carry no slot; each is one step with every outcome the  *)
(* client can see.  A new session is a new slot table on both sides;       *)
(* requests left over from the old one cannot reach it.                    *)
(***************************************************************************)
EXTENDS SessionSlots, Sequences, SequencesExt

CONSTANTS
  Connector,    \* the task that runs connect, one of Actors
  MaxSessions   \* bound: CREATE_SESSIONs the server executes

ASSUME ClientAssumption ==
  /\ Connector \in Actors
  /\ MaxSessions \in Nat \ {0}

VARIABLES
  session,      \* Nfs4Client.session: 0 is None, else the session's id
  step,         \* the await point the client operation is at
  established,  \* the last session whose connect returned Ok; 0 if none
  mounted,      \* whether the client was moved into a MountHandle
  lockQueue,    \* resolve_path callers at the client mutex; the head holds it
  srvSessions,  \* server: ids of the sessions it keeps
  created,      \* server: CREATE_SESSIONs executed
  leaked        \* slots of the current session nobody will release

clientVars == <<session, step, established, mounted, lockQueue>>
srvVars == <<srvSessions, created>>
allVars == <<vars, clientVars, srvVars, leaked>>

Callers == Actors \ {Connector}
SessionIds == 1 .. MaxSessions

ClientTypeOK ==
  /\ TypeOK
  /\ session \in {0} \cup SessionIds
  /\ step \in {"none", "create", "reclaim"}
  /\ established \in {0} \cup SessionIds
  /\ mounted \in BOOLEAN
  /\ lockQueue \in Seq(Callers)
  /\ srvSessions \subseteq SessionIds
  /\ created \in 0 .. MaxSessions
  /\ leaked \in Nat

ClientInit ==
  /\ Init
  /\ session = 0
  /\ step = "none"
  /\ established = 0
  /\ mounted = FALSE
  /\ lockQueue = <<>>
  /\ srvSessions = {}
  /\ created = 0
  /\ leaked = 0

Fault == faults < MaxFaults /\ faults' = faults + 1

\* A client operation may start: nobody else has the client.
ClientIdle == step = "none" /\ ~mounted

-----------------------------------------------------------------------------
\* connect

\* EXCHANGE_ID succeeds, or connect returns its error.
ExchangeId ==
  /\ ClientIdle
  /\ \/ step' = "create" /\ UNCHANGED faults
     \/ Fault /\ UNCHANGED step
  /\ UNCHANGED <<slotTable, tasks, server, drops, session, established,
                 mounted, lockQueue, srvVars, leaked>>

\* Mutants: the new session keeps the old one's marks, or its sequence ids.
CreateSessionKeepsMarks ==
  /\ step = "create"
  /\ created < MaxSessions
  /\ created' = created + 1
  /\ srvSessions' = srvSessions \cup {created + 1}
  /\ session' = created + 1
  /\ step' = "reclaim"
  /\ sequenceIds' = NewSlotTable.sequence_ids
  /\ net' = {}
  /\ srvSeq' = [s \in Slots |-> 0]
  /\ srvAlive' = TRUE
  /\ leaked' = 0
  /\ UNCHANGED <<inUse, tasks, faults, drops, established, mounted, lockQueue>>

CreateSessionKeepsSeqs ==
  /\ step = "create"
  /\ created < MaxSessions
  /\ created' = created + 1
  /\ srvSessions' = srvSessions \cup {created + 1}
  /\ session' = created + 1
  /\ step' = "reclaim"
  /\ inUse' = NewSlotTable.in_use
  /\ net' = {}
  /\ srvSeq' = [s \in Slots |-> 0]
  /\ srvAlive' = TRUE
  /\ leaked' = 0
  /\ UNCHANGED <<sequenceIds, tasks, faults, drops, established, mounted,
                 lockQueue>>

\* CREATE_SESSION succeeds: the old session, if any, is overwritten with a
\* new slot table.
CreateSession ==
  /\ step = "create"
  /\ created < MaxSessions
  /\ created' = created + 1
  /\ srvSessions' = srvSessions \cup {created + 1}
  /\ session' = created + 1
  /\ step' = "reclaim"
  /\ inUse' = NewSlotTable.in_use
  /\ sequenceIds' = NewSlotTable.sequence_ids
  /\ net' = {}
  /\ srvSeq' = [s \in Slots |-> 0]
  /\ srvAlive' = TRUE
  /\ leaked' = 0
  /\ UNCHANGED <<tasks, faults, drops, established, mounted, lockQueue>>

\* CREATE_SESSION fails, executed by the server or not: connect returns the
\* error and leaves self.session as it was.
CreateSessionFails ==
  /\ step = "create"
  /\ Fault
  /\ \/ UNCHANGED srvVars
     \/ /\ created < MaxSessions
        /\ created' = created + 1
        /\ srvSessions' = srvSessions \cup {created + 1}
  /\ step' = "none"
  /\ UNCHANGED <<slotTable, tasks, server, drops, session, established,
                 mounted, lockQueue, leaked>>

\* SEQUENCE + RECLAIM_COMPLETE in the first slot of the new session.
SendReclaim ==
  /\ step = "reclaim"
  /\ StartRequest(Connector)
  /\ UNCHANGED <<clientVars, srvVars, leaked>>

\* The COMPOUND failed: `?` returns before release_slot.
ReclaimFails ==
  /\ step = "reclaim"
  /\ pc[Connector] = "answered" /\ result[Connector] = "err"
  /\ pc' = [pc EXCEPT ![Connector] = "idle"]
  /\ step' = "none"
  /\ leaked' = leaked + 1
  /\ UNCHANGED <<slotTable, held, result, server, faults, drops, session,
                 established, mounted, lockQueue, srvVars>>

\* Its status is ok: connect returns Ok.
ReclaimAccepted ==
  /\ result[Connector] = "ok"
  /\ established' = session

\* Its status is the server's refusal, of SEQUENCE or, SEQUENCE accepted, of
\* RECLAIM_COMPLETE: connect returns Err, and self.session is the new one.
ReclaimRefused == UNCHANGED established

\* The COMPOUND returned: release the slot, then look at the status.
ReclaimReturns ==
  /\ step = "reclaim"
  /\ result[Connector] # "err"
  /\ FinishRequest(Connector)
  /\ step' = "none"
  /\ ReclaimAccepted \/ ReclaimRefused
  /\ UNCHANGED <<session, mounted, lockQueue, srvVars, leaked>>

-----------------------------------------------------------------------------
\* disconnect

\* DESTROY_SESSION is answered, whatever its status: the session is dropped.
Disconnect ==
  /\ ClientIdle /\ session # 0
  /\ session' = 0
  /\ \/ srvSessions' = srvSessions \ {session} /\ UNCHANGED faults
     \/ Fault /\ UNCHANGED srvSessions
  /\ srvAlive' = (session \in srvSessions' /\ srvAlive)
  /\ UNCHANGED <<slotTable, tasks, net, srvSeq, drops, step, established,
                 mounted, lockQueue, created, leaked>>

\* The COMPOUND itself fails, executed or not: `?` keeps the session.
DisconnectFails ==
  /\ ClientIdle /\ session # 0
  /\ Fault
  /\ srvSessions' \in {srvSessions, srvSessions \ {session}}
  /\ srvAlive' = (session \in srvSessions' /\ srvAlive)
  /\ UNCHANGED <<slotTable, tasks, net, srvSeq, drops, session, step,
                 established, mounted, lockQueue, created, leaked>>

\* MountHandle::new takes the client, connected or not.
Mount ==
  /\ ClientIdle
  /\ mounted' = TRUE
  /\ UNCHANGED <<vars, session, step, established, lockQueue, srvVars, leaked>>

-----------------------------------------------------------------------------
\* resolve_path

HoldsLock(a) == lockQueue # <<>> /\ Head(lockQueue) = a

\* A caller queues for the client mutex, which is fair.
ResolvePath(a) ==
  /\ mounted
  /\ ~Contains(lockQueue, a)
  /\ lockQueue' = Append(lockQueue, a)
  /\ UNCHANGED <<vars, session, step, established, mounted, srvVars, leaked>>

\* With the lock: take a slot and send SEQUENCE PUTROOTFH LOOKUP* GETFH.
ResolveSends(a) ==
  /\ HoldsLock(a)
  /\ session # 0
  /\ StartRequest(a)
  /\ UNCHANGED <<clientVars, srvVars, leaked>>

\* Mutant: the early return keeps the mutex.
ResolveRefusedKeepsLock(a) ==
  /\ HoldsLock(a)
  /\ pc[a] = "idle"
  /\ session = 0 \/ AllSlotsBusy
  /\ result' = [result EXCEPT ![a] = "nosession"]
  /\ UNCHANGED <<slotTable, pc, held, server, faults, drops, clientVars,
                 srvVars, leaked>>

\* No session or no slot: NoSession.
ResolveRefused(a) ==
  /\ HoldsLock(a)
  /\ pc[a] = "idle"
  /\ session = 0 \/ AllSlotsBusy
  /\ result' = [result EXCEPT ![a] = "nosession"]
  /\ lockQueue' = Tail(lockQueue)
  /\ UNCHANGED <<slotTable, pc, held, server, faults, drops, session, step,
                 established, mounted, srvVars, leaked>>

\* Mutant: the result is examined before the slot is released.
ResolveReturnsEarly(a) ==
  /\ HoldsLock(a)
  /\ pc[a] = "answered"
  /\ IF result[a] = "ok" THEN ReleaseSlot(held[a].slot) ELSE UNCHANGED slotTable
  /\ pc' = [pc EXCEPT ![a] = "idle"]
  /\ lockQueue' = Tail(lockQueue)
  /\ UNCHANGED <<held, result, server, faults, drops, session, step,
                 established, mounted, srvVars, leaked>>

\* The COMPOUND returned: release the slot, examine the result, unlock.
ResolveReturns(a) ==
  /\ HoldsLock(a)
  /\ FinishRequest(a)
  /\ lockQueue' = Tail(lockQueue)
  /\ UNCHANGED <<session, step, established, mounted, srvVars, leaked>>

\* The caller drops the future: the mutex guard unlocks, the slot stays taken.
ResolveDropped(a) ==
  /\ HoldsLock(a)
  /\ DropRequest(a)
  /\ lockQueue' = Tail(lockQueue)
  /\ leaked' = leaked + 1
  /\ UNCHANGED <<session, step, established, mounted, srvVars>>

-----------------------------------------------------------------------------
Serve(r) ==
  /\ ServerStep(r) \/ FaultStep(r)
  /\ UNCHANGED <<clientVars, srvVars, leaked>>

\* The server forgets the client's session: a restart, or an expired lease.
ServerForgets ==
  /\ session \in srvSessions
  /\ ForgetSession
  /\ srvSessions' = srvSessions \ {session}
  /\ UNCHANGED <<clientVars, created, leaked>>

ClientNext ==
  \/ ExchangeId \/ CreateSession \/ CreateSessionFails
  \/ SendReclaim \/ ReclaimFails \/ ReclaimReturns
  \/ Disconnect \/ DisconnectFails
  \/ Mount
  \/ \E a \in Callers :
       \/ ResolvePath(a) \/ ResolveSends(a) \/ ResolveRefused(a)
       \/ ResolveReturns(a) \/ ResolveDropped(a)
  \/ \E r \in net : Serve(r)
  \/ ServerForgets

ClientSpec == ClientInit /\ [][ClientNext]_allVars

\* The runtime polls a task that can go on, and the server answers.
ClientFairness ==
  /\ \A a \in Callers :
       /\ WF_allVars(ResolveSends(a) \/ ResolveRefused(a))
       /\ WF_allVars(ResolveReturns(a))
  /\ \A s \in Slots :
       WF_allVars(\E r \in net : r.slot = s /\ Serve(r) /\ ServerStep(r))

ClientLiveSpec == ClientSpec /\ ClientFairness

-----------------------------------------------------------------------------
\* Properties

Unheld(s) == ~\E a \in Actors : Holds(a, s)

\* A slot is out of service exactly when a dropped resolve_path or a failed
\* RECLAIM_COMPLETE left it marked: nothing else loses slots, and a new
\* session starts with all of them (client.rs 153-174, mount.rs 73-93).
LeaksAccounted ==
  Cardinality({s \in Slots : inUse[s] /\ Unheld(s)}) = leaked

\* A lookup is refused for want of a session only when there is none, or
\* when leaks have used up every slot: the mutex means callers never compete
\* for slots.
RefusalJustified ==
  (\E a \in Callers : HoldsLock(a) /\ pc[a] = "idle" /\ AllSlotsBusy)
    => session = 0 \/ leaked = NumSlots

\* Sequence ids start over with every session, and on both sides: a request
\* in the first session or after any number of reconnects is never answered
\* from the reply cache nor out of order while nothing has failed.
ReconnectInStep ==
  /\ NoFalseRetry
  /\ faults = 0 => \A a \in Actors : result[a] # "misordered"

\* client.rs 29: "Get a reference to the session manager (if connected)."
\* The session a client offers is one whose connect returned Ok.
SessionMeansConnected ==
  step = "none" /\ session # 0 => session = established

\* The bound of the model is reached: a slot is free that may not be used.
AtSeqBound == \E s \in Slots : sequenceIds[s] >= MaxSeq

\* Every caller of resolve_path gets an answer: the mutex is always passed
\* on, also past callers that found no session or no slot and past dropped
\* futures (mount.rs 67-95).
CallersAnswered ==
  \A a \in Callers :
    Contains(lockQueue, a) ~> (~Contains(lockQueue, a) \/ AtSeqBound)
=============================================================================
