---------------------------- MODULE TcpTransport ----------------------------
(***************************************************************************)
(* TcpTransport::call (onc-rpc, tcp.rs): concurrent RPC calls over one TCP *)
(* connection, and the peer that answers them.                             *)
(*                                                                         *)
(* A reply travels as a record cut into Parts pieces; one socket read      *)
(* returns the next few pieces, whatever records they belong to.  A call   *)
(* reassembles with a reader of its own (RecordReader models it), so what  *)
(* a read brings beyond the end of the record is dropped with the reader,  *)
(* and a reader that starts in the middle of a record takes payload for a  *)
(* header.  What follows then depends on the bytes: the length is refused, *)
(* the record does not decode, or the reader waits for bytes that do not   *)
(* come.  The model leaves the choice open, except that arbitrary payload  *)
(* never passes for a well-formed reply with the awaited xid.              *)
(*                                                                         *)
(* A caller may drop the call's future at any await point.  The connection *)
(* may end at any time, in the middle of a reply too: closed by the peer   *)
(* or lost with what was on its way.                                       *)
(***************************************************************************)
EXTENDS Integers, Sequences, FiniteSets, SequencesExt

CONSTANTS
  Callers,     \* tasks that share the transport
  XidSpace,    \* xids are u32: 2^32 in the code
  Parts,       \* pieces a reply record arrives in
  MaxRead,     \* pieces one socket read can return
  MaxCalls,    \* bound: calls made, below XidSpace so that no xid recurs
  MaxCancels,  \* bound: futures dropped
  MaxRejects   \* bound: replies that carry another xid, decode as none or are too long

ASSUME TransportAssumption ==
  /\ XidSpace \in Nat \ {0} /\ Parts \in Nat \ {0} /\ MaxRead \in Nat \ {0}
  /\ MaxCalls \in Nat /\ MaxCalls < XidSpace /\ MaxCancels \in Nat /\ MaxRejects \in Nat

VARIABLES
  nextXid,    \* TcpTransport.next_xid
  lockQueue,  \* callers at the stream mutex, in order; the head holds it
  pc,         \* where each call is
  request,    \* each caller's request: its xid and which call it is
  collected,  \* pieces the call's RecordReader has of the current record
  outcome,    \* what the last call returned
  reqs,       \* requests on the wire or at the peer, not answered yet
  served,     \* calls whose request the peer has carried out
  replies,    \* pieces of replies not read yet: <<request, piece>>
  garbled,    \* a request was written in part only
  open,       \* whether the connection is up
  overlong,   \* the peer has sent a reply beyond the size limit
  calls,      \* calls made
  cancels,    \* futures dropped
  rejects     \* bad replies sent

taskVars == <<lockQueue, pc, request, collected, outcome>>
peerVars == <<reqs, replies, open, overlong, rejects, served>>
vars == <<nextXid, taskVars, peerVars, garbled, calls, cancels>>

Xids == 0 .. XidSpace - 1

\* What the peer may send in place of a reply: a record that decodes as none,
\* and one beyond MAX_RECORD_SIZE.  Neither is an xid.
NotAReply == XidSpace
TooLong == XidSpace + 1

\* Only the xid is in the message; the call it belongs to is for the
\* properties.  Call 0 is nobody's.
RequestIds == [xid : Xids \cup {NotAReply, TooLong}, call : 0 .. MaxCalls]
NoRequest == [xid |-> 0, call |-> 0]

TypeOK ==
  /\ nextXid \in Xids
  /\ lockQueue \in Seq(Callers)
  /\ pc \in [Callers -> {"idle", "begun", "lock", "reading", "lost"}]
  /\ request \in [Callers -> RequestIds]
  /\ collected \in [Callers -> Seq(RequestIds \X (1 .. Parts))]
  /\ outcome \in [Callers ->
       [kind : {"none", "unsent", "ok", "mismatch", "refused", "garbage", "eof"},
        from : RequestIds]]
  /\ reqs \subseteq RequestIds /\ served \subseteq 1 .. MaxCalls
  /\ replies \in Seq(RequestIds \X (1 .. Parts))
  /\ garbled \in BOOLEAN /\ open \in BOOLEAN /\ overlong \in BOOLEAN
  /\ calls \in 0 .. MaxCalls
  /\ cancels \in 0 .. MaxCancels
  /\ rejects \in 0 .. MaxRejects

Init ==
  /\ nextXid = 1 % XidSpace
  /\ lockQueue = <<>>
  /\ pc = [c \in Callers |-> "idle"]
  /\ request = [c \in Callers |-> NoRequest]
  /\ collected = [c \in Callers |-> <<>>]
  /\ outcome = [c \in Callers |-> [kind |-> "none", from |-> NoRequest]]
  /\ reqs = {} /\ replies = <<>> /\ served = {}
  /\ garbled = FALSE /\ open = TRUE /\ overlong = FALSE
  /\ calls = 0 /\ cancels = 0 /\ rejects = 0

HoldsLock(c) == lockQueue # <<>> /\ Head(lockQueue) = c

-----------------------------------------------------------------------------
\* fetch_add on the xid counter.
BeginCall(c) ==
  /\ pc[c] = "idle"
  /\ calls < MaxCalls /\ calls' = calls + 1
  /\ request' = [request EXCEPT ![c] = [xid |-> nextXid, call |-> calls']]
  /\ nextXid' = (nextXid + 1) % XidSpace
  /\ pc' = [pc EXCEPT ![c] = "begun"]
  /\ outcome' = [outcome EXCEPT ![c].kind = "none"]
  /\ UNCHANGED <<lockQueue, collected, peerVars, garbled, cancels>>

\* The call is encoded and queues for the stream mutex; another may have
\* taken a later xid and queued before it.
Enqueue(c) ==
  /\ pc[c] = "begun"
  /\ lockQueue' = Append(lockQueue, c)
  /\ pc' = [pc EXCEPT ![c] = "lock"]
  /\ UNCHANGED <<nextXid, request, collected, outcome, peerVars, garbled, calls,
                 cancels>>

\* A credential or a body beyond its limit: the xid is spent on nothing.
EncodeFails(c) ==
  /\ pc[c] = "begun"
  /\ pc' = [pc EXCEPT ![c] = "idle"]
  /\ outcome' = [outcome EXCEPT ![c] = [kind |-> "unsent", from |-> NoRequest]]
  /\ request' = [request EXCEPT ![c] = NoRequest]
  /\ UNCHANGED <<nextXid, lockQueue, collected, peerVars, garbled, calls, cancels>>

\* Mutant: the mutex is held for the write only.
SendUnlocks(c) ==
  /\ pc[c] = "lock" /\ HoldsLock(c)
  /\ reqs' = IF garbled \/ ~open THEN reqs ELSE reqs \cup {request[c]}
  /\ collected' = [collected EXCEPT ![c] = <<>>]
  /\ pc' = [pc EXCEPT ![c] = "reading"]
  /\ lockQueue' = Tail(lockQueue)
  /\ UNCHANGED <<nextXid, request, outcome, replies, open, overlong, rejects, served,
                 garbled, calls, cancels>>

\* With the mutex: write the whole record, then read with a fresh reader.
\* A request behind one written in part reaches the peer as its tail.
Send(c) ==
  /\ pc[c] = "lock" /\ HoldsLock(c)
  /\ reqs' = IF garbled \/ ~open THEN reqs ELSE reqs \cup {request[c]}
  /\ collected' = [collected EXCEPT ![c] = <<>>]
  /\ pc' = [pc EXCEPT ![c] = "reading"]
  /\ UNCHANGED <<nextXid, lockQueue, request, outcome, replies, open, overlong, rejects,
                 served, garbled, calls, cancels>>

\* Mutant: the mutex stays locked.
ReturnKeepsLock(c, kind, from) ==
  /\ HoldsLock(c)
  /\ pc' = [pc EXCEPT ![c] = "idle"]
  /\ outcome' = [outcome EXCEPT ![c] = [kind |-> kind, from |-> from]]
  /\ request' = [request EXCEPT ![c] = NoRequest]
  /\ collected' = [collected EXCEPT ![c] = <<>>]
  /\ UNCHANGED <<nextXid, lockQueue, reqs, open, overlong, rejects, served,
                 garbled, calls, cancels>>

\* call returns; the mutex guard, the request and the reader go with it.
Return(c, kind, from) ==
  /\ HoldsLock(c)
  /\ lockQueue' = Tail(lockQueue)
  /\ pc' = [pc EXCEPT ![c] = "idle"]
  /\ outcome' = [outcome EXCEPT ![c] = [kind |-> kind, from |-> from]]
  /\ request' = [request EXCEPT ![c] = NoRequest]
  /\ collected' = [collected EXCEPT ![c] = <<>>]
  /\ UNCHANGED <<nextXid, reqs, open, overlong, rejects, served, garbled,
                 calls, cancels>>

\* The connection is down: the write fails, or the read fails or returns no
\* bytes.
ConnectionClosed(c) ==
  /\ ~open
  /\ \/ pc[c] = "lock"
     \/ pc[c] \in {"reading", "lost"} /\ replies = <<>>
  /\ Return(c, "eof", NoRequest)
  /\ UNCHANGED replies

\* The pieces a call has after a read of n more, up to the end of the record.
Assembled(c, n) ==
  LET got == collected[c] \o SubSeq(replies, 1, n)
  IN  SubSeq(got, 1, IF Len(got) < Parts THEN Len(got) ELSE Parts)

Aligned(pieces) == pieces[1][2] = 1

\* Mutant: the xid is not compared.
ReadAnyXid(c, n) ==
  /\ pc[c] = "reading"
  /\ n <= Len(replies)
  /\ replies' = SubSeq(replies, n + 1, Len(replies))
  /\ Aligned(Assembled(c, n))
  /\ \/ /\ Len(Assembled(c, n)) < Parts
        /\ collected' = [collected EXCEPT ![c] = Assembled(c, n)]
        /\ UNCHANGED <<nextXid, lockQueue, pc, request, outcome, reqs, open,
                       overlong, rejects, served, garbled, calls, cancels>>
     \/ LET from == Head(Assembled(c, n))[1]
        IN  /\ Len(Assembled(c, n)) = Parts \/ from.xid = TooLong
            /\ Return(c, IF from.xid \in Xids THEN "ok" ELSE "refused", from)

\* What the call makes of the record it is sent.
Verdict(c, from) ==
  IF from.xid = request[c].xid THEN "ok"
  ELSE IF from.xid \in Xids THEN "mismatch"
  ELSE "refused"

\* One socket read of n pieces feeds the call's reader, which refuses a record
\* as soon as a fragment header takes it beyond the limit: the rest of it may
\* still be in the socket.
Read(c, n) ==
  /\ pc[c] = "reading"
  /\ n <= Len(replies)
  /\ replies' = SubSeq(replies, n + 1, Len(replies))
  /\ Aligned(Assembled(c, n))
  /\ \/ /\ Len(Assembled(c, n)) < Parts
        /\ collected' = [collected EXCEPT ![c] = Assembled(c, n)]
        /\ UNCHANGED <<nextXid, lockQueue, pc, request, outcome, reqs, open,
                       overlong, rejects, served, garbled, calls, cancels>>
     \/ LET from == Head(Assembled(c, n))[1]
        IN  /\ Len(Assembled(c, n)) = Parts \/ from.xid = TooLong
            /\ Return(c, Verdict(c, from), from)

\* The reader started inside a record: it fails, or asks for more.
ReadGarbage(c, n) ==
  /\ pc[c] \in {"reading", "lost"}
  /\ n <= Len(replies)
  /\ pc[c] = "lost" \/ ~Aligned(Assembled(c, n))
  /\ replies' = SubSeq(replies, n + 1, Len(replies))
  /\ \/ Return(c, "garbage", NoRequest)
     \/ /\ pc' = [pc EXCEPT ![c] = "lost"]
        /\ collected' = [collected EXCEPT ![c] = <<>>]
        /\ UNCHANGED <<nextXid, lockQueue, request, outcome, reqs, open, overlong,
                       rejects, served, garbled, calls, cancels>>

\* The future is dropped while it waits for the mutex, writes, or reads.
Cancel(c) ==
  /\ pc[c] \notin {"idle", "begun"}
  /\ cancels < MaxCancels /\ cancels' = cancels + 1
  /\ lockQueue' = Remove(lockQueue, c)
  /\ pc' = [pc EXCEPT ![c] = "idle"]
  /\ request' = [request EXCEPT ![c] = NoRequest]
  /\ collected' = [collected EXCEPT ![c] = <<>>]
  /\ \/ UNCHANGED garbled
     \/ pc[c] = "lock" /\ HoldsLock(c) /\ garbled' = TRUE
  /\ UNCHANGED <<nextXid, outcome, peerVars, calls>>

-----------------------------------------------------------------------------
Pieces(x) == [p \in 1 .. Parts |-> <<x, p>>]

\* The peer carries out one of the requests it has, in any order; once the
\* connection is down its answer has nowhere to go.
Answer(x) ==
  /\ x \in reqs
  /\ reqs' = reqs \ {x} /\ served' = served \cup {x.call}
  /\ replies' = IF open THEN replies \o Pieces(x) ELSE replies
  /\ UNCHANGED <<nextXid, taskVars, open, overlong, rejects, garbled, calls,
                 cancels>>

\* The peer answers with an xid that no call has, or with no reply at all.
AnswerWrongly(x) ==
  /\ open /\ x \in reqs
  /\ rejects < MaxRejects /\ rejects' = rejects + 1
  /\ reqs' = reqs \ {x} /\ served' = served \cup {x.call}
  /\ \E y \in (Xids \ (1 .. MaxCalls)) \cup {NotAReply, TooLong} :
       /\ replies' = replies \o Pieces([xid |-> y, call |-> 0])
       /\ overlong' = (overlong \/ y = TooLong)
  /\ UNCHANGED <<nextXid, taskVars, open, garbled, calls, cancels>>

\* The connection ends, or having ended is reset: what was not read yet may
\* be lost from any piece on.
Close ==
  /\ open' = FALSE
  /\ \E k \in 0 .. Len(replies) : replies' = SubSeq(replies, 1, k)
  /\ UNCHANGED <<nextXid, taskVars, reqs, overlong, rejects, served, garbled,
                 calls, cancels>>

CallerStep(c) ==
  \/ Enqueue(c) \/ EncodeFails(c)
  \/ Send(c)
  \/ ConnectionClosed(c)
  \/ \E n \in 1 .. MaxRead : Read(c, n) \/ ReadGarbage(c, n)

Next ==
  \/ \E c \in Callers : BeginCall(c) \/ CallerStep(c) \/ Cancel(c)
  \/ \E x \in reqs : Answer(x) \/ AnswerWrongly(x)
  \/ Close

Spec == Init /\ [][Next]_vars

\* Tasks are polled when the socket or the mutex lets them go on, and the
\* peer answers what reaches it, or closes when it cannot parse the stream.
\* Nothing makes a connection end, or a peer answer on one that has.
Fairness ==
  /\ \A c \in Callers : WF_vars(CallerStep(c))
  /\ \A x \in RequestIds :
       WF_vars(open /\ x \in reqs /\ (Answer(x) \/ AnswerWrongly(x)))
  /\ WF_vars(garbled /\ open /\ Close)

FairSpec == Spec /\ Fairness

-----------------------------------------------------------------------------
\* Properties

\* What the callers see: the call each waits for, and what its last returned.
WaitsFor == [c \in Callers |-> IF pc[c] = "idle" THEN 0 ELSE request[c].call]

ResultOf(o) ==
  CASE o.kind = "none" -> [is |-> "none"]
    [] o.kind = "ok" -> [is |-> "ok", of |-> o.from.call]
    [] OTHER -> [is |-> "err"]

Returned == [c \in Callers |-> ResultOf(outcome[c])]

Calls == INSTANCE RpcCalls WITH
  made <- calls, current <- WaitsFor, executed <- served, result <- Returned

\* The promise of the transport, kept by the xid comparison whichever calls
\* were dropped and whatever they left in the socket: a call that returns Ok
\* returns the reply to its own request, which the peer has executed; xids
\* tell the calls apart as long as fewer than 2^32 are made and the peer makes
\* up none that a call has (tcp.rs 28-30, 84-89).
ImplementsCalls == Calls!Spec

\* Holding the mutex for the whole round trip keeps the stream in step, also
\* over replies with another xid, replies that do not decode and a connection
\* that ends in the middle of one: with no dropped future and no reply beyond
\* the size limit, no call loses its place in the stream and nothing is left
\* unread between calls; none but a misbehaving peer makes a call see another
\* reply than its own (tcp.rs 60-89).
InStepWithoutCancel ==
  cancels = 0 =>
    /\ rejects = 0 => \A c \in Callers : outcome[c].kind \notin {"mismatch", "refused"}
    /\ ~overlong =>
         /\ \A c \in Callers : outcome[c].kind # "garbage" /\ pc[c] # "lost"
         /\ (\A c \in Callers : pc[c] # "reading") =>
              replies = <<>> /\ (open => reqs = {})

\* Every call returns, if no future is dropped and no reply exceeds the size
\* limit: the mutex is passed on whether the round trip succeeds, the reply is
\* another's or none (tcp.rs 82-89), or the write or a read fails (tcp.rs
\* 62-73).  The exceptions leave part of a record in the socket, and the next
\* call may wait for ever for the end of what it takes for one.
CallsReturn ==
  \A c \in Callers :
    pc[c] # "idle" ~> (pc[c] = "idle" \/ cancels > 0 \/ overlong)
=============================================================================
