---------------------------- MODULE OncRpcProofs ----------------------------
(***************************************************************************)
(* The transport and the reader of onc-rpc.                                *)
(*                                                                         *)
(* Whatever is dropped, garbled or answered badly, the transport keeps the *)
(* promise of RpcCalls to its callers, for any number of callers, calls,   *)
(* pieces and reads: Ok is the reply to one's own request.  However a      *)
(* stream is fragmented and chunked, the records read off it are the ones  *)
(* written, for streams, headers and limits of any size.                   *)
(***************************************************************************)
EXTENDS TcpTransport, RecordReader, SequenceLemmas

-----------------------------------------------------------------------------
(* TcpTransport *)

PieceTypes == RequestIds \X (1 .. Parts)
Places == {"idle", "begun", "lock", "reading", "lost"}
Ends == {"unsent", "ok", "mismatch", "refused", "garbage", "eof"}
Outcomes == [kind : Ends \cup {"none"}, from : RequestIds]

CallTypes ==
  /\ calls \in 0 .. MaxCalls
  /\ nextXid = (calls + 1) % XidSpace
  /\ pc \in [Callers -> Places]
  /\ request \in [Callers -> RequestIds]
  /\ collected \in [Callers -> Seq(PieceTypes)]
  /\ outcome \in [Callers -> Outcomes]
  /\ reqs \subseteq RequestIds /\ served \subseteq 1 .. calls
  /\ replies \in Seq(PieceTypes)

\* The requests of the calls in progress are all different, and the peer has
\* not seen one that is still to be written.
RequestsInv ==
  /\ \A c \in Callers : pc[c] # "idle" =>
       /\ request[c].call \in 1 .. calls
       /\ request[c].xid = request[c].call
       /\ outcome[c].kind = "none"
  /\ \A c \in Callers : pc[c] \in {"begun", "lock"} =>
       /\ request[c].call \notin served
       /\ \A x \in reqs : x.call # request[c].call
       /\ \A d \in Callers \ {c} :
            pc[d] \in {"begun", "lock"} => request[d].call # request[c].call
  /\ \A x \in reqs : x.call \in 1 .. calls /\ x.xid = x.call /\ x.call \notin served

\* A reply that bears the xid of a call is the reply to that call.
Genuine(x) ==
  \/ x.call \in served /\ x.xid = x.call
  \/ x.xid \notin 1 .. MaxCalls

RepliesInv ==
  /\ \A i \in DOMAIN replies : Genuine(replies[i][1])
  /\ \A c \in Callers : \A i \in DOMAIN collected[c] : Genuine(collected[c][i][1])

CallsInv == CallTypes /\ RequestsInv /\ RepliesInv

-----------------------------------------------------------------------------
\* What is less than the modulus is its own remainder.
LEMMA Small == ASSUME NEW a \in Nat, NEW b \in Nat \ {0}, a < b PROVE a % b = a
  OBVIOUS

\* An element of a concatenation.
LEMMA InConcatenation ==
  ASSUME NEW S, NEW s \in Seq(S), NEW q \in Seq(S), NEW i \in DOMAIN (s \o q)
  PROVE  \/ i \in DOMAIN s /\ (s \o q)[i] = s[i]
         \/ \E p \in DOMAIN q : (s \o q)[i] = q[p]
<1>1. /\ i \in 1 .. Len(s) + Len(q) /\ Len(s) \in Nat /\ Len(q) \in Nat
      /\ DOMAIN s = 1 .. Len(s) /\ DOMAIN q = 1 .. Len(q)
      /\ (s \o q)[i] = IF i <= Len(s) THEN s[i] ELSE q[i - Len(s)]
  BY ConcatProperties
<1>2. CASE i <= Len(s)
  BY <1>1, <1>2
<1>3. CASE ~(i <= Len(s))
  <2>1. i - Len(s) \in 1 .. Len(q)
    BY <1>1, <1>3
  <2> QED
    BY <1>1, <1>3, <2>1
<1> QED
  BY <1>2, <1>3

\* The elements of a concatenation, place by place.
LEMMA PlaceByPlace ==
  ASSUME NEW S, NEW s \in Seq(S), NEW q \in Seq(S), NEW n \in Nat, Len(q) = n
  PROVE  /\ s \o q \in Seq(S) /\ Len(s \o q) = Len(s) + n
         /\ \A i \in 1 .. Len(s \o q) :
              (s \o q)[i] = IF i <= Len(s) THEN s[i] ELSE q[i - Len(s)]
  BY ConcatProperties

\* No request is a request identity of its own.
LEMMA NoRequestType == NoRequest \in RequestIds
  BY TransportAssumption DEF NoRequest, RequestIds, Xids

\* As long as a call may begin, the counter is the number of the next one.
LEMMA NextXid ==
  ASSUME CallsInv, calls < MaxCalls
  PROVE  nextXid = calls + 1 /\ calls + 1 \in Xids
<1>1. /\ calls + 1 \in Nat /\ calls + 1 < XidSpace /\ XidSpace \in Nat \ {0}
      /\ nextXid = (calls + 1) % XidSpace
  BY TransportAssumption DEF CallsInv, CallTypes
<1>2. (calls + 1) % XidSpace = calls + 1
  BY <1>1, Small
<1> QED
  BY <1>1, <1>2 DEF Xids

\* What a read assembles are pieces that were read, or had been.
LEMMA AssembledPieces ==
  ASSUME CallsInv, NEW c \in Callers, NEW n \in Nat, n <= Len(replies)
  PROVE  /\ Assembled(c, n) \in Seq(PieceTypes)
         /\ \A i \in DOMAIN Assembled(c, n) : Genuine(Assembled(c, n)[i][1])
         /\ n >= 1 => Len(Assembled(c, n)) >= 1
<1> DEFINE some == SubSeq(replies, 1, n)
           got == collected[c] \o some
           m == IF Len(got) < Parts THEN Len(got) ELSE Parts
<1>1. /\ collected[c] \in Seq(PieceTypes) /\ replies \in Seq(PieceTypes)
      /\ Parts \in Nat
  BY TransportAssumption DEF CallsInv, CallTypes
<1>2. /\ some \in Seq(PieceTypes) /\ Len(some) = n
      /\ \A i \in 1 .. n : some[i] = replies[i] /\ i \in DOMAIN replies
  BY <1>1
<1> HIDE DEF some
<1>3. /\ got \in Seq(PieceTypes) /\ Len(got) = Len(collected[c]) + n
      /\ \A i \in 1 .. Len(got) :
           got[i] = IF i <= Len(collected[c]) THEN collected[c][i]
                                              ELSE some[i - Len(collected[c])]
  <2> DEFINE old == collected[c]
  <2>1. old \in Seq(PieceTypes) /\ some \in Seq(PieceTypes) /\ Len(some) = n
    BY <1>1, <1>2
  <2> HIDE DEF old
  <2>2. /\ old \o some \in Seq(PieceTypes) /\ Len(old \o some) = Len(old) + n
        /\ \A i \in 1 .. Len(old \o some) :
             (old \o some)[i] = IF i <= Len(old) THEN old[i] ELSE some[i - Len(old)]
    BY <2>1, PlaceByPlace
  <2> QED
    BY <2>2 DEF old
<1>4. \A i \in 1 .. Len(got) : Genuine(got[i][1])
  <2> SUFFICES ASSUME NEW i \in 1 .. Len(got) PROVE Genuine(got[i][1])
    OBVIOUS
  <2>1. CASE i <= Len(collected[c])
    <3>1. i \in DOMAIN collected[c] /\ got[i] = collected[c][i]
      BY <1>1, <1>3, <2>1
    <3> QED
      BY <3>1 DEF CallsInv, RepliesInv
  <2>2. CASE i > Len(collected[c])
    <3>1. i - Len(collected[c]) \in 1 .. n /\ got[i] = some[i - Len(collected[c])]
      BY <1>1, <1>3, <2>2
    <3> QED
      BY <1>2, <3>1 DEF CallsInv, RepliesInv
  <2> QED
    BY <1>1, <2>1, <2>2
<1> HIDE DEF got
<1>5. m \in Nat /\ m <= Len(got) /\ (n >= 1 => m >= 1)
  <2>1. Len(collected[c]) \in Nat /\ Parts >= 1
    BY <1>1, TransportAssumption
  <2> QED
    BY <1>1, <1>3, <2>1
<1> HIDE DEF m
<1>6. /\ SubSeq(got, 1, m) \in Seq(PieceTypes)
      /\ DOMAIN SubSeq(got, 1, m) = 1 .. m
      /\ \A i \in 1 .. m : SubSeq(got, 1, m)[i] = got[i] /\ i \in 1 .. Len(got)
  BY <1>3, <1>5
<1>7. Assembled(c, n) = SubSeq(got, 1, m)
  BY DEF Assembled, got, some, m
<1>8. Len(SubSeq(got, 1, m)) = m
  BY <1>5, <1>6
<1> QED
  BY <1>4, <1>5, <1>6, <1>7, <1>8

\* The first of them names the record.
LEMMA FirstPiece ==
  ASSUME CallsInv, NEW c \in Callers, NEW n \in 1 .. MaxRead, n <= Len(replies)
  PROVE  /\ Assembled(c, n)[1] = Head(Assembled(c, n))
         /\ Head(Assembled(c, n))[1] \in RequestIds
         /\ Genuine(Head(Assembled(c, n))[1])
<1>1. n \in Nat /\ n >= 1
  BY TransportAssumption
<1>2. /\ Assembled(c, n) \in Seq(PieceTypes) /\ Len(Assembled(c, n)) >= 1
      /\ \A i \in DOMAIN Assembled(c, n) : Genuine(Assembled(c, n)[i][1])
  BY <1>1, AssembledPieces
<1>3. 1 \in DOMAIN Assembled(c, n) /\ Assembled(c, n)[1] = Head(Assembled(c, n))
  BY <1>2
<1>4. Assembled(c, n)[1] \in PieceTypes
  BY <1>2, <1>3
<1> QED
  BY <1>2, <1>3, <1>4 DEF PieceTypes

\* What a read leaves.
LEMMA RestOfReplies ==
  ASSUME CallsInv, NEW n \in Nat, n <= Len(replies),
         replies' = SubSeq(replies, n + 1, Len(replies))
  PROVE  /\ replies' \in Seq(PieceTypes)
         /\ \A i \in DOMAIN replies' : Genuine(replies'[i][1])
<1>1. replies \in Seq(PieceTypes) /\ Len(replies) \in Nat
  BY DEF CallsInv, CallTypes
<1>2. /\ replies' \in Seq(PieceTypes) /\ DOMAIN replies' = 1 .. Len(replies) - n
      /\ \A i \in 1 .. Len(replies) - n :
           replies'[i] = replies[n + i] /\ n + i \in DOMAIN replies
  BY <1>1
<1> QED
  BY <1>2 DEF CallsInv, RepliesInv

-----------------------------------------------------------------------------
\* The invariant holds before the first call.
LEMMA InitCalls == Init => CallsInv
<1> SUFFICES ASSUME Init PROVE CallsInv
  OBVIOUS
<1>1. CallTypes
  <2>1. 0 \in 0 .. MaxCalls /\ nextXid = (0 + 1) % XidSpace
    BY TransportAssumption DEF Init
  <2>2. [kind |-> "none", from |-> NoRequest] \in Outcomes /\ "idle" \in Places
    BY NoRequestType DEF Outcomes, Places
  <2> QED
    BY <2>1, <2>2, NoRequestType DEF Init, CallTypes
<1> QED
  BY <1>1 DEF Init, CallsInv, RequestsInv, RepliesInv

\* The next call is numbered as none before it.
LEMMA BeginCallKeeps ==
  ASSUME CallsInv, NEW c \in Callers, BeginCall(c)
  PROVE  CallsInv'
<1> DEFINE new == [xid |-> nextXid, call |-> calls + 1]
<1>1. /\ CallTypes /\ calls < MaxCalls /\ calls' = calls + 1 /\ pc[c] = "idle"
      /\ request' = [request EXCEPT ![c] = new]
      /\ nextXid' = (nextXid + 1) % XidSpace
      /\ pc' = [pc EXCEPT ![c] = "begun"]
      /\ outcome' = [outcome EXCEPT ![c].kind = "none"]
      /\ UNCHANGED <<collected, reqs, replies, served>>
  BY DEF CallsInv, BeginCall, peerVars
<1>2. nextXid = calls + 1 /\ calls + 1 \in Xids
  BY <1>1, NextXid
<1>3. calls \in Nat /\ calls + 1 \in 0 .. MaxCalls
  BY <1>1, TransportAssumption DEF CallTypes
<1>4. new \in RequestIds /\ new.xid = calls + 1 /\ new.call = calls + 1
  BY <1>2, <1>3 DEF RequestIds
<1> HIDE DEF new
<1>5. CallTypes'
  <2>1. request' \in [Callers -> RequestIds]
    BY <1>1, <1>4 DEF CallTypes
  <2>2. outcome' \in [Callers -> Outcomes]
    BY <1>1 DEF CallTypes, Outcomes
  <2>3. pc' \in [Callers -> Places]
    BY <1>1 DEF CallTypes, Places
  <2>4. served' \subseteq 1 .. calls'
    BY <1>1, <1>3 DEF CallTypes
  <2> QED
    BY <1>1, <1>2, <1>3, <2>1, <2>2, <2>3, <2>4 DEF CallTypes
<1>6. /\ pc'[c] = "begun" /\ request'[c] = new /\ outcome'[c].kind = "none"
      /\ \A d \in Callers \ {c} : /\ pc'[d] = pc[d] /\ request'[d] = request[d]
                                  /\ outcome'[d] = outcome[d]
  BY <1>1 DEF CallTypes
<1>7. /\ \A d \in Callers : pc[d] # "idle" => request[d].call # calls + 1
      /\ \A x \in reqs : x.call # calls + 1
      /\ calls + 1 \notin served
      /\ 1 .. calls \subseteq 1 .. calls'
  BY <1>1, <1>3 DEF CallsInv, CallTypes, RequestsInv
<1>8. RequestsInv'
  <2>1. ASSUME NEW d \in Callers, pc'[d] # "idle"
        PROVE  /\ request'[d].call \in 1 .. calls'
               /\ request'[d].xid = request'[d].call
               /\ outcome'[d].kind = "none"
    <3>1. CASE d = c
      BY <1>1, <1>3, <1>4, <1>6, <3>1
    <3>2. CASE d # c
      BY <1>6, <1>7, <2>1, <3>2 DEF CallsInv, RequestsInv
    <3> QED
      BY <3>1, <3>2
  <2>2. ASSUME NEW d \in Callers, pc'[d] \in {"begun", "lock"}
        PROVE  /\ request'[d].call \notin served'
               /\ \A x \in reqs' : x.call # request'[d].call
               /\ \A e \in Callers \ {d} : pc'[e] \in {"begun", "lock"} =>
                    request'[e].call # request'[d].call
    <3>1. CASE d = c
      BY <1>1, <1>4, <1>6, <1>7, <3>1
    <3>2. CASE d # c
      <4>1. /\ pc[d] \in {"begun", "lock"} /\ request'[d] = request[d]
            /\ request[d].call # calls + 1
        BY <1>6, <1>7, <2>2, <3>2
      <4>2. ASSUME NEW e \in Callers \ {d}, pc'[e] \in {"begun", "lock"}
            PROVE  request'[e].call # request[d].call
        BY <1>4, <1>6, <4>1, <4>2 DEF CallsInv, RequestsInv
      <4> QED
        BY <1>1, <4>1, <4>2 DEF CallsInv, RequestsInv
    <3> QED
      BY <3>1, <3>2
  <2>3. \A x \in reqs' : x.call \in 1 .. calls' /\ x.xid = x.call /\ x.call \notin served'
    BY <1>1, <1>7 DEF CallsInv, RequestsInv
  <2> QED
    BY <2>1, <2>2, <2>3 DEF RequestsInv
<1>9. RepliesInv'
  BY <1>1 DEF CallsInv, RepliesInv, Genuine
<1> QED
  BY <1>5, <1>8, <1>9 DEF CallsInv

\* To wait for the mutex changes nothing.
LEMMA EnqueueKeeps ==
  ASSUME CallsInv, NEW c \in Callers, Enqueue(c)
  PROVE  CallsInv'
<1>1. /\ CallTypes /\ pc[c] = "begun" /\ pc' = [pc EXCEPT ![c] = "lock"]
      /\ UNCHANGED <<nextXid, request, collected, outcome, reqs, replies, served, calls>>
  BY DEF CallsInv, Enqueue, peerVars
<1>2. CallTypes'
  BY <1>1 DEF CallTypes, Places
<1>3. pc'[c] = "lock" /\ \A d \in Callers \ {c} : pc'[d] = pc[d]
  BY <1>1 DEF CallTypes
<1>4. /\ \A d \in Callers : pc'[d] # "idle" => pc[d] # "idle"
      /\ \A d \in Callers : pc'[d] \in {"begun", "lock"} => pc[d] \in {"begun", "lock"}
  BY <1>1, <1>3
<1>5. RequestsInv'
  BY <1>1, <1>4 DEF CallsInv, RequestsInv
<1>6. RepliesInv'
  BY <1>1 DEF CallsInv, RepliesInv, Genuine
<1> QED
  BY <1>2, <1>5, <1>6 DEF CallsInv

\* A request that is written is one the peer has not seen.
LEMMA SendKeeps ==
  ASSUME CallsInv, NEW c \in Callers, Send(c)
  PROVE  CallsInv'
<1>1. /\ CallTypes /\ pc[c] = "lock"
      /\ reqs' \in {reqs, reqs \cup {request[c]}}
      /\ collected' = [collected EXCEPT ![c] = <<>>]
      /\ pc' = [pc EXCEPT ![c] = "reading"]
      /\ UNCHANGED <<nextXid, request, outcome, replies, served, calls>>
  BY DEF CallsInv, Send
<1>2. CallTypes'
  <2>1. collected' \in [Callers -> Seq(PieceTypes)]
    BY <1>1 DEF CallTypes
  <2>2. reqs' \subseteq RequestIds
    BY <1>1 DEF CallTypes
  <2> QED
    BY <1>1, <2>1, <2>2 DEF CallTypes, Places
<1>3. pc'[c] = "reading" /\ \A d \in Callers \ {c} : pc'[d] = pc[d]
  BY <1>1 DEF CallTypes
<1>4. RequestsInv'
  BY <1>1, <1>3 DEF CallsInv, RequestsInv
<1>5. RepliesInv'
  <2>1. collected'[c] = <<>> /\ \A d \in Callers \ {c} : collected'[d] = collected[d]
    BY <1>1 DEF CallTypes
  <2> QED
    BY <1>1, <2>1 DEF CallsInv, RepliesInv, Genuine
<1> QED
  BY <1>2, <1>4, <1>5 DEF CallsInv

\* A call that returns, is dropped or loses its place forgets its pieces.
LEMMA EndKeeps ==
  ASSUME CallsInv, NEW c \in Callers, NEW where \in {"idle", "lost"}, pc[c] # "idle",
         pc' = [pc EXCEPT ![c] = where],
         \/ outcome' = outcome
         \/ /\ where = "idle"
            /\ \E kind \in Ends, from \in RequestIds :
                 outcome' = [outcome EXCEPT ![c] = [kind |-> kind, from |-> from]],
         \/ request' = request
         \/ where = "idle" /\ request' = [request EXCEPT ![c] = NoRequest],
         collected' \in {collected, [collected EXCEPT ![c] = <<>>]},
         replies' \in Seq(PieceTypes),
         \A i \in DOMAIN replies' : Genuine(replies'[i][1]),
         UNCHANGED <<nextXid, reqs, served, calls>>
  PROVE  CallsInv'
<1>1. CallTypes
  BY DEF CallsInv
<1>2. CallTypes'
  <2>1. pc' \in [Callers -> Places]
    BY <1>1 DEF CallTypes, Places
  <2>2. outcome' \in [Callers -> Outcomes]
    <3>1. \A kind \in Ends, from \in RequestIds :
            [kind |-> kind, from |-> from] \in Outcomes
      BY DEF Outcomes
    <3>2. CASE outcome' = outcome
      BY <1>1, <3>2 DEF CallTypes
    <3>3. ASSUME NEW kind \in Ends, NEW from \in RequestIds,
                 outcome' = [outcome EXCEPT ![c] = [kind |-> kind, from |-> from]]
          PROVE  outcome' \in [Callers -> Outcomes]
      BY <1>1, <3>1, <3>3 DEF CallTypes
    <3> QED
      BY <3>2, <3>3
  <2>3. collected' \in [Callers -> Seq(PieceTypes)]
    <3>1. <<>> \in Seq(PieceTypes)
      OBVIOUS
    <3>2. CASE collected' = [collected EXCEPT ![c] = <<>>]
      BY <1>1, <3>1, <3>2 DEF CallTypes
    <3> QED
      BY <1>1, <3>2 DEF CallTypes
  <2>4. request' \in [Callers -> RequestIds]
    BY <1>1, NoRequestType DEF CallTypes
  <2> QED
    BY <1>1, <2>1, <2>2, <2>3, <2>4 DEF CallTypes
<1>3. /\ pc'[c] = where
      /\ \A d \in Callers \ {c} :
           pc'[d] = pc[d] /\ outcome'[d] = outcome[d] /\ request'[d] = request[d]
  BY <1>1 DEF CallTypes
<1>4. where = "lost" => request' = request /\ outcome' = outcome
  OBVIOUS
<1>5. RequestsInv'
  BY <1>3, <1>4 DEF CallsInv, RequestsInv
<1>6. RepliesInv'
  <2>1. \A d \in Callers : collected'[d] \in {collected[d], <<>>}
    BY <1>1 DEF CallTypes
  <2> QED
    BY <2>1 DEF CallsInv, RepliesInv, Genuine
<1> QED
  BY <1>2, <1>5, <1>6 DEF CallsInv

\* A call ends: unsent, on a closed connection, with what was read, or dropped.
LEMMA ReturnsKeep ==
  ASSUME CallsInv, NEW c \in Callers,
         \/ EncodeFails(c) \/ ConnectionClosed(c)
         \/ \E n \in 1 .. MaxRead : Read(c, n) \/ ReadGarbage(c, n)
         \/ Cancel(c)
  PROVE  CallsInv'
<1>1. CallTypes /\ NoRequest \in RequestIds
  BY NoRequestType DEF CallsInv
<1>2. CASE ConnectionClosed(c)
  <2>1. /\ pc[c] # "idle" /\ pc' = [pc EXCEPT ![c] = "idle"]
        /\ outcome' = [outcome EXCEPT ![c] = [kind |-> "eof", from |-> NoRequest]]
        /\ request' = [request EXCEPT ![c] = NoRequest]
        /\ collected' = [collected EXCEPT ![c] = <<>>]
        /\ UNCHANGED <<nextXid, reqs, served, calls, replies>>
    BY <1>2 DEF ConnectionClosed, Return
  <2>2. replies' \in Seq(PieceTypes) /\ \A i \in DOMAIN replies' : Genuine(replies'[i][1])
    BY <2>1 DEF CallsInv, CallTypes, RepliesInv
  <2>3. "eof" \in Ends
    BY DEF Ends
  <2> QED
    BY <1>1, <2>1, <2>2, <2>3, EndKeeps
<1>6. CASE EncodeFails(c)
  <2>1. /\ pc[c] # "idle" /\ pc' = [pc EXCEPT ![c] = "idle"]
        /\ outcome' = [outcome EXCEPT ![c] = [kind |-> "unsent", from |-> NoRequest]]
        /\ request' = [request EXCEPT ![c] = NoRequest]
        /\ UNCHANGED <<nextXid, collected, reqs, served, calls, replies>>
    BY <1>6 DEF EncodeFails, peerVars
  <2>2. replies' \in Seq(PieceTypes) /\ \A i \in DOMAIN replies' : Genuine(replies'[i][1])
    BY <2>1 DEF CallsInv, CallTypes, RepliesInv
  <2>3. "unsent" \in Ends
    BY DEF Ends
  <2> QED
    BY <1>1, <2>1, <2>2, <2>3, EndKeeps
<1>3. CASE Cancel(c)
  <2>1. /\ pc[c] # "idle" /\ pc' = [pc EXCEPT ![c] = "idle"]
        /\ request' = [request EXCEPT ![c] = NoRequest]
        /\ collected' = [collected EXCEPT ![c] = <<>>]
        /\ UNCHANGED <<nextXid, reqs, served, calls, replies, outcome>>
    BY <1>3 DEF Cancel, peerVars
  <2>2. replies' \in Seq(PieceTypes) /\ \A i \in DOMAIN replies' : Genuine(replies'[i][1])
    BY <2>1 DEF CallsInv, CallTypes, RepliesInv
  <2> QED
    BY <1>1, <2>1, <2>2, EndKeeps
<1>4. ASSUME NEW n \in 1 .. MaxRead, Read(c, n)
      PROVE  CallsInv'
  <2>1. /\ n \in Nat /\ n <= Len(replies) /\ pc[c] = "reading"
        /\ replies' = SubSeq(replies, n + 1, Len(replies))
    BY <1>4, TransportAssumption DEF Read
  <2>2. replies' \in Seq(PieceTypes) /\ \A i \in DOMAIN replies' : Genuine(replies'[i][1])
    BY <2>1, RestOfReplies
  <2>3. /\ Assembled(c, n) \in Seq(PieceTypes)
        /\ \A i \in DOMAIN Assembled(c, n) : Genuine(Assembled(c, n)[i][1])
    BY <2>1, AssembledPieces
  <2>4. CASE /\ collected' = [collected EXCEPT ![c] = Assembled(c, n)]
             /\ UNCHANGED <<nextXid, pc, request, outcome, reqs, served, calls>>
    <3>1. /\ collected' = [collected EXCEPT ![c] = Assembled(c, n)]
          /\ UNCHANGED <<nextXid, pc, request, outcome, reqs, served, calls>>
      BY <2>4
    <3>2. CallTypes'
      <4>1. collected' \in [Callers -> Seq(PieceTypes)]
        BY <1>1, <2>3, <3>1 DEF CallTypes
      <4> QED
        BY <1>1, <2>2, <3>1, <4>1 DEF CallTypes
    <3>3. RequestsInv'
      BY <3>1 DEF CallsInv, RequestsInv
    <3>4. RepliesInv'
      <4>1. \A d \in Callers :
              collected'[d] = IF d = c THEN Assembled(c, n) ELSE collected[d]
        BY <1>1, <3>1 DEF CallTypes
      <4>2. \A x : Genuine(x)' <=> Genuine(x)
        BY <3>1 DEF Genuine
      <4>3. ASSUME NEW d \in Callers, NEW i \in DOMAIN collected'[d]
            PROVE  Genuine(collected'[d][i][1])
        BY <2>3, <4>1 DEF CallsInv, RepliesInv
      <4> QED
        BY <2>2, <4>3, <3>1 DEF RepliesInv, Genuine
    <3> QED
      BY <3>2, <3>3, <3>4 DEF CallsInv
  <2>5. CASE Return(c, Verdict(c, Head(Assembled(c, n))[1]), Head(Assembled(c, n))[1])
    <3> DEFINE from == Head(Assembled(c, n))[1]
    <3>1. from \in RequestIds
      BY <2>1, FirstPiece
    <3>2. Return(c, Verdict(c, from), from)
      BY <2>5
    <3> HIDE DEF from
    <3>3. Verdict(c, from) \in Ends
      BY DEF Verdict, Ends
    <3>4. /\ pc' = [pc EXCEPT ![c] = "idle"]
          /\ outcome' = [outcome EXCEPT ![c] = [kind |-> Verdict(c, from), from |-> from]]
          /\ request' = [request EXCEPT ![c] = NoRequest]
          /\ collected' = [collected EXCEPT ![c] = <<>>]
          /\ UNCHANGED <<nextXid, reqs, served, calls>>
      BY <3>2 DEF Return
    <3> QED
      BY <2>1, <2>2, <3>1, <3>3, <3>4, EndKeeps
  <2> QED
    BY <1>4, <2>4, <2>5 DEF Read
<1>5. ASSUME NEW n \in 1 .. MaxRead, ReadGarbage(c, n)
      PROVE  CallsInv'
  <2>1. /\ n \in Nat /\ n <= Len(replies) /\ pc[c] # "idle"
        /\ replies' = SubSeq(replies, n + 1, Len(replies))
    BY <1>5, TransportAssumption DEF ReadGarbage
  <2>2. replies' \in Seq(PieceTypes) /\ \A i \in DOMAIN replies' : Genuine(replies'[i][1])
    BY <2>1, RestOfReplies
  <2>3. CASE Return(c, "garbage", NoRequest)
    <3>1. /\ pc' = [pc EXCEPT ![c] = "idle"]
          /\ outcome' = [outcome EXCEPT ![c] = [kind |-> "garbage", from |-> NoRequest]]
          /\ request' = [request EXCEPT ![c] = NoRequest]
          /\ collected' = [collected EXCEPT ![c] = <<>>]
          /\ UNCHANGED <<nextXid, reqs, served, calls>>
      BY <2>3 DEF Return
    <3>2. "garbage" \in Ends
      BY DEF Ends
    <3> QED
      BY <1>1, <2>1, <2>2, <3>1, <3>2, EndKeeps
  <2>4. CASE /\ pc' = [pc EXCEPT ![c] = "lost"]
             /\ collected' = [collected EXCEPT ![c] = <<>>]
             /\ UNCHANGED <<nextXid, request, outcome, reqs, served, calls>>
    BY <2>1, <2>2, <2>4, EndKeeps
  <2> QED
    BY <1>5, <2>3, <2>4 DEF ReadGarbage
<1> QED
  BY <1>2, <1>3, <1>4, <1>5, <1>6

\* The peer's answers bear the xid they answer, or one that no call has.
LEMMA AnswersKeep ==
  ASSUME CallsInv, NEW x \in reqs, Answer(x) \/ AnswerWrongly(x)
  PROVE  CallsInv'
<1>1. /\ CallTypes /\ reqs' = reqs \ {x} /\ served' = served \cup {x.call}
      /\ UNCHANGED <<nextXid, pc, request, collected, outcome, calls>>
  BY DEF CallsInv, Answer, AnswerWrongly, taskVars
<1>2. x \in RequestIds /\ x.call \in 1 .. calls /\ x.xid = x.call /\ x.call \notin served
  BY <1>1 DEF CallsInv, CallTypes, RequestsInv
<1>3. PICK y \in RequestIds :
        /\ replies' \in {replies, replies \o Pieces(y)}
        /\ y = x \/ y.xid \notin 1 .. MaxCalls
  <2>1. CASE Answer(x)
    BY <1>2, <2>1 DEF Answer
  <2>2. CASE AnswerWrongly(x)
    <3>1. PICK z \in (Xids \ (1 .. MaxCalls)) \cup {NotAReply, TooLong} :
            replies' = replies \o Pieces([xid |-> z, call |-> 0])
      BY <2>2 DEF AnswerWrongly
    <3>2. [xid |-> z, call |-> 0] \in RequestIds /\ z \notin 1 .. MaxCalls
      BY TransportAssumption DEF RequestIds, NotAReply, TooLong
    <3> QED
      BY <3>1, <3>2
  <2> QED
    BY <2>1, <2>2
<1>4. /\ Pieces(y) \in Seq(PieceTypes) /\ Len(Pieces(y)) = Parts
      /\ \A p \in 1 .. Parts : Pieces(y)[p][1] = y
  BY TransportAssumption DEF Pieces, PieceTypes
<1>5. /\ replies' \in Seq(PieceTypes)
      /\ \A i \in DOMAIN replies' :
           \/ replies'[i][1] = y
           \/ i \in DOMAIN replies /\ replies'[i] = replies[i]
  <2>1. replies \in Seq(PieceTypes) /\ DOMAIN Pieces(y) = 1 .. Parts
    BY <1>1 DEF CallTypes, Pieces
  <2>2. CASE replies' = replies
    BY <2>1, <2>2
  <2>3. CASE replies' = replies \o Pieces(y)
    <3>1. replies' \in Seq(PieceTypes)
      BY <1>4, <2>1, <2>3, ConcatProperties
    <3> QED
      BY <1>4, <2>1, <2>3, <3>1, InConcatenation
  <2> QED
    BY <1>3, <2>2, <2>3
<1>6. CallTypes'
  BY <1>1, <1>2, <1>5 DEF CallTypes
<1>7. RequestsInv'
  <2>1. \A z \in reqs' : z.call # x.call
    <3>1. ASSUME NEW z \in reqs', z.call = x.call PROVE FALSE
      <4>1. z \in RequestIds /\ z.xid = z.call /\ z # x
        BY <1>1, <3>1 DEF CallsInv, CallTypes, RequestsInv
      <4> QED
        BY <1>2, <3>1, <4>1 DEF RequestIds
    <3> QED
      BY <3>1
  <2> QED
    BY <1>1, <2>1 DEF CallsInv, RequestsInv
<1>8. RepliesInv'
  <2>1. \A z : Genuine(z) => Genuine(z)'
    BY <1>1 DEF Genuine
  <2>2. Genuine(y)'
    BY <1>1, <1>2, <1>3 DEF Genuine
  <2>3. ASSUME NEW i \in DOMAIN replies'
        PROVE  \/ /\ replies'[i][1].call \in served'
                  /\ replies'[i][1].xid = replies'[i][1].call
               \/ replies'[i][1].xid \notin 1 .. MaxCalls
    BY <1>1, <1>5, <2>2 DEF CallsInv, RepliesInv, Genuine
  <2>4. ASSUME NEW d \in Callers, NEW i \in DOMAIN collected'[d]
        PROVE  \/ /\ collected'[d][i][1].call \in served'
                  /\ collected'[d][i][1].xid = collected'[d][i][1].call
               \/ collected'[d][i][1].xid \notin 1 .. MaxCalls
    BY <1>1 DEF CallsInv, RepliesInv, Genuine
  <2> QED
    BY <2>3, <2>4 DEF RepliesInv, Genuine
<1> QED
  BY <1>6, <1>7, <1>8 DEF CallsInv

\* Every step keeps the invariant ...
LEMMA NextCalls == CallsInv /\ [Next]_vars => CallsInv'
<1> SUFFICES ASSUME CallsInv, [Next]_vars PROVE CallsInv'
  OBVIOUS
<1>1. CASE UNCHANGED vars
  <2>1. UNCHANGED <<calls, nextXid, pc, request, collected, outcome, reqs, served, replies>>
    BY <1>1 DEF vars, taskVars, peerVars
  <2> QED
    BY <2>1 DEF CallsInv, CallTypes, RequestsInv, RepliesInv, Genuine
<1>2. CASE Close
  <2>1. UNCHANGED <<calls, nextXid, pc, request, collected, outcome, reqs, served>>
    BY <1>2 DEF taskVars, Close
  <2>2. PICK k \in 0 .. Len(replies) : replies' = SubSeq(replies, 1, k)
    BY <1>2 DEF Close
  <2>3. replies \in Seq(PieceTypes) /\ k \in Nat /\ k <= Len(replies)
    BY DEF CallsInv, CallTypes
  <2>4. /\ replies' \in Seq(PieceTypes) /\ DOMAIN replies' = 1 .. k
        /\ \A i \in 1 .. k : replies'[i] = replies[i] /\ i \in DOMAIN replies
    BY <2>2, <2>3
  <2>5. \A i \in DOMAIN replies' : Genuine(replies'[i][1])
    BY <2>4 DEF CallsInv, RepliesInv
  <2> QED
    BY <2>1, <2>4, <2>5 DEF CallsInv, CallTypes, RequestsInv, RepliesInv, Genuine
<1> QED
  BY <1>1, <1>2, BeginCallKeeps, EnqueueKeeps, SendKeeps, ReturnsKeep, AnswersKeep
  DEF Next, CallerStep

\* ... so it holds always.
LEMMA CallsInvariant == Spec => []CallsInv
  BY InitCalls, NextCalls, PTL DEF Spec

-----------------------------------------------------------------------------
\* A function that changes at one place.
LEMMA Changed ==
  ASSUME NEW S, NEW f, NEW g, NEW c \in S, NEW v,
         f = [x \in S |-> f[x]], g = [x \in S |-> g[x]],
         g[c] = v, \A x \in S : x # c => g[x] = f[x]
  PROVE  g = [f EXCEPT ![c] = v]
  OBVIOUS

\* What the callers see of an outcome.
LEMMA Results ==
  ASSUME NEW o
  PROVE  /\ o.kind = "none" => ResultOf(o) = [is |-> "none"]
         /\ o.kind = "ok" => ResultOf(o) = [is |-> "ok", of |-> o.from.call]
         /\ o.kind \notin {"none", "ok"} => ResultOf(o) = [is |-> "err"]
  BY DEF ResultOf

\* Steps that end no call and begin none show nothing to the callers.
LEMMA Unseen ==
  ASSUME CallsInv, NEW c \in Callers, NEW where \in {"lock", "reading", "lost"},
         pc[c] # "idle",
         pc' \in {pc, [pc EXCEPT ![c] = where]},
         UNCHANGED <<request, outcome>>
  PROVE  UNCHANGED <<WaitsFor, Returned>>
<1>1. \A d \in Callers : pc'[d] = "idle" <=> pc[d] = "idle"
  BY DEF CallsInv, CallTypes
<1> QED
  BY <1>1 DEF WaitsFor, Returned

\* A call is over.
LEMMA Over ==
  ASSUME CallsInv, NEW c \in Callers, pc[c] # "idle",
         pc' = [pc EXCEPT ![c] = "idle"],
         request' = [request EXCEPT ![c] = NoRequest]
  PROVE  /\ request[c].xid = request[c].call /\ request[c].call \in 1 .. MaxCalls
         /\ outcome[c].kind = "none"
         /\ WaitsFor[c] = request[c].call /\ WaitsFor[c] # 0
         /\ WaitsFor' = [WaitsFor EXCEPT ![c] = 0]
<1>1. /\ CallTypes /\ request[c].call \in 1 .. calls /\ request[c].xid = request[c].call
      /\ outcome[c].kind = "none" /\ calls \in 0 .. MaxCalls
  BY DEF CallsInv, CallTypes, RequestsInv
<1>2. request[c].call \in 1 .. MaxCalls
  BY <1>1, TransportAssumption
<1>3. \A d \in Callers :
        /\ pc'[d] = IF d = c THEN "idle" ELSE pc[d]
        /\ d # c => request'[d] = request[d]
  BY <1>1 DEF CallTypes
<1>4. WaitsFor'[c] = 0 /\ \A d \in Callers : d # c => WaitsFor'[d] = WaitsFor[d]
  BY <1>1, <1>3 DEF WaitsFor
<1>5. /\ WaitsFor' = [d \in Callers |-> WaitsFor'[d]]
      /\ WaitsFor = [d \in Callers |-> WaitsFor[d]]
  BY DEF WaitsFor
<1>6. WaitsFor' = [WaitsFor EXCEPT ![c] = 0]
  BY <1>4, <1>5, Changed
<1>7. WaitsFor[c] = request[c].call /\ WaitsFor[c] # 0
  BY <1>1, <1>2, TransportAssumption DEF WaitsFor
<1> QED
  BY <1>1, <1>2, <1>6, <1>7

\* A call returns.
Ended(c, kind, from) ==
  /\ pc' = [pc EXCEPT ![c] = "idle"]
  /\ outcome' = [outcome EXCEPT ![c] = [kind |-> kind, from |-> from]]
  /\ request' = [request EXCEPT ![c] = NoRequest]
  /\ UNCHANGED <<calls, served>>

LEMMA Seen ==
  ASSUME CallsInv, NEW c \in Callers, pc[c] # "idle",
         NEW kind \in Ends, NEW from \in RequestIds,
         kind = "ok" => from.xid = request[c].xid /\ Genuine(from),
         Ended(c, kind, from)
  PROVE  Calls!Next
<1>1. kind # "none" /\ UNCHANGED <<calls, served>>
  BY DEF Ends, Ended
<1>2. /\ request[c].xid = request[c].call /\ request[c].call \in 1 .. MaxCalls
      /\ WaitsFor[c] = request[c].call /\ WaitsFor[c] # 0
      /\ WaitsFor' = [WaitsFor EXCEPT ![c] = 0]
  BY Over DEF Ended
<1> DEFINE o == [kind |-> kind, from |-> from]
<1>3. o.kind = kind /\ o.from = from
  OBVIOUS
<1>4. /\ Returned'[c] = ResultOf(o)
      /\ \A d \in Callers : d # c => Returned'[d] = Returned[d]
  <2>1. outcome'[c] = o /\ \A d \in Callers : d # c => outcome'[d] = outcome[d]
    BY DEF CallsInv, CallTypes, Ended
  <2> QED
    BY <2>1 DEF Returned
<1>5. /\ Returned' = [d \in Callers |-> Returned'[d]]
      /\ Returned = [d \in Callers |-> Returned[d]]
  BY DEF Returned
<1>6. Returned' = [Returned EXCEPT ![c] = ResultOf(o)]
  BY <1>4, <1>5, Changed
<1>7. CASE kind = "ok"
  <2>1. from.call = request[c].call /\ request[c].call \in served
    BY <1>2, <1>7, TransportAssumption DEF Genuine
  <2>2. ResultOf(o) = [is |-> "ok", of |-> request[c].call]
    BY <1>3, <1>7, <2>1, Results
  <2> QED
    BY <1>1, <1>2, <1>6, <2>1, <2>2 DEF Calls!Next, Calls!ReturnOk, Calls!Return
<1>8. CASE kind # "ok"
  <2>1. ResultOf(o) = [is |-> "err"]
    BY <1>1, <1>3, <1>8, Results
  <2> QED
    BY <1>1, <1>2, <1>6, <2>1 DEF Calls!Next, Calls!ReturnErr, Calls!Return
<1> QED
  BY <1>7, <1>8

\* Its future is dropped.
LEMMA Unheard ==
  ASSUME CallsInv, NEW c \in Callers, Cancel(c)
  PROVE  Calls!Next
<1>1. /\ pc[c] # "idle" /\ pc' = [pc EXCEPT ![c] = "idle"]
      /\ request' = [request EXCEPT ![c] = NoRequest]
      /\ UNCHANGED <<calls, served, outcome>>
  BY DEF Cancel, peerVars
<1>2. /\ outcome[c].kind = "none" /\ WaitsFor[c] # 0
      /\ WaitsFor' = [WaitsFor EXCEPT ![c] = 0]
  BY <1>1, Over
<1>3. Returned' = [Returned EXCEPT ![c] = [is |-> "none"]]
  BY <1>1, <1>2, Results DEF Returned
<1> QED
  BY <1>1, <1>2, <1>3 DEF Calls!Next, Calls!Drop, Calls!Return, Calls!Nothing

\* Every step of the transport is one that RpcCalls allows, or none.
LEMMA StepOfCalls ==
  ASSUME CallsInv, [Next]_vars
  PROVE  Calls!Next \/ UNCHANGED Calls!vars
<1> USE DEF Calls!vars
<1>1. CASE UNCHANGED vars \/ Close
  BY <1>1 DEF vars, taskVars, peerVars, Close, WaitsFor, Returned
<1>2. ASSUME NEW c \in Callers, BeginCall(c)
      PROVE  Calls!Next
  <2>1. CallTypes /\ pc[c] = "idle" /\ UNCHANGED served
    BY <1>2 DEF CallsInv, BeginCall, peerVars
  <2>2. /\ pc'[c] = "begun" /\ request'[c].call = calls' /\ outcome'[c].kind = "none"
        /\ \A d \in Callers : d # c =>
             pc'[d] = pc[d] /\ request'[d] = request[d] /\ outcome'[d] = outcome[d]
    <3>1. pc' = [pc EXCEPT ![c] = "begun"]
      BY <1>2 DEF BeginCall
    <3>2. request' = [request EXCEPT ![c] = [xid |-> nextXid, call |-> calls']]
      BY <1>2 DEF BeginCall
    <3>3. outcome' = [outcome EXCEPT ![c].kind = "none"]
      BY <1>2 DEF BeginCall
    <3> QED
      BY <2>1, <3>1, <3>2, <3>3 DEF CallTypes
  <2>3. /\ WaitsFor' = [d \in Callers |-> WaitsFor'[d]]
        /\ WaitsFor = [d \in Callers |-> WaitsFor[d]]
        /\ Returned' = [d \in Callers |-> Returned'[d]]
        /\ Returned = [d \in Callers |-> Returned[d]]
    BY DEF WaitsFor, Returned
  <2>4. WaitsFor' = [WaitsFor EXCEPT ![c] = calls']
    <3>1. WaitsFor'[c] = calls' /\ \A d \in Callers : d # c => WaitsFor'[d] = WaitsFor[d]
      BY <2>2 DEF WaitsFor
    <3> QED
      BY <2>3, <3>1, Changed
  <2>5. Returned' = [Returned EXCEPT ![c] = [is |-> "none"]]
    <3>1. /\ Returned'[c] = [is |-> "none"]
          /\ \A d \in Callers : d # c => Returned'[d] = Returned[d]
      BY <2>2, Results DEF Returned
    <3> QED
      BY <2>3, <3>1, Changed
  <2>6. WaitsFor[c] = 0 /\ calls < MaxCalls /\ calls' = calls + 1
    BY <1>2, <2>1 DEF WaitsFor, BeginCall
  <2> QED
    BY <2>1, <2>4, <2>5, <2>6 DEF Calls!Next, Calls!Call, Calls!Nothing
<1>3. ASSUME NEW c \in Callers, Enqueue(c) \/ Send(c)
      PROVE  UNCHANGED Calls!vars
  BY <1>3, Unseen DEF Enqueue, Send, peerVars
<1>4. ASSUME NEW c \in Callers, ConnectionClosed(c) \/ EncodeFails(c)
      PROVE  Calls!Next
  <2>1. PICK kind \in {"eof", "unsent"} :
          pc[c] # "idle" /\ Ended(c, kind, NoRequest)
    BY <1>4 DEF ConnectionClosed, EncodeFails, Return, Ended, peerVars
  <2>2. kind \in Ends /\ kind # "ok"
    BY DEF Ends
  <2> QED
    BY <2>1, <2>2, NoRequestType, Seen
<1>5. ASSUME NEW c \in Callers, Cancel(c)
      PROVE  Calls!Next
  BY <1>5, Unheard
<1>6. ASSUME NEW c \in Callers, NEW n \in 1 .. MaxRead, Read(c, n)
      PROVE  Calls!Next \/ UNCHANGED Calls!vars
  <2>1. n \in Nat /\ n <= Len(replies) /\ pc[c] = "reading"
    BY <1>6, TransportAssumption DEF Read
  <2>2. CASE UNCHANGED <<pc, request, outcome, served, calls>>
    BY <2>1, <2>2, Unseen
  <2>3. CASE Return(c, Verdict(c, Head(Assembled(c, n))[1]), Head(Assembled(c, n))[1])
    <3> DEFINE from == Head(Assembled(c, n))[1]
    <3>1. Genuine(from) /\ from \in RequestIds
      BY <2>1, FirstPiece
    <3>2. Return(c, Verdict(c, from), from)
      BY <2>3
    <3> HIDE DEF from
    <3>3. Verdict(c, from) \in Ends /\ (Verdict(c, from) = "ok" => from.xid = request[c].xid)
      BY DEF Verdict, Ends
    <3>4. Ended(c, Verdict(c, from), from)
      BY <3>2 DEF Return, Ended
    <3> QED
      BY <2>1, <3>1, <3>3, <3>4, Seen
  <2> QED
    BY <1>6, <2>2, <2>3 DEF Read
<1>7. ASSUME NEW c \in Callers, NEW n \in 1 .. MaxRead, ReadGarbage(c, n)
      PROVE  Calls!Next \/ UNCHANGED Calls!vars
  <2>1. pc[c] # "idle"
    BY <1>7 DEF ReadGarbage
  <2>2. CASE Return(c, "garbage", NoRequest)
    <3>1. "garbage" \in Ends /\ "garbage" # "ok"
      BY DEF Ends
    <3> QED
      BY <2>1, <2>2, <3>1, NoRequestType, Seen DEF Return, Ended
  <2>3. CASE /\ pc' = [pc EXCEPT ![c] = "lost"]
             /\ UNCHANGED <<request, outcome, served, calls>>
    BY <2>1, <2>3, Unseen
  <2> QED
    BY <1>7, <2>2, <2>3 DEF ReadGarbage
<1>8. ASSUME NEW x \in reqs, Answer(x) \/ AnswerWrongly(x)
      PROVE  Calls!Next
  <2>1. /\ served' = served \cup {x.call} /\ UNCHANGED <<calls, WaitsFor, Returned>>
    BY <1>8 DEF Answer, AnswerWrongly, taskVars, WaitsFor, Returned
  <2>2. x.call \in 1 .. calls /\ x.call \notin served
    BY DEF CallsInv, RequestsInv
  <2> QED
    BY <2>1, <2>2 DEF Calls!Next, Calls!Execute
<1> QED
  BY <1>1, <1>2, <1>3, <1>4, <1>5, <1>6, <1>7, <1>8 DEF Next, CallerStep

\* Any interleaving of calls, dropped futures, misbehaviour and closing of the
\* peer is one that RpcCalls allows: the transport answers each request at
\* most once and Ok is the answer to one's own.
THEOREM ImplementsRpcCalls == Spec => ImplementsCalls
<1>1. Init => Calls!Init
  BY Results DEF Init, Calls!Init, Calls!Nothing, WaitsFor, Returned
<1> QED
  BY <1>1, StepOfCalls, CallsInvariant, PTL DEF Spec, ImplementsCalls, Calls!Spec

-----------------------------------------------------------------------------
(* One round trip at a time, while no future is dropped. *)

\* s was read of a record y, and q is what is left of it, or of what the
\* connection has brought of it.
OneReply(s, q, y) ==
  /\ Len(s) + Len(q) <= Parts
  /\ \A i \in 1 .. Len(s) : s[i] = <<y, i>>
  /\ \A i \in 1 .. Len(q) : q[i] = <<y, Len(s) + i>>

\* The caller that reads waits for its answer, or is reading it: nothing else
\* is on its way.
Trip(c) ==
  \/ reqs = {request[c]} /\ replies = <<>> /\ collected[c] = <<>>
  \/ /\ open => reqs = {} /\ Len(collected[c]) + Len(replies) = Parts
     /\ Len(collected[c]) < Parts
     /\ \E y \in RequestIds :
          /\ OneReply(collected[c], replies, y)
          /\ y.xid # TooLong
          /\ rejects = 0 => y = request[c]

OneTrip ==
  /\ ~garbled
  /\ lockQueue \in Seq(Callers)
  /\ \A c \in Callers : pc[c] = "reading" => HoldsLock(c) /\ Trip(c)
  /\ (\A c \in Callers : pc[c] # "reading") => replies = <<>> /\ (open => reqs = {})
  /\ \A c \in Callers : pc[c] # "lost" /\ outcome[c].kind # "garbage"
  /\ rejects = 0 => \A c \in Callers : outcome[c].kind \notin {"mismatch", "refused"}

TripInv ==
  /\ CallsInv
  /\ cancels \in Nat /\ rejects \in Nat
  /\ overlong \in BOOLEAN /\ (overlong => rejects # 0)
  /\ cancels = 0 /\ ~overlong => OneTrip

\* Before the first call nothing is on its way.
LEMMA InitTrip == Init => TripInv
<1> SUFFICES ASSUME Init PROVE TripInv
  OBVIOUS
<1>1. \A c \in Callers : pc[c] = "idle" /\ outcome[c].kind = "none"
  BY DEF Init
<1>2. lockQueue \in Seq(Callers) /\ replies = <<>> /\ reqs = {} /\ ~garbled
  BY DEF Init
<1>3. OneTrip
  BY <1>1, <1>2 DEF OneTrip
<1>4. cancels = 0 /\ rejects = 0 /\ overlong = FALSE
  BY DEF Init
<1> QED
  BY <1>3, <1>4, InitCalls DEF TripInv

\* What a read of n more pieces leaves is still one reply.
LEMMA ReadOn ==
  ASSUME NEW S, NEW s \in Seq(S), NEW q \in Seq(S), NEW y,
         OneReply(s, q, y), NEW n \in 1 .. Len(q)
  PROVE  LET got == s \o SubSeq(q, 1, n)
             rest == SubSeq(q, n + 1, Len(q))
         IN  /\ Len(got) = Len(s) + n /\ Len(got) <= Parts
             /\ Len(got) + Len(rest) = Len(s) + Len(q)
             /\ got[1] = <<y, 1>>
             /\ OneReply(got, rest, y)
             /\ SubSeq(got, 1, Len(got)) = got
<1> DEFINE some == SubSeq(q, 1, n)
           got == s \o some
           rest == SubSeq(q, n + 1, Len(q))
<1>1. Len(s) \in Nat /\ Len(q) \in Nat /\ n \in Nat /\ n <= Len(q) /\ n >= 1
  OBVIOUS
<1>2. some \in Seq(S) /\ Len(some) = n /\ \A i \in 1 .. n : some[i] = q[i]
  BY <1>1
<1>3. /\ rest \in Seq(S) /\ Len(rest) = Len(q) - n
      /\ \A i \in 1 .. Len(q) - n : rest[i] = q[n + i]
  BY <1>1
<1> HIDE DEF some, rest
<1>4. /\ got \in Seq(S) /\ Len(got) = Len(s) + n
      /\ \A i \in 1 .. Len(s) + n :
           got[i] = IF i <= Len(s) THEN s[i] ELSE some[i - Len(s)]
  BY <1>1, <1>2, PlaceByPlace
<1> HIDE DEF got
<1>5. \A i \in 1 .. Len(s) + n : got[i] = <<y, i>>
  <2> SUFFICES ASSUME NEW i \in 1 .. Len(s) + n PROVE got[i] = <<y, i>>
    OBVIOUS
  <2>1. CASE i <= Len(s)
    BY <1>1, <1>4, <2>1 DEF OneReply
  <2>2. CASE i > Len(s)
    <3>1. i - Len(s) \in 1 .. n /\ i - Len(s) \in 1 .. Len(q)
      BY <1>1, <2>2
    <3>2. got[i] = q[i - Len(s)]
      BY <1>1, <1>2, <1>4, <2>2, <3>1
    <3>3. q[i - Len(s)] = <<y, Len(s) + (i - Len(s))>>
      BY <3>1 DEF OneReply
    <3>4. Len(s) + (i - Len(s)) = i
      BY <1>1
    <3> QED
      BY <3>2, <3>3, <3>4
  <2> QED
    BY <1>1, <2>1, <2>2
<1>6. \A i \in 1 .. Len(rest) : rest[i] = <<y, Len(got) + i>>
  <2> SUFFICES ASSUME NEW i \in 1 .. Len(rest) PROVE rest[i] = <<y, Len(got) + i>>
    OBVIOUS
  <2>0. i \in Nat /\ i >= 1 /\ i <= Len(q) - n
    BY <1>1, <1>3
  <2>1. n + i \in 1 .. Len(q) /\ rest[i] = q[n + i]
    BY <1>1, <1>3, <2>0
  <2>2. Len(s) + (n + i) = Len(got) + i
    BY <1>1, <1>4
  <2> QED
    BY <2>1, <2>2 DEF OneReply
<1>7. /\ Len(got) + Len(rest) = Len(s) + Len(q)
      /\ Len(got) + Len(rest) <= Parts /\ Len(got) <= Parts
  BY <1>1, <1>3, <1>4, TransportAssumption DEF OneReply
<1>8. OneReply(got, rest, y)
  BY <1>4, <1>5, <1>6, <1>7 DEF OneReply
<1>9. got[1] = <<y, 1>>
  BY <1>1, <1>5
<1>10. SubSeq(got, 1, Len(got)) = got
  BY <1>4
<1> QED
  BY <1>4, <1>7, <1>8, <1>9, <1>10 DEF got, rest, some

\* A caller that reads, reads its own reply.
LEMMA ReadsItsReply ==
  ASSUME TripInv, cancels = 0, ~overlong, NEW c \in Callers, pc[c] = "reading",
         NEW n \in 1 .. MaxRead, n <= Len(replies)
  PROVE  LET rest == SubSeq(replies, n + 1, Len(replies))
         IN  \E y \in RequestIds :
               /\ rejects = 0 => y = request[c]
               /\ y.xid # TooLong
               /\ Len(Assembled(c, n)) <= Parts /\ Assembled(c, n)[1] = <<y, 1>>
               /\ Assembled(c, n) \in Seq(PieceTypes) /\ Len(Assembled(c, n)) >= 1
               /\ OneReply(Assembled(c, n), rest, y)
               /\ open => reqs = {} /\ Len(Assembled(c, n)) + Len(rest) = Parts
<1>1. /\ Trip(c) /\ collected[c] \in Seq(PieceTypes) /\ replies \in Seq(PieceTypes)
      /\ n \in 1 .. Len(replies) /\ Parts \in Nat /\ n \in Nat
  BY TransportAssumption DEF TripInv, OneTrip, CallsInv, CallTypes
<1>2. replies # <<>>
  BY <1>1
<1>3. PICK y \in RequestIds :
        /\ OneReply(collected[c], replies, y)
        /\ y.xid # TooLong
        /\ rejects = 0 => y = request[c]
  BY <1>1, <1>2 DEF Trip
<1>4. open => reqs = {} /\ Len(collected[c]) + Len(replies) = Parts
  BY <1>1, <1>2 DEF Trip
<1> DEFINE got == collected[c] \o SubSeq(replies, 1, n)
           rest == SubSeq(replies, n + 1, Len(replies))
<1>5. /\ Len(got) <= Parts /\ got[1] = <<y, 1>> /\ OneReply(got, rest, y)
      /\ SubSeq(got, 1, Len(got)) = got /\ Len(got) = Len(collected[c]) + n
      /\ Len(got) + Len(rest) = Len(collected[c]) + Len(replies)
  <2> DEFINE s == collected[c]
             q == replies
  <2>1. s \in Seq(PieceTypes) /\ q \in Seq(PieceTypes) /\ n \in 1 .. Len(q)
        /\ OneReply(s, q, y)
    BY <1>1, <1>3
  <2> HIDE DEF s, q
  <2>2. LET g == s \o SubSeq(q, 1, n)
            r == SubSeq(q, n + 1, Len(q))
        IN  /\ Len(g) = Len(s) + n /\ Len(g) <= Parts
            /\ Len(g) + Len(r) = Len(s) + Len(q)
            /\ g[1] = <<y, 1>>
            /\ OneReply(g, r, y)
            /\ SubSeq(g, 1, Len(g)) = g
    BY <2>1, ReadOn, ZenonT(60)
  <2> QED
    BY <2>2 DEF s, q
<1>6. Len(collected[c]) \in Nat
  BY <1>1
<1>7. Len(got) >= 1 /\ Len(got) \in Nat
  <2>1. n >= 1 /\ Len(got) = Len(collected[c]) + n
    BY <1>1, <1>5
  <2> HIDE DEF got
  <2> QED
    BY <1>1, <1>6, <2>1
<1>8. Assembled(c, n) = SubSeq(got, 1, IF Len(got) < Parts THEN Len(got) ELSE Parts)
  BY DEF Assembled
<1> HIDE DEF got, rest
<1>9. Assembled(c, n) = got
  <2>0. Len(got) <= Parts /\ Parts \in Nat
    BY <1>1, <1>5
  <2>1. Len(got) = (IF Len(got) < Parts THEN Len(got) ELSE Parts)
    BY <1>7, <2>0
  <2> QED
    BY <1>5, <1>8, <2>1
<1>10. Assembled(c, n) \in Seq(PieceTypes)
  BY <1>1, AssembledPieces DEF TripInv
<1> QED
  BY <1>3, <1>4, <1>5, <1>7, <1>9, <1>10 DEF rest

\* At most one caller reads: the one that holds the mutex.
LEMMA OneReader ==
  ASSUME OneTrip, NEW c \in Callers, HoldsLock(c)
  PROVE  \A d \in Callers \ {c} : pc[d] # "reading"
  BY DEF OneTrip, HoldsLock

\* Only a dropped future and a bad reply are counted.
LEMMA Counters ==
  ASSUME [Next]_vars, overlong \in BOOLEAN
  PROVE  /\ cancels' \in {cancels, cancels + 1}
         /\ \/ UNCHANGED <<rejects, overlong>>
            \/ rejects' = rejects + 1 /\ overlong' \in BOOLEAN /\ (overlong => overlong')
<1>1. CASE UNCHANGED vars \/ Close
  BY <1>1 DEF vars, peerVars, Close
<1>2. ASSUME NEW c \in Callers, BeginCall(c) \/ Enqueue(c) \/ EncodeFails(c) \/ Send(c)
      PROVE  UNCHANGED <<cancels, rejects, overlong>>
  BY <1>2 DEF BeginCall, Enqueue, EncodeFails, Send, peerVars
<1>3. ASSUME NEW c \in Callers, NEW n \in 1 .. MaxRead,
             ConnectionClosed(c) \/ Read(c, n) \/ ReadGarbage(c, n)
      PROVE  UNCHANGED <<cancels, rejects, overlong>>
  BY <1>3 DEF ConnectionClosed, Read, ReadGarbage, Return
<1>4. ASSUME NEW c \in Callers, ConnectionClosed(c)
      PROVE  UNCHANGED <<cancels, rejects, overlong>>
  BY <1>4 DEF ConnectionClosed, Return
<1>5. ASSUME NEW c \in Callers, Cancel(c)
      PROVE  cancels' = cancels + 1 /\ UNCHANGED <<rejects, overlong>>
  BY <1>5 DEF Cancel, peerVars
<1>6. ASSUME NEW x \in reqs, Answer(x)
      PROVE  UNCHANGED <<cancels, rejects, overlong>>
  BY <1>6 DEF Answer
<1>7. ASSUME NEW x \in reqs, AnswerWrongly(x)
      PROVE  /\ cancels' = cancels /\ rejects' = rejects + 1
             /\ overlong' \in BOOLEAN /\ (overlong => overlong')
  BY <1>7 DEF AnswerWrongly
<1> QED
  BY <1>1, <1>2, <1>3, <1>4, <1>5, <1>6, <1>7 DEF Next, CallerStep

\* A call in progress awaits an xid.
LEMMA ItsXid ==
  ASSUME CallsInv, NEW c \in Callers, pc[c] # "idle"
  PROVE  request[c].xid # TooLong
<1>1. request[c].xid \in 1 .. calls /\ calls \in 0 .. MaxCalls
  BY DEF CallsInv, CallTypes, RequestsInv
<1> QED
  BY <1>1, TransportAssumption DEF TooLong

\* Before the first piece any record may follow.
LEMMA NothingRead ==
  ASSUME NEW y PROVE OneReply(<<>>, <<>>, y) /\ Len(<<>>) = 0 /\ 0 < Parts
  BY TransportAssumption DEF OneReply

\* While no future is dropped, a step keeps the round trips apart.
LEMMA NextOneTrip ==
  ASSUME TripInv, [Next]_vars, cancels' = 0, ~overlong'
  PROVE  OneTrip'
<1>0. /\ CallTypes /\ CallTypes' /\ Parts \in Nat \ {0} /\ cancels \in Nat /\ rejects \in Nat
      /\ overlong \in BOOLEAN
  BY NextCalls, TransportAssumption DEF TripInv, CallsInv
<1>1. \A c \in Callers : ~Cancel(c)
  <2>1. cancels + 1 # 0
    BY <1>0
  <2> QED
    BY <2>1 DEF Cancel
<1>2. cancels = 0 /\ ~overlong
  <2>1. cancels + 1 # 0 /\ cancels' \in {cancels, cancels + 1} /\ (overlong => overlong')
    BY <1>0, Counters
  <2> QED
    BY <2>1
<1>3. OneTrip
  BY <1>2 DEF TripInv
<1> USE <1>0, <1>2, <1>3
<1>4. ASSUME NEW c \in Callers, BeginCall(c) \/ Enqueue(c) \/ EncodeFails(c)
      PROVE  OneTrip'
  <2>1. /\ UNCHANGED <<garbled, open, collected, reqs, replies, rejects>>
        /\ lockQueue' \in {lockQueue, Append(lockQueue, c)}
        /\ pc[c] \in {"idle", "begun"} /\ pc'[c] \in {"idle", "begun", "lock"}
        /\ outcome'[c].kind \in {outcome[c].kind, "none", "unsent"}
        /\ \A d \in Callers \ {c} :
             pc'[d] = pc[d] /\ request'[d] = request[d] /\ outcome'[d] = outcome[d]
    <3>1. CASE BeginCall(c)
      BY <3>1 DEF BeginCall, peerVars, CallTypes, Outcomes
    <3>2. CASE Enqueue(c)
      BY <3>2 DEF Enqueue, peerVars, CallTypes
    <3>3. CASE EncodeFails(c)
      BY <3>3 DEF EncodeFails, peerVars, CallTypes
    <3> QED
      BY <1>4, <3>1, <3>2, <3>3
  <2>2. \A d \in Callers : pc'[d] = "reading" <=> pc[d] = "reading"
    BY <2>1
  <2>3. \A d \in Callers : HoldsLock(d) => HoldsLock(d)'
    BY <2>1 DEF OneTrip, HoldsLock
  <2>4. \A d \in Callers : pc'[d] = "reading" => HoldsLock(d)' /\ Trip(d)'
    <3> SUFFICES ASSUME NEW d \in Callers, pc'[d] = "reading"
                 PROVE  HoldsLock(d)' /\ Trip(d)'
      OBVIOUS
    <3>1. HoldsLock(d) /\ Trip(d) /\ request'[d] = request[d]
      BY <2>1, <2>2 DEF OneTrip
    <3> QED
      BY <2>1, <2>3, <3>1 DEF Trip
  <2>5. lockQueue' \in Seq(Callers)
    BY <2>1 DEF OneTrip
  <2>6. \A d \in Callers :
          pc'[d] # "lost" /\ outcome'[d].kind \in {outcome[d].kind, "none", "unsent"}
    BY <2>1 DEF OneTrip
  <2> QED
    BY <2>1, <2>2, <2>4, <2>5, <2>6 DEF OneTrip
<1>5. ASSUME NEW c \in Callers, Send(c) PROVE OneTrip'
  <2>1. /\ pc[c] = "lock" /\ HoldsLock(c)
        /\ open => reqs' = reqs \cup {request[c]}
        /\ ~open => reqs' = reqs
        /\ collected' = [collected EXCEPT ![c] = <<>>]
        /\ pc' = [pc EXCEPT ![c] = "reading"]
        /\ UNCHANGED <<lockQueue, request, outcome, replies, open, rejects, garbled>>
    BY <1>5 DEF Send, OneTrip
  <2>2. \A d \in Callers : pc[d] # "reading"
    BY <2>1, OneReader
  <2>3. replies' = <<>> /\ collected'[c] = <<>> /\ request[c] \in RequestIds
    BY <2>1, <2>2 DEF OneTrip, CallTypes
  <2>4. pc'[c] = "reading" /\ \A d \in Callers : d # c => pc'[d] # "reading" /\ pc'[d] = pc[d]
    BY <2>1, <2>2 DEF CallTypes
  <2>5. Trip(c)'
    <3>1. CASE open
      BY <2>1, <2>2, <2>3, <3>1 DEF Trip, OneTrip
    <3>2. CASE ~open
      <4>1. request[c].xid # TooLong
        BY <2>1, ItsXid DEF TripInv
      <4> QED
        BY <2>1, <2>3, <3>2, <4>1, NothingRead DEF Trip
    <3> QED
      BY <3>1, <3>2
  <2>6. \A d \in Callers : pc'[d] = "reading" => HoldsLock(d)' /\ Trip(d)'
    BY <2>1, <2>4, <2>5 DEF HoldsLock
  <2> QED
    BY <2>1, <2>4, <2>6 DEF OneTrip
<1>6. ASSUME NEW c \in Callers, ConnectionClosed(c) PROVE OneTrip'
  <2>1. /\ ~open /\ HoldsLock(c) /\ pc[c] \in {"lock", "reading"}
        /\ pc[c] = "reading" => replies = <<>>
        /\ lockQueue' = Tail(lockQueue) /\ pc' = [pc EXCEPT ![c] = "idle"]
        /\ outcome' = [outcome EXCEPT ![c] = [kind |-> "eof", from |-> NoRequest]]
        /\ UNCHANGED <<replies, open, rejects, garbled>>
    BY <1>6 DEF ConnectionClosed, Return, OneTrip
  <2>2. \A d \in Callers : pc'[d] # "reading" /\ pc'[d] # "lost"
    BY <2>1, OneReader DEF CallTypes, OneTrip
  <2>3. replies' = <<>>
    BY <2>1, OneReader DEF OneTrip
  <2>4. \A d \in Callers : outcome'[d].kind \in {outcome[d].kind, "eof"}
    BY <2>1 DEF CallTypes
  <2>5. lockQueue' \in Seq(Callers)
    BY <2>1 DEF OneTrip, HoldsLock
  <2> QED
    BY <2>1, <2>2, <2>3, <2>4, <2>5 DEF OneTrip
<1>7. ASSUME NEW c \in Callers, NEW n \in 1 .. MaxRead PROVE ~ReadGarbage(c, n)
  <2> SUFFICES ASSUME ReadGarbage(c, n) PROVE FALSE
    OBVIOUS
  <2>1. pc[c] = "reading" /\ n <= Len(replies) /\ ~Aligned(Assembled(c, n))
    BY DEF ReadGarbage, OneTrip
  <2>2. PICK y \in RequestIds : Assembled(c, n)[1] = <<y, 1>>
    BY <2>1, ReadsItsReply
  <2> QED
    BY <2>1, <2>2 DEF Aligned
<1>8. ASSUME NEW c \in Callers, NEW n \in 1 .. MaxRead, Read(c, n) PROVE OneTrip'
  <2>1. /\ pc[c] = "reading" /\ n <= Len(replies)
        /\ replies' = SubSeq(replies, n + 1, Len(replies))
    BY <1>8 DEF Read
  <2> DEFINE got == Assembled(c, n)
  <2>2. PICK y \in RequestIds :
          /\ rejects = 0 => y = request[c]
          /\ y.xid # TooLong
          /\ Len(got) <= Parts /\ got[1] = <<y, 1>>
          /\ got \in Seq(PieceTypes) /\ Len(got) >= 1
          /\ OneReply(got, replies', y)
          /\ open => reqs = {} /\ Len(got) + Len(replies') = Parts
    BY <2>1, ReadsItsReply
  <2>3. HoldsLock(c) /\ \A d \in Callers \ {c} : pc[d] # "reading"
    BY <2>1, OneReader DEF OneTrip
  <2> HIDE DEF got
  <2>4. CASE /\ Len(got) < Parts
             /\ collected' = [collected EXCEPT ![c] = got]
             /\ UNCHANGED <<lockQueue, pc, request, outcome, reqs, open, rejects, garbled>>
    <3>1. collected'[c] = got
      BY <2>4 DEF CallTypes
    <3>2. Trip(c)'
      BY <2>2, <2>4, <3>1 DEF Trip
    <3> QED
      BY <2>1, <2>3, <2>4, <3>2 DEF OneTrip, HoldsLock
  <2>5. CASE /\ Len(got) = Parts \/ Head(got)[1].xid = TooLong
             /\ Return(c, Verdict(c, Head(got)[1]), Head(got)[1])
    <3>1. Head(got) = <<y, 1>>
      BY <2>2
    <3>2. Return(c, Verdict(c, y), y) /\ Len(got) = Parts
      BY <2>2, <2>5, <3>1
    <3>3. PICK kind \in {"ok", "mismatch", "refused"} :
            Return(c, kind, y) /\ (rejects = 0 => kind = "ok")
      BY <2>2, <3>2 DEF Verdict
    <3>4. /\ lockQueue' = Tail(lockQueue) /\ pc' = [pc EXCEPT ![c] = "idle"]
          /\ outcome' = [outcome EXCEPT ![c] = [kind |-> kind, from |-> y]]
          /\ UNCHANGED <<reqs, open, rejects, garbled>>
      BY <3>3 DEF Return
    <3>5. \A d \in Callers : pc'[d] # "reading" /\ pc'[d] # "lost"
      BY <2>3, <3>4 DEF CallTypes, OneTrip
    <3>6. replies' = <<>>
      <4>1. replies' \in Seq(PieceTypes) /\ Len(got) + Len(replies') <= Parts
        BY <2>2 DEF CallTypes, OneReply
      <4>2. Len(replies') \in Nat
        BY <4>1
      <4>3. Len(replies') = 0
        BY <3>2, <4>1, <4>2
      <4> QED
        BY <4>1, <4>3
    <3>7. \A d \in Callers :
            outcome'[d].kind = IF d = c THEN kind ELSE outcome[d].kind
      BY <3>4 DEF CallTypes
    <3>8. lockQueue' \in Seq(Callers)
      BY <2>3, <3>4 DEF OneTrip, HoldsLock
    <3> QED
      BY <2>2, <3>3, <3>4, <3>5, <3>6, <3>7, <3>8 DEF OneTrip
  <2> QED
    BY <1>8, <2>4, <2>5 DEF Read, got
<1>9. ASSUME NEW x \in reqs, Answer(x) \/ AnswerWrongly(x) PROVE OneTrip'
  <2>1. /\ reqs' = reqs \ {x}
        /\ UNCHANGED <<lockQueue, pc, request, collected, outcome, open, garbled>>
        /\ rejects' = 0 => rejects = 0 /\ Answer(x)
    BY <1>9 DEF Answer, AnswerWrongly, taskVars
  <2>2. CASE ~open
    <3>1. UNCHANGED <<replies, rejects>>
      BY <1>9, <2>2 DEF Answer, AnswerWrongly
    <3>2. ASSUME NEW c \in Callers, pc[c] = "reading" PROVE Trip(c)'
      <4>1. Trip(c)
        BY <3>2 DEF OneTrip
      <4>2. CASE replies = <<>> /\ collected[c] = <<>>
        <5>1. request[c].xid # TooLong /\ request[c] \in RequestIds
          BY <3>2, ItsXid DEF TripInv, CallTypes
        <5> QED
          BY <2>1, <2>2, <3>1, <4>2, <5>1, NothingRead DEF Trip
      <4>3. CASE ~(replies = <<>> /\ collected[c] = <<>>)
        BY <2>1, <2>2, <3>1, <4>1, <4>3 DEF Trip
      <4> QED
        BY <4>2, <4>3
    <3> QED
      BY <2>1, <2>2, <3>1, <3>2 DEF OneTrip, HoldsLock
  <2>3. CASE open
    <3>1. PICK c \in Callers : pc[c] = "reading"
      BY <2>3 DEF OneTrip
    <3>2. Trip(c) /\ HoldsLock(c) /\ \A d \in Callers \ {c} : pc[d] # "reading"
      BY <3>1, OneReader DEF OneTrip
    <3>3. reqs = {request[c]} /\ x = request[c] /\ replies = <<>> /\ collected[c] = <<>>
      BY <2>3, <3>2 DEF Trip
    <3>4. PICK y \in RequestIds :
            replies' = replies \o Pieces(y) /\ (Answer(x) => y = x) /\ y.xid # TooLong
      <4>1. CASE Answer(x)
        <5>1. x.xid # TooLong /\ x \in RequestIds
          BY <3>1, <3>3, ItsXid DEF TripInv, CallTypes
        <5> QED
          BY <2>3, <4>1, <5>1 DEF Answer
      <4>2. ASSUME AnswerWrongly(x), ~Answer(x)
            PROVE  \E y \in RequestIds : replies' = replies \o Pieces(y) /\ y.xid # TooLong
        <5>1. PICK z \in (Xids \ (1 .. MaxCalls)) \cup {NotAReply, TooLong} :
                /\ replies' = replies \o Pieces([xid |-> z, call |-> 0])
                /\ overlong' = (overlong \/ z = TooLong)
          BY <4>2 DEF AnswerWrongly
        <5>2. [xid |-> z, call |-> 0] \in RequestIds /\ z # TooLong
          <6>1. ~overlong' => z # TooLong
            BY <5>1
          <6>2. [xid |-> z, call |-> 0] \in RequestIds
            BY TransportAssumption DEF RequestIds
          <6> QED
            BY <6>1, <6>2
        <5> QED
          BY <5>1, <5>2
      <4> QED
        BY <1>9, <4>1, <4>2
    <3>5. /\ Pieces(y) \in Seq(PieceTypes) /\ Len(Pieces(y)) = Parts
          /\ \A p \in 1 .. Parts : Pieces(y)[p] = <<y, p>>
      BY DEF Pieces, PieceTypes
    <3>6. replies' = Pieces(y)
      BY <3>3, <3>4, <3>5
    <3>7. OneReply(<<>>, replies', y) /\ Len(replies') = Parts
      BY <3>5, <3>6 DEF OneReply
    <3>8. Trip(c)'
      BY <2>1, <3>3, <3>4, <3>7 DEF Trip
    <3> QED
      BY <2>1, <2>3, <3>1, <3>2, <3>8 DEF OneTrip, HoldsLock
  <2> QED
    BY <2>2, <2>3
<1>10. CASE Close
  <2>1. /\ ~open' /\ UNCHANGED <<lockQueue, pc, request, collected, outcome, reqs,
                                 rejects, garbled>>
    BY <1>10 DEF Close, taskVars
  <2>2. PICK k \in 0 .. Len(replies) : replies' = SubSeq(replies, 1, k)
    BY <1>10 DEF Close
  <2>3. replies \in Seq(PieceTypes) /\ Len(replies) \in Nat
    BY DEF CallTypes
  <2>4. /\ replies' \in Seq(PieceTypes) /\ Len(replies') = k
        /\ \A i \in 1 .. k : replies'[i] = replies[i]
    BY <2>2, <2>3
  <2>5. replies = <<>> => replies' = <<>>
    BY <2>3, <2>4
  <2>6. ASSUME NEW c \in Callers, pc[c] = "reading" PROVE Trip(c)'
    <3>1. Trip(c) /\ collected[c] \in Seq(PieceTypes)
      BY <2>6 DEF OneTrip, CallTypes
    <3>2. CASE replies = <<>> /\ collected[c] = <<>> /\ reqs = {request[c]}
      BY <2>1, <2>5, <3>2 DEF Trip
    <3>3. ASSUME NEW y \in RequestIds, OneReply(collected[c], replies, y)
          PROVE  OneReply(collected[c], replies', y)
      <4>1. Len(collected[c]) \in Nat
        BY <3>1
      <4> DEFINE l == Len(collected[c])
                 r == Len(replies)
      <4>2. l \in Nat /\ r \in Nat /\ k \in 0 .. r /\ l + r <= Parts
        BY <2>3, <3>3, <4>1 DEF OneReply
      <4> HIDE DEF l, r
      <4>3. l + k <= Parts /\ 1 .. k \subseteq 1 .. r
        BY <4>2
      <4> QED
        BY <2>4, <3>3, <4>3 DEF OneReply, l, r
    <3> QED
      BY <2>1, <3>1, <3>2, <3>3 DEF Trip
  <2> QED
    BY <2>1, <2>5, <2>6 DEF OneTrip, HoldsLock
<1>11. CASE UNCHANGED vars
  BY <1>11 DEF vars, taskVars, peerVars, OneTrip, HoldsLock, Trip
<1> QED
  BY <1>1, <1>4, <1>5, <1>6, <1>7, <1>8, <1>9, <1>10, <1>11 DEF Next, CallerStep

\* Every step keeps the invariant of round trips.
LEMMA NextTrip == TripInv /\ [Next]_vars => TripInv'
<1> SUFFICES ASSUME TripInv, [Next]_vars PROVE TripInv'
  OBVIOUS
<1>1. /\ cancels' \in {cancels, cancels + 1}
      /\ \/ UNCHANGED <<rejects, overlong>>
         \/ rejects' = rejects + 1 /\ overlong' \in BOOLEAN
  BY Counters DEF TripInv
<1>2. cancels' \in Nat /\ rejects' \in Nat /\ overlong' \in BOOLEAN /\ (overlong' => rejects' # 0)
  BY <1>1 DEF TripInv
<1> QED
  BY <1>2, NextCalls, NextOneTrip DEF TripInv

\* Holding the mutex for the round trip is enough: without dropped futures and
\* replies beyond the limit every call reads its own reply, whatever the size of
\* the reads, the number of callers and the moment the connection ends.
THEOREM RoundTrips == Spec => []InStepWithoutCancel
<1>1. TripInv => InStepWithoutCancel
  BY DEF TripInv, OneTrip, InStepWithoutCancel
<1> QED
  BY <1>1, InitTrip, NextTrip, PTL DEF Spec

-----------------------------------------------------------------------------
(* RecordReader *)

\* Bytes of the stream up to and including its i-th fragment.
Wires == [i \in DOMAIN fragments |-> Wire(i)]
Through(i) == Len(FlattenSeq([j \in 1 .. i |-> Wires[j]]))

\* The first i fragments have been read to their end, and perhaps the next in
\* part: what has been returned, what is kept, and where the unread bytes
\* begin.
ReadTo(i) ==
  LET done == EndBefore(Len(delivered) + 1)
      at == fed - Len(input)
  IN  /\ Len(delivered) = CountTo(Lasts, i)
      /\ ~inFragment => record = Joined(done, i)
      /\ ~inFragment /\ status # "toolarge" => at = Through(i)
      /\ status = "toolarge" =>
           /\ ~inFragment /\ i < Len(fragments)
           /\ Len(record) + fragments[i + 1].length > MaxRecordSize
      /\ inFragment =>
           LET length == fragments[i + 1].length
           IN  /\ i < Len(fragments)
               /\ isLast = fragments[i + 1].last
               /\ remaining \in 0 .. length
               /\ at = Through(i + 1) - remaining
               /\ record = Joined(done, i) \o SubSeq(Payload(i + 1), 1, length - remaining)
               /\ Len(record) + remaining <= MaxRecordSize

ReaderInv ==
  /\ ReaderTypeOK
  /\ \A j \in DOMAIN input : input[j] = Stream[fed - Len(input) + j]
  /\ Len(input) <= fed
  /\ \A k \in DOMAIN delivered :
       delivered[k] = RecordBytes(k) /\ Len(delivered[k]) <= MaxRecordSize
  /\ Len(record) <= MaxRecordSize
  /\ status = "incomplete" =>
       IF inFragment THEN remaining > 0 /\ input = <<>> ELSE Len(input) < HeaderLen
  /\ \E i \in 0 .. Len(fragments) : ReadTo(i)

-----------------------------------------------------------------------------
(* The bytes of the stream. *)

\* Every fragment of the stream has its type.
LEMMA FragmentsType ==
  ASSUME fragments \in BoundedSeq(Fragments, MaxFragments)
  PROVE  /\ fragments \in Seq(Fragments) /\ Len(fragments) \in Nat
         /\ DOMAIN fragments = 1 .. Len(fragments)
         /\ \A i \in 1 .. Len(fragments) :
              /\ fragments[i].last \in BOOLEAN
              /\ fragments[i].length \in Nat /\ fragments[i].length <= MaxFragment
<1>1. PICK m \in 0 .. MaxFragments : fragments \in [1 .. m -> Fragments]
  BY DEF BoundedSeq, SeqOf
<1>2. m \in Nat
  BY ReaderAssumption
<1>3. fragments \in Seq(Fragments) /\ Len(fragments) = m
  BY <1>1, <1>2
<1>4. \A i \in 1 .. m : fragments[i] \in Fragments
  BY <1>1
<1>5. \A f \in Fragments : /\ f.last \in BOOLEAN
                          /\ f.length \in Nat /\ f.length <= MaxFragment
  BY ReaderAssumption DEF Fragments
<1> QED
  BY <1>1, <1>2, <1>3, <1>4, <1>5

\* A fragment on the wire: its header, then its payload, each byte in its place.
LEMMA WireBytes ==
  ASSUME fragments \in BoundedSeq(Fragments, MaxFragments),
         NEW i \in 1 .. Len(fragments)
  PROVE  /\ Wire(i) \in Seq(Bytes)
         /\ Len(Wire(i)) = HeaderLen + fragments[i].length
         /\ \A j \in 1 .. Len(Wire(i)) : Wire(i)[j] = <<i, j>>
         /\ Payload(i) \in Seq(Bytes)
         /\ Len(Payload(i)) = fragments[i].length
         /\ \A j \in 1 .. fragments[i].length : Payload(i)[j] = <<i, HeaderLen + j>>
<1>1. /\ fragments[i].length \in Nat /\ HeaderLen \in Nat
      /\ HeaderLen + fragments[i].length \in Nat /\ i \in Nat
  BY FragmentsType, ReaderAssumption
<1>2. /\ Wire(i) \in Seq(Bytes)
      /\ Len(Wire(i)) = HeaderLen + fragments[i].length
      /\ \A j \in 1 .. Len(Wire(i)) : Wire(i)[j] = <<i, j>>
  <2> DEFINE n == HeaderLen + fragments[i].length
  <2>1. n \in Nat /\ \A j \in 1 .. n : <<i, j>> \in Bytes
    BY <1>1 DEF Bytes
  <2>2. Wire(i) = [j \in 1 .. n |-> <<i, j>>]
    BY DEF Wire
  <2> HIDE DEF n
  <2>3. Wire(i) \in [1 .. n -> Bytes]
    BY <2>1, <2>2
  <2>4. Wire(i) \in Seq(Bytes) /\ Len(Wire(i)) = n
    BY <2>1, <2>3
  <2>5. \A j \in 1 .. n : Wire(i)[j] = <<i, j>>
    BY <2>2
  <2> QED
    BY <2>4, <2>5 DEF n
<1>3. /\ Payload(i) \in Seq(Bytes)
      /\ Len(Payload(i)) = fragments[i].length
      /\ \A j \in 1 .. fragments[i].length : Payload(i)[j] = Wire(i)[HeaderLen + j]
  <2>1. \A j \in HeaderLen + 1 .. Len(Wire(i)) : Wire(i)[j] \in Bytes
    BY <1>1, <1>2
  <2> DEFINE s == Wire(i)
             a == HeaderLen + 1
             b == Len(Wire(i))
  <2>2. a \in Int /\ b \in Int /\ \A j \in a .. b : s[j] \in Bytes
    BY <1>1, <1>2, <2>1
  <2>3. /\ SubSeq(s, a, b) \in Seq(Bytes)
        /\ Len(SubSeq(s, a, b)) = IF a <= b THEN b - a + 1 ELSE 0
        /\ \A j \in 1 .. b - a + 1 : SubSeq(s, a, b)[j] = s[a + j - 1]
    <3> HIDE DEF s, a, b
    <3> QED
      BY <2>2, SubSeqProperties
  <2>4. b - a + 1 = fragments[i].length /\ \A j \in Int : a + j - 1 = HeaderLen + j
    BY <1>1, <1>2
  <2>5. Payload(i) = SubSeq(s, a, b)
    BY DEF Payload
  <2>6. Len(Payload(i)) = fragments[i].length
    BY <1>1, <2>2, <2>3, <2>4, <2>5
  <2>7. ASSUME NEW j \in 1 .. fragments[i].length
        PROVE  Payload(i)[j] = Wire(i)[HeaderLen + j]
    <3>1. j \in Int /\ j \in 1 .. b - a + 1
      BY <1>1, <2>4
    <3>2. Payload(i)[j] = s[a + j - 1] /\ a + j - 1 = HeaderLen + j
      <4> HIDE DEF s, a, b
      <4> QED
        BY <2>3, <2>4, <2>5, <3>1
    <3> QED
      BY <3>2
  <2>8. Payload(i) \in Seq(Bytes)
    <3> HIDE DEF s, a, b
    <3> QED
      BY <2>3, <2>5
  <2> QED
    BY <2>6, <2>7, <2>8
<1>4. ASSUME NEW j \in 1 .. fragments[i].length
      PROVE  Payload(i)[j] = <<i, HeaderLen + j>>
  <2>1. HeaderLen + j \in 1 .. Len(Wire(i))
    BY <1>1, <1>2
  <2> QED
    BY <1>2, <1>3, <2>1
<1> QED
  BY <1>2, <1>3, <1>4

\* Where the bytes of each fragment are in the stream: the fragments follow one
\* another without gaps.
LEMMA StreamBytes ==
  ASSUME fragments \in BoundedSeq(Fragments, MaxFragments)
  PROVE  /\ Stream \in Seq(Bytes) /\ Through(0) = 0
         /\ Through(Len(fragments)) = Len(Stream)
         /\ \A i \in 0 .. Len(fragments) : Through(i) \in Nat /\ Through(i) <= Len(Stream)
         /\ \A i \in 0 .. Len(fragments) - 1 :
              /\ Through(i + 1) = Through(i) + HeaderLen + fragments[i + 1].length
              /\ \A j \in 1 .. HeaderLen + fragments[i + 1].length :
                   Stream[Through(i) + j] = <<i + 1, j>>
         /\ \A i \in 0 .. Len(fragments), m \in 0 .. Len(fragments) :
              i <= m => Through(i) <= Through(m)
<1> DEFINE n == Len(fragments)
<1>1. n \in Nat /\ DOMAIN fragments = 1 .. n
  BY FragmentsType
<1>2. Wires \in [1 .. n -> Seq(Bytes)] /\ \A i \in 1 .. n : Wires[i] = Wire(i)
  BY <1>1, WireBytes DEF Wires
<1>3. Stream = FlattenSeq(Wires)
  BY DEF Stream, Wires
<1>4. \A i : Through(i) = Len(FlattenedTo(Wires, i))
  BY DEF Through, FlattenedTo
<1> HIDE DEF n
<1>5. /\ FlattenedTo(Wires, 0) = <<>>
      /\ \A i \in 0 .. n : FlattenedTo(Wires, i) \in Seq(Bytes)
      /\ \A i \in 0 .. n - 1 : FlattenedTo(Wires, i + 1) = FlattenedTo(Wires, i) \o Wires[i + 1]
      /\ FlattenedTo(Wires, n) = Stream
  BY <1>1, <1>2, <1>3, FlattenedStep
<1>6. \A i \in 0 .. n, m \in 0 .. n : i <= m =>
        /\ Len(FlattenedTo(Wires, i)) <= Len(FlattenedTo(Wires, m))
        /\ \A p \in 1 .. Len(FlattenedTo(Wires, i)) :
             FlattenedTo(Wires, m)[p] = FlattenedTo(Wires, i)[p]
  <2> SUFFICES ASSUME NEW i \in 0 .. n, NEW m \in i .. n
               PROVE  /\ Len(FlattenedTo(Wires, i)) <= Len(FlattenedTo(Wires, m))
                      /\ \A p \in 1 .. Len(FlattenedTo(Wires, i)) :
                           FlattenedTo(Wires, m)[p] = FlattenedTo(Wires, i)[p]
    BY <1>1
  <2>1. Wires \in [1 .. n -> Seq(Bytes)]
    BY <1>2
  <2> DEFINE W == Wires
  <2>2. W \in [1 .. n -> Seq(Bytes)] /\ n \in Nat
    BY <2>1, <1>1
  <2> HIDE DEF W
  <2>3. /\ Len(FlattenedTo(W, i)) <= Len(FlattenedTo(W, m))
        /\ \A p \in 1 .. Len(FlattenedTo(W, i)) :
             FlattenedTo(W, m)[p] = FlattenedTo(W, i)[p]
    BY <2>2, FlattenedPrefix
  <2> QED
    BY <2>3 DEF W
<1>7. n \in 0 .. n /\ 0 \in 0 .. n
  BY <1>1
<1>8. \A i \in 0 .. n : Through(i) \in Nat /\ Through(i) <= Len(Stream)
  BY <1>1, <1>4, <1>5, <1>6, <1>7
<1>9. ASSUME NEW i \in 0 .. n - 1
      PROVE  /\ Through(i + 1) = Through(i) + HeaderLen + fragments[i + 1].length
             /\ \A j \in 1 .. HeaderLen + fragments[i + 1].length :
                  Stream[Through(i) + j] = <<i + 1, j>>
  <2>1. i \in 0 .. n /\ i + 1 \in 0 .. n /\ i + 1 \in 1 .. n /\ i + 1 <= n
    BY <1>1
  <2>2. /\ FlattenedTo(Wires, i) \in Seq(Bytes) /\ Wires[i + 1] \in Seq(Bytes)
        /\ FlattenedTo(Wires, i + 1) = FlattenedTo(Wires, i) \o Wires[i + 1]
    BY <1>2, <1>5, <2>1
  <2>3. /\ Wires[i + 1] = Wire(i + 1)
        /\ Len(Wires[i + 1]) = HeaderLen + fragments[i + 1].length
        /\ \A j \in 1 .. Len(Wires[i + 1]) : Wires[i + 1][j] = <<i + 1, j>>
    BY <1>2, <2>1, WireBytes DEF n
  <2>4. /\ Len(FlattenedTo(Wires, i)) = Through(i)
        /\ Len(FlattenedTo(Wires, i + 1)) = Through(i + 1)
        /\ Through(i) \in Nat
    BY <1>4, <1>8, <2>1
  <2>5. /\ HeaderLen + fragments[i + 1].length \in Nat
        /\ HeaderLen \in Nat /\ fragments[i + 1].length \in Nat
    BY <2>1, FragmentsType, ReaderAssumption DEF n
  <2>6. /\ Through(i + 1) = Through(i) + (HeaderLen + fragments[i + 1].length)
        /\ \A j \in 1 .. HeaderLen + fragments[i + 1].length :
             FlattenedTo(Wires, i + 1)[Through(i) + j] = Wires[i + 1][j]
    <3> DEFINE f == FlattenedTo(Wires, i)
               g == Wires[i + 1]
    <3>1. /\ Len(f \o g) = Len(f) + Len(g)
          /\ \A j \in 1 .. Len(g) : (f \o g)[Len(f) + j] = g[j]
      <4>1. f \in Seq(Bytes) /\ g \in Seq(Bytes)
        BY <2>2
      <4> HIDE DEF f, g
      <4> QED
        BY <4>1
    <3> QED
      BY <3>1, <2>2, <2>3, <2>4
  <2>7. ASSUME NEW j \in 1 .. HeaderLen + fragments[i + 1].length
        PROVE  Stream[Through(i) + j] = <<i + 1, j>>
    <3>1. Through(i) + j \in 1 .. Len(FlattenedTo(Wires, i + 1))
      <4> DEFINE t == Through(i)
                 u == Through(i + 1)
                 l == HeaderLen + fragments[i + 1].length
      <4>1. t \in Nat /\ l \in Nat /\ j \in 1 .. l /\ u = t + l
        BY <2>4, <2>5, <2>6
      <4> HIDE DEF t, u, l
      <4>2. t + j \in 1 .. u
        BY <4>1
      <4> QED
        BY <4>2, <2>4 DEF t, u
    <3>2. Stream[Through(i) + j] = FlattenedTo(Wires, i + 1)[Through(i) + j]
      BY <3>1, <1>5, <1>6, <1>7, <2>1
    <3> QED
      BY <3>2, <2>3, <2>6
  <2> QED
    BY <2>4, <2>5, <2>6, <2>7
<1>10. Through(0) = 0
  BY <1>4, <1>5, EmptySeq
<1> QED
  BY <1>4, <1>5, <1>6, <1>8, <1>9, <1>10 DEF n

\* The payloads of no fragment are nothing; those of one fragment more are
\* longer by its payload.
LEMMA JoinedStep ==
  ASSUME fragments \in BoundedSeq(Fragments, MaxFragments),
         NEW lo \in 0 .. Len(fragments), NEW hi \in lo .. Len(fragments)
  PROVE  /\ Joined(lo, lo) = <<>>
         /\ Joined(lo, hi) \in Seq(Bytes)
         /\ hi < Len(fragments) => Joined(lo, hi + 1) = Joined(lo, hi) \o Payload(hi + 1)
<1> DEFINE n == Len(fragments) - lo
           w == [i \in 1 .. n |-> Payload(lo + i)]
<1>1. n \in Nat /\ Len(fragments) \in Nat /\ hi - lo \in 0 .. n /\ lo \in Nat
  BY FragmentsType
<1>2. w \in [1 .. n -> Seq(Bytes)]
  <2>1. \A i \in 1 .. n : lo + i \in 1 .. Len(fragments)
    BY <1>1
  <2> QED
    BY <2>1, WireBytes
<1>3. ASSUME NEW k \in 0 .. n
      PROVE  FlattenedTo(w, k) = FlattenSeq([i \in 1 .. k |-> Payload(lo + i)])
  <2>1. [i \in 1 .. k |-> w[i]] = [i \in 1 .. k |-> Payload(lo + i)]
    BY <1>1
  <2> QED
    BY <2>1 DEF FlattenedTo
<1>4. \A i \in 1 .. n : w[i] = Payload(lo + i)
  OBVIOUS
<1> HIDE DEF n, w
<1>5. /\ FlattenedTo(w, 0) = <<>>
      /\ \A i \in 0 .. n : FlattenedTo(w, i) \in Seq(Bytes)
      /\ \A i \in 0 .. n - 1 : FlattenedTo(w, i + 1) = FlattenedTo(w, i) \o w[i + 1]
  BY <1>1, <1>2, FlattenedStep
<1>6. Joined(lo, lo) = <<>>
  <2>1. lo - lo = 0 /\ 0 \in 0 .. n
    BY <1>1
  <2> QED
    BY <2>1, <1>3, <1>5 DEF Joined
<1>7. Joined(lo, hi) = FlattenedTo(w, hi - lo)
  BY <1>1, <1>3 DEF Joined
<1>8. ASSUME hi < Len(fragments)
      PROVE  Joined(lo, hi + 1) = Joined(lo, hi) \o Payload(hi + 1)
  <2>1. /\ (hi + 1) - lo = (hi - lo) + 1 /\ hi - lo \in 0 .. n - 1
        /\ (hi - lo) + 1 \in 0 .. n /\ (hi - lo) + 1 \in 1 .. n
        /\ lo + ((hi - lo) + 1) = hi + 1
    BY <1>1, <1>8 DEF n
  <2>2. Joined(lo, hi + 1) = FlattenedTo(w, (hi - lo) + 1)
    BY <2>1, <1>3 DEF Joined
  <2>3. FlattenedTo(w, (hi - lo) + 1) = FlattenedTo(w, hi - lo) \o w[(hi - lo) + 1]
    BY <2>1, <1>5
  <2>4. w[(hi - lo) + 1] = Payload(hi + 1)
    BY <2>1, <1>4
  <2> QED
    BY <2>2, <2>3, <2>4, <1>7
<1> QED
  BY <1>1, <1>5, <1>6, <1>7, <1>8

\* Where the records of the stream end, and how many have ended by a fragment:
\* one more at each fragment marked last.
LEMMA RecordsEnd ==
  ASSUME fragments \in BoundedSeq(Fragments, MaxFragments)
  PROVE  /\ CountTo(Lasts, 0) = 0
         /\ Len(RecordEnds) \in Nat
         /\ \A k \in 1 .. Len(RecordEnds) : RecordEnds[k] \in 1 .. Len(fragments)
         /\ \A i \in 0 .. Len(fragments) :
              /\ CountTo(Lasts, i) \in Nat /\ CountTo(Lasts, i) <= Len(RecordEnds)
              /\ EndBefore(CountTo(Lasts, i) + 1) \in 0 .. i
              /\ \A k \in 1 .. Len(RecordEnds) : RecordEnds[k] <= i <=> k <= CountTo(Lasts, i)
         /\ \A i \in 0 .. Len(fragments) - 1 :
              IF fragments[i + 1].last
              THEN /\ CountTo(Lasts, i + 1) = CountTo(Lasts, i) + 1
                   /\ CountTo(Lasts, i) + 1 \in 1 .. Len(RecordEnds)
                   /\ RecordEnds[CountTo(Lasts, i) + 1] = i + 1
              ELSE CountTo(Lasts, i + 1) = CountTo(Lasts, i)
<1> DEFINE n == Len(fragments)
<1>1. n \in Nat /\ Lasts \in SUBSET (1 .. n)
  BY FragmentsType DEF Lasts
<1>2. \A i \in 0 .. n - 1 : i + 1 \in Lasts <=> fragments[i + 1].last
  BY <1>1, FragmentsType DEF Lasts
<1> HIDE DEF n
<1> DEFINE S == Lasts
<1>3. S \in SUBSET (1 .. n)
  BY <1>1
<1> HIDE DEF S
<1>4. \A i \in Nat : /\ CountTo(S, i) \in Nat
                     /\ CountTo(S, 0) = 0
                     /\ i + 1 \in S => CountTo(S, i + 1) = CountTo(S, i) + 1
                     /\ i + 1 \notin S => CountTo(S, i + 1) = CountTo(S, i)
  BY <1>1, <1>3, CountStep
<1>5. \A i \in Nat : CountTo(S, i) <= Cardinality(S) /\ Cardinality(S) \in Nat
  <2>1. \A i \in Nat : i <= i
    OBVIOUS
  <2> QED
    BY <1>1, <1>3, <2>1, CountMonotonic
<1>6. /\ Ascending(S) \in Seq(S)
      /\ Len(Ascending(S)) = Cardinality(S)
      /\ \A k \in 1 .. Cardinality(S), i \in Nat :
           Ascending(S)[k] <= i <=> k <= CountTo(S, i)
      /\ \A i \in Nat : i + 1 \in S =>
           /\ CountTo(S, i) + 1 \in 1 .. Cardinality(S)
           /\ Ascending(S)[CountTo(S, i) + 1] = i + 1
  BY <1>1, <1>3, AscendingOrder
<1>7. RecordEnds = Ascending(S)
  BY DEF RecordEnds, S
<1>8. 0 \in Nat /\ \A i \in 0 .. n : i \in Nat
  BY <1>1
<1>9. \A k \in 1 .. Len(RecordEnds) : RecordEnds[k] \in 1 .. n
  <2>1. \A k \in 1 .. Len(Ascending(S)) : Ascending(S)[k] \in S
    BY <1>6, ElementOfSeq
  <2> QED
    BY <2>1, <1>3, <1>7
<1>10. ASSUME NEW i \in 0 .. n
       PROVE  EndBefore(CountTo(S, i) + 1) \in 0 .. i
  <2>1. CountTo(S, i) \in Nat /\ CountTo(S, i) <= Cardinality(S)
    BY <1>4, <1>5, <1>8
  <2>2. CASE CountTo(S, i) = 0
    BY <1>8, <2>2 DEF EndBefore
  <2>3. CASE CountTo(S, i) # 0
    <3>1. CountTo(S, i) \in 1 .. Cardinality(S) /\ CountTo(S, i) + 1 # 1
          /\ (CountTo(S, i) + 1) - 1 = CountTo(S, i) /\ CountTo(S, i) <= CountTo(S, i)
      BY <2>1, <2>3, <1>5, <1>8
    <3>2. RecordEnds[CountTo(S, i)] <= i
      BY <3>1, <1>6, <1>7, <1>8
    <3>3. RecordEnds[CountTo(S, i)] \in 1 .. n
      BY <3>1, <1>6, <1>7, <1>9
    <3>4. EndBefore(CountTo(S, i) + 1) = RecordEnds[CountTo(S, i)]
      BY <3>1 DEF EndBefore
    <3> QED
      BY <3>2, <3>3, <3>4, <1>8
  <2> QED
    BY <2>2, <2>3
<1>11. \A i \in 0 .. n - 1 :
         IF fragments[i + 1].last
         THEN /\ CountTo(S, i + 1) = CountTo(S, i) + 1
              /\ CountTo(S, i) + 1 \in 1 .. Len(RecordEnds)
              /\ RecordEnds[CountTo(S, i) + 1] = i + 1
         ELSE CountTo(S, i + 1) = CountTo(S, i)
  <2>1. \A i \in 0 .. n - 1 : i \in Nat
    BY <1>1
  <2> QED
    BY <2>1, <1>2, <1>4, <1>6, <1>7 DEF S
<1> QED
  BY <1>4, <1>5, <1>6, <1>7, <1>8, <1>9, <1>10, <1>11 DEF n, S

-----------------------------------------------------------------------------
(* Reading keeps the place. *)

\* What is said of the stream changes only with its fragments.
LEMMA StreamKept ==
  ASSUME UNCHANGED fragments
  PROVE  /\ Stream' = Stream /\ Lasts' = Lasts /\ RecordEnds' = RecordEnds
         /\ \A i : Through(i)' = Through(i) /\ Payload(i)' = Payload(i)
         /\ \A k : EndBefore(k)' = EndBefore(k) /\ RecordBytes(k)' = RecordBytes(k)
         /\ \A lo, hi : Joined(lo, hi)' = Joined(lo, hi)
  BY DEF Stream, Lasts, RecordEnds, Through, Wires, Wire, Payload, EndBefore,
         RecordBytes, Joined

\* The invariant holds before the first call of read.
LEMMA ReaderStarts == ReaderInit => ReaderInv
<1> SUFFICES ASSUME ReaderInit
             PROVE  ReaderInv
  OBVIOUS
<1> USE ReaderAssumption
<1>1. fragments \in BoundedSeq(Fragments, MaxFragments)
  BY DEF ReaderInit
<1>2. /\ input = <<>> /\ record = <<>> /\ delivered = <<>> /\ fed = 0
      /\ remaining = 0 /\ inFragment = FALSE /\ isLast = FALSE
      /\ status = "incomplete"
  BY DEF ReaderInit
<1>3. Stream \in Seq(Bytes) /\ Through(0) = 0 /\ Len(fragments) \in Nat
  BY <1>1, StreamBytes, FragmentsType
<1>4. ReaderTypeOK
  <2>1. <<>> \in Seq(Bytes) /\ <<>> \in Seq(Seq(Bytes))
    OBVIOUS
  <2>2. 0 \in 0 .. Len(Stream) /\ 0 \in 0 .. MaxFragment
    BY <1>3
  <2> QED
    BY <1>1, <1>2, <2>1, <2>2 DEF ReaderTypeOK
<1>5. ReadTo(0)
  <2>1. Joined(0, 0) = <<>>
    <3>1. 0 \in 0 .. Len(fragments) /\ 0 \in 0 .. Len(fragments)
      BY <1>3
    <3> QED
      BY <3>1, <1>1, JoinedStep
  <2>2. EndBefore(Len(delivered) + 1) = 0 /\ Len(delivered) = 0
    BY <1>2 DEF EndBefore
  <2>3. CountTo(Lasts, 0) = 0
    BY <1>1, RecordsEnd
  <2>4. fed - Len(input) = 0 /\ Len(record) = 0
    <3>1. Len(<<>>) = 0
      BY EmptySeq
    <3>2. Len(input) = 0 /\ Len(record) = 0 /\ fed = 0
      BY <1>2, <3>1, Zenon
    <3> QED
      BY <3>2
  <2> QED
    BY <1>2, <1>3, <2>1, <2>2, <2>3, <2>4 DEF ReadTo
<1>6. 0 \in 0 .. Len(fragments)
  BY <1>3
<1> QED
  BY <1>2, <1>4, <1>5, <1>6 DEF ReaderInv

\* The bytes a call brings continue those left over (record.rs 63-68).
LEMMA FeedKeeps ==
  ASSUME ReaderInv, NEW n \in 0 .. MaxChunk, Feed(n)
  PROVE  ReaderInv'
<1> USE ReaderAssumption
<1> DEFINE new == SubSeq(Stream, fed + 1, fed + n)
<1>1. ReaderTypeOK /\ fragments \in BoundedSeq(Fragments, MaxFragments)
  BY DEF ReaderInv, ReaderTypeOK
<1>2. /\ fed + n <= Len(Stream) /\ input' = input \o new /\ fed' = fed + n
      /\ status' = "running"
      /\ UNCHANGED <<fragments, record, remaining, inFragment, isLast, delivered>>
  BY DEF Feed
<1>3. Stream \in Seq(Bytes) /\ Len(Stream) \in Nat
  BY <1>1, StreamBytes
<1>4. n \in Nat /\ fed \in Nat /\ input \in Seq(Bytes) /\ Len(input) \in Nat
      /\ Len(input) <= fed
  BY <1>1, <1>3 DEF ReaderTypeOK, ReaderInv
<1>5. /\ new \in Seq(Bytes) /\ Len(new) = n
      /\ \A j \in 1 .. n : new[j] = Stream[fed + j]
  <2>1. \A j \in fed + 1 .. fed + n : Stream[j] \in Bytes
    BY <1>2, <1>3, <1>4
  <2> DEFINE a == fed + 1
             b == fed + n
  <2>2. a \in Int /\ b \in Int /\ \A j \in a .. b : Stream[j] \in Bytes
    BY <1>4, <2>1
  <2>3. /\ SubSeq(Stream, a, b) \in Seq(Bytes)
        /\ Len(SubSeq(Stream, a, b)) = IF a <= b THEN b - a + 1 ELSE 0
        /\ \A j \in 1 .. b - a + 1 : SubSeq(Stream, a, b)[j] = Stream[a + j - 1]
    <3> HIDE DEF a, b
    <3> QED
      BY <2>2, SubSeqProperties
  <2>4. b - a + 1 = n /\ \A j \in Int : a + j - 1 = fed + j
    BY <1>4
  <2>5. Len(new) = n
    BY <1>4, <2>3, <2>4
  <2>6. \A j \in 1 .. n : j \in Int
    BY <1>4
  <2>7. new \in Seq(Bytes) /\ \A j \in 1 .. b - a + 1 : new[j] = Stream[a + j - 1]
    BY <2>3
  <2> HIDE DEF new, a, b
  <2> QED
    BY <2>4, <2>5, <2>6, <2>7
<1> HIDE DEF new
<1>6. /\ input' \in Seq(Bytes) /\ Len(input') = Len(input) + n
      /\ \A j \in 1 .. Len(input) : input'[j] = input[j]
      /\ \A j \in 1 .. n : input'[Len(input) + j] = new[j]
  <2>1. /\ input \o new \in Seq(Bytes) /\ Len(input \o new) = Len(input) + n
        /\ \A j \in 1 .. Len(input) : (input \o new)[j] = input[j]
        /\ \A j \in 1 .. n : (input \o new)[Len(input) + j] = new[j]
    BY <1>4, <1>5
  <2> QED
    BY <1>2, <2>1
<1>7. fed' - Len(input') = fed - Len(input) /\ Len(input') <= fed'
  BY <1>2, <1>4, <1>6
<1>8. \A j \in DOMAIN input' : input'[j] = Stream'[fed' - Len(input') + j]
  <2>1. Stream' = Stream
    BY <1>2, StreamKept
  <2>2. ASSUME NEW j \in 1 .. Len(input) + n
        PROVE  input'[j] = Stream[fed - Len(input) + j]
    <3>1. CASE j <= Len(input)
      <4>1. j \in 1 .. Len(input) /\ j \in DOMAIN input
        BY <1>4, <3>1
      <4>2. input[j] = Stream[fed - Len(input) + j]
        BY <4>1 DEF ReaderInv
      <4> QED
        BY <4>1, <4>2, <1>6
    <3>2. CASE j > Len(input)
      <4> DEFINE k == j - Len(input)
      <4>1. k \in 1 .. n /\ j = Len(input) + k /\ fed - Len(input) + j = fed + k
        BY <1>4, <3>2
      <4> HIDE DEF k
      <4> QED
        BY <4>1, <1>5, <1>6
    <3> QED
      BY <1>4, <3>1, <3>2
  <2>3. DOMAIN input' = 1 .. Len(input) + n
    BY <1>6
  <2> QED
    BY <2>1, <2>2, <2>3, <1>7
<1>9. ReaderTypeOK'
  <2>1. fed' \in 0 .. Len(Stream')
    BY <1>2, <1>3, <1>4, StreamKept
  <2> QED
    BY <1>1, <1>2, <1>6, <2>1 DEF ReaderTypeOK
<1>10. \E i \in 0 .. Len(fragments') : ReadTo(i)'
  <2>1. PICK i \in 0 .. Len(fragments) : ReadTo(i)
    BY DEF ReaderInv
  <2>2. status # "toolarge"
    BY DEF Feed
  <2>3. ReadTo(i)'
    BY <2>1, <2>2, <1>2, <1>7, StreamKept DEF ReadTo
  <2> QED
    BY <2>3, <1>2
<1>11. \A k : RecordBytes(k)' = RecordBytes(k)
  BY <1>2, StreamKept
<1> QED
  BY <1>2, <1>7, <1>8, <1>9, <1>10, <1>11 DEF ReaderInv

\* read returns with part of a header in hand (record.rs 72-76).
LEMMA HeaderShortKeeps ==
  ASSUME ReaderInv, HeaderShort
  PROVE  ReaderInv'
<1>1. /\ UNCHANGED <<fragments, fed, input, record, remaining, inFragment, isLast, delivered>>
      /\ status' = "incomplete" /\ ~inFragment /\ Len(input) < HeaderLen /\ status = "running"
  BY DEF HeaderShort, readerVars
<1>2. ReaderTypeOK'
  BY <1>1, StreamKept DEF ReaderInv, ReaderTypeOK
<1>3. PICK i \in 0 .. Len(fragments) : ReadTo(i)
  BY DEF ReaderInv
<1>4. ReadTo(i)'
  BY <1>1, <1>3, StreamKept DEF ReadTo
<1>5. Stream' = Stream /\ \A k : RecordBytes(k)' = RecordBytes(k)
  BY <1>1, StreamKept
<1> QED
  BY <1>1, <1>2, <1>3, <1>4, <1>5 DEF ReaderInv

\* The header of the next fragment is the first thing unread, so the length
\* and the mark taken are that fragment's (record.rs 77-92).
LEMMA ReadHeaderKeeps ==
  ASSUME ReaderInv, ReadHeader
  PROVE  ReaderInv'
<1> USE ReaderAssumption
<1>1. ReaderTypeOK /\ fragments \in BoundedSeq(Fragments, MaxFragments)
  BY DEF ReaderInv, ReaderTypeOK
<1>2. /\ status = "running" /\ inFragment = FALSE /\ Len(input) >= HeaderLen
      /\ input' = SubSeq(input, HeaderLen + 1, Len(input))
      /\ UNCHANGED <<fragments, fed, record, delivered>>
  BY <1>1 DEF ReadHeader, ReaderTypeOK
<1>3. PICK i \in 0 .. Len(fragments) : ReadTo(i)
  BY DEF ReaderInv
<1> DEFINE done == EndBefore(Len(delivered) + 1)
<1>4. /\ Len(delivered) = CountTo(Lasts, i)
      /\ record = Joined(done, i)
      /\ fed - Len(input) = Through(i)
  BY <1>2, <1>3 DEF ReadTo
<1>5. /\ Len(fragments) \in Nat /\ Len(Stream) \in Nat /\ Through(i) \in Nat
      /\ Through(Len(fragments)) = Len(Stream)
      /\ HeaderLen \in Nat /\ HeaderLen > 0
  BY <1>1, StreamBytes, FragmentsType
<1>6. fed \in Nat /\ fed <= Len(Stream) /\ input \in Seq(Bytes) /\ Len(input) \in Nat
  BY <1>1, <1>5 DEF ReaderTypeOK
<1>7. i < Len(fragments)
  BY <1>2, <1>4, <1>5, <1>6
<1>8. /\ Through(i + 1) = Through(i) + HeaderLen + fragments[i + 1].length
      /\ \A j \in 1 .. HeaderLen + fragments[i + 1].length :
           Stream[Through(i) + j] = <<i + 1, j>>
      /\ fragments[i + 1].length \in Nat /\ fragments[i + 1].length <= MaxFragment
      /\ fragments[i + 1].last \in BOOLEAN
  BY <1>1, <1>5, <1>7, StreamBytes, FragmentsType
<1>9. Head(input) = <<i + 1, 1>>
  <2>1. 1 \in DOMAIN input /\ Head(input) = input[1]
    BY <1>2, <1>5, <1>6
  <2>2. input[1] = Stream[fed - Len(input) + 1]
    BY <2>1 DEF ReaderInv
  <2>3. 1 \in 1 .. HeaderLen + fragments[i + 1].length
    BY <1>5, <1>8
  <2> QED
    BY <2>1, <2>2, <2>3, <1>4, <1>8
<1>10. fragments[Head(input)[1]] = fragments[i + 1]
  BY <1>9
<1>11. /\ isLast' = fragments[i + 1].last
       /\ IF Len(record) + fragments[i + 1].length > MaxRecordSize
          THEN status' = "toolarge" /\ UNCHANGED <<remaining, inFragment>>
          ELSE /\ remaining' = fragments[i + 1].length
               /\ inFragment' = TRUE /\ UNCHANGED status
  BY <1>10 DEF ReadHeader
<1>12. /\ input' \in Seq(Bytes) /\ Len(input') = Len(input) - HeaderLen
       /\ \A j \in 1 .. Len(input) - HeaderLen : input'[j] = input[HeaderLen + j]
  <2> DEFINE a == HeaderLen + 1
             b == Len(input)
  <2>1. a \in Int /\ b \in Int /\ \A j \in a .. b : input[j] \in Bytes
    BY <1>5, <1>6
  <2>2. /\ SubSeq(input, a, b) \in Seq(Bytes)
        /\ Len(SubSeq(input, a, b)) = IF a <= b THEN b - a + 1 ELSE 0
        /\ \A j \in 1 .. b - a + 1 : SubSeq(input, a, b)[j] = input[a + j - 1]
    <3> HIDE DEF a, b
    <3> QED
      BY <2>1, SubSeqProperties
  <2>3. b - a + 1 = Len(input) - HeaderLen /\ \A j \in Int : a + j - 1 = HeaderLen + j
    BY <1>5, <1>6
  <2>4. Len(input') = Len(input) - HeaderLen
    <3>1. (IF a <= b THEN b - a + 1 ELSE 0) = Len(input) - HeaderLen
      BY <1>2, <1>5, <1>6
    <3>2. input' = SubSeq(input, a, b)
      BY <1>2
    <3> HIDE DEF a, b
    <3> QED
      BY <2>2, <3>1, <3>2
  <2>5. input' \in Seq(Bytes) /\ \A j \in 1 .. b - a + 1 : input'[j] = input[a + j - 1]
    BY <1>2, <2>2
  <2>6. \A j \in 1 .. Len(input) - HeaderLen : j \in Int
    BY <1>5, <1>6
  <2> HIDE DEF a, b
  <2> QED
    BY <2>3, <2>4, <2>5, <2>6
<1>13. \A j \in DOMAIN input' : input'[j] = Stream'[fed' - Len(input') + j]
  <2>1. Stream' = Stream /\ fed' = fed
    BY <1>2, StreamKept
  <2>2. DOMAIN input' = 1 .. Len(input) - HeaderLen
    BY <1>12
  <2>3. ASSUME NEW j \in 1 .. Len(input) - HeaderLen
        PROVE  input'[j] = Stream[fed - Len(input') + j]
    <3>1. /\ HeaderLen + j \in DOMAIN input
          /\ fed - Len(input') + j = fed - Len(input) + (HeaderLen + j)
      BY <1>5, <1>6, <1>12
    <3>2. input[HeaderLen + j] = Stream[fed - Len(input) + (HeaderLen + j)]
      BY <3>1 DEF ReaderInv
    <3> QED
      BY <3>1, <3>2, <1>12
  <2> QED
    BY <2>1, <2>2, <2>3
<1>14. ReaderTypeOK'
  <2>1. fed' \in 0 .. Len(Stream')
    BY <1>1, <1>2, StreamKept DEF ReaderTypeOK
  <2>2. status' \in {"running", "complete", "incomplete", "toolarge"}
    BY <1>2, <1>11
  <2>3. remaining' \in 0 .. MaxFragment /\ inFragment' \in BOOLEAN /\ isLast' \in BOOLEAN
    <3>1. remaining \in 0 .. MaxFragment /\ inFragment \in BOOLEAN
      BY <1>1 DEF ReaderTypeOK
    <3>2. fragments[i + 1].length \in 0 .. MaxFragment
      BY <1>8
    <3> QED
      BY <3>1, <3>2, <1>8, <1>11
  <2> QED
    BY <1>1, <1>2, <1>12, <2>1, <2>2, <2>3 DEF ReaderTypeOK
<1>15. ReadTo(i)'
  <2>1. /\ fed' - Len(input') = Through(i) + HeaderLen
        /\ fed' - Len(input') = Through(i + 1) - fragments[i + 1].length
    <3>1. /\ fed' = fed /\ Len(input') = Len(input) - HeaderLen
          /\ fed - Len(input) = Through(i)
          /\ Through(i + 1) = Through(i) + HeaderLen + fragments[i + 1].length
      BY <1>2, <1>4, <1>8, <1>12
    <3>2. /\ fed \in Nat /\ Len(input) \in Nat /\ HeaderLen \in Nat
          /\ Through(i) \in Nat /\ fragments[i + 1].length \in Nat
      BY <1>5, <1>6, <1>8
    <3> QED
      BY <3>1, <3>2
  <2>2. record \in Seq(Bytes)
    BY <1>1 DEF ReaderTypeOK
  <2>3. record = Joined(done, i) \o SubSeq(Payload(i + 1), 1, 0)
    <3>1. SubSeq(Payload(i + 1), 1, 0) = <<>>
      BY SubSeqEmpty
    <3> QED
      BY <3>1, <2>2, <1>4, ConcatEmptySeq
  <2>4. fragments[i + 1].length - fragments[i + 1].length = 0
        /\ fragments[i + 1].length \in 0 .. fragments[i + 1].length
    BY <1>8
  <2>5. Len(record) \in Nat /\ MaxRecordSize \in Nat
    BY <2>2
  <2>6. CASE Len(record) + fragments[i + 1].length > MaxRecordSize
    BY <2>6, <1>2, <1>4, <1>7, <1>11, StreamKept DEF ReadTo
  <2>7. CASE ~(Len(record) + fragments[i + 1].length > MaxRecordSize)
    <3>1. /\ inFragment' /\ remaining' = fragments[i + 1].length
          /\ status' = "running" /\ isLast' = fragments[i + 1].last
          /\ Len(record) + fragments[i + 1].length <= MaxRecordSize
      BY <2>5, <2>7, <1>2, <1>8, <1>11
    <3> HIDE DEF done
    <3> QED
      BY <3>1, <2>1, <2>3, <2>4, <1>2, <1>4, <1>7, StreamKept DEF ReadTo, done
  <2> QED
    BY <2>6, <2>7
<1>16. Len(input') <= fed' /\ fed' - Len(input') = Through(i) + HeaderLen
  BY <1>2, <1>4, <1>5, <1>6, <1>12
<1>17. status' # "incomplete"
  BY <1>2, <1>11
<1>18. \A k : RecordBytes(k)' = RecordBytes(k)
  BY <1>2, StreamKept
<1> QED
  BY <1>2, <1>3, <1>13, <1>14, <1>15, <1>16, <1>17, <1>18 DEF ReaderInv

\* The payload of the fragment under way is the first thing unread, so what is
\* moved is the part of it that is missing; when that completes the fragment,
\* the record is returned or the next fragment is joined (record.rs 94-116).
LEMMA ConsumePayloadKeeps ==
  ASSUME ReaderInv, ConsumePayload
  PROVE  ReaderInv'
<1> USE ReaderAssumption
<1>1. ReaderTypeOK /\ fragments \in BoundedSeq(Fragments, MaxFragments)
  BY DEF ReaderInv, ReaderTypeOK
<1> DEFINE taken == record \o SubSeq(input, 1, Available)
<1>2. /\ status = "running" /\ inFragment = TRUE
      /\ input' = SubSeq(input, Available + 1, Len(input))
      /\ remaining' = remaining - Available
      /\ inFragment' = ~(remaining = Available)
      /\ IF remaining = Available /\ isLast
         THEN /\ record' = <<>> /\ delivered' = Append(delivered, taken)
              /\ status' = "complete"
         ELSE /\ record' = taken /\ UNCHANGED delivered
              /\ status' = IF remaining = Available THEN "running" ELSE "incomplete"
      /\ UNCHANGED <<fragments, fed, isLast>>
  BY <1>1 DEF ConsumePayload, ReaderTypeOK
<1>3. PICK i \in 0 .. Len(fragments) : ReadTo(i)
  BY DEF ReaderInv
<1> DEFINE done == EndBefore(Len(delivered) + 1)
           length == fragments[i + 1].length
           had == length - remaining
<1>4. /\ Len(delivered) = CountTo(Lasts, i)
      /\ i < Len(fragments) /\ isLast = fragments[i + 1].last
      /\ remaining \in 0 .. length
      /\ fed - Len(input) = Through(i + 1) - remaining
      /\ record = Joined(done, i) \o SubSeq(Payload(i + 1), 1, had)
      /\ Len(record) + remaining <= MaxRecordSize
  BY <1>2, <1>3 DEF ReadTo
<1>5. /\ Len(fragments) \in Nat /\ Len(Stream) \in Nat
      /\ Through(i) \in Nat /\ Through(i + 1) \in Nat
      /\ Through(i + 1) = Through(i) + HeaderLen + length
      /\ \A j \in 1 .. HeaderLen + length : Stream[Through(i) + j] = <<i + 1, j>>
      /\ length \in Nat /\ HeaderLen \in Nat
      /\ i + 1 \in 1 .. Len(fragments) /\ i + 1 \in 0 .. Len(fragments) /\ i \in Nat
  <2>1. Len(fragments) \in Nat
    BY <1>1, FragmentsType
  <2>2. /\ i + 1 \in 1 .. Len(fragments) /\ i + 1 \in 0 .. Len(fragments)
        /\ i \in 0 .. Len(fragments) - 1 /\ i \in Nat
    BY <2>1, <1>4
  <2>3. /\ Len(Stream) \in Nat /\ Through(i) \in Nat /\ Through(i + 1) \in Nat
    BY <2>2, <1>1, StreamBytes, LenProperties
  <2>4. /\ Through(i + 1) = Through(i) + HeaderLen + length
        /\ \A j \in 1 .. HeaderLen + length : Stream[Through(i) + j] = <<i + 1, j>>
    BY <2>2, <1>1, StreamBytes
  <2>5. length \in Nat /\ HeaderLen \in Nat
    BY <2>2, <1>1, FragmentsType
  <2> HIDE DEF length
  <2> QED
    BY <2>1, <2>2, <2>3, <2>4, <2>5
<1>6. /\ fed \in Nat /\ fed <= Len(Stream) /\ input \in Seq(Bytes) /\ Len(input) \in Nat
      /\ remaining \in Nat /\ remaining <= length /\ record \in Seq(Bytes) /\ Len(record) \in Nat
      /\ delivered \in Seq(Seq(Bytes)) /\ Len(delivered) \in Nat
      /\ isLast \in BOOLEAN /\ remaining <= MaxFragment
      /\ Len(input) <= fed /\ MaxRecordSize \in Nat
  <2>1. /\ fed \in 0 .. Len(Stream) /\ input \in Seq(Bytes) /\ record \in Seq(Bytes)
        /\ delivered \in Seq(Seq(Bytes)) /\ isLast \in BOOLEAN
        /\ remaining \in 0 .. MaxFragment /\ Len(input) <= fed
    BY <1>1 DEF ReaderTypeOK, ReaderInv
  <2>2. /\ Len(input) \in Nat /\ Len(record) \in Nat /\ Len(delivered) \in Nat
    BY <2>1, LenProperties
  <2>3. remaining \in Nat /\ remaining <= length /\ fed \in Nat /\ fed <= Len(Stream)
        /\ remaining <= MaxFragment
    BY <2>1, <1>4, <1>5
  <2> QED
    BY <2>1, <2>2, <2>3
<1>7. /\ Available \in Nat /\ Available <= remaining /\ Available <= Len(input)
      /\ Available # remaining => Available = Len(input)
  BY <1>6 DEF Available
<1>8. /\ Payload(i + 1) \in Seq(Bytes) /\ Len(Payload(i + 1)) = length
      /\ \A j \in 1 .. length : Payload(i + 1)[j] = <<i + 1, HeaderLen + j>>
  BY <1>1, <1>5, WireBytes
<1> HIDE DEF length

\* What is taken is the next part of the payload.
<1>9. ASSUME NEW j \in 1 .. Len(input), j <= remaining
      PROVE  input[j] = Payload(i + 1)[had + j]
  <2>1. /\ j \in DOMAIN input
        /\ fed - Len(input) + j = Through(i) + (HeaderLen + (had + j))
        /\ HeaderLen + (had + j) \in 1 .. HeaderLen + length
        /\ had + j \in 1 .. length
    <3>1. /\ fed \in Nat /\ Len(input) \in Nat /\ remaining \in Nat /\ length \in Nat
          /\ HeaderLen \in Nat /\ Through(i) \in Nat /\ Through(i + 1) \in Nat
          /\ remaining <= length /\ j \in 1 .. Len(input) /\ j <= remaining
          /\ fed - Len(input) = Through(i + 1) - remaining
          /\ Through(i + 1) = Through(i) + HeaderLen + length
      BY <1>4, <1>5, <1>6, <1>9
    <3>2. j \in DOMAIN input
      BY <1>6, <1>9
    <3>3. fed - Len(input) + j = Through(i) + (HeaderLen + (had + j))
      <4> DEFINE t == Through(i)
                 u == Through(i + 1)
                 l == Len(input)
      <4>1. /\ t \in Nat /\ u \in Nat /\ l \in Nat /\ fed \in Nat /\ remaining \in Nat
            /\ length \in Nat /\ HeaderLen \in Nat /\ j \in Int
            /\ fed - l = u - remaining /\ u = t + HeaderLen + length
        BY <3>1
      <4> HIDE DEF t, u, l
      <4>2. fed - l + j = t + (HeaderLen + (had + j))
        BY <4>1
      <4> QED
        BY <4>2 DEF t, l
    <3>4. had + j \in 1 .. length /\ HeaderLen + (had + j) \in 1 .. HeaderLen + length
      BY <3>1
    <3> QED
      BY <3>1, <3>2, <3>3, <3>4
  <2>2. input[j] = Stream[fed - Len(input) + j]
    BY <2>1 DEF ReaderInv
  <2> HIDE DEF had
  <2>3. Stream[Through(i) + (HeaderLen + (had + j))] = <<i + 1, HeaderLen + (had + j)>>
    BY <2>1, <1>5
  <2> QED
    BY <2>1, <2>2, <2>3, <1>8
<1>10. /\ had \in Nat /\ had <= length /\ had + Available <= length
       /\ had + remaining = length
  BY <1>5, <1>6, <1>7
<1> DEFINE part == SubSeq(input, 1, Available)
           before == SubSeq(Payload(i + 1), 1, had)
<1>11. /\ part \in Seq(Bytes) /\ Len(part) = Available
       /\ \A j \in 1 .. Available : part[j] = input[j]
  <2>1. \A j \in 1 .. Available : input[j] \in Bytes
    BY <1>6, <1>7
  <2> QED
    BY <2>1, <1>6, <1>7, SubSeqProperties
<1>12. /\ before \in Seq(Bytes) /\ Len(before) = had
       /\ \A j \in 1 .. had : before[j] = Payload(i + 1)[j]
  <2> HIDE DEF had
  <2>1. \A j \in 1 .. had : Payload(i + 1)[j] \in Bytes
    BY <1>5, <1>8, <1>10
  <2> QED
    BY <2>1, <1>8, <1>10, SubSeqProperties
<1>13. before \o part = SubSeq(Payload(i + 1), 1, had + Available)
  <2> HIDE DEF had
  <2> DEFINE m == had + Available
             after == SubSeq(Payload(i + 1), 1, m)
  <2>1. m \in Nat /\ m <= length
    BY <1>7, <1>10
  <2>2. /\ after \in Seq(Bytes) /\ Len(after) = m
        /\ \A j \in 1 .. m : after[j] = Payload(i + 1)[j]
    <3> HIDE DEF m
    <3>1. \A j \in 1 .. m : Payload(i + 1)[j] \in Bytes
      BY <1>5, <1>8, <2>1
    <3> QED
      BY <3>1, <1>8, <2>1, SubSeqProperties
  <2> HIDE DEF after, before, part
  <2>3. /\ before \o part \in Seq(Bytes) /\ Len(before \o part) = m
        /\ \A j \in 1 .. m :
             (before \o part)[j] = IF j <= had THEN before[j] ELSE part[j - had]
    <3>1. /\ before \in Seq(Bytes) /\ part \in Seq(Bytes)
          /\ Len(before) = had /\ Len(part) = Available
      BY <1>11, <1>12
    <3> QED
      BY <3>1, ConcatProperties
  <2>4. ASSUME NEW j \in 1 .. m
        PROVE  (before \o part)[j] = after[j]
    <3>1. CASE j <= had
      <4>1. j \in 1 .. had
        BY <1>10, <3>1
      <4> QED
        BY <4>1, <3>1, <1>12, <2>2, <2>3
    <3>2. CASE ~(j <= had)
      <4> DEFINE k == j - had
      <4>1. k \in 1 .. Available /\ had + k = j /\ k \in 1 .. Len(input) /\ k <= remaining
        BY <1>6, <1>7, <1>10, <3>2
      <4>2. part[k] = Payload(i + 1)[had + k]
        <5> HIDE DEF k
        <5> QED
          BY <4>1, <1>9, <1>11
      <4> QED
        BY <4>1, <4>2, <3>2, <2>2, <2>3
    <3> QED
      BY <3>1, <3>2
  <2> QED
    BY <2>2, <2>3, <2>4, SeqEqual DEF after
<1>14. done \in 0 .. i
  BY <1>1, <1>4, RecordsEnd
<1>15. /\ Joined(done, i) \in Seq(Bytes)
       /\ Joined(done, i + 1) = Joined(done, i) \o Payload(i + 1)
       /\ Joined(i + 1, i + 1) = <<>>
  <2>1. /\ done \in 0 .. Len(fragments) /\ i \in done .. Len(fragments)
        /\ i + 1 \in i + 1 .. Len(fragments)
    BY <1>5, <1>14
  <2> HIDE DEF done
  <2> QED
    BY <2>1, <1>1, <1>4, <1>5, JoinedStep
<1> HIDE DEF part, before, done, had
<1>16. /\ taken = Joined(done, i) \o SubSeq(Payload(i + 1), 1, had + Available)
       /\ taken \in Seq(Bytes) /\ Len(taken) = Len(record) + Available
  <2>0. record = Joined(done, i) \o before
    BY <1>4 DEF before
  <2>1. taken = (Joined(done, i) \o before) \o part
    BY <2>0 DEF part
  <2>2. taken = Joined(done, i) \o (before \o part)
    <3> DEFINE joined == Joined(done, i)
    <3>1. joined \in Seq(Bytes) /\ before \in Seq(Bytes) /\ part \in Seq(Bytes)
      BY <1>11, <1>12, <1>15
    <3>2. taken = (joined \o before) \o part
      BY <2>1
    <3> HIDE DEF joined, taken
    <3>3. taken = joined \o (before \o part)
      BY <3>1, <3>2, ConcatAssociative
    <3> QED
      BY <3>3 DEF joined
  <2>3. taken = record \o part
    BY DEF part
  <2> HIDE DEF taken
  <2>4. taken \in Seq(Bytes) /\ Len(taken) = Len(record) + Available
    BY <2>3, <1>6, <1>11, ConcatProperties
  <2> QED
    BY <2>2, <2>4, <1>13
<1>17. ASSUME remaining = Available
       PROVE  taken = Joined(done, i + 1)
  <2>1. had + Available = Len(Payload(i + 1))
    BY <1>8, <1>10, <1>17
  <2>2. SubSeq(Payload(i + 1), 1, Len(Payload(i + 1))) = Payload(i + 1)
    BY <1>8, SubSeqFull
  <2>3. SubSeq(Payload(i + 1), 1, had + Available) = Payload(i + 1)
    BY <2>1, <2>2
  <2>4. taken = Joined(done, i) \o Payload(i + 1)
    BY <2>3, <1>16
  <2> QED
    BY <2>4, <1>15
<1> HIDE DEF taken
<1>18. Len(taken) <= MaxRecordSize /\ Len(taken) + (remaining - Available) <= MaxRecordSize
  <2>1. Len(taken) = Len(record) + Available /\ Len(record) + remaining <= MaxRecordSize
    BY <1>4, <1>16
  <2>2. /\ Len(record) \in Nat /\ Available \in Nat /\ remaining \in Nat
        /\ Available <= remaining /\ MaxRecordSize \in Nat
    BY <1>6, <1>7
  <2> QED
    BY <2>1, <2>2

\* What is left unread.
<1>19. /\ input' \in Seq(Bytes) /\ Len(input') = Len(input) - Available
       /\ \A j \in 1 .. Len(input) - Available : input'[j] = input[Available + j]
  <2> DEFINE a == Available + 1
             b == Len(input)
  <2>1. a \in Int /\ b \in Int /\ \A j \in a .. b : input[j] \in Bytes
    BY <1>6, <1>7
  <2>2. input' = SubSeq(input, a, b)
    BY <1>2
  <2>3. /\ (IF a <= b THEN b - a + 1 ELSE 0) = Len(input) - Available
        /\ b - a + 1 = Len(input) - Available
        /\ \A j \in Int : a + j - 1 = Available + j
        /\ \A j \in 1 .. Len(input) - Available : j \in Int
    BY <1>6, <1>7
  <2> HIDE DEF a, b
  <2>4. /\ SubSeq(input, a, b) \in Seq(Bytes)
        /\ Len(SubSeq(input, a, b)) = IF a <= b THEN b - a + 1 ELSE 0
        /\ \A j \in 1 .. b - a + 1 : SubSeq(input, a, b)[j] = input[a + j - 1]
    BY <2>1, SubSeqProperties
  <2> QED
    BY <2>2, <2>3, <2>4
<1>20. \A j \in DOMAIN input' : input'[j] = Stream'[fed' - Len(input') + j]
  <2>1. Stream' = Stream /\ fed' = fed
    BY <1>2, StreamKept
  <2>2. DOMAIN input' = 1 .. Len(input) - Available
    BY <1>19
  <2>3. ASSUME NEW j \in 1 .. Len(input) - Available
        PROVE  input'[j] = Stream[fed - Len(input') + j]
    <3>1. /\ Available + j \in DOMAIN input
          /\ fed - Len(input') + j = fed - Len(input) + (Available + j)
      BY <1>6, <1>7, <1>19
    <3>2. input[Available + j] = Stream[fed - Len(input) + (Available + j)]
      BY <3>1 DEF ReaderInv
    <3> QED
      BY <3>1, <3>2, <1>19
  <2> QED
    BY <2>1, <2>2, <2>3
<1>21. /\ Len(input') <= fed' /\ Len(input') \in Nat
       /\ fed' - Len(input') = Through(i + 1) - remaining'
       /\ remaining' \in 0 .. MaxFragment /\ remaining' \in 0 .. length
       /\ remaining = Available => fed' - Len(input') = Through(i + 1)
       /\ length - remaining' = had + Available
  <2>1. /\ fed' = fed /\ Len(input') = Len(input) - Available
        /\ remaining' = remaining - Available
        /\ fed - Len(input) = Through(i + 1) - remaining
        /\ had + remaining = length /\ had \in Nat
    BY <1>2, <1>4, <1>10, <1>19
  <2>2. /\ fed \in Nat /\ Len(input) \in Nat /\ remaining \in Nat /\ length \in Nat
        /\ Available \in Nat /\ Available <= remaining /\ Available <= Len(input)
        /\ remaining <= MaxFragment /\ Len(input) <= fed /\ remaining <= length
        /\ Through(i + 1) \in Nat
    BY <1>5, <1>6, <1>7
  <2> QED
    BY <2>1, <2>2
<1>22. UNCHANGED fragments /\ Stream' = Stream
  BY <1>2, StreamKept
<1>23. ASSUME ReaderTypeOK',
              \A k \in DOMAIN delivered' :
                delivered'[k] = RecordBytes(k) /\ Len(delivered'[k]) <= MaxRecordSize,
              Len(record') <= MaxRecordSize,
              status' = "incomplete" => inFragment' /\ remaining' > 0 /\ input' = <<>>,
              NEW m \in 0 .. Len(fragments), ReadTo(m)'
       PROVE  ReaderInv'
  <2>1. \A k : RecordBytes(k)' = RecordBytes(k)
    BY <1>22, StreamKept
  <2> QED
    BY <2>1, <1>20, <1>21, <1>22, <1>23 DEF ReaderInv
<1>24. ASSUME record' \in Seq(Bytes), delivered' \in Seq(Seq(Bytes)),
              status' \in {"running", "complete", "incomplete", "toolarge"}
       PROVE  ReaderTypeOK'
  <2>1. inFragment' \in BOOLEAN /\ isLast' \in BOOLEAN /\ fed' \in 0 .. Len(Stream')
    BY <1>1, <1>2, <1>22 DEF ReaderTypeOK
  <2> QED
    BY <2>1, <1>1, <1>19, <1>21, <1>22, <1>24 DEF ReaderTypeOK
<1>25. \A k \in DOMAIN delivered :
         delivered[k] = RecordBytes(k) /\ Len(delivered[k]) <= MaxRecordSize
  BY DEF ReaderInv

\* The record is whole: it is the next one.
<1>26. CASE remaining = Available /\ isLast
  <2>1. /\ record' = <<>> /\ delivered' = Append(delivered, taken)
        /\ status' = "complete" /\ inFragment' = FALSE
    BY <1>2, <1>26
  <2> DEFINE d == Len(delivered)
  <2>2. /\ CountTo(Lasts, i + 1) = d + 1
        /\ RecordEnds[d + 1] = i + 1 /\ d \in Nat
    <3>1. i \in 0 .. Len(fragments) - 1 /\ fragments[i + 1].last
      BY <1>4, <1>5, <1>26
    <3> QED
      BY <3>1, <1>1, <1>4, <1>6, RecordsEnd
  <2>3. taken = RecordBytes(d + 1)
    BY <2>2, <1>17, <1>26 DEF RecordBytes, done
  <2>4. /\ delivered' \in Seq(Seq(Bytes)) /\ Len(delivered') = d + 1
        /\ DOMAIN delivered' = 1 .. d + 1
        /\ \A k \in 1 .. d : delivered'[k] = delivered[k]
        /\ delivered'[d + 1] = taken
    <3>1. delivered \in Seq(Seq(Bytes)) /\ taken \in Seq(Bytes)
      BY <1>6, <1>16
    <3> QED
      BY <3>1, <2>1, AppendProperties
  <2>5. ASSUME NEW k \in DOMAIN delivered'
        PROVE  delivered'[k] = RecordBytes(k) /\ Len(delivered'[k]) <= MaxRecordSize
    <3>1. CASE k = d + 1
      BY <3>1, <2>3, <2>4, <1>18
    <3>2. CASE k # d + 1
      <4>1. k \in 1 .. d /\ k \in DOMAIN delivered
        BY <3>2, <2>2, <2>4, <1>6
      <4> QED
        BY <4>1, <2>4, <1>25
    <3> QED
      BY <3>1, <3>2
  <2>6. EndBefore(Len(delivered') + 1) = i + 1
    <3>1. Len(delivered') + 1 # 1 /\ (Len(delivered') + 1) - 1 = d + 1
      BY <2>2, <2>4
    <3> QED
      BY <3>1, <2>2 DEF EndBefore
  <2>7. <<>> \in Seq(Bytes) /\ Len(<<>>) = 0
    BY EmptySeq
  <2>8. ReadTo(i + 1)'
    <3>1. EndBefore(Len(delivered) + 1)' = i + 1
      BY <2>6, <1>22, StreamKept DEF EndBefore
    <3> QED
      BY <3>1, <2>1, <2>2, <2>4, <1>15, <1>21, <1>22, <1>26, StreamKept DEF ReadTo
  <2>9. Len(record') <= MaxRecordSize
    BY <2>1, <2>7, <1>6
  <2> QED
    BY <2>1, <2>4, <2>5, <2>7, <2>8, <2>9, <1>5, <1>23, <1>24

\* The fragment is whole, the record is not.
<1>27. CASE remaining = Available /\ ~isLast
  <2>1. /\ record' = taken /\ delivered' = delivered
        /\ status' = "running" /\ inFragment' = FALSE
    BY <1>2, <1>27
  <2>2. CountTo(Lasts, i + 1) = Len(delivered)
    <3>1. i \in 0 .. Len(fragments) - 1 /\ ~fragments[i + 1].last
      BY <1>4, <1>5, <1>27
    <3> QED
      BY <3>1, <1>1, <1>4, RecordsEnd
  <2>3. ReadTo(i + 1)'
    <3>1. EndBefore(Len(delivered) + 1)' = done
      BY <2>1, <1>22, StreamKept DEF EndBefore, done
    <3> QED
      BY <3>1, <2>1, <2>2, <1>17, <1>21, <1>22, <1>27, StreamKept DEF ReadTo
  <2> QED
    BY <2>1, <2>3, <1>5, <1>6, <1>16, <1>18, <1>23, <1>24, <1>25

\* Part of the payload has not arrived.
<1>28. CASE remaining # Available
  <2>1. /\ record' = taken /\ delivered' = delivered
        /\ status' = "incomplete" /\ inFragment' = TRUE
    BY <1>2, <1>28
  <2>2. remaining' > 0 /\ input' = <<>>
    <3>1. Len(input') = 0 /\ remaining' > 0
      BY <1>2, <1>6, <1>7, <1>19, <1>28
    <3> QED
      BY <3>1, <1>19, EmptySeq
  <2>3. ReadTo(i)'
    <3>1. EndBefore(Len(delivered) + 1)' = done
      BY <2>1, <1>22, StreamKept DEF EndBefore, done
    <3>2. record' = Joined(done, i) \o SubSeq(Payload(i + 1), 1, length - remaining')
      <4>1. length - remaining' = had + Available
        BY <1>21
      <4> QED
        BY <4>1, <2>1, <1>16
    <3>3. Len(record') + remaining' <= MaxRecordSize
      BY <2>1, <1>2, <1>18
    <3>4. isLast' = fragments[i + 1].last
      BY <1>2, <1>4
    <3> QED
      BY <3>1, <3>2, <3>3, <3>4, <2>1, <1>4, <1>21, <1>22, StreamKept DEF ReadTo, length
  <2> QED
    BY <2>1, <2>2, <2>3, <1>6, <1>16, <1>18, <1>23, <1>24, <1>25
<1> QED
  BY <1>6, <1>26, <1>27, <1>28

\* The invariant holds in every state of the reader.
LEMMA ReaderAlways == ReaderSpec => []ReaderInv
<1>1. ReaderInit => ReaderInv
  BY ReaderStarts
<1>2. ReaderInv /\ [ReaderNext]_streamVars => ReaderInv'
  <2> SUFFICES ASSUME ReaderInv, [ReaderNext]_streamVars
               PROVE  ReaderInv'
    OBVIOUS
  <2>1. ASSUME NEW n \in 0 .. MaxChunk, Feed(n)
        PROVE  ReaderInv'
    BY <2>1, FeedKeeps
  <2>2. CASE HeaderShort
    BY <2>2, HeaderShortKeeps
  <2>3. CASE ReadHeader
    BY <2>3, ReadHeaderKeeps
  <2>4. CASE ConsumePayload
    BY <2>4, ConsumePayloadKeeps
  <2>5. CASE UNCHANGED streamVars
    <3>1. /\ UNCHANGED <<fragments, fed, input, record, remaining, inFragment,
                         isLast, status, delivered>>
          /\ Stream' = Stream /\ \A k : RecordBytes(k)' = RecordBytes(k)
      BY <2>5, StreamKept DEF streamVars, readerVars
    <3>2. PICK i \in 0 .. Len(fragments) : ReadTo(i)
      BY DEF ReaderInv
    <3>3. ReadTo(i)'
      BY <3>1, <3>2, StreamKept DEF ReadTo
    <3>4. ReaderTypeOK'
      BY <3>1 DEF ReaderInv, ReaderTypeOK
    <3> QED
      BY <3>1, <3>2, <3>3, <3>4 DEF ReaderInv
  <2> QED
    BY <2>1, <2>2, <2>3, <2>4, <2>5 DEF ReaderNext
<1> QED
  BY <1>1, <1>2, PTL DEF ReaderSpec

\* What the invariant says of the records returned, of the bytes a reader that
\* waits has been given, and of a record refused.
LEMMA ReadSoFar ==
  ASSUME ReaderInv
  PROVE  RecordsInOrder /\ IncompleteMeansMissing /\ LimitExact
<1> USE ReaderAssumption
<1>1. ReaderTypeOK /\ fragments \in BoundedSeq(Fragments, MaxFragments)
  BY DEF ReaderInv, ReaderTypeOK
<1>2. PICK i \in 0 .. Len(fragments) : ReadTo(i)
  BY DEF ReaderInv
<1> DEFINE d == Len(delivered)
<1>3. /\ d = CountTo(Lasts, i) /\ d \in Nat
      /\ d <= Len(RecordEnds) /\ Len(RecordEnds) \in Nat
      /\ \A k \in 1 .. Len(RecordEnds) : RecordEnds[k] <= i <=> k <= d
      /\ \A k \in 1 .. Len(RecordEnds) : RecordEnds[k] \in 1 .. Len(fragments)
      /\ EndBefore(d + 1) \in 0 .. i
  <2>1. d = CountTo(Lasts, i)
    BY <1>2 DEF ReadTo
  <2> HIDE DEF d
  <2> QED
    BY <2>1, <1>1, RecordsEnd
<1>4. Len(fragments) \in Nat
  BY <1>1, FragmentsType
<1>5. RecordsInOrder
  BY <1>3 DEF RecordsInOrder, ReaderInv
<1>6. ASSUME status = "incomplete", d < Len(RecordEnds)
      PROVE  fed < EndOfRecord(d + 1)
  <2> DEFINE e == RecordEnds[d + 1]
  <2>1. e \in i + 1 .. Len(fragments) /\ e \in Nat
    <3>1. d + 1 \in 1 .. Len(RecordEnds) /\ ~(d + 1 <= d)
      BY <1>3, <1>6
    <3> DEFINE K == d + 1
    <3>2. \A k \in 1 .. Len(RecordEnds) :
            ~(k <= d) => ~(RecordEnds[k] <= i) /\ RecordEnds[k] \in 1 .. Len(fragments)
      BY <1>3
    <3>3. K \in 1 .. Len(RecordEnds) /\ ~(K <= d) /\ e = RecordEnds[K]
      BY <3>1
    <3> HIDE DEF K, e, d
    <3>4. ~(e <= i) /\ e \in 1 .. Len(fragments)
      BY <3>2, <3>3
    <3> QED
      BY <3>4, <1>4
  <2>2. /\ i \in 0 .. Len(fragments) - 1 /\ i + 1 \in 0 .. Len(fragments)
        /\ e \in 0 .. Len(fragments) /\ i + 1 <= e /\ i + 1 \in 1 .. Len(fragments)
    BY <2>1, <1>4
  <2>3. EndOfRecord(d + 1) = Through(e)
    <3>1. \A j \in 1 .. e : j \in DOMAIN fragments
      BY <2>1, <1>1, <1>4, FragmentsType
    <3>2. [j \in 1 .. e |-> Wire(j)] = [j \in 1 .. e |-> Wires[j]]
      BY <3>1 DEF Wires
    <3> QED
      BY <3>2 DEF EndOfRecord, Through
  <2> HIDE DEF e
  <2>4. Through(i + 1) <= Through(e)
    BY <2>2, <1>1, StreamBytes
  <2>5. /\ Through(i + 1) = Through(i) + HeaderLen + fragments[i + 1].length
        /\ Through(i) \in Nat /\ Through(i + 1) \in Nat /\ Through(e) \in Nat
        /\ fragments[i + 1].length \in Nat
    BY <2>2, <1>1, StreamBytes, FragmentsType
  <2>6. fed \in Nat /\ input \in Seq(Bytes) /\ Len(input) \in Nat
    BY <1>1 DEF ReaderTypeOK
  <2>7. fed < Through(i + 1)
    <3>1. CASE inFragment
      <4>1. /\ remaining > 0 /\ input = <<>>
            /\ fed - Len(input) = Through(i + 1) - remaining
        BY <3>1, <1>2, <1>6 DEF ReaderInv, ReadTo
      <4>2. Len(input) = 0
        BY <4>1, EmptySeq
      <4>3. remaining \in Nat
        BY <1>1 DEF ReaderTypeOK
      <4> QED
        BY <4>1, <4>2, <4>3, <2>5, <2>6
    <3>2. CASE ~inFragment
      <4>1. Len(input) < HeaderLen /\ fed - Len(input) = Through(i)
        BY <3>2, <1>2, <1>6 DEF ReaderInv, ReadTo
      <4> QED
        BY <4>1, <2>5, <2>6
    <3> QED
      BY <3>1, <3>2
  <2> QED
    BY <2>3, <2>4, <2>5, <2>6, <2>7
<1>7. IncompleteMeansMissing
  BY <1>6 DEF IncompleteMeansMissing
<1>8. ASSUME status = "toolarge"
      PROVE  \E hi \in EndBefore(d + 1) + 1 .. Len(fragments) :
               Len(Joined(EndBefore(d + 1), hi)) > MaxRecordSize
  <2> DEFINE done == EndBefore(d + 1)
  <2>1. /\ i < Len(fragments) /\ record = Joined(done, i)
        /\ Len(record) + fragments[i + 1].length > MaxRecordSize
    BY <1>2, <1>8 DEF ReadTo
  <2>2. /\ done \in 0 .. Len(fragments) /\ i \in done .. Len(fragments)
        /\ i + 1 \in done + 1 .. Len(fragments) /\ i + 1 \in 1 .. Len(fragments)
    <3>1. done \in 0 .. i /\ i < Len(fragments)
      BY <2>1, <1>3
    <3> HIDE DEF done
    <3> QED
      BY <3>1, <1>4
  <2> HIDE DEF done
  <2>3. Joined(done, i + 1) = Joined(done, i) \o Payload(i + 1)
    BY <2>1, <2>2, <1>1, JoinedStep
  <2>4. /\ Payload(i + 1) \in Seq(Bytes) /\ Len(Payload(i + 1)) = fragments[i + 1].length
        /\ record \in Seq(Bytes)
    BY <2>2, <1>1, WireBytes DEF ReaderTypeOK
  <2>5. Len(record \o Payload(i + 1)) = Len(record) + Len(Payload(i + 1))
    BY <2>4, ConcatProperties
  <2>6. Len(Joined(done, i + 1)) > MaxRecordSize
    BY <2>1, <2>3, <2>4, <2>5
  <2> QED
    BY <2>2, <2>6 DEF done
<1>9. LimitExact
  BY <1>8 DEF LimitExact, ReaderInv
<1> QED
  BY <1>5, <1>7, <1>9

\* However the peer fragments its records and however the bytes are chunked,
\* the records read returns are those of the stream, in order, byte for byte,
\* for limits and headers of any size (record.rs 63-116).
THEOREM InOrder == ReaderSpec => []RecordsInOrder
<1>1. ReaderInv => RecordsInOrder
  BY ReadSoFar
<1> QED
  BY <1>1, ReaderAlways, PTL

\* A reader that reports Incomplete has not been given the next record in
\* full, whatever was left over from the records before (record.rs 66-116).
THEOREM Missing == ReaderSpec => []IncompleteMeansMissing
<1>1. ReaderInv => IncompleteMeansMissing
  BY ReadSoFar
<1> QED
  BY <1>1, ReaderAlways, PTL

\* Nothing longer than the limit is kept or returned, and a record is refused
\* only when it is longer (record.rs 83-88).
THEOREM Limit == ReaderSpec => []LimitExact
<1>1. ReaderInv => LimitExact
  BY ReadSoFar
<1> QED
  BY <1>1, ReaderAlways, PTL
=============================================================================
