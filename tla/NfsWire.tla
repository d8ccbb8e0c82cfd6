------------------------------ MODULE NfsWire ------------------------------
(***************************************************************************)
(* The messages of the client on the wire: the RPC messages of onc-rpc     *)
(* around the NFSv4.1 COMPOUND of nfs4-types, as layouts of Xdr, and one   *)
(* message on its way from its encoder to its decoder.                     *)
(*                                                                         *)
(* The client decodes replies.  A call is decoded by the server, which is  *)
(* outside the repository; the arguments' own decoders exist here, and     *)
(* NfsArgOp4 is taken to be told apart by the same operation numbers.      *)
(*                                                                         *)
(* A result is its status, followed by its data when the status is Ok, so  *)
(* it is an enum of statuses.  Of the statuses the model has a few: the    *)
(* code tells them apart by is_ok only.                                    *)
(***************************************************************************)
EXTENDS Xdr

CONSTANTS
  ErrorStatuses,  \* the NfsStat4 values of the model, beside Ok
  CallValues,     \* bound: calls sent, of the values of RpcCall
  ReplyValues,    \* bound: replies sent, of those of RpcReply
  Paths,          \* bound: the components resolve_path is given
  DamagedWords,   \* bound: what a damaged word may read
  Trailing        \* bound: bytes that may follow a message

-----------------------------------------------------------------------------
\* Base types

Blob == Opaque(MaxWord)
String == Blob
NfsFh4 == Opaque(128)
ClientId4 == U64
Verifier4 == Fixed(8)
SessionId4 == Fixed(16)
StateId4 == U32 ** Fixed(12)
NfsTime4 == U64 ** U32
ChangeInfo4 == Bool ** U64 ** U64
Bitmap4 == Vec(U32)
Fattr4 == Bitmap4 ** Blob

Status == Arm({0} \cup ErrorStatuses, Void)
Result(ok) == Arm({0}, ok) ++ Arm(ErrorStatuses, Void)

-----------------------------------------------------------------------------
\* Session operations

ImplId4 == String ** String ** NfsTime4
SpNone == Const(0)
ChannelAttrs4 == U32 ** U32 ** U32 ** U32 ** U32 ** U32 ** Vec(U32)
\* Flavor AUTH_NONE and a length, which is not looked at.
CallbackSecParms4 == Const(0) ** U32

ExchangeId4args == Verifier4 ** Blob ** U32 ** SpNone ** Vec(ImplId4)
ExchangeId4resok ==
  ClientId4 ** U32 ** U32 ** SpNone ** (U64 ** Blob) ** Blob ** Vec(ImplId4)
CreateSession4args ==
  ClientId4 ** U32 ** U32 ** ChannelAttrs4 ** ChannelAttrs4 ** U32
    ** Vec(CallbackSecParms4)
CreateSession4resok ==
  SessionId4 ** U32 ** U32 ** ChannelAttrs4 ** ChannelAttrs4
Sequence4args == SessionId4 ** U32 ** U32 ** U32 ** Bool
Sequence4resok == SessionId4 ** U32 ** U32 ** U32 ** U32 ** U32
DestroySession4args == SessionId4
ReclaimComplete4args == Bool

-----------------------------------------------------------------------------
\* File handle operations

PutFh4args == NfsFh4
Lookup4args == String
GetFh4resok == NfsFh4
GetAttr4args == Bitmap4
GetAttr4resok == Fattr4
SetAttr4args == StateId4 ** Fattr4
SetAttr4resok == Bitmap4

-----------------------------------------------------------------------------
\* Data operations

OpenHow4 == Const(0) ++ Arm({1}, Const(0) ** Fattr4)
OpenClaim4 == Arm({0}, String) ++ Const(4)
OpenDelegation4 == Const(0)
OpenOwner4 == ClientId4 ** Blob

Open4args == U32 ** U32 ** U32 ** OpenOwner4 ** OpenHow4 ** OpenClaim4
Open4resok == StateId4 ** ChangeInfo4 ** U32 ** Bitmap4 ** OpenDelegation4
Close4args == U32 ** StateId4
Close4resok == StateId4
Read4args == StateId4 ** U64 ** U32
Read4resok == Bool ** Blob
Write4args == StateId4 ** U64 ** U32 ** Blob
Write4resok == U32 ** U32 ** Verifier4
ReadDir4args == U64 ** Verifier4 ** U32 ** U32 ** Bitmap4
ReadDir4resok == Verifier4 ** Chain(U64 ** String ** Fattr4) ** Bool
Remove4args == String
Remove4resok == ChangeInfo4
Rename4args == String ** String
Rename4resok == ChangeInfo4 ** ChangeInfo4

-----------------------------------------------------------------------------
\* COMPOUND

\* Operations by number, with their arguments, and with what follows the
\* status of a result when it is Ok.
NfsArgOp4 ==
  Arm({4}, Close4args) ++ Arm({9}, GetAttr4args) ++ Arm({10}, Void)
    ++ Arm({15}, Lookup4args) ++ Arm({18}, Open4args) ++ Arm({22}, PutFh4args)
    ++ Arm({24}, Void) ++ Arm({25}, Read4args) ++ Arm({26}, ReadDir4args)
    ++ Arm({28}, Remove4args) ++ Arm({29}, Rename4args)
    ++ Arm({34}, SetAttr4args) ++ Arm({38}, Write4args)
    ++ Arm({42}, ExchangeId4args) ++ Arm({43}, CreateSession4args)
    ++ Arm({44}, DestroySession4args) ++ Arm({53}, Sequence4args)
    ++ Arm({58}, ReclaimComplete4args)

NfsResOp4 ==
  Arm({4}, Result(Close4resok)) ++ Arm({9}, Result(GetAttr4resok))
    ++ Arm({10}, Result(GetFh4resok)) ++ Arm({15}, Result(Void))
    ++ Arm({18}, Result(Open4resok)) ++ Arm({22}, Result(Void))
    ++ Arm({24}, Result(Void)) ++ Arm({25}, Result(Read4resok))
    ++ Arm({26}, Result(ReadDir4resok)) ++ Arm({28}, Result(Remove4resok))
    ++ Arm({29}, Result(Rename4resok)) ++ Arm({34}, Result(SetAttr4resok))
    ++ Arm({38}, Result(Write4resok)) ++ Arm({42}, Result(ExchangeId4resok))
    ++ Arm({43}, Result(CreateSession4resok)) ++ Arm({44}, Result(Void))
    ++ Arm({53}, Result(Sequence4resok)) ++ Arm({58}, Result(Void))

Compound4args == String ** U32 ** Vec(NfsArgOp4)
Compound4res == Status ** String ** Vec(NfsResOp4)

-----------------------------------------------------------------------------
\* RPC

AuthFlavor == Auth(U32 ** String ** U32 ** U32 ** Vec(U32))

AcceptStatus ==
  Arm({0}, Body(Compound4res)) ++ Arm({2}, U32 ** U32) ++ Arm({1, 3, 4, 5}, Void)

\* Message type CALL and RPC version 2; REPLY, and accepted.
CallHeader == U32 ** Const(0) ** Const(2) ** U32 ** U32 ** U32
ReplyHeader == U32 ** Const(1) ** Const(0)

RpcCall == CallHeader ** AuthFlavor ** AuthFlavor ** Body(Compound4args)
RpcReply == ReplyHeader ** AuthFlavor ** AcceptStatus

\* There is memory for the operations of every request.
ASSUME WireAssumption ==
  /\ ErrorStatuses \subseteq 1 .. MaxWord
  /\ CallValues \subseteq RpcCall.values
  /\ ReplyValues \subseteq RpcReply.values
  /\ Paths \subseteq Seq(String.values)
  /\ \A path \in Paths : Len(path) + 3 <= Room
  /\ DamagedWords \subseteq Nat
  /\ Trailing \in Bytes

-----------------------------------------------------------------------------
\* The requests of the client, as it builds them

B == INSTANCE CompoundBuilder

Name == <<7, 1>>
Verifier == [i \in 1 .. 8 |-> i]
SessionId == [i \in 1 .. 16 |-> 16 - i]
ClientId == <<18, 52>>
StateId == 1 & [i \in 1 .. 12 |-> i]
FileHandle == <<12, 34>>
TypeAndSize == <<26>>  \* a Bitmap4 of one word

InSession(tag) == B!Sequence(B!Tag(B!New, tag), SessionId, 258, 1, 1)

ExchangeIdRequest == B!ExchangeId(B!Tag(B!New, Name), Verifier & Name, 0)

\* The channel connect asks for, in both directions.
DefaultChannel == 0 & 1048576 & 1048576 & 65536 & 64 & 32 & <<>>

CreateSessionRequest ==
  B!CreateSession(B!Tag(B!New, Name), ClientId, 1, 0, DefaultChannel, DefaultChannel)

\* Mutant: RECLAIM_COMPLETE on its own.
ReclaimAlone == B!ReclaimComplete(B!Tag(B!New, Name), B!False)

ReclaimRequest == B!ReclaimComplete(InSession(Name), B!False)
DestroyRequest == B!DestroySession(B!Tag(B!New, Name), SessionId)
KeepaliveRequest == InSession(Name)

\* resolve_path: a LOOKUP per component.
ResolveRequest(components) ==
  LET lookups[n \in 0 .. Len(components)] ==
        IF n = 0 THEN B!PutRootFh(InSession(Name))
        ELSE B!Lookup(lookups[n - 1], components[n])
  IN  B!GetFh(lookups[Len(components)])

\* What a mount asks of an open file or a directory; only the builder's
\* methods are there yet, not their caller.
FileRequest == B!PutFh(InSession(<<>>), FileHandle)
FileRequests ==
  {B!GetAttr(FileRequest, TypeAndSize),
   B!SetAttr(FileRequest, StateId, TypeAndSize & <<0, 0, 0, 9>>),
   B!GetFh(B!OpenByName(FileRequest, Name, 1, Name)),
   B!Close(FileRequest, StateId),
   B!Read(FileRequest, StateId, <<1, 4096>>, 1048576),
   B!Write(FileRequest, StateId, <<0, 4096>>, <<1, 2, 3>>, 2),
   B!ReadDir(FileRequest, <<0, 0>>, Verifier, 4096, 65536, TypeAndSize),
   B!Remove(FileRequest, Name),
   B!Rename(FileRequest, Name, <<7>>)}

Requests ==
  {ExchangeIdRequest, CreateSessionRequest, ReclaimRequest, DestroyRequest,
   KeepaliveRequest}
  \cup {ResolveRequest(path) : path \in Paths} \cup FileRequests

\* AUTH_NONE, or AUTH_SYS of a user with two groups.
AuthNone == <<0, <<>>>>
AuthSys == <<1, 1 & Name & 1000 & 1000 & <<4, 27>>>>

\* Nfs4Client::compound and TcpTransport::call: program, version, procedure,
\* the client's credential and no verifier around the COMPOUND.
CallOf(request, cred) ==
  (258 & <<0, <<>>>> & <<2, <<>>>> & 100003 & 4 & 1) & cred & AuthNone & B!Build(request)

ClientCalls == {CallOf(request, cred) : request \in Requests, cred \in {AuthNone, AuthSys}}

-----------------------------------------------------------------------------
\* One message

VARIABLES
  layout,   \* what is sent: "call" or "reply", any value of the layout, or
            \* "request", a call as the client builds it
  sent,     \* the value
  wire,     \* its bytes, as they are or as they arrive
  damage,   \* what happened to them on the way
  received  \* what the decoder made of them; Unread before

vars == <<layout, sent, wire, damage, received>>

Layout(l) == IF l = "reply" THEN RpcReply ELSE RpcCall
Values == [call |-> CallValues, reply |-> ReplyValues, request |-> ClientCalls]
Unread == Stop("unread")

Init ==
  /\ layout \in DOMAIN Values
  /\ sent \in Values[layout]
  /\ wire = Layout(layout).enc[sent]
  /\ damage = "none"
  /\ received = Unread

\* The message arrives as it was sent.
Arrives ==
  /\ received = Unread
  /\ received' = Layout(layout).dec[wire]
  /\ UNCHANGED <<layout, sent, wire, damage>>

\* Something else arrives: b, damaged in this way.
ArrivesAs(b, how) ==
  /\ received = Unread
  /\ wire' = b
  /\ damage' = how
  /\ received' = Layout(layout).dec[b]
  /\ UNCHANGED <<layout, sent>>

\* The record ends early.
ArrivesCut == \E n \in 0 .. Len(wire) - 1 : ArrivesAs(SubSeq(wire, 1, n), "cut")

\* More bytes follow in the record.
ArrivesLong == ArrivesAs(wire \o Trailing, "long")

\* A word reads something else.
ArrivesChanged ==
  \E i \in 1 .. Len(wire) \div 4 : \E w \in DamagedWords :
    /\ Word(w) # SubSeq(wire, 4 * i - 3, 4 * i)
    /\ ArrivesAs(SubSeq(wire, 1, 4 * i - 4) \o Word(w) \o From(wire, 4 * i),
                 "changed")

Next ==
  \/ Arrives
  \/ ArrivesCut
  \/ ArrivesLong
  \/ ArrivesChanged

Spec == Init /\ [][Next]_vars

-----------------------------------------------------------------------------
\* Properties

\* Every message is read back as it was sent, also when other bytes follow
\* in the record: each of the nested decoders stops exactly where its
\* encoder did, so that no operation of a COMPOUND is read out of place.
ReadAsSent ==
  damage \in {"none", "long"} /\ received # Unread =>
    received.out = "ok" /\ received.val = sent

\* Every request of the client, as its server reads it off the wire, keeps the
\* rules of a session: minor version 1; SEQUENCE first and nowhere else, but
\* for the three operations that stand alone because no session exists yet or
\* it is about to go; and no operation on a file before one that names the
\* file (client.rs 66-68, 112-120, 167-171, 188-190, mount.rs 80-88,
\* keepalive.rs 57-59).
RequestsKeepOrder ==
  layout = "request" /\ damage = "none" /\ received.out = "ok" =>
    LET compound == received.val[2]
        ops == [i \in DOMAIN compound[2] |-> compound[2][i][1]]
    IN  /\ compound[1][2] = 1
        /\ \/ Len(ops) = 1 /\ ops[1] \in {42, 43, 44}
           \/ \A i \in DOMAIN ops : (ops[i] = 53) <=> (i = 1)
        /\ \A i \in DOMAIN ops :
             ops[i] \notin {22, 24, 42, 43, 44, 53, 58} =>
               \E j \in 1 .. i - 1 : ops[j] \in {22, 24}

\* A message that ends early is refused with an error wherever the cut is,
\* in the RPC header, between two operations, or inside padding; it is
\* never read as a shorter message.
CutIsRefused == damage = "cut" => received.out = "err"

\* The bytes begin with AUTH_NONE and a length beyond their end.
Overruns(b) ==
  Len(b) >= 8 /\ SubSeq(b, 1, 4) = Word(0) /\ Number(From(b, 4)) > Len(b) - 8

\* Whatever one word of a message is changed to, decoding it ends with a
\* value or an error, but for two cases.  It panics at the length of an
\* AUTH_NONE credential or verifier beyond the end of the message (auth.rs
\* 51-56).  And it ends the process at four bytes of the message, read as the
\* count of a vector, that ask for more items than there is memory for
\* (variable.rs 107): the changed word itself, or what a change of the length
\* or kind of something before it makes the decoder take for a count.
ChangeIsContained ==
  /\ received.out = "panic" =>
       IF layout = "reply" THEN Overruns(From(wire, 12))
       ELSE LET cred == From(wire, 24)
            IN  Overruns(cred) \/ Overruns(AuthFlavor.dec[cred].rest)
  /\ received.out = "abort" =>
       \E n \in 0 .. Len(wire) - 4 :
         received.rest = From(wire, n) /\ Number(From(wire, n)) > Room
=============================================================================
