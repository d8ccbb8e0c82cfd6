--------------------------- MODULE CompoundBuilder ---------------------------
(***************************************************************************)
(* CompoundBuilder (nfs4-client, compound.rs): a COMPOUND put together one *)
(* operation at a time, as a value of the layouts of NfsWire: a struct is  *)
(* its fields with & between them, an enum <<discriminant, payload>>, a    *)
(* u64 its two words and a string or opaque its bytes.                     *)
(***************************************************************************)
EXTENDS Integers, Sequences, Fields

Unit == <<>>
False == <<0, Unit>>

\* new: no tag, no operations.
New == [tag |-> <<>>, ops |-> <<>>]

Tag(b, tag) == [b EXCEPT !.tag = tag]

\* Push the operation of this number with these arguments.
Push(b, op, args) == [b EXCEPT !.ops = Append(@, <<op, args>>)]

-----------------------------------------------------------------------------
\* sa_cachethis is always false: the server need not keep the reply.
Sequence(b, session, seq, slot, highest) ==
  Push(b, 53, session & seq & slot & highest & False)

PutRootFh(b) == Push(b, 24, Unit)
PutFh(b, fh) == Push(b, 22, fh)
Lookup(b, name) == Push(b, 15, name)
GetFh(b) == Push(b, 10, Unit)
GetAttr(b, request) == Push(b, 9, request)
SetAttr(b, stateid, fattr) == Push(b, 34, stateid & fattr)

\* An existing file by name, denying nothing; the server knows the client by
\* its session.
OpenByName(b, name, access, owner) ==
  Push(b, 18, 0 & access & 0 & (<<0, 0>> & owner) & <<0, Unit>> & <<0, name>>)

Close(b, stateid) == Push(b, 4, 0 & stateid)
Read(b, stateid, offset, count) == Push(b, 25, stateid & offset & count)
Write(b, stateid, offset, data, stable) ==
  Push(b, 38, stateid & offset & stable & data)
ReadDir(b, cookie, verf, dircount, maxcount, request) ==
  Push(b, 26, cookie & verf & dircount & maxcount & request)
Remove(b, target) == Push(b, 28, target)
Rename(b, old, new) == Push(b, 29, old & new)

\* No state protection, no implementation id.
ExchangeId(b, owner, flags) ==
  Push(b, 42, owner[1] & owner[2] & flags & <<0, Unit>> & <<>>)

\* One way of callback security: none.
CreateSession(b, client, seq, flags, fore, back) ==
  Push(b, 43, client & seq & flags & fore & back & 0 & <<(<<0, Unit>> & 0)>>)

DestroySession(b, session) == Push(b, 44, session)
ReclaimComplete(b, oneFs) == Push(b, 58, oneFs)

\* The COMPOUND of minor version 1.
Build(b) == b.tag & 1 & b.ops
=============================================================================
