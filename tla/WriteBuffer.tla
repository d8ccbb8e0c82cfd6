---------------------------- MODULE WriteBuffer ----------------------------
(***************************************************************************)
(* WriteBuf (nfs-mount, write_buf.rs): the write-coalescing buffer of one  *)
(* open file.  write and flush hand a FlushData to their caller, which     *)
(* sends it as a WRITE before the next call; no code in the repository     *)
(* does so yet, and the model lets the WRITE succeed at once.              *)
(*                                                                         *)
(* Offsets are u64 and buf_offset + len is not checked for overflow: the   *)
(* model's file ends far below 2^64.                                       *)
(***************************************************************************)
EXTENDS Integers, Sequences

CONSTANTS
  Offsets,    \* byte offsets of the file
  Bytes,      \* byte values
  Writes,     \* byte strings passed to write; one may be longer than MaxSize
  MaxSize,    \* WriteBuf.max_size
  MaxWrites   \* bound: calls of write

ASSUME BufferAssumption ==
  /\ Offsets \subseteq Nat
  /\ Writes \subseteq Seq(Bytes)
  /\ MaxSize \in Nat
  /\ MaxWrites \in Nat

VARIABLES
  buf,       \* the WriteBuf: data, buf_offset, dirty
  file,      \* the file at the server
  writes,    \* calls of write so far
  accepted,  \* bytes passed to write so far
  flushed,   \* bytes handed out in FlushData so far
  joined,    \* calls of write whose bytes are in the buffer
  last       \* arguments of the last call of write: <<offset, bytes>>

vars == <<buf, file, writes, accepted, flushed, joined, last>>

Buffers == [data : Seq(Bytes), buf_offset : Nat, dirty : BOOLEAN]

TypeOK ==
  /\ buf \in Buffers
  /\ file \in [Offsets -> Bytes]
  /\ writes \in 0 .. MaxWrites
  /\ accepted \in Nat /\ flushed \in Nat /\ joined \in Nat
  /\ last \in {<<>>} \cup (Offsets \X Writes)

-----------------------------------------------------------------------------
\* WriteBuf::new, and what take_flush leaves.
EmptyBuf == [data |-> <<>>, buf_offset |-> 0, dirty |-> FALSE]

Content == INSTANCE FileContent WITH content <- file, count <- writes

\* The caller sends the FlushData.
SendFlush ==
  /\ file' = Content!Put(file, buf.buf_offset, buf.data)
  /\ flushed' = flushed + Len(buf.data)

Init ==
  /\ buf = EmptyBuf
  /\ file \in [Offsets -> Bytes]
  /\ writes = 0 /\ accepted = 0 /\ flushed = 0 /\ joined = 0
  /\ last = <<>>

\* Mutants: contiguity, or the size, is not looked at.
MustFlushOnSize(o, d) == buf.dirty /\ Len(buf.data) + Len(d) > MaxSize

MustFlushOnGap(o, d) == buf.dirty /\ o # buf.buf_offset + Len(buf.data)

\* A dirty buffer goes out first if d does not continue it or does not fit.
MustFlush(o, d) ==
  /\ buf.dirty
  /\ \/ o # buf.buf_offset + Len(buf.data)
     \/ Len(buf.data) + Len(d) > MaxSize

WriteAfterFlush(o, d) ==
  /\ MustFlush(o, d)
  /\ SendFlush
  /\ buf' = [data |-> d, buf_offset |-> o, dirty |-> TRUE]
  /\ joined' = 1

WriteJoins(o, d) ==
  /\ ~MustFlush(o, d)
  /\ buf' = [data |-> buf.data \o d,
             buf_offset |-> IF buf.dirty THEN buf.buf_offset ELSE o,
             dirty |-> TRUE]
  /\ joined' = joined + 1
  /\ UNCHANGED <<file, flushed>>

Write(o, d) ==
  /\ writes < MaxWrites /\ writes' = writes + 1
  /\ accepted' = accepted + Len(d)
  /\ last' = <<o, d>>
  /\ WriteAfterFlush(o, d) \/ WriteJoins(o, d)

\* flush on a clean buffer returns None and changes nothing.
Flush ==
  /\ buf.dirty
  /\ SendFlush
  /\ buf' = EmptyBuf
  /\ joined' = 0
  /\ UNCHANGED <<writes, accepted, last>>

Next ==
  \/ \E o \in Offsets, d \in Writes : Write(o, d)
  \/ Flush

Spec == Init /\ [][Next]_vars

-----------------------------------------------------------------------------
\* Properties

\* What the application has written: the server's file with the bytes still
\* in the buffer on top.
Visible == Content!Put(file, buf.buf_offset, buf.data)

File == INSTANCE FileContent WITH content <- Visible, count <- writes

\* Coalescing is invisible: for every order of overlapping, contiguous and
\* oversized writes and flushes, the server's file and the buffer together
\* are what writing each string in turn would give (write_buf.rs 24-60).
ImplementsFile == File!FileSpec

\* Every accepted byte is in the buffer or has been handed out once.
BytesConserved == accepted = flushed + Len(buf.data)

\* The buffer outgrows max_size only to hold a single oversized write, never
\* by joining writes, and a clean buffer holds nothing.
BufferBounded ==
  /\ Len(buf.data) <= MaxSize \/ joined = 1
  /\ ~buf.dirty => buf.data = <<>>
=============================================================================
