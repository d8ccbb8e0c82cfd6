----------------------------- MODULE ReadAhead -----------------------------
(***************************************************************************)
(* ReadAheadBuf (nfs-mount, read_buf.rs), composed with the WriteBuf of    *)
(* the same handle: a MountHandle keeps one of each per open file, in      *)
(* read_bufs and write_bufs.  A reader and writer of the file uses them    *)
(* the way their methods are meant to be used.  To read: try_read; on a    *)
(* miss flush, a READ of what fetch_plan says, fill, and try_read again.   *)
(* To write: WriteBuf's write, and invalidate.  No code in the repository  *)
(* is that caller yet.                                                     *)
(***************************************************************************)
EXTENDS WriteBuffer

CONSTANTS
  FileSize,   \* bytes in the file
  MaxRead,    \* bound: bytes asked for in one read
  MaxAhead,   \* ReadAheadBuf.max_size
  CountCap    \* bound on sequential_count, which saturates at u32::MAX

ASSUME ReadAheadAssumption ==
  /\ FileSize \in Nat /\ Offsets = 0 .. FileSize - 1
  /\ MaxRead \in Nat /\ MaxAhead \in Nat
  /\ CountCap \in Nat /\ CountCap >= 2

VARIABLES
  data,             \* ReadAheadBuf.data
  bufOffset,        \* ReadAheadBuf.buf_offset
  lastReadEnd,      \* ReadAheadBuf.last_read_end; -1 stands for u64::MAX
  sequentialCount,  \* ReadAheadBuf.sequential_count
  want,             \* the read in progress: [offset, len], or NoRead
  planned,          \* bytes fetch_plan last asked for, in the read in progress
  hit               \* what try_read has just returned, and for which read; or NoHit

aheadVars == <<data, bufOffset, lastReadEnd, sequentialCount>>
ioVars == <<vars, aheadVars, want, planned, hit>>

Reads == [offset : 0 .. FileSize, len : 1 .. MaxRead]
NoRead == [offset |-> 0, len |-> -1]
NoHit == [read |-> NoRead, bytes |-> <<>>]

ReadTypeOK ==
  /\ data \in Seq(Bytes) /\ bufOffset \in 0 .. FileSize
  /\ lastReadEnd \in Int /\ lastReadEnd >= -1
  /\ sequentialCount \in 0 .. CountCap
  /\ want \in Reads \cup {NoRead}
  /\ planned \in Int /\ planned >= -1
  /\ hit \in [read : Reads, bytes : Seq(Bytes)] \cup {NoHit}

ReadInit ==
  /\ Init
  /\ data = <<>> /\ bufOffset = 0
  /\ lastReadEnd = -1 /\ sequentialCount = 0
  /\ want = NoRead /\ planned = -1
  /\ hit = NoHit

-----------------------------------------------------------------------------
Smaller(m, n) == IF m < n THEN m ELSE n

\* Mutant: the count is not reset.
CountAccessKeeps(offset) ==
  sequentialCount' = IF offset = lastReadEnd
                     THEN Smaller(sequentialCount + 1, CountCap)
                     ELSE sequentialCount

\* Every try_read, hit or miss, counts an access that starts where the last
\* successful one ended.
CountAccess(offset) ==
  sequentialCount' = IF offset = lastReadEnd
                     THEN Smaller(sequentialCount + 1, CountCap)
                     ELSE 0

Buffered(offset, len) ==
  /\ offset >= bufOffset
  /\ offset + len <= bufOffset + Len(data)

\* Mutant: the bytes are taken from the start of the buffer.
HitAtStart(offset, len) ==
  /\ Buffered(offset, len)
  /\ CountAccess(offset)
  /\ hit' = [read |-> [offset |-> offset, len |-> len], bytes |-> SubSeq(data, 1, len)]
  /\ lastReadEnd' = offset + len
  /\ UNCHANGED <<data, bufOffset>>

\* try_read, Some.
Hit(offset, len) ==
  /\ Buffered(offset, len)
  /\ CountAccess(offset)
  /\ LET start == offset - bufOffset
     IN  hit' = [read |-> [offset |-> offset, len |-> len],
                 bytes |-> SubSeq(data, start + 1, start + len)]
  /\ lastReadEnd' = offset + len
  /\ UNCHANGED <<data, bufOffset>>

\* try_read, None: last_read_end stays.
Miss(offset, len) ==
  /\ ~Buffered(offset, len)
  /\ CountAccess(offset)
  /\ hit' = NoHit
  /\ UNCHANGED <<data, bufOffset, lastReadEnd>>

\* Mutant: what was asked for is left out of the plan.
FetchPlanBeyond(len) ==
  IF sequentialCount >= 2 THEN Smaller(MaxAhead, len * 4) - len ELSE len

FetchPlan(len) == IF sequentialCount >= 2 THEN Smaller(MaxAhead, len * 4) ELSE len

\* A READ of n bytes at offset returns what the file has of them.
ServerRead(offset, n) ==
  [i \in 1 .. Smaller(offset + n, FileSize) - offset |-> file[offset + i - 1]]

-----------------------------------------------------------------------------
\* A read served from the buffer, the first time or after a fill.
ReadHits ==
  /\ \/ want = NoRead /\ \E r \in Reads : Hit(r.offset, r.len)
     \/ want # NoRead /\ planned >= 0 /\ Hit(want.offset, want.len)
  /\ want' = NoRead /\ planned' = -1
  /\ UNCHANGED vars

ReadMisses ==
  /\ want = NoRead
  /\ \E r \in Reads : Miss(r.offset, r.len) /\ want' = r
  /\ UNCHANGED <<vars, planned>>

\* With nothing left to flush: READ what fetch_plan says, and fill.
Fetch ==
  /\ want # NoRead /\ planned < 0
  /\ ~buf.dirty
  /\ planned' = FetchPlan(want.len)
  /\ data' = ServerRead(want.offset, planned')
  /\ bufOffset' = want.offset
  /\ hit' = NoHit
  /\ UNCHANGED <<vars, lastReadEnd, sequentialCount, want>>

\* The second try_read misses: the end of the file, or too little fetched.
ReadShort ==
  /\ want # NoRead /\ planned >= 0
  /\ Miss(want.offset, want.len)
  /\ want' = NoRead /\ planned' = -1
  /\ UNCHANGED vars

\* Mutant: the data stays.
InvalidateKeeps == UNCHANGED <<data, bufOffset>>

\* invalidate: the data goes, the access pattern stays.
Invalidate == data' = <<>> /\ bufOffset' = 0

WriteAndInvalidate ==
  /\ want = NoRead
  /\ \E o \in Offsets, d \in Writes : Write(o, d)
  /\ Invalidate
  /\ hit' = NoHit
  /\ UNCHANGED <<lastReadEnd, sequentialCount, want, planned>>

\* The file is flushed, before a READ or at any other time.
FlushFile == Flush /\ hit' = NoHit /\ UNCHANGED <<aheadVars, want, planned>>

ReadNext ==
  \/ ReadHits
  \/ ReadMisses
  \/ Fetch
  \/ ReadShort
  \/ WriteAndInvalidate
  \/ FlushFile

ReadSpec == ReadInit /\ [][ReadNext]_ioVars

-----------------------------------------------------------------------------
\* Properties

\* Every byte in the read-ahead buffer is the file's byte at its offset as the
\* application has written it, flushed or not: no write, flush or refill in
\* any order leaves old bytes behind (read_buf.rs 27-32, 38-41, 51-54, with
\* write_buf.rs 24-60).
BufferIsCurrent ==
  \A i \in DOMAIN data :
    /\ bufOffset + i - 1 \in Offsets
    /\ data[i] = Visible[bufOffset + i - 1]

\* A successful read returns exactly the bytes asked for, as the application
\* has written them when it happens: it reads its own writes through both
\* buffers.
HitsAreExact ==
  hit # NoHit =>
    /\ Len(hit.bytes) = hit.read.len
    /\ \A i \in DOMAIN hit.bytes : hit.bytes[i] = Visible[hit.read.offset + i - 1]

\* When one fetch is enough: a read hits when it is tried again if it stays
\* within the file, except that one which continues a sequence and is longer
\* than max_size never does: amplifying it makes it shorter (read_buf.rs
\* 43-49).
OneFetchServes ==
  want # NoRead /\ planned >= 0 =>
    (Buffered(want.offset, want.len) <=>
       /\ want.offset + want.len <= FileSize
       /\ sequentialCount < 2 \/ want.len <= MaxAhead)

\* A read that is not part of a sequence is never amplified: fetch_plan asks
\* for more than was wanted only when the read continues one that succeeded,
\* and then for at most max_size.
AmplifiesSequencesOnly ==
  want # NoRead /\ planned > want.len =>
    /\ want.offset = lastReadEnd
    /\ planned <= MaxAhead
=============================================================================
