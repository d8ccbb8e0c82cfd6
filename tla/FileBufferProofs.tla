-------------------------- MODULE FileBufferProofs --------------------------
(***************************************************************************)
(* The two buffers of an open file, for files, writes, reads and buffer    *)
(* sizes of any kind.  Coalescing is invisible: WriteBuffer implements     *)
(* FileContent.  An application that uses both buffers reads what it       *)
(* wrote; one fetch serves a read; and only sequences are read ahead.      *)
(***************************************************************************)
EXTENDS ReadAhead, SequenceTheorems, TLAPS

-----------------------------------------------------------------------------
(* WriteBuffer *)

BufferInv ==
  /\ buf \in Buffers
  /\ file \in [Offsets -> Bytes]
  /\ accepted \in Nat /\ flushed \in Nat /\ joined \in Nat
  /\ BytesConserved
  /\ BufferBounded
  /\ ~buf.dirty => joined = 0

-----------------------------------------------------------------------------
(* Overlaying byte strings. *)

\* An overlay is a file again.
LEMMA PutType ==
  ASSUME NEW f \in [Offsets -> Bytes], NEW o \in Nat, NEW d \in Seq(Bytes)
  PROVE  Content!Put(f, o, d) \in [Offsets -> Bytes]
<1>1. ASSUME NEW i \in Offsets, o <= i, i < o + Len(d)
      PROVE  d[i - o + 1] \in Bytes
  <2>1. i \in Nat /\ i - o + 1 \in 1 .. Len(d)
    BY <1>1, BufferAssumption
  <2> QED
    BY <2>1
<1> QED
  BY <1>1 DEF Content!Put

\* The empty string changes nothing.
LEMMA PutNothing ==
  ASSUME NEW f \in [Offsets -> Bytes], NEW o \in Nat
  PROVE  Content!Put(f, o, <<>>) = f
<1>1. \A i \in Offsets : ~(o <= i /\ i < o + Len(<<>>))
  BY BufferAssumption
<1> QED
  BY <1>1 DEF Content!Put

\* Two strings that meet are the same as one.
LEMMA PutJoined ==
  ASSUME NEW f \in [Offsets -> Bytes], NEW o \in Nat,
         NEW d \in Seq(Bytes), NEW e \in Seq(Bytes)
  PROVE  Content!Put(f, o, d \o e)
           = Content!Put(Content!Put(f, o, d), o + Len(d), e)
<1> DEFINE g == Content!Put(f, o, d)
<1>1. Len(d \o e) = Len(d) + Len(e) /\ Len(d) \in Nat /\ Len(e) \in Nat
  OBVIOUS
<1>2. ASSUME NEW i \in Offsets
      PROVE  Content!Put(f, o, d \o e)[i]
               = Content!Put(g, o + Len(d), e)[i]
  <2>0. i \in Nat
    BY BufferAssumption
  <2>1. /\ Content!Put(f, o, d \o e)[i]
             = IF o <= i /\ i < o + Len(d \o e)
               THEN (d \o e)[i - o + 1] ELSE f[i]
        /\ g[i] = IF o <= i /\ i < o + Len(d) THEN d[i - o + 1] ELSE f[i]
        /\ Content!Put(g, o + Len(d), e)[i]
             = IF o + Len(d) <= i /\ i < o + Len(d) + Len(e)
               THEN e[i - (o + Len(d)) + 1] ELSE g[i]
    BY DEF Content!Put
  <2>2. CASE o <= i /\ i < o + Len(d)
    <3>1. i - o + 1 \in 1 .. Len(d)
      BY <2>0, <2>2, <1>1
    <3>2. (d \o e)[i - o + 1] = d[i - o + 1]
      BY <3>1
    <3> QED
      BY <2>0, <2>1, <2>2, <3>2, <1>1
  <2>3. CASE o + Len(d) <= i /\ i < o + Len(d) + Len(e)
    <3>1. /\ i - o + 1 \in Len(d) + 1 .. Len(d) + Len(e)
          /\ (i - o + 1) - Len(d) = i - (o + Len(d)) + 1
      BY <2>0, <2>3, <1>1
    <3>2. (d \o e)[i - o + 1] = e[i - (o + Len(d)) + 1]
      BY <3>1
    <3> QED
      BY <2>0, <2>1, <2>3, <3>2, <1>1
  <2>4. CASE i < o \/ o + Len(d) + Len(e) <= i
    BY <2>0, <2>1, <2>4, <1>1
  <2> QED
    BY <2>0, <2>2, <2>3, <2>4, <1>1
<1> QED
  BY <1>2 DEF Content!Put

-----------------------------------------------------------------------------
\* An empty buffer keeps the invariant.
LEMMA InitBuffer == Init => BufferInv
  BY BufferAssumption
  DEF Init, BufferInv, Buffers, EmptyBuf, BytesConserved, BufferBounded

\* Every operation keeps it.
LEMMA NextBuffer == BufferInv /\ [Next]_vars => BufferInv'
<1> SUFFICES ASSUME BufferInv, [Next]_vars PROVE BufferInv'
  OBVIOUS
<1>t. /\ buf.data \in Seq(Bytes) /\ buf.buf_offset \in Nat
      /\ buf.dirty \in BOOLEAN /\ Len(buf.data) \in Nat
  BY DEF BufferInv, Buffers
<1>f. ASSUME SendFlush
      PROVE  /\ file' \in [Offsets -> Bytes]
             /\ flushed' \in Nat
             /\ accepted = flushed'
  BY <1>f, <1>t, PutType DEF SendFlush, BufferInv, BytesConserved
<1>1. ASSUME NEW o \in Offsets, NEW d \in Writes, Write(o, d)
      PROVE  BufferInv'
  <2>0. /\ d \in Seq(Bytes) /\ Len(d) \in Nat /\ o \in Nat
        /\ accepted' = accepted + Len(d)
    BY <1>1, BufferAssumption DEF Write
  <2>1. CASE WriteAfterFlush(o, d)
    BY <2>0, <2>1, <1>f
    DEF WriteAfterFlush, BufferInv, Buffers, BytesConserved, BufferBounded
  <2>2. CASE WriteJoins(o, d)
    <3>1. /\ buf' \in Buffers
          /\ Len(buf'.data) = Len(buf.data) + Len(d)
          /\ buf'.dirty
      BY <2>0, <2>2, <1>t DEF WriteJoins, Buffers
    <3>2. UNCHANGED <<file, flushed>> /\ joined' = joined + 1
      BY <2>2 DEF WriteJoins
    <3>3. accepted' = flushed' + Len(buf'.data) /\ accepted' \in Nat
      BY <2>0, <3>1, <3>2, <1>t DEF BufferInv, BytesConserved
    <3>4. Len(buf'.data) <= MaxSize \/ joined' = 1
      <4>1. CASE buf.dirty
        BY <2>0, <2>2, <3>1, <4>1, <1>t, BufferAssumption
        DEF WriteJoins, MustFlush
      <4>2. CASE ~buf.dirty
        BY <3>2, <4>2 DEF BufferInv
      <4> QED
        BY <4>1, <4>2
    <3> QED
      BY <3>1, <3>2, <3>3, <3>4
      DEF BufferInv, BytesConserved, BufferBounded
  <2> QED
    BY <1>1, <2>1, <2>2 DEF Write
<1>2. CASE Flush
  BY <1>2, <1>f, BufferAssumption
  DEF Flush, BufferInv, Buffers, EmptyBuf, BytesConserved, BufferBounded
<1>3. CASE UNCHANGED vars
  BY <1>3 DEF vars, BufferInv, BytesConserved, BufferBounded
<1> QED
  BY <1>1, <1>2, <1>3 DEF Next

\* Every byte accepted is in the buffer or has been handed out once.
THEOREM Conserved == Spec => []BytesConserved
<1>1. BufferInv => BytesConserved
  BY DEF BufferInv
<1> QED
  BY <1>1, InitBuffer, NextBuffer, PTL DEF Spec

\* Only a single oversized write makes the buffer larger than max_size.
THEOREM Bounded == Spec => []BufferBounded
<1>1. BufferInv => BufferBounded
  BY DEF BufferInv
<1> QED
  BY <1>1, InitBuffer, NextBuffer, PTL DEF Spec

-----------------------------------------------------------------------------
(* Refinement. *)

\* The two instances of FileContent overlay in the same way.
LEMMA SameOverlay ==
  ASSUME NEW f, NEW o, NEW d
  PROVE  File!Put(f, o, d) = Content!Put(f, o, d)
  BY DEF File!Put, Content!Put

\* What a reader sees are bytes.
LEMMA VisibleType == BufferInv => Visible \in [Offsets -> Bytes]
  BY PutType DEF BufferInv, Buffers, Visible

\* A write after which the buffer holds d alone.
LEMMA VisibleAfterFlush ==
  ASSUME BufferInv, NEW o \in Offsets, NEW d \in Writes, WriteAfterFlush(o, d)
  PROVE  Visible' = Content!Put(Visible, o, d)
<1>1. file' = Visible
  BY DEF WriteAfterFlush, SendFlush, Visible
<1>2. buf'.buf_offset = o /\ buf'.data = d
  BY DEF WriteAfterFlush
<1>3. Visible' = Content!Put(file', buf'.buf_offset, buf'.data)
  BY DEF Visible, Content!Put
<1> QED
  BY <1>1, <1>2, <1>3

\* A write whose bytes continue those in the buffer.
LEMMA VisibleAfterJoin ==
  ASSUME BufferInv, NEW o \in Offsets, NEW d \in Writes, WriteJoins(o, d)
  PROVE  Visible' = Content!Put(Visible, o, d)
<1>0. /\ buf.data \in Seq(Bytes) /\ buf.buf_offset \in Nat
      /\ file \in [Offsets -> Bytes]
      /\ d \in Seq(Bytes) /\ o \in Nat
  BY BufferAssumption DEF BufferInv, Buffers
<1>1. Visible' = Content!Put(file', buf'.buf_offset, buf'.data)
  BY DEF Visible, Content!Put
<1>2. file' = file /\ buf'.data = buf.data \o d
  BY DEF WriteJoins
<1>3. CASE buf.dirty
  <2>1. buf'.buf_offset = buf.buf_offset /\ o = buf.buf_offset + Len(buf.data)
    BY <1>3 DEF WriteJoins, MustFlush
  <2>2. Content!Put(file, buf.buf_offset, buf.data \o d)
          = Content!Put(Content!Put(file, buf.buf_offset, buf.data),
                        buf.buf_offset + Len(buf.data), d)
    BY <1>0, PutJoined
  <2>3. Visible' = Content!Put(file, buf.buf_offset, buf.data \o d)
    BY <1>1, <1>2, <2>1
  <2> QED
    BY <2>1, <2>2, <2>3 DEF Visible
<1>4. CASE ~buf.dirty
  <2>1. buf.data = <<>> /\ buf'.buf_offset = o
    BY <1>4 DEF WriteJoins, BufferInv, BufferBounded
  <2>2. Visible = file
    BY <1>0, <2>1, PutNothing DEF Visible
  <2>3. buf'.data = d
    BY <1>0, <1>2, <2>1
  <2> QED
    BY <1>1, <1>2, <2>1, <2>2, <2>3
<1> QED
  BY <1>3, <1>4

\* Flushing moves bytes from the buffer to the file and shows the same.
LEMMA VisibleAfterFlushOnly ==
  ASSUME BufferInv, Flush
  PROVE  Visible' = Visible
<1>1. file' = Visible /\ buf'.data = <<>> /\ buf'.buf_offset = 0
  BY DEF Flush, SendFlush, Visible, EmptyBuf
<1>2. Visible' = Content!Put(file', buf'.buf_offset, buf'.data)
  BY DEF Visible, Content!Put
<1> QED
  BY <1>1, <1>2, VisibleType, PutNothing

\* Whatever the application writes, the server's file together with the
\* buffer is what writing each string in turn would give: coalescing neither
\* loses, repeats, moves nor reorders bytes.
THEOREM Implements == Spec => ImplementsFile
<1>1. Init => File!FileInit
  <2>1. Init => Visible = file
    BY PutNothing DEF Init, EmptyBuf, Visible
  <2> QED
    BY <2>1 DEF Init, File!FileInit
<1>2. BufferInv /\ [Next]_vars => [File!FileNext]_(File!fileVars)
  <2> SUFFICES ASSUME BufferInv, [Next]_vars
               PROVE  File!FileNext \/ UNCHANGED <<Visible, writes, last>>
    BY DEF File!fileVars
  <2>1. ASSUME NEW o \in Offsets, NEW d \in Writes, Write(o, d)
        PROVE  File!FileNext
    <3>0. writes' = writes + 1 /\ last' = <<o, d>>
      BY <2>1 DEF Write
    <3>1. Visible' = Content!Put(Visible, o, d)
      BY <2>1, VisibleAfterFlush, VisibleAfterJoin DEF Write
    <3> QED
      BY <3>0, <3>1, SameOverlay DEF File!FileNext, File!FileWrite
  <2>2. CASE Flush
    BY <2>2, VisibleAfterFlushOnly DEF Flush
  <2>3. CASE UNCHANGED vars
    BY <2>3 DEF vars, Visible, Content!Put
  <2> QED
    BY <2>1, <2>2, <2>3 DEF Next
<1> QED
  BY <1>1, <1>2, InitBuffer, NextBuffer, PTL
  DEF Spec, ImplementsFile, File!FileSpec

-----------------------------------------------------------------------------
(* ReadAhead *)

\* What is buffered ahead is the file's; there is nothing of the kind while
\* bytes wait to be flushed.
AheadInv ==
  /\ data # <<>> => ~buf.dirty
  /\ \A i \in DOMAIN data :
       bufOffset + i - 1 \in Offsets /\ data[i] = file[bufOffset + i - 1]

\* A read in progress: what is counted as a sequence continues the last hit,
\* and what was fetched begins where the read does.
PlanInv ==
  /\ want # NoRead /\ planned < 0 /\ sequentialCount > 0 => want.offset = lastReadEnd
  /\ planned >= 0 =>
       /\ want # NoRead
       /\ bufOffset = want.offset
       /\ Len(data) = Smaller(want.offset + planned, FileSize) - want.offset
       /\ planned = FetchPlan(want.len)

ReadInv ==
  /\ BufferInv /\ ReadTypeOK
  /\ AheadInv /\ PlanInv
  /\ HitsAreExact /\ AmplifiesSequencesOnly

-----------------------------------------------------------------------------
\* A clean write buffer hides nothing of the file.
LEMMA VisibleWhenClean == BufferInv /\ ~buf.dirty => Visible = file
  BY PutNothing DEF BufferInv, BufferBounded, Buffers, Visible

\* What reading leaves alone.
LEMMA VisibleKept == UNCHANGED vars => Visible' = Visible
  BY DEF vars, Visible, Content!Put

\* A read is inside the file.
LEMMA ReadsWellFormed ==
  ASSUME NEW r \in Reads
  PROVE  /\ r.offset \in 0 .. FileSize /\ r.len \in 1 .. MaxRead
         /\ r.offset \in Nat /\ r.len \in Nat /\ r.len > 0
         /\ r # NoRead
         /\ [offset |-> r.offset, len |-> r.len] = r
  BY ReadAheadAssumption DEF Reads, NoRead

\* Counting, whatever the offset.
LEMMA Counted ==
  ASSUME ReadTypeOK, NEW o \in Nat, CountAccess(o)
  PROVE  /\ sequentialCount' \in 0 .. CountCap
         /\ sequentialCount' > 0 => o = lastReadEnd
  BY ReadAheadAssumption DEF ReadTypeOK, CountAccess, Smaller

\* Every step of the composition is one of the write buffer, or none.
LEMMA StepBelow == [ReadNext]_ioVars => [Next]_vars
<1>1. ReadHits \/ ReadMisses \/ Fetch \/ ReadShort => UNCHANGED vars
  BY DEF ReadHits, ReadMisses, Fetch, ReadShort
<1>2. WriteAndInvalidate \/ FlushFile => Next
  BY DEF WriteAndInvalidate, FlushFile, Next
<1> QED
  BY <1>1, <1>2 DEF ReadNext, ioVars

\* The application that also reads still uses the write buffer as specified,
\* so what is proved of Spec holds of the composition.
THEOREM WritesAsBefore == ReadSpec => Spec
<1>1. ReadInit => Init
  BY DEF ReadInit
<1> QED
  BY <1>1, StepBelow, PTL DEF ReadSpec, Spec

-----------------------------------------------------------------------------
\* An empty read-ahead buffer keeps the invariant.
LEMMA InitReads == ReadInit => ReadInv
<1> SUFFICES ASSUME ReadInit PROVE ReadInv
  OBVIOUS
<1>1. BufferInv
  BY InitBuffer DEF ReadInit
<1>2. ReadTypeOK
  BY ReadAheadAssumption DEF ReadInit, ReadTypeOK
<1>3. AheadInv /\ PlanInv /\ AmplifiesSequencesOnly
  BY DEF ReadInit, AheadInv, PlanInv, AmplifiesSequencesOnly
<1>4. HitsAreExact
  BY DEF ReadInit, HitsAreExact
<1> QED
  BY <1>1, <1>2, <1>3, <1>4 DEF ReadInv

\* A piece of a string.
LEMMA Slice ==
  ASSUME NEW s \in Seq(Bytes), NEW k \in Nat, NEW n \in Nat,
         n > 0, k + n <= Len(s)
  PROVE  /\ SubSeq(s, k + 1, k + n) \in Seq(Bytes)
         /\ DOMAIN SubSeq(s, k + 1, k + n) = 1 .. n
         /\ Len(SubSeq(s, k + 1, k + n)) = n
         /\ \A i \in 1 .. n : /\ k + i \in DOMAIN s
                             /\ SubSeq(s, k + 1, k + n)[i] = s[k + i]
<1>1. \A i \in k + 1 .. k + n : i \in DOMAIN s /\ s[i] \in Bytes
  OBVIOUS
<1>2. k + 1 \in Int /\ k + n \in Int /\ k + 1 <= k + n
  OBVIOUS
<1>3. SubSeq(s, k + 1, k + n) = [i \in 1 .. n |-> s[k + i]]
  BY <1>2
<1>4. \A i \in 1 .. n : k + i \in k + 1 .. k + n
  OBVIOUS
<1> QED
  BY <1>1, <1>3, <1>4

\* A hit takes the bytes it returns from the right place.
LEMMA HitIsExact ==
  ASSUME ReadInv, NEW r \in Reads, Hit(r.offset, r.len), UNCHANGED vars
  PROVE  /\ hit' = [read |-> r, bytes |-> hit'.bytes]
         /\ hit'.bytes \in Seq(Bytes)
         /\ HitsAreExact'
<1>0. /\ r.offset \in Nat /\ r.len \in Nat /\ r.len > 0
      /\ bufOffset \in Nat /\ data \in Seq(Bytes) /\ Len(data) \in Nat
      /\ [offset |-> r.offset, len |-> r.len] = r
  BY ReadsWellFormed, ReadAheadAssumption DEF ReadInv, ReadTypeOK
<1>1. PICK k \in Nat : k = r.offset - bufOffset /\ k + r.len <= Len(data)
  BY <1>0 DEF Hit, Buffered
<1>2. hit' = [read |-> r, bytes |-> SubSeq(data, k + 1, k + r.len)]
  BY <1>0, <1>1 DEF Hit
<1>3. /\ SubSeq(data, k + 1, k + r.len) \in Seq(Bytes)
      /\ DOMAIN SubSeq(data, k + 1, k + r.len) = 1 .. r.len
      /\ Len(SubSeq(data, k + 1, k + r.len)) = r.len
      /\ \A i \in 1 .. r.len :
           /\ k + i \in DOMAIN data
           /\ SubSeq(data, k + 1, k + r.len)[i] = data[k + i]
  BY <1>0, <1>1, Slice
<1>4. Visible' = file
  <2>1. data # <<>>
    BY <1>0, <1>1
  <2> QED
    BY <2>1, VisibleWhenClean, VisibleKept DEF ReadInv, AheadInv
<1>5. \A i \in 1 .. r.len : data[k + i] = file[r.offset + i - 1]
  <2> SUFFICES ASSUME NEW i \in 1 .. r.len
               PROVE  data[k + i] = file[r.offset + i - 1]
    OBVIOUS
  <2>1. bufOffset + (k + i) - 1 = r.offset + i - 1
    BY <1>0, <1>1
  <2>2. data[k + i] = file[bufOffset + (k + i) - 1]
    BY <1>3 DEF ReadInv, AheadInv
  <2> QED
    BY <2>1, <2>2
<1>6. /\ hit'.read = r /\ hit'.bytes = SubSeq(data, k + 1, k + r.len)
  BY <1>2
<1> QED
  BY <1>2, <1>3, <1>4, <1>5, <1>6 DEF HitsAreExact

\* A read answered from the buffer.
LEMMA HitsKeep == ReadInv /\ ReadHits => ReadInv'
<1> SUFFICES ASSUME ReadInv, ReadHits PROVE ReadInv'
  OBVIOUS
<1>1. PICK r \in Reads : Hit(r.offset, r.len)
  BY DEF ReadHits, ReadInv, ReadTypeOK
<1>2. UNCHANGED vars /\ want' = NoRead /\ planned' = -1
  BY DEF ReadHits
<1>3. BufferInv'
  BY <1>2, NextBuffer DEF ReadInv
<1>4. /\ hit' = [read |-> r, bytes |-> hit'.bytes] /\ hit'.bytes \in Seq(Bytes)
      /\ HitsAreExact'
  BY <1>1, <1>2, HitIsExact
<1>5. ReadTypeOK'
  <2>1. /\ sequentialCount' \in 0 .. CountCap
        /\ lastReadEnd' \in Int /\ lastReadEnd' >= -1
        /\ UNCHANGED <<data, bufOffset>>
    BY <1>1, Counted, ReadsWellFormed DEF Hit, ReadInv
  <2>2. hit' \in [read : Reads, bytes : Seq(Bytes)]
    BY <1>4
  <2> QED
    BY <1>2, <2>1, <2>2 DEF ReadInv, ReadTypeOK
<1>6. AheadInv'
  BY <1>1, <1>2 DEF Hit, vars, ReadInv, AheadInv
<1>7. PlanInv' /\ AmplifiesSequencesOnly'
  BY <1>2 DEF PlanInv, AmplifiesSequencesOnly
<1> QED
  BY <1>3, <1>4, <1>5, <1>6, <1>7 DEF ReadInv

\* A read the buffer cannot answer, or not in full.
LEMMA MissesKeep == ReadInv /\ (ReadMisses \/ ReadShort) => ReadInv'
<1> SUFFICES ASSUME ReadInv, ReadMisses \/ ReadShort PROVE ReadInv'
  OBVIOUS
<1>1. PICK r \in Reads :
        /\ Miss(r.offset, r.len)
        /\ \/ want = NoRead /\ want' = r /\ planned' = planned
           \/ want' = NoRead /\ planned' = -1
  BY DEF ReadMisses, ReadShort, ReadInv, ReadTypeOK
<1>2. UNCHANGED <<vars, data, bufOffset, lastReadEnd>> /\ hit' = NoHit
  BY <1>1 DEF ReadMisses, ReadShort, Miss
<1>3. BufferInv'
  BY <1>2, NextBuffer DEF ReadInv
<1>4. /\ sequentialCount' \in 0 .. CountCap
      /\ sequentialCount' > 0 => r.offset = lastReadEnd
  BY <1>1, Counted, ReadsWellFormed DEF Miss, ReadInv
<1>5. ReadTypeOK'
  BY <1>1, <1>2, <1>4 DEF ReadInv, ReadTypeOK
<1>6. AheadInv' /\ HitsAreExact'
  BY <1>2 DEF vars, ReadInv, AheadInv, HitsAreExact
<1>7. PlanInv' /\ AmplifiesSequencesOnly'
  <2>1. CASE want = NoRead /\ want' = r /\ planned' = planned
    <3>1. planned' < 0
      BY <2>1 DEF ReadInv, ReadTypeOK, PlanInv
    <3> QED
      BY <1>2, <1>4, <2>1, <3>1, ReadsWellFormed
      DEF PlanInv, FetchPlan, AmplifiesSequencesOnly, ReadInv, ReadTypeOK
  <2>2. CASE want' = NoRead /\ planned' = -1
    BY <2>2 DEF PlanInv, AmplifiesSequencesOnly
  <2> QED
    BY <1>1, <2>1, <2>2
<1> QED
  BY <1>3, <1>5, <1>6, <1>7 DEF ReadInv

\* What fetch_plan asks for.
LEMMA Planned ==
  ASSUME ReadTypeOK, NEW n \in Nat
  PROVE  /\ FetchPlan(n) \in Nat
         /\ FetchPlan(n) > n => sequentialCount > 0 /\ FetchPlan(n) <= MaxAhead
<1>1. sequentialCount \in Nat /\ MaxAhead \in Nat /\ n * 4 \in Nat /\ n * 4 >= n
  BY ReadAheadAssumption DEF ReadTypeOK
<1>2. CASE sequentialCount >= 2
  <2>1. FetchPlan(n) = IF MaxAhead < n * 4 THEN MaxAhead ELSE n * 4
    BY <1>2 DEF FetchPlan, Smaller
  <2> QED
    BY <1>1, <1>2, <2>1
<1>3. CASE ~(sequentialCount >= 2)
  BY <1>1, <1>3 DEF FetchPlan
<1> QED
  BY <1>2, <1>3

\* What is fetched becomes the buffer.
LEMMA FetchKeeps == ReadInv /\ Fetch => ReadInv'
<1> SUFFICES ASSUME ReadInv, Fetch PROVE ReadInv'
  OBVIOUS
<1> DEFINE n == Smaller(want.offset + planned', FileSize) - want.offset
<1>0. /\ want \in Reads /\ planned < 0 /\ ~buf.dirty
      /\ planned' = FetchPlan(want.len) /\ data' = ServerRead(want.offset, planned')
      /\ bufOffset' = want.offset /\ hit' = NoHit
      /\ UNCHANGED <<vars, lastReadEnd, sequentialCount, want>>
  BY DEF Fetch, ReadInv, ReadTypeOK
<1>1. /\ want.offset \in 0 .. FileSize /\ want.len \in Nat /\ want # NoRead
      /\ FileSize \in Nat
  BY <1>0, ReadsWellFormed, ReadAheadAssumption
<1>2. planned' \in Nat
  BY <1>0, <1>1, Planned DEF ReadInv
<1>3. n \in Nat /\ want.offset + n <= FileSize
  BY <1>1, <1>2 DEF Smaller
<1>4. BufferInv'
  BY <1>0, NextBuffer DEF ReadInv
<1>5. data' = [i \in 1 .. n |-> file[want.offset + i - 1]]
  BY <1>0 DEF ServerRead
<1>6. \A i \in 1 .. n :
        want.offset + i - 1 \in Offsets /\ file[want.offset + i - 1] \in Bytes
  <2> SUFFICES ASSUME NEW i \in 1 .. n
               PROVE  want.offset + i - 1 \in Offsets
                      /\ file[want.offset + i - 1] \in Bytes
    OBVIOUS
  <2>1. want.offset + i - 1 \in 0 .. FileSize - 1
    BY <1>1, <1>3
  <2> QED
    BY <2>1, ReadAheadAssumption DEF ReadInv, BufferInv
<1>7. data' \in Seq(Bytes) /\ Len(data') = n /\ DOMAIN data' = 1 .. n
  BY <1>3, <1>5, <1>6
<1>8. ReadTypeOK'
  BY <1>0, <1>1, <1>2, <1>7 DEF ReadInv, ReadTypeOK
<1>9. AheadInv' /\ HitsAreExact'
  <2>1. ~buf'.dirty /\ file' = file
    BY <1>0 DEF vars
  <2> QED
    BY <1>0, <1>5, <1>6, <1>7, <2>1 DEF AheadInv, HitsAreExact
<1>10. planned' > want.len => sequentialCount > 0 /\ planned' <= MaxAhead
  BY <1>0, <1>1, Planned DEF ReadInv
<1>11. PlanInv'
  BY <1>0, <1>1, <1>2, <1>7, <1>10 DEF PlanInv, FetchPlan
<1>12. AmplifiesSequencesOnly'
  BY <1>0, <1>1, <1>10 DEF ReadInv, PlanInv, AmplifiesSequencesOnly
<1> QED
  BY <1>4, <1>8, <1>9, <1>11, <1>12 DEF ReadInv

\* A write, which empties the read-ahead buffer, and a flush.
LEMMA WritesKeep == ReadInv /\ (WriteAndInvalidate \/ FlushFile) => ReadInv'
<1> SUFFICES ASSUME ReadInv, WriteAndInvalidate \/ FlushFile PROVE ReadInv'
  OBVIOUS
<1>1. BufferInv'
  BY NextBuffer DEF ReadInv, WriteAndInvalidate, FlushFile, Next
<1>2. data' = <<>> /\ hit' = NoHit /\ bufOffset' \in 0 .. FileSize
  <2>1. CASE WriteAndInvalidate
    BY <2>1, ReadAheadAssumption DEF WriteAndInvalidate, Invalidate
  <2>2. CASE FlushFile
    BY <2>2 DEF FlushFile, aheadVars, Flush, ReadInv, AheadInv, ReadTypeOK
  <2> QED
    BY <2>1, <2>2
<1>3. UNCHANGED <<lastReadEnd, sequentialCount, want, planned>>
  BY DEF WriteAndInvalidate, FlushFile, aheadVars
<1>4. ReadTypeOK'
  BY <1>2, <1>3 DEF ReadInv, ReadTypeOK
<1>5. AheadInv' /\ HitsAreExact' /\ AmplifiesSequencesOnly'
  BY <1>2, <1>3 DEF AheadInv, HitsAreExact, AmplifiesSequencesOnly, ReadInv
<1>6. PlanInv'
  <2>1. CASE WriteAndInvalidate
    BY <1>3, <2>1 DEF WriteAndInvalidate, ReadInv, PlanInv
  <2>2. CASE FlushFile
    BY <2>2 DEF FlushFile, aheadVars, ReadInv, PlanInv, FetchPlan
  <2> QED
    BY <2>1, <2>2
<1> QED
  BY <1>1, <1>4, <1>5, <1>6 DEF ReadInv

\* Every operation keeps it ...
LEMMA NextReads == ReadInv /\ [ReadNext]_ioVars => ReadInv'
<1> SUFFICES ASSUME ReadInv, [ReadNext]_ioVars PROVE ReadInv'
  OBVIOUS
<1>1. CASE UNCHANGED ioVars
  <2>1. BufferInv'
    BY <1>1, NextBuffer DEF ioVars, ReadInv
  <2>2. UNCHANGED <<file, buf, data, bufOffset, lastReadEnd, sequentialCount, want,
                    planned, hit>> /\ Visible' = Visible
    BY <1>1, VisibleKept DEF ioVars, aheadVars, vars
  <2> QED
    BY <2>1, <2>2
    DEF ReadInv, ReadTypeOK, AheadInv, PlanInv, FetchPlan, HitsAreExact,
        AmplifiesSequencesOnly
<1> QED
  BY <1>1, HitsKeep, MissesKeep, FetchKeeps, WritesKeep DEF ReadNext

\* ... so it holds always.
LEMMA ReadInvariant == ReadSpec => []ReadInv
  BY InitReads, NextReads, PTL DEF ReadSpec

-----------------------------------------------------------------------------
\* The read-ahead buffer holds the file as the application has written it.
THEOREM Current == ReadSpec => []BufferIsCurrent
<1>1. ReadInv => BufferIsCurrent
  <2> SUFFICES ASSUME ReadInv, NEW i \in DOMAIN data
               PROVE  /\ bufOffset + i - 1 \in Offsets
                      /\ data[i] = Visible[bufOffset + i - 1]
    BY DEF BufferIsCurrent
  <2>1. data # <<>>
    BY DEF ReadInv, ReadTypeOK
  <2> QED
    BY <2>1, VisibleWhenClean DEF ReadInv, AheadInv
<1> QED
  BY <1>1, ReadInvariant, PTL

\* Every read that hits returns exactly what the application has written.
THEOREM Exact == ReadSpec => []HitsAreExact
<1>1. ReadInv => HitsAreExact
  BY DEF ReadInv
<1> QED
  BY <1>1, ReadInvariant, PTL

\* After one fetch a read hits exactly when it stays within the file, unless it
\* continues a sequence and is longer than max_size.
THEOREM Served == ReadSpec => []OneFetchServes
<1>1. ReadInv => OneFetchServes
  <2> SUFFICES ASSUME ReadInv, want # NoRead, planned >= 0
               PROVE  Buffered(want.offset, want.len) <=>
                        /\ want.offset + want.len <= FileSize
                        /\ sequentialCount < 2 \/ want.len <= MaxAhead
    BY DEF OneFetchServes
  <2>1. want \in Reads /\ planned \in Int /\ sequentialCount \in Nat
    BY ReadAheadAssumption DEF ReadInv, ReadTypeOK
  <2>2. /\ want.offset \in Nat /\ want.len \in Nat
        /\ want.offset <= FileSize /\ want.len >= 1
        /\ FileSize \in Nat /\ MaxAhead \in Nat
    BY <2>1, ReadsWellFormed, ReadAheadAssumption DEF Reads
  <2>3. /\ bufOffset = want.offset /\ planned = FetchPlan(want.len)
        /\ Len(data) = Smaller(want.offset + planned, FileSize) - want.offset
    BY <2>2 DEF ReadInv, PlanInv
  <2>4. Buffered(want.offset, want.len) <=>
          want.len <= planned /\ want.offset + want.len <= FileSize
    <3>1. planned \in Nat
      BY <2>1
    <3> QED
      BY <2>2, <2>3, <3>1 DEF Buffered, Smaller
  <2>5. want.len <= planned <=> sequentialCount < 2 \/ want.len <= MaxAhead
    BY <2>1, <2>2, <2>3 DEF FetchPlan, Smaller
  <2> QED
    BY <2>4, <2>5
<1> QED
  BY <1>1, ReadInvariant, PTL

\* fetch_plan reads ahead only in a sequence of reads.
THEOREM Sequences == ReadSpec => []AmplifiesSequencesOnly
<1>1. ReadInv => AmplifiesSequencesOnly
  BY DEF ReadInv
<1> QED
  BY <1>1, ReadInvariant, PTL
=============================================================================
