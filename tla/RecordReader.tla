---------------------------- MODULE RecordReader ----------------------------
(***************************************************************************)
(* RecordReader (onc-rpc, record.rs): reassembly of ONC RPC records from a *)
(* byte stream that arrives in chunks of any size.                         *)
(*                                                                         *)
(* The stream is written by the peer as a sequence of fragments.  A byte   *)
(* is named by its fragment and its place in it: the first HeaderLen bytes *)
(* of a fragment are its header, the rest its payload, so that a byte read *)
(* in the wrong place is told from the right one.  One call of read is a   *)
(* Feed followed by the iterations of the loop at line 72.                 *)
(***************************************************************************)
EXTENDS Integers, Sequences, SequencesExt, Ordering

CONSTANTS
  HeaderLen,      \* bytes in a fragment header: 4 in the code
  MaxRecordSize,  \* MAX_RECORD_SIZE
  MaxFragment,    \* bound: payload bytes in a fragment
  MaxFragments,   \* bound: fragments in the stream
  MaxChunk        \* bound: bytes in one call of read

ASSUME ReaderAssumption ==
  /\ HeaderLen \in Nat \ {0}
  /\ MaxRecordSize \in Nat /\ MaxFragment \in Nat
  /\ MaxFragments \in Nat /\ MaxChunk \in Nat

VARIABLES
  fragments,   \* what the peer sends: fragments, each [last, length]
  fed,         \* bytes of the stream handed to read so far
  input,       \* RecordReader.input
  record,      \* RecordReader.record
  remaining,   \* RecordReader.remaining
  inFragment,  \* RecordReader.in_fragment
  isLast,      \* RecordReader.is_last
  status,      \* what read returned, or "running" inside its loop
  delivered    \* the records returned so far

readerVars == <<input, record, remaining, inFragment, isLast>>
streamVars == <<fragments, fed, readerVars, status, delivered>>

-----------------------------------------------------------------------------
Fragments == [last : BOOLEAN, length : 0 .. MaxFragment]

\* A byte: its fragment, and its place there.
Bytes == Nat \X Nat

\* A fragment on the wire, with its header in front (write_record writes one
\* with last set).
Wire(i) == [j \in 1 .. HeaderLen + fragments[i].length |-> <<i, j>>]
Payload(i) == SubSeq(Wire(i), HeaderLen + 1, Len(Wire(i)))
Stream == FlattenSeq([i \in DOMAIN fragments |-> Wire(i)])

ReaderTypeOK ==
  /\ fragments \in BoundedSeq(Fragments, MaxFragments)
  /\ fed \in 0 .. Len(Stream)
  /\ input \in Seq(Bytes) /\ record \in Seq(Bytes)
  /\ remaining \in 0 .. MaxFragment
  /\ inFragment \in BOOLEAN /\ isLast \in BOOLEAN
  /\ status \in {"running", "complete", "incomplete", "toolarge"}
  /\ delivered \in Seq(Seq(Bytes))

ReaderInit ==
  /\ fragments \in BoundedSeq(Fragments, MaxFragments)
  /\ fed = 0
  /\ input = <<>> /\ record = <<>>
  /\ remaining = 0
  /\ inFragment = FALSE /\ isLast = FALSE
  /\ status = "incomplete"
  /\ delivered = <<>>

-----------------------------------------------------------------------------
\* Mutant: bytes left over from the last call are forgotten.
FeedForgets(n) ==
  /\ status \in {"complete", "incomplete"}
  /\ fed + n <= Len(Stream)
  /\ input' = SubSeq(Stream, fed + 1, fed + n)
  /\ fed' = fed + n
  /\ status' = "running"
  /\ UNCHANGED <<fragments, record, remaining, inFragment, isLast, delivered>>

\* read is called with the next n bytes of the stream; none, for a caller
\* that looks for a record among the bytes left over.  An error is final:
\* the transport drops the reader.
Feed(n) ==
  /\ status \in {"complete", "incomplete"}
  /\ fed + n <= Len(Stream)
  /\ input' = input \o SubSeq(Stream, fed + 1, fed + n)
  /\ fed' = fed + n
  /\ status' = "running"
  /\ UNCHANGED <<fragments, record, remaining, inFragment, isLast, delivered>>

\* Fewer bytes than a header: wait for more.
HeaderShort ==
  /\ status = "running" /\ ~inFragment
  /\ Len(input) < HeaderLen
  /\ status' = "incomplete"
  /\ UNCHANGED <<fragments, fed, readerVars, delivered>>

\* Mutant: the limit is applied to the fragment, not to the record.
ReadHeaderChecksFragment ==
  /\ status = "running" /\ ~inFragment
  /\ Len(input) >= HeaderLen
  /\ LET header == fragments[Head(input)[1]]
     IN  /\ isLast' = header.last
         /\ IF header.length > MaxRecordSize
            THEN /\ status' = "toolarge"
                 /\ UNCHANGED <<remaining, inFragment>>
            ELSE /\ remaining' = header.length
                 /\ inFragment' = TRUE
                 /\ UNCHANGED status
  /\ input' = SubSeq(input, HeaderLen + 1, Len(input))
  /\ UNCHANGED <<fragments, fed, record, delivered>>

\* Take a header.  The length is refused before any payload is kept.
ReadHeader ==
  /\ status = "running" /\ ~inFragment
  /\ Len(input) >= HeaderLen
  /\ LET header == fragments[Head(input)[1]]
     IN  /\ isLast' = header.last
         /\ IF Len(record) + header.length > MaxRecordSize
            THEN /\ status' = "toolarge"
                 /\ UNCHANGED <<remaining, inFragment>>
            ELSE /\ remaining' = header.length
                 /\ inFragment' = TRUE
                 /\ UNCHANGED status
  /\ input' = SubSeq(input, HeaderLen + 1, Len(input))
  /\ UNCHANGED <<fragments, fed, record, delivered>>

Available == IF Len(input) < remaining THEN Len(input) ELSE remaining

\* Mutant: a delivered record stays in the buffer.
ConsumeKeepsRecord ==
  /\ status = "running" /\ inFragment
  /\ LET taken == record \o SubSeq(input, 1, Available)
         whole == remaining = Available
     IN  /\ remaining' = remaining - Available
         /\ inFragment' = ~whole
         /\ record' = taken
         /\ IF whole /\ isLast
            THEN /\ delivered' = Append(delivered, taken)
                 /\ status' = "complete"
            ELSE /\ status' = IF whole THEN "running" ELSE "incomplete"
                 /\ UNCHANGED delivered
  /\ input' = SubSeq(input, Available + 1, Len(input))
  /\ UNCHANGED <<fragments, fed, isLast>>

\* Move what there is of the fragment's payload, and return the record when
\* its last fragment is complete.
ConsumePayload ==
  /\ status = "running" /\ inFragment
  /\ LET taken == record \o SubSeq(input, 1, Available)
         whole == remaining = Available
     IN  /\ remaining' = remaining - Available
         /\ inFragment' = ~whole
         /\ IF whole /\ isLast
            THEN /\ record' = <<>>
                 /\ delivered' = Append(delivered, taken)
                 /\ status' = "complete"
            ELSE /\ record' = taken
                 /\ status' = IF whole THEN "running" ELSE "incomplete"
                 /\ UNCHANGED delivered
  /\ input' = SubSeq(input, Available + 1, Len(input))
  /\ UNCHANGED <<fragments, fed, isLast>>

ReaderNext ==
  \/ \E n \in 0 .. MaxChunk : Feed(n)
  \/ HeaderShort
  \/ ReadHeader
  \/ ConsumePayload

ReaderSpec == ReaderInit /\ [][ReaderNext]_streamVars

-----------------------------------------------------------------------------
\* Properties

\* The records of the stream, by definition: the payloads of the fragments up
\* to and including each one marked last.
Lasts == {i \in DOMAIN fragments : fragments[i].last}
RecordEnds == Ascending(Lasts)
EndBefore(k) == IF k = 1 THEN 0 ELSE RecordEnds[k - 1]

\* The payloads of the fragments after lo up to hi, joined.
Joined(lo, hi) == FlattenSeq([i \in 1 .. hi - lo |-> Payload(lo + i)])
RecordBytes(k) == Joined(EndBefore(k), RecordEnds[k])

\* The stream's length up to and including its k-th record.
EndOfRecord(k) ==
  Len(FlattenSeq([i \in 1 .. RecordEnds[k] |-> Wire(i)]))

\* However the bytes are chunked, the records returned are the records of the
\* stream, in order, byte for byte (record.rs 63-116).
RecordsInOrder ==
  /\ Len(delivered) <= Len(RecordEnds)
  /\ \A k \in DOMAIN delivered : delivered[k] = RecordBytes(k)

\* "Incomplete" is only returned when the next record has not arrived in
\* full: bytes left over after an earlier record are not forgotten (record.rs
\* 66-68), although a record found whole among them needs another call.
IncompleteMeansMissing ==
  status = "incomplete" /\ Len(delivered) < Len(RecordEnds) =>
    fed < EndOfRecord(Len(delivered) + 1)

\* A record is refused exactly when it is too long: everything returned fits
\* the limit, and after a refusal the fragments read of the current record do
\* not (record.rs 83-88).
LimitExact ==
  LET done == EndBefore(Len(delivered) + 1)
  IN  /\ Len(record) <= MaxRecordSize
      /\ \A k \in DOMAIN delivered : Len(delivered[k]) <= MaxRecordSize
      /\ status = "toolarge" =>
           \E hi \in done + 1 .. Len(fragments) :
             Len(Joined(done, hi)) > MaxRecordSize
=============================================================================
