# The NFSv4.1 client, modelled

This directory holds TLA+ models of the Rust workspace in `src/crates`: an NFSv4.1
client, its RPC transport, the wire codec, path resolution, the caches and buffers of a
mount, and the provider of AWS credentials. TLC checks each model on small instances; TLAPS proves,
for every size, the safety of the slot table and of its users (keepalive and client), of
the two file buffers, of the caches, of path resolution, of the transport, of record
reassembly, of the credential cache, and of the codec and every message on the wire.

Contents: [the system](#1-the-system), [modules](#2-modules-and-how-they-map-to-the-code),
[runs](#3-runs), [bounds](#4-bounds), [fairness](#5-fairness), [proofs](#6-proofs),
[disagreements with the docs](#7-where-the-code-and-its-docs-disagree),
[what is not modelled](#8-what-is-not-modelled), [plan](#9-plan).

## 1. The system

```
                 MountHandle (nfs-mount)          WriteBuf, ReadAheadBuf,
                    |  client mutex               AttrCache, DirCache, HandleTable
                    v                             (no caller yet)
 keepalive_loop   Nfs4Client (nfs4-client)
      |             |  SessionManager: slot table
      v             v
      COMPOUND      RpcTransport (onc-rpc): TcpTransport, RecordReader
                    |
                    v  TCP
                  server (outside the repository)

 AwsCredentialProvider <- users of resolve, background refresh task (aws-creds)
```

| component | state | operations | what is hard | correct when |
|---|---|---|---|---|
| session slots `nfs4-client/session.rs` | `in_use`, `sequence_ids` behind a mutex | `new`, `try_alloc_slot`, `release_slot` | users share the table; futures dropped between allocation and release; requests lost or refused; u32 wrap | a slot has one user; only dropped futures lose slots; no request passes for a retry; client and server count alike |
| keepalive `nfs4-client/keepalive.rs` | interval timer, watch receiver | one tick: allocate, SEQUENCE, release; shutdown | competes for slots, ignores errors, bursts after a delay, looks at shutdown between ticks only | the lease outlives stalls; the loop keeps to the slot discipline and ends on shutdown |
| client `nfs4-client/client.rs` | `client_id`, `session` | `connect` (EXCHANGE_ID, CREATE_SESSION, RECLAIM_COMPLETE), `disconnect` | each of three round trips can fail, executed or not; reconnect | a new session starts in step; slots lost are accounted for |
| compound builder `nfs4-client/compound.rs` | the operations pushed so far | one method per operation, `build` | order is up to the caller | requests are read as built and keep the order of a session |
| path resolution `nfs-mount/mount.rs`, `path.rs` | the client mutex | `resolve_path`, `to_nfs_components`, `to_nfs_path`, `split_parent_name` | concurrent callers, dropped futures, refusals; the tree changes between the LOOKUPs | every caller is answered; a refusal has a reason; a handle is the end of a walk along the whole path |
| record marking `onc-rpc/record.rs` | `input`, `record`, `remaining`, `in_fragment`, `is_last` | `read`, `write_record` | any chunking of any fragments; empty fragments; the size limit | records come out whole, in order, within the limit |
| TCP transport `onc-rpc/tcp.rs` | xid counter, stream mutex, a reader per call | `call` | futures dropped while waiting, writing or reading; late replies; partial writes | `Ok` is the call's own reply; the mutex is passed on |
| RPC messages `onc-rpc/message.rs`, `auth.rs` | none | encode, decode | hostile lengths, other flavors | what is sent is what is read |
| XDR `xdr-codec`, `xdr-derive` | none | encode, decode | padding, limits, truncated input | each decoder stops where its encoder did |
| NFS types `nfs4-types` | none | encode, decode | results follow one another without lengths | as above, for every operation |
| write buffer `nfs-mount/write_buf.rs` | `data`, `buf_offset`, `dirty` | `write`, `flush`, `take_flush` | overlap, gaps, oversized and empty writes | the file is as if every write took effect at once |
| read-ahead `nfs-mount/read_buf.rs` | `data`, `buf_offset`, `last_read_end`, `sequential_count` | `try_read`, `fetch_plan`, `fill`, `invalidate` | stale bytes, end of file, counting accesses | a hit is the file's current bytes; only sequences are read ahead |
| caches `nfs-mount/attr_cache.rs`, `dir_cache.rs` | maps with the time of insertion | `put`, `get`, `is_complete`, `invalidate`, `invalidate_all`, `evict_expired` | replies put after an invalidation; the clock moves between two looks | what is served is a bounded time old, shows own changes, and a complete listing is complete |
| handle table `nfs-mount/handle.rs` | `next_id`, `handles` | `insert`, `get`, `get_mut`, `remove` | handles kept beyond a close, closed twice | a handle never means another file; each open is closed once |
| credentials `aws-creds` | `cached`; the task's timer and backoff | `resolve`, `refresh`, the background task | overlapping fetches, failures, expiry between ticks, shutdown during a sleep | users never wait while the provider works; the task recovers and stops |

How they interact. `resolve_path` and `keepalive_loop` each follow
allocate – COMPOUND – release on a `SessionManager`. `MountHandle` serialises its callers
with a mutex around the client; a COMPOUND is one `RpcTransport::call`, which serialises
again with a mutex around the stream and reassembles the reply with a `RecordReader` of
its own. Nothing in the repository yet starts a keepalive for a mounted client: the loop
takes an `Arc<SessionManager>` and an `Arc<dyn Fn>` that sends, and `Nfs4Client` owns its
table by value. `Keepalive` models the loop beside other users of one table, which is
what the loop is written for.

`hazards` in `PROJECT.json` lists, by line, what can go wrong in this code that a test
would hardly reach, and which property covers it.

## 2. Modules and how they map to the code

`PROJECT.json` maps each definition to its lines. The tables give the correspondence of
state and actions. `MC*` modules instantiate a module for TLC. Definitions introduced by
the comment "Mutant" are slips a programmer could have made; they are used nowhere in a
specification, and each shows that the property it is listed with can fail.

### SessionSlots – the slot table, its users, and the server's side of it

| model | code |
|---|---|
| `inUse`, `sequenceIds` | `SlotTable` |
| `TryAllocSlot(s)`, `AllSlotsBusy`, `ReleaseSlot(s)` | `try_alloc_slot` (Some, None), `release_slot` |
| `pc`, `held`, `result` | a task's await point, its (slot, sequence id), what its COMPOUND returned |
| `StartRequest`, `NoSlotFree`, `FinishRequest` | the shared shape of `resolve_path` and a tick of `keepalive_loop` |
| `DropRequest` | the future is dropped while it awaits the COMPOUND; no guard releases the slot |
| `net`, `srvSeq`, `srvAlive` | external: requests under way, the server's slots, whether it knows the session |
| `Execute`, `LoseReply`, `FailUnexecuted`, `EarlyError`, `Replay`, `RejectMisordered`, `RejectBadSession`, `ForgetSession` | external: every way a COMPOUND can end |

The lock is never held across an await, so `try_alloc_slot` and `release_slot` are single
steps. The server executes the successor of the last sequence id of a slot, repeats the
last reply for the last one, and refuses any other: the rule sequence ids exist for.
`Inc` wraps as a release build does; a debug build would panic at the wrap.

### Keepalive – extends SessionSlots

`loop` is the place of `keepalive_loop` (`select!`, in a tick, returned), `due` the ticks
the interval timer owes, `shutdown` an unseen change of the watch channel. `TickSends`,
`TickSkips` and `TickEnds` are the timer branch, `LoopExits` the other. `ClockTick` is one
interval; `age` is the age of the lease at the server, in intervals. The result of the
tick's COMPOUND is ignored, its NFS status with it, as in the code.

### NfsClient – extends SessionSlots

`session`, `step` and `established` follow `connect`: `ExchangeId`, `CreateSession` /
`CreateSessionFails`, `SendReclaim`, then `ReclaimFails` (the `?` of line 173, which
returns before `release_slot`) or `ReclaimReturns`: the slot is released, and `connect`
returns `Ok` (`ReclaimAccepted`) or the status the server refused it with
(`ReclaimRefused`), the session staying in place. `Disconnect` / `DisconnectFails` are
DESTROY_SESSION answered, and not. `lockQueue` is tokio's fair mutex in `MountHandle`;
`ResolvePath`, `ResolveSends`, `ResolveRefused`, `ResolveReturns` and `ResolveDropped` are
the exits of `resolve_path`. `leaked` counts slots that nobody will release. A second
CREATE_SESSION overwrites the table; the server keeps both sessions.

### RecordReader, TcpTransport

`RecordReader` has the five fields of the struct and the loop of `read`, one iteration per
step. A byte is its fragment and its place in it, so that a byte taken from the wrong
place is told from the right one. What the stream's records are is defined apart from the
reader: a record ends at each fragment marked last (`RecordEnds`), and is the payloads
since the record before, joined. `TcpTransport` abstracts a reply record to `Parts`
pieces: `BeginCall` is `fetch_add`, then the call is encoded and queues for the mutex
(`Enqueue`) or does not encode (`EncodeFails`); `Send` is the write, `Read` one socket read
into the call's own reader, `ReadGarbage` a reader that began inside a record, `Cancel` a
future dropped at any await point, with half a record written if it was writing. `Return`
is every end of the round trip: `Verdict` says whether a record gives `Ok`, a mismatch, or
the error of the decoder or of the reader's limit, and `ConnectionClosed` is the error of a
write or read and the end of the stream. The peer answers in any order, with an xid that no
call has, with a record that is no reply (`NotAReply`) or with one beyond the limit
(`TooLong`, which the reader refuses before the record is all there). The connection ends
at any moment, with whatever was on its way (`Close`), whether or not a future was dropped.

`RpcCalls` is the promise of `RpcTransport::call`: a request is executed at most once, and
`Ok` is the reply to the call's own request, executed; an error or a dropped future says
nothing of it. `TcpTransport` implements it (`ImplementsCalls`: a call that is not idle is
current, what the peer answered is executed). These are the outcomes `SessionSlots` gives
a COMPOUND: executed and answered, executed and not answered, not executed.

### Xdr, CompoundBuilder, NfsWire

A *layout* stands for a Rust type: its values, `enc`, the bytes `encode` appends for each of
them, and `dec`, what `decode` makes of the bytes left: a value and the rest, an error, a
panic, or `Abort`: the memory that `Vec::decode` reserves for a count it has not checked is
not to be had (`DecVec`; `Room` stands for what is). `Xdr` has the layouts of the primitives of `xdr-codec` (`U32`, `Fixed`, `Opaque`,
`Vec`), those `xdr-derive` generates from the layouts of their parts, and those of the
hand-written decoders of `ReadDir4resok` (`Chain`), `AuthFlavor` (`Auth`) and
`Nfs4Client::compound` (`Body`). `t ** u` is a struct with the fields of `t` and then the field
`u`; its values are written `v & w` (`Fields`). `Arm(tags, t)` are the variants of an enum
with these discriminants and payload `t`, `e ++ f` the variants of both. A layout is a record
of functions and not a RECURSIVE operator over a description of the type, so that what is
said of each constructor can be proved of whatever is built with it.

`NfsWire` gives the layout of every message type of `nfs4-types` and `onc-rpc`, builds the
requests of `connect`, `disconnect`, `keepalive_loop` and `resolve_path` with
`CompoundBuilder` (one operator per method; the methods without a caller build the requests
of a mount's file operations), and sends one message, any value of a layout or one of these
requests: it arrives whole (`Arrives`), cut short, with bytes after it, or with one word
changed (`ArrivesAs`). Bytes are real here; this is the one place where a conversion is what
the properties are about.

### PathLookup

A path is a sequence of separators and letters. `Cuts` and `Pieces` are what `str::split`
does, `ToNfsComponents`, `ToNfsPath` and `SplitParentName` the functions of `path.rs`; `Request` is the COMPOUND `resolve_path`
builds, `ReadReply` what it makes of the answer: the status of the COMPOUND, then whether
the last result is GETFH's, then that result's own status, then its handle. A server may
also answer what it should not (`ServerMisanswers`): a success with results missing, or
with a GETFH that failed. The server carries out one operation per
step (`ServerStep`), and the tree changes between them (`TreeChanges`: any other tree, so
any number of links, unlinks and renames). `reach` and `dead` are history: how far walks
along the path's runs of characters, each step in the tree of some moment of the call,
have come (`Walked`) and how they ended (`Ended`). `Runs` says what the components are
without cutting: from each character after a separator to the next one before a separator. The lock and the slot of `resolve_path` are in `NfsClient`.

### FreshMap, MountCaches

`FreshMap` is the abstract specification: a key has what was last stored for it, for less
than its time to live, unless it was forgotten. `attrs` and `listings` are the `entries` of
the two caches, with an age in place of `inserted`; `AttrServed`, `ListServed` and
`IsComplete` are `get` and `is_complete`. An entry carries the version of the file it was
made from and how long the file has left that version. Tasks fetch and `Put`, change a
file (`Change` at the server, then `TellAttrs` and, for a directory, `TellListings` with
the two `invalidate`s), and look; while a task holds the slice `get` returned, the borrow
keeps others from changing the listings (`Borrowed`). The attributes, behind a mutex of
their own, go on changing. `toldAttrs` and `toldListings` are history: the newest change
each cache has been told of. The refinement shows an entry exactly while `get` would return it, so that
eviction, and the maximum times to live, must not be visible. The callers are assumed.

### FileContent, WriteBuffer

`FileContent` is the abstract specification: a write changes the bytes it covers, at
once. `WriteBuffer` is `WriteBuf` with a caller that sends each `FlushData` before its next
call. The refinement maps the file's content to the server's file with the buffered bytes
on top (`Visible`). The last write and the number of writes are part of both, so that the
buffer must account for the write that was made: without them, bytes put in the wrong
place would pass for a write to that place.

### ReadAhead

A `MountHandle` keeps a `ReadAheadBuf` and a `WriteBuf` per open file; `ReadAhead` extends
`WriteBuffer` with the first. `Hit` and `Miss` are the outcomes of `try_read`, `FetchPlan`
and `Invalidate` the methods of these names, `Fetch` contains `fill`. The caller is assumed:
to read, try, flush, fetch what the plan says, fill, try again; to write, pass the bytes to
the write buffer and invalidate the other at once. Counting is as in the code: the try
after a fill counts as an access too. Two rules of this caller carry the result, and
whoever wires the buffers up has to keep them: nothing is fetched while the write buffer
is dirty, and invalidation goes with the write, not with its flush.

### Credentials

`cached` and `fetch` hold the life that is left of credentials, so that time is relative
and the state finite. `UserResolves` / `UserFetched` are users in `resolve`; `TaskTick`,
`TaskResolved`, `TaskBacksOff`, `TaskWakes`, `TaskRefreshed`, `TaskExits` are the
background task. Nothing joins fetches under way; each overwrites the cache when it ends.

## 3. Runs

| run | module, cfg | shows |
|---|---|---|
| `slot_table` | MCSessionSlots, SlotTable | `SlotsExclusive`, `SlotsAccounted` (a slot is lost for each dropped future and for nothing else), `NoFalseRetry`, `FaultFreeInStep`, `LostSlotsStayLost` (a slot that lost step never works again), `SlotsReturn` (liveness) |
| `keepalive` | MCKeepalive, Keepalive | `LeaseSurvivesStalls` (two stalled intervals do not cost the lease), `ImplementsSessionSlots` (refinement), `ShutdownExits` (liveness) |
| `client_lifecycle` | MCNfsClient, ClientLifecycle | `LeaksAccounted`, `RefusalJustified` (NoSession means no session, or leaks used up the table), `ReconnectInStep`, `CallersAnswered` (liveness) |
| `record_chunks` | MCRecordReader, RecordChunks | `RecordsInOrder` against the definition of a stream's records, `IncompleteMeansMissing`, `LimitExact` |
| `transport` | MCTcpTransport, Transport | `ImplementsCalls` (refinement of RpcCalls: `Ok` is the reply to the call's own request, executed), `InStepWithoutCancel`, `CallsReturn` (liveness) |
| `wire_messages` | MCNfsWire, WireMessages | `ReadAsSent`, `CutIsRefused`, `RequestsKeepOrder` (the client's requests have SEQUENCE first, and name a file before they work on it), `ChangeIsContained` (a changed word gives a value or an error, but for the length of an AUTH_NONE body, a panic, and a count there is no memory for, an abort) |
| `file_buffers` | MCReadAhead, FileBuffers | `ImplementsFile` (refinement), `BufferBounded`, `BufferIsCurrent` and `HitsAreExact` (the application reads what it wrote, through both buffers), `OneFetchServes` (which reads one fetch serves, and which not), `AmplifiesSequencesOnly` |
| `credentials` | MCCredentials, Credentials | `CacheStaysValid`, `TaskRecovers`, `TaskStops` (liveness) |
| `mount_caches` | MCMountCaches, MountCaches | `StaleBounded` (served data is out of date for less than a time to live and one flight), `OwnChangesSeen`, `ListingsTrusted`, `ImplementsFreshMap` (refinement) |
| `path_resolution` | MCPathLookup, PathResolution | `Explained` (a handle, NOENT, NOTDIR, TOO_MANY_OPS, an unexpected reply or a GETFH that failed each have their reason), `PathForms` |
| `keepalive_hiccup`, `client_half_connected` | | violations, see section 7 |

Deadlock is checked in `file_buffers`, `credentials`, `mount_caches` and
`path_resolution`; elsewhere the bounds on calls, faults or sequence ids let the model come to
rest, or, for one message on the wire, there is nothing left to do.

## 4. Bounds

- **SlotTable**: two tasks, two slots, sequence ids 1 to 3, two failures, one dropped
  future. Two tasks are enough for a conflict on a slot; two failures put a slot two
  behind, or both slots one behind; the ids stay below the wrap (`SeqSpace` 5), because
  `OutOfStep` compares them as numbers. Ids that wrap are met in `keepalive`
  (`SeqSpace` 3, ids up to 2 and around) and in theorem `FaultFree` for every width; client
  and server count with the same `Inc` there, so that a server which wraps otherwise is not
  considered.
- **Keepalive**: one slot shared with one other user, so that ticks are skipped; lease of
  three intervals as in the code; up to three stalled intervals, one more than the lease
  survives; up to two ticks owed. Requests are fast next to an interval (the code's is 30
  seconds) except in a stalled interval.
- **ClientLifecycle**: a connector and two callers, two sessions (one reconnect), two
  failures, one dropped future: each exit of `connect` is met on the first session and on
  the second. `AtSeqBound` in `CallersAnswered` excludes only states in which the bound on
  sequence ids, which the code does not have, stops a caller.
- **RecordChunks**: headers of two bytes, up to three fragments of up to two bytes, chunks
  of up to four, limit three. A header can be split, three fragments give a record of
  three, several in a chunk, and empty ones, and the limit can be met and exceeded by one.
- **Transport**: three callers, three calls, two dropped futures, one bad reply, replies
  in two pieces, reads of up to three: a read can end inside a record and reach into the
  next, and the connection can end between the pieces of a reply with two calls in the
  queue. Fewer calls than xids are made: with 2^32 calls outstanding xids would recur.
- **WireMessages**: every operation, every union arm, strings of 0, 1, 4 and 5 bytes,
  vectors of 0 to 2 items, two error statuses (`CallValues`, `ReplyValues`); a path of no and
  of two components (`Paths`); every request of the client with both kinds of credential;
  every cut, seven bytes after a message (`Trailing`), and every word changed to 0, 1, 300
  and 301 (`DamagedWords`), of which the last is a vector there is no memory for (`Room` 300). Samples of a struct vary its fields together, not in every combination.
  `MaxWord` is 2^30 - 1 because TLC's own integers end at 2^31 - 1; it is 2^32 - 1 in the code,
  and the theorems hold for both.
- **MountCaches**: a file and a directory, two tasks, one change of each, a reply in flight
  for at most one tick. Times to live are 1 to 2 ticks for the file, 2 for the
  directory, 1 for the listing: the two limits differ, and so do those of the two kinds.
  Two tasks let a change and its invalidation fall between a reply and its put.
- **PathResolution**: a directory below the root and a file with any links; names of one
  and two letters; every path of up to five characters over a letter and both separators
  (no, leading, trailing and repeated separators; up to three components); the tree
  changes twice during a call; a session of five operations, so that two components fit
  and three do not (64 and 61 in the code).
- **FileBuffers**: a file of five bytes, write limit two, three writes of none, one and
  three bytes, the last oversized, at every offset: a write can join, overlap, precede
  and leave a gap after the buffered bytes, and a third can meet the result. Reads of up to
  three at every offset and beyond the end, read-ahead limit two, so that a read can be
  longer than it, a counter that saturates at two, where read-ahead begins.
- **Credentials**: the code's 300 s, 600 s and 1 s to 300 s become 2, 5 and 1 to 3 units;
  what matters is that a check interval and a fetch fit between expiry buffer and refresh
  window. Three failures walk the backoff to its maximum.

## 5. Fairness

Weak fairness on a task's own steps stands for the tokio runtime, which polls a task that
was woken. Strong fairness on `LoopExits` and `TaskExits` stands for `tokio::select!`,
which polls its branches in random order, so that a branch that is ready again and again
is taken. Tokio's mutex is fair: it is a queue. Weak fairness on server steps is an
assumption about the server, stated apart from that of the code: nothing in the
repository bounds how long an answer may take, and no call has a timeout. No failure, no
dropped future and no start of a request is ever fair. `WF(Clock)` is the passing of time.

## 6. Proofs

Eight modules, checked with `tlapm`; each EXTENDS the modules it is about.

| module | about |
|---|---|
| `Nfs4ClientProofs` | the slot table, and its users, keepalive and client, with its lemmas, as their models use its actions |
| `FileBufferProofs` | the write buffer, and the read-ahead buffer in front of the same file |
| `NfsMountProofs` | the caches; paths and their resolution |
| `OncRpcProofs` | the transport; the record reader |
| `XdrProofs` | the codec: each primitive, and each way of building a layout from others |
| `NfsWireProofs` | the layout of every message; the requests; messages on the wire |
| `CredentialsProofs` | the credential cache |
| `SequenceLemmas` | what the proofs need of the operators the models are built from: `Ascending`, `FlattenSeq`, `SubSeq` |

**Assumptions** are those named in the modules: `SlotsAssumption` (at least one slot, at
least two sequence ids), `KeepaliveAssumption`, `ClientAssumption`, `BufferAssumption`,
`ReadAheadAssumption`, `CachesAssumption`, `TransportAssumption` (fewer calls than xids),
`ReaderAssumption` (a header has at least one byte), `LookupAssumption` (nothing is both a
directory and a file), `XdrAssumption` (four bytes hold any word, there is memory
for vectors of four items), `WireAssumption` (messages are values of their layouts, no
status is zero, and no request has more operations than there is memory for), `CredentialsAssumption`. Beyond
these, as hypotheses of the theorems: `RetryFree`, `LostSlots` and `ReconnectsInStep` assume
`MaxSeq < SeqSpace`, they are about sessions
before the u32 wraps; `StaysValid` assumes `InTime`, that expiry buffer, a check interval
and a fetch fit into the refresh window, and with the fetch that brought the credentials
into their life. With the code's 300 s and 600 s this leaves 300 s for an interval and a
fetch together; the interval is a parameter of the task.

| theorem | states | invariant used |
|---|---|---|
| `TypeCorrect` | `Spec => []TypeOK` | itself |
| `Exclusive` | `Spec => []SlotsExclusive` | `TableInv` |
| `Accounted` | `Spec => []SlotsAccounted` | `TableInv`, and the count itself |
| `RetryFree` | `Spec => []NoFalseRetry` | `RetryInv` |
| `LostSlots` | `Spec => LostSlotsStayLost` | `RetryInv`'s bounds, step by step |
| `FaultFree` | `Spec => []FaultFreeInStep` | `StepInv` |
| `LoopKeepsDiscipline` | `KeepaliveSpec => ImplementsSessionSlots` | none: every step is one of `SessionSlots` |
| `KeepaliveTypeCorrect` | `KeepaliveSpec => []KeepaliveTypeOK` | itself |
| `LeaseHolds` | `KeepaliveSpec => []LeaseSurvivesStalls` | `LeaseInv` |
| `ClientTypeCorrect` | `ClientSpec => []ClientTypeOK` | itself |
| `LeaksCounted`, `RefusalsJustified` | `ClientSpec => []LeaksAccounted`, `[]RefusalJustified` | `LockInv` |
| `ReconnectsInStep` | `ClientSpec => []ReconnectInStep` | `ReconnectInv` |
| `ImplementsRpcCalls` | `Spec => ImplementsCalls` | `CallsInv` |
| `RoundTrips` | `Spec => []InStepWithoutCancel` | `TripInv` |
| `Conserved`, `Bounded` (write buffer) | no byte is lost, `[]BufferBounded` | a buffer with bytes is dirty, `joined` counts its writes |
| `Implements` (write buffer) | `Spec => ImplementsFile` | typing; each step is a `FileWrite` or leaves `Visible` alone |
| `WritesAsBefore` | `ReadSpec => Spec` | none: beside the read-ahead buffer the write buffer keeps its specification |
| `Current`, `Exact`, `Served`, `Sequences` | `BufferIsCurrent`, `HitsAreExact`, `OneFetchServes`, `AmplifiesSequencesOnly` | `ReadInv` |
| `Bounded`, `OwnSeen`, `Trusted` (caches) | `StaleBounded`, `OwnChangesSeen`, `ListingsTrusted` | `CachesInv` |
| `Implements` (caches) | `Spec => ImplementsFreshMap` | `CachesInv` |
| `InOrder`, `Missing`, `Limit` | `ReaderSpec => []RecordsInOrder`, `[]IncompleteMeansMissing`, `[]LimitExact` | `ReaderInv` |
| `EndsOfWalks` | `LookupSpec => []Explained` | `LookupInv` |
| `TakenApart` | `LookupSpec => []PathForms` | `LookupInv`, for the paths only; the rest are lemmas about every sequence |
| `WireCorrect` | `Spec => []WireInvariant`: what is received is what the layout makes of the bytes that arrived | itself |
| `MessagesReadAsSent`, `CutsAreRefused` | `[]ReadAsSent`, `[]CutIsRefused` | `WireInvariant`, and that every layout is a codec |
| `RequestsInSessionOrder` | `[]RequestsKeepOrder` | `WireInvariant`, and the order in which each request is built |
| `ChangesAreContained` | `[]ChangeIsContained` | `WireInvariant`, and that every layout but a credential is quiet |
| `OpaqueCodec`, `VecCodec`, `ChainCodec` | lists, of any length there is memory for, and opaques of any length are codecs | none: about the layouts |
| `StructCodec`, `EnumJoins` | structs and enums are codecs when their parts are | none: about the layouts |
| `AuthContained` | when a credential's decoder panics or aborts | none: about the layout |
| `StaysValid` | `InTime => (Spec => []CacheStaysValid)` | `CredentialsInv` |

Why the strengthenings.

- *Exclusive* alone is not inductive: that a slot found free is
  nobody's needs `HeldInUse`, every running request's slot is still marked and its sequence
  id has not moved. *Accounted* follows the set of slots that are marked and not held: only
  a request that ends without `release_slot` adds to it, and it adds one slot, because slots
  are exclusive.
- *NoFalseRetry* needs to know where every number came from: `RetryInv`
  says that each (slot, sequence id) on its way is no newer than the client's counter, is
  that counter only while the slot is in use, is not what the server executed last, and is
  sent once. Then a request can never meet its own number in the reply cache, whatever was
  lost or dropped. *FaultFreeInStep* needs the whole life of a request: `InStep` says that
  without failures a waiting task's request is on its way and is the server's next one, an
  answered task's number is the server's last, and a slot has one request at a time. It
  speaks of `Inc` only, not of order, so it holds across the wrap.
- *LeaseHolds*: `LeaseMargin` says that the lease has aged one interval for each stall, and
  one more only while a renewal is due: a tick owed or a request on its way, and none
  answered since the interval began. That a skipped tick does no harm is `Accounted` at
  work: with no slot abandoned, every slot in use has a user, whose request renews the
  lease; and `StepInv` makes the server execute it.
- *RefusalsJustified*: `OneAtATime` says that only the head of the mutex's queue, or connect
  before the client is mounted, has a request; so when the head finds every slot marked,
  all of them are abandoned. *ReconnectsInStep* needs no more: since nothing is under way
  when CREATE_SESSION returns, `RetryInv` and `StepInv` start over with the new table. Each
  step of the client is a step of `SessionSlots`, touches no slot (`Beside`), or is one of
  `CreateSession` and `ReclaimFails`.
- *ImplementsRpcCalls*: `CallsInv` says that a reply with a call's xid is that call's reply,
  executed, and that the peer has not seen a request that is still to be written; both rest
  on there being fewer calls than xids. It says nothing of order, which dropped futures
  destroy. *RoundTrips* is about order: `Trip` says that the caller that reads has its
  request at the peer, or that what it has read and what is left to read are one reply, or
  a beginning of one when the connection has ended.
- The write buffer's *Implements* rests on one lemma: putting a contiguous string after the
  buffered one is putting their concatenation. A flush moves bytes from the buffer to the
  file below it and changes nothing visible. For the read-ahead buffer, `AheadInv`: what is
  buffered ahead is the file's, and nothing is while bytes wait to be flushed, because the
  caller invalidates with the write and flushes before it fetches. `PlanInv` says where a
  fetch under way began, and that a count above zero means the read continues the last hit.
- The caches: an entry's data is out of date for at most its age and a flight, and is as
  new as the changes its cache was told of unless it was put late; the listing a task holds is the one
  in the cache, because the borrow of `get` keeps it there.
- *StaysValid*: `MarginInv` says what is left of the cached credentials' life covers the way
  to the next refresh, place by place of the task, with fetches of users overwriting the
  cache at any moment.

- *InOrder*: that the records returned so far are right says nothing of the next one, which
  is being put together across calls. `ReaderInv` says where the reader is in the stream:
  some number of fragments has been read to the end (`ReadTo`), `input` is the stream from
  there, or from inside the payload under way, to the last byte fed, `record` is the
  payloads since the last record's end, joined, and the number of records returned is the
  number of ends passed. Each step moves that place by a header, by part of a payload or to
  the next fragment. *Missing* and *Limit* are read off it: a reader that waits has used up
  what it was fed without meeting the end of a record, and the bound holds for the record
  with the rest of its fragment.
- *EndsOfWalks*: the answer is explained when it is given, but what explains it happened at
  another time and perhaps in another tree. `Sent` says that the server stands where a walk
  has been, as many components on as LOOKUPs are done. What makes that inductive is
  `Closed`: every walk that can go on in the tree as it is now is in `reach` a component
  further, and how one that cannot has ended is in `dead`. So whatever the next LOOKUP
  finds is there already, and a change of the tree (`WalkedClosed`) closes `reach` again
  without losing what it had.
- *TakenApart*: `CutsAre` and `PiecesOf` say where the pieces lie; a piece that is not empty
  is a run, because its ends are cuts and nothing between them is, and both are in ascending
  order, so they are the same sequence (`ComponentsAreRuns`, with `AscendingImage`: a map
  that keeps order takes the k-th of a set to the k-th of its image). `ReadBack` does the
  same for the NFS form, with the place of each component in the joined sequence.

- The wire. One step brings every message, so `WireInvariant` says little more than what the
  actions do; the work is in the layouts. `Codec(t, last)` says of a layout that what it
  writes are bytes (`Encodes`), that from them, *whatever follows*, it reads the value back
  and leaves what follows (`ReadsBack`; a layout that is `last` in its record, like the body
  of a call, may leave anything), and that it refuses every proper beginning of them
  (`RefusesCuts`). This is strong enough to be kept by every constructor: the first field of
  a struct is followed by the bytes of the second, so a decoder that stopped a byte early or
  late would be caught where the next one begins; and a cut falls into the first part or into
  the second. `EnumCodec` adds that the discriminant decides, so that variants with other
  discriminants do not interfere; `Numbers` and `ExactBelow` check that no operation number or
  status is used twice. `Quiet` is the other half: on any bytes, also those no encoder wrote,
  a decoder does not panic, and if it aborts it stands at four bytes of them that are too
  large a count (`Settles`: the rest it leaves is an end of what it was given, which every
  constructor keeps). All that is built without `Auth` is quiet, and its one panic
  `AuthContained` describes; since the credential and the verifier are where the header ends,
  that is all `ChangeIsContained` has to allow. *RequestsInSessionOrder* is about the values:
  a `SEQUENCE` is pushed first, and then only operations that are not (`resolve_path`'s
  LOOKUPs by induction on their number).

Induction over data. Paths, streams and lists of components have any length, and the
library's induction theorems take an operator, which the provers cannot instantiate.
`SetInduction` of `SequenceLemmas` is the same principle about a *set* of numbers, proved
from the well-foundedness of `<`; with it `FlattenExists`, `CountTo` and `FollowsExists`
show that the recursive functions behind `FlattenSeq` and `Walked` exist, and what they
are; `DecItems`, `DecEntries` and `ResolveRequest` are recursive functions for this reason.
What does not go this way are RECURSIVE operators: there is one, `Samples` of `MCNfsWire`,
which picks the values of a layout for TLC.

**Only model-checked**: liveness (`SlotsReturn`, `ShutdownExits`, `CallersAnswered`,
`CallsReturn`, `TaskRecovers`, `TaskStops`), which needs fairness and is out of the prover's
reach. Every invariant, action property and refinement of the passing runs is a theorem.

## 7. Where the code and its docs disagree

Two runs end in a violation of what the docs say.

- `keepalive_hiccup`: `keepalive.rs:19-21` promises that a failed compound does not kill
  the session. `release_slot` counts the failed keepalive though the server did not
  execute it; the next keepalive takes the same slot (the first free one) and is refused,
  as is every later one; the refusal is ignored, and the lease runs out. `LostSlots` proves
  the step this rests on.
- `client_half_connected`: `session()` is documented as "(if connected)", but `connect` sets
  `session` before RECLAIM_COMPLETE and leaves it when that is refused or fails.

Met while modelling, and part of the models without a run of their own:

- a call whose future is dropped leaves its reply in the socket; the next call takes it for
  its own, fails with a mismatch and leaves its own (`tcp.rs:84`). `InStepWithoutCancel`
  excludes dropped futures for this reason; the plan's "serializes concurrent calls, which
  is correct" (phase 1, 2949-2953) holds without them;
- a reply beyond the size limit is refused at a header of it (`tcp.rs:75`, `record.rs:83`),
  and the connection is kept with the rest of the record in it: the next call takes that for
  records of its own, and may wait for ever, with the mutex, for the end of one.
  `CallsReturn` and `InStepWithoutCancel` exclude what follows such a reply; `ImplementsCalls`
  does not, a call behind it may fail but never returns `Ok` with another's reply;
- `Vec::decode` reserves memory for a count before it has looked at an item
  (`variable.rs:107`): a damaged count, of results, of gids or of a bitmap, ends the process
  where there is no memory for it. `ChangeIsContained` states it as its second exception;
- the plan of the attribute cache (phase 4, 354-356) has a time to live that doubles on each
  hit up to the maximum. `get` always uses the minimum (`attr_cache.rs:50`); the maximum
  only decides when `evict_expired` drops entries that are no longer served, and
  `ImplementsFreshMap` shows that it is visible nowhere else;
- a RECLAIM_COMPLETE that fails in transport leaks slot 0 (`client.rs:173`); `LeaksAccounted`
  counts it;
- a tick is skipped when every slot is in use (`keepalive.rs:51-53`), which renews the
  lease only if those slots are in live requests, not leaked ones; `LeaseSurvivesStalls`
  excludes dropped futures for this reason;
- shutdown is not looked at while a keepalive awaits its answer (`keepalive.rs:62`);
  `ShutdownExits` needs a server that answers;
- the plan for a request longer than `max_size` is shorter than the request
  (`read_buf.rs:45`), and a miss and its retry count as two accesses (`read_buf.rs:21`);
- a reply made before the client's own change and put after the invalidation hides the
  change for a whole time to live: the caches keep no trace of an invalidation
  (`attr_cache.rs:62`); `OwnChangesSeen` excludes such entries, `StaleBounded` bounds them;
- a path deeper than 61 components needs more operations than the 64 the client asks for
  (`client.rs:107`), and is refused with TOO_MANY_OPS; nothing splits the COMPOUND;
- `rsize` and `wsize` default to the size of the channel's largest request and reply
  (`config.rs:23`, `client.rs:104`), which leaves no room for headers; nothing uses them yet.

## 8. What is not modelled

- `config.rs`: defaults, which the constants of the models stand for.
- `MountHandle` has the caches, the buffers and the handle table but does not use them yet.
  The two buffers of one file are composed, with the caller named in section 2; two handles
  of one file, or a write and the cached attributes of its file, are not: how they meet is
  not decided by the code.
- `handle.rs`: a counter and a map behind one mutex, without a caller. Nothing in it spans
  two calls of its methods.
- Names are sequences of letters: encodings, case and the names `.` and `..`, which the code
  passes to the server as they are, are left out.
- A future dropped inside `connect` or `disconnect`: their callers own the client and
  would drop it too.
- A server that grants no slot (`in_use.len() - 1` underflows, `session.rs:59`), or replies
  with status OK and no results (`resarray[0]` panics, `client.rs:76`): listed as hazards,
  with the reason.
- Arithmetic at the end of a type's range: `buf_offset + len` and `requested_len * 4` beyond
  64 bits, a record of 2^31 bytes, a lease below three seconds. Nothing in the repository
  comes near.
- Memory, but for the counts of vectors: `Room` is one number for vectors of any item, where
  the code's limit varies with the item's size and with what else is allocated.
- In the codec: UTF-8 validity, signed integers apart from unsigned ones, `Option` (no
  message uses it), and the bit operations of `Bitmap4`. Statuses are a few values: the
  code tells them apart by `is_ok` only. `NfsArgOp4` is decoded by the server only, and is
  given the layout its encoder writes.
- Static AWS credentials, which never expire.
- winfsp-bridge, TLS transport, reconnection, command line and service: named in
  `src/PROGRESS.md` and the design document, not written yet.

## 9. Plan

Order of work, the most important behaviour first. Done: SessionSlots, Keepalive,
NfsClient, TcpTransport as a refinement of RpcCalls, RecordReader, PathLookup, FileContent,
WriteBuffer and ReadAhead as one composition, MountCaches, Credentials, Xdr, CompoundBuilder
and NfsWire, each with its proofs.

Left, models:

1. When the mount uses its handle table, caches and buffers: the table of open files, each
   with its two buffers, beside the attribute cache (a write makes cached attributes stale),
   and two handles of one file. Until then their meeting is not decided by the code.
2. When the mount starts its keepalive: `Keepalive` composed with `NfsClient`, that is, the
   loop over a table that a reconnect replaces.
3. The configuration (`config.rs`), once `rsize` and `wsize` bound requests.

Left, proofs: the transport's outcomes as those of a COMPOUND, `SessionSlots` over
`RpcCalls`. The models of the two are composed by their descriptions only: what
`ImplementsCalls` allows a call to return is what `SessionSlots` lets happen to a request.
