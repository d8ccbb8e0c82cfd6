--------------------------- MODULE NfsMountProofs ---------------------------
(***************************************************************************)
(* The caches and the path resolution of nfs-mount.                        *)
(*                                                                         *)
(* The caches keep their promises for any handles, tasks, times to live    *)
(* and delays: what they serve is a bounded time old, shows the tasks' own *)
(* changes, and a listing said to be complete is.  And each of them is a   *)
(* FreshMap.                                                               *)
(*                                                                         *)
(* resolve_path answers what a walk along the path met, for any export and *)
(* any changes other clients make to it, and a path means its components   *)
(* for paths of any length.                                                *)
(***************************************************************************)
EXTENDS MountCaches, PathLookup, SequenceLemmas

-----------------------------------------------------------------------------
(* MountCaches *)

\* An entry's data has been out of date for at most its age and a flight, and
\* is as new as the tasks' changes unless it was put late.
AttrsInv ==
  \A h \in Handles : attrs[h] # None =>
    /\ attrs[h].data.stale <= attrs[h].age + MaxFlight
    /\ ~attrs[h].late => attrs[h].data.of >= toldAttrs[h]

ListingsInv ==
  \A h \in Dirs : listings[h] # None =>
    /\ listings[h].data.stale <= listings[h].age + MaxFlight
    /\ ~listings[h].late => listings[h].data.of >= toldListings[h]
    /\ listings[h].complete => listings[h].data.whole

\* A reply ages with its flight, and a listing that a task holds is the one
\* in the cache: the borrow keeps it there.
TasksInv ==
  \A t \in Tasks :
    /\ Does(t, "putattr") \/ Does(t, "putdir") => task[t].reply.stale <= task[t].flight
    /\ Does(t, "lists") =>
         /\ listings[task[t].h] # None
         /\ listings[task[t].h].data = task[t].reply

CachesInv ==
  TypeOK /\ AttrsInv /\ ListingsInv /\ TasksInv /\ ListingsTrusted

-----------------------------------------------------------------------------
\* What a task in hand looks like.
LEMMA TaskShape ==
  ASSUME TypeOK, NEW t \in Tasks
  PROVE  /\ task[t] \in TaskStates
         /\ Does(t, "putattr") =>
              /\ task[t].h \in Handles /\ task[t].reply \in Replies
              /\ task[t].flight \in 0 .. MaxFlight
         /\ Does(t, "putdir") =>
              /\ task[t].h \in Dirs /\ task[t].reply \in Replies
              /\ task[t].flight \in 0 .. MaxFlight
         /\ Does(t, "changed") => task[t].h \in Handles /\ task[t].of \in Versions
         /\ Does(t, "halftold") => task[t].h \in Dirs /\ task[t].of \in Versions
         /\ Does(t, "lists") \/ Does(t, "trusts") =>
              task[t].h \in Dirs /\ task[t].reply \in Replies
  BY DEF TypeOK, TaskStates, Does, Idle

\* A reply that gets out of date by a tick is the same otherwise.
LEMMA StalerReply ==
  ASSUME TypeOK, NEW h \in Handles, NEW r \in Replies
  PROVE  /\ Staler(h, r) \in Replies
         /\ Staler(h, r).of = r.of /\ Staler(h, r).whole = r.whole
         /\ Staler(h, r).stale <= r.stale + 1
         /\ Staler(h, r).stale <= MaxAge + MaxFlight
<1>1. MaxAge + MaxFlight \in Nat
  BY CachesAssumption
<1> QED
  BY <1>1, CachesAssumption DEF Staler, Replies, Staleness

\* An entry ages, and its data with it.
LEMMA OlderAttrs ==
  ASSUME TypeOK, NEW h \in Handles, NEW e \in AttrEntries
  PROVE  /\ Older(h, e) \in AttrEntries
         /\ Older(h, e).data = Staler(h, e.data)
         /\ Older(h, e).late = e.late
         /\ Older(h, e).age = IF e.age < MaxAge THEN e.age + 1 ELSE e.age
<1> DEFINE y == IF e.age < MaxAge THEN e.age + 1 ELSE e.age
<1>1. Staler(h, e.data) \in Replies
  BY StalerReply DEF AttrEntries
<1>2. y \in 0 .. MaxAge
  BY CachesAssumption DEF AttrEntries
<1>3. Older(h, e) = [e EXCEPT !.data = Staler(h, e.data), !.age = y]
  BY DEF Older
<1>4. \A x \in Replies, n \in 0 .. MaxAge :
        [e EXCEPT !.data = x, !.age = n] \in AttrEntries
  BY DEF AttrEntries
<1>5. Older(h, e) \in AttrEntries
  BY <1>1, <1>2, <1>3, <1>4
<1> QED
  BY <1>5 DEF AttrEntries, Older

\* A listing ages, and its data with it.
LEMMA OlderListing ==
  ASSUME TypeOK, NEW h \in Dirs, NEW e \in ListEntries
  PROVE  /\ Older(h, e) \in ListEntries
         /\ Older(h, e).data = Staler(h, e.data)
         /\ Older(h, e).late = e.late /\ Older(h, e).complete = e.complete
         /\ Older(h, e).age = IF e.age < MaxAge THEN e.age + 1 ELSE e.age
<1> DEFINE y == IF e.age < MaxAge THEN e.age + 1 ELSE e.age
<1>1. Staler(h, e.data) \in Replies
  BY StalerReply, CachesAssumption DEF ListEntries
<1>2. y \in 0 .. MaxAge
  BY CachesAssumption DEF ListEntries
<1>3. Older(h, e) = [e EXCEPT !.data = Staler(h, e.data), !.age = y]
  BY DEF Older
<1>4. \A x \in Replies, n \in 0 .. MaxAge :
        [e EXCEPT !.data = x, !.age = n] \in ListEntries
  BY DEF ListEntries
<1>5. Older(h, e) \in ListEntries
  BY <1>1, <1>2, <1>3, <1>4
<1> QED
  BY <1>5 DEF ListEntries, Older

\* Entries are not None.
LEMMA EntriesAreSome ==
  /\ \A e \in AttrEntries : e # None
  /\ \A e \in ListEntries : e # None
<1>1. 0 .. MaxAge \subseteq Nat
  BY CachesAssumption
<1> QED
  BY <1>1 DEF AttrEntries, ListEntries, None

\* Empty caches keep their promises.
LEMMA InitCaches == Init => CachesInv
<1> SUFFICES ASSUME Init PROVE CachesInv
  OBVIOUS
<1>1. TypeOK
  BY CachesAssumption DEF Init, TypeOK, Versions, TaskStates
<1>2. \A t \in Tasks : ~Does(t, "putattr") /\ ~Does(t, "putdir")
                       /\ ~Does(t, "lists") /\ ~Does(t, "trusts")
  BY DEF Init, Does, Idle
<1>3. AttrsInv /\ ListingsInv
  BY CachesAssumption DEF Init, AttrsInv, ListingsInv
<1> QED
  BY <1>1, <1>2, <1>3 DEF CachesInv, TasksInv, ListingsTrusted

-----------------------------------------------------------------------------
\* A reply becomes an entry.
LEMMA NewEntries ==
  ASSUME TypeOK, NEW r \in Replies
  PROVE  /\ \A h \in Handles : NewAttrs(h, r) \in AttrEntries
         /\ \A h \in Dirs : NewListing(h, r) \in ListEntries
<1>1. \A b \in BOOLEAN :
        /\ [data |-> r, age |-> 0, late |-> b] \in AttrEntries
        /\ [data |-> r, complete |-> r.whole, age |-> 0, late |-> b] \in ListEntries
  BY CachesAssumption DEF AttrEntries, ListEntries, Replies
<1>2. /\ \A h \in Handles : (r.of < toldAttrs[h]) \in BOOLEAN
      /\ \A h \in Dirs : (r.of < toldListings[h]) \in BOOLEAN
  OBVIOUS
<1> QED
  BY <1>1, <1>2, CachesAssumption DEF NewAttrs, NewListing

\* One task turns to something else; the listings stay, or nobody holds one.
LEMMA OneTaskMoves ==
  ASSUME CachesInv, NEW t \in Tasks, NEW s \in TaskStates,
         task' = [task EXCEPT ![t] = s],
         UNCHANGED listings \/ ~Borrowed,
         s.does \in {"putattr", "putdir"} => s.reply.stale <= s.flight,
         s.does = "lists" => listings'[s.h] # None /\ listings'[s.h].data = s.reply,
         s.does = "trusts" => s.reply.whole /\ s.reply.stale < ListTtl + MaxFlight
  PROVE  task' \in [Tasks -> TaskStates] /\ TasksInv' /\ ListingsTrusted'
<1>1. task \in [Tasks -> TaskStates]
  BY DEF CachesInv, TypeOK
<1>2. /\ task' \in [Tasks -> TaskStates]
      /\ task'[t] = s
      /\ \A u \in Tasks : u # t => task'[u] = task[u]
  BY <1>1
<1> SUFFICES ASSUME NEW u \in Tasks
             PROVE  /\ (Does(u, "putattr"))' \/ (Does(u, "putdir"))' =>
                         (task[u].reply.stale <= task[u].flight)'
                    /\ (Does(u, "lists"))' =>
                         /\ (listings[task[u].h] # None)'
                         /\ (listings[task[u].h].data = task[u].reply)'
                    /\ (Does(u, "trusts"))' =>
                         /\ (task[u].reply.whole)'
                         /\ (task[u].reply.stale < ListTtl + MaxFlight)'
  BY <1>2 DEF TasksInv, ListingsTrusted
<1>3. CASE u = t
  BY <1>2, <1>3 DEF Does
<1>4. CASE u # t
  <2>1. task'[u] = task[u]
    BY <1>2, <1>4
  <2>2. UNCHANGED listings \/ ~Does(u, "lists")
    BY DEF Borrowed
  <2> QED
    BY <2>1, <2>2 DEF CachesInv, TasksInv, ListingsTrusted, Does
<1> QED
  BY <1>3, <1>4

\* A task with nothing in hand.
LEMMA IdleTask == Idle \in TaskStates /\ Idle.does = "nothing"
  BY DEF Idle, TaskStates

\* A reply is put into a cache, however late.
LEMMA PutKeeps ==
  ASSUME CachesInv, NEW t \in Tasks, Put(t)
  PROVE  CachesInv'
<1>0. /\ task' = [task EXCEPT ![t] = Idle] /\ (UNCHANGED listings \/ ~Borrowed)
      /\ UNCHANGED <<version, toldAttrs, toldListings>>
  BY DEF Put, told
<1>1. TypeOK
  BY DEF CachesInv
<1>2. task' \in [Tasks -> TaskStates] /\ TasksInv' /\ ListingsTrusted'
  BY <1>0, IdleTask, OneTaskMoves
<1>4. CASE Does(t, "putattr") /\ listings' = listings
           /\ attrs' = [attrs EXCEPT ![task[t].h] = NewAttrs(task[t].h, task[t].reply)]
  <2> DEFINE h == task[t].h
             e == NewAttrs(h, task[t].reply)
  <2>1. /\ h \in Handles /\ task[t].reply \in Replies
        /\ task[t].flight \in 0 .. MaxFlight
        /\ task[t].reply.stale <= task[t].flight
    BY <1>1, <1>4, TaskShape DEF CachesInv, TasksInv
  <2>2. e \in AttrEntries
    BY <1>1, <2>1, NewEntries
  <2>3. /\ e.data = task[t].reply /\ e.age = 0
        /\ ~e.late => ~(task[t].reply.of < toldAttrs[h])
    BY DEF NewAttrs
  <2>4. attrs' \in [Handles -> {None} \cup AttrEntries]
    BY <1>1, <1>4, <2>1, <2>2 DEF TypeOK
  <2>5. TypeOK'
    BY <1>0, <1>1, <1>2, <1>4, <2>4 DEF TypeOK
  <2>6. AttrsInv'
    <3> SUFFICES ASSUME NEW g \in Handles, attrs'[g] # None
                 PROVE  /\ attrs'[g].data.stale <= attrs'[g].age + MaxFlight
                        /\ ~attrs'[g].late => attrs'[g].data.of >= toldAttrs[g]
      BY <1>0 DEF AttrsInv
    <3>1. CASE g = h
      <4>1. attrs'[g] = e
        BY <1>1, <1>4, <2>1, <3>1 DEF TypeOK
      <4>2. toldAttrs[g] \in Int /\ task[t].reply.of \in Int /\ task[t].reply.stale \in Int
        BY <1>1, <2>1, CachesAssumption DEF TypeOK, Replies, Versions, Staleness
      <4> HIDE DEF e
      <4> QED
        BY <2>1, <2>3, <3>1, <4>1, <4>2, CachesAssumption
    <3>2. CASE g # h
      <4>1. attrs'[g] = attrs[g]
        BY <1>1, <1>4, <2>1, <3>2 DEF TypeOK
      <4> QED
        BY <4>1 DEF CachesInv, AttrsInv
    <3> QED
      BY <3>1, <3>2
  <2>7. ListingsInv'
    BY <1>0, <1>4 DEF CachesInv, ListingsInv
  <2> QED
    BY <1>2, <2>5, <2>6, <2>7 DEF CachesInv
<1>5. CASE Does(t, "putdir") /\ attrs' = attrs
           /\ listings' = [listings EXCEPT ![task[t].h] =
                             NewListing(task[t].h, task[t].reply)]
  <2> DEFINE h == task[t].h
             e == NewListing(h, task[t].reply)
  <2>1. /\ h \in Dirs /\ task[t].reply \in Replies
        /\ task[t].flight \in 0 .. MaxFlight
        /\ task[t].reply.stale <= task[t].flight
    BY <1>1, <1>5, TaskShape DEF CachesInv, TasksInv
  <2>2. e \in ListEntries
    BY <1>1, <2>1, NewEntries
  <2>3. /\ e.data = task[t].reply /\ e.age = 0
        /\ ~e.late => ~(task[t].reply.of < toldListings[h])
        /\ e.complete = task[t].reply.whole
    BY DEF NewListing
  <2>4. listings' \in [Dirs -> {None} \cup ListEntries]
    BY <1>1, <1>5, <2>1, <2>2 DEF TypeOK
  <2>5. TypeOK'
    BY <1>0, <1>1, <1>2, <1>5, <2>4 DEF TypeOK
  <2>6. ListingsInv'
    <3> SUFFICES ASSUME NEW g \in Dirs, listings'[g] # None
                 PROVE  /\ listings'[g].data.stale <= listings'[g].age + MaxFlight
                        /\ ~listings'[g].late => listings'[g].data.of >= toldListings[g]
                        /\ listings'[g].complete => listings'[g].data.whole
      BY <1>0 DEF ListingsInv
    <3>1. CASE g = h
      <4>1. listings'[g] = e
        BY <1>1, <1>5, <2>1, <3>1 DEF TypeOK
      <4>2. toldListings[g] \in Int /\ task[t].reply.of \in Int /\ task[t].reply.stale \in Int
        BY <1>1, <2>1, CachesAssumption DEF TypeOK, Replies, Versions, Staleness
      <4> HIDE DEF e
      <4> QED
        BY <2>1, <2>3, <3>1, <4>1, <4>2, CachesAssumption
    <3>2. CASE g # h
      <4>1. listings'[g] = listings[g]
        BY <1>1, <1>5, <2>1, <3>2 DEF TypeOK
      <4> QED
        BY <4>1 DEF CachesInv, ListingsInv
    <3> QED
      BY <3>1, <3>2
  <2>7. AttrsInv'
    BY <1>0, <1>5 DEF CachesInv, AttrsInv
  <2> QED
    BY <1>2, <2>5, <2>6, <2>7 DEF CachesInv
<1> QED
  BY <1>4, <1>5 DEF Put

\* A task that asks, or starts a change, leaves the caches alone.
LEMMA AsksKeep ==
  ASSUME CachesInv, NEW t \in Tasks, Answer(t) \/ Change(t)
  PROVE  CachesInv'
<1>1. TypeOK /\ UNCHANGED <<toldAttrs, toldListings, attrs, listings>>
  BY DEF CachesInv, Answer, Change, told
<1>2. version' \in [Handles -> Versions]
  <2>1. CASE Answer(t)
    BY <1>1, <2>1 DEF Answer, TypeOK
  <2>2. CASE Change(t)
    <3>1. PICK h \in Handles : version[h] < MaxVersion
                               /\ version' = [version EXCEPT ![h] = @ + 1]
      BY <2>2 DEF Change
    <3>2. version[h] + 1 \in Versions
      BY <1>1, <3>1, CachesAssumption DEF TypeOK, Versions
    <3> QED
      BY <1>1, <3>1, <3>2 DEF TypeOK
  <2> QED
    BY <2>1, <2>2
<1>3. PICK s \in TaskStates :
        /\ task' = [task EXCEPT ![t] = s]
        /\ s.does \in {"putattr", "putdir"} => s.reply.stale <= s.flight
        /\ s.does # "lists" /\ s.does # "trusts"
  <2>0. 0 \in 0 .. MaxFlight /\ 0 \in Staleness /\ 0 <= 0
    BY CachesAssumption DEF Staleness
  <2>1. CASE Answer(t)
    <3>1. ASSUME NEW h \in Handles, NEW whole \in BOOLEAN, NEW what \in {"putattr", "putdir"},
                 what = "putdir" => h \in Dirs,
                 NEW s, s = [does |-> what, h |-> h, flight |-> 0,
                             reply |-> [of |-> version[h], stale |-> 0, whole |-> whole]]
          PROVE  /\ s \in TaskStates /\ s.does # "lists" /\ s.does # "trusts"
                 /\ s.reply.stale <= s.flight
      <4>1. [of |-> version[h], stale |-> 0, whole |-> whole] \in Replies
        BY <1>1, <2>0 DEF TypeOK, Replies
      <4>2. s \in TaskStates
        BY <2>0, <3>1, <4>1 DEF TaskStates
      <4> QED
        BY <2>0, <3>1, <4>2
    <3>2. PICK h \in Handles, whole \in BOOLEAN, what \in {"putattr", "putdir"} :
            /\ what = "putdir" => h \in Dirs
            /\ task' = [task EXCEPT ![t] =
                 [does |-> what, h |-> h, flight |-> 0,
                  reply |-> [of |-> version[h], stale |-> 0, whole |-> whole]]]
      <4>1. Dirs \subseteq Handles
        BY CachesAssumption
      <4> QED
        BY <2>1, <4>1, Zenon DEF Answer
    <3> QED
      BY <3>1, <3>2
  <2>2. CASE Change(t)
    <3>1. PICK h \in Handles :
            task' = [task EXCEPT ![t] = [does |-> "changed", h |-> h, of |-> version'[h]]]
      BY <2>2 DEF Change
    <3> DEFINE s == [does |-> "changed", h |-> h, of |-> version'[h]]
    <3>2. s \in TaskStates /\ s.does = "changed"
      BY <1>2 DEF TaskStates
    <3> HIDE DEF s
    <3> QED
      BY <3>1, <3>2 DEF s
  <2> QED
    BY <2>1, <2>2
<1>4. task' \in [Tasks -> TaskStates] /\ TasksInv' /\ ListingsTrusted'
  BY <1>1, <1>3, OneTaskMoves
<1>5. TypeOK'
  BY <1>1, <1>2, <1>4 DEF TypeOK
<1>6. AttrsInv' /\ ListingsInv'
  BY <1>1 DEF CachesInv, AttrsInv, ListingsInv
<1> QED
  BY <1>4, <1>5, <1>6 DEF CachesInv

\* The newer of two versions.
LEMMA NewestIs ==
  ASSUME NEW v \in Versions, NEW w \in Versions
  PROVE  Newest(v, w) \in Versions
  BY DEF Newest

\* A change of a task, once done, is newer than the attributes of the file,
\* which go.
LEMMA TellAttrsKeeps ==
  ASSUME CachesInv, NEW t \in Tasks, TellAttrs(t)
  PROVE  CachesInv'
<1> DEFINE h == task[t].h
           s == IF h \in Dirs THEN [task[t] EXCEPT !.does = "halftold"] ELSE Idle
<1>1. /\ TypeOK /\ Does(t, "changed")
      /\ UNCHANGED <<version, toldListings, listings>>
      /\ task' = [task EXCEPT ![t] = s]
      /\ toldAttrs' = [toldAttrs EXCEPT ![h] = Newest(task[t].of, @)]
      /\ attrs' = [attrs EXCEPT ![h] = None]
  BY DEF CachesInv, TellAttrs, InvalidateAttrs
<1>2. h \in Handles /\ task[t].of \in Versions
  BY <1>1, TaskShape
<1>3. s \in TaskStates /\ s.does \in {"halftold", "nothing"}
  <2>1. task[t] \in [does : {"changed"}, h : Handles, of : Versions]
    BY <1>1 DEF TypeOK, TaskStates, Does, Idle
  <2>2. h \in Dirs => [task[t] EXCEPT !.does = "halftold"]
                        \in [does : {"halftold"}, h : Dirs, of : Versions]
    BY <2>1
  <2> QED
    BY <2>2, IdleTask DEF TaskStates
<1> HIDE DEF s
<1>4. task' \in [Tasks -> TaskStates] /\ TasksInv' /\ ListingsTrusted'
  BY <1>1, <1>3, OneTaskMoves
<1>5. /\ toldAttrs' \in [Handles -> Versions]
      /\ attrs' \in [Handles -> {None} \cup AttrEntries]
  <2>1. Newest(task[t].of, toldAttrs[h]) \in Versions
    BY <1>1, <1>2, NewestIs DEF TypeOK
  <2> QED
    BY <1>1, <1>2, <2>1 DEF TypeOK
<1>6. TypeOK'
  BY <1>1, <1>4, <1>5 DEF TypeOK
<1>7. AttrsInv'
  <2>1. attrs'[h] = None
    BY <1>1, <1>2 DEF TypeOK
  <2>2. \A g \in Handles : g # h => attrs'[g] = attrs[g] /\ toldAttrs'[g] = toldAttrs[g]
    BY <1>1, <1>2 DEF TypeOK
  <2> QED
    BY <2>1, <2>2 DEF CachesInv, AttrsInv
<1>8. ListingsInv'
  BY <1>1 DEF CachesInv, ListingsInv
<1> QED
  BY <1>4, <1>6, <1>7, <1>8 DEF CachesInv

\* And newer than the listing, which goes when nobody holds one.
LEMMA TellListingsKeeps ==
  ASSUME CachesInv, NEW t \in Tasks, TellListings(t)
  PROVE  CachesInv'
<1> DEFINE h == task[t].h
<1>1. /\ TypeOK /\ ~Borrowed /\ Does(t, "halftold")
      /\ UNCHANGED <<version, toldAttrs, attrs>>
      /\ task' = [task EXCEPT ![t] = Idle]
      /\ toldListings' = [toldListings EXCEPT ![h] = Newest(task[t].of, @)]
      /\ listings' = [listings EXCEPT ![h] = None]
  BY DEF CachesInv, TellListings, InvalidateListing
<1>2. h \in Dirs /\ task[t].of \in Versions
  BY <1>1, TaskShape
<1>3. task' \in [Tasks -> TaskStates] /\ TasksInv' /\ ListingsTrusted'
  BY <1>1, IdleTask, OneTaskMoves
<1>4. /\ toldListings' \in [Dirs -> Versions]
      /\ listings' \in [Dirs -> {None} \cup ListEntries]
  <2>1. Newest(task[t].of, toldListings[h]) \in Versions
    BY <1>1, <1>2, NewestIs DEF TypeOK
  <2> QED
    BY <1>1, <1>2, <2>1 DEF TypeOK
<1>5. TypeOK'
  BY <1>1, <1>3, <1>4 DEF TypeOK
<1>6. ListingsInv'
  <2>1. listings'[h] = None
    BY <1>1, <1>2 DEF TypeOK
  <2>2. \A g \in Dirs : g # h => /\ listings'[g] = listings[g]
                                 /\ toldListings'[g] = toldListings[g]
    BY <1>1, <1>2 DEF TypeOK
  <2> QED
    BY <2>1, <2>2 DEF CachesInv, ListingsInv
<1>7. AttrsInv'
  BY <1>1 DEF CachesInv, AttrsInv
<1> QED
  BY <1>3, <1>5, <1>6, <1>7 DEF CachesInv

\* Attributes may go at any time, and listings when nobody holds one; other
\* clients change nothing here.
LEMMA FewerKeeps ==
  ASSUME CachesInv, InvalidateAll \/ EvictAttrs \/ EvictListings \/ OtherClientChanges
  PROVE  CachesInv'
<1>1. /\ TypeOK /\ UNCHANGED <<toldAttrs, toldListings, task>>
      /\ UNCHANGED listings \/ ~Borrowed
  BY DEF CachesInv, InvalidateAll, EvictAttrs, EvictListings, OtherClientChanges, told
<1>2. /\ \A h \in Handles : attrs'[h] \in {attrs[h], None}
      /\ \A h \in Dirs : listings'[h] \in {listings[h], None}
  BY DEF InvalidateAll, EvictAttrs, EvictListings, OtherClientChanges
<1>3. /\ attrs' \in [Handles -> {None} \cup AttrEntries]
      /\ listings' \in [Dirs -> {None} \cup ListEntries]
  BY <1>1 DEF TypeOK, InvalidateAll, EvictAttrs, EvictListings, OtherClientChanges
<1>4. version' \in [Handles -> Versions]
  <2>1. CASE UNCHANGED version
    BY <1>1, <2>1 DEF TypeOK
  <2>2. CASE OtherClientChanges
    <3>1. PICK h \in Handles : version[h] < MaxVersion
                               /\ version' = [version EXCEPT ![h] = @ + 1]
      BY <2>2 DEF OtherClientChanges
    <3>2. version[h] + 1 \in Versions
      BY <1>1, <3>1, CachesAssumption DEF TypeOK, Versions
    <3> QED
      BY <1>1, <3>1, <3>2 DEF TypeOK
  <2> QED
    BY <2>1, <2>2 DEF InvalidateAll, EvictAttrs, EvictListings
<1>5. TypeOK'
  BY <1>1, <1>3, <1>4 DEF TypeOK
<1>6. AttrsInv' /\ ListingsInv'
  BY <1>1, <1>2 DEF CachesInv, AttrsInv, ListingsInv
<1>7. TasksInv' /\ ListingsTrusted'
  BY <1>1 DEF CachesInv, TasksInv, ListingsTrusted, Does, Borrowed
<1> QED
  BY <1>5, <1>6, <1>7 DEF CachesInv

\* The listing taken is still there when is_complete is asked, or asking says
\* no.
LEMMA LooksKeep ==
  ASSUME CachesInv, NEW t \in Tasks, ReadListing(t) \/ AskComplete(t) \/ Conclude(t)
  PROVE  CachesInv'
<1>1. TypeOK /\ UNCHANGED <<version, toldAttrs, toldListings, attrs, listings>>
  BY DEF CachesInv, ReadListing, AskComplete, Conclude, told
<1>2. task' \in [Tasks -> TaskStates] /\ TasksInv' /\ ListingsTrusted'
  <2>1. CASE ReadListing(t)
    <3>1. PICK h \in Dirs :
            /\ ListServed(h)
            /\ task' = [task EXCEPT ![t] =
                 [does |-> "lists", h |-> h, reply |-> listings[h].data]]
      BY <2>1 DEF ReadListing
    <3> DEFINE s == [does |-> "lists", h |-> h, reply |-> listings[h].data]
    <3>2. listings[h] # None /\ listings[h].data \in Replies
      BY <1>1, <3>1 DEF TypeOK, ListServed, ListEntries
    <3>3. /\ s \in TaskStates /\ s.does = "lists"
          /\ s.h = h /\ s.reply = listings[h].data
      BY <3>2 DEF TaskStates
    <3> HIDE DEF s
    <3> QED
      BY <1>1, <3>1, <3>2, <3>3, OneTaskMoves DEF s
  <2>2. CASE AskComplete(t)
    <3> DEFINE s == [task[t] EXCEPT !.does = "trusts"]
    <3>1. CASE IsComplete(task[t].h)
      <4>1. task' = [task EXCEPT ![t] = s]
        BY <2>2, <3>1 DEF AskComplete
      <4>2. /\ task[t] \in [does : {"lists", "trusts"}, h : Dirs, reply : Replies]
            /\ Does(t, "lists")
        BY <1>1, <2>2 DEF AskComplete, TypeOK, TaskStates, Does, Idle
      <4>3. /\ s \in [does : {"lists", "trusts"}, h : Dirs, reply : Replies]
            /\ s.does = "trusts" /\ s.reply = task[t].reply
        BY <4>2
      <4>4. s \in TaskStates
        BY <4>3 DEF TaskStates
      <4>5. /\ listings[task[t].h] \in ListEntries
            /\ listings[task[t].h].data = task[t].reply
            /\ listings[task[t].h].data.whole
            /\ listings[task[t].h].data.stale <= listings[task[t].h].age + MaxFlight
            /\ listings[task[t].h].age < ListTtl
        BY <1>1, <3>1, <4>2 DEF CachesInv, TasksInv, ListingsInv, IsComplete, TypeOK
      <4>6. task[t].reply.whole /\ task[t].reply.stale < ListTtl + MaxFlight
        <5>1. /\ task[t].reply.stale \in Int /\ listings[task[t].h].age \in Int
              /\ ListTtl \in Int /\ MaxFlight \in Int
          BY <4>2, <4>5, CachesAssumption DEF ListEntries, Replies, Staleness
        <5> QED
          BY <4>5, <5>1
      <4> HIDE DEF s
      <4> QED
        BY <1>1, <4>1, <4>3, <4>4, <4>6, OneTaskMoves
    <3>2. CASE ~IsComplete(task[t].h)
      BY <1>1, <2>2, <3>2, IdleTask, OneTaskMoves DEF AskComplete
    <3> QED
      BY <3>1, <3>2
  <2>3. CASE Conclude(t)
    BY <1>1, <2>3, IdleTask, OneTaskMoves DEF Conclude
  <2> QED
    BY <2>1, <2>2, <2>3
<1>3. TypeOK'
  BY <1>1, <1>2 DEF TypeOK
<1>4. AttrsInv' /\ ListingsInv'
  BY <1>1 DEF CachesInv, AttrsInv, ListingsInv
<1> QED
  BY <1>2, <1>3, <1>4 DEF CachesInv

\* A tick makes an entry one older and its data at most one staler, up to the
\* caps on both.
LEMMA TickKeepsBound ==
  ASSUME NEW s \in Nat, NEW a \in 0 .. MaxAge, NEW s2 \in Nat, NEW a2,
         s <= a + MaxFlight, s2 <= s + 1, s2 <= MaxAge + MaxFlight,
         a2 = IF a < MaxAge THEN a + 1 ELSE a
  PROVE  s2 <= a2 + MaxFlight
  BY CachesAssumption

\* A tick ages the replies in flight with their flights.
LEMMA TickKeepsTasks ==
  ASSUME CachesInv, Tick
  PROVE  task' \in [Tasks -> TaskStates] /\ TasksInv' /\ ListingsTrusted'
<1>1. TypeOK
  BY DEF CachesInv
<1>2. SUFFICES ASSUME NEW t \in Tasks
               PROVE  /\ task'[t] \in TaskStates
                      /\ (Does(t, "putattr"))' \/ (Does(t, "putdir"))' =>
                           (task[t].reply.stale <= task[t].flight)'
                      /\ (Does(t, "lists"))' =>
                           /\ (listings[task[t].h] # None)'
                           /\ (listings[task[t].h].data = task[t].reply)'
                      /\ ~(Does(t, "trusts"))'
  <2>1. task' = [t \in Tasks |-> task'[t]]
    BY DEF Tick
  <2> QED
    BY <1>2, <2>1 DEF TasksInv, ListingsTrusted
<1>3. task[t] \in TaskStates /\ ~Does(t, "trusts")
  BY <1>1 DEF Tick, TypeOK
<1>4. CASE Does(t, "putattr") \/ Does(t, "putdir")
  <2> DEFINE r == Staler(task[t].h, task[t].reply)
             n == task[t].flight + 1
  <2>1. /\ task'[t] = [task[t] EXCEPT !.reply = r, !.flight = n]
        /\ task[t].flight < MaxFlight
    BY <1>4 DEF Tick
  <2>2. /\ task[t].h \in Handles /\ task[t].reply \in Replies
        /\ task[t].flight \in 0 .. MaxFlight /\ task[t].reply.stale <= task[t].flight
    BY <1>1, <1>4, TaskShape, CachesAssumption DEF CachesInv, TasksInv
  <2>3. n \in 0 .. MaxFlight
    BY <2>1, <2>2, CachesAssumption
  <2>4. r \in Replies /\ r.stale <= task[t].reply.stale + 1
    BY <1>1, <2>2, StalerReply
  <2>5. r.stale <= n
    <3>1. r.stale \in Int /\ task[t].reply.stale \in Int /\ task[t].flight \in Int
      BY <2>2, <2>4, CachesAssumption DEF Replies, Staleness
    <3> QED
      BY <2>2, <2>4, <3>1
  <2> HIDE DEF r, n
  <2>6. \/ task[t] \in
             [does : {"putattr"}, h : Handles, reply : Replies, flight : 0 .. MaxFlight]
        \/ task[t] \in
             [does : {"putdir"}, h : Dirs, reply : Replies, flight : 0 .. MaxFlight]
    BY <1>3, <1>4 DEF TaskStates, Does, Idle
  <2>7. /\ task'[t] \in TaskStates
        /\ task'[t].reply = r /\ task'[t].flight = n
        /\ task'[t].does \in {"putattr", "putdir"}
    BY <2>1, <2>3, <2>4, <2>6 DEF TaskStates
  <2> QED
    BY <2>5, <2>7 DEF Does
<1>5. CASE Does(t, "lists")
  <2> DEFINE r == Staler(task[t].h, task[t].reply)
  <2>1. /\ task'[t] = [task[t] EXCEPT !.reply = r]
        /\ task[t] \in [does : {"lists", "trusts"}, h : Dirs, reply : Replies]
    <3>1. task[t] \in [does : {"lists", "trusts"}, h : Dirs, reply : Replies]
      BY <1>3, <1>5 DEF TaskStates, Does, Idle
    <3>2. ~(Does(t, "putattr") \/ Does(t, "putdir"))
      BY <1>5 DEF Does
    <3>3. task'[t] = [task[t] EXCEPT !.reply = r]
      BY <1>5, <3>2 DEF Tick
    <3> QED
      BY <3>1, <3>3
  <2>2. /\ listings[task[t].h] # None /\ listings[task[t].h].data = task[t].reply
        /\ listings[task[t].h] \in ListEntries
    BY <1>1, <1>5, <2>1 DEF CachesInv, TasksInv, TypeOK
  <2>3. r \in Replies
    BY <1>1, <2>1, StalerReply, CachesAssumption
  <2>4. listings'[task[t].h] = Older(task[t].h, listings[task[t].h])
    BY <2>1, <2>2 DEF Tick
  <2>5. listings'[task[t].h] # None /\ listings'[task[t].h].data = r
    BY <1>1, <2>1, <2>2, <2>4, OlderListing, EntriesAreSome
  <2> HIDE DEF r
  <2>6. /\ task'[t] \in [does : {"lists", "trusts"}, h : Dirs, reply : Replies]
        /\ task'[t].h = task[t].h /\ task'[t].reply = r /\ task'[t].does = task[t].does
    BY <2>1, <2>3
  <2> QED
    BY <1>5, <2>5, <2>6 DEF Does, TaskStates
<1>6. CASE ~Does(t, "putattr") /\ ~Does(t, "putdir") /\ ~Does(t, "lists")
  <2>1. task'[t] = task[t]
    BY <1>6 DEF Tick
  <2> QED
    BY <1>3, <1>6, <2>1 DEF Does
<1> QED
  BY <1>4, <1>5, <1>6

\* A tick keeps the promises.
LEMMA TickKeeps ==
  ASSUME CachesInv, Tick
  PROVE  CachesInv'
<1>1. TypeOK /\ UNCHANGED <<version, toldAttrs, toldListings>>
  BY DEF CachesInv, Tick, told
<1>2. ASSUME NEW h \in Handles
      PROVE  /\ attrs'[h] \in {None} \cup AttrEntries
             /\ attrs'[h] # None =>
                  /\ attrs'[h].data.stale <= attrs'[h].age + MaxFlight
                  /\ ~attrs'[h].late => attrs'[h].data.of >= toldAttrs'[h]
  <2>1. attrs'[h] = IF attrs[h] = None THEN None ELSE Older(h, attrs[h])
    BY DEF Tick
  <2>2. CASE attrs[h] # None
    <3>1. attrs[h] \in AttrEntries
      BY <1>1, <2>2 DEF TypeOK
    <3>2. /\ attrs'[h] \in AttrEntries
          /\ attrs'[h].data = Staler(h, attrs[h].data)
          /\ attrs'[h].late = attrs[h].late
          /\ attrs'[h].age = IF attrs[h].age < MaxAge THEN attrs[h].age + 1
                                                      ELSE attrs[h].age
      BY <1>1, <2>1, <2>2, <3>1, OlderAttrs
    <3>3. attrs[h].data \in Replies /\ attrs[h].age \in 0 .. MaxAge
      BY <3>1 DEF AttrEntries
    <3>4. /\ attrs'[h].data \in Replies /\ attrs'[h].data.of = attrs[h].data.of
          /\ attrs'[h].data.stale <= attrs[h].data.stale + 1
          /\ attrs'[h].data.stale <= MaxAge + MaxFlight
      BY <1>1, <3>2, <3>3, StalerReply
    <3>5. attrs[h].data.stale \in Nat /\ attrs'[h].data.stale \in Nat
      BY <3>3, <3>4, CachesAssumption DEF Replies, Staleness
    <3>6. attrs[h].data.stale <= attrs[h].age + MaxFlight
      BY <2>2 DEF CachesInv, AttrsInv
    <3>7. attrs'[h].data.stale <= attrs'[h].age + MaxFlight
      BY <3>2, <3>3, <3>4, <3>5, <3>6, TickKeepsBound
    <3> QED
      BY <1>1, <2>2, <3>2, <3>4, <3>7 DEF CachesInv, AttrsInv
  <2> QED
    BY <2>1, <2>2
<1>3. ASSUME NEW h \in Dirs
      PROVE  /\ listings'[h] \in {None} \cup ListEntries
             /\ listings'[h] # None =>
                  /\ listings'[h].data.stale <= listings'[h].age + MaxFlight
                  /\ ~listings'[h].late => listings'[h].data.of >= toldListings'[h]
                  /\ listings'[h].complete => listings'[h].data.whole
  <2>1. listings'[h] = IF listings[h] = None THEN None ELSE Older(h, listings[h])
    BY DEF Tick
  <2>2. CASE listings[h] # None
    <3>1. listings[h] \in ListEntries
      BY <1>1, <2>2 DEF TypeOK
    <3>2. /\ listings'[h] \in ListEntries
          /\ listings'[h].data = Staler(h, listings[h].data)
          /\ listings'[h].late = listings[h].late
          /\ listings'[h].complete = listings[h].complete
          /\ listings'[h].age = IF listings[h].age < MaxAge THEN listings[h].age + 1
                                                            ELSE listings[h].age
      BY <1>1, <2>1, <2>2, <3>1, OlderListing
    <3>3. listings[h].data \in Replies /\ listings[h].age \in 0 .. MaxAge
      BY <3>1 DEF ListEntries
    <3>4. /\ listings'[h].data \in Replies /\ listings'[h].data.of = listings[h].data.of
          /\ listings'[h].data.whole = listings[h].data.whole
          /\ listings'[h].data.stale <= listings[h].data.stale + 1
          /\ listings'[h].data.stale <= MaxAge + MaxFlight
      BY <1>1, <3>2, <3>3, StalerReply, CachesAssumption
    <3>5. listings[h].data.stale \in Nat /\ listings'[h].data.stale \in Nat
      BY <3>3, <3>4, CachesAssumption DEF Replies, Staleness
    <3>6. listings[h].data.stale <= listings[h].age + MaxFlight
      BY <2>2 DEF CachesInv, ListingsInv
    <3>7. listings'[h].data.stale <= listings'[h].age + MaxFlight
      BY <3>2, <3>3, <3>4, <3>5, <3>6, TickKeepsBound
    <3> QED
      BY <1>1, <2>2, <3>2, <3>4, <3>7 DEF CachesInv, ListingsInv
  <2> QED
    BY <2>1, <2>2
<1>4. task' \in [Tasks -> TaskStates] /\ TasksInv' /\ ListingsTrusted'
  BY TickKeepsTasks
<1>5. TypeOK'
  <2>1. /\ attrs' = [h \in Handles |-> attrs'[h]]
        /\ listings' = [h \in Dirs |-> listings'[h]]
    BY DEF Tick
  <2> QED
    BY <1>1, <1>2, <1>3, <1>4, <2>1 DEF TypeOK
<1> QED
  BY <1>2, <1>3, <1>4, <1>5 DEF CachesInv, AttrsInv, ListingsInv

\* Every step keeps the promises ...
LEMMA NextCaches == CachesInv /\ [Next]_vars => CachesInv'
<1> SUFFICES ASSUME CachesInv, [Next]_vars PROVE CachesInv'
  OBVIOUS
<1>1. CASE UNCHANGED vars
  BY <1>1 DEF vars, told, CachesInv, TypeOK, AttrsInv, ListingsInv, TasksInv, ListingsTrusted, Does
<1> QED
  BY <1>1, PutKeeps, AsksKeep, TellAttrsKeeps, TellListingsKeeps, FewerKeeps, LooksKeep,
     TickKeeps DEF Next

\* ... so they hold always.
LEMMA CachesInvariant == Spec => []CachesInv
  BY InitCaches, NextCaches, PTL DEF Spec

-----------------------------------------------------------------------------
\* Whatever other clients do and replies are late, what a cache serves is
\* less than its time to live and a flight out of date.
THEOREM Bounded == Spec => []StaleBounded
<1>1. CachesInv => StaleBounded
  <2> SUFFICES ASSUME CachesInv PROVE StaleBounded
    OBVIOUS
  <2>0. MaxFlight \in Int /\ ListTtl \in Int /\ \A h \in Handles : AttrTtl(h) \in Int
    BY CachesAssumption DEF AttrTtl
  <2>1. ASSUME NEW h \in Handles, AttrServed(h)
        PROVE  attrs[h].data.stale < AttrTtl(h) + MaxFlight
    <3>1. /\ attrs[h] \in AttrEntries /\ attrs[h].age < AttrTtl(h)
          /\ attrs[h].data.stale <= attrs[h].age + MaxFlight
      BY <2>1 DEF AttrServed, CachesInv, AttrsInv, TypeOK
    <3>2. attrs[h].data.stale \in Int /\ attrs[h].age \in Int
      BY <3>1, CachesAssumption DEF AttrEntries, Replies, Staleness
    <3> QED
      BY <2>0, <3>1, <3>2
  <2>2. ASSUME NEW h \in Dirs, ListServed(h)
        PROVE  listings[h].data.stale < ListTtl + MaxFlight
    <3>1. /\ listings[h] \in ListEntries /\ listings[h].age < ListTtl
          /\ listings[h].data.stale <= listings[h].age + MaxFlight
      BY <2>2 DEF ListServed, CachesInv, ListingsInv, TypeOK
    <3>2. listings[h].data.stale \in Int /\ listings[h].age \in Int
      BY <3>1, CachesAssumption DEF ListEntries, Replies, Staleness
    <3> QED
      BY <2>0, <3>1, <3>2
  <2> QED
    BY <2>1, <2>2 DEF StaleBounded
<1> QED
  BY <1>1, CachesInvariant, PTL

\* A task's change, once a cache was told of it, is hidden there only by a
\* reply put late.
THEOREM OwnSeen == Spec => []OwnChangesSeen
<1>1. CachesInv => OwnChangesSeen
  BY DEF CachesInv, AttrsInv, ListingsInv, OwnChangesSeen, AttrServed, ListServed
<1> QED
  BY <1>1, CachesInvariant, PTL

\* A listing that is_complete has vouched for is whole and fresh, although
\* time passed between get and is_complete.
THEOREM Trusted == Spec => []ListingsTrusted
<1>1. CachesInv => ListingsTrusted
  BY DEF CachesInv
<1> QED
  BY <1>1, CachesInvariant, PTL

-----------------------------------------------------------------------------
\* Caps on ages are beyond every time to live: they hide no expiry.
LEMMA AgesAlike ==
  ASSUME NEW a \in 0 .. MaxAge, NEW ttl \in 0 .. MaxAge, NEW a2,
         a2 = IF a < MaxAge THEN a + 1 ELSE a
  PROVE  /\ a2 < ttl => a2 = a + 1 /\ a < ttl /\ a + 1 < ttl
         /\ a < ttl /\ a + 1 < ttl => a2 < ttl
  BY CachesAssumption

\* Entries that go from a cache are forgotten, and those that stay are not.
LEMMA AttrsForgotten ==
  ASSUME \A h \in Handles : attrs'[h] \in {attrs[h], None}
  PROVE  \E S \in SUBSET Handles : AttrsPromised!Forget(S)
<1> DEFINE S == {h \in Handles : attrs'[h] = None}
<1>1. ASSUME NEW h \in Handles
      PROVE  AttrsFresh'[h] = IF h \in S THEN [age |-> -1] ELSE AttrsFresh[h]
  <2>1. CASE h \in S
    BY <2>1 DEF AttrsFresh, AttrServed
  <2>2. CASE attrs'[h] = attrs[h] /\ h \notin S
    BY <2>2 DEF AttrsFresh, AttrServed, AttrTtl
  <2> QED
    BY <2>1, <2>2
<1>2. AttrsFresh' = [h \in Handles |-> IF h \in S THEN [age |-> -1] ELSE AttrsFresh[h]]
  BY <1>1 DEF AttrsFresh
<1> QED
  BY <1>2 DEF AttrsPromised!Forget, AttrsPromised!Absent

\* The same of the listings.
LEMMA ListingsForgotten ==
  ASSUME \A h \in Dirs : listings'[h] \in {listings[h], None}
  PROVE  \E S \in SUBSET Dirs : ListingsPromised!Forget(S)
<1> DEFINE S == {h \in Dirs : listings'[h] = None}
<1>1. ASSUME NEW h \in Dirs
      PROVE  ListingsFresh'[h] = IF h \in S THEN [age |-> -1] ELSE ListingsFresh[h]
  <2>1. CASE h \in S
    BY <2>1 DEF ListingsFresh, ListServed
  <2>2. CASE listings'[h] = listings[h] /\ h \notin S
    BY <2>2 DEF ListingsFresh, ListServed
  <2> QED
    BY <2>1, <2>2
<1>2. ListingsFresh' =
        [h \in Dirs |-> IF h \in S THEN [age |-> -1] ELSE ListingsFresh[h]]
  BY <1>1 DEF ListingsFresh
<1> QED
  BY <1>2 DEF ListingsPromised!Forget, ListingsPromised!Absent

\* Every step of the caches leaves the attributes as a step of a FreshMap
\* does.
LEMMA AttrsStep ==
  ASSUME CachesInv, [Next]_vars
  PROVE  [AttrsPromised!Next]_AttrsFresh
<1> DEFINE Ttl == [h \in Handles |-> IF h \in Dirs THEN DirMin ELSE FileMin]
<1>1. TypeOK /\ \A h \in Handles : AttrTtl(h) = Ttl[h] /\ Ttl[h] \in 0 .. MaxAge
  BY CachesAssumption DEF CachesInv, AttrTtl
<1>2. CASE \A h \in Handles : attrs'[h] \in {attrs[h], None}
  BY <1>2, AttrsForgotten DEF AttrsPromised!Next
<1>3. ASSUME NEW h \in Handles, NEW r \in Replies,
             attrs' = [attrs EXCEPT ![h] = NewAttrs(h, r)]
      PROVE  AttrsPromised!Next
  <2> DEFINE v == r.of
  <2>1. v \in Versions
    BY DEF Replies
  <2>2. /\ attrs'[h] = NewAttrs(h, r)
        /\ \A g \in Handles : g # h => attrs'[g] = attrs[g]
    BY <1>1, <1>3, <2>1 DEF TypeOK
  <2>3. attrs'[h].age = 0 /\ attrs'[h].data.of = v /\ attrs'[h] # None
    BY <1>1, <2>1, <2>2, NewEntries, EntriesAreSome DEF NewAttrs
  <2>4. AttrsFresh'[h] =
          IF Ttl[h] > 0 THEN [value |-> v, age |-> 0] ELSE [age |-> -1]
    <3>1. AttrServed(h)' <=> 0 < Ttl[h]
      BY <1>1, <2>1, <2>3 DEF AttrServed, AttrTtl
    <3>2. AttrsFresh'[h] = IF AttrServed(h)' THEN [value |-> v, age |-> 0]
                                             ELSE [age |-> -1]
      BY <2>1, <2>3 DEF AttrsFresh
    <3>3. 0 < Ttl[h] <=> Ttl[h] > 0
      BY <1>1, <2>1, CachesAssumption
    <3> QED
      BY <3>1, <3>2, <3>3
  <2>5. \A g \in Handles : g # h => AttrsFresh'[g] = AttrsFresh[g]
    BY <2>2 DEF AttrsFresh, AttrServed, AttrTtl
  <2>6. AttrsFresh' = [AttrsFresh EXCEPT ![h] =
          IF Ttl[h] > 0 THEN [value |-> v, age |-> 0] ELSE [age |-> -1]]
    <3> HIDE DEF v, Ttl
    <3> QED
      BY <2>1, <2>4, <2>5 DEF AttrsFresh
  <2> QED
    BY <2>1, <2>6
    DEF AttrsPromised!Next, AttrsPromised!Store, AttrsPromised!Stored, AttrsPromised!Absent
<1>4. CASE Tick
  <2>1. ASSUME NEW h \in Handles
        PROVE  AttrsFresh'[h] =
                 IF AttrsFresh[h] # [age |-> -1] /\ AttrsFresh[h].age + 1 < Ttl[h]
                 THEN [AttrsFresh[h] EXCEPT !.age = @ + 1] ELSE [age |-> -1]
    <3>1. attrs'[h] = IF attrs[h] = None THEN None ELSE Older(h, attrs[h])
      BY <1>4 DEF Tick
    <3>2. CASE attrs[h] = None
      BY <3>1, <3>2 DEF AttrsFresh, AttrServed
    <3>3. CASE attrs[h] # None
      <4>1. /\ attrs[h] \in AttrEntries /\ attrs'[h] \in AttrEntries
            /\ attrs'[h].data = Staler(h, attrs[h].data)
            /\ attrs'[h].age = IF attrs[h].age < MaxAge THEN attrs[h].age + 1
                                                        ELSE attrs[h].age
        BY <1>1, <3>1, <3>3, OlderAttrs DEF TypeOK
      <4>2. attrs'[h].data.of = attrs[h].data.of /\ attrs[h].age \in 0 .. MaxAge
        BY <1>1, <4>1, StalerReply DEF AttrEntries
      <4>3. /\ AttrServed(h) <=> attrs[h].age < Ttl[h]
            /\ AttrServed(h)' <=> attrs'[h].age < Ttl[h]
        BY <1>1, <3>3, <4>1, EntriesAreSome DEF AttrServed, AttrTtl
      <4>4. /\ attrs'[h].age < Ttl[h] =>
                 attrs'[h].age = attrs[h].age + 1 /\ attrs[h].age < Ttl[h]
                 /\ attrs[h].age + 1 < Ttl[h]
            /\ attrs[h].age < Ttl[h] /\ attrs[h].age + 1 < Ttl[h] =>
                 attrs'[h].age < Ttl[h]
        BY <1>1, <4>1, <4>2, AgesAlike
      <4>5. CASE AttrServed(h)'
        <5>1. /\ AttrsFresh'[h] = [value |-> attrs[h].data.of, age |-> attrs[h].age + 1]
              /\ AttrsFresh[h] = [value |-> attrs[h].data.of, age |-> attrs[h].age]
              /\ attrs[h].age + 1 < Ttl[h]
          BY <4>2, <4>3, <4>4, <4>5 DEF AttrsFresh
        <5>2. AttrsFresh[h] # [age |-> -1]
          BY <4>2, <5>1, CachesAssumption
        <5> QED
          BY <5>1, <5>2
      <4>6. CASE ~AttrServed(h)'
        <5>1. AttrsFresh'[h] = [age |-> -1]
          BY <4>6 DEF AttrsFresh
        <5>2. AttrServed(h) => ~(attrs[h].age + 1 < Ttl[h])
          BY <4>3, <4>4, <4>6
        <5>3. AttrsFresh[h] # [age |-> -1] => ~(AttrsFresh[h].age + 1 < Ttl[h])
          BY <5>2 DEF AttrsFresh
        <5> QED
          BY <5>1, <5>3
      <4> QED
        BY <4>5, <4>6
    <3> QED
      BY <3>2, <3>3
  <2>2. AttrsFresh' = [h \in Handles |->
          IF AttrsFresh[h] # [age |-> -1] /\ AttrsFresh[h].age + 1 < Ttl[h]
          THEN [AttrsFresh[h] EXCEPT !.age = @ + 1] ELSE [age |-> -1]]
    <3> HIDE DEF Ttl
    <3> QED
      BY <2>1 DEF AttrsFresh
  <2> QED
    BY <2>2 DEF AttrsPromised!Next, AttrsPromised!Tick, AttrsPromised!Older,
                AttrsPromised!Absent
<1>5. ASSUME NEW t \in Tasks, Put(t), ~(\A h \in Handles : attrs'[h] \in {attrs[h], None})
      PROVE  AttrsPromised!Next
  <2>1. /\ Does(t, "putattr")
        /\ attrs' = [attrs EXCEPT ![task[t].h] = NewAttrs(task[t].h, task[t].reply)]
    BY <1>5 DEF Put
  <2>2. task[t].h \in Handles /\ task[t].reply \in Replies
    BY <1>1, <2>1, TaskShape
  <2> QED
    BY <1>3, <2>1, <2>2
<1>6. Next => \/ Tick \/ \E t \in Tasks : Put(t)
              \/ \A h \in Handles : attrs'[h] \in {attrs[h], None}
  <2>1. ASSUME NEW t \in Tasks, TellAttrs(t)
        PROVE  \A h \in Handles : attrs'[h] \in {attrs[h], None}
    BY <1>1, <2>1 DEF TellAttrs, InvalidateAttrs, TypeOK
  <2> QED
    BY <2>1 DEF Next, Answer, Change, TellListings, ReadListing, AskComplete, Conclude,
                OtherClientChanges, InvalidateAll, EvictAttrs, EvictListings
<1> QED
  BY <1>2, <1>4, <1>5, <1>6 DEF vars

\* ... and the listings.
LEMMA ListingsStep ==
  ASSUME CachesInv, [Next]_vars
  PROVE  [ListingsPromised!Next]_ListingsFresh
<1> DEFINE Ttl == [h \in Dirs |-> ListTtl]
<1>1. TypeOK /\ \A h \in Dirs : h \in Handles /\ Ttl[h] = ListTtl
                                 /\ ListTtl \in 0 .. MaxAge
  BY CachesAssumption DEF CachesInv
<1>2. CASE \A h \in Dirs : listings'[h] \in {listings[h], None}
  BY <1>2, ListingsForgotten DEF ListingsPromised!Next
<1>3. ASSUME NEW h \in Dirs, NEW r \in Replies,
             listings' = [listings EXCEPT ![h] = NewListing(h, r)]
      PROVE  ListingsPromised!Next
  <2> DEFINE v == r.of
  <2>1. v \in Versions
    BY DEF Replies
  <2>2. /\ listings'[h] = NewListing(h, r)
        /\ \A g \in Dirs : g # h => listings'[g] = listings[g]
    BY <1>1, <1>3, <2>1 DEF TypeOK
  <2>3. listings'[h].age = 0 /\ listings'[h].data.of = v /\ listings'[h] # None
    BY <1>1, <2>1, <2>2, NewEntries, EntriesAreSome DEF NewListing
  <2>4. ListingsFresh'[h] =
          IF Ttl[h] > 0 THEN [value |-> v, age |-> 0] ELSE [age |-> -1]
    <3>1. ListServed(h)' <=> 0 < Ttl[h]
      BY <1>1, <2>1, <2>3 DEF ListServed
    <3>2. ListingsFresh'[h] = IF ListServed(h)' THEN [value |-> v, age |-> 0]
                                             ELSE [age |-> -1]
      BY <2>1, <2>3 DEF ListingsFresh
    <3>3. 0 < Ttl[h] <=> Ttl[h] > 0
      BY <1>1, <2>1, CachesAssumption
    <3> QED
      BY <3>1, <3>2, <3>3
  <2>5. \A g \in Dirs : g # h => ListingsFresh'[g] = ListingsFresh[g]
    BY <2>2 DEF ListingsFresh, ListServed
  <2>6. ListingsFresh' = [ListingsFresh EXCEPT ![h] =
          IF Ttl[h] > 0 THEN [value |-> v, age |-> 0] ELSE [age |-> -1]]
    <3> HIDE DEF v, Ttl
    <3> QED
      BY <2>1, <2>4, <2>5 DEF ListingsFresh
  <2> QED
    BY <2>1, <2>6
    DEF ListingsPromised!Next, ListingsPromised!Store, ListingsPromised!Stored,
        ListingsPromised!Absent
<1>4. CASE Tick
  <2>1. ASSUME NEW h \in Dirs
        PROVE  ListingsFresh'[h] =
                 IF ListingsFresh[h] # [age |-> -1] /\ ListingsFresh[h].age + 1 < Ttl[h]
                 THEN [ListingsFresh[h] EXCEPT !.age = @ + 1] ELSE [age |-> -1]
    <3>1. listings'[h] = IF listings[h] = None THEN None ELSE Older(h, listings[h])
      BY <1>4 DEF Tick
    <3>2. CASE listings[h] = None
      BY <3>1, <3>2 DEF ListingsFresh, ListServed
    <3>3. CASE listings[h] # None
      <4>1. /\ listings[h] \in ListEntries /\ listings'[h] \in ListEntries
            /\ listings'[h].data = Staler(h, listings[h].data)
            /\ listings'[h].age = IF listings[h].age < MaxAge THEN listings[h].age + 1
                                                        ELSE listings[h].age
        BY <1>1, <3>1, <3>3, OlderListing DEF TypeOK
      <4>2. listings'[h].data.of = listings[h].data.of /\ listings[h].age \in 0 .. MaxAge
        BY <1>1, <4>1, StalerReply DEF ListEntries
      <4>3. /\ ListServed(h) <=> listings[h].age < Ttl[h]
            /\ ListServed(h)' <=> listings'[h].age < Ttl[h]
        BY <1>1, <3>3, <4>1, EntriesAreSome DEF ListServed
      <4>4. /\ listings'[h].age < Ttl[h] =>
                 listings'[h].age = listings[h].age + 1 /\ listings[h].age < Ttl[h]
                 /\ listings[h].age + 1 < Ttl[h]
            /\ listings[h].age < Ttl[h] /\ listings[h].age + 1 < Ttl[h] =>
                 listings'[h].age < Ttl[h]
        BY <1>1, <4>1, <4>2, AgesAlike
      <4>5. CASE ListServed(h)'
        <5>1. /\ ListingsFresh'[h] =
                   [value |-> listings[h].data.of, age |-> listings[h].age + 1]
              /\ ListingsFresh[h] = [value |-> listings[h].data.of, age |-> listings[h].age]
              /\ listings[h].age + 1 < Ttl[h]
          BY <4>2, <4>3, <4>4, <4>5 DEF ListingsFresh
        <5>2. ListingsFresh[h] # [age |-> -1]
          BY <4>2, <5>1, CachesAssumption
        <5> QED
          BY <5>1, <5>2
      <4>6. CASE ~ListServed(h)'
        <5>1. ListingsFresh'[h] = [age |-> -1]
          BY <4>6 DEF ListingsFresh
        <5>2. ListServed(h) => ~(listings[h].age + 1 < Ttl[h])
          BY <4>3, <4>4, <4>6
        <5>3. ListingsFresh[h] # [age |-> -1] => ~(ListingsFresh[h].age + 1 < Ttl[h])
          BY <5>2 DEF ListingsFresh
        <5> QED
          BY <5>1, <5>3
      <4> QED
        BY <4>5, <4>6
    <3> QED
      BY <3>2, <3>3
  <2>2. ListingsFresh' = [h \in Dirs |->
          IF ListingsFresh[h] # [age |-> -1] /\ ListingsFresh[h].age + 1 < Ttl[h]
          THEN [ListingsFresh[h] EXCEPT !.age = @ + 1] ELSE [age |-> -1]]
    <3> HIDE DEF Ttl
    <3> QED
      BY <2>1 DEF ListingsFresh
  <2> QED
    BY <2>2 DEF ListingsPromised!Next, ListingsPromised!Tick, ListingsPromised!Older,
                ListingsPromised!Absent
<1>5. ASSUME NEW t \in Tasks, Put(t), ~(\A h \in Dirs : listings'[h] \in {listings[h], None})
      PROVE  ListingsPromised!Next
  <2>1. /\ Does(t, "putdir")
        /\ listings' = [listings EXCEPT ![task[t].h] = NewListing(task[t].h, task[t].reply)]
    BY <1>5 DEF Put
  <2>2. task[t].h \in Dirs /\ task[t].reply \in Replies
    BY <1>1, <2>1, TaskShape
  <2> QED
    BY <1>3, <2>1, <2>2
<1>6. Next => \/ Tick \/ \E t \in Tasks : Put(t)
              \/ \A h \in Dirs : listings'[h] \in {listings[h], None}
  <2>1. ASSUME NEW t \in Tasks, TellListings(t)
        PROVE  \A h \in Dirs : listings'[h] \in {listings[h], None}
    BY <1>1, <2>1 DEF TellListings, InvalidateListing, TypeOK
  <2> QED
    BY <2>1 DEF Next, Answer, Change, TellAttrs, ReadListing, AskComplete, Conclude,
                OtherClientChanges, InvalidateAll, EvictAttrs, EvictListings
<1> QED
  BY <1>2, <1>4, <1>5, <1>6 DEF vars

\* Both caches are maps with a time to live, and nothing else shows.
THEOREM Implements == Spec => ImplementsFreshMap
<1>1. Init => AttrsPromised!Init /\ ListingsPromised!Init
  BY DEF Init, AttrsPromised!Init, ListingsPromised!Init, AttrsPromised!Absent,
         ListingsPromised!Absent, AttrsFresh, ListingsFresh, AttrServed, ListServed
<1>2. CachesInv /\ [Next]_vars =>
        [AttrsPromised!Next]_AttrsFresh /\ [ListingsPromised!Next]_ListingsFresh
  BY AttrsStep, ListingsStep
<1> QED
  BY <1>1, <1>2, CachesInvariant, PTL
  DEF Spec, ImplementsFreshMap, AttrsPromised!Spec, ListingsPromised!Spec

-----------------------------------------------------------------------------
(* PathLookup: what a path means. *)

\* Where the separators of a path are.
SeparatorsOf(path) == {i \in DOMAIN path : path[i] \in Separators}

\* The cuts of a path: 0, its separators, and the end.
LEMMA CutsAre ==
  ASSUME NEW X, NEW path \in Seq(X)
  PROVE  /\ SeparatorsOf(path) \in SUBSET (1 .. Len(path))
         /\ Cardinality(SeparatorsOf(path)) \in Nat
         /\ Cuts(path) \in Seq(0 .. Len(path) + 1)
         /\ Len(Cuts(path)) = Cardinality(SeparatorsOf(path)) + 2
         /\ Cuts(path)[1] = 0
         /\ Cuts(path)[Cardinality(SeparatorsOf(path)) + 2] = Len(path) + 1
         /\ \A k \in 1 .. Cardinality(SeparatorsOf(path)) :
              Cuts(path)[k + 1] = Ascending(SeparatorsOf(path))[k]
<1> DEFINE n == Len(path)
           S == SeparatorsOf(path)
           a == Ascending(S)
           c == Cardinality(S)
           C == Cuts(path)
<1>1. n \in Nat /\ S \in SUBSET (1 .. n)
  BY DEF SeparatorsOf
<1> HIDE DEF S, n
<1>2. /\ a \in Seq(S) /\ Len(a) = c /\ c \in Nat
      /\ \A j \in 1 .. c, k \in 1 .. c : j < k => a[j] < a[k]
      /\ \A x \in S : \E k \in 1 .. c : a[k] = x
  <2>1. \A x \in S : /\ CountTo(S, x) \in 1 .. c
                     /\ a[CountTo(S, x)] = x
    BY <1>1, AscendingStrict
  <2>2. a \in Seq(S) /\ Len(a) = c
    BY <1>1, AscendingOrder
  <2>3. c \in Nat
    <3>1. 0 \in Nat /\ 0 <= 0
      OBVIOUS
    <3> QED
      BY <1>1, <3>1, CountMonotonic
  <2>4. \A j \in 1 .. c, k \in 1 .. c : j < k => a[j] < a[k]
    BY <1>1, AscendingStrict
  <2> HIDE DEF a, c
  <2>5. \A x \in S : \E k \in 1 .. c : a[k] = x
    BY <2>1, Zenon
  <2> QED
    BY <2>2, <2>3, <2>4, <2>5
<1>4. C = (<<0>> \o a) \o <<n + 1>>
  BY DEF Cuts, SeparatorsOf, n, S
<1> HIDE DEF a, c, C
<1>3. \A k \in 1 .. c : a[k] \in S /\ a[k] \in 1 .. n
  <2>1. a \in Seq(S) /\ Len(a) = c /\ c \in Nat
    BY <1>2
  <2>2. \A k \in 1 .. c : a[k] \in S
    BY <2>1
  <2> QED
    BY <2>2, <1>1
<1>5. /\ C \in Seq(0 .. n + 1) /\ Len(C) = c + 2
      /\ C[1] = 0 /\ C[c + 2] = n + 1
      /\ \A k \in 1 .. c : C[k + 1] = a[k]
  <2>1. a \in Seq(0 .. n + 1)
    BY <1>1, <1>2, <1>3
  <2>2. /\ <<0>> \o a \in Seq(0 .. n + 1) /\ Len(<<0>> \o a) = c + 1
        /\ (<<0>> \o a)[1] = 0
        /\ \A k \in 1 .. c : (<<0>> \o a)[k + 1] = a[k]
    BY <2>1, <1>1, <1>2
  <2> DEFINE b == <<0>> \o a
  <2> HIDE DEF b
  <2>3. /\ b \in Seq(0 .. n + 1) /\ Len(b) = c + 1 /\ b[1] = 0 /\ c \in Nat /\ n \in Nat
        /\ C = b \o <<n + 1>>
    BY <2>2, <1>1, <1>2, <1>4 DEF b
  <2>4. \A k \in 1 .. c + 1 : C[k] = b[k]
    BY <2>3
  <2>5. C \in Seq(0 .. n + 1) /\ Len(C) = c + 2 /\ C[c + 2] = n + 1
    BY <2>3
  <2>6. \A k \in 1 .. c : k + 1 \in 1 .. c + 1
    BY <2>3
  <2>7. 1 \in 1 .. c + 1
    BY <2>3
  <2> QED
    BY <2>2, <2>3, <2>4, <2>5, <2>6, <2>7 DEF b
<1> QED
  BY <1>1, <1>2, <1>5 DEF n, a, c, C, S

\* Where a path is cut: from before it to after it, at the separators and
\* nowhere else.
LEMMA CutsOf ==
  ASSUME NEW X, NEW path \in Seq(X)
  PROVE  /\ Cuts(path) \in Seq(0 .. Len(path) + 1)
         /\ Len(Cuts(path)) \in Nat /\ Len(Cuts(path)) >= 2
         /\ Cuts(path)[1] = 0 /\ Cuts(path)[Len(Cuts(path))] = Len(path) + 1
         /\ \A j \in 1 .. Len(Cuts(path)), k \in 1 .. Len(Cuts(path)) :
              j < k => Cuts(path)[j] < Cuts(path)[k]
         /\ \A i \in 1 .. Len(path) :
              path[i] \in Separators <=> \E k \in 1 .. Len(Cuts(path)) : Cuts(path)[k] = i
<1> DEFINE n == Len(path)
           S == SeparatorsOf(path)
           a == Ascending(S)
           c == Cardinality(S)
           C == Cuts(path)
<1>1. n \in Nat /\ S \in SUBSET (1 .. n) /\ \A i \in 1 .. n : i \in S <=> path[i] \in Separators
  BY DEF SeparatorsOf
<1>5. /\ c \in Nat
      /\ C \in Seq(0 .. n + 1) /\ Len(C) = c + 2
      /\ C[1] = 0 /\ C[c + 2] = n + 1
      /\ \A k \in 1 .. c : C[k + 1] = a[k]
  BY CutsAre
<1> HIDE DEF S, n
<1>2. /\ c \in Nat
      /\ \A j \in 1 .. c, k \in 1 .. c : j < k => a[j] < a[k]
      /\ \A x \in S : \E k \in 1 .. c : a[k] = x
      /\ \A k \in 1 .. c : a[k] \in S /\ a[k] \in 1 .. n
  <2>1. \A x \in S : CountTo(S, x) \in 1 .. c /\ a[CountTo(S, x)] = x
    BY <1>1, AscendingStrict
  <2>2. \A x \in S : \E k \in 1 .. c : a[k] = x
    BY <2>1, Zenon
  <2>3. \A j \in 1 .. c, k \in 1 .. c : j < k => a[j] < a[k]
    BY <1>1, AscendingStrict
  <2>4. a \in Seq(S) /\ Len(a) = c
    BY <1>1, AscendingOrder
  <2> HIDE DEF a, c, C
  <2>5. \A k \in 1 .. c : a[k] \in S
    BY <2>4
  <2> QED
    BY <2>2, <2>3, <2>5, <1>1, <1>5
<1>3. \A k \in 1 .. c : a[k] \in S /\ a[k] \in 1 .. n
  BY <1>2
<1> HIDE DEF a, c, C
<1>6. \A k \in 1 .. c + 2 : \/ k = 1 /\ C[k] = 0
                            \/ k = c + 2 /\ C[k] = n + 1
                            \/ k - 1 \in 1 .. c /\ C[k] = a[k - 1] /\ C[k] \in 1 .. n
  <2> SUFFICES ASSUME NEW k \in 1 .. c + 2, k # 1, k # c + 2
               PROVE  k - 1 \in 1 .. c /\ C[k] = a[k - 1] /\ C[k] \in 1 .. n
    BY <1>5
  <2> DEFINE q == k - 1
  <2>1. q \in 1 .. c /\ q + 1 = k
    BY <1>2
  <2> HIDE DEF q
  <2>2. C[q + 1] = a[q] /\ a[q] \in 1 .. n
    BY <2>1, <1>3, <1>5
  <2> QED
    BY <2>1, <2>2 DEF q
<1>7. ASSUME NEW j \in 1 .. c + 2, NEW k \in 1 .. c + 2, j < k
      PROVE  C[j] < C[k]
  <2>1. j # c + 2 /\ k # 1
    BY <1>2, <1>7
  <2>2. \/ j = 1 /\ C[j] = 0
        \/ j = c + 2 /\ C[j] = n + 1
        \/ j - 1 \in 1 .. c /\ C[j] = a[j - 1] /\ C[j] \in 1 .. n
    BY <1>6
  <2>3. \/ k = 1 /\ C[k] = 0
        \/ k = c + 2 /\ C[k] = n + 1
        \/ k - 1 \in 1 .. c /\ C[k] = a[k - 1] /\ C[k] \in 1 .. n
    BY <1>6
  <2>4. j - 1 < k - 1
    BY <1>2, <1>7
  <2>5. ASSUME j - 1 \in 1 .. c, k - 1 \in 1 .. c
        PROVE  a[j - 1] < a[k - 1]
    BY <2>4, <2>5, <1>2
  <2> QED
    BY <2>1, <2>2, <2>3, <2>5, <1>1
<1>8. ASSUME NEW i \in 1 .. n
      PROVE  path[i] \in Separators <=> \E k \in 1 .. c + 2 : C[k] = i
  <2>1. ASSUME i \in S
        PROVE  \E k \in 1 .. c + 2 : C[k] = i
    <3>1. PICK q \in 1 .. c : a[q] = i
      BY <2>1, <1>2
    <3>2. q + 1 \in 1 .. c + 2 /\ C[q + 1] = i
      BY <3>1, <1>2, <1>5
    <3> QED
      BY <3>2
  <2>2. ASSUME NEW k \in 1 .. c + 2, C[k] = i
        PROVE  i \in S
    <3>1. i # 0 /\ i # n + 1
      BY <1>1
    <3>2. k - 1 \in 1 .. c /\ C[k] = a[k - 1]
      BY <3>1, <2>2, <1>6
    <3> QED
      BY <3>2, <2>2, <1>3
  <2> QED
    BY <2>1, <2>2, <1>1
<1> QED
  BY <1>2, <1>5, <1>7, <1>8 DEF n, C

\* The pieces of a path: none has a separator in it.
LEMMA PiecesOf ==
  ASSUME NEW X, NEW path \in Seq(X)
  PROVE  /\ DOMAIN Pieces(path) = 1 .. Len(Cuts(path)) - 1
         /\ \A k \in 1 .. Len(Cuts(path)) - 1 :
              /\ Pieces(path)[k] = SubSeq(path, Cuts(path)[k] + 1, Cuts(path)[k + 1] - 1)
              /\ Pieces(path)[k] \in Seq(X)
              /\ Pieces(path)[k] # <<>> <=> Cuts(path)[k] + 1 < Cuts(path)[k + 1]
              /\ \A j \in DOMAIN Pieces(path)[k] : Pieces(path)[k][j] \notin Separators
         /\ \A k \in 1 .. Len(Cuts(path)) - 1, i \in 1 .. Len(path) :
              Cuts(path)[k] < i /\ i < Cuts(path)[k + 1] => path[i] \notin Separators
<1> DEFINE C == Cuts(path)
           l == Len(C)
           n == Len(path)
<1>1. /\ C \in Seq(0 .. n + 1) /\ l \in Nat /\ l >= 2
      /\ \A j \in 1 .. l, k \in 1 .. l : j < k => C[j] < C[k]
      /\ \A i \in 1 .. n : path[i] \in Separators <=> \E k \in 1 .. l : C[k] = i
  BY CutsOf
<1>2. n \in Nat /\ \A i \in 1 .. n : path[i] \in X
  OBVIOUS
<1>3. \A k \in 1 .. l - 1 : Pieces(path)[k] = SubSeq(path, C[k] + 1, C[k + 1] - 1)
  BY DEF Pieces
<1>4. DOMAIN Pieces(path) = 1 .. l - 1
  BY DEF Pieces
<1> HIDE DEF C, n
<1>9. l = Len(C)
  BY DEF C
<1> HIDE DEF l
<1>5. \A k \in 1 .. l : C[k] \in 0 .. n + 1
  <2> DEFINE T == 0 .. n + 1
  <2>1. C \in Seq(T)
    BY <1>1
  <2> HIDE DEF T
  <2>2. \A k \in 1 .. Len(C) : C[k] \in T
    BY <2>1
  <2> QED
    BY <2>2, <1>9 DEF T
<1>6. ASSUME NEW k \in 1 .. l - 1
      PROVE  /\ k \in 1 .. l /\ k + 1 \in 1 .. l /\ k < k + 1
             /\ C[k] \in Int /\ C[k + 1] \in Int /\ C[k] >= 0 /\ C[k + 1] <= n + 1
             /\ C[k] < C[k + 1]
  <2>1. k \in 1 .. l /\ k + 1 \in 1 .. l /\ k < k + 1
    BY <1>1
  <2>2. C[k] \in 0 .. n + 1 /\ C[k + 1] \in 0 .. n + 1
    BY <2>1, <1>5
  <2> QED
    BY <2>1, <2>2, <1>1, <1>2
<1>7. ASSUME NEW k \in 1 .. l - 1, NEW i \in 1 .. n, C[k] < i, i < C[k + 1]
      PROVE  path[i] \notin Separators
  <2> SUFFICES ASSUME NEW j \in 1 .. l, C[j] = i
               PROVE  FALSE
    BY <1>1
  <2>1. C[j] \in Int
    BY <1>5
  <2>2. ~(j < k) /\ j # k /\ ~(k + 1 < j) /\ j # k + 1
    BY <2>1, <1>1, <1>6, <1>7
  <2> QED
    BY <2>2, <1>1
<1>8. ASSUME NEW k \in 1 .. l - 1
      PROVE  /\ Pieces(path)[k] \in Seq(X)
             /\ Pieces(path)[k] # <<>> <=> C[k] + 1 < C[k + 1]
             /\ \A j \in DOMAIN Pieces(path)[k] : Pieces(path)[k][j] \notin Separators
  <2> DEFINE lo == C[k]
             hi == C[k + 1]
             p == Pieces(path)[k]
  <2>1. /\ lo \in Int /\ hi \in Int /\ lo >= 0 /\ hi <= n + 1 /\ lo < hi
        /\ p = SubSeq(path, lo + 1, hi - 1)
        /\ \A i \in 1 .. n : lo < i /\ i < hi => path[i] \notin Separators
    BY <1>3, <1>6, <1>7
  <2> HIDE DEF lo, hi, p
  <2>2. \A i \in lo + 1 .. hi - 1 : path[i] \in X
    BY <2>1, <1>2
  <2>3. /\ p \in Seq(X)
        /\ Len(p) = IF lo + 1 <= hi - 1 THEN hi - 1 - (lo + 1) + 1 ELSE 0
        /\ \A j \in 1 .. hi - 1 - (lo + 1) + 1 : p[j] = path[lo + 1 + j - 1]
    BY <2>1, <2>2, SubSeqProperties
  <2>4. Len(p) = hi - 1 - lo /\ DOMAIN p = 1 .. Len(p)
    BY <2>1, <2>3
  <2>5. p # <<>> <=> lo + 1 < hi
    <3>1. p # <<>> <=> Len(p) # 0
      BY <2>3, EmptySeq
    <3> QED
      BY <3>1, <2>1, <2>4
  <2>6. ASSUME NEW j \in DOMAIN p
        PROVE  p[j] \notin Separators
    <3>1. j \in 1 .. hi - 1 - (lo + 1) + 1 /\ lo + 1 + j - 1 = lo + j
      BY <2>1, <2>4
    <3>2. lo + j \in 1 .. n /\ lo < lo + j /\ lo + j < hi
      BY <3>1, <2>1, <1>2
    <3> QED
      BY <3>1, <3>2, <2>1, <2>3
  <2> QED
    BY <2>3, <2>5, <2>6 DEF lo, hi, p
<1> QED
  BY <1>3, <1>4, <1>7, <1>8 DEF l, C, n

\* Components as a path can have them: none empty, none with a separator in it.
Proper(c) ==
  \A k \in 1 .. Len(c) : c[k] # <<>> /\ \A j \in DOMAIN c[k] : c[k][j] \notin Separators

\* Taken apart either way a path has the same components.
LEMMA ComponentsAreRuns ==
  ASSUME NEW X, NEW path \in Seq(X)
  PROVE  /\ ToNfsComponents(path) = Runs(path)
         /\ Runs(path) \in Seq(Seq(X)) /\ Proper(Runs(path))
<1> DEFINE C == Cuts(path)
           l == Len(C)
           n == Len(path)
           P == Pieces(path)
           Other(i) == i \in DOMAIN path /\ path[i] \notin Separators
           Kept == {k \in DOMAIN P : P[k] # <<>>}
           Starts == {i \in DOMAIN path : Other(i) /\ ~Other(i - 1)}
           Ends == {i \in DOMAIN path : Other(i) /\ ~Other(i + 1)}
           g == [k \in Kept |-> C[k] + 1]
           h == [k \in Kept |-> C[k + 1] - 1]
<1>1. /\ n \in Nat /\ DOMAIN path = 1 .. n
      /\ Starts \in SUBSET (1 .. n) /\ Ends \in SUBSET (1 .. n)
  OBVIOUS
<1>2. /\ l \in Nat /\ l >= 2
      /\ C[1] = 0 /\ C[l] = n + 1
      /\ \A j \in 1 .. l, k \in 1 .. l : j < k => C[j] < C[k]
      /\ \A i \in 1 .. n : path[i] \in Separators <=> \E k \in 1 .. l : C[k] = i
  BY CutsOf
<1>3. \A k \in 1 .. l : C[k] \in 0 .. n + 1
  <2> DEFINE T == 0 .. n + 1
  <2>1. C \in Seq(T)
    BY CutsOf
  <2> HIDE DEF T, C
  <2>2. \A k \in 1 .. Len(C) : C[k] \in T
    BY <2>1
  <2> QED
    BY <2>2 DEF T, C
<1>4. DOMAIN P = 1 .. l - 1
  BY PiecesOf
<1>5. \A k \in 1 .. l - 1 :
        /\ P[k] = SubSeq(path, C[k] + 1, C[k + 1] - 1)
        /\ P[k] \in Seq(X)
        /\ P[k] # <<>> <=> C[k] + 1 < C[k + 1]
        /\ \A j \in DOMAIN P[k] : P[k][j] \notin Separators
  BY PiecesOf
<1>6. \A k \in 1 .. l - 1, i \in 1 .. n : C[k] < i /\ i < C[k + 1] => Other(i)
  BY PiecesOf, <1>1
<1>7. \A i : Other(i) => i \in 1 .. n /\ path[i] \notin Separators
  BY <1>1
<1>8. \A i \in 1 .. n : path[i] \notin Separators => Other(i)
  BY <1>1
<1>9. /\ \A i \in 1 .. n : i \in Starts <=> Other(i) /\ ~Other(i - 1)
      /\ \A i \in 1 .. n : i \in Ends <=> Other(i) /\ ~Other(i + 1)
  BY <1>1
<1>10. /\ Kept \in SUBSET (1 .. l - 1)
       /\ \A k \in 1 .. l - 1 : k \in Kept <=> C[k] + 1 < C[k + 1]
  BY <1>4, <1>5
<1>11. /\ ToNfsComponents(path) = [i \in DOMAIN Ascending(Kept) |-> P[Ascending(Kept)[i]]]
       /\ Runs(path) = [k \in DOMAIN Ascending(Starts) |->
                          SubSeq(path, Ascending(Starts)[k], Ascending(Ends)[k])]
  BY DEF ToNfsComponents, Runs
<1> HIDE DEF C, l, n, P, Other, Kept, Starts, Ends
<1>12. ASSUME NEW k \in 1 .. l
       PROVE  C[k] \in Int /\ C[k] >= 0 /\ C[k] <= n + 1 /\ ~Other(C[k])
  <2>1. C[k] \in Int /\ C[k] >= 0 /\ C[k] <= n + 1
    BY <1>1, <1>3
  <2>2. C[k] \in 1 .. n => path[C[k]] \in Separators
    BY <1>2
  <2> QED
    BY <2>1, <2>2, <1>7
<1>13. ASSUME NEW k \in 1 .. l - 1
       PROVE  k \in 1 .. l /\ k + 1 \in 1 .. l /\ k \in Int /\ C[k] < C[k + 1]
  <2>1. k \in 1 .. l /\ k + 1 \in 1 .. l /\ k < k + 1 /\ k \in Int
    BY <1>2
  <2> QED
    BY <2>1, <1>2

\* A piece that is not empty begins where a run does ...
<1>14. /\ Cardinality(Starts) = Cardinality(Kept)
       /\ \A k \in 1 .. Cardinality(Kept) :
            /\ Ascending(Kept)[k] \in Kept
            /\ Ascending(Starts)[k] = g[Ascending(Kept)[k]]
  <2>1. ASSUME NEW k \in Kept
        PROVE  C[k] + 1 \in Starts
    <3>1. k \in 1 .. l - 1 /\ C[k] + 1 < C[k + 1]
      BY <1>10
    <3>2. /\ C[k] \in Int /\ C[k] >= 0 /\ ~Other(C[k])
          /\ C[k + 1] \in Int /\ C[k + 1] <= n + 1
      BY <3>1, <1>12, <1>13
    <3>3. /\ C[k] + 1 \in 1 .. n /\ C[k] < C[k] + 1 /\ C[k] + 1 < C[k + 1]
          /\ (C[k] + 1) - 1 = C[k]
      BY <3>1, <3>2, <1>1
    <3> QED
      BY <3>1, <3>2, <3>3, <1>6, <1>9
  <2>2. ASSUME NEW s \in Starts
        PROVE  \E k \in Kept : C[k] + 1 = s
    <3>1. s \in 1 .. n /\ Other(s) /\ ~Other(s - 1)
      BY <1>1, <1>9
    <3>2. \E k \in 1 .. l : C[k] = s - 1
      <4>1. CASE s = 1
        BY <4>1, <1>2
      <4>2. CASE s # 1
        <5>1. s - 1 \in 1 .. n
          BY <4>2, <3>1, <1>1
        <5> QED
          BY <5>1, <3>1, <1>2, <1>8
      <4> QED
        BY <4>1, <4>2
    <3>3. PICK k \in 1 .. l : C[k] = s - 1
      BY <3>2
    <3>4. k # l
      BY <3>1, <3>3, <1>1, <1>2
    <3>5. k \in 1 .. l - 1
      BY <3>4, <1>2
    <3>6. C[k] < C[k + 1] /\ C[k + 1] \in Int /\ k + 1 \in 1 .. l /\ ~Other(C[k + 1])
      BY <3>5, <1>12, <1>13
    <3>7. C[k + 1] # s
      BY <3>1, <3>6
    <3>8. C[k] + 1 = s /\ C[k] + 1 < C[k + 1]
      BY <3>1, <3>3, <3>6, <3>7
    <3> QED
      BY <3>5, <3>8, <1>10
  <2>3. ASSUME NEW x \in Kept, NEW y \in Kept, x < y
        PROVE  C[x] + 1 < C[y] + 1
    <3>1. x \in 1 .. l /\ y \in 1 .. l
      BY <1>10, <1>13
    <3> QED
      BY <3>1, <2>3, <1>2, <1>12
  <2>4. /\ g \in [Kept -> Starts]
        /\ \A x \in Kept, y \in Kept : x < y => g[x] < g[y]
        /\ \A t \in Starts : \E x \in Kept : g[x] = t
    BY <2>1, <2>2, <2>3
  <2> DEFINE m == l - 1
  <2>5. /\ m \in Nat /\ Kept \in SUBSET (1 .. m)
        /\ n \in Nat /\ Starts \in SUBSET (1 .. n)
    BY <1>1, <1>2, <1>10
  <2> HIDE DEF g, m
  <2>6. /\ Cardinality(Starts) = Cardinality(Kept)
        /\ \A k \in 1 .. Cardinality(Kept) :
             Ascending(Kept)[k] \in Kept /\ Ascending(Starts)[k] = g[Ascending(Kept)[k]]
    BY <2>4, <2>5, AscendingImage
  <2> QED
    BY <2>6

\* ... and ends where it does.
<1>15. /\ Cardinality(Ends) = Cardinality(Kept)
       /\ \A k \in 1 .. Cardinality(Kept) : Ascending(Ends)[k] = h[Ascending(Kept)[k]]
  <2>1. ASSUME NEW k \in Kept
        PROVE  C[k + 1] - 1 \in Ends
    <3>1. k \in 1 .. l - 1 /\ C[k] + 1 < C[k + 1]
      BY <1>10
    <3>2. /\ C[k] \in Int /\ C[k] >= 0 /\ ~Other(C[k + 1])
          /\ C[k + 1] \in Int /\ C[k + 1] <= n + 1
      BY <3>1, <1>12, <1>13
    <3>3. /\ C[k + 1] - 1 \in 1 .. n /\ C[k] < C[k + 1] - 1 /\ C[k + 1] - 1 < C[k + 1]
          /\ (C[k + 1] - 1) + 1 = C[k + 1]
      BY <3>1, <3>2, <1>1
    <3> QED
      BY <3>1, <3>2, <3>3, <1>6, <1>9
  <2>2. ASSUME NEW s \in Ends
        PROVE  \E k \in Kept : C[k + 1] - 1 = s
    <3>1. s \in 1 .. n /\ Other(s) /\ ~Other(s + 1)
      BY <1>1, <1>9
    <3>2. \E q \in 1 .. l : C[q] = s + 1
      <4>1. CASE s = n
        <5>1. l \in 1 .. l /\ C[l] = s + 1
          BY <4>1, <1>2
        <5> QED
          BY <5>1
      <4>2. CASE s # n
        <5>1. s + 1 \in 1 .. n
          BY <4>2, <3>1, <1>1
        <5> QED
          BY <5>1, <3>1, <1>2, <1>8
      <4> QED
        BY <4>1, <4>2
    <3>3. PICK q \in 1 .. l : C[q] = s + 1
      BY <3>2
    <3>4. q # 1
      BY <3>1, <3>3, <1>2
    <3> DEFINE k == q - 1
    <3>5. k \in 1 .. l - 1 /\ k + 1 = q
      BY <3>4, <1>2
    <3> HIDE DEF k
    <3>6. C[k] < C[k + 1] /\ C[k] \in Int /\ k \in 1 .. l /\ ~Other(C[k])
      BY <3>5, <1>12, <1>13
    <3>7. C[k] # s
      BY <3>1, <3>6
    <3>8. C[k + 1] - 1 = s /\ C[k] + 1 < C[k + 1]
      BY <3>1, <3>3, <3>5, <3>6, <3>7
    <3> QED
      BY <3>5, <3>8, <1>10
  <2>3. ASSUME NEW x \in Kept, NEW y \in Kept, x < y
        PROVE  C[x + 1] - 1 < C[y + 1] - 1
    <3>1. x + 1 \in 1 .. l /\ y + 1 \in 1 .. l /\ x \in Int /\ y \in Int
      BY <1>10, <1>13
    <3>2. x + 1 < y + 1
      BY <3>1, <2>3
    <3> QED
      BY <3>1, <3>2, <1>2, <1>12
  <2>4. /\ h \in [Kept -> Ends]
        /\ \A x \in Kept, y \in Kept : x < y => h[x] < h[y]
        /\ \A t \in Ends : \E x \in Kept : h[x] = t
    BY <2>1, <2>2, <2>3
  <2> DEFINE m == l - 1
  <2>5. /\ m \in Nat /\ Kept \in SUBSET (1 .. m)
        /\ n \in Nat /\ Ends \in SUBSET (1 .. n)
    BY <1>1, <1>2, <1>10
  <2> HIDE DEF h, m
  <2>6. /\ Cardinality(Ends) = Cardinality(Kept)
        /\ \A k \in 1 .. Cardinality(Kept) :
             Ascending(Kept)[k] \in Kept /\ Ascending(Ends)[k] = h[Ascending(Kept)[k]]
    BY <2>4, <2>5, AscendingImage
  <2> QED
    BY <2>6
<1> DEFINE c == Cardinality(Kept)
<1>16. /\ c \in Nat
       /\ DOMAIN Ascending(Kept) = 1 .. c /\ DOMAIN Ascending(Starts) = 1 .. c
  <2>1. c \in Nat
    <3>1. 0 \in Nat /\ 0 <= 0 /\ l - 1 \in Nat
      BY <1>2
    <3> QED
      BY <3>1, <1>10, CountMonotonic
  <2> QED
    BY <2>1, <1>14 DEF Ascending
<1>17. ASSUME NEW k \in 1 .. c
       PROVE  SubSeq(path, Ascending(Starts)[k], Ascending(Ends)[k]) = P[Ascending(Kept)[k]]
  <2>1. /\ Ascending(Kept)[k] \in Kept
        /\ Ascending(Starts)[k] = C[Ascending(Kept)[k]] + 1
        /\ Ascending(Ends)[k] = C[Ascending(Kept)[k] + 1] - 1
    BY <1>14, <1>15
  <2> QED
    BY <2>1, <1>5, <1>10
<1>18. /\ ToNfsComponents(path) = [k \in 1 .. c |-> P[Ascending(Kept)[k]]]
       /\ Runs(path) = [k \in 1 .. c |-> P[Ascending(Kept)[k]]]
  BY <1>11, <1>16, <1>17
<1>19. \A k \in 1 .. c : /\ P[Ascending(Kept)[k]] \in Seq(X)
                         /\ P[Ascending(Kept)[k]] # <<>>
                         /\ \A j \in DOMAIN P[Ascending(Kept)[k]] :
                              P[Ascending(Kept)[k]][j] \notin Separators
  BY <1>5, <1>10, <1>14 DEF Kept
<1> DEFINE p == [k \in 1 .. c |-> P[Ascending(Kept)[k]]]
<1>20. /\ p \in Seq(Seq(X)) /\ Len(p) = c
       /\ \A k \in 1 .. c : p[k] # <<>> /\ \A j \in DOMAIN p[k] : p[k][j] \notin Separators
  <2> HIDE DEF c
  <2> QED
    BY <1>16, <1>19
<1> HIDE DEF p
<1>21. Runs(path) = p /\ ToNfsComponents(path) = p
  BY <1>18 DEF p
<1> QED
  BY <1>20, <1>21 DEF Proper

\* Written as an NFS path, components are read back as they were.
LEMMA ReadBack ==
  ASSUME NEW X, "/" \in X, NEW c \in Seq(Seq(X)), Proper(c)
  PROVE  /\ ToNfsComponents(ToNfsPath(c)) = c
         /\ Head(ToNfsPath(c)) = "/"
         /\ Cardinality({i \in DOMAIN ToNfsPath(c) : ToNfsPath(c)[i] \in Separators}) =
              IF c = <<>> THEN 1 ELSE Len(c)
<1> DEFINE path == ToNfsPath(c)
           Seps == SeparatorsOf(path)
<1>1. CASE c = <<>>
  <2> DEFINE root == <<"/">>
  <2>1. path = root
    BY <1>1 DEF ToNfsPath
  <2>2. root \in Seq(X) /\ DOMAIN root = {1} /\ root[1] = "/" /\ "/" \in Separators
    BY DEF Separators
  <2> HIDE DEF root
  <2>3. {i \in DOMAIN root : root[i] \in Separators} = {1}
    BY <2>2
  <2>4. ToNfsComponents(root) = <<>>
    <3> DEFINE Starts == {i \in DOMAIN root :
                           /\ i \in DOMAIN root /\ root[i] \notin Separators
                           /\ ~(i - 1 \in DOMAIN root /\ root[i - 1] \notin Separators)}
    <3>1. Starts = {}
      BY <2>2
    <3>2. DOMAIN Ascending(Starts) = 1 .. 0
      BY <3>1, FS_EmptySet DEF Ascending
    <3>3. Runs(root) = [k \in DOMAIN Ascending(Starts) |->
                          SubSeq(root, Ascending(Starts)[k],
                                 Ascending({i \in DOMAIN root :
                                   /\ i \in DOMAIN root /\ root[i] \notin Separators
                                   /\ ~(i + 1 \in DOMAIN root /\ root[i + 1] \notin Separators)})[k])]
      BY DEF Runs
    <3> HIDE DEF Starts
    <3>4. Runs(root) = <<>>
      BY <3>2, <3>3
    <3> QED
      BY <3>4, <2>2, ComponentsAreRuns
  <2>5. Cardinality({1}) = 1
    BY FS_Singleton
  <2>6. Head(root) = "/"
    BY DEF root
  <2> QED
    BY <2>1, <2>3, <2>4, <2>5, <2>6, <1>1
<1>2. CASE c # <<>>
  <2> DEFINE n == Len(c)
             w == [i \in 1 .. n |-> <<"/">> \o c[i]]
             T(i) == Len(FlattenedTo(w, i))
  <2>1. n \in Nat /\ n >= 1 /\ DOMAIN c = 1 .. n
    BY <1>2
  <2>2. path = FlattenSeq(w)
    BY <2>1, <1>2 DEF ToNfsPath
  <2>3. ASSUME NEW i \in 1 .. n
        PROVE  /\ w[i] \in Seq(X) /\ Len(w[i]) = Len(c[i]) + 1 /\ Len(c[i]) \in Nat
               /\ c[i] \in Seq(X)
               /\ Len(c[i]) >= 1
               /\ w[i][1] = "/"
               /\ \A j \in 1 .. Len(c[i]) :
                    /\ w[i][j + 1] = c[i][j] /\ c[i][j] \notin Separators
    <3> DEFINE d == c[i]
    <3>1. d \in Seq(X) /\ d # <<>> /\ \A j \in DOMAIN d : d[j] \notin Separators
      BY DEF Proper
    <3>2. w[i] = <<"/">> \o d
      OBVIOUS
    <3> HIDE DEF d, w, n
    <3> QED
      BY <3>1, <3>2 DEF d
  <2>4. w \in [1 .. n -> Seq(X)]
    BY <2>3
  <2> HIDE DEF w, path, n
  <2>5. /\ \A i \in 0 .. n : T(i) \in Nat
        /\ \A i \in 0 .. n - 1 :
             /\ T(i + 1) = T(i) + Len(w[i + 1])
             /\ \A j \in 1 .. Len(w[i + 1]) : path[T(i) + j] = w[i + 1][j]
        /\ \A p \in 1 .. Len(path) : \E i \in 0 .. n - 1 :
             \E j \in 1 .. Len(w[i + 1]) : p = T(i) + j
    <3>1. n \in Nat /\ w \in [1 .. n -> Seq(X)]
      BY <2>1, <2>4
    <3>2. \A i \in 0 .. n : T(i) \in Nat
      BY <3>1, FlattenedPlaces
    <3>3. ASSUME NEW i \in 0 .. n - 1
          PROVE  /\ T(i + 1) = T(i) + Len(w[i + 1])
                 /\ \A j \in 1 .. Len(w[i + 1]) : FlattenSeq(w)[T(i) + j] = w[i + 1][j]
      <4>1. FollowsAt(w, i)
        BY <3>1, FlattenedPlaces
      <4> QED
        BY <4>1 DEF FollowsAt
    <3>4. ASSUME NEW p \in 1 .. Len(FlattenSeq(w))
          PROVE  \E i \in 0 .. n - 1 : \E j \in 1 .. Len(w[i + 1]) : p = T(i) + j
      <4>1. InOneOf(w, n, p)
        BY <3>1, FlattenedPlaces
      <4> QED
        BY <4>1 DEF InOneOf
    <3> HIDE DEF T
    <3> QED
      BY <3>2, <3>3, <3>4, <2>2
  <2>6. T(0) = 0 /\ T(n) = Len(path) /\ path \in Seq(X)
    <3>1. n \in Nat /\ w \in [1 .. n -> Seq(X)] /\ n \in 0 .. n
      BY <2>1, <2>4
    <3>2. /\ FlattenedTo(w, 0) = <<>> /\ FlattenedTo(w, n) = FlattenSeq(w)
          /\ FlattenedTo(w, n) \in Seq(X)
      BY <3>1, FlattenedStep
    <3> QED
      BY <3>2, <2>2, EmptySeq
  <2>7. \A i \in 0 .. n, m \in 0 .. n : i <= m => T(i) <= T(m)
    <3> SUFFICES ASSUME NEW i \in 0 .. n, NEW m \in i .. n
                 PROVE  T(i) <= T(m)
      OBVIOUS
    <3> QED
      BY <2>1, <2>4, FlattenedPrefix
  <2> HIDE DEF T

  \* Fragment i + 1 of the path.
  <2>8. ASSUME NEW i \in 0 .. n - 1
        PROVE  /\ i \in 0 .. n /\ i + 1 \in 0 .. n /\ i + 1 \in 1 .. n
               /\ T(i) \in Nat /\ T(i + 1) = T(i) + 1 + Len(c[i + 1])
               /\ T(i + 1) <= Len(path) /\ Len(path) \in Nat
               /\ path[T(i) + 1] = "/"
               /\ \A j \in 1 .. Len(c[i + 1]) :
                    path[T(i) + 1 + j] = c[i + 1][j] /\ c[i + 1][j] \notin Separators
    <3>1. i \in 0 .. n /\ i + 1 \in 0 .. n /\ i + 1 \in 1 .. n /\ n \in 0 .. n /\ i + 1 <= n
      BY <2>1
    <3> DEFINE q == Len(c[i + 1])
               t == T(i)
               v == w[i + 1]
    <3>2. /\ q \in Nat /\ q >= 1 /\ t \in Nat /\ Len(v) = q + 1
          /\ v[1] = "/" /\ \A j \in 1 .. q : v[j + 1] = c[i + 1][j] /\ c[i + 1][j] \notin Separators
          /\ T(i + 1) = t + Len(v)
          /\ \A j \in 1 .. Len(v) : path[t + j] = v[j]
      BY <3>1, <2>3, <2>5
    <3>3. T(i + 1) <= Len(path) /\ Len(path) \in Nat
      BY <3>1, <2>5, <2>6, <2>7
    <3> HIDE DEF q, t, v
    <3>4. path[t + 1] = "/"
      BY <3>2
    <3>5. ASSUME NEW j \in 1 .. q
          PROVE  path[t + 1 + j] = c[i + 1][j] /\ c[i + 1][j] \notin Separators
      <4>1. j + 1 \in 1 .. Len(v) /\ t + (j + 1) = t + 1 + j
        BY <3>2
      <4>2. path[t + (j + 1)] = v[j + 1]
        BY <4>1, <3>2
      <4> QED
        BY <4>1, <4>2, <3>2
    <3>6. T(i + 1) = t + 1 + q
      BY <3>2
    <3> QED
      BY <3>1, <3>2, <3>3, <3>4, <3>5, <3>6 DEF q, t, v

  \* The separators of the path are one before each component.
  <2> DEFINE g == [i \in 1 .. n |-> T(i - 1) + 1]
  <2>9. ASSUME NEW p \in 1 .. Len(path)
        PROVE  path[p] \in Separators <=> \E i \in 1 .. n : p = T(i - 1) + 1
    <3>0. PICK i \in 0 .. n - 1 : \E j \in 1 .. Len(w[i + 1]) : p = T(i) + j
      BY <2>5
    <3>1. PICK j \in 1 .. Len(w[i + 1]) : p = T(i) + j
      BY <3>0
    <3>2. "/" \in Separators
      BY DEF Separators
    <3>3. ASSUME NEW m \in 1 .. n, p = T(m - 1) + 1
          PROVE  path[p] \in Separators
      <4>1. m - 1 \in 0 .. n - 1
        BY <2>1
      <4> QED
        BY <4>1, <3>2, <3>3, <2>8
    <3>4. CASE j = 1
      <4>1. i + 1 \in 1 .. n /\ (i + 1) - 1 = i
        BY <2>1
      <4>2. \E m \in 1 .. n : p = T(m - 1) + 1
        BY <4>1, <3>1, <3>4
      <4> QED
        BY <4>2, <3>3
    <3>5. CASE j # 1
      <4> DEFINE k == j - 1
      <4>1. Len(w[i + 1]) = Len(c[i + 1]) + 1 /\ Len(c[i + 1]) \in Nat /\ T(i) \in Nat
        BY <2>3, <2>8
      <4>2. k \in 1 .. Len(c[i + 1]) /\ p = T(i) + 1 + k
        BY <4>1, <3>1, <3>5
      <4>3. path[p] \notin Separators
        BY <4>2, <2>8
      <4> QED
        BY <4>3, <3>3
    <3> QED
      BY <3>4, <3>5
  <2>10. /\ Cardinality(Seps) = n
         /\ \A k \in 1 .. n : Ascending(Seps)[k] = T(k - 1) + 1
    <3> DEFINE L == Len(path)
               All == 1 .. n
    <3>1. /\ L \in Nat /\ DOMAIN path = 1 .. L
          /\ \A i : i \in Seps <=> i \in 1 .. L /\ path[i] \in Separators
      BY <2>6 DEF SeparatorsOf
    <3>2. Seps \in SUBSET (1 .. L) /\ All \in SUBSET (1 .. n) /\ n \in Nat
      BY <3>1, <2>1
    <3> HIDE DEF Seps
    <3>3. ASSUME NEW i \in All
          PROVE  T(i - 1) + 1 \in Seps
      <4> DEFINE m == i - 1
      <4>1. m \in 0 .. n - 1
        BY <2>1
      <4> HIDE DEF m
      <4>2. T(m) + 1 \in 1 .. L
        <5>1. /\ T(m) \in Nat /\ T(m + 1) = T(m) + 1 + Len(c[m + 1])
              /\ T(m + 1) <= L /\ Len(c[m + 1]) \in Nat
          BY <4>1, <2>3, <2>8
        <5> QED
          BY <5>1, <3>1
      <4>3. path[T(m) + 1] \in Separators
        BY <4>1, <2>8 DEF Separators
      <4> QED
        BY <4>2, <4>3, <3>1 DEF m
    <3>4. \A p \in Seps : \E i \in All : g[i] = p
      BY <3>1, <2>9
    <3>5. ASSUME NEW x \in All, NEW y \in All, x < y
          PROVE  T(x - 1) + 1 < T(y - 1) + 1
      <4> DEFINE m == x - 1
                 k == y - 1
      <4>1. m \in 0 .. n - 1 /\ m + 1 \in 0 .. n /\ k \in 0 .. n /\ m + 1 <= k
        BY <2>1, <3>5
      <4> HIDE DEF m, k
      <4>2. T(m) \in Nat /\ T(m + 1) = T(m) + 1 + Len(c[m + 1]) /\ Len(c[m + 1]) \in Nat
        BY <4>1, <2>3, <2>8
      <4>3. T(m + 1) <= T(k) /\ T(k) \in Nat
        BY <4>1, <2>5, <2>7
      <4>4. T(m) + 1 < T(k) + 1
        BY <4>2, <4>3
      <4> QED
        BY <4>4 DEF m, k
    <3>6. g \in [All -> Seps] /\ \A x \in All, y \in All : x < y => g[x] < g[y]
      BY <3>3, <3>5
    <3>7. Cardinality(All) = n /\ \A k \in 1 .. n : Ascending(All)[k] = k
      BY <2>1, AscendingAll
    <3> HIDE DEF g, Seps, L, All
    <3>8. /\ Cardinality(Seps) = Cardinality(All)
          /\ \A k \in 1 .. Cardinality(All) :
               Ascending(All)[k] \in All /\ Ascending(Seps)[k] = g[Ascending(All)[k]]
      BY <3>1, <3>2, <3>4, <3>6, AscendingImage
    <3> QED
      BY <3>7, <3>8 DEF g
  <2> HIDE DEF Seps

  \* So the first piece is empty, and the others are the components.
  <2> DEFINE C == Cuts(path)
             P == Pieces(path)
             Kept == {k \in DOMAIN P : P[k] # <<>>}
             h == [i \in 1 .. n |-> i + 1]
  <2>11. /\ Len(C) = n + 2 /\ C[1] = 0 /\ C[n + 2] = Len(path) + 1
         /\ \A k \in 1 .. n : C[k + 1] = T(k - 1) + 1
    BY <2>6, <2>10, CutsAre DEF Seps
  <2>12. ASSUME NEW k \in 1 .. n
         PROVE  C[k + 1] = T(k - 1) + 1 /\ C[k + 2] = T(k) + 1
    <3>1. C[k + 1] = T(k - 1) + 1
      BY <2>11
    <3>2. CASE k = n
      BY <3>1, <3>2, <2>6, <2>11
    <3>3. CASE k # n
      <4> DEFINE m == k + 1
      <4>1. m \in 1 .. n /\ m + 1 = k + 2 /\ m - 1 = k
        BY <2>1, <3>3
      <4> HIDE DEF m
      <4>2. C[m + 1] = T(m - 1) + 1
        BY <4>1, <2>11
      <4> QED
        BY <3>1, <4>1, <4>2
    <3> QED
      BY <3>2, <3>3
  <2>13. /\ DOMAIN P = 1 .. n + 1
         /\ \A k \in 1 .. n + 1 :
              /\ P[k] = SubSeq(path, C[k] + 1, C[k + 1] - 1)
              /\ P[k] \in Seq(X)
              /\ P[k] # <<>> <=> C[k] + 1 < C[k + 1]
    <3>1. Len(C) - 1 = n + 1
      BY <2>1, <2>11
    <3>2. /\ DOMAIN P = 1 .. Len(C) - 1
          /\ \A k \in 1 .. Len(C) - 1 :
               /\ P[k] = SubSeq(path, C[k] + 1, C[k + 1] - 1)
               /\ P[k] \in Seq(X)
               /\ P[k] # <<>> <=> C[k] + 1 < C[k + 1]
      BY <2>6, PiecesOf
    <3> HIDE DEF C, P
    <3> QED
      BY <3>1, <3>2
  <2> HIDE DEF C, P
  <2>14. P[1] = <<>> /\ 1 \in 1 .. n + 1
    <3>1. 1 \in 1 .. n /\ 1 \in 1 .. n + 1 /\ 1 + 1 = 2 /\ 1 - 1 = 0
      BY <2>1
    <3>2. C[2] = T(0) + 1
      BY <3>1, <2>11
    <3>3. ~(C[1] + 1 < C[1 + 1])
      BY <3>2, <2>6, <2>11
    <3> QED
      BY <3>1, <3>3, <2>13
  <2>15. ASSUME NEW k \in 1 .. n
         PROVE  P[k + 1] = c[k]
    <3> DEFINE q == Len(c[k])
               t == T(k - 1)
               d == c[k]
               m == k - 1
    <3>1. m \in 0 .. n - 1 /\ m + 1 = k
      BY <2>1
    <3>2. /\ t \in Nat /\ T(k) = t + 1 + q /\ T(k) <= Len(path) /\ Len(path) \in Nat
          /\ \A j \in 1 .. q : path[t + 1 + j] = d[j]
      <4> HIDE DEF m
      <4>1. /\ T(m) \in Nat /\ T(m + 1) = T(m) + 1 + Len(c[m + 1])
            /\ T(m + 1) <= Len(path) /\ Len(path) \in Nat
            /\ \A j \in 1 .. Len(c[m + 1]) : path[T(m) + 1 + j] = c[m + 1][j]
        BY <3>1, <2>8
      <4> QED
        BY <4>1, <3>1 DEF m
    <3>3. d \in Seq(X) /\ q = Len(d) /\ q \in Nat
      BY <2>3
    <3>4. P[k + 1] = SubSeq(path, t + 2, t + 1 + q)
      <4>1. k + 1 \in 1 .. n + 1 /\ (k + 1) + 1 = k + 2
        BY <2>1
      <4>2. P[k + 1] = SubSeq(path, C[k + 1] + 1, C[(k + 1) + 1] - 1)
        BY <4>1, <2>13
      <4>3. C[k + 1] = t + 1 /\ C[(k + 1) + 1] = t + 1 + q + 1
        BY <4>1, <3>2, <2>12
      <4> HIDE DEF t, q
      <4>4. C[k + 1] + 1 = t + 2 /\ C[(k + 1) + 1] - 1 = t + 1 + q
        BY <4>3, <3>2, <3>3
      <4> QED
        BY <4>2, <4>4
    <3> HIDE DEF q, t, d
    <3>5. /\ \A i \in t + 2 .. t + 1 + q : path[i] \in X
          /\ t + 2 \in Int /\ t + 1 + q \in Int
      <4>1. \A i \in 1 .. Len(path) : path[i] \in X
        BY <2>6
      <4> QED
        BY <4>1, <3>2, <3>3
    <3> DEFINE s == SubSeq(path, t + 2, t + 1 + q)
    <3>6. /\ s \in Seq(X)
          /\ Len(s) = IF t + 2 <= t + 1 + q THEN (t + 1 + q) - (t + 2) + 1 ELSE 0
          /\ \A j \in 1 .. (t + 1 + q) - (t + 2) + 1 : s[j] = path[t + 2 + j - 1]
      BY <3>5, SubSeqProperties
    <3> HIDE DEF s
    <3>7. Len(s) = q /\ (t + 1 + q) - (t + 2) + 1 = q
      BY <3>2, <3>3, <3>6
    <3>8. ASSUME NEW j \in 1 .. q
          PROVE  s[j] = d[j]
      <4>1. t + 2 + j - 1 = t + 1 + j
        BY <3>2, <3>3
      <4> QED
        BY <4>1, <3>2, <3>6, <3>7
    <3>9. s = d
      BY <3>3, <3>6, <3>7, <3>8, SeqEqual
    <3> QED
      BY <3>4, <3>9 DEF s, d
  <2>16. ASSUME NEW k \in 1 .. n + 1
         PROVE  k \in Kept <=> \E i \in 1 .. n : h[i] = k
    <3>1. CASE k = 1
      <4>1. k \notin Kept
        BY <3>1, <2>14
      <4> QED
        BY <4>1, <3>1
    <3>2. CASE k # 1
      <4> DEFINE i == k - 1
      <4>1. i \in 1 .. n /\ i + 1 = k
        BY <3>2, <2>1
      <4> HIDE DEF i
      <4>2. P[k] = c[i] /\ c[i] # <<>>
        BY <4>1, <2>1, <2>15 DEF Proper, n
      <4> QED
        BY <4>1, <4>2, <2>13
    <3> QED
      BY <3>1, <3>2
  <2>17. /\ Cardinality(Kept) = n
         /\ \A k \in 1 .. n : Ascending(Kept)[k] = k + 1
    <3> DEFINE L == n + 1
               All == 1 .. n
    <3>1. /\ L \in Nat /\ n \in Nat /\ All \in SUBSET (1 .. n) /\ Kept \in SUBSET (1 .. L)
      BY <2>1, <2>13
    <3>2. /\ h \in [All -> Kept]
          /\ \A x \in All, y \in All : x < y => h[x] < h[y]
      <4>1. \A i \in All : h[i] = i + 1 /\ i + 1 \in 1 .. n + 1
        BY <2>1
      <4> QED
        BY <4>1, <2>16
    <3>3. \A k \in Kept : \E i \in All : h[i] = k
      BY <3>1, <2>16
    <3>4. Cardinality(All) = n /\ \A k \in 1 .. n : Ascending(All)[k] = k
      BY <2>1, AscendingAll
    <3>5. \A k \in 1 .. n : h[k] = k + 1
      OBVIOUS
    <3> HIDE DEF h, Kept, L, All
    <3>6. /\ Cardinality(Kept) = Cardinality(All)
          /\ \A k \in 1 .. Cardinality(All) :
               Ascending(All)[k] \in All /\ Ascending(Kept)[k] = h[Ascending(All)[k]]
      BY <3>1, <3>2, <3>3, AscendingImage
    <3> QED
      BY <3>4, <3>5, <3>6
  <2>18. ToNfsComponents(path) = c
    <3>1. ToNfsComponents(path) = [i \in DOMAIN Ascending(Kept) |-> P[Ascending(Kept)[i]]]
      BY DEF ToNfsComponents, P
    <3>2. DOMAIN Ascending(Kept) = 1 .. n
      BY <2>17 DEF Ascending
    <3> HIDE DEF Kept
    <3>3. ToNfsComponents(path) = [i \in 1 .. n |-> c[i]]
      BY <3>1, <3>2, <2>15, <2>17
    <3> QED
      BY <3>3, <2>1
  <2>19. Head(path) = "/"
    <3>1. 0 \in 0 .. n - 1 /\ 0 + 1 = 1
      BY <2>1
    <3>2. path[T(0) + 1] = "/"
      BY <3>1, <2>8
    <3>3. Head(path) = path[1]
      OBVIOUS
    <3> QED
      BY <3>2, <3>3, <2>6
  <2>20. Cardinality({i \in DOMAIN path : path[i] \in Separators}) = n
    BY <2>10 DEF Seps, SeparatorsOf
  <2> QED
    BY <2>18, <2>19, <2>20, <1>2 DEF path, n
<1> QED
  BY <1>1, <1>2

\* Paths are sequences of characters, the separator "/" among them.
LEMMA PathsAre ==
  ASSUME NEW path \in Paths
  PROVE  path \in Seq(Characters) /\ "/" \in Characters
<1>1. PICK n \in 0 .. MaxPath : path \in [1 .. n -> Characters]
  BY DEF Paths
<1>2. n \in Nat
  BY LookupAssumption
<1> QED
  BY <1>1, <1>2 DEF Characters, Separators

\* A sequence is what is before its last element, and that.
LEMMA FrontAndLast ==
  ASSUME NEW S, NEW c \in Seq(S), c # <<>>
  PROVE  Append(Front(c), Last(c)) = c
<1> DEFINE n == Len(c) - 1
           f == SubSeq(c, 1, n)
<1>1. n \in Nat /\ Len(c) = n + 1
  OBVIOUS
<1>2. f \in Seq(S) /\ Len(f) = n /\ \A i \in 1 .. n : f[i] = c[i]
  BY <1>1
<1> HIDE DEF n, f
<1>3. c[n + 1] \in S
  BY <1>1
<1>4. Append(f, c[n + 1]) = c
  BY <1>1, <1>2, <1>3
<1>5. Front(c) = f /\ Last(c) = c[n + 1]
  BY <1>1 DEF Front, Last, f, n
<1> QED
  BY <1>4, <1>5

-----------------------------------------------------------------------------

\* The operations of the COMPOUND.
OpNames == {"SEQUENCE", "PUTROOTFH", "LOOKUP", "GETFH"}

\* What there is in every directory under every name.
TreeType == [Directories -> [Names -> Nodes \cup {NoNode}]]

\* The operations of the COMPOUND for components runs.
Ops(runs) ==
  <<[op |-> "SEQUENCE"], [op |-> "PUTROOTFH"]>>
  \o [i \in DOMAIN runs |-> [op |-> "LOOKUP", name |-> runs[i]]]
  \o <<[op |-> "GETFH"]>>

\* A walk in r that can go on in the tree t is in r a component further, and
\* how one that cannot has ended is in d.
Closed(t, runs, r, d) ==
  /\ r \in SUBSET ((0 .. Len(runs)) \X Nodes)
  /\ \A w \in r : w[1] < Len(runs) =>
       /\ w[2] \in Files => "NOTDIR" \in d
       /\ w[2] \in Directories =>
            LET n == At(t, w[2], runs[w[1] + 1])
            IN  IF n = NoNode THEN "NOENT" \in d ELSE <<w[1] + 1, n>> \in r

\* The results of the operations before GETFH.
Earlier == [op : OpNames, status : {"OK"}, fh : {NoNode}]

\* A call whose COMPOUND has been sent.
Sendings ==
  [phase : {"sent"}, runs : Seq(Seq(Characters)),
   ops : {Ops(runs) : runs \in Seq(Seq(Characters))},
   fh : Nodes \cup {NoNode}, results : Seq(Earlier)]

\* While the server carries out the COMPOUND it is where a walk has been that
\* began with the call, as many components on as LOOKUPs are done; no result
\* before GETFH's has a handle.
Sent ==
  LET done == Len(call.results)
  IN  /\ call \in Sendings /\ call.ops = Ops(call.runs)
      /\ done <= Len(call.runs) + 2
      /\ done >= 2 => call.fh \in Nodes /\ <<done - 2, call.fh>> \in reach
      /\ <<0, Root>> \in reach
      /\ Closed(tree, call.runs, reach, dead)

\* Explained, of an answer that resolve_path is about to give.
Justified(runs, sane, answer) ==
  /\ answer.is = "handle" => <<Len(runs), answer.fh>> \in reach
  /\ answer.is = "unexpected" => ~sane
  /\ answer.is = "status" =>
       CASE answer.status = "TOO_MANY_OPS" -> Len(runs) + 3 > MaxOps
         [] answer.status = "SERVERFAULT" -> ~sane
         [] OTHER -> answer.status \in dead

\* What is so at every phase of a call.
LookupInv ==
  /\ tree \in TreeType
  /\ \/ call = NoCall
     \/ call.phase = "asked" /\ call.path \in Paths
     \/ call.phase = "sent" /\ Sent
     \/ call.phase = "answered" /\ Justified(call.runs, call.sane, ReadReply(call))
  /\ call # NoCall => outcome = NoCall
  /\ Explained

-----------------------------------------------------------------------------

\* What is found in a tree is in the tree, or nothing.
LEMMA AtIs ==
  ASSUME NEW t \in TreeType, NEW d \in Directories, NEW c
  PROVE  At(t, d, c) \in Nodes \cup {NoNode}
BY DEF At, TreeType

\* after is where the walks in known can be, component by component.
Follows(after, t, runs, known, m) ==
  after = [i \in 0 .. m |->
             {n \in Nodes : \/ <<i, n>> \in known
                            \/ i > 0 /\ \E d \in after[i - 1] \cap Directories :
                                           n = At(t, d, runs[i])}]

\* There is such a function, so that Walked means what it says.
LEMMA FollowsExists ==
  ASSUME NEW t, NEW runs, NEW known, NEW l \in Nat
  PROVE  \E after : Follows(after, t, runs, known, l)
<1> DEFINE M == {m \in Nat : \E after : Follows(after, t, runs, known, m)}
           Step(i, before) ==
             {n \in Nodes : \/ <<i, n>> \in known
                            \/ i > 0 /\ \E d \in before \cap Directories :
                                           n = At(t, d, runs[i])}
<1>1. 0 \in M
  <2> DEFINE f == [i \in 0 .. 0 |-> Step(0, {})]
  <2>1. Follows(f, t, runs, known, 0)
    <3>1. \A i \in 0 .. 0 : i = 0 /\ ~(i > 0)
      OBVIOUS
    <3>2. \A i \in 0 .. 0 : Step(0, {}) = Step(i, f[i - 1])
      BY <3>1
    <3> HIDE DEF Step
    <3>3. f = [i \in 0 .. 0 |-> Step(i, f[i - 1])]
      BY <3>2
    <3> QED
      BY <3>3 DEF Follows, Step
  <2> QED
    BY <2>1
<1>2. ASSUME NEW m \in Nat, m \in M
      PROVE  m + 1 \in M
  <2>1. PICK f : Follows(f, t, runs, known, m)
    BY <1>2
  <2> DEFINE g == [i \in 0 .. m + 1 |-> IF i = m + 1 THEN Step(m + 1, f[m]) ELSE f[i]]
  <2>2. f = [i \in 0 .. m |-> Step(i, f[i - 1])]
    BY <2>1 DEF Follows
  <2> HIDE DEF Step
  <2>3. ASSUME NEW i \in 0 .. m + 1
        PROVE  g[i] = Step(i, g[i - 1])
    <3>1. CASE i = m + 1
      <4>1. i - 1 = m /\ m \in 0 .. m + 1 /\ m # m + 1
        BY <3>1
      <4> QED
        BY <3>1, <4>1
    <3>2. CASE i # m + 1
      <4>1. i \in 0 .. m
        BY <3>2
      <4>2. f[i] = Step(i, f[i - 1])
        BY <2>2, <4>1
      <4>3. g[i] = f[i]
        BY <4>1, <3>2
      <4>4. CASE i = 0
        <5>1. Step(0, f[i - 1]) = Step(0, g[i - 1])
          BY DEF Step
        <5> QED
          BY <4>2, <4>3, <4>4, <5>1
      <4>5. CASE i # 0
        <5>1. i - 1 \in 0 .. m + 1 /\ i - 1 # m + 1
          BY <4>1, <4>5
        <5> QED
          BY <4>2, <4>3, <5>1
      <4> QED
        BY <4>4, <4>5
    <3> QED
      BY <3>1, <3>2
  <2>4. g = [i \in 0 .. m + 1 |-> Step(i, g[i - 1])]
    <3>1. g = [i \in 0 .. m + 1 |-> g[i]]
      OBVIOUS
    <3> HIDE DEF g
    <3> QED
      BY <2>3, <3>1
  <2>5. Follows(g, t, runs, known, m + 1)
    <3> HIDE DEF g
    <3> QED
      BY <2>4 DEF Follows, Step
  <2>6. \E h : Follows(h, t, runs, known, m + 1)
    BY <2>5
  <2> QED
    BY <2>6
<1> HIDE DEF M
<1>3. M \in SUBSET Nat
  BY DEF M
<1>4. M = Nat
  BY <1>1, <1>2, <1>3, SetInduction
<1> QED
  BY <1>4 DEF M

\* Walked has the walks it is given, and each as far as the tree takes it.
LEMMA WalkedIs ==
  ASSUME NEW t \in TreeType, NEW S, NEW runs \in Seq(S),
         NEW known \in SUBSET ((0 .. Len(runs)) \X Nodes)
  PROVE  /\ Walked(t, runs, known) \in SUBSET ((0 .. Len(runs)) \X Nodes)
         /\ known \subseteq Walked(t, runs, known)
         /\ \A i \in 0 .. Len(runs), d \in Directories :
              /\ <<i, d>> \in Walked(t, runs, known) /\ i < Len(runs)
              /\ At(t, d, runs[i + 1]) # NoNode
              => <<i + 1, At(t, d, runs[i + 1])>> \in Walked(t, runs, known)
<1> DEFINE l == Len(runs)
           after == CHOOSE f : Follows(f, t, runs, known, l)
           W == Walked(t, runs, known)
<1>1. l \in Nat
  OBVIOUS
<1>2. Follows(after, t, runs, known, l)
  <2> HIDE DEF l
  <2> QED
    BY <1>1, FollowsExists
<1>3. W = {w \in (0 .. l) \X Nodes : w[2] \in after[w[1]]}
  BY DEF Walked, Follows
<1> HIDE DEF after
<1>4. \A i \in 0 .. l : after[i] =
        {n \in Nodes : \/ <<i, n>> \in known
                       \/ i > 0 /\ \E d \in after[i - 1] \cap Directories :
                                      n = At(t, d, runs[i])}
  <2> HIDE DEF l
  <2> QED
    BY <1>2, Zenon DEF Follows
<1> HIDE DEF W
<1>5. ASSUME NEW w \in known
      PROVE  w \in W
  <2>1. w \in (0 .. l) \X Nodes /\ w = <<w[1], w[2]>> /\ w[1] \in 0 .. l /\ w[2] \in Nodes
    OBVIOUS
  <2>2. w[2] \in after[w[1]]
    BY <2>1, <1>4, <1>5
  <2> QED
    BY <1>3, <2>1, <2>2
<1>6. ASSUME NEW i \in 0 .. l, NEW d \in Directories,
             <<i, d>> \in W, i < l, At(t, d, runs[i + 1]) # NoNode
      PROVE  <<i + 1, At(t, d, runs[i + 1])>> \in W
  <2> DEFINE n == At(t, d, runs[i + 1])
             j == i + 1
  <2>1. n \in Nodes
    BY <1>6, AtIs
  <2>2. j \in 0 .. l /\ j > 0 /\ j - 1 = i
    BY <1>1, <1>6
  <2>3. d \in after[j - 1]
    BY <1>3, <1>6, <2>2
  <2>4. n = At(t, d, runs[j])
    OBVIOUS
  <2> HIDE DEF n, j, l
  <2>5. n \in after[j]
    BY <1>4, <2>1, <2>2, <2>3, <2>4
  <2>6. <<j, n>> \in W
    BY <1>3, <2>1, <2>2, <2>5
  <2> QED
    BY <2>6 DEF n, j
<1>7. W \in SUBSET ((0 .. l) \X Nodes)
  BY <1>3
<1> QED
  BY <1>5, <1>6, <1>7 DEF W, l

\* A server step, a change of the tree: what is closed stays so when it is
\* walked again in whatever tree there is then.
LEMMA WalkedClosed ==
  ASSUME NEW t \in TreeType, NEW S, NEW runs \in Seq(S),
         NEW known \in SUBSET ((0 .. Len(runs)) \X Nodes), NEW d,
         Ended(t, runs, Walked(t, runs, known)) \subseteq d
  PROVE  Closed(t, runs, Walked(t, runs, known), d)
<1> DEFINE W == Walked(t, runs, known)
           l == Len(runs)
<1>1. /\ W \in SUBSET ((0 .. l) \X Nodes)
      /\ \A i \in 0 .. l, e \in Directories :
           <<i, e>> \in W /\ i < l /\ At(t, e, runs[i + 1]) # NoNode
           => <<i + 1, At(t, e, runs[i + 1])>> \in W
  BY WalkedIs
<1> HIDE DEF W, l
<1>2. ASSUME NEW w \in W, w[1] < l
      PROVE  /\ w[2] \in Files => "NOTDIR" \in d
             /\ w[2] \in Directories =>
                  LET n == At(t, w[2], runs[w[1] + 1])
                  IN  IF n = NoNode THEN "NOENT" \in d ELSE <<w[1] + 1, n>> \in W
  <2>1. w[1] \in 0 .. l /\ w[2] \in Nodes /\ w = <<w[1], w[2]>>
    BY <1>1
  <2>2. Ended(t, runs, W) \subseteq d
    BY DEF W
  <2>3. CASE w[2] \in Files
    <3>1. "NOTDIR" \in Ended(t, runs, W)
      BY <1>2, <2>3 DEF Ended, l
    <3>2. w[2] \notin Directories
      BY <2>3, LookupAssumption
    <3> QED
      BY <3>1, <3>2, <2>2
  <2>4. CASE w[2] \in Directories
    <3>1. w[2] \notin Files
      BY <2>4, LookupAssumption
    <3>2. CASE At(t, w[2], runs[w[1] + 1]) = NoNode
      <4>1. "NOENT" \in Ended(t, runs, W)
        BY <1>2, <2>4, <3>2 DEF Ended, l
      <4> QED
        BY <4>1, <3>1, <3>2, <2>2
    <3>3. CASE At(t, w[2], runs[w[1] + 1]) # NoNode
      BY <1>1, <1>2, <2>1, <2>4, <3>1, <3>3
    <3> QED
      BY <3>2, <3>3
  <2> QED
    BY <2>1, <2>3, <2>4 DEF Nodes
<1> QED
  BY <1>1, <1>2 DEF Closed, W, l

\* The operations of a COMPOUND, by position.
LEMMA OpsAre ==
  ASSUME NEW S, NEW runs \in Seq(S)
  PROVE  /\ Len(Ops(runs)) = Len(runs) + 3
         /\ Ops(runs)[1].op = "SEQUENCE" /\ Ops(runs)[2].op = "PUTROOTFH"
         /\ \A k \in 1 .. Len(runs) : Ops(runs)[k + 2] = [op |-> "LOOKUP", name |-> runs[k]]
         /\ Ops(runs)[Len(runs) + 3].op = "GETFH"
<1> DEFINE l == Len(runs)
           E == {[op |-> o] : o \in {"SEQUENCE", "PUTROOTFH", "GETFH"}}
                \cup {[op |-> "LOOKUP", name |-> r] : r \in S}
           first == <<[op |-> "SEQUENCE"], [op |-> "PUTROOTFH"]>>
           lookups == [i \in DOMAIN runs |-> [op |-> "LOOKUP", name |-> runs[i]]]
           last == <<[op |-> "GETFH"]>>
<1>1. l \in Nat /\ DOMAIN runs = 1 .. l
  OBVIOUS
<1>2. first \in Seq(E) /\ Len(first) = 2
      /\ first[1] = [op |-> "SEQUENCE"] /\ first[2] = [op |-> "PUTROOTFH"]
  OBVIOUS
<1>3. last \in Seq(E) /\ Len(last) = 1 /\ last[1] = [op |-> "GETFH"]
  OBVIOUS
<1>4. lookups \in Seq(E) /\ Len(lookups) = l
      /\ \A k \in 1 .. l : lookups[k] = [op |-> "LOOKUP", name |-> runs[k]]
  <2>1. \A i \in 1 .. l : [op |-> "LOOKUP", name |-> runs[i]] \in E
    OBVIOUS
  <2> HIDE DEF E
  <2> QED
    BY <1>1, <2>1
<1>5. Ops(runs) = first \o lookups \o last
  BY DEF Ops
<1> HIDE DEF E, first, lookups, last, l
<1> DEFINE front == first \o lookups
<1>6. /\ front \in Seq(E) /\ Len(front) = l + 2
      /\ front[1] = first[1] /\ front[2] = first[2]
      /\ \A k \in 1 .. l : front[k + 2] = lookups[k]
  <2>5. first \in Seq(E) /\ lookups \in Seq(E) /\ Len(first) = 2 /\ Len(lookups) = l
    BY <1>2, <1>4
  <2>6. /\ front \in Seq(E)
        /\ Len(front) = Len(first) + Len(lookups)
        /\ \A k \in 1 .. Len(first) + Len(lookups) : front[k] =
             IF k <= Len(first) THEN first[k] ELSE lookups[k - Len(first)]
    BY <2>5, ConcatProperties, Zenon
  <2>1. front \in Seq(E) /\ Len(front) = l + 2
    BY <1>1, <2>5, <2>6
  <2>2. \A k \in 1 .. l + 2 : front[k] = IF k <= 2 THEN first[k] ELSE lookups[k - 2]
    <3>1. Len(first) + Len(lookups) = l + 2
      BY <1>1, <2>5
    <3> QED
      BY <3>1, <2>5, <2>6
  <2> HIDE DEF front
  <2>3. ASSUME NEW k \in 1 .. l
        PROVE  front[k + 2] = lookups[k]
    <3>1. k + 2 \in 1 .. l + 2 /\ ~(k + 2 <= 2) /\ (k + 2) - 2 = k
      BY <1>1
    <3> QED
      BY <2>2, <3>1
  <2>4. 1 \in 1 .. l + 2 /\ 2 \in 1 .. l + 2 /\ 1 <= 2 /\ 2 <= 2
    BY <1>1
  <2> QED
    BY <2>1, <2>2, <2>3, <2>4
<1>11. Ops(runs) = front \o last
  BY <1>5
<1> HIDE DEF front
<1>7. /\ Len(Ops(runs)) = l + 3 /\ Ops(runs)[l + 3] = last[1]
      /\ \A k \in 1 .. l + 2 : Ops(runs)[k] = front[k]
  <2>7. front \in Seq(E) /\ last \in Seq(E) /\ Len(front) = l + 2 /\ Len(last) = 1
    BY <1>3, <1>6
  <2>8. /\ Len(front \o last) = Len(front) + Len(last)
        /\ \A k \in 1 .. Len(front) + Len(last) : (front \o last)[k] =
             IF k <= Len(front) THEN front[k] ELSE last[k - Len(front)]
    BY <2>7, ConcatProperties, Zenon
  <2>9. Len(front) + Len(last) = l + 3
    BY <1>1, <2>7
  <2>1. Len(front \o last) = l + 3
    BY <2>8, <2>9
  <2>2. \A k \in 1 .. l + 3 : (front \o last)[k] =
          IF k <= l + 2 THEN front[k] ELSE last[k - (l + 2)]
    BY <2>7, <2>8, <2>9
  <2>3. l + 3 \in 1 .. l + 3 /\ ~(l + 3 <= l + 2) /\ (l + 3) - (l + 2) = 1
    BY <1>1
  <2>4. (front \o last)[l + 3] = last[1]
    BY <2>2, <2>3
  <2>5. \A k \in 1 .. l + 2 : k \in 1 .. l + 3 /\ k <= l + 2
    BY <1>1
  <2>6. \A k \in 1 .. l + 2 : (front \o last)[k] = front[k]
    BY <2>2, <2>5
  <2> QED
    BY <1>11, <2>1, <2>4, <2>6
<1>8. 1 \in 1 .. l + 2 /\ 2 \in 1 .. l + 2 /\ \A k \in 1 .. l : k + 2 \in 1 .. l + 2
  BY <1>1
<1>9. Ops(runs)[1] = [op |-> "SEQUENCE"] /\ Ops(runs)[2] = [op |-> "PUTROOTFH"]
  BY <1>2, <1>6, <1>7, <1>8
<1>10. \A k \in 1 .. l : Ops(runs)[k + 2] = [op |-> "LOOKUP", name |-> runs[k]]
  BY <1>4, <1>6, <1>7, <1>8
<1>12. Ops(runs)[1].op = "SEQUENCE" /\ Ops(runs)[2].op = "PUTROOTFH"
  BY <1>9
<1>13. Ops(runs)[l + 3].op = "GETFH"
  BY <1>3, <1>7
<1> QED
  BY <1>7, <1>10, <1>12, <1>13 DEF l

\* What is asked of the server for a path.
LEMMA RequestIs ==
  ASSUME NEW path \in Paths
  PROVE  /\ Request(path) = Ops(Runs(path))
         /\ Runs(path) \in Seq(Seq(Characters))
BY PathsAre, ComponentsAreRuns DEF Request, Ops

-----------------------------------------------------------------------------
(* Resolving a path keeps the invariant. *)

\* The invariant holds before the first call.
LEMMA InitHolds ==
  ASSUME LookupInit PROVE LookupInv
BY DEF LookupInit, LookupInv, Explained, Trees, TreeType, NoCall

\* A call begins: nothing has been asked of the server.
LEMMA ResolvePathKeeps ==
  ASSUME LookupInv, ResolvePath PROVE LookupInv'
BY DEF LookupInv, ResolvePath, Explained, NoCall

\* The COMPOUND is sent: every walk it can take in the tree begins at the root
\* (mount.rs 84-110).
LEMMA SendLookupKeeps ==
  ASSUME LookupInv, SendLookup PROVE LookupInv'
<1> DEFINE runs == Runs(call.path)
<1>1. call # NoCall /\ call.path \in Paths /\ tree \in TreeType /\ outcome = NoCall
  BY DEF LookupInv, SendLookup, NoCall
<1>2. runs \in Seq(Seq(Characters)) /\ Request(call.path) = Ops(runs)
  BY <1>1, RequestIs
<1>3. /\ call' = [phase |-> "sent", runs |-> runs, ops |-> Request(call.path),
                  fh |-> NoNode, results |-> <<>>]
      /\ reach' = Walked(tree, runs, {<<0, Root>>})
      /\ dead' = Ended(tree, runs, reach')
      /\ tree' = tree /\ outcome' = outcome
  BY DEF SendLookup
<1> HIDE DEF runs
<1>4. /\ call'.runs = runs /\ call'.results = <<>> /\ call'.ops = Ops(runs)
      /\ call'.phase = "sent" /\ call' \in Sendings
  <2>1. <<>> \in Seq(Earlier)
    OBVIOUS
  <2> QED
    BY <1>2, <1>3, <2>1 DEF Sendings
<1>5. {<<0, Root>>} \in SUBSET ((0 .. Len(runs)) \X Nodes)
  BY <1>2, LookupAssumption DEF Nodes
<1>6. <<0, Root>> \in reach'
  BY <1>1, <1>2, <1>3, <1>5, WalkedIs
<1>7. Closed(tree, runs, reach', dead')
  BY <1>1, <1>2, <1>3, <1>5, WalkedClosed
<1>8. Len(call'.results) = 0 /\ Len(runs) \in Nat
  BY <1>2, <1>4
<1>9. Sent'
  BY <1>3, <1>4, <1>6, <1>7, <1>8 DEF Sent
<1>10. Explained'
  BY <1>1, <1>3 DEF Explained, NoCall
<1> QED
  BY <1>1, <1>3, <1>4, <1>9, <1>10 DEF LookupInv

\* The operation the server is at, by how many it has done.
LEMMA NextOp ==
  ASSUME NEW S, NEW runs \in Seq(S), NEW done \in Nat, done <= Len(runs) + 2
  PROVE  LET op == Ops(runs)[done + 1]
         IN  /\ op.op \in {"SEQUENCE", "PUTROOTFH", "LOOKUP", "GETFH"}
             /\ op.op = "SEQUENCE" <=> done = 0
             /\ op.op = "PUTROOTFH" <=> done = 1
             /\ op.op = "LOOKUP" <=> 2 <= done /\ done < Len(runs) + 2
             /\ op.op = "LOOKUP" => op.name = runs[(done - 2) + 1]
             /\ op.op = "GETFH" <=> done = Len(runs) + 2
<1> DEFINE l == Len(runs)
           op == Ops(runs)[done + 1]
<1>1. l \in Nat
  OBVIOUS
<1>2. /\ Ops(runs)[1].op = "SEQUENCE" /\ Ops(runs)[2].op = "PUTROOTFH"
      /\ \A k \in 1 .. l : Ops(runs)[k + 2] = [op |-> "LOOKUP", name |-> runs[k]]
      /\ Ops(runs)[l + 3].op = "GETFH"
  BY OpsAre
<1> HIDE DEF l
<1>3. CASE done = 0
  <2>1. done + 1 = 1
    BY <1>3
  <2>2. op.op = "SEQUENCE"
    BY <1>2, <2>1
  <2> QED
    BY <1>1, <1>3, <2>2 DEF l
<1>4. CASE done = 1
  <2>1. done + 1 = 2
    BY <1>4
  <2>2. op.op = "PUTROOTFH"
    BY <1>2, <2>1
  <2> QED
    BY <1>1, <1>4, <2>2 DEF l
<1>5. CASE 2 <= done /\ done < l + 2
  <2> DEFINE k == done - 1
  <2>1. k \in 1 .. l /\ done + 1 = k + 2 /\ (done - 2) + 1 = k
    BY <1>1, <1>5
  <2> HIDE DEF k
  <2>2. op = [op |-> "LOOKUP", name |-> runs[k]]
    BY <1>2, <2>1
  <2>3. op.op = "LOOKUP" /\ op.name = runs[(done - 2) + 1]
    BY <2>1, <2>2
  <2> HIDE DEF op
  <2> QED
    BY <1>1, <1>5, <2>3 DEF l, op
<1>6. CASE done = l + 2
  <2>1. done + 1 = l + 3
    BY <1>1, <1>6
  <2>2. op.op = "GETFH"
    BY <1>2, <2>1
  <2> QED
    BY <1>1, <1>6, <2>2 DEF l
<1> QED
  BY <1>1, <1>3, <1>4, <1>5, <1>6 DEF l

\* The server does the next operation, in whatever tree there is: a LOOKUP takes
\* the walk a component further or ends it as the status says, and only GETFH's
\* result has a handle.
LEMMA ServerStepKeeps ==
  ASSUME LookupInv, ServerStep PROVE LookupInv'
<1> DEFINE runs == call.runs
           l == Len(runs)
           done == Len(call.results)
           op == call.ops[done + 1]
           at == At(tree, call.fh, op.name)
           status == CASE op.op = "SEQUENCE" /\ Len(call.ops) > MaxOps -> "TOO_MANY_OPS"
                       [] op.op = "LOOKUP" /\ call.fh \in Files -> "NOTDIR"
                       [] op.op = "LOOKUP" /\ call.fh \in Directories
                          /\ at = NoNode -> "NOENT"
                       [] OTHER -> "OK"
           fh == CASE op.op = "PUTROOTFH" -> Root
                   [] op.op = "LOOKUP" /\ status = "OK" -> at
                   [] OTHER -> call.fh
           result == [op |-> op.op, status |-> status,
                      fh |-> IF op.op = "GETFH" THEN fh ELSE NoNode]
           results == Append(call.results, result)
<1>1. call # NoCall /\ call.phase = "sent" /\ Sent /\ outcome = NoCall /\ tree \in TreeType
  BY DEF LookupInv, ServerStep, NoCall
<1>2. /\ tree' = tree /\ outcome' = outcome /\ reach' = reach /\ dead' = dead
      /\ IF status # "OK" \/ Len(results) = Len(call.ops)
         THEN call' = [phase |-> "answered", runs |-> runs, status |-> status,
                       results |-> results, sane |-> TRUE]
         ELSE call' = [call EXCEPT !.fh = fh, !.results = results]
  BY DEF ServerStep, Reply
<1>3. /\ call \in Sendings /\ call.ops = Ops(runs) /\ runs \in Seq(Seq(Characters))
      /\ call.results \in Seq(Earlier)
      /\ done \in Nat /\ done <= l + 2 /\ l \in Nat /\ Len(call.ops) = l + 3
  BY <1>1, OpsAre DEF Sent, Sendings
<1>4. /\ done >= 2 => call.fh \in Nodes /\ <<done - 2, call.fh>> \in reach
      /\ <<0, Root>> \in reach
      /\ Closed(tree, runs, reach, dead)
  BY <1>1 DEF Sent
<1>5. /\ op.op \in {"SEQUENCE", "PUTROOTFH", "LOOKUP", "GETFH"}
      /\ op.op = "SEQUENCE" <=> done = 0
      /\ op.op = "PUTROOTFH" <=> done = 1
      /\ op.op = "LOOKUP" <=> 2 <= done /\ done < l + 2
      /\ op.op = "LOOKUP" => op.name = runs[(done - 2) + 1]
      /\ op.op = "GETFH" <=> done = l + 2
  <2> HIDE DEF done, runs
  <2>1. runs \in Seq(Seq(Characters)) /\ done \in Nat /\ done <= Len(runs) + 2
    BY <1>3
  <2>2. op = Ops(runs)[done + 1]
    BY <1>3
  <2> HIDE DEF op
  <2> QED
    BY <2>1, <2>2, NextOp
<1>6. /\ status \in {"OK", "TOO_MANY_OPS", "NOTDIR", "NOENT"}
      /\ status = "TOO_MANY_OPS" => op.op = "SEQUENCE" /\ Len(call.ops) > MaxOps
      /\ status = "NOTDIR" => op.op = "LOOKUP" /\ call.fh \in Files
      /\ status = "NOENT" => op.op = "LOOKUP" /\ call.fh \in Directories /\ at = NoNode
      /\ op.op = "LOOKUP" /\ status = "OK" =>
           call.fh \notin Files /\ ~(call.fh \in Directories /\ at = NoNode)
  OBVIOUS
<1>7. fh = IF op.op = "PUTROOTFH" THEN Root
           ELSE IF op.op = "LOOKUP" /\ status = "OK" THEN at ELSE call.fh
  OBVIOUS
<1>8. /\ results \in Seq([op : {op.op}, status : {status}, fh : {result.fh}] \cup Earlier)
      /\ Len(results) = done + 1 /\ Last(results) = result /\ results # <<>>
  <2> DEFINE A == Earlier
             R == [op : {op.op}, status : {status}, fh : {result.fh}] \cup A
  <2>1. result \in R /\ call.results \in Seq(R)
    <3>1. result \in R
      OBVIOUS
    <3>2. A \subseteq R /\ call.results \in Seq(A)
      BY <1>3
    <3> HIDE DEF R, result, A
    <3> QED
      BY <3>1, <3>2
  <2> HIDE DEF R, result
  <2>2. /\ Append(call.results, result) \in Seq(R)
        /\ Len(Append(call.results, result)) = done + 1
        /\ Append(call.results, result)[done + 1] = result
    BY <1>3, <2>1
  <2>3. results = Append(call.results, result)
    BY DEF result
  <2>4. Last(results) = results[Len(results)]
    BY DEF Last
  <2> HIDE DEF results
  <2>5. Len(results) = done + 1 /\ Last(results) = result
    BY <2>2, <2>3, <2>4
  <2>6. results \in Seq(R) /\ results # <<>>
    BY <1>3, <2>2, <2>3
  <2> QED
    BY <2>5, <2>6 DEF R
<1> HIDE DEF status, fh, results, op, at
\* What a LOOKUP finds where the walk is.
<1>9. ASSUME op.op = "LOOKUP"
      PROVE  /\ call.fh \in Files => "NOTDIR" \in dead
             /\ call.fh \in Directories =>
                  IF at = NoNode THEN "NOENT" \in dead
                  ELSE at \in Nodes /\ <<(done + 1) - 2, at>> \in reach
  <2> DEFINE i == done - 2
             w == <<i, call.fh>>
  <2>1. i \in Nat /\ i < l /\ i + 1 = (done + 1) - 2
    BY <1>3, <1>5, <1>9
  <2>2. w \in reach /\ call.fh \in Nodes /\ w[1] = i /\ w[2] = call.fh
    BY <1>3, <1>4, <1>5, <1>9
  <2>3. op.name = runs[i + 1]
    BY <1>5, <1>9
  <2> HIDE DEF i, w, l, done, runs
  <2>4. /\ w[2] \in Files => "NOTDIR" \in dead
        /\ w[2] \in Directories =>
             IF At(tree, w[2], runs[w[1] + 1]) = NoNode THEN "NOENT" \in dead
             ELSE <<w[1] + 1, At(tree, w[2], runs[w[1] + 1])>> \in reach
    BY <1>4, <2>1, <2>2 DEF Closed, l
  <2>5. at = At(tree, w[2], runs[w[1] + 1])
    BY <2>2, <2>3 DEF at
  <2>6. call.fh \in Directories => at \in Nodes \cup {NoNode}
    BY <1>1, AtIs DEF at
  <2> QED
    BY <2>1, <2>2, <2>4, <2>5, <2>6
<1>10. CASE status # "OK"
  <2>1. call' = [phase |-> "answered", runs |-> runs, status |-> status,
                 results |-> results, sane |-> TRUE]
    BY <1>2, <1>10
  <2>2. ReadReply(call') = [is |-> "status", status |-> status]
    BY <2>1, <1>10 DEF ReadReply
  <2>3. /\ status = "TOO_MANY_OPS" => l + 3 > MaxOps
        /\ status # "TOO_MANY_OPS" => status \in dead
        /\ status # "SERVERFAULT"
    BY <1>3, <1>6, <1>9, <1>10
  <2>4. Justified(call.runs, call.sane, ReadReply(call))'
    BY <1>2, <2>1, <2>2, <2>3 DEF Justified
  <2> QED
    BY <1>1, <1>2, <2>1, <2>4 DEF LookupInv, Explained, NoCall
<1>11. CASE status = "OK" /\ done = l + 2
  <2>1. call' = [phase |-> "answered", runs |-> runs, status |-> status,
                 results |-> results, sane |-> TRUE]
    BY <1>2, <1>3, <1>8, <1>11
  <2>2. op.op = "GETFH" /\ fh = call.fh /\ call.fh \in Nodes /\ <<l, call.fh>> \in reach
    BY <1>3, <1>4, <1>5, <1>7, <1>11
  <2>3. /\ Last(results).op = "GETFH" /\ Last(results).status = "OK"
        /\ Last(results).fh = call.fh /\ call.fh # NoNode
    BY <1>8, <1>11, <2>2, LookupAssumption
  <2>4. ReadReply(call') = [is |-> "handle", fh |-> call.fh]
    BY <1>8, <1>11, <2>1, <2>3 DEF ReadReply
  <2>5. Justified(call.runs, call.sane, ReadReply(call))'
    BY <1>2, <2>1, <2>2, <2>4 DEF Justified
  <2> QED
    BY <1>1, <1>2, <2>1, <2>5 DEF LookupInv, Explained, NoCall
<1>12. CASE status = "OK" /\ done # l + 2
  <2>1. call' = [call EXCEPT !.fh = fh, !.results = results]
    BY <1>2, <1>3, <1>8, <1>12
  <2>2. op.op # "GETFH" /\ done + 1 <= l + 2
    BY <1>3, <1>5, <1>12
  <2>3. results \in Seq(Earlier)
    <3>1. op.op \in OpNames /\ result.fh = NoNode
      <4>1. op.op = "SEQUENCE" \/ op.op = "PUTROOTFH" \/ op.op = "LOOKUP"
        BY <1>5, <2>2
      <4>2. op.op \in OpNames
        BY <4>1 DEF OpNames
      <4>3. result.fh = NoNode
        BY <2>2
      <4> QED
        BY <4>2, <4>3
    <3>2. [op : {op.op}, status : {status}, fh : {NoNode}] \cup Earlier
            = Earlier
      BY <1>12, <3>1 DEF Earlier
    <3> QED
      BY <1>8, <3>1, <3>2
  <2>4. done + 1 >= 2 => fh \in Nodes /\ <<(done + 1) - 2, fh>> \in reach
    <3>1. CASE done = 0
      BY <3>1
    <3>2. CASE done = 1
      <4>1. fh = Root /\ (done + 1) - 2 = 0
        BY <1>5, <1>7, <3>2
      <4> QED
        BY <1>4, <4>1, LookupAssumption DEF Nodes
    <3>3. CASE done # 0 /\ done # 1
      <4>1. op.op = "LOOKUP" /\ call.fh \in Nodes /\ fh = at
        BY <1>3, <1>4, <1>5, <1>7, <1>12, <3>3
      <4>2. call.fh \in Directories /\ at # NoNode
        BY <1>6, <1>12, <4>1 DEF Nodes
      <4> QED
        BY <1>9, <4>1, <4>2
    <3> QED
      BY <3>1, <3>2, <3>3
  <2>5. fh \in Nodes \cup {NoNode}
    BY <1>3, <1>4, <1>5, <1>7, <2>4, <1>12 DEF Sendings
  <2>6. /\ call' \in Sendings /\ call'.ops = Ops(call'.runs) /\ call'.runs = runs
        /\ call'.results = results /\ call'.fh = fh /\ call'.phase = "sent"
    BY <1>3, <2>1, <2>3, <2>5 DEF Sendings
  <2>7. Sent'
    BY <1>2, <1>4, <1>8, <2>2, <2>4, <2>6 DEF Sent
  <2> QED
    BY <1>1, <1>2, <2>6, <2>7 DEF LookupInv, Explained, NoCall
<1> QED
  BY <1>10, <1>11, <1>12

\* An answer that falls short leaves no handle to return.
LEMMA ServerMisanswersKeeps ==
  ASSUME LookupInv, ServerMisanswers PROVE LookupInv'
<1> DEFINE failed == [op |-> "GETFH", status |-> "SERVERFAULT", fh |-> NoNode]
           Short(results) == [phase |-> "answered", runs |-> call.runs, status |-> "OK",
                              results |-> results, sane |-> FALSE]
<1>1. call # NoCall /\ Sent /\ outcome = NoCall /\ tree \in TreeType
  BY DEF LookupInv, ServerMisanswers, NoCall
<1>2. call.results \in Seq(Earlier)
  BY <1>1 DEF Sent, Sendings
<1>3. ASSUME call' = Short(call.results)
      PROVE  Justified(call.runs, call.sane, ReadReply(call))'
  <2>1. ReadReply(call') = [is |-> "unexpected"]
    <3>1. ASSUME call.results # <<>>
          PROVE  Last(call.results).fh = NoNode /\ Last(call.results).status = "OK"
      <4>1. call.results[Len(call.results)] \in Earlier
        BY <1>2, <3>1
      <4> QED
        BY <4>1 DEF Last, Earlier
    <3> QED
      BY <1>3, <3>1 DEF ReadReply
  <2> QED
    BY <1>3, <2>1 DEF Justified
<1>4. ASSUME call' = Short(Append(call.results, failed))
      PROVE  Justified(call.runs, call.sane, ReadReply(call))'
  <2> DEFINE all == Append(call.results, failed)
             T == Earlier \cup {failed}
  <2>1. all # <<>> /\ Last(all) = failed
    <3>1. call.results \in Seq(T) /\ failed \in T
      BY <1>2
    <3> HIDE DEF T, failed
    <3>2. all # <<>> /\ all[Len(all)] = failed
      BY <3>1
    <3> QED
      BY <3>2 DEF Last
  <2> HIDE DEF all
  <2>2. ReadReply(call') = [is |-> "status", status |-> "SERVERFAULT"]
    BY <1>4, <2>1 DEF ReadReply, all
  <2> QED
    BY <1>4, <2>2 DEF Justified
<1>5. call' = Short(call.results) \/ call' = Short(Append(call.results, failed))
  BY DEF ServerMisanswers, Reply
<1>6. tree' = tree /\ outcome' = outcome /\ call'.phase = "answered"
  BY <1>5 DEF ServerMisanswers
<1>7. Justified(call.runs, call.sane, ReadReply(call))'
  BY <1>3, <1>4, <1>5
<1> QED
  BY <1>1, <1>5, <1>6, <1>7 DEF LookupInv, Explained, NoCall

\* The tree changes: the walks so far go on in the new one.
LEMMA TreeChangesKeeps ==
  ASSUME LookupInv, TreeChanges PROVE LookupInv'
<1> DEFINE runs == call.runs
<1>1. call # NoCall /\ call.phase = "sent" /\ Sent /\ outcome = NoCall
  BY DEF LookupInv, TreeChanges, NoCall
<1>2. /\ tree' \in TreeType /\ call' = call /\ outcome' = outcome
      /\ reach' = Walked(tree', runs, reach)
      /\ dead' = dead \cup Ended(tree', runs, reach')
  BY DEF TreeChanges, Trees, TreeType
<1>3. runs \in Seq(Seq(Characters)) /\ reach \in SUBSET ((0 .. Len(runs)) \X Nodes)
  BY <1>1 DEF Sent, Sendings, Closed
<1> HIDE DEF runs
<1>4. reach \subseteq reach'
  BY <1>2, <1>3, WalkedIs
<1>5. Closed(tree', runs, reach', dead')
  BY <1>2, <1>3, WalkedClosed
<1>6. Sent'
  BY <1>1, <1>2, <1>4, <1>5 DEF Sent, runs
<1> QED
  BY <1>1, <1>2, <1>6 DEF LookupInv, Explained

\* What the reply justified is justified of the outcome (mount.rs 111-132).
LEMMA ReturnKeeps ==
  ASSUME LookupInv, Return PROVE LookupInv'
<1>1. Justified(call.runs, call.sane, ReadReply(call)) /\ tree \in TreeType
  BY DEF LookupInv, Return, NoCall
<1>2. /\ outcome' = [runs |-> call.runs, sane |-> call.sane, answer |-> ReadReply(call)]
      /\ call' = NoCall /\ tree' = tree /\ reach' = reach /\ dead' = dead
  BY DEF Return
<1>3. Explained'
  BY <1>1, <1>2 DEF Explained, Justified
<1> QED
  BY <1>1, <1>2, <1>3 DEF LookupInv

\* Nothing changes.
LEMMA StutterKeeps ==
  ASSUME LookupInv, UNCHANGED lookupVars PROVE LookupInv'
BY DEF LookupInv, lookupVars, Sent, Justified, Explained, Closed

\* The invariant holds in every state of a call.
LEMMA LookupInvariant == LookupSpec => []LookupInv
<1>1. LookupInit => LookupInv
  BY InitHolds
<1>2. LookupInv /\ [LookupNext]_lookupVars => LookupInv'
  BY ResolvePathKeeps, SendLookupKeeps, ServerStepKeeps, ServerMisanswersKeeps,
     TreeChangesKeeps, ReturnKeeps, StutterKeeps DEF LookupNext
<1> QED
  BY <1>1, <1>2, PTL DEF LookupSpec

\* Whatever other clients do to the tree between two operations of the COMPOUND,
\* a handle returned is where a walk along the whole path ends, NOENT and NOTDIR
\* are what such a walk met, TOO_MANY_OPS means the path is too deep, and only a
\* server that answers short makes the reply unexpected, for any export, names,
\* paths and session limits (mount.rs 81-132).
THEOREM EndsOfWalks == LookupSpec => []Explained
<1>1. LookupInv => Explained
  BY DEF LookupInv
<1> QED
  BY <1>1, LookupInvariant, PTL

\* Every path is taken apart into its runs of characters that are not
\* separators, and is put together again as an NFS path that is read back as the
\* same, for any letters and paths of any length (path.rs 1-23).
THEOREM TakenApart == LookupSpec => []PathForms
<1>1. ASSUME LookupInv, call.phase = "asked"
      PROVE  PathForms
  <2> DEFINE path == call.path
             runs == Runs(path)
             nfs == ToNfsPath(runs)
             split == SplitParentName(path)
  <2>1. path \in Seq(Characters) /\ "/" \in Characters
    BY <1>1, PathsAre DEF LookupInv, Sent, Sendings, NoCall
  <2> HIDE DEF path
  <2>2. ToNfsComponents(path) = runs /\ runs \in Seq(Seq(Characters)) /\ Proper(runs)
    BY <2>1, ComponentsAreRuns
  <2>3. split = IF runs = <<>> THEN NoNode ELSE [parent |-> Front(runs), name |-> Last(runs)]
    BY <2>2 DEF SplitParentName
  <2> HIDE DEF runs, split
  <2>4. /\ ToNfsComponents(nfs) = runs /\ Head(nfs) = "/"
        /\ Cardinality({i \in DOMAIN nfs : nfs[i] \in Separators}) =
             IF runs = <<>> THEN 1 ELSE Len(runs)
    BY <2>1, <2>2, ReadBack
  <2>5. IF runs = <<>> THEN split = NoNode ELSE Append(split.parent, split.name) = runs
    BY <2>2, <2>3, FrontAndLast
  <2> QED
    BY <2>2, <2>4, <2>5 DEF PathForms, path, runs, split
<1>2. LookupInv => PathForms
  BY <1>1 DEF PathForms
<1> QED
  BY <1>2, LookupInvariant, PTL
=============================================================================
