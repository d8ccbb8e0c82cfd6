----------------------------- MODULE MountCaches -----------------------------
(***************************************************************************)
(* AttrCache and DirCache (nfs-mount, attr_cache.rs and dir_cache.rs) in   *)
(* front of a server whose files also change under other clients.  Tasks   *)
(* fill the caches from replies (GETATTR, READDIR), invalidate them when a *)
(* change of their own is done, and look at them; the server, the replies  *)
(* in flight and the clock move between any two of these.  No code of the  *)
(* repository calls the caches yet: the tasks are the callers the methods  *)
(* are made for.                                                           *)
(***************************************************************************)
EXTENDS Integers, FiniteSets

CONSTANTS
  Handles, Dirs,      \* filehandles, and those of directories
  Tasks,              \* callers
  FileMin, FileMax,   \* AttrCache.file_ttl_min, file_ttl_max
  DirMin, DirMax,     \* AttrCache.dir_ttl_min, dir_ttl_max
  ListTtl,            \* DirCache.ttl
  MaxFlight,          \* bound: ticks a reply takes to reach the cache
  MaxVersion,         \* bound: changes of one file
  MaxAge              \* cap on ages, beyond every time to live

ASSUME CachesAssumption ==
  /\ Dirs \subseteq Handles
  /\ {FileMin, FileMax, DirMin, DirMax, ListTtl} \subseteq 0 .. MaxAge
  /\ MaxFlight \in Nat /\ MaxVersion \in Nat /\ MaxAge \in Nat

VARIABLES
  version,   \* per handle: changes of the file at the server
  toldAttrs,     \* per handle: the newest change of a task's that attrs was
  toldListings,  \* told of, and that listings was
  attrs,     \* AttrCache.entries
  listings,  \* DirCache.entries
  task       \* per task: what it is doing

told == <<toldAttrs, toldListings>>
vars == <<version, told, attrs, listings, task>>

Versions == 0 .. MaxVersion
Staleness == 0 .. MaxAge + MaxFlight

\* No entry; no task in hand.
None == [age |-> -1]
Idle == [does |-> "nothing"]

\* What a reply says: the version it was made from, the time since the file
\* left that version, and whether the listing is the whole directory.
Replies == [of : Versions, stale : Staleness, whole : BOOLEAN]

\* An entry has, beside what the code keeps (the data, and its age in place
\* of `inserted`), a mark for the properties: late, the reply was made before
\* a change of ours that the cache had been told of when it was put.
AttrEntries == [data : Replies, age : 0 .. MaxAge, late : BOOLEAN]
ListEntries == [data : Replies, complete : BOOLEAN, age : 0 .. MaxAge, late : BOOLEAN]

TaskStates ==
  {Idle}
  \cup [does : {"putattr"}, h : Handles, reply : Replies, flight : 0 .. MaxFlight]
  \cup [does : {"putdir"}, h : Dirs, reply : Replies, flight : 0 .. MaxFlight]
  \cup [does : {"changed"}, h : Handles, of : Versions]
  \cup [does : {"halftold"}, h : Dirs, of : Versions]
  \cup [does : {"lists", "trusts"}, h : Dirs, reply : Replies]

TypeOK ==
  /\ version \in [Handles -> Versions]
  /\ toldAttrs \in [Handles -> Versions]
  /\ toldListings \in [Dirs -> Versions]
  /\ attrs \in [Handles -> {None} \cup AttrEntries]
  /\ listings \in [Dirs -> {None} \cup ListEntries]
  /\ task \in [Tasks -> TaskStates]

Init ==
  /\ version = [h \in Handles |-> 0]
  /\ toldAttrs = [h \in Handles |-> 0]
  /\ toldListings = [h \in Dirs |-> 0]
  /\ attrs = [h \in Handles |-> None]
  /\ listings = [h \in Dirs |-> None]
  /\ task = [t \in Tasks |-> Idle]

Does(t, what) == task[t].does = what

\* A slice that get returned borrows the listings: nothing is put there,
\* removed or evicted while a task holds one.  The attributes, behind a mutex
\* of their own, go on changing.
Borrowed == \E t \in Tasks : Does(t, "lists")

-----------------------------------------------------------------------------
(* The cache methods *)

\* Mutant: entries are served up to the maximum.
AttrTtlMax(h) == IF h \in Dirs THEN DirMax ELSE FileMax

AttrTtl(h) == IF h \in Dirs THEN DirMin ELSE FileMin

\* AttrCache::get, Some.
AttrServed(h) == attrs[h] # None /\ attrs[h].age < AttrTtl(h)

\* DirCache::get, Some.
ListServed(h) == listings[h] # None /\ listings[h].age < ListTtl

\* Mutant: an expired listing still counts as complete.
IsCompleteEver(h) == listings[h] # None /\ listings[h].complete

\* DirCache::is_complete
IsComplete(h) == listings[h] # None /\ listings[h].complete /\ listings[h].age < ListTtl

\* Mutant: an entry that is there is made young, its data kept.
NewAttrsRenews(h, r) ==
  IF attrs[h] = None THEN [data |-> r, age |-> 0, late |-> r.of < toldAttrs[h]]
  ELSE [attrs[h] EXCEPT !.age = 0]

\* AttrCache::put, DirCache::put: a new entry in the place of the old one.
NewAttrs(h, r) == [data |-> r, age |-> 0, late |-> r.of < toldAttrs[h]]

\* Mutant: a directory once listed to its end stays complete.
NewListingStays(h, r) ==
  [data |-> r, complete |-> r.whole \/ (listings[h] # None /\ listings[h].complete),
   age |-> 0, late |-> r.of < toldListings[h]]

NewListing(h, r) ==
  [data |-> r, complete |-> r.whole, age |-> 0, late |-> r.of < toldListings[h]]

\* AttrCache::invalidate
InvalidateAttrs(h) == attrs' = [attrs EXCEPT ![h] = None]

\* Mutant: the listing of a changed directory stays.
KeepListing(h) == UNCHANGED listings

\* DirCache::invalidate
InvalidateListing(h) == listings' = [listings EXCEPT ![h] = None]

\* AttrCache::invalidate_all
InvalidateAll ==
  /\ attrs' = [h \in Handles |-> None]
  /\ UNCHANGED <<version, told, listings, task>>

EvictAfter(h) == IF h \in Dirs THEN DirMax ELSE FileMax

\* AttrCache::evict_expired: attributes go at their maximum.
EvictAttrs ==
  /\ attrs' = [h \in Handles |->
       IF attrs[h] # None /\ attrs[h].age >= EvictAfter(h) THEN None ELSE attrs[h]]
  /\ UNCHANGED <<version, told, listings, task>>

\* DirCache::evict_expired
EvictListings ==
  /\ ~Borrowed
  /\ listings' = [h \in Dirs |->
       IF listings[h] # None /\ listings[h].age >= ListTtl THEN None ELSE listings[h]]
  /\ UNCHANGED <<version, told, attrs, task>>

-----------------------------------------------------------------------------
(* The tasks and the server *)

\* The server answers a task's GETATTR or READDIR from the file as it is; a
\* READDIR may not reach the end.  (Asking changes nothing the caches see.)
Answer(t) ==
  /\ task[t] = Idle
  /\ \/ \E h \in Handles :
          task' = [task EXCEPT ![t] =
            [does |-> "putattr", h |-> h, flight |-> 0,
             reply |-> [of |-> version[h], stale |-> 0, whole |-> TRUE]]]
     \/ \E h \in Dirs, whole \in BOOLEAN :
          task' = [task EXCEPT ![t] =
            [does |-> "putdir", h |-> h, flight |-> 0,
             reply |-> [of |-> version[h], stale |-> 0, whole |-> whole]]]
  /\ UNCHANGED <<version, told, attrs, listings>>

\* The reply is put, whatever has happened to the file since.
Put(t) ==
  /\ \/ /\ Does(t, "putattr")
        /\ attrs' = [attrs EXCEPT ![task[t].h] = NewAttrs(task[t].h, task[t].reply)]
        /\ UNCHANGED listings
     \/ /\ ~Borrowed
        /\ Does(t, "putdir")
        /\ listings' = [listings EXCEPT ![task[t].h] = NewListing(task[t].h, task[t].reply)]
        /\ UNCHANGED attrs
  /\ task' = [task EXCEPT ![t] = Idle]
  /\ UNCHANGED <<version, told>>

\* The server carries out a task's change (WRITE, CREATE, REMOVE, ...).
Change(t) ==
  /\ task[t] = Idle
  /\ \E h \in Handles :
       /\ version[h] < MaxVersion
       /\ version' = [version EXCEPT ![h] = @ + 1]
       /\ task' = [task EXCEPT ![t] = [does |-> "changed", h |-> h, of |-> version'[h]]]
  /\ UNCHANGED <<told, attrs, listings>>

Newest(v, w) == IF v > w THEN v ELSE w

\* Its reply arrives and the task invalidates the attributes ...
TellAttrs(t) ==
  /\ Does(t, "changed")
  /\ LET h == task[t].h IN
       /\ InvalidateAttrs(h)
       /\ toldAttrs' = [toldAttrs EXCEPT ![h] = Newest(task[t].of, @)]
       /\ task' = [task EXCEPT ![t] =
            IF h \in Dirs THEN [task[t] EXCEPT !.does = "halftold"] ELSE Idle]
  /\ UNCHANGED <<version, toldListings, listings>>

\* ... and then, when nobody holds one, the listing of a directory.
TellListings(t) ==
  /\ ~Borrowed
  /\ Does(t, "halftold")
  /\ LET h == task[t].h IN
       /\ InvalidateListing(h)
       /\ toldListings' = [toldListings EXCEPT ![h] = Newest(task[t].of, @)]
  /\ task' = [task EXCEPT ![t] = Idle]
  /\ UNCHANGED <<version, toldAttrs, attrs>>

\* Another client changes a file; nobody tells the caches.
OtherClientChanges ==
  /\ \E h \in Handles :
       /\ version[h] < MaxVersion
       /\ version' = [version EXCEPT ![h] = @ + 1]
  /\ UNCHANGED <<told, attrs, listings, task>>

\* A task takes a listing from the cache ...
ReadListing(t) ==
  /\ task[t] = Idle
  /\ \E h \in Dirs :
       /\ ListServed(h)
       /\ task' = [task EXCEPT ![t] = [does |-> "lists", h |-> h, reply |-> listings[h].data]]
  /\ UNCHANGED <<version, told, attrs, listings>>

\* ... and asks is_complete, at a later moment, whether it is all there is.
AskComplete(t) ==
  /\ Does(t, "lists")
  /\ task' = [task EXCEPT ![t] =
       IF IsComplete(task[t].h) THEN [task[t] EXCEPT !.does = "trusts"] ELSE Idle]
  /\ UNCHANGED <<version, told, attrs, listings>>

Conclude(t) ==
  /\ Does(t, "trusts")
  /\ task' = [task EXCEPT ![t] = Idle]
  /\ UNCHANGED <<version, told, attrs, listings>>

\* A reply of an earlier version has been out of date one tick longer.
Staler(h, r) ==
  IF r.of < version[h] /\ r.stale < MaxAge + MaxFlight
  THEN [r EXCEPT !.stale = @ + 1] ELSE r

Older(h, e) ==
  [e EXCEPT !.data = Staler(h, e.data), !.age = IF @ < MaxAge THEN @ + 1 ELSE @]

\* One tick; a reply is in flight for at most MaxFlight of them, and a task
\* that has its answer from the caches uses it within the tick.
Tick ==
  /\ \A t \in Tasks :
       /\ Does(t, "putattr") \/ Does(t, "putdir") => task[t].flight < MaxFlight
       /\ ~Does(t, "trusts")
  /\ attrs' = [h \in Handles |->
       IF attrs[h] = None THEN None ELSE Older(h, attrs[h])]
  /\ listings' = [h \in Dirs |->
       IF listings[h] = None THEN None ELSE Older(h, listings[h])]
  /\ task' = [t \in Tasks |->
       IF Does(t, "putattr") \/ Does(t, "putdir")
       THEN [task[t] EXCEPT !.reply = Staler(task[t].h, @), !.flight = @ + 1]
       ELSE IF Does(t, "lists")
       THEN [task[t] EXCEPT !.reply = Staler(task[t].h, @)]
       ELSE task[t]]
  /\ UNCHANGED <<version, told>>

Next ==
  \/ \E t \in Tasks :
       \/ Answer(t) \/ Put(t)
       \/ Change(t) \/ TellAttrs(t) \/ TellListings(t)
       \/ ReadListing(t) \/ AskComplete(t) \/ Conclude(t)
  \/ OtherClientChanges
  \/ InvalidateAll
  \/ EvictAttrs
  \/ EvictListings
  \/ Tick

Spec == Init /\ [][Next]_vars

-----------------------------------------------------------------------------
(* Properties *)

\* What get finds in the attribute cache, and in the listings: the age of an
\* expired entry no longer matters, nor whether it has been evicted.
AttrsFresh == [h \in Handles |->
  IF AttrServed(h) THEN [value |-> attrs[h].data.of, age |-> attrs[h].age] ELSE [age |-> -1]]

ListingsFresh == [h \in Dirs |->
  IF ListServed(h) THEN [value |-> listings[h].data.of, age |-> listings[h].age]
  ELSE [age |-> -1]]

AttrsPromised == INSTANCE FreshMap WITH
  Keys <- Handles, Values <- Versions, fresh <- AttrsFresh,
  Ttl <- [h \in Handles |-> IF h \in Dirs THEN DirMin ELSE FileMin]

ListingsPromised == INSTANCE FreshMap WITH
  Keys <- Dirs, Values <- Versions, fresh <- ListingsFresh,
  Ttl <- [h \in Dirs |-> ListTtl]

\* Both caches are maps with a time to live: the two limits of AttrCache, the
\* eviction at the second and the removal at any time show nowhere else
\* (attr_cache.rs 37-76, dir_cache.rs 36-78).
ImplementsFreshMap == AttrsPromised!Spec /\ ListingsPromised!Spec

\* What the caches serve was true at the server less than the entry's time to
\* live and one reply's flight ago, whoever changed the file.
StaleBounded ==
  /\ \A h \in Handles : AttrServed(h) => attrs[h].data.stale < AttrTtl(h) + MaxFlight
  /\ \A h \in Dirs : ListServed(h) => listings[h].data.stale < ListTtl + MaxFlight

\* A task's own change is seen by every look at a cache after its invalidation
\* there; what hides it is only a reply the server made before the change and
\* that was put after the invalidation (attr_cache.rs 62, dir_cache.rs 71).
OwnChangesSeen ==
  /\ \A h \in Handles :
       AttrServed(h) /\ ~attrs[h].late => attrs[h].data.of >= toldAttrs[h]
  /\ \A h \in Dirs :
       ListServed(h) /\ ~listings[h].late => listings[h].data.of >= toldListings[h]

\* A listing that is_complete vouches for is the whole directory as it was
\* less than its time to live and one flight ago, although get and is_complete
\* look at the clock separately (dir_cache.rs 54-69): a name it lacks may be
\* answered without asking the server.
ListingsTrusted ==
  \A t \in Tasks : Does(t, "trusts") =>
    task[t].reply.whole /\ task[t].reply.stale < ListTtl + MaxFlight
=============================================================================
