---------------------------- MODULE CredentialsProofs ----------------------------
(***************************************************************************)
(* The task keeps the cache valid for any number of users and any timing   *)
(* in which a check interval and a fetch fit between the two margins, and  *)
(* both, with the fetch that brought them, into the life of credentials.   *)
(***************************************************************************)
EXTENDS Credentials, TLAPS

InTime ==
  /\ ExpiryBuffer + CheckInterval + MaxFetch <= RefreshWindow
  /\ ExpiryBuffer + CheckInterval + MaxFetch + MaxFetch <= Life

TimesType ==
  /\ cached \in Int /\ cached >= -1
  /\ fetch \in [Tasks -> Int]
  /\ nextTick \in 1 .. CheckInterval
  /\ due \in BOOLEAN
  /\ failures \in Nat
  /\ loop \in {"select", "resolve", "refresh", "sleep", "exited"}

\* A fetch under way has taken at most MaxFetch, and the task has one while it
\* waits for one.
FetchInv ==
  /\ \A t \in Tasks : fetch[t] # None => fetch[t] \in Life - MaxFetch .. Life
  /\ loop \in {"resolve", "refresh"} => fetch[Task] # None

\* While nothing has failed, what is left of the cached credentials' life
\* covers the way to the next refresh: the rest of the interval and a fetch,
\* or the rest of the fetch.  A resolve of the task can meet credentials only
\* if a user has put them there since it began.
MarginInv ==
  failures = 0 =>
    /\ loop # "sleep"
    /\ cached # None =>
         /\ loop = "select" =>
              cached >= ExpiryBuffer + MaxFetch + (IF due THEN 0 ELSE nextTick)
         /\ loop = "refresh" => cached >= ExpiryBuffer + MaxFetch - (Life - fetch[Task])
         /\ loop = "resolve" => cached >= fetch[Task] - MaxFetch

CredentialsInv == TimesType /\ FetchInv /\ MarginInv

-----------------------------------------------------------------------------
LEMMA Constants ==
  /\ Life \in Nat /\ ExpiryBuffer \in Nat /\ RefreshWindow \in Nat /\ CheckInterval \in Nat
  /\ Life > 0 /\ ExpiryBuffer > 0 /\ CheckInterval > 0
  /\ MaxFetch \in Nat /\ MaxFetch < Life
  /\ Task \in Tasks /\ Users \subseteq Tasks /\ Task \notin Users
  BY CredentialsAssumption DEF Tasks

LEMMA InitCredentials == Init => CredentialsInv
<1> SUFFICES ASSUME Init PROVE CredentialsInv
  OBVIOUS
<1>1. TimesType
  <2>1. due \in BOOLEAN /\ failures \in Nat
    BY DEF Init
  <2>2. cached = -1 /\ fetch = [t \in Tasks |-> -1] /\ -1 \in Int /\ -1 >= -1
    BY DEF Init, None
  <2>3. nextTick \in 1 .. CheckInterval
    BY Constants DEF Init
  <2>4. loop \in {"select", "resolve", "refresh", "sleep", "exited"}
    BY DEF Init
  <2> QED
    BY <2>1, <2>2, <2>3, <2>4 DEF TimesType
<1>2. FetchInv /\ MarginInv
  BY DEF Init, FetchInv, MarginInv
<1> QED
  BY <1>1, <1>2 DEF CredentialsInv

\* Fresh credentials have enough life left, wherever the task is.
LEMMA StoreKeepsMargin ==
  ASSUME InTime, CredentialsInv,
         NEW life \in Life - MaxFetch .. Life, cached' = life,
         UNCHANGED <<loop, nextTick, due, failures>>,
         fetch'[Task] = fetch[Task]
  PROVE  MarginInv'
  BY Constants DEF InTime, CredentialsInv, TimesType, FetchInv, MarginInv, None

LEMMA UsersKeep ==
  ASSUME InTime, CredentialsInv, NEW u \in Users, UserResolves(u) \/ UserFetched(u)
  PROVE  CredentialsInv'
<1>1. TimesType /\ u \in Tasks /\ u # Task
  BY Constants DEF CredentialsInv
<1>2. CASE UserResolves(u)
  <2>1. fetch' = [fetch EXCEPT ![u] = Life] /\ UNCHANGED <<cached, loop, timers, failures>>
    BY <1>2 DEF UserResolves, StartFetch
  <2>2. fetch'[u] = Life /\ \A t \in Tasks : t # u => fetch'[t] = fetch[t]
    BY <1>1, <2>1 DEF TimesType
  <2>3. TimesType'
    BY <1>1, <2>1, Constants DEF TimesType, timers
  <2>4. FetchInv'
    BY <1>1, <2>1, <2>2, Constants DEF CredentialsInv, FetchInv
  <2>5. MarginInv'
    BY <1>1, <2>1, <2>2, Constants DEF CredentialsInv, MarginInv, timers
  <2> QED
    BY <2>3, <2>4, <2>5 DEF CredentialsInv
<1>3. CASE UserFetched(u)
  <2>1. /\ fetch[u] # None /\ fetch' = [fetch EXCEPT ![u] = None]
        /\ UNCHANGED <<loop, nextTick, due>>
        /\ \/ cached' = fetch[u] /\ UNCHANGED failures
           \/ cached' = cached /\ failures' = failures + 1
    BY <1>3 DEF UserFetched, Store, Fail, timers
  <2>2. fetch'[u] = None /\ \A t \in Tasks : t # u => fetch'[t] = fetch[t]
    BY <1>1, <2>1 DEF TimesType
  <2>3. fetch[u] \in Life - MaxFetch .. Life /\ fetch[u] \in Int /\ fetch[u] >= 0
    BY <1>1, <2>1, Constants DEF CredentialsInv, FetchInv
  <2>4. TimesType'
    BY <1>1, <2>1, <2>3 DEF TimesType, None
  <2>5. FetchInv'
    BY <1>1, <2>1, <2>2, Constants DEF CredentialsInv, FetchInv
  <2>6. MarginInv'
    <3>1. CASE cached' = fetch[u] /\ UNCHANGED failures
      BY <1>1, <2>1, <2>2, <2>3, <3>1, Constants, StoreKeepsMargin
    <3>2. CASE cached' = cached /\ failures' = failures + 1
      BY <1>1, <3>2 DEF MarginInv, TimesType
    <3> QED
      BY <2>1, <3>1, <3>2
  <2> QED
    BY <2>4, <2>5, <2>6 DEF CredentialsInv
<1> QED
  BY <1>2, <1>3

\* The task has credentials in hand, from the cache or from its own fetch,
\* and as much life in them as a refresh may take.
LEMMA ResolveKeeps ==
  ASSUME InTime, CredentialsInv, NEW life \in Int, life >= -1,
         AfterResolve(life), cached' = life,
         failures = 0 => life >= ExpiryBuffer + MaxFetch,
         due' \in BOOLEAN, UNCHANGED <<nextTick, failures>>
  PROVE  CredentialsInv'
<1>1. TimesType /\ Task \in Tasks
  BY Constants DEF CredentialsInv
<1>2. CASE life < RefreshWindow
  <2>1. loop' = "refresh" /\ fetch' = [fetch EXCEPT ![Task] = Life]
    BY <1>2 DEF AfterResolve
  <2>2. fetch'[Task] = Life /\ \A t \in Tasks : t # Task => fetch'[t] = fetch[t]
    BY <1>1, <2>1 DEF TimesType
  <2>3. TimesType'
    BY <1>1, <2>1, Constants DEF TimesType
  <2>4. FetchInv'
    BY <1>1, <2>1, <2>2, Constants DEF CredentialsInv, FetchInv, None
  <2>5. MarginInv'
    BY <2>1, <2>2, Constants DEF MarginInv
  <2> QED
    BY <2>3, <2>4, <2>5 DEF CredentialsInv
<1>3. CASE ~(life < RefreshWindow)
  <2>1. loop' = "select" /\ fetch' = [fetch EXCEPT ![Task] = None]
    BY <1>3 DEF AfterResolve
  <2>2. fetch'[Task] = None /\ \A t \in Tasks : t # Task => fetch'[t] = fetch[t]
    BY <1>1, <2>1 DEF TimesType
  <2>3. TimesType'
    BY <1>1, <2>1, Constants DEF TimesType, None
  <2>4. FetchInv'
    BY <1>1, <2>1, <2>2 DEF CredentialsInv, FetchInv
  <2>5. MarginInv'
    <3>1. /\ life >= RefreshWindow /\ nextTick \in Int /\ nextTick <= CheckInterval
          /\ CheckInterval \in Int /\ RefreshWindow \in Int
          /\ ExpiryBuffer \in Int /\ MaxFetch \in Int /\ CheckInterval >= 0
      BY <1>1, <1>3, Constants DEF TimesType
    <3>2. life >= ExpiryBuffer + MaxFetch + nextTick /\ life >= ExpiryBuffer + MaxFetch
      BY <3>1 DEF InTime
    <3> QED
      BY <2>1, <3>1, <3>2 DEF MarginInv
  <2> QED
    BY <2>3, <2>4, <2>5 DEF CredentialsInv
<1> QED
  BY <1>2, <1>3

\* With the margins kept, a tick finds the cache valid, or empty.
LEMMA TickKeeps ==
  ASSUME InTime, CredentialsInv, TaskTick
  PROVE  CredentialsInv'
<1>1. TimesType /\ Task \in Tasks
  BY Constants DEF CredentialsInv
<1>2. /\ loop = "select" /\ due /\ due' = FALSE
      /\ UNCHANGED <<cached, nextTick, failures>>
  BY DEF TaskTick
<1>3. CASE Valid(cached) /\ AfterResolve(cached)
  <2>1. failures = 0 => cached >= ExpiryBuffer + MaxFetch
    BY <1>2, <1>3, Constants DEF Valid, CredentialsInv, MarginInv, TimesType, None
  <2> QED
    BY <1>1, <1>2, <1>3, <2>1, ResolveKeeps DEF TimesType
<1>4. CASE ~Valid(cached) /\ StartFetch(Task) /\ loop' = "resolve"
  <2>1. fetch'[Task] = Life /\ \A t \in Tasks : t # Task => fetch'[t] = fetch[t]
    BY <1>1, <1>4 DEF StartFetch, TimesType
  <2>2. failures = 0 => cached = None
    <3>1. failures = 0 /\ cached # None => cached >= ExpiryBuffer + MaxFetch + 0
      BY <1>2 DEF CredentialsInv, MarginInv
    <3> QED
      BY <1>1, <1>4, <3>1, Constants DEF Valid, TimesType
  <2>3. TimesType'
    <3>1. due' \in BOOLEAN
      BY <1>2
    <3>2. fetch' \in [Tasks -> Int]
      BY <1>1, <1>4, Constants DEF StartFetch, TimesType
    <3> QED
      BY <1>1, <1>2, <1>4, <3>1, <3>2 DEF TimesType
  <2>4. FetchInv'
    BY <1>1, <1>4, <2>1, Constants DEF CredentialsInv, FetchInv, None
  <2>5. MarginInv'
    BY <1>2, <1>4, <2>2 DEF MarginInv
  <2> QED
    BY <2>3, <2>4, <2>5 DEF CredentialsInv
<1> QED
  BY <1>3, <1>4 DEF TaskTick

LEMMA FetchesEndKeep ==
  ASSUME InTime, CredentialsInv,
         TaskResolved \/ TaskBacksOff \/ TaskRefreshed
  PROVE  CredentialsInv'
<1>1. TimesType /\ Task \in Tasks
  BY Constants DEF CredentialsInv
<1>2. /\ fetch[Task] # None /\ fetch[Task] \in Life - MaxFetch .. Life
      /\ fetch[Task] \in Int /\ fetch[Task] >= 0
      /\ fetch[Task] >= ExpiryBuffer + CheckInterval + MaxFetch
  BY <1>1, Constants
  DEF CredentialsInv, FetchInv, InTime, TaskResolved, TaskBacksOff, TaskRefreshed
<1>3. CASE TaskResolved
  BY <1>1, <1>2, <1>3, Constants, ResolveKeeps DEF TaskResolved, TimesType
<1>4. CASE /\ fetch' = [fetch EXCEPT ![Task] = None]
           /\ failures' = failures + 1 /\ cached' = cached
           /\ loop' \in {"sleep", "select"} /\ UNCHANGED <<nextTick, due>>
  <2>1. fetch'[Task] = None /\ \A t \in Tasks : t # Task => fetch'[t] = fetch[t]
    BY <1>1, <1>4 DEF TimesType
  <2>2. TimesType'
    BY <1>1, <1>4 DEF TimesType, None
  <2>3. FetchInv'
    BY <1>4, <2>1 DEF CredentialsInv, FetchInv
  <2>4. MarginInv'
    BY <1>1, <1>4 DEF MarginInv, TimesType
  <2> QED
    BY <2>2, <2>3, <2>4 DEF CredentialsInv
<1>5. CASE TaskRefreshed /\ Store(Task)
  <2>1. /\ fetch' = [fetch EXCEPT ![Task] = None] /\ cached' = fetch[Task]
        /\ loop' = "select" /\ UNCHANGED <<failures, nextTick, due>>
    BY <1>5 DEF TaskRefreshed, Store, timers
  <2>2. fetch'[Task] = None /\ \A t \in Tasks : t # Task => fetch'[t] = fetch[t]
    BY <1>1, <2>1 DEF TimesType
  <2>3. TimesType'
    BY <1>1, <1>2, <2>1 DEF TimesType, None
  <2>4. FetchInv'
    BY <2>1, <2>2 DEF CredentialsInv, FetchInv
  <2>5. MarginInv'
    BY <1>1, <1>2, <2>1, Constants DEF MarginInv, TimesType
  <2> QED
    BY <2>3, <2>4, <2>5 DEF CredentialsInv
<1> QED
  BY <1>3, <1>4, <1>5 DEF TaskBacksOff, TaskRefreshed, Fail, timers

LEMMA OthersKeep ==
  ASSUME InTime, CredentialsInv, TaskWakes \/ TaskExits \/ RequestShutdown
  PROVE  CredentialsInv'
<1>1. UNCHANGED <<cached, fetch, nextTick, due, failures>>
  BY DEF TaskWakes, TaskExits, RequestShutdown, timers
<1>2. \/ loop = "sleep" /\ loop' = "select"
      \/ loop' = "exited" \/ loop' = loop
  BY DEF TaskWakes, TaskExits, RequestShutdown
<1> QED
  BY <1>1, <1>2 DEF CredentialsInv, TimesType, FetchInv, MarginInv

\* A unit of time takes one off every life and off the time to the next tick.
LEMMA ClockKeeps ==
  ASSUME InTime, CredentialsInv, Clock
  PROVE  CredentialsInv'
<1>1. /\ TimesType /\ UNCHANGED <<loop, failures>> /\ Task \in Tasks
      /\ ~(loop = "select" /\ due)
      /\ \A t \in Tasks : fetch[t] = None \/ fetch[t] > Life - MaxFetch
  BY Constants DEF CredentialsInv, Clock
<1>2. /\ cached' = (IF cached > 0 THEN cached - 1 ELSE cached)
      /\ fetch' = [t \in Tasks |-> IF fetch[t] > 0 THEN fetch[t] - 1 ELSE fetch[t]]
      /\ nextTick' = (IF nextTick = 1 THEN CheckInterval ELSE nextTick - 1)
      /\ due' = (due \/ nextTick = 1)
  BY DEF Clock, Less
<1>3. ASSUME NEW t \in Tasks
      PROVE  /\ fetch'[t] \in Int
             /\ fetch[t] = None => fetch'[t] = None
             /\ fetch[t] # None => /\ fetch'[t] = fetch[t] - 1
                                  /\ fetch'[t] \in Life - MaxFetch .. Life
  BY <1>1, <1>2, Constants DEF CredentialsInv, FetchInv, TimesType, None
<1>4. TimesType'
  <2>1. due' \in BOOLEAN
    BY <1>2
  <2>2. fetch' \in [Tasks -> Int]
    BY <1>2, <1>3
  <2> QED
    BY <1>1, <1>2, <2>1, <2>2, Constants DEF TimesType
<1>5. FetchInv'
  <2>1. ASSUME NEW t \in Tasks, fetch[t] # None
        PROVE  fetch'[t] # None
    BY <1>3, <2>1, Constants DEF None
  <2> QED
    BY <1>1, <1>3, <2>1 DEF CredentialsInv, FetchInv
<1>6. MarginInv'
  <2> SUFFICES ASSUME failures = 0, cached' # None
               PROVE  /\ loop = "select" =>
                           cached' >= ExpiryBuffer + MaxFetch + (IF due' THEN 0 ELSE nextTick')
                      /\ loop = "refresh" =>
                           cached' >= ExpiryBuffer + MaxFetch - (Life - fetch'[Task])
                      /\ loop = "resolve" => cached' >= fetch'[Task] - MaxFetch
    BY <1>1 DEF CredentialsInv, MarginInv
  <2>1. cached # None /\ cached \in Int /\ cached' \in Int /\ cached' >= cached - 1
    BY <1>1, <1>2 DEF TimesType, None
  <2>2. CASE loop = "select"
    <3>1. cached >= ExpiryBuffer + MaxFetch + nextTick /\ due = FALSE
      BY <1>1, <2>1, <2>2 DEF CredentialsInv, MarginInv, TimesType
    <3>2. CASE nextTick = 1
      <4>1. due'
        BY <1>2, <3>2
      <4> QED
        BY <2>1, <2>2, <3>1, <3>2, <4>1, Constants
    <3>3. CASE nextTick # 1
      <4>1. ~due' /\ nextTick' = nextTick - 1
        BY <1>2, <3>1, <3>3
      <4> QED
        BY <1>1, <2>1, <2>2, <3>1, <4>1, Constants DEF TimesType
    <3> QED
      BY <3>2, <3>3
  <2>3. CASE loop \in {"refresh", "resolve"}
    <3>1. fetch[Task] # None /\ fetch'[Task] = fetch[Task] - 1 /\ fetch[Task] \in Int
      BY <1>1, <1>3, <2>3 DEF CredentialsInv, FetchInv, TimesType
    <3>2. /\ loop = "refresh" => cached >= ExpiryBuffer + MaxFetch - (Life - fetch[Task])
          /\ loop = "resolve" => cached >= fetch[Task] - MaxFetch
      BY <2>1 DEF CredentialsInv, MarginInv
    <3>3. /\ loop = "refresh" =>
               cached - 1 >= ExpiryBuffer + MaxFetch - (Life - (fetch[Task] - 1))
          /\ loop = "resolve" => cached - 1 >= (fetch[Task] - 1) - MaxFetch
      BY <2>1, <3>1, <3>2, Constants
    <3>4. /\ loop = "refresh" =>
               cached' >= ExpiryBuffer + MaxFetch - (Life - fetch'[Task])
          /\ loop = "resolve" => cached' >= fetch'[Task] - MaxFetch
      BY <2>1, <3>1, <3>3, Constants
    <3> QED
      BY <2>3, <3>4
  <2> QED
    BY <2>2, <2>3
<1> QED
  BY <1>4, <1>5, <1>6 DEF CredentialsInv

LEMMA NextCredentials == InTime /\ CredentialsInv /\ [Next]_vars => CredentialsInv'
<1> SUFFICES ASSUME InTime, CredentialsInv, [Next]_vars PROVE CredentialsInv'
  OBVIOUS
<1>1. CASE UNCHANGED vars
  BY <1>1 DEF vars, timers, CredentialsInv, TimesType, FetchInv, MarginInv
<1> QED
  BY <1>1, UsersKeep, TickKeeps, FetchesEndKeep, OthersKeep, ClockKeeps
  DEF Next, TaskStep

-----------------------------------------------------------------------------
\* Once filled, the cache stays valid as long as the provider works and the
\* task runs: no user waits again, if the intervals are in time.
THEOREM StaysValid == InTime => (Spec => []CacheStaysValid)
<1>1. InTime /\ CredentialsInv => CacheStaysValid
  <2> SUFFICES ASSUME InTime, CredentialsInv, cached # None, failures = 0, loop # "exited"
               PROVE  Valid(cached)
    BY DEF CacheStaysValid
  <2>1. TimesType /\ Task \in Tasks
    BY Constants DEF CredentialsInv
  <2>2. loop \in {"refresh", "resolve"} => fetch[Task] \in Life - MaxFetch .. Life
    BY <2>1 DEF CredentialsInv, FetchInv
  <2> QED
    BY <2>1, <2>2, Constants DEF CredentialsInv, MarginInv, InTime, Valid, TimesType
<1> QED
  <2> SUFFICES ASSUME InTime PROVE Spec => []CacheStaysValid
    OBVIOUS
  <2>1. CredentialsInv => CacheStaysValid
    BY <1>1
  <2>2. CredentialsInv /\ [Next]_vars => CredentialsInv'
    BY NextCredentials
  <2> QED
    BY <2>1, <2>2, InitCredentials, PTL DEF Spec
=============================================================================
