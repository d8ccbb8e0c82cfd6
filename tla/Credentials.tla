----------------------------- MODULE Credentials -----------------------------
(***************************************************************************)
(* AwsCredentialProvider (aws-creds, provider.rs) shared by users that     *)
(* call resolve and by the background task of spawn_credential_refresh     *)
(* (refresh.rs).                                                           *)
(*                                                                         *)
(* Times are what is left of them, in a unit small enough for the code's   *)
(* constants; one Clock step takes a unit off each.  A fetch is one        *)
(* provide_credentials call: the credentials it brings live Life units     *)
(* from its start, and it takes up to MaxFetch units.  Fetches overlap and *)
(* end in any order, and each overwrites the cache.                        *)
(***************************************************************************)
EXTENDS Integers, FiniteSets

CONSTANTS
  Users,          \* tasks that call resolve
  Task,           \* the background task
  Life,           \* life of the credentials the provider issues
  ExpiryBuffer,   \* is_expired: 300 s in the code
  RefreshWindow,  \* the task refreshes below this: 600 s in the code
  CheckInterval,  \* the task's check_interval
  MinBackoff,     \* 1 s in the code
  MaxBackoff,     \* 300 s in the code
  MaxFetch,       \* bound: units a fetch takes
  MaxFailures     \* bound: fetches that fail

ASSUME CredentialsAssumption ==
  /\ Task \notin Users
  /\ {Life, ExpiryBuffer, RefreshWindow, CheckInterval, MinBackoff,
      MaxBackoff} \subseteq Nat \ {0}
  /\ MaxFetch \in Nat /\ MaxFetch < Life
  /\ MaxFailures \in Nat

VARIABLES
  cached,     \* AwsCredentialProvider.cached: None, or the life left
  fetch,      \* per task: the life left of what its fetch will bring, or None
  loop,       \* where the background task is
  nextTick,   \* until the interval timer fires
  due,        \* whether a tick waits for the task
  backoff,    \* the task's backoff
  wake,       \* until the task's sleep ends
  shutdown,   \* whether the watch channel holds an unseen change
  failures    \* fetches failed so far

timers == <<nextTick, due, backoff, wake>>
vars == <<cached, fetch, loop, timers, shutdown, failures>>

Tasks == Users \cup {Task}
None == -1
Lives == 0 .. Life

TypeOK ==
  /\ cached \in Lives \cup {None}
  /\ fetch \in [Tasks -> Lives \cup {None}]
  /\ loop \in {"select", "resolve", "refresh", "sleep", "exited"}
  /\ nextTick \in 0 .. CheckInterval
  /\ due \in BOOLEAN
  /\ backoff \in MinBackoff .. MaxBackoff
  /\ wake \in 0 .. MaxBackoff
  /\ shutdown \in BOOLEAN
  /\ failures \in 0 .. MaxFailures

\* The timer's immediate first tick is skipped.
Init ==
  /\ cached = None
  /\ fetch = [t \in Tasks |-> None]
  /\ loop = "select"
  /\ nextTick = CheckInterval /\ due = FALSE
  /\ backoff = MinBackoff /\ wake = 0
  /\ shutdown = FALSE
  /\ failures = 0

-----------------------------------------------------------------------------
\* ~is_expired, of credentials with so much life left.
Valid(life) == life >= ExpiryBuffer

\* resolve finds nothing valid in the cache, or refresh is forced: ask the
\* provider.  Nothing joins a fetch that is already under way.
StartFetch(t) == fetch' = [fetch EXCEPT ![t] = Life]

\* The provider answers: the answer goes into the cache, newer or not.
Store(t) ==
  /\ fetch[t] # None
  /\ cached' = fetch[t]
  /\ fetch' = [fetch EXCEPT ![t] = None]
  /\ UNCHANGED failures

\* The provider fails: the cache stays.
Fail(t) ==
  /\ fetch[t] # None
  /\ failures < MaxFailures /\ failures' = failures + 1
  /\ fetch' = [fetch EXCEPT ![t] = None]
  /\ UNCHANGED cached

\* A user calls resolve; valid credentials come from the cache and nothing
\* changes.
UserResolves(u) ==
  /\ fetch[u] = None
  /\ ~Valid(cached)
  /\ StartFetch(u)
  /\ UNCHANGED <<cached, loop, timers, shutdown, failures>>

UserFetched(u) ==
  /\ Store(u) \/ Fail(u)
  /\ UNCHANGED <<loop, timers, shutdown>>

-----------------------------------------------------------------------------
\* Mutant: no refresh ahead of the expiry.
AfterResolveNoWindow(life) ==
  /\ backoff' = MinBackoff
  /\ loop' = "select"
  /\ fetch' = [fetch EXCEPT ![Task] = None]

\* The match on resolve's Ok: reset the backoff, and refresh credentials
\* that are close to their expiry.  The life is the one resolve returned.
AfterResolve(life) ==
  /\ backoff' = MinBackoff
  /\ IF life < RefreshWindow
     THEN loop' = "refresh" /\ fetch' = [fetch EXCEPT ![Task] = Life]
     ELSE loop' = "select" /\ fetch' = [fetch EXCEPT ![Task] = None]

\* Mutant: the tick marks a shutdown as seen.
TaskTickSeesShutdown ==
  /\ loop = "select" /\ due
  /\ due' = FALSE
  /\ shutdown' = FALSE
  /\ \/ Valid(cached) /\ AfterResolve(cached)
     \/ /\ ~Valid(cached)
        /\ StartFetch(Task)
        /\ loop' = "resolve"
        /\ UNCHANGED backoff
  /\ UNCHANGED <<cached, nextTick, wake, failures>>

\* A tick: resolve from the cache, or ask the provider.
TaskTick ==
  /\ loop = "select" /\ due
  /\ due' = FALSE
  /\ \/ Valid(cached) /\ AfterResolve(cached)
     \/ /\ ~Valid(cached)
        /\ StartFetch(Task)
        /\ loop' = "resolve"
        /\ UNCHANGED backoff
  /\ UNCHANGED <<cached, nextTick, wake, shutdown, failures>>

\* The resolve of a tick got its answer.
TaskResolved ==
  /\ loop = "resolve"
  /\ cached' = fetch[Task]
  /\ AfterResolve(fetch[Task])
  /\ UNCHANGED <<nextTick, due, wake, shutdown, failures>>

\* Mutant: a failure ends the task.
TaskGivesUp ==
  /\ loop = "resolve"
  /\ Fail(Task)
  /\ loop' = "exited"
  /\ UNCHANGED <<timers, shutdown>>

\* It failed: sleep inside the branch, away from select!.
TaskBacksOff ==
  /\ loop = "resolve"
  /\ Fail(Task)
  /\ loop' = "sleep"
  /\ wake' = backoff
  /\ UNCHANGED <<nextTick, due, backoff, shutdown>>

TaskWakes ==
  /\ loop = "sleep" /\ wake = 0
  /\ backoff' = IF backoff * 2 < MaxBackoff THEN backoff * 2 ELSE MaxBackoff
  /\ loop' = "select"
  /\ UNCHANGED <<cached, fetch, nextTick, due, wake, shutdown, failures>>

\* The refresh of a tick ended; its error is ignored.
TaskRefreshed ==
  /\ loop = "refresh"
  /\ Store(Task) \/ Fail(Task)
  /\ loop' = "select"
  /\ UNCHANGED <<timers, shutdown>>

TaskExits ==
  /\ loop = "select" /\ shutdown
  /\ loop' = "exited"
  /\ UNCHANGED <<cached, fetch, timers, shutdown, failures>>

RequestShutdown ==
  /\ ~shutdown /\ shutdown' = TRUE
  /\ UNCHANGED <<cached, fetch, loop, timers, failures>>

-----------------------------------------------------------------------------
Less(life) == IF life > 0 THEN life - 1 ELSE life

\* A unit of time passes once nothing due now is left to do.
Clock ==
  /\ ~(loop = "select" /\ (due \/ shutdown)) /\ ~(loop = "sleep" /\ wake = 0)
  /\ \A t \in Tasks : fetch[t] = None \/ fetch[t] > Life - MaxFetch
  /\ cached' = Less(cached)
  /\ fetch' = [t \in Tasks |-> Less(fetch[t])]
  /\ wake' = Less(wake)
  /\ nextTick' = IF nextTick = 1 THEN CheckInterval ELSE nextTick - 1
  /\ due' = (due \/ nextTick = 1)
  /\ UNCHANGED <<loop, backoff, shutdown, failures>>

TaskStep ==
  \/ TaskTick \/ TaskResolved \/ TaskBacksOff
  \/ TaskWakes \/ TaskRefreshed

Next ==
  \/ \E u \in Users : UserResolves(u) \/ UserFetched(u)
  \/ TaskStep
  \/ TaskExits
  \/ RequestShutdown
  \/ Clock

Spec == Init /\ [][Next]_vars

\* Time passes, the runtime polls the task, fetches end, and select! takes
\* its branches in random order.
Fairness ==
  /\ WF_vars(Clock)
  /\ WF_vars(TaskStep)
  /\ SF_vars(TaskExits)
  /\ \A u \in Users : WF_vars(UserFetched(u))

FairSpec == Spec /\ Fairness

-----------------------------------------------------------------------------
\* Properties

\* Once the cache has been filled, and while the provider works and the task
\* runs, no user ever waits for the provider again: the task replaces
\* credentials before resolve would refuse them, and no late answer of an
\* overlapping fetch undoes that.  It takes a check interval and a fetch
\* that fit between the two margins, 600 s and 300 s (provider.rs 79-114,
\* refresh.rs 24-46).
CacheStaysValid ==
  cached # None /\ failures = 0 /\ loop # "exited" => Valid(cached)

\* The task gets over failures: whenever the provider's failures have ended,
\* the cache comes to hold valid credentials again, without help from users.
TaskRecovers == []<>(Valid(cached) \/ shutdown)

\* A shutdown is observed in the end, through fetches, failures and backoff.
TaskStops == shutdown ~> loop = "exited"
=============================================================================
