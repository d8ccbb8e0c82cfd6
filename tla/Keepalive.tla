----------------------------- MODULE Keepalive -----------------------------
(***************************************************************************)
(* keepalive_loop (keepalive.rs) beside other users of the same            *)
(* SessionManager, with the server's lease.                                *)
(*                                                                         *)
(* Time is counted in keepalive intervals (lease / 3).  One ClockTick is   *)
(* one interval: the interval timer owes the loop one more tick, and the   *)
(* lease grows older.  Requests are fast next to an interval, so time      *)
(* passes when nothing is under way, except in the bounded number of       *)
(* intervals in which a request stalls.                                    *)
(***************************************************************************)
EXTENDS SessionSlots

CONSTANTS
  Loop,        \* the keepalive task, one of Actors
  LeaseTicks,  \* intervals in a lease: 3 in the code
  MaxDue,      \* bound: ticks owed at once (the timer bursts after a delay)
  MaxStalls    \* bound: intervals that pass while a request is under way

ASSUME KeepaliveAssumption ==
  /\ Loop \in Actors
  /\ LeaseTicks \in Nat \ {0}
  /\ MaxDue \in Nat \ {0}
  /\ MaxStalls \in Nat

VARIABLES
  loop,      \* where keepalive_loop is: at select!, in a tick's body, gone
  due,       \* ticks the interval timer owes
  shutdown,  \* whether the watch channel holds an unseen change
  age,       \* intervals since the server last renewed the lease
  stalls     \* intervals that passed with a request under way

loopVars == <<loop, due, shutdown>>
clockVars == <<age, stalls>>
kaVars == <<vars, loopVars, clockVars>>

KeepaliveTypeOK ==
  /\ TypeOK
  /\ loop \in {"select", "body", "exited"}
  /\ due \in 0 .. MaxDue
  /\ shutdown \in BOOLEAN
  /\ age \in 0 .. LeaseTicks + 1
  /\ stalls \in 0 .. MaxStalls

\* The first tick of the interval is consumed before the loop starts.
KeepaliveInit ==
  /\ Init
  /\ loop = "select"
  /\ due = 0
  /\ shutdown = FALSE
  /\ age = 0
  /\ stalls = 0

-----------------------------------------------------------------------------
\* select! takes the timer branch and gets a slot.
TickSends ==
  /\ loop = "select" /\ due > 0
  /\ StartRequest(Loop)
  /\ loop' = "body"
  /\ due' = due - 1
  /\ UNCHANGED <<shutdown, clockVars>>

\* select! takes the timer branch and every slot is busy: continue.
TickSkips ==
  /\ loop = "select" /\ due > 0
  /\ NoSlotFree(Loop)
  /\ due' = due - 1
  /\ UNCHANGED <<loop, shutdown, clockVars>>

\* Mutants: the slot is not released; it is released after a timeout of the
\* loop's own; the shutdown is marked as seen inside the tick.
TickEndsKeepsSlot ==
  /\ loop = "body"
  /\ pc[Loop] = "answered"
  /\ pc' = [pc EXCEPT ![Loop] = "idle"]
  /\ loop' = "select"
  /\ UNCHANGED <<slotTable, held, result, server, faults, drops, due,
                 shutdown, clockVars>>

TickTimesOut ==
  /\ loop = "body"
  /\ pc[Loop] \in {"waiting", "answered"}
  /\ ReleaseSlot(held[Loop].slot)
  /\ pc' = [pc EXCEPT ![Loop] = "idle"]
  /\ loop' = "select"
  /\ UNCHANGED <<held, result, server, faults, drops, due, shutdown,
                 clockVars>>

TickEndsSeesShutdown ==
  /\ loop = "body"
  /\ FinishRequest(Loop)
  /\ loop' = "select"
  /\ shutdown' = FALSE
  /\ UNCHANGED <<due, clockVars>>

\* send_compound returned; the result is ignored and the slot released.
TickEnds ==
  /\ loop = "body"
  /\ FinishRequest(Loop)
  /\ loop' = "select"
  /\ UNCHANGED <<due, shutdown, clockVars>>

\* select! takes the shutdown branch; never from inside a tick's body.
LoopExits ==
  /\ loop = "select" /\ shutdown
  /\ loop' = "exited"
  /\ UNCHANGED <<vars, due, shutdown, clockVars>>

\* The owner of the watch channel sends a new value, or drops the sender.
RequestShutdown ==
  /\ ~shutdown
  /\ shutdown' = TRUE
  /\ UNCHANGED <<vars, loop, due, clockVars>>

-----------------------------------------------------------------------------
OtherUser(a) ==
  /\ \/ StartRequest(a)
     \/ NoSlotFree(a)
     \/ FinishRequest(a)
     \/ DropRequest(a)
  /\ UNCHANGED <<loopVars, clockVars>>

\* The server handles r.  A SEQUENCE it executes renews the lease.
ServeAndRenew(r) ==
  /\ ServerStep(r) \/ FaultStep(r)
  /\ age' = IF srvSeq' # srvSeq THEN 0 ELSE age
  /\ UNCHANGED <<loopVars, stalls>>

Settled ==
  /\ net = {}
  /\ \A a \in Actors : pc[a] = "idle"
  /\ loop = "exited" \/ due = 0

\* One interval passes.  A lease older than LeaseTicks intervals is over and
\* the server forgets the session.
ClockTick ==
  /\ \/ Settled /\ UNCHANGED stalls
     \/ ~Settled /\ stalls < MaxStalls /\ stalls' = stalls + 1
  /\ due < MaxDue
  /\ due' = IF loop = "exited" THEN due ELSE due + 1
  /\ age' = IF age > LeaseTicks THEN age ELSE age + 1
  /\ IF age' > LeaseTicks /\ srvAlive THEN ForgetSession ELSE UNCHANGED vars
  /\ UNCHANGED <<loop, shutdown>>

KeepaliveNext ==
  \/ TickSends
  \/ TickSkips
  \/ TickEnds
  \/ LoopExits
  \/ RequestShutdown
  \/ \E a \in Actors \ {Loop} : OtherUser(a)
  \/ \E r \in net : ServeAndRenew(r)
  \/ ClockTick

KeepaliveSpec == KeepaliveInit /\ [][KeepaliveNext]_kaVars

\* The runtime keeps polling the task, and select! polls its branches in
\* random order, so a branch that is ready again and again is taken.
LoopFairness ==
  /\ WF_kaVars(TickSends \/ TickSkips)
  /\ WF_kaVars(TickEnds)
  /\ SF_kaVars(LoopExits)

\* Nothing in this repository bounds how long a server may take; this is the
\* assumption that it answers.
ServerFairness ==
  \A s \in Slots :
    WF_kaVars(\E r \in net : r.slot = s /\ ServeAndRenew(r) /\ ServerStep(r))

LoopSpec == KeepaliveSpec /\ LoopFairness
LiveSpec == LoopSpec /\ ServerFairness

-----------------------------------------------------------------------------
\* Properties

Expired == age > LeaseTicks

\* With no failure and no dropped request the lease outlives as many stalled
\* intervals as its length allows, although other users may hold every slot
\* when a tick fires: two, for the code's third of a lease (keepalive.rs
\* 16-17 and 51-53).
LeaseSurvivesStalls ==
  loop # "exited" /\ faults = 0 /\ drops = 0 /\ stalls < LeaseTicks =>
    ~Expired

\* The loop only ever does to the slot table what a disciplined user does:
\* the composition implements SessionSlots.
ImplementsSessionSlots == Spec

\* keepalive.rs 19-21: "if the compound fails the error is ignored so
\* transient network hiccups don't kill the session".  One failed COMPOUND,
\* with no stall and no dropped request, never costs the lease.
OneHiccupIsHarmless ==
  loop # "exited" /\ faults <= 1 /\ drops = 0 /\ stalls = 0 => ~Expired

\* keepalive.rs 23: "The loop exits cleanly when `shutdown` receives a new
\* value."
ShutdownExits == shutdown ~> loop = "exited"
=============================================================================
