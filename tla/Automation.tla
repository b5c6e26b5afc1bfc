-------------------------------- MODULE Automation --------------------------------
(***************************************************************************)
(* Automatic snapshots: the one-shot worker that systemd's timer starts    *)
(* (btrfs-snapshots-manager-scheduler), the calls of the service it goes   *)
(* through (helper main.rs), the policy file both read on their own        *)
(* (automation.rs) and the user who rewrites it meanwhile.  A second       *)
(* caller, root on the command line, may use the same calls.  A call may   *)
(* warn the user and then sleep before it takes the snapshot.              *)
(***************************************************************************)
EXTENDS Integers, FiniteSets

CONSTANTS
  System, Home,  \* the two scopes
  Worker, Hand,  \* who may be in a call
  Notice,        \* the sleep between the warning and the snapshot
  Interval,      \* snapshot_interval_hours
  RateLimit,     \* RateLimiter::new, root's limit for each scheduled call
  LastHour, MostSaves    \* bounds of the clock and of the user's changes

\* What the constants must be.
AutomationConstants ==
  /\ Worker # Hand /\ System # Home
  /\ {Notice, Interval, RateLimit, LastHour, MostSaves} \subseteq Nat
  /\ Interval > 0 /\ RateLimit <= Interval

VARIABLES
  time,
  policy,        \* automation.toml: the scopes to snapshot automatically, warn
  saves,
  worker,        \* run_once: idle, or the scopes it has still to try
  turn,          \* the call each caller waits for
  lastCall,      \* RateLimiter::last_operation of root, by scheduled call
  snapped,       \* the automatic snapshots: scope and time
  offSince       \* history: since when the policy has had a scope off

autoVars == <<time, policy, saves, worker, turn, lastCall, snapped, offSince>>

Scopes == {System, Home}
Actors == {Worker, Hand}
Policies == [on : SUBSET Scopes, warn : BOOLEAN]
Idle == [stage |-> "Idle"]
NoTurn == [stage |-> "None"]
Never == -RateLimit

Asleep == worker.stage = "Idle"
TurnOf(scope) == [stage |-> "Begin", scope |-> scope]
GoTo(c, stage) == turn' = [turn EXCEPT ![c].stage = stage]

(***************************************************************************)
(* The policy.  save_to_file replaces the file at once; then the GUI has   *)
(* the service start the worker.                                           *)
(***************************************************************************)
SavePolicy(p) ==
  /\ saves < MostSaves /\ p # policy
  /\ policy' = p /\ saves' = saves + 1
  /\ offSince' = [s \in Scopes |->
                    IF s \in p.on THEN LastHour + 1 ELSE IF s \in policy.on THEN time ELSE offSince[s]]
  /\ worker' = IF Asleep THEN [stage |-> "Run", queue |-> p.on] ELSE worker
  /\ UNCHANGED <<time, turn, lastCall, snapped>>

(***************************************************************************)
(* The worker: each scope it found on, one after the other whatever became *)
(* of the last, and then the cleanup.                                      *)
(***************************************************************************)
TimerElapses ==
  /\ Asleep /\ worker' = [stage |-> "Run", queue |-> policy.on]
  /\ UNCHANGED <<time, policy, saves, turn, lastCall, snapped, offSince>>

StartScope(scope) ==
  /\ worker.stage = "Run" /\ scope \in worker.queue /\ turn[Worker] = NoTurn
  /\ scope = Home => System \notin worker.queue
  /\ turn' = [turn EXCEPT ![Worker] = TurnOf(scope)]
  /\ worker' = [worker EXCEPT !.queue = worker.queue \ {scope}]
  /\ UNCHANGED <<time, policy, saves, lastCall, snapped, offSince>>

\* After the cleanup, whose choice (module Retention) spares what is newer than
\* the interval.
FinishRun ==
  /\ worker.stage = "Run" /\ worker.queue = {} /\ turn[Worker] = NoTurn
  /\ worker' = Idle
  /\ UNCHANGED <<time, policy, saves, turn, lastCall, snapped, offSince>>

StartByHand(scope) ==
  /\ turn[Hand] = NoTurn /\ turn' = [turn EXCEPT ![Hand] = TurnOf(scope)]
  /\ UNCHANGED <<time, policy, saves, worker, lastCall, snapped, offSince>>

(***************************************************************************)
(* create_scheduled_deployment, create_scheduled_personal_snapshot.        *)
(***************************************************************************)
Due(scope) == \A t \in snapped : t.scope = scope => time - t.at >= Interval

\* The worker has a failure shown on the desktop, and goes on.
Answer(c) == turn' = [turn EXCEPT ![c] = NoTurn]

RateLimited(c) == time - lastCall[turn[c].scope] < RateLimit
NoteCall(c) == lastCall' = [lastCall EXCEPT ![turn[c].scope] = time]

\* Mutant: the service goes by what the worker saw when it started.
BeginUnread(c) ==
  /\ turn[c].stage = "Begin"
  /\ IF RateLimited(c) THEN Answer(c) /\ UNCHANGED lastCall ELSE NoteCall(c) /\ GoTo(c, "Create")
  /\ UNCHANGED <<time, policy, saves, worker, snapped, offSince>>

\* The rate limit and the policy are two reads with nothing to wait for between.
Begin(c) ==
  /\ turn[c].stage = "Begin"
  /\ \/ RateLimited(c) /\ Answer(c) /\ UNCHANGED lastCall
     \/ /\ ~RateLimited(c) /\ NoteCall(c)
        /\ IF turn[c].scope \notin policy.on THEN Answer(c)
           ELSE IF policy.warn /\ Due(turn[c].scope)
           THEN turn' = [turn EXCEPT ![c] = [stage |-> "Sleep", scope |-> @.scope, wakes |-> time + Notice]]
           ELSE GoTo(c, "Create")
  /\ UNCHANGED <<time, policy, saves, worker, snapped, offSince>>

Wake(c) ==
  /\ turn[c].stage = "Sleep" /\ time = turn[c].wakes /\ GoTo(c, "Create")
  /\ UNCHANGED <<time, policy, saves, worker, lastCall, snapped, offSince>>

\* create_scheduled_if_due asks again, now under the operation lock.
CreateIfDue(c) ==
  /\ turn[c].stage = "Create"
  /\ Answer(c)
  /\ \/ UNCHANGED snapped    \* not due any more, or the engine failed
     \/ /\ Due(turn[c].scope)
        /\ snapped' = snapped \cup {[scope |-> turn[c].scope, at |-> time]}
  /\ UNCHANGED <<time, policy, saves, worker, lastCall, offSince>>

\* The calls do not dawdle: one that need not sleep is over before the clock moves.
ClockTicks ==
  /\ time < LastHour
  /\ \A c \in Actors : turn[c].stage # "Create"
  /\ \A c \in Actors : turn[c].stage = "Sleep" => time < turn[c].wakes
  /\ time' = time + 1
  /\ UNCHANGED <<policy, saves, worker, turn, lastCall, snapped, offSince>>

\* The calls under way end in an error; root's limits are forgotten.
HelperRestarts ==
  /\ \E c \in Actors : turn[c] # NoTurn
  /\ turn' = [c \in Actors |-> NoTurn] /\ lastCall' = [s \in Scopes |-> Never]
  /\ UNCHANGED <<time, policy, saves, worker, snapped, offSince>>

Init ==
  /\ time = 0 /\ policy \in {p \in Policies : p.on = Scopes} /\ saves = 0 /\ worker = Idle
  /\ turn = [c \in Actors |-> NoTurn] /\ lastCall = [s \in Scopes |-> Never]
  /\ snapped = {} /\ offSince = [s \in Scopes |-> LastHour + 1]

Next ==
  \/ \E p \in Policies : SavePolicy(p)
  \/ TimerElapses \/ FinishRun
  \/ \E scope \in Scopes : StartScope(scope) \/ StartByHand(scope)
  \/ \E c \in Actors : Begin(c) \/ Wake(c) \/ CreateIfDue(c)
  \/ ClockTicks \/ HelperRestarts

Spec == Init /\ [][Next]_autoVars

(***************************************************************************)
(* What automation promises.                                               *)
(***************************************************************************)
\* Once the user has turned a scope off, no automatic snapshot of it comes later
\* than the notice a call may just have given.
TurnedOffStops ==
  \A s \in Scopes, t \in snapped :
    t.scope = s /\ offSince[s] <= LastHour => t.at <= offSince[s] + Notice

\* The interval holds between any two automatic snapshots, whoever asked for them.
IntervalKept ==
  \A s, t \in snapped : s.scope = t.scope /\ s.at < t.at => t.at - s.at >= Interval

AutomationObeys == TurnedOffStops /\ IntervalKept
=============================================================================
