------------------------------ MODULE SnapshotRequests ------------------------------
(***************************************************************************)
(* How often a desktop user may have snapshots taken without asking an     *)
(* administrator (PersonalSnapshotQuota, RateLimiter and the creating      *)
(* calls of btrfs-snapshots-manager-helper/main.rs).  The calls run as     *)
(* tasks side by side and wait for Polkit in between; what they spent is   *)
(* kept in memory and lost with the service.                               *)
(***************************************************************************)
EXTENDS Integers, Sequences, FiniteSets

CONSTANTS
  Callers,        \* processes of the user
  QuotaWindow, Allowance,   \* PersonalSnapshotQuota::new
  RateWindow,     \* RateLimiter::new
  LastInstant      \* bound of the clock

\* What the constants must be.
RequestConstants ==
  {QuotaWindow, Allowance, RateWindow, LastInstant} \subseteq Nat \ {0}

VARIABLES
  instant,         \* Instant::now()
  attempts,        \* PersonalSnapshotQuota::attempts
  lastOperation,   \* RateLimiter::last_operation of this user's create_deployment
  request,         \* the call each process waits for
  spent,           \* history: when a Home snapshot was begun without a password
  begun            \* history: when a system snapshot was begun

requestVars == <<instant, attempts, lastOperation, request, spent, begun>>

Never == -RateWindow
NoRequest == [op |-> "None", stage |-> "None"]
At(c, op, stage) == request[c].op = op /\ request[c].stage = stage
GoTo(c, stage) == request' = [request EXCEPT ![c].stage = stage]
Answer(c) == request' = [request EXCEPT ![c] = NoRequest]

Ask(c) ==
  /\ request[c] = NoRequest
  /\ \/ request' = [request EXCEPT ![c] = [op |-> "create_deployment", stage |-> "Polkit"]]
     \/ \E pinned \in BOOLEAN :
          request' = [request EXCEPT ![c] =
            [op |-> "create_personal_snapshot", stage |-> "Polkit", pinned |-> pinned]]
  /\ UNCHANGED <<instant, attempts, lastOperation, spent, begun>>

\* A protected Home snapshot takes the right to delete as well; one over the
\* allowance takes the administrator.
Authorize(c) ==
  /\ \/ At(c, "create_deployment", "Polkit") /\ GoTo(c, "Rate")
     \/ /\ At(c, "create_personal_snapshot", "Polkit")
        /\ GoTo(c, IF request[c].pinned THEN "PolkitDelete" ELSE "Quota")
     \/ At(c, "create_personal_snapshot", "PolkitDelete") /\ GoTo(c, "Quota")
     \/ At(c, "create_personal_snapshot", "PolkitOverride") /\ GoTo(c, "Run")
  /\ UNCHANGED <<instant, attempts, lastOperation, spent, begun>>

\* Refused, dismissed, or not answered in time.
Deny(c) ==
  /\ request[c].stage \in {"Polkit", "PolkitDelete", "PolkitOverride"} /\ Answer(c)
  /\ UNCHANGED <<instant, attempts, lastOperation, spent, begun>>

CheckRateLimit(c) ==
  /\ At(c, "create_deployment", "Rate")
  /\ IF instant - lastOperation < RateWindow
     THEN Answer(c) /\ UNCHANGED <<lastOperation, begun>>
     ELSE GoTo(c, "Run") /\ lastOperation' = instant /\ begun' = Append(begun, instant)
  /\ UNCHANGED <<instant, attempts, spent>>

\* Mutant: an attempt is forgotten a moment too early.
ExpiredEarly(t) == instant - t >= QuotaWindow - 1

Expired(t) == instant - t >= QuotaWindow

\* Popped from the front, until the first that still counts.
LiveAttempts ==
  LET first == CHOOSE i \in 1 .. Len(attempts) + 1 :
                 /\ \A j \in 1 .. i - 1 : Expired(attempts[j])
                 /\ i \in DOMAIN attempts => ~Expired(attempts[i])
  IN SubSeq(attempts, first, Len(attempts))

\* reserve: taken before the work starts, and not given back when it fails.
ReserveQuota(c) ==
  /\ At(c, "create_personal_snapshot", "Quota")
  /\ IF Len(LiveAttempts) >= Allowance
     THEN attempts' = LiveAttempts /\ GoTo(c, "PolkitOverride") /\ UNCHANGED spent
     ELSE /\ attempts' = Append(LiveAttempts, instant) /\ GoTo(c, "Run")
          /\ spent' = Append(spent, instant)
  /\ UNCHANGED <<instant, lastOperation, begun>>

\* The engine takes the snapshot or fails.
CreateDeployment(c) ==
  /\ At(c, "create_deployment", "Run") /\ Answer(c)
  /\ UNCHANGED <<instant, attempts, lastOperation, spent, begun>>

CreatePersonalSnapshot(c) ==
  /\ At(c, "create_personal_snapshot", "Run") /\ Answer(c)
  /\ UNCHANGED <<instant, attempts, lastOperation, spent, begun>>

ClockTicks ==
  /\ instant < LastInstant /\ instant' = instant + 1
  /\ UNCHANGED <<attempts, lastOperation, request, spent, begun>>

HelperRestarts ==
  /\ attempts' = <<>> /\ lastOperation' = Never /\ request' = [c \in Callers |-> NoRequest]
  /\ spent' = <<>> /\ begun' = <<>> /\ UNCHANGED instant

Init ==
  /\ instant = 0 /\ attempts = <<>> /\ lastOperation = Never
  /\ request = [c \in Callers |-> NoRequest] /\ spent = <<>> /\ begun = <<>>

Next ==
  \/ \E c \in Callers :
       \/ Ask(c) \/ Authorize(c) \/ Deny(c) \/ CheckRateLimit(c) \/ ReserveQuota(c)
       \/ CreateDeployment(c) \/ CreatePersonalSnapshot(c)
  \/ ClockTicks \/ HelperRestarts

Spec == Init /\ [][Next]_requestVars

(***************************************************************************)
(* What the limits promise, for one life of the service.                   *)
(***************************************************************************)
\* However calls, passwords and the clock interleave, no span of QuotaWindow has
\* more than Allowance Home snapshots begun in it without an administrator, and
\* no span of RateWindow more than one system snapshot.
LimitsHold ==
  /\ \A t \in 0 .. instant :
       Cardinality({i \in DOMAIN spent : spent[i] <= t /\ t - spent[i] < QuotaWindow}) <= Allowance
  /\ \A i, j \in DOMAIN begun : i < j => begun[j] - begun[i] >= RateWindow
=============================================================================
