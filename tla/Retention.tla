-------------------------------- MODULE Retention --------------------------------
(***************************************************************************)
(* The automatic cleanup of one volume over its life (retention_v2.rs and  *)
(* apply_schedule_retention_impl of the helper): the older a snapshot, the *)
(* wider the bucket of which only the newest one is kept.  A run of the    *)
(* cleanup decides once from one listing and deletes one by one; snapshots *)
(* are taken, protected and deleted meanwhile.  A snapshot is known by the *)
(* time of its creation; the ones that are not Ready are skipped and       *)
(* occupy nothing, so only Ready ones appear.                              *)
(***************************************************************************)
EXTENDS Integers, FiniteSets

CONSTANTS
  DayOf, WeekOf, MonthOf, YearOf,   \* the calendar: local date parts of a time
  KeepAll, KeepDaily, KeepWeekly, KeepMonthly, KeepYearly,   \* RetentionPolicy
  LastTime,    \* bound of the clock
  MostKept     \* bound of the snapshots present

\* RetentionPolicy::validate.
ValidPolicy ==
  /\ KeepAll \in Nat \ {0} /\ KeepDaily \in Nat /\ KeepWeekly \in Nat /\ KeepMonthly \in Nat
  /\ KeepAll <= KeepDaily /\ KeepDaily <= KeepWeekly /\ KeepWeekly <= KeepMonthly
  /\ KeepYearly \in BOOLEAN

\* A week is made of whole days.
ASSUME RetentionConstants ==
  /\ LastTime \in Nat /\ MostKept \in Nat /\ ValidPolicy
  /\ \A s, t \in 0 .. LastTime : DayOf[s] = DayOf[t] => WeekOf[s] = WeekOf[t]

VARIABLES
  today,      \* now
  kept,       \* the Ready snapshots
  pinned,     \* the protected ones
  selected,   \* what the running cleanup has still to delete
  enabled,    \* is_auto_cleanup_enabled
  taken,      \* every snapshot ever taken and not given up by the user
  disturbed   \* the user deleted one since the cleanup decided

vars == <<today, kept, pinned, selected, enabled, taken, disturbed>>

(***************************************************************************)
(* evaluate_retention.  Going from the newest to the oldest with a set of  *)
(* seen buckets keeps a snapshot iff no newer candidate is in its bucket   *)
(* and its tier.                                                           *)
(***************************************************************************)
Age(t) == today - t

Tier(t) ==
  IF Age(t) < KeepAll THEN "All"
  ELSE IF Age(t) < KeepDaily THEN "Daily"
  ELSE IF Age(t) < KeepWeekly THEN "Weekly"
  ELSE IF Age(t) < KeepMonthly THEN "Monthly"
  ELSE IF KeepYearly THEN "Yearly" ELSE "None"

SameBucket(s, t) ==
  /\ Tier(s) = Tier(t)
  /\ CASE Tier(t) = "Daily"   -> DayOf[s] = DayOf[t]
       [] Tier(t) = "Weekly"  -> WeekOf[s] = WeekOf[t]
       [] Tier(t) = "Monthly" -> MonthOf[s] = MonthOf[t]
       [] Tier(t) = "Yearly"  -> YearOf[s] = YearOf[t]
       [] OTHER -> FALSE

Candidates == kept \ pinned

\* Mutant: the oldest of a bucket stays.
OccupiedByOlder(t) == \E s \in Candidates : s < t /\ SameBucket(s, t)

Occupied(t) == \E s \in Candidates : s > t /\ SameBucket(s, t)

Superfluous ==
  IF enabled THEN {t \in Candidates : Occupied(t) \/ Tier(t) = "None"} ELSE {}

\* The last usable snapshot of the volume stays.
Doomed ==
  IF kept \subseteq Superfluous
  THEN {t \in Superfluous : \E s \in Superfluous : s > t}
  ELSE Superfluous

(***************************************************************************)
(* Steps.                                                                  *)
(***************************************************************************)
Evaluate ==
  /\ selected = {} /\ Doomed # {}
  /\ selected' = Doomed /\ disturbed' = FALSE
  /\ UNCHANGED <<today, kept, pinned, enabled, taken>>

\* A deletion that is refused or fails is only logged; a protected snapshot is
\* refused by the engine.
DeleteSelected ==
  \E t \in selected :
    /\ selected' = selected \ {t}
    /\ kept' = kept \/ (t \notin pinned /\ kept' = kept \ {t})
    /\ UNCHANGED <<today, pinned, enabled, taken, disturbed>>

Take ==
  /\ today \notin kept /\ Cardinality(kept) < MostKept
  /\ kept' = kept \cup {today} /\ taken' = taken \cup {today}
  /\ \E pin \in BOOLEAN : pinned' = IF pin THEN pinned \cup {today} ELSE pinned
  /\ UNCHANGED <<today, selected, enabled, disturbed>>

SetPinned ==
  \E t \in kept :
    /\ pinned' \in {pinned \cup {t}, pinned \ {t}} \ {pinned}
    /\ UNCHANGED <<today, kept, selected, enabled, taken, disturbed>>

\* What the user deletes, and what only it stood for, is not missed.
UserDeletes ==
  \E t \in kept \ pinned :
    /\ kept' = kept \ {t} /\ selected' = selected \ {t} /\ disturbed' = TRUE
    /\ taken' = {u \in taken : WeekOf[u] # WeekOf[t]}
    /\ UNCHANGED <<today, pinned, enabled>>

SetEnabled == enabled' = ~enabled /\ UNCHANGED <<today, kept, pinned, selected, taken, disturbed>>

PassTime ==
  /\ today < LastTime /\ today' = today + 1
  /\ taken' = {t \in taken : today' - t < KeepWeekly}    \* the rest is promised nothing
  /\ UNCHANGED <<kept, pinned, selected, enabled, disturbed>>

Init ==
  /\ today = 0 /\ kept = {} /\ pinned = {} /\ selected = {} /\ enabled = TRUE /\ taken = {}
  /\ disturbed = FALSE

Next ==
  \/ Evaluate \/ DeleteSelected \/ Take \/ SetPinned \/ UserDeletes \/ SetEnabled \/ PassTime

Spec == Init /\ [][Next]_vars

(***************************************************************************)
(* What the cleanup promises.                                              *)
(***************************************************************************)
TypeOK ==
  /\ today \in 0 .. LastTime /\ kept \subseteq 0 .. today /\ pinned \subseteq 0 .. today
  /\ selected \subseteq kept /\ enabled \in BOOLEAN /\ taken \subseteq 0 .. today
  /\ disturbed \in BOOLEAN

Survivors == kept \ selected

\* As long as a snapshot is young enough for the daily (weekly) tier, its day
\* (week) has one at least as new, across every change of tier, whatever runs of
\* the cleanup fail half-way or are overtaken by new snapshots.
Covered(t) ==
  /\ Age(t) < KeepDaily  => \E s \in Survivors : s >= t /\ DayOf[s] = DayOf[t]
  /\ Age(t) < KeepWeekly => \E s \in Survivors : s >= t /\ WeekOf[s] = WeekOf[t]

\* A cleanup leaves a usable snapshot, unless the user takes away the one it
\* counted on (evaluate_retention, LastUsableSnapshot).
LeavesOne == selected # {} /\ ~disturbed => Survivors # {}

HistoryIsCovered == (\A t \in taken : Covered(t)) /\ LeavesOne
=============================================================================
