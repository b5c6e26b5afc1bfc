------------------------------ MODULE UpkeepProofs ------------------------------
(***************************************************************************)
(* Proofs about what keeps the file system in order: the cleanup covers    *)
(* the history it promises, for every calendar whose weeks are made of     *)
(* whole days, every policy and every length of life; the long Btrfs tasks *)
(* report what the kernel did, for any number of callers and starts; the   *)
(* swap file survives every change of its size; and the firewall page      *)
(* deletes the rules it was asked to delete.                               *)
(***************************************************************************)
EXTENDS Programs, FiniteSetTheorems, SequenceTheorems, WellFoundedInduction, TLAPS

USE DEF ValidPolicy

LEMMA LastExists ==
  ASSUME NEW n \in Nat, NEW S \in SUBSET (0 .. n), S # {}
  PROVE  \E m \in S : \A s \in S : s <= m
  <1> DEFINE back == {n - s : s \in S}
             R == OpToRel(<, Nat)
  <1>1. back \subseteq Nat /\ back # {}
    <2>1. \A s \in S : n - s \in Nat
      BY SMT
    <2> QED BY <2>1
  <1>2. \E x \in back : \A y \in back : ~(<<y, x>> \in R)
    BY <1>1, NatLessThanWellFounded, WFMin
  <1>3. PICK x \in back : \A y \in back : ~(y < x)
    BY <1>1, <1>2 DEF OpToRel
  <1>4. PICK m \in S : x = n - m
    OBVIOUS
  <1>5. ASSUME NEW s \in S PROVE s <= m
    <2>1. n - s \in back /\ ~(n - s < n - m)
      BY <1>3, <1>4
    <2> QED BY <2>1, SMT
  <1> QED BY <1>4, <1>5

RetentionInv == TypeOK /\ HistoryIsCovered

(***************************************************************************)
(* evaluate_retention keeps the newest snapshot of every day and week that *)
(* the policy still promises, and one at all.                              *)
(***************************************************************************)
LEMMA NewestOfDayStays ==
  ASSUME TypeOK, NEW t \in 0 .. today, Age(t) < KeepDaily,
         \E s \in kept : s >= t /\ DayOf[s] = DayOf[t]
  PROVE  \E s \in kept \ Doomed : s >= t /\ DayOf[s] = DayOf[t]
  <1> DEFINE D == {s \in kept : s >= t /\ DayOf[s] = DayOf[t]}
  <1>1. today \in Nat /\ kept \subseteq 0 .. today
    BY RetentionConstants, SMT DEF TypeOK
  <1>2. PICK m \in D : \A s \in D : s <= m
    BY <1>1, LastExists
  <1>3. m \in kept /\ m >= t /\ DayOf[m] = DayOf[t] /\ m \in 0 .. today
    BY <1>1, <1>2
  <1>4. Age(m) < KeepDaily
    BY <1>1, <1>3, RetentionConstants, SMT DEF Age
  <1>5. Tier(m) = "All" \/ Tier(m) = "Daily"
    BY <1>4 DEF Tier
  <1>6. ~Occupied(m)
    <2>1. ASSUME NEW s \in Candidates, s > m, SameBucket(s, m) PROVE FALSE
      <3>1. Tier(m) = "Daily" /\ DayOf[s] = DayOf[m]
        BY <1>5, <2>1 DEF SameBucket
      <3>2. s \in D
        BY <1>1, <1>3, <2>1, <3>1, SMT DEF Candidates
      <3> QED BY <1>1, <1>2, <1>3, <2>1, <3>2, SMT
    <2> QED BY <2>1 DEF Occupied
  <1>7. m \notin Superfluous
    BY <1>5, <1>6 DEF Superfluous
  <1> QED BY <1>3, <1>7 DEF Doomed

LEMMA NewestOfWeekStays ==
  ASSUME TypeOK, NEW t \in 0 .. today, Age(t) < KeepWeekly,
         \E s \in kept : s >= t /\ WeekOf[s] = WeekOf[t]
  PROVE  \E s \in kept \ Doomed : s >= t /\ WeekOf[s] = WeekOf[t]
  <1> DEFINE D == {s \in kept : s >= t /\ WeekOf[s] = WeekOf[t]}
  <1>1. today \in Nat /\ today <= LastTime /\ kept \subseteq 0 .. today
    BY RetentionConstants, SMT DEF TypeOK
  <1>2. PICK m \in D : \A s \in D : s <= m
    BY <1>1, LastExists
  <1>3. m \in kept /\ m >= t /\ WeekOf[m] = WeekOf[t] /\ m \in 0 .. today
    BY <1>1, <1>2
  <1>4. Age(m) < KeepWeekly
    BY <1>1, <1>3, RetentionConstants, SMT DEF Age
  <1>5. Tier(m) \in {"All", "Daily", "Weekly"}
    BY <1>4 DEF Tier
  <1>6. ~Occupied(m)
    <2>1. ASSUME NEW s \in Candidates, s > m, SameBucket(s, m) PROVE FALSE
      <3>1. s \in 0 .. LastTime /\ m \in 0 .. LastTime /\ s \in kept
        BY <1>1, <1>3, RetentionConstants, SMT DEF Candidates
      <3>2. WeekOf[s] = WeekOf[m]
        <4>1. CASE Tier(m) = "Daily"
          BY <2>1, <3>1, <4>1, RetentionConstants DEF SameBucket
        <4>2. CASE Tier(m) = "Weekly"
          BY <2>1, <4>2 DEF SameBucket
        <4>3. CASE Tier(m) = "All"
          BY <2>1, <4>3 DEF SameBucket
        <4> QED BY <1>5, <4>1, <4>2, <4>3
      <3>3. s \in D
        BY <1>1, <1>3, <2>1, <3>1, <3>2, SMT
      <3> QED BY <1>1, <1>2, <1>3, <2>1, <3>3, SMT
    <2> QED BY <2>1 DEF Occupied
  <1>7. m \notin Superfluous
    BY <1>5, <1>6 DEF Superfluous
  <1> QED BY <1>3, <1>7 DEF Doomed

LEMMA OneStays == ASSUME TypeOK, kept # {} PROVE kept \ Doomed # {}
  <1>1. CASE kept \subseteq Superfluous
    <2>1. today \in Nat /\ kept \subseteq 0 .. today /\ Superfluous \subseteq kept
      BY RetentionConstants, SMT DEF TypeOK, Superfluous, Candidates
    <2>2. PICK m \in kept : \A s \in kept : s <= m
      BY <2>1, LastExists
    <2>3. ~ \E s \in Superfluous : s > m
      BY <2>1, <2>2, SMT
    <2> QED BY <1>1, <2>2, <2>3 DEF Doomed
  <1>2. CASE ~(kept \subseteq Superfluous)
    BY <1>2 DEF Doomed
  <1> QED BY <1>1, <1>2

(***************************************************************************)
(* The steps.                                                              *)
(***************************************************************************)
LEMMA EvaluateHolds == ASSUME RetentionInv, Evaluate PROVE RetentionInv'
  <1>1. /\ selected = {} /\ selected' = Doomed /\ UNCHANGED <<today, kept, pinned, enabled, taken>>
        /\ Doomed # {} /\ disturbed' = FALSE
    BY DEF Evaluate
  <1>2. Doomed \subseteq kept
    BY DEF Doomed, Superfluous, Candidates
  <1>3. TypeOK'
    BY <1>1, <1>2 DEF RetentionInv, TypeOK
  <1>4. ASSUME NEW t \in taken' PROVE Covered(t)'
    <2>1. Covered(t) /\ t \in 0 .. today /\ Survivors = kept /\ Survivors' = kept \ Doomed
      BY <1>1, <1>4 DEF RetentionInv, TypeOK, HistoryIsCovered, Survivors
    <2> QED BY <1>1, <2>1, NewestOfDayStays, NewestOfWeekStays DEF Covered, Age, RetentionInv
  <1>5. LeavesOne'
    BY <1>1, <1>2, OneStays DEF LeavesOne, Survivors, RetentionInv
  <1> QED BY <1>3, <1>4, <1>5 DEF RetentionInv, HistoryIsCovered

\* A step that takes nothing from the survivors, leaves time and calendar alone
\* and adds nothing to what is promised but what survives itself.
LEMMA SurvivorsStay ==
  ASSUME RetentionInv, UNCHANGED <<today, disturbed>>, Survivors \subseteq Survivors',
         \A t \in taken' : t \in taken \/ (t \in Survivors' /\ t \in 0 .. today),
         selected' \subseteq selected
  PROVE  HistoryIsCovered'
  <1>1. ASSUME NEW t \in taken' PROVE Covered(t)'
    <2>1. CASE t \in taken
      BY <2>1 DEF RetentionInv, HistoryIsCovered, Covered, Age
    <2>2. CASE t \in Survivors' /\ t \in 0 .. today
      <3>1. t >= t
        BY <2>2, RetentionConstants, SMT DEF RetentionInv, TypeOK
      <3> QED BY <2>2, <3>1 DEF Covered
    <2> QED BY <1>1, <2>1, <2>2
  <1>2. LeavesOne'
    BY DEF RetentionInv, HistoryIsCovered, LeavesOne
  <1> QED BY <1>1, <1>2 DEF HistoryIsCovered

LEMMA DeleteSelectedHolds == ASSUME RetentionInv, DeleteSelected PROVE RetentionInv'
  <1>1. PICK t \in selected :
          /\ selected' = selected \ {t}
          /\ kept' = kept \/ (t \notin pinned /\ kept' = kept \ {t})
          /\ UNCHANGED <<today, pinned, enabled, taken, disturbed>>
    BY DEF DeleteSelected
  <1>2. TypeOK'
    BY <1>1 DEF RetentionInv, TypeOK
  <1>3. HistoryIsCovered'
    <2>1. Survivors \subseteq Survivors'
      BY <1>1 DEF Survivors
    <2> QED BY <1>1, <2>1, SurvivorsStay
  <1> QED BY <1>2, <1>3 DEF RetentionInv

LEMMA TakeHolds == ASSUME RetentionInv, Take PROVE RetentionInv'
  <1>1. /\ kept' = kept \cup {today} /\ taken' = taken \cup {today} /\ today \notin kept
        /\ pinned' \in {pinned, pinned \cup {today}}
        /\ UNCHANGED <<today, selected, enabled, disturbed>>
    BY DEF Take
  <1>2. today \in 0 .. today /\ today \notin selected
    BY <1>1, RetentionConstants, SMT DEF RetentionInv, TypeOK
  <1>3. TypeOK'
    BY <1>1, <1>2 DEF RetentionInv, TypeOK
  <1>4. HistoryIsCovered'
    <2>1. Survivors \subseteq Survivors' /\ today \in Survivors'
      BY <1>1, <1>2 DEF Survivors
    <2> QED BY <1>1, <1>2, <2>1, SurvivorsStay
  <1> QED BY <1>3, <1>4 DEF RetentionInv

LEMMA SettingHolds == ASSUME RetentionInv, SetPinned \/ SetEnabled PROVE RetentionInv'
  <1>1. UNCHANGED <<today, kept, selected, taken, disturbed>>
    BY DEF SetPinned, SetEnabled
  <1>2. TypeOK'
    BY <1>1 DEF RetentionInv, TypeOK, SetPinned, SetEnabled
  <1>3. HistoryIsCovered'
    BY <1>1, SurvivorsStay DEF Survivors
  <1> QED BY <1>2, <1>3 DEF RetentionInv

LEMMA UserDeletesHolds == ASSUME RetentionInv, UserDeletes PROVE RetentionInv'
  <1>1. PICK t \in kept \ pinned :
          /\ kept' = kept \ {t} /\ selected' = selected \ {t} /\ disturbed' = TRUE
          /\ taken' = {u \in taken : WeekOf[u] # WeekOf[t]}
          /\ UNCHANGED <<today, pinned, enabled>>
    BY DEF UserDeletes
  <1>2. TypeOK'
    BY <1>1 DEF RetentionInv, TypeOK
  <1>3. ASSUME NEW u \in taken' PROVE Covered(u)'
    <2>1. Covered(u) /\ WeekOf[u] # WeekOf[t] /\ Survivors' = Survivors \ {t}
      BY <1>1, <1>3 DEF RetentionInv, HistoryIsCovered, Survivors
    <2>2. DayOf[u] # DayOf[t]
      <3>1. u \in 0 .. LastTime /\ t \in 0 .. LastTime
        BY <1>1, <1>3, RetentionConstants, SMT DEF RetentionInv, TypeOK
      <3> QED BY <2>1, <3>1, RetentionConstants
    <2> QED BY <1>1, <2>1, <2>2 DEF Covered, Age
  <1>4. LeavesOne'
    BY <1>1 DEF LeavesOne
  <1> QED BY <1>2, <1>3, <1>4 DEF RetentionInv, HistoryIsCovered

LEMMA PassTimeHolds == ASSUME RetentionInv, PassTime PROVE RetentionInv'
  <1>1. /\ today < LastTime /\ today' = today + 1 /\ today \in 0 .. LastTime
        /\ taken' \subseteq taken /\ UNCHANGED <<kept, pinned, selected, enabled, disturbed>>
    BY DEF PassTime, RetentionInv, TypeOK
  <1>2. TypeOK'
    <2>1. today' \in 0 .. LastTime /\ 0 .. today \subseteq 0 .. today'
      BY <1>1, RetentionConstants, SMT
    <2> QED BY <1>1, <2>1 DEF RetentionInv, TypeOK
  <1>3. ASSUME NEW t \in taken' PROVE Covered(t)'
    <2>1. Covered(t) /\ t \in 0 .. today /\ Survivors' = Survivors
      BY <1>1, <1>3 DEF RetentionInv, TypeOK, HistoryIsCovered, Survivors
    <2>2. /\ today' - t < KeepDaily => today - t < KeepDaily
          /\ today' - t < KeepWeekly => today - t < KeepWeekly
      BY <1>1, <2>1, RetentionConstants, SMT
    <2> QED BY <2>1, <2>2 DEF Covered, Age
  <1>4. LeavesOne'
    BY <1>1 DEF RetentionInv, HistoryIsCovered, LeavesOne, Survivors
  <1> QED BY <1>2, <1>3, <1>4 DEF RetentionInv, HistoryIsCovered

\* Across every change of tier, every interrupted run of the cleanup and
\* everything the user does meanwhile, each day and week the policy promises has
\* a snapshot at least as new as any that was taken in it, and a run of the
\* cleanup alone never takes the last one.
THEOREM HistoryAlwaysCovered == Spec => []HistoryIsCovered
  <1>1. Init => RetentionInv
    <2>1. 0 \in 0 .. LastTime
      BY RetentionConstants, SMT
    <2> QED BY <2>1 DEF Init, RetentionInv, TypeOK, HistoryIsCovered, LeavesOne
  <1>2. RetentionInv /\ [Next]_vars => RetentionInv'
    <2>1. RetentionInv /\ UNCHANGED vars => RetentionInv'
      BY DEF vars, RetentionInv, TypeOK, HistoryIsCovered, Covered, LeavesOne, Survivors, Age
    <2> QED
      BY <2>1, EvaluateHolds, DeleteSelectedHolds, TakeHolds, SettingHolds, UserDeletesHolds,
         PassTimeHolds DEF Next
  <1>3. RetentionInv => HistoryIsCovered
    BY DEF RetentionInv
  <1> QED BY <1>1, <1>2, <1>3, PTL DEF Spec

(*****************************************************************************)
(* The long Btrfs tasks (Maintenance).                                       *)
(*****************************************************************************)
TwoTasks == {"balance", "defrag"}
TaskPhases == {"Idle", "Starting", "Running", "Cancelling", "Finished", "Failed", "Cancelled"}
TaskRecord == [generation : 0 .. MostStarts, phase : TaskPhases, cancel : BOOLEAN, pid : BOOLEAN]
BalanceThread == [at : {"None", "Begin", "Command", "Wait"}] \cup [at : {"End"}, ok : BOOLEAN]
DefragThread ==
  [at : {"None", "Begin", "Mark", "Wait"}] \cup [at : {"Reap"}, ok : BOOLEAN]
  \cup [at : {"End"}, phase : {"Finished", "Failed", "Cancelled"}]
Asking ==
  [at : {"None"}] \cup [at : {"Claimed", "Spawn", "Unspawned"}, task : TwoTasks]
  \cup [at : {"Cancel"}, early : BOOLEAN, generation : Nat] \cup [at : {"Kill"}, generation : Nat]

TasksType ==
  /\ running \in [TwoTasks -> BOOLEAN]
  /\ task \in [TwoTasks -> TaskRecord]
  /\ DOMAIN thread = TwoTasks
  /\ thread["balance"] \in BalanceThread /\ thread["defrag"] \in DefragThread
  /\ kernel \in [TwoTasks -> Nat]
  /\ asked \in [Requesters -> Asking]
  /\ DOMAIN cancelled = TwoTasks /\ DOMAIN done = TwoTasks

\* The flag of a task is up while one call is about to start its thread or it lives.
Starts(c, k) == asked[c].at \in {"Claimed", "Spawn"} /\ asked[c].task = k
Spawns(c, k) == asked[c].at = "Spawn" /\ asked[c].task = k

FlagFits(k) ==
  /\ running[k] <=> (thread[k].at # "None" \/ \E c \in Requesters : Starts(c, k))
  /\ \A c, d \in Requesters : Starts(c, k) /\ Starts(d, k) => c = d
  /\ \A c \in Requesters : Starts(c, k) => thread[k].at = "None"
  /\ \A c \in Requesters : Starts(c, k) /\ ~Spawns(c, k) => task[k].generation < MostStarts

\* The record of a task that has begun is its own, until the thread ends it.
Begun(k) == thread[k].at # "None" \/ \E c \in Requesters : Spawns(c, k)

RecordFits(k) ==
  /\ Begun(k) => task[k].generation > 0 /\ task[k].phase # "Finished"
  /\ task[k].phase \in Tasks!Active => task[k].generation > 0
  /\ cancelled[k] \subseteq (1 .. task[k].generation) \cup {Tasks!Forgotten}
  /\ task[k].phase = "Finished" => task[k].generation \in done[k] \ cancelled[k]

\* The kernel balances for the thread that waits or for an earlier service; a
\* generation that was cancelled has not begun, was stopped, or is over.
Early(c) == asked[c].at = "Cancel" /\ asked[c].early

BalanceFits ==
  LET t == task["balance"]
      spot == thread["balance"].at
  IN /\ spot = "Wait" => kernel["balance"] = t.generation
     /\ kernel["balance"] \notin {Tasks!Nobody, Tasks!Forgotten} => spot = "Wait"
     /\ kernel["balance"] \notin cancelled["balance"]
     /\ t.phase = "Starting" => spot \in {"None", "Begin"}
     /\ \A c \in Requesters : Early(c) =>
          /\ asked[c].generation \in 1 .. t.generation
          /\ asked[c].generation = t.generation =>
               t.cancel /\ t.phase # "Finished" /\ spot \in {"None", "Begin"}
     /\ t.generation \in cancelled["balance"] =>
          \/ t.cancel /\ spot \in {"None", "Begin"}
          \/ spot = "End" /\ ~thread["balance"].ok
          \/ ~Begun("balance")
     /\ spot = "End" /\ thread["balance"].ok => t.generation \in done["balance"]

\* The child is that of the thread; once it is reaped nothing cancels it, and whoever
\* is about to kill it has left the wish in its record.
Kills(c) == asked[c].at = "Kill"

DefragFits ==
  LET t == task["defrag"]
      spot == thread["defrag"].at
  IN /\ kernel["defrag"] # Tasks!Nobody => spot \in {"Mark", "Wait"} /\ kernel["defrag"] = t.generation
     /\ \A c \in Requesters : Kills(c) =>
          /\ asked[c].generation \in 1 .. t.generation
          /\ asked[c].generation = t.generation => t.cancel
     /\ t.generation \in cancelled["defrag"] => t.cancel /\ spot # "Wait"
     /\ spot \in {"Wait", "Reap"} => t.pid
     /\ spot = "Reap" /\ thread["defrag"].ok => t.generation \in done["defrag"]
     /\ spot = "End" /\ thread["defrag"].phase = "Finished" =>
          t.pid /\ t.generation \in done["defrag"] \ cancelled["defrag"]

TaskFits(k) ==
  /\ FlagFits(k) /\ RecordFits(k)
  /\ k = "balance" => BalanceFits
  /\ k = "defrag" => DefragFits

MaintenanceInv == TasksType /\ \A k \in TwoTasks : TaskFits(k)

LEMMA StartsBounded == MostStarts \in Nat
BY ProgramsConstants DEF Tasks!MaintenanceConstants

LEMMA FreshRecord ==
  ASSUME NEW g \in 0 .. MostStarts
  PROVE  /\ Tasks!FreshTask(g) \in TaskRecord /\ Tasks!FreshTask(g).generation = g
         /\ Tasks!FreshTask(g).phase = "Starting" /\ ~Tasks!FreshTask(g).cancel
         /\ ~Tasks!FreshTask(g).pid
BY DEF Tasks!FreshTask, TaskRecord, TaskPhases

LEMMA IdleRecord ==
  /\ [Tasks!FreshTask(0) EXCEPT !.phase = "Idle"] \in TaskRecord
  /\ [Tasks!FreshTask(0) EXCEPT !.phase = "Idle"].generation = 0
  /\ [Tasks!FreshTask(0) EXCEPT !.phase = "Idle"].phase = "Idle"
<1>1. PICK r \in TaskRecord : r = Tasks!FreshTask(0) /\ r.generation = 0
  BY StartsBounded, FreshRecord
<1>2. /\ [r EXCEPT !.phase = "Idle"] \in TaskRecord
      /\ [r EXCEPT !.phase = "Idle"].generation = 0 /\ [r EXCEPT !.phase = "Idle"].phase = "Idle"
  BY <1>1 DEF TaskRecord, TaskPhases
<1> QED
  BY <1>1, <1>2

LEMMA MaintenanceStarts == Tasks!Init => MaintenanceInv
<1> SUFFICES ASSUME Tasks!Init PROVE MaintenanceInv
  OBVIOUS
<1> USE DEF Tasks!Init, Tasks!Tasks, TwoTasks, Tasks!NoThread, Tasks!Nobody, Tasks!Forgotten
<1>1. \A k \in TwoTasks : task[k] \in TaskRecord /\ task[k].generation = 0 /\ task[k].phase = "Idle"
  BY IdleRecord
<1>2. TasksType
  <2>1. task \in [TwoTasks -> TaskRecord]
    BY <1>1
  <2>2. asked \in [Requesters -> Asking]
    BY DEF Asking
  <2>3. thread["balance"] \in BalanceThread /\ thread["defrag"] \in DefragThread
    BY DEF BalanceThread, DefragThread
  <2> QED
    BY <2>1, <2>2, <2>3 DEF TasksType
<1>3. ASSUME NEW k \in TwoTasks PROVE FlagFits(k) /\ RecordFits(k)
  BY <1>1 DEF FlagFits, RecordFits, Starts, Spawns, Begun, Tasks!Active
<1>4. BalanceFits
  BY <1>1, StartsBounded DEF BalanceFits, Early, Begun, Spawns
<1>5. DefragFits
  BY <1>1 DEF DefragFits, Kills
<1> QED
  BY <1>2, <1>3, <1>4, <1>5 DEF MaintenanceInv, TaskFits

(*****************************************************************************)
(* A step is about one task; what the other calls ask of the rest stays.     *)
(*****************************************************************************)
Concerns(a, k) ==
  \/ a.at \in {"Claimed", "Spawn"} /\ a.task = k
  \/ a.at = "Cancel" /\ k = "balance"
  \/ a.at = "Kill" /\ k = "defrag"

SameTask(k) ==
  /\ running'[k] = running[k] /\ task'[k] = task[k] /\ thread'[k] = thread[k]
  /\ kernel'[k] = kernel[k] /\ cancelled'[k] = cancelled[k] /\ done'[k] = done[k]

SameAsked(k) ==
  \A c \in Requesters : asked'[c] = asked[c] \/ (~Concerns(asked[c], k) /\ ~Concerns(asked'[c], k))

LEMMA OthersFit ==
  ASSUME NEW k \in TwoTasks, TaskFits(k), SameTask(k), SameAsked(k)
  PROVE  TaskFits(k)'
<1>1. \A c \in Requesters : /\ Starts(c, k)' <=> Starts(c, k)
                            /\ Spawns(c, k)' <=> Spawns(c, k)
  BY DEF SameAsked, Concerns, Starts, Spawns
<1>2. FlagFits(k)'
  BY <1>1 DEF TaskFits, FlagFits, SameTask
<1>3. Begun(k)' <=> Begun(k)
  BY <1>1 DEF Begun, SameTask
<1>4. RecordFits(k)'
  BY <1>3 DEF TaskFits, RecordFits, SameTask
<1>5. CASE k = "balance"
  <2>1. \A c \in Requesters : Early(c)' => Early(c) /\ asked'[c] = asked[c]
    BY <1>5 DEF SameAsked, Concerns, Early
  <2>2. BalanceFits'
    BY <1>3, <1>5, <2>1 DEF TaskFits, BalanceFits, SameTask
  <2> QED
    BY <1>2, <1>4, <1>5, <2>2 DEF TaskFits
<1>6. CASE k = "defrag"
  <2>1. \A c \in Requesters : Kills(c)' => Kills(c) /\ asked'[c] = asked[c]
    BY <1>6 DEF SameAsked, Concerns, Kills
  <2>2. DefragFits'
    BY <1>6, <2>1 DEF TaskFits, DefragFits, SameTask
  <2> QED
    BY <1>2, <1>4, <1>6, <2>2 DEF TaskFits
<1> QED
  BY <1>5, <1>6 DEF TwoTasks

\* It is enough to look at the task a step is about.
LEMMA OneTask ==
  ASSUME MaintenanceInv, TasksType', NEW k \in TwoTasks, TaskFits(k)',
         \A j \in TwoTasks \ {k} : SameTask(j) /\ SameAsked(j)
  PROVE  MaintenanceInv'
BY OthersFit DEF MaintenanceInv

\* The record of a task changes in one field.
LEMMA RecordBecomes ==
  ASSUME TasksType, NEW k \in TwoTasks, NEW p \in TaskPhases, Tasks!SetPhase(k, p)
  PROVE  /\ task' \in [TwoTasks -> TaskRecord]
         /\ task'[k].phase = p /\ task'[k].generation = task[k].generation
         /\ task'[k].cancel = task[k].cancel /\ task'[k].pid = task[k].pid
         /\ \A j \in TwoTasks \ {k} : task'[j] = task[j]
BY DEF TasksType, Tasks!SetPhase, TaskRecord

\* A call goes on to its next step.
LEMMA AskingBecomes ==
  ASSUME TasksType, NEW c \in Requesters, NEW a \in Asking, Tasks!Asks(c, a)
  PROVE  /\ asked' \in [Requesters -> Asking]
         /\ asked'[c] = a
         /\ \A d \in Requesters \ {c} : asked'[d] = asked[d]
BY DEF TasksType, Tasks!Asks

\* What a call about to start does, another that starts the same task does not.
LEMMA ClaimPreserves ==
  ASSUME MaintenanceInv, NEW c \in Requesters, NEW k \in TwoTasks, Tasks!Claim(c, k)
  PROVE  MaintenanceInv'
<1> USE DEF MaintenanceInv
<1> DEFINE step == [at |-> "Claimed", task |-> k]
<1>1. /\ asked[c].at = "None" /\ ~running[k] /\ task[k].generation < MostStarts
      /\ running' = [running EXCEPT ![k] = TRUE] /\ Tasks!Asks(c, step)
      /\ UNCHANGED <<task, thread, kernel, cancelled, done>>
  BY DEF Tasks!Claim, Tasks!Free
<1>2. step \in Asking
  BY DEF Asking, TwoTasks
<1>3. /\ asked' \in [Requesters -> Asking] /\ asked'[c].at = "Claimed" /\ asked'[c].task = k
      /\ \A d \in Requesters \ {c} : asked'[d] = asked[d]
  BY <1>1, <1>2, AskingBecomes
<1>4. TasksType'
  BY <1>1, <1>3 DEF TasksType
<1>5. \A j \in TwoTasks \ {k} : SameTask(j) /\ SameAsked(j)
  BY <1>1, <1>3 DEF SameTask, SameAsked, Concerns, TasksType
<1>6. FlagFits(k)'
  <2>1. running'[k] /\ thread[k].at = "None" /\ \A d \in Requesters : ~Starts(d, k)
    BY <1>1 DEF TaskFits, FlagFits, TasksType
  <2>2. /\ Starts(c, k)' /\ ~Spawns(c, k)'
        /\ \A d \in Requesters \ {c} : ~Starts(d, k)' /\ ~Spawns(d, k)'
    BY <1>3, <2>1 DEF Starts, Spawns
  <2> QED
    BY <1>1, <2>1, <2>2 DEF FlagFits
<1>7. \A d \in Requesters : Spawns(d, k)' => Spawns(d, k)
  BY <1>3 DEF Spawns
<1>8. RecordFits(k)'
  BY <1>1, <1>7 DEF TaskFits, RecordFits, Begun
<1>9. \A d \in Requesters : (Early(d)' => Early(d) /\ asked'[d] = asked[d]) /\ (Kills(d)' => Kills(d) /\ asked'[d] = asked[d])
  BY <1>3 DEF Early, Kills
<1>10. k = "balance" => BalanceFits'
  BY <1>1, <1>7, <1>9 DEF TaskFits, BalanceFits, Begun
<1>11. k = "defrag" => DefragFits'
  BY <1>1, <1>9 DEF TaskFits, DefragFits
<1> QED
  BY <1>4, <1>5, <1>6, <1>8, <1>10, <1>11, OneTask DEF TaskFits

LEMMA ResetPreserves ==
  ASSUME MaintenanceInv, NEW c \in Requesters, Tasks!ResetTask(c)
  PROVE  MaintenanceInv'
<1> USE DEF MaintenanceInv
<1>0. PICK k \in TwoTasks : asked[c].at = "Claimed" /\ asked[c].task = k
  BY DEF Tasks!ResetTask, TasksType, Asking
<1> DEFINE step == [at |-> "Spawn", task |-> k]
<1>1. /\ task' = [task EXCEPT ![k] = Tasks!FreshTask(task[k].generation + 1)] /\ Tasks!Asks(c, step)
      /\ UNCHANGED <<running, thread, kernel, cancelled, done>>
  BY <1>0 DEF Tasks!ResetTask
<1>2. step \in Asking
  BY <1>0 DEF Asking
<1>3. /\ asked' \in [Requesters -> Asking] /\ asked'[c].at = "Spawn" /\ asked'[c].task = k
      /\ \A d \in Requesters \ {c} : asked'[d] = asked[d]
  BY <1>1, <1>2, AskingBecomes
<1>4. /\ Starts(c, k) /\ ~Spawns(c, k) /\ thread[k].at = "None" /\ task[k].generation < MostStarts
      /\ \A d \in Requesters \ {c} : ~Starts(d, k)
  BY <1>0 DEF TaskFits, FlagFits, Starts, Spawns
<1>5. task[k].generation + 1 \in 0 .. MostStarts /\ task[k].generation \in Nat
  BY <1>0, <1>4, StartsBounded DEF TasksType, TaskRecord
<1>6. /\ task'[k] \in TaskRecord /\ task'[k].generation = task[k].generation + 1
      /\ task'[k].phase = "Starting" /\ ~task'[k].cancel /\ ~task'[k].pid
      /\ task' \in [TwoTasks -> TaskRecord]
      /\ \A j \in TwoTasks \ {k} : task'[j] = task[j]
  BY <1>0, <1>1, <1>5, FreshRecord DEF TasksType
<1>7. TasksType'
  BY <1>1, <1>3, <1>6 DEF TasksType
<1>8. \A j \in TwoTasks \ {k} : SameTask(j) /\ SameAsked(j)
  BY <1>0, <1>1, <1>3, <1>6 DEF SameTask, SameAsked, Concerns
<1>9. Starts(c, k)' /\ Spawns(c, k)' /\ \A d \in Requesters \ {c} : ~Starts(d, k)' /\ ~Spawns(d, k)'
  BY <1>3, <1>4 DEF Starts, Spawns
<1>10. FlagFits(k)'
  BY <1>0, <1>1, <1>4, <1>9 DEF TaskFits, FlagFits
<1>11. cancelled[k] \subseteq (1 .. task[k].generation) \cup {Tasks!Forgotten}
  BY <1>0 DEF TaskFits, RecordFits
<1>12. /\ cancelled'[k] \subseteq (1 .. task'[k].generation) \cup {Tasks!Forgotten}
       /\ task'[k].generation \notin cancelled'[k]
  BY <1>1, <1>5, <1>6, <1>11, StartsBounded DEF Tasks!Forgotten
<1>13. RecordFits(k)'
  BY <1>5, <1>6, <1>12 DEF RecordFits
<1>14. \A d \in Requesters : (Early(d)' => Early(d) /\ asked'[d] = asked[d]) /\ (Kills(d)' => Kills(d) /\ asked'[d] = asked[d])
  BY <1>3 DEF Early, Kills
<1>15. ASSUME k = "balance" PROVE BalanceFits'
  <2>1. /\ kernel' = kernel /\ cancelled' = cancelled /\ thread' = thread
        /\ task'["balance"].generation = task["balance"].generation + 1
        /\ thread["balance"].at = "None" /\ task["balance"].generation \in Nat
        /\ task'["balance"].generation \notin cancelled["balance"]
    BY <1>1, <1>4, <1>5, <1>6, <1>12, <1>15
  <2> QED
    BY <1>0, <1>14, <1>15, <2>1 DEF TaskFits, BalanceFits
<1>16. ASSUME k = "defrag" PROVE DefragFits'
  <2>1. /\ kernel' = kernel /\ cancelled' = cancelled /\ thread' = thread
        /\ task'["defrag"].generation = task["defrag"].generation + 1
        /\ thread["defrag"].at = "None" /\ task["defrag"].generation \in Nat
        /\ task'["defrag"].generation \notin cancelled["defrag"]
    BY <1>1, <1>4, <1>5, <1>6, <1>12, <1>16
  <2> QED
    BY <1>0, <1>14, <1>16, <2>1 DEF TaskFits, DefragFits
<1> QED
  BY <1>0, <1>7, <1>8, <1>10, <1>13, <1>15, <1>16, OneTask DEF TaskFits

LEMMA SpawnPreserves ==
  ASSUME MaintenanceInv, NEW c \in Requesters, Tasks!Spawn(c)
  PROVE  MaintenanceInv'
<1> USE DEF MaintenanceInv
<1>0. PICK k \in TwoTasks : asked[c].at = "Spawn" /\ asked[c].task = k
  BY DEF Tasks!Spawn, TasksType, Asking
<1>1. /\ Starts(c, k) /\ Spawns(c, k) /\ thread[k].at = "None" /\ running[k]
      /\ \A d \in Requesters \ {c} : ~Starts(d, k) /\ ~Spawns(d, k)
  BY <1>0 DEF TaskFits, FlagFits, Starts, Spawns
<1>2. UNCHANGED <<task, kernel, cancelled, done>>
  BY DEF Tasks!Spawn
<1>3. \/ /\ thread' = [thread EXCEPT ![k] = [at |-> "Begin"]] /\ running' = running
         /\ Tasks!Asks(c, [at |-> "None"])
      \/ /\ running' = [running EXCEPT ![k] = FALSE] /\ thread' = thread
         /\ Tasks!Asks(c, [at |-> "Unspawned", task |-> k])
  BY <1>0 DEF Tasks!Spawn, Tasks!Lower, Tasks!Answered
<1>4. [at |-> "None"] \in Asking /\ [at |-> "Unspawned", task |-> k] \in Asking
  BY DEF Asking
<1>5. /\ asked' \in [Requesters -> Asking] /\ asked'[c].at \in {"None", "Unspawned"}
      /\ \A d \in Requesters \ {c} : asked'[d] = asked[d]
  BY <1>3, <1>4, AskingBecomes
<1>6. TasksType'
  <2>1. /\ DOMAIN thread' = TwoTasks /\ thread'[k] \in {thread[k]} \cup [at : {"Begin"}]
        /\ \A j \in TwoTasks \ {k} : thread'[j] = thread[j]
    BY <1>3 DEF TasksType
  <2>2. thread'["balance"] \in BalanceThread /\ thread'["defrag"] \in DefragThread
    BY <2>1 DEF TasksType, BalanceThread, DefragThread, TwoTasks
  <2>3. running' \in [TwoTasks -> BOOLEAN]
    BY <1>3 DEF TasksType
  <2> QED
    BY <1>2, <1>5, <2>1, <2>2, <2>3 DEF TasksType
<1>7. \A j \in TwoTasks \ {k} : SameTask(j) /\ SameAsked(j)
  BY <1>0, <1>2, <1>3, <1>5 DEF SameTask, SameAsked, Concerns, TasksType
<1>8. \A d \in Requesters : ~Starts(d, k)' /\ ~Spawns(d, k)'
  BY <1>1, <1>5 DEF Starts, Spawns
<1>9. \/ thread'[k].at = "Begin" /\ running'[k]
      \/ thread'[k].at = "None" /\ ~running'[k]
  BY <1>1, <1>3 DEF TasksType
<1>10. FlagFits(k)' /\ RecordFits(k)'
  BY <1>1, <1>2, <1>8, <1>9 DEF FlagFits, TaskFits, RecordFits, Begun
<1>11. \A d \in Requesters : (Early(d)' => Early(d) /\ asked'[d] = asked[d]) /\ (Kills(d)' => Kills(d) /\ asked'[d] = asked[d])
  BY <1>5 DEF Early, Kills
<1>12. Begun(k) /\ ~Begun(k)' = (thread'[k].at = "None")
  BY <1>1, <1>8 DEF Begun
<1>13. k = "balance" => BalanceFits'
  BY <1>1, <1>2, <1>9, <1>11, <1>12 DEF TaskFits, BalanceFits
<1>14. k = "defrag" => DefragFits'
  BY <1>1, <1>2, <1>9, <1>11 DEF TaskFits, DefragFits
<1> QED
  BY <1>6, <1>7, <1>10, <1>13, <1>14, OneTask DEF TaskFits

\* By then the record may be that of the next task: all it loses is its phase.
LEMMA FailPreserves ==
  ASSUME MaintenanceInv, NEW c \in Requesters, Tasks!FailSpawn(c)
  PROVE  MaintenanceInv'
<1> USE DEF MaintenanceInv
<1>0. PICK k \in TwoTasks : asked[c].at = "Unspawned" /\ asked[c].task = k
  BY DEF Tasks!FailSpawn, TasksType, Asking
<1>1. /\ Tasks!SetPhase(k, "Failed") /\ Tasks!Asks(c, [at |-> "None"])
      /\ UNCHANGED <<running, thread, kernel, cancelled, done>>
  BY <1>0 DEF Tasks!FailSpawn, Tasks!Answered
<1>2. /\ task' \in [TwoTasks -> TaskRecord]
      /\ task'[k].phase = "Failed" /\ task'[k].generation = task[k].generation
      /\ task'[k].cancel = task[k].cancel /\ task'[k].pid = task[k].pid
      /\ \A j \in TwoTasks \ {k} : task'[j] = task[j]
  BY <1>1, RecordBecomes DEF TaskPhases
<1>3. [at |-> "None"] \in Asking
  BY DEF Asking
<1>4. /\ asked' \in [Requesters -> Asking] /\ asked'[c].at = "None"
      /\ \A d \in Requesters \ {c} : asked'[d] = asked[d]
  BY <1>1, <1>3, AskingBecomes
<1>5. TasksType'
  BY <1>1, <1>2, <1>4 DEF TasksType
<1>6. \A j \in TwoTasks \ {k} : SameTask(j) /\ SameAsked(j)
  BY <1>0, <1>1, <1>2, <1>4 DEF SameTask, SameAsked, Concerns
<1>7. \A d \in Requesters : Starts(d, k)' = Starts(d, k) /\ Spawns(d, k)' = Spawns(d, k)
  BY <1>0, <1>4 DEF Starts, Spawns
<1>8. FlagFits(k)' /\ RecordFits(k)'
  BY <1>1, <1>2, <1>7 DEF TaskFits, FlagFits, RecordFits, Begun, Tasks!Active
<1>9. \A d \in Requesters : (Early(d)' => Early(d) /\ asked'[d] = asked[d]) /\ (Kills(d)' => Kills(d) /\ asked'[d] = asked[d])
  BY <1>4 DEF Early, Kills
<1>10. k = "balance" => BalanceFits'
  BY <1>1, <1>2, <1>7, <1>9 DEF TaskFits, BalanceFits, Begun
<1>11. k = "defrag" => DefragFits'
  BY <1>1, <1>2, <1>9 DEF TaskFits, DefragFits
<1> QED
  BY <1>5, <1>6, <1>8, <1>10, <1>11, OneTask DEF TaskFits

(*****************************************************************************)
(* The threads.                                                              *)
(*****************************************************************************)
LEMMA ThreadMoves ==
  ASSUME TasksType, NEW k \in TwoTasks, NEW spot, thread[k].at \in {"Begin", "Command", "Mark"},
         Tasks!ThreadAt(k, spot)
  PROVE  /\ thread'[k] \in [at : {spot}] /\ DOMAIN thread' = TwoTasks
         /\ \A j \in TwoTasks \ {k} : thread'[j] = thread[j]
<1>1. thread[k] \in [at : {"Begin", "Command", "Mark"}]
  BY DEF TasksType, BalanceThread, DefragThread, TwoTasks
<1>2. DOMAIN thread = TwoTasks /\ thread' = [thread EXCEPT ![k].at = spot]
  BY DEF TasksType, Tasks!ThreadAt
<1> QED
  BY <1>1, <1>2

\* While its thread lives nobody starts a task.
LEMMA ThreadIsAlone ==
  ASSUME MaintenanceInv, NEW k \in TwoTasks, thread[k].at # "None"
  PROVE  /\ running[k] /\ task[k].generation > 0 /\ task[k].phase # "Finished"
         /\ \A c \in Requesters : ~Starts(c, k) /\ ~Spawns(c, k)
BY DEF MaintenanceInv, TaskFits, FlagFits, RecordFits, Begun, Starts, Spawns

\* The flag and the record after a step of the thread that ends it or lets it live.
LEMMA ThreadStep ==
  ASSUME MaintenanceInv, NEW k \in TwoTasks, thread[k].at # "None", asked' = asked,
         \/ thread'[k].at # "None" /\ running'[k]
         \/ thread'[k].at = "None" /\ ~running'[k],
         task'[k].generation = task[k].generation,
         task'[k].phase = "Finished" =>
           thread'[k].at = "None" /\ task[k].generation \in done'[k] \ cancelled[k],
         cancelled'[k] = cancelled[k], done[k] \subseteq done'[k]
  PROVE  FlagFits(k)' /\ RecordFits(k)' /\ \A c \in Requesters : ~Spawns(c, k)'
<1>1. /\ running[k] /\ task[k].generation > 0
      /\ \A c \in Requesters : ~Starts(c, k)' /\ ~Spawns(c, k)'
  BY ThreadIsAlone DEF Starts, Spawns
<1>2. cancelled[k] \subseteq (1 .. task[k].generation) \cup {Tasks!Forgotten}
  BY DEF MaintenanceInv, TaskFits, RecordFits
<1> QED
  BY <1>1, <1>2 DEF FlagFits, RecordFits, Begun

LEMMA BeginBalancePreserves ==
  ASSUME MaintenanceInv, Tasks!BeginBalance
  PROVE  MaintenanceInv'
<1> USE DEF MaintenanceInv
<1> DEFINE k == "balance"
<1>0. k \in TwoTasks /\ thread[k].at = "Begin" /\ UNCHANGED <<kernel, asked, cancelled, done>>
  BY DEF Tasks!BeginBalance, TwoTasks
<1>1. PICK p \in TaskPhases \ {"Finished", "Starting"} : Tasks!SetPhase(k, p)
  BY DEF Tasks!BeginBalance, TaskPhases
<1>2. /\ task' \in [TwoTasks -> TaskRecord]
      /\ task'[k].phase = p /\ task'[k].generation = task[k].generation
      /\ task'[k].cancel = task[k].cancel
      /\ \A j \in TwoTasks \ {k} : task'[j] = task[j]
  BY <1>0, <1>1, RecordBecomes
<1>3. /\ DOMAIN thread' = TwoTasks /\ \A j \in TwoTasks \ {k} : thread'[j] = thread[j]
      /\ running' \in [TwoTasks -> BOOLEAN] /\ \A j \in TwoTasks \ {k} : running'[j] = running[j]
      /\ \/ task[k].cancel /\ thread'[k] \in [at : {"None"}] /\ ~running'[k]
         \/ ~task[k].cancel /\ thread'[k] \in [at : {"Command"}] /\ running'[k]
  <2>1. CASE task[k].cancel
    <3>1. /\ running' = [running EXCEPT ![k] = FALSE]
          /\ thread' = [thread EXCEPT ![k] = [at |-> "None"]]
      BY <2>1 DEF Tasks!BeginBalance, Tasks!Lower, Tasks!NoThread
    <3> QED
      BY <1>0, <2>1, <3>1 DEF TasksType
  <2>2. CASE ~task[k].cancel
    BY <1>0, <2>2, ThreadMoves, ThreadIsAlone DEF Tasks!BeginBalance, TasksType
  <2> QED
    BY <2>1, <2>2
<1>4. TasksType'
  BY <1>0, <1>2, <1>3 DEF TasksType, BalanceThread, TwoTasks
<1>5. \A j \in TwoTasks \ {k} : SameTask(j) /\ SameAsked(j)
  BY <1>0, <1>2, <1>3 DEF SameTask, SameAsked
<1>6. FlagFits(k)' /\ RecordFits(k)' /\ \A c \in Requesters : ~Spawns(c, k)'
  BY <1>0, <1>2, <1>3, ThreadStep
<1>7. BalanceFits'
  BY <1>0, <1>2, <1>3, <1>6 DEF TaskFits, BalanceFits, Begun, Early
<1> QED
  BY <1>0, <1>4, <1>5, <1>6, <1>7, OneTask DEF TaskFits

LEMMA CommandBalancePreserves ==
  ASSUME MaintenanceInv, Tasks!CommandBalance
  PROVE  MaintenanceInv'
<1> USE DEF MaintenanceInv
<1> DEFINE k == "balance"
<1>0. /\ k \in TwoTasks /\ thread[k].at = "Command"
      /\ UNCHANGED <<running, task, asked, cancelled, done>>
  BY DEF Tasks!CommandBalance, TwoTasks
<1>1. task[k].generation \in 1 .. MostStarts
  BY <1>0, ThreadIsAlone, StartsBounded DEF TasksType, TaskRecord
<1>2. /\ DOMAIN thread' = TwoTasks /\ \A j \in TwoTasks \ {k} : thread'[j] = thread[j]
      /\ kernel' \in [TwoTasks -> Nat] /\ \A j \in TwoTasks \ {k} : kernel'[j] = kernel[j]
      /\ \/ thread'[k] \in [at : {"Wait"}] /\ kernel'[k] = task[k].generation
         \/ thread'[k] \in [at : {"End"}, ok : {FALSE}] /\ kernel' = kernel
  <2>1. CASE /\ kernel' = [kernel EXCEPT ![k] = task[k].generation]
             /\ Tasks!ThreadAt(k, "Wait")
    <3>1. /\ DOMAIN thread' = TwoTasks /\ thread'[k] \in [at : {"Wait"}]
          /\ \A j \in TwoTasks \ {k} : thread'[j] = thread[j]
      BY <1>0, <2>1, ThreadMoves
    <3>2. kernel' \in [TwoTasks -> Nat]
      BY <1>0, <1>1, <2>1, StartsBounded DEF TasksType
    <3> QED
      BY <1>0, <2>1, <3>1, <3>2 DEF TasksType
  <2>2. CASE /\ thread' = [thread EXCEPT ![k] = [at |-> "End", ok |-> FALSE]]
             /\ UNCHANGED kernel
    BY <1>0, <2>2 DEF TasksType
  <2> QED
    BY <2>1, <2>2 DEF Tasks!CommandBalance
<1>3. TasksType'
  BY <1>0, <1>2 DEF TasksType, BalanceThread, TwoTasks
<1>4. \A j \in TwoTasks \ {k} : SameTask(j) /\ SameAsked(j)
  BY <1>0, <1>2 DEF SameTask, SameAsked
<1>5. FlagFits(k)' /\ RecordFits(k)'
  BY <1>0, <1>2, ThreadStep, ThreadIsAlone
<1>6. task[k].generation \notin cancelled[k]
  BY <1>0 DEF TaskFits, BalanceFits, Begun
<1>7. BalanceFits'
  BY <1>0, <1>1, <1>2, <1>6 DEF TaskFits, BalanceFits, Early
<1> QED
  BY <1>0, <1>3, <1>4, <1>5, <1>7, OneTask DEF TaskFits

LEMMA EndBalancePreserves ==
  ASSUME MaintenanceInv, Tasks!EndBalance
  PROVE  MaintenanceInv'
<1> USE DEF MaintenanceInv
<1> DEFINE k == "balance"
<1>0. k \in TwoTasks /\ thread[k].at = "End" /\ UNCHANGED <<kernel, asked, cancelled, done>>
  BY DEF Tasks!EndBalance, TwoTasks
<1>1. PICK p \in TaskPhases : /\ Tasks!SetPhase(k, p)
                              /\ p \in {"Cancelled", "Finished", "Failed"}
                              /\ p = "Finished" => ~task[k].cancel /\ thread[k].ok
  BY DEF Tasks!EndBalance, TaskPhases
<1>2. /\ task' \in [TwoTasks -> TaskRecord]
      /\ task'[k].phase = p /\ task'[k].generation = task[k].generation
      /\ task'[k].cancel = task[k].cancel
      /\ \A j \in TwoTasks \ {k} : task'[j] = task[j]
  BY <1>0, <1>1, RecordBecomes
<1>3. /\ DOMAIN thread' = TwoTasks /\ \A j \in TwoTasks \ {k} : thread'[j] = thread[j]
      /\ running' \in [TwoTasks -> BOOLEAN] /\ \A j \in TwoTasks \ {k} : running'[j] = running[j]
      /\ thread'[k] \in [at : {"None"}] /\ ~running'[k]
  BY <1>0 DEF Tasks!EndBalance, Tasks!Lower, Tasks!NoThread, TasksType
<1>4. TasksType'
  BY <1>0, <1>2, <1>3 DEF TasksType, BalanceThread, TwoTasks
<1>5. \A j \in TwoTasks \ {k} : SameTask(j) /\ SameAsked(j)
  BY <1>0, <1>2, <1>3 DEF SameTask, SameAsked
<1>6. p = "Finished" => task[k].generation \in done[k] \ cancelled[k]
  BY <1>0, <1>1 DEF TaskFits, BalanceFits, Begun
<1>7. FlagFits(k)' /\ RecordFits(k)' /\ \A c \in Requesters : ~Spawns(c, k)'
  BY <1>0, <1>2, <1>3, <1>6, ThreadStep
<1>8. ~Begun(k)'
  BY <1>3, <1>7 DEF Begun
<1>9. BalanceFits'
  BY <1>0, <1>1, <1>2, <1>3, <1>8 DEF TaskFits, BalanceFits, Early
<1> QED
  BY <1>0, <1>4, <1>5, <1>7, <1>9, OneTask DEF TaskFits

(*****************************************************************************)
(* The kernel, and the cancellations.                                        *)
(*****************************************************************************)
SameStarts(k) ==
  \A c \in Requesters : Starts(c, k)' = Starts(c, k) /\ Spawns(c, k)' = Spawns(c, k)

\* A step that starts and ends no thread.
LEMMA QuietStep ==
  ASSUME MaintenanceInv, NEW k \in TwoTasks, running'[k] = running[k], SameStarts(k),
         (thread'[k].at = "None") = (thread[k].at = "None"),
         task'[k].generation = task[k].generation,
         task'[k].phase # task[k].phase => task[k].phase \in Tasks!Active /\ task'[k].phase = "Cancelling",
         done[k] \subseteq done'[k],
         cancelled'[k] \subseteq (1 .. task[k].generation) \cup {Tasks!Forgotten},
         task[k].phase = "Finished" => task[k].generation \notin cancelled'[k]
  PROVE  FlagFits(k)' /\ RecordFits(k)' /\ Begun(k)' = Begun(k)
<1> USE DEF MaintenanceInv, TaskFits
<1>1. FlagFits(k)'
  BY DEF FlagFits, SameStarts
<1>2. Begun(k)' = Begun(k)
  BY DEF Begun, SameStarts
<1>3. RecordFits(k)'
  BY <1>2 DEF RecordFits, Tasks!Active
<1> QED
  BY <1>1, <1>2, <1>3

LEMMA GenerationIs ==
  ASSUME MaintenanceInv, NEW k \in TwoTasks
  PROVE  /\ task[k].generation \in 0 .. MostStarts /\ Tasks!Forgotten = MostStarts + 1
         /\ task[k].generation # Tasks!Forgotten /\ Tasks!Nobody = 0
         /\ cancelled[k] \subseteq (1 .. task[k].generation) \cup {Tasks!Forgotten}
         /\ Tasks!Nobody \notin cancelled[k]
<1>1. task[k].generation \in 0 .. MostStarts
  BY DEF MaintenanceInv, TasksType, TaskRecord
<1>2. cancelled[k] \subseteq (1 .. task[k].generation) \cup {Tasks!Forgotten}
  BY DEF MaintenanceInv, TaskFits, RecordFits
<1> QED
  BY <1>1, <1>2, StartsBounded DEF Tasks!Forgotten, Tasks!Nobody

LEMMA KernelPreserves ==
  ASSUME MaintenanceInv, NEW k \in TwoTasks, Tasks!KernelEnds(k)
  PROVE  MaintenanceInv'
<1> USE DEF MaintenanceInv
<1>1. /\ kernel[k] # 0 /\ kernel' = [kernel EXCEPT ![k] = 0]
      /\ UNCHANGED <<running, task, asked, cancelled>>
  BY DEF Tasks!KernelEnds, Tasks!Nobody
<1>2. PICK ok \in BOOLEAN :
        /\ done' = IF ok THEN [done EXCEPT ![k] = @ \cup {kernel[k]}] ELSE done
        /\ thread' = IF thread[k].at = "Wait"
             THEN [thread EXCEPT ![k] = [at |-> IF k = "balance" THEN "End" ELSE "Reap", ok |-> ok]]
             ELSE thread
  BY DEF Tasks!KernelEnds
<1>3. /\ DOMAIN done' = TwoTasks /\ done[k] \subseteq done'[k] /\ (ok => kernel[k] \in done'[k])
      /\ \A j \in TwoTasks \ {k} : done'[j] = done[j]
  BY <1>2 DEF TasksType
<1>4. /\ DOMAIN thread' = TwoTasks /\ \A j \in TwoTasks \ {k} : thread'[j] = thread[j]
      /\ thread[k].at = "Wait" => thread'[k] \in [at : {IF k = "balance" THEN "End" ELSE "Reap"}, ok : {ok}]
      /\ thread[k].at # "Wait" => thread'[k] = thread[k]
  BY <1>2 DEF TasksType
<1>5. kernel' \in [TwoTasks -> Nat] /\ kernel'[k] = 0 /\ \A j \in TwoTasks \ {k} : kernel'[j] = kernel[j]
  BY <1>1 DEF TasksType
<1>6. thread'["balance"] \in BalanceThread /\ thread'["defrag"] \in DefragThread
  BY <1>4 DEF TasksType, BalanceThread, DefragThread, TwoTasks
<1>7. TasksType'
  BY <1>1, <1>3, <1>4, <1>5, <1>6 DEF TasksType
<1>8. \A j \in TwoTasks \ {k} : SameTask(j) /\ SameAsked(j)
  BY <1>1, <1>3, <1>4, <1>5 DEF SameTask, SameAsked
<1>9. SameStarts(k)
  BY <1>1 DEF SameStarts, Starts, Spawns
<1>10. (thread'[k].at = "None") = (thread[k].at = "None")
  BY <1>4 DEF TwoTasks
<1>11. FlagFits(k)' /\ RecordFits(k)' /\ Begun(k)' = Begun(k)
  BY <1>1, <1>3, <1>9, <1>10, QuietStep DEF TaskFits, RecordFits
<1>12. ASSUME k = "balance" PROVE BalanceFits'
  <2>1. 0 \notin cancelled["balance"]
    BY <1>12, GenerationIs DEF Tasks!Nobody
  <2> QED
    BY <1>1, <1>3, <1>4, <1>5, <1>11, <1>12, <2>1 DEF TaskFits, BalanceFits, Early, Tasks!Nobody
<1>13. ASSUME k = "defrag" PROVE DefragFits'
  BY <1>1, <1>3, <1>4, <1>5, <1>13 DEF TaskFits, DefragFits, Kills, Tasks!Nobody
<1> QED
  BY <1>7, <1>8, <1>11, <1>12, <1>13, OneTask DEF TaskFits

LEMMA CancelBalancePreserves ==
  ASSUME MaintenanceInv, NEW c \in Requesters, Tasks!CancelBalance(c)
  PROVE  MaintenanceInv'
<1> USE DEF MaintenanceInv
<1> DEFINE k == "balance"
<1>0. /\ k \in TwoTasks /\ asked[c].at = "None"
      /\ UNCHANGED <<running, thread, kernel, cancelled, done>>
  BY DEF Tasks!CancelBalance, Tasks!Free, TwoTasks
<1> DEFINE step == [at |-> "Cancel", early |-> task[k].phase = "Starting",
                    generation |-> task[k].generation]
<1>1. /\ Tasks!Asks(c, step)
      /\ task' = [task EXCEPT ![k].cancel = TRUE,
                    ![k].phase = IF @ \in {"Starting", "Running"} THEN "Cancelling" ELSE @]
  BY DEF Tasks!CancelBalance, Tasks!WasStarting
<1>2. /\ task' \in [TwoTasks -> TaskRecord] /\ \A j \in TwoTasks \ {k} : task'[j] = task[j]
      /\ task'[k].generation = task[k].generation /\ task'[k].cancel
      /\ task'[k].phase = IF task[k].phase \in {"Starting", "Running"} THEN "Cancelling" ELSE task[k].phase
  <2> DEFINE noted == [task EXCEPT ![k].cancel = TRUE]
             p == IF task[k].phase \in {"Starting", "Running"} THEN "Cancelling" ELSE task[k].phase
  <2>1. /\ noted \in [TwoTasks -> TaskRecord] /\ \A j \in TwoTasks \ {k} : noted[j] = task[j]
        /\ noted[k].generation = task[k].generation /\ noted[k].cancel
        /\ noted[k].phase = task[k].phase
    BY <1>0 DEF TasksType, TaskRecord
  <2>2. task' = [noted EXCEPT ![k].phase = p]
    BY <1>0, <1>1, <2>1
  <2>3. p \in TaskPhases
    BY <1>0 DEF TasksType, TaskRecord, TaskPhases
  <2> HIDE DEF noted, p
  <2>4. /\ task' \in [TwoTasks -> TaskRecord] /\ \A j \in TwoTasks \ {k} : task'[j] = noted[j]
        /\ task'[k].generation = noted[k].generation /\ task'[k].cancel = noted[k].cancel
        /\ task'[k].phase = p
    BY <1>0, <2>1, <2>2, <2>3 DEF TaskRecord
  <2> QED
    BY <1>0, <2>1, <2>4 DEF p
<1>3. step \in Asking
  BY <1>0, GenerationIs DEF Asking
<1>4. /\ asked' \in [Requesters -> Asking] /\ asked'[c] = step
      /\ \A d \in Requesters \ {c} : asked'[d] = asked[d]
  BY <1>1, <1>3, AskingBecomes
<1>5. TasksType'
  BY <1>0, <1>2, <1>4 DEF TasksType
<1>6. \A j \in TwoTasks \ {k} : SameTask(j) /\ SameAsked(j)
  BY <1>0, <1>2, <1>4 DEF SameTask, SameAsked, Concerns, TwoTasks
<1>7. SameStarts(k)
  BY <1>0, <1>4 DEF SameStarts, Starts, Spawns
<1>8. FlagFits(k)' /\ RecordFits(k)' /\ Begun(k)' = Begun(k)
  BY <1>0, <1>2, <1>7, QuietStep DEF TaskFits, RecordFits, Tasks!Active
<1>9. \A d \in Requesters : Early(d)' =>
         \/ d # c /\ Early(d) /\ asked'[d] = asked[d]
         \/ d = c /\ task[k].phase = "Starting" /\ asked'[d].generation = task[k].generation
  <2>1. /\ asked'[c].early = (task[k].phase = "Starting")
        /\ asked'[c].generation = task[k].generation
    BY <1>4
  <2> QED
    BY <1>4, <2>1 DEF Early
<1>10. task[k].phase = "Starting" => task[k].generation > 0 /\ thread[k].at \in {"None", "Begin"}
  BY <1>0 DEF TaskFits, BalanceFits, RecordFits, Tasks!Active
<1>11. BalanceFits'
  BY <1>0, <1>2, <1>8, <1>9, <1>10, GenerationIs DEF TaskFits, BalanceFits
<1> QED
  BY <1>0, <1>5, <1>6, <1>8, <1>11, OneTask DEF TaskFits

LEMMA CommandCancelPreserves ==
  ASSUME MaintenanceInv, NEW c \in Requesters, Tasks!CommandCancel(c)
  PROVE  MaintenanceInv'
<1> USE DEF MaintenanceInv
<1> DEFINE k == "balance"
<1>0. k \in TwoTasks /\ asked[c].at = "Cancel" /\ UNCHANGED <<running, task, done>>
  BY DEF Tasks!CommandCancel, TwoTasks
<1>1. Tasks!Asks(c, [at |-> "None"]) /\ [at |-> "None"] \in Asking
  BY DEF Tasks!CommandCancel, Tasks!Answered, Asking
<1>2. /\ asked' \in [Requesters -> Asking] /\ asked'[c].at = "None"
      /\ \A d \in Requesters \ {c} : asked'[d] = asked[d]
  BY <1>1, AskingBecomes
<1>3. SameStarts(k) /\ \A j \in TwoTasks \ {k} : SameAsked(j)
  BY <1>0, <1>2 DEF SameStarts, Starts, Spawns, SameAsked, Concerns
<1>4. \A d \in Requesters : Early(d)' => Early(d) /\ asked'[d] = asked[d]
  BY <1>2 DEF Early
<1>5. CASE /\ kernel[k] # 0 /\ kernel' = [kernel EXCEPT ![k] = 0]
           /\ thread' = IF thread[k].at = "Wait"
                        THEN [thread EXCEPT ![k] = [at |-> "End", ok |-> FALSE]] ELSE thread
           /\ cancelled' = [cancelled EXCEPT ![k] = @ \cup {kernel[k]}]
  <2>1. /\ kernel' \in [TwoTasks -> Nat] /\ kernel'[k] = 0
        /\ \A j \in TwoTasks \ {k} : kernel'[j] = kernel[j] /\ thread'[j] = thread[j] /\ cancelled'[j] = cancelled[j]
        /\ DOMAIN thread' = TwoTasks /\ DOMAIN cancelled' = TwoTasks
        /\ cancelled'[k] = cancelled[k] \cup {kernel[k]}
        /\ thread[k].at = "Wait" => thread'[k] \in [at : {"End"}, ok : {FALSE}]
        /\ thread[k].at # "Wait" => thread'[k] = thread[k]
    BY <1>0, <1>5 DEF TasksType
  <2>2. TasksType'
    BY <1>0, <1>2, <2>1 DEF TasksType, BalanceThread, TwoTasks
  <2>3. \A j \in TwoTasks \ {k} : SameTask(j)
    BY <1>0, <2>1 DEF SameTask
  <2>4. \/ thread[k].at = "Wait" /\ kernel[k] = task[k].generation
        \/ thread[k].at # "Wait" /\ kernel[k] = Tasks!Forgotten
    BY <1>0, <1>5 DEF TaskFits, BalanceFits, Tasks!Nobody
  <2>5. thread[k].at = "Wait" => task[k].generation > 0 /\ task[k].phase # "Finished"
    BY <1>0 DEF TaskFits, RecordFits, Begun
  <2>6. /\ task[k].generation \in 0 .. MostStarts /\ task[k].generation # Tasks!Forgotten
        /\ cancelled[k] \subseteq (1 .. task[k].generation) \cup {Tasks!Forgotten}
        /\ 0 \notin cancelled[k] /\ Tasks!Forgotten = MostStarts + 1
    BY <1>0, GenerationIs DEF Tasks!Nobody
  <2>7. /\ cancelled'[k] \subseteq (1 .. task[k].generation) \cup {Tasks!Forgotten}
        /\ task[k].phase = "Finished" => task[k].generation \notin cancelled'[k]
        /\ kernel'[k] \notin cancelled'[k]
    BY <1>0, <1>5, <2>1, <2>4, <2>5, <2>6 DEF TaskFits, RecordFits
  <2>8. (thread'[k].at = "None") = (thread[k].at = "None")
    BY <2>1
  <2>9. FlagFits(k)' /\ RecordFits(k)' /\ Begun(k)' = Begun(k)
    BY <1>0, <1>3, <2>7, <2>8, QuietStep
  <2>10. /\ thread'[k].at = "Wait" => kernel'[k] = task[k].generation
         /\ kernel'[k] \notin {0, Tasks!Forgotten} => thread'[k].at = "Wait"
         /\ task[k].phase = "Starting" => thread'[k].at \in {"None", "Begin"}
    BY <1>0, <2>1 DEF TaskFits, BalanceFits
  <2>11. \A d \in Requesters : Early(d)' =>
           /\ asked'[d].generation \in 1 .. task[k].generation
           /\ asked'[d].generation = task[k].generation =>
                task[k].cancel /\ task[k].phase # "Finished" /\ thread'[k].at \in {"None", "Begin"}
    BY <1>0, <1>4, <2>1 DEF TaskFits, BalanceFits
  <2>12. task[k].generation \in cancelled'[k] =>
           \/ task[k].cancel /\ thread'[k].at \in {"None", "Begin"}
           \/ thread'[k].at = "End" /\ ~thread'[k].ok
           \/ ~Begun(k)'
    BY <1>0, <2>1, <2>4, <2>6, <2>9 DEF TaskFits, BalanceFits
  <2>13. thread'[k].at = "End" /\ thread'[k].ok => task[k].generation \in done[k]
    BY <1>0, <2>1 DEF TaskFits, BalanceFits
  <2>14. BalanceFits'
    BY <1>0, <2>7, <2>10, <2>11, <2>12, <2>13 DEF BalanceFits, Tasks!Nobody
  <2> QED
    BY <1>0, <1>3, <2>2, <2>3, <2>9, <2>14, OneTask DEF TaskFits
<1>6. CASE /\ asked[c].early /\ UNCHANGED <<kernel, thread>>
           /\ cancelled' = [cancelled EXCEPT ![k] = @ \cup {asked[c].generation}]
           /\ kernel[k] = 0
  <2>1. /\ cancelled'[k] = cancelled[k] \cup {asked[c].generation} /\ DOMAIN cancelled' = TwoTasks
        /\ \A j \in TwoTasks \ {k} : cancelled'[j] = cancelled[j]
    BY <1>0, <1>6 DEF TasksType
  <2>2. TasksType'
    BY <1>0, <1>2, <1>6, <2>1 DEF TasksType
  <2>3. \A j \in TwoTasks \ {k} : SameTask(j)
    BY <1>0, <1>6, <2>1 DEF SameTask
  <2>4. /\ asked[c].generation \in 1 .. task[k].generation
        /\ asked[c].generation = task[k].generation =>
             task[k].cancel /\ task[k].phase # "Finished" /\ thread[k].at \in {"None", "Begin"}
    BY <1>0, <1>6 DEF TaskFits, BalanceFits, Early
  <2>5. FlagFits(k)' /\ RecordFits(k)' /\ Begun(k)' = Begun(k)
    BY <1>0, <1>3, <1>6, <2>1, <2>4, QuietStep DEF TaskFits, RecordFits
  <2>6. 0 \notin cancelled'[k]
    BY <1>0, <2>1, <2>4, GenerationIs DEF Tasks!Nobody
  <2>7. BalanceFits'
    BY <1>0, <1>4, <1>6, <2>1, <2>4, <2>5, <2>6 DEF TaskFits, BalanceFits
  <2> QED
    BY <1>0, <1>3, <2>2, <2>3, <2>5, <2>7, OneTask DEF TaskFits
<1>7. CASE UNCHANGED <<kernel, thread, cancelled>>
  <2>1. TasksType'
    BY <1>0, <1>2, <1>7 DEF TasksType
  <2>2. \A j \in TwoTasks \ {k} : SameTask(j)
    BY <1>0, <1>7 DEF SameTask
  <2>3. FlagFits(k)' /\ RecordFits(k)' /\ Begun(k)' = Begun(k)
    BY <1>0, <1>3, <1>7, QuietStep DEF TaskFits, RecordFits
  <2>4. BalanceFits'
    BY <1>0, <1>4, <1>7, <2>3 DEF TaskFits, BalanceFits
  <2> QED
    BY <1>0, <1>3, <2>1, <2>2, <2>3, <2>4, OneTask DEF TaskFits
<1> QED
  BY <1>5, <1>6, <1>7 DEF Tasks!CommandCancel, Tasks!Nobody

LEMMA SpawnDefragPreserves ==
  ASSUME MaintenanceInv, Tasks!SpawnDefrag
  PROVE  MaintenanceInv'
<1> USE DEF MaintenanceInv
<1> DEFINE k == "defrag"
<1>0. /\ k \in TwoTasks /\ thread[k].at = "Begin"
      /\ UNCHANGED <<running, task, asked, cancelled, done>>
  BY DEF Tasks!SpawnDefrag, TwoTasks
<1>1. task[k].generation \in Nat
  BY <1>0, GenerationIs
<1>2. /\ DOMAIN thread' = TwoTasks /\ \A j \in TwoTasks \ {k} : thread'[j] = thread[j]
      /\ kernel' \in [TwoTasks -> Nat] /\ \A j \in TwoTasks \ {k} : kernel'[j] = kernel[j]
      /\ \/ thread'[k] \in [at : {"Mark"}] /\ kernel'[k] = task[k].generation
         \/ thread'[k] \in [at : {"End"}, phase : {"Failed"}] /\ kernel' = kernel
  <2>1. CASE /\ kernel' = [kernel EXCEPT ![k] = task[k].generation]
             /\ Tasks!ThreadAt(k, "Mark")
    <3>1. /\ DOMAIN thread' = TwoTasks /\ thread'[k] \in [at : {"Mark"}]
          /\ \A j \in TwoTasks \ {k} : thread'[j] = thread[j]
      BY <1>0, <2>1, ThreadMoves
    <3>2. kernel' \in [TwoTasks -> Nat]
      BY <1>0, <1>1, <2>1 DEF TasksType
    <3> QED
      BY <1>0, <2>1, <3>1, <3>2 DEF TasksType
  <2>2. CASE /\ thread' = [thread EXCEPT ![k] = [at |-> "End", phase |-> "Failed"]]
             /\ UNCHANGED kernel
    BY <1>0, <2>2 DEF TasksType
  <2> QED
    BY <2>1, <2>2 DEF Tasks!SpawnDefrag
<1>3. TasksType'
  BY <1>0, <1>2 DEF TasksType, DefragThread, TwoTasks
<1>4. \A j \in TwoTasks \ {k} : SameTask(j) /\ SameAsked(j)
  BY <1>0, <1>2 DEF SameTask, SameAsked
<1>5. FlagFits(k)' /\ RecordFits(k)'
  BY <1>0, <1>2, ThreadStep, ThreadIsAlone
<1>6. DefragFits'
  BY <1>0, <1>2 DEF TaskFits, DefragFits, Kills
<1> QED
  BY <1>0, <1>3, <1>4, <1>5, <1>6, OneTask DEF TaskFits

LEMMA MarkDefragPreserves ==
  ASSUME MaintenanceInv, Tasks!MarkDefrag
  PROVE  MaintenanceInv'
<1> USE DEF MaintenanceInv
<1> DEFINE k == "defrag"
<1>0. /\ k \in TwoTasks /\ thread[k].at = "Mark"
      /\ UNCHANGED <<running, asked, cancelled, done>>
  BY DEF Tasks!MarkDefrag, TwoTasks
<1>1. /\ task' \in [TwoTasks -> TaskRecord] /\ \A j \in TwoTasks \ {k} : task'[j] = task[j]
      /\ task'[k].generation = task[k].generation /\ task'[k].cancel = task[k].cancel
      /\ task'[k].phase # "Finished" /\ task'[k].pid
  <2> DEFINE p == IF task[k].cancel THEN "Cancelling" ELSE "Running"
             noted == [task EXCEPT ![k].phase = p]
  <2>1. task' = [noted EXCEPT ![k].pid = TRUE]
    BY <1>0 DEF Tasks!MarkDefrag, TasksType
  <2>2. p \in TaskPhases \ {"Finished"}
    BY DEF TaskPhases
  <2>3. /\ noted \in [TwoTasks -> TaskRecord] /\ \A j \in TwoTasks \ {k} : noted[j] = task[j]
        /\ noted[k].generation = task[k].generation /\ noted[k].cancel = task[k].cancel
        /\ noted[k].phase = p
    BY <1>0, <2>2 DEF TasksType, TaskRecord
  <2> HIDE DEF noted, p
  <2>4. /\ task' \in [TwoTasks -> TaskRecord] /\ \A j \in TwoTasks \ {k} : task'[j] = noted[j]
        /\ task'[k].generation = noted[k].generation /\ task'[k].cancel = noted[k].cancel
        /\ task'[k].phase = noted[k].phase /\ task'[k].pid
    BY <1>0, <2>1, <2>3 DEF TaskRecord
  <2> QED
    BY <1>0, <2>2, <2>3, <2>4
<1>2. /\ DOMAIN thread' = TwoTasks /\ \A j \in TwoTasks \ {k} : thread'[j] = thread[j]
      /\ kernel' \in [TwoTasks -> Nat] /\ \A j \in TwoTasks \ {k} : kernel'[j] = kernel[j]
      /\ \/ /\ thread'[k] \in [at : {"Reap"}, ok : {task[k].generation \in done[k]}]
            /\ kernel'[k] = 0
         \/ ~task[k].cancel /\ kernel[k] # 0 /\ thread'[k] \in [at : {"Wait"}] /\ kernel' = kernel
  <2>1. CASE task[k].cancel \/ kernel[k] = 0
    <3>1. /\ kernel' = [kernel EXCEPT ![k] = 0]
          /\ thread' = [thread EXCEPT ![k] = [at |-> "Reap", ok |-> task[k].generation \in done[k]]]
      BY <2>1 DEF Tasks!MarkDefrag, Tasks!Nobody
    <3> QED
      BY <1>0, <3>1 DEF TasksType
  <2>2. CASE ~(task[k].cancel \/ kernel[k] = 0)
    BY <1>0, <2>2, ThreadMoves DEF Tasks!MarkDefrag, Tasks!Nobody, TasksType
  <2> QED
    BY <2>1, <2>2
<1>3. TasksType'
  <2>1. (task[k].generation \in done[k]) \in BOOLEAN
    OBVIOUS
  <2>2. thread'[k] \in [at : {"Wait"}] \cup [at : {"Reap"}, ok : BOOLEAN]
    BY <1>2, <2>1
  <2>3. thread'["defrag"] \in DefragThread /\ thread'["balance"] \in BalanceThread
    BY <1>2, <2>2 DEF DefragThread, TasksType, TwoTasks
  <2> QED
    BY <1>0, <1>1, <1>2, <2>3 DEF TasksType
<1>4. \A j \in TwoTasks \ {k} : SameTask(j) /\ SameAsked(j)
  BY <1>0, <1>1, <1>2 DEF SameTask, SameAsked
<1>5. FlagFits(k)' /\ RecordFits(k)'
  BY <1>0, <1>1, <1>2, ThreadStep, ThreadIsAlone
<1>6. DefragFits'
  BY <1>0, <1>1, <1>2 DEF TaskFits, DefragFits, Kills, Tasks!Nobody
<1> QED
  BY <1>0, <1>3, <1>4, <1>5, <1>6, OneTask DEF TaskFits

LEMMA ReapDefragPreserves ==
  ASSUME MaintenanceInv, Tasks!ReapDefrag
  PROVE  MaintenanceInv'
<1> USE DEF MaintenanceInv
<1> DEFINE k == "defrag"
<1>0. /\ k \in TwoTasks /\ thread[k].at = "Reap"
      /\ UNCHANGED <<running, task, kernel, asked, cancelled, done>>
  BY DEF Tasks!ReapDefrag, TwoTasks
<1>1. PICK p \in {"Finished", "Failed", "Cancelled"} :
        /\ thread' = [thread EXCEPT ![k] = [at |-> "End", phase |-> p]]
        /\ p = "Finished" => ~task[k].cancel /\ thread[k].ok
  BY DEF Tasks!ReapDefrag
<1>2. /\ DOMAIN thread' = TwoTasks /\ \A j \in TwoTasks \ {k} : thread'[j] = thread[j]
      /\ thread'[k] \in [at : {"End"}, phase : {p}]
  BY <1>0, <1>1 DEF TasksType
<1>3. TasksType'
  BY <1>0, <1>2 DEF TasksType, DefragThread, TwoTasks
<1>4. \A j \in TwoTasks \ {k} : SameTask(j) /\ SameAsked(j)
  BY <1>0, <1>2 DEF SameTask, SameAsked
<1>5. FlagFits(k)' /\ RecordFits(k)'
  BY <1>0, <1>2, ThreadStep, ThreadIsAlone
<1>6. DefragFits'
  BY <1>0, <1>1, <1>2 DEF TaskFits, DefragFits, Kills
<1> QED
  BY <1>0, <1>3, <1>4, <1>5, <1>6, OneTask DEF TaskFits

LEMMA EndDefragPreserves ==
  ASSUME MaintenanceInv, Tasks!EndDefrag
  PROVE  MaintenanceInv'
<1> USE DEF MaintenanceInv
<1> DEFINE k == "defrag"
<1>0. /\ k \in TwoTasks /\ thread[k].at = "End"
      /\ UNCHANGED <<kernel, asked, cancelled, done>>
  BY DEF Tasks!EndDefrag, TwoTasks
<1>1. thread[k].phase \in {"Finished", "Failed", "Cancelled"}
  BY <1>0 DEF TasksType, DefragThread
<1>2. /\ task' \in [TwoTasks -> TaskRecord] /\ \A j \in TwoTasks \ {k} : task'[j] = task[j]
      /\ task'[k].generation = task[k].generation /\ task'[k].cancel = task[k].cancel
      /\ task'[k].phase = thread[k].phase
  <2> DEFINE noted == [task EXCEPT ![k].phase = thread[k].phase]
  <2>1. task' = [noted EXCEPT ![k].pid = FALSE]
    BY DEF Tasks!EndDefrag
  <2>2. /\ noted \in [TwoTasks -> TaskRecord] /\ \A j \in TwoTasks \ {k} : noted[j] = task[j]
        /\ noted[k].generation = task[k].generation /\ noted[k].cancel = task[k].cancel
        /\ noted[k].phase = thread[k].phase
    BY <1>0, <1>1 DEF TasksType, TaskRecord, TaskPhases
  <2> HIDE DEF noted
  <2>3. /\ task' \in [TwoTasks -> TaskRecord] /\ \A j \in TwoTasks \ {k} : task'[j] = noted[j]
        /\ task'[k].generation = noted[k].generation /\ task'[k].cancel = noted[k].cancel
        /\ task'[k].phase = noted[k].phase
    BY <1>0, <2>1, <2>2 DEF TaskRecord
  <2> QED
    BY <1>0, <2>2, <2>3
<1>3. /\ DOMAIN thread' = TwoTasks /\ \A j \in TwoTasks \ {k} : thread'[j] = thread[j]
      /\ running' \in [TwoTasks -> BOOLEAN] /\ \A j \in TwoTasks \ {k} : running'[j] = running[j]
      /\ thread'[k] \in [at : {"None"}] /\ ~running'[k]
  <2>1. /\ running' = [running EXCEPT ![k] = FALSE]
        /\ thread' = [thread EXCEPT ![k] = [at |-> "None"]]
    BY DEF Tasks!EndDefrag, Tasks!Lower, Tasks!NoThread
  <2> QED
    BY <1>0, <2>1 DEF TasksType
<1>4. TasksType'
  BY <1>0, <1>2, <1>3 DEF TasksType, DefragThread, TwoTasks
<1>5. \A j \in TwoTasks \ {k} : SameTask(j) /\ SameAsked(j)
  BY <1>0, <1>2, <1>3 DEF SameTask, SameAsked
<1>6. thread[k].phase = "Finished" => task[k].generation \in done[k] \ cancelled[k]
  BY <1>0 DEF TaskFits, DefragFits
<1>7. FlagFits(k)' /\ RecordFits(k)'
  BY <1>0, <1>2, <1>3, <1>6, ThreadStep
<1>8. DefragFits'
  BY <1>0, <1>2, <1>3 DEF TaskFits, DefragFits, Kills
<1> QED
  BY <1>0, <1>4, <1>5, <1>7, <1>8, OneTask DEF TaskFits

LEMMA CancelDefragPreserves ==
  ASSUME MaintenanceInv, NEW c \in Requesters, Tasks!CancelDefrag(c)
  PROVE  MaintenanceInv'
<1> USE DEF MaintenanceInv
<1> DEFINE k == "defrag"
           step == [at |-> "Kill", generation |-> task[k].generation]
<1>0. /\ k \in TwoTasks /\ asked[c].at = "None" /\ task[k].phase \in Tasks!Active
      /\ UNCHANGED <<running, thread, kernel, done>>
  BY DEF Tasks!CancelDefrag, Tasks!Free, TwoTasks
<1>1. /\ task' \in [TwoTasks -> TaskRecord] /\ \A j \in TwoTasks \ {k} : task'[j] = task[j]
      /\ task'[k].generation = task[k].generation /\ task'[k].cancel
      /\ task'[k].phase = "Cancelling" /\ task'[k].pid = task[k].pid
  <2> DEFINE noted == [task EXCEPT ![k].cancel = TRUE]
  <2>1. task' = [noted EXCEPT ![k].phase = "Cancelling"]
    BY DEF Tasks!CancelDefrag
  <2>2. /\ noted \in [TwoTasks -> TaskRecord] /\ \A j \in TwoTasks \ {k} : noted[j] = task[j]
        /\ noted[k].generation = task[k].generation /\ noted[k].cancel /\ noted[k].pid = task[k].pid
    BY <1>0 DEF TasksType, TaskRecord
  <2> HIDE DEF noted
  <2>3. /\ task' \in [TwoTasks -> TaskRecord] /\ \A j \in TwoTasks \ {k} : task'[j] = noted[j]
        /\ task'[k].generation = noted[k].generation /\ task'[k].cancel = noted[k].cancel
        /\ task'[k].phase = "Cancelling" /\ task'[k].pid = noted[k].pid
    BY <1>0, <2>1, <2>2 DEF TaskRecord, TaskPhases
  <2> QED
    BY <1>0, <2>2, <2>3
<1>2. step \in Asking
  BY <1>0, GenerationIs DEF Asking
<1>3. /\ asked' \in [Requesters -> Asking]
      /\ \A d \in Requesters \ {c} : asked'[d] = asked[d]
      /\ DOMAIN cancelled' = TwoTasks /\ \A j \in TwoTasks \ {k} : cancelled'[j] = cancelled[j]
      /\ \/ asked'[c] = step /\ cancelled' = cancelled /\ task[k].pid
         \/ asked' = asked /\ cancelled'[k] = cancelled[k] \cup {task[k].generation} /\ ~task[k].pid
  <2>1. CASE task[k].pid
    <3>1. Tasks!Asks(c, step) /\ UNCHANGED cancelled
      BY <2>1 DEF Tasks!CancelDefrag
    <3> QED
      BY <1>2, <2>1, <3>1, AskingBecomes DEF TasksType
  <2>2. CASE ~task[k].pid
    <3>1. asked' = asked /\ cancelled' = [cancelled EXCEPT ![k] = @ \cup {task[k].generation}]
      BY <2>2 DEF Tasks!CancelDefrag
    <3> QED
      BY <1>0, <2>2, <3>1 DEF TasksType
  <2> QED
    BY <2>1, <2>2
<1>4. TasksType'
  BY <1>0, <1>1, <1>3 DEF TasksType
<1>5. \A j \in TwoTasks \ {k} : SameTask(j) /\ SameAsked(j)
  <2>1. asked'[c] = asked[c] \/ asked'[c].at = "Kill"
    BY <1>3
  <2> QED
    BY <1>0, <1>1, <1>3, <2>1 DEF SameTask, SameAsked, Concerns
<1>6. SameStarts(k)
  <2>1. asked'[c] = asked[c] \/ asked'[c].at = "Kill"
    BY <1>3
  <2> QED
    BY <1>0, <1>3, <2>1 DEF SameStarts, Starts, Spawns
<1>7. task[k].generation > 0 /\ task[k].phase # "Finished"
  BY <1>0 DEF TaskFits, RecordFits, Tasks!Active
<1>8. cancelled'[k] \subseteq (1 .. task[k].generation) \cup {Tasks!Forgotten}
  BY <1>0, <1>3, <1>7, GenerationIs
<1>9. FlagFits(k)' /\ RecordFits(k)'
  BY <1>0, <1>1, <1>6, <1>7, <1>8, QuietStep
<1>10. \A d \in Requesters : Kills(d)' =>
         \/ Kills(d) /\ asked'[d] = asked[d]
         \/ asked'[d].generation = task[k].generation
  BY <1>3 DEF Kills
<1>11. \A d \in Requesters : Kills(d)' => asked'[d].generation \in 1 .. task[k].generation
  BY <1>0, <1>7, <1>10, GenerationIs DEF TaskFits, DefragFits
<1>12. DefragFits'
  BY <1>0, <1>1, <1>3, <1>11 DEF TaskFits, DefragFits
<1> QED
  BY <1>0, <1>4, <1>5, <1>9, <1>12, OneTask DEF TaskFits

LEMMA KillPreserves ==
  ASSUME MaintenanceInv, NEW c \in Requesters, Tasks!KillDefrag(c)
  PROVE  MaintenanceInv'
<1> USE DEF MaintenanceInv
<1> DEFINE k == "defrag"
<1>0. k \in TwoTasks /\ asked[c].at = "Kill" /\ UNCHANGED <<running, task, done>>
  BY DEF Tasks!KillDefrag, TwoTasks
<1>1. Tasks!Asks(c, [at |-> "None"]) /\ [at |-> "None"] \in Asking
  BY DEF Tasks!KillDefrag, Tasks!Answered, Asking
<1>2. /\ asked' \in [Requesters -> Asking] /\ asked'[c].at = "None"
      /\ \A d \in Requesters \ {c} : asked'[d] = asked[d]
  BY <1>1, AskingBecomes
<1>3. SameStarts(k) /\ \A j \in TwoTasks \ {k} : SameAsked(j)
  BY <1>0, <1>2 DEF SameStarts, Starts, Spawns, SameAsked, Concerns
<1>4. \A d \in Requesters : Kills(d)' => Kills(d) /\ asked'[d] = asked[d]
  BY <1>2 DEF Kills
<1>5. CASE /\ thread[k].at \in {"Wait", "Reap"} /\ task[k].generation = asked[c].generation
           /\ kernel' = [kernel EXCEPT ![k] = 0]
           /\ thread' = IF thread[k].at = "Wait"
                        THEN [thread EXCEPT ![k] = [at |-> "Reap", ok |-> FALSE]] ELSE thread
           /\ cancelled' = [cancelled EXCEPT ![k] = @ \cup {asked[c].generation}]
  <2>1. /\ kernel' \in [TwoTasks -> Nat] /\ kernel'[k] = 0
        /\ \A j \in TwoTasks \ {k} : kernel'[j] = kernel[j] /\ thread'[j] = thread[j] /\ cancelled'[j] = cancelled[j]
        /\ DOMAIN thread' = TwoTasks /\ DOMAIN cancelled' = TwoTasks
        /\ cancelled'[k] = cancelled[k] \cup {task[k].generation}
        /\ \/ thread'[k] \in [at : {"Reap"}, ok : {FALSE}]
           \/ thread[k].at = "Reap" /\ thread'[k] = thread[k]
    BY <1>0, <1>5 DEF TasksType
  <2>2. TasksType'
    BY <1>0, <1>2, <2>1 DEF TasksType, DefragThread, TwoTasks
  <2>3. \A j \in TwoTasks \ {k} : SameTask(j)
    BY <1>0, <2>1 DEF SameTask
  <2>4. task[k].generation > 0 /\ task[k].phase # "Finished"
    BY <1>0, <1>5, ThreadIsAlone
  <2>5. task[k].cancel /\ task[k].pid
    BY <1>0, <1>5 DEF TaskFits, DefragFits, Kills
  <2>6. cancelled'[k] \subseteq (1 .. task[k].generation) \cup {Tasks!Forgotten}
    BY <1>0, <2>1, <2>4, GenerationIs
  <2>7. (thread'[k].at = "None") = (thread[k].at = "None")
    BY <1>5, <2>1
  <2>8. FlagFits(k)' /\ RecordFits(k)'
    BY <1>0, <1>3, <2>4, <2>6, <2>7, QuietStep
  <2>9. DefragFits'
    BY <1>0, <1>4, <2>1, <2>5 DEF TaskFits, DefragFits, Tasks!Nobody
  <2> QED
    BY <1>0, <1>3, <2>2, <2>3, <2>8, <2>9, OneTask DEF TaskFits
<1>6. CASE UNCHANGED <<kernel, thread, cancelled>>
  <2>1. TasksType'
    BY <1>0, <1>2, <1>6 DEF TasksType
  <2>2. \A j \in TwoTasks \ {k} : SameTask(j)
    BY <1>0, <1>6 DEF SameTask
  <2>3. FlagFits(k)' /\ RecordFits(k)'
    BY <1>0, <1>3, <1>6, QuietStep DEF TaskFits, RecordFits
  <2>4. DefragFits'
    BY <1>0, <1>4, <1>6 DEF TaskFits, DefragFits
  <2> QED
    BY <1>0, <1>3, <2>1, <2>2, <2>3, <2>4, OneTask DEF TaskFits
<1> QED
  BY <1>5, <1>6 DEF Tasks!KillDefrag, Tasks!Nobody

LEMMA ServiceEndPreserves ==
  ASSUME MaintenanceInv, Tasks!ServiceEnds
  PROVE  MaintenanceInv'
<1> USE DEF TwoTasks
<1>1. /\ running' = [k \in TwoTasks |-> FALSE] /\ asked' = [c \in Requesters |-> [at |-> "None"]]
      /\ thread' = [k \in TwoTasks |-> [at |-> "None"]]
      /\ cancelled' = [k \in TwoTasks |-> {}] /\ done' = [k \in TwoTasks |-> {}]
      /\ kernel' = [balance |-> IF kernel["balance"] = 0 THEN 0 ELSE Tasks!Forgotten, defrag |-> 0]
  BY DEF Tasks!ServiceEnds, Tasks!Tasks, Tasks!NoThread, Tasks!Nobody
<1>2. /\ DOMAIN task' = TwoTasks
      /\ \A k \in TwoTasks : task'[k] \in TaskRecord /\ task'[k].generation = 0 /\ task'[k].phase = "Idle"
  BY IdleRecord DEF Tasks!ServiceEnds, Tasks!Tasks
<1>3. TasksType'
  <2>1. task' \in [TwoTasks -> TaskRecord]
    BY <1>2 DEF Tasks!ServiceEnds, Tasks!Tasks
  <2>2. asked' \in [Requesters -> Asking]
    BY <1>1 DEF Asking
  <2>3. thread'["balance"] \in BalanceThread /\ thread'["defrag"] \in DefragThread
    BY <1>1 DEF BalanceThread, DefragThread
  <2>4. kernel' \in [TwoTasks -> Nat]
    BY <1>1, StartsBounded DEF Tasks!Forgotten
  <2> QED
    BY <1>1, <2>1, <2>2, <2>3, <2>4 DEF TasksType
<1>4. ASSUME NEW k \in TwoTasks PROVE FlagFits(k)' /\ RecordFits(k)'
  BY <1>1, <1>2 DEF FlagFits, RecordFits, Starts, Spawns, Begun, Tasks!Active
<1>5. BalanceFits'
  BY <1>1, <1>2, StartsBounded DEF BalanceFits, Early, Begun, Spawns, Tasks!Nobody
<1>6. DefragFits'
  BY <1>1, <1>2 DEF DefragFits, Kills, Tasks!Nobody
<1> QED
  BY <1>3, <1>4, <1>5, <1>6 DEF MaintenanceInv, TaskFits

LEMMA MaintenanceKeeps == MaintenanceInv /\ Tasks!Next => MaintenanceInv'
<1> SUFFICES ASSUME MaintenanceInv, Tasks!Next PROVE MaintenanceInv'
  OBVIOUS
<1>1. Tasks!Tasks = TwoTasks
  BY DEF Tasks!Tasks, TwoTasks
<1> QED
  BY <1>1, ClaimPreserves, ResetPreserves, SpawnPreserves, FailPreserves, BeginBalancePreserves,
     CommandBalancePreserves, EndBalancePreserves, KernelPreserves, CancelBalancePreserves,
     CommandCancelPreserves, SpawnDefragPreserves, MarkDefragPreserves, ReapDefragPreserves,
     EndDefragPreserves, CancelDefragPreserves, KillPreserves, ServiceEndPreserves
     DEF Tasks!Next

LEMMA MaintenanceThen == MaintenanceInv => Tasks!MaintenanceIsHonest
<1> SUFFICES ASSUME MaintenanceInv PROVE Tasks!MaintenanceIsHonest
  OBVIOUS
<1> USE DEF MaintenanceInv
<1>0. Tasks!Tasks = TwoTasks
  BY DEF Tasks!Tasks, TwoTasks
<1>1. ASSUME NEW k \in TwoTasks, kernel[k] \in cancelled[k] PROVE thread[k].at = "Mark"
  <2>1. CASE k = "balance"
    BY <1>1, <2>1 DEF TaskFits, BalanceFits
  <2>2. CASE k = "defrag"
    BY <1>1, <2>2, GenerationIs DEF TaskFits, DefragFits
  <2> QED
    BY <2>1, <2>2 DEF TwoTasks
<1>2. ASSUME NEW k \in TwoTasks, task[k].phase = "Finished"
      PROVE  task[k].generation \in done[k] \ cancelled[k]
  BY <1>2 DEF TaskFits, RecordFits
<1>3. Tasks!CancelledStaysCancelled
  BY <1>0, <1>1, <1>2 DEF Tasks!CancelledStaysCancelled
<1>4. ASSUME NEW k \in TwoTasks
      PROVE  LET starters == {c \in Requesters : asked[c].at \in {"Claimed", "Spawn"} /\ asked[c].task = k}
             IN /\ running[k] <=> (starters # {} \/ thread[k] # Tasks!NoThread)
                /\ Tasks!Cardinality(starters) <= 1 /\ (starters # {} => thread[k] = Tasks!NoThread)
  <2> DEFINE starters == {c \in Requesters : Starts(c, k)}
  <2>1. thread[k] = Tasks!NoThread <=> thread[k].at = "None"
    BY DEF TasksType, BalanceThread, DefragThread, TwoTasks, Tasks!NoThread
  <2>2. /\ running[k] <=> (starters # {} \/ thread[k].at # "None")
        /\ starters # {} => thread[k].at = "None"
    BY DEF TaskFits, FlagFits
  <2>3. starters = {} \/ \E c \in Requesters : starters = {c}
    BY DEF TaskFits, FlagFits
  <2>4. Cardinality(starters) <= 1
    BY <2>3, FS_EmptySet, FS_Singleton
  <2>5. Tasks!Cardinality(starters) <= 1
    BY <2>4, Zenon DEF Cardinality, Tasks!Cardinality
  <2> QED
    BY <2>1, <2>2, <2>5 DEF Starts
<1>5. Tasks!FlagIsTrue
  BY <1>0, <1>4 DEF Tasks!FlagIsTrue
<1> QED
  BY <1>3, <1>5 DEF Tasks!MaintenanceIsHonest

LEMMA MaintenanceRests == MaintenanceInv /\ UNCHANGED ofTasks => MaintenanceInv'
BY DEF ofTasks, MaintenanceInv, TasksType, TaskFits, FlagFits, RecordFits, BalanceFits, DefragFits,
       Starts, Spawns, Begun, Early, Kills

\* While no balance or defragmentation runs in the helper, nothing of theirs changes.
MaintenanceBeside == program = "maintenance" => MaintenanceInv

LEMMA MaintenanceBesideHolds == ProgramSpec => []MaintenanceBeside
<1>1. ProgramInit => MaintenanceBeside
  BY MaintenanceStarts DEF ProgramInit, MaintenanceBeside
<1>2. MaintenanceBeside /\ [ProgramNext]_programVars => MaintenanceBeside'
  <2> SUFFICES ASSUME MaintenanceBeside, [ProgramNext]_programVars PROVE MaintenanceBeside'
    OBVIOUS
  <2>1. CASE ProgramNext
    <3>1. program' = program /\ (program = "maintenance" => Tasks!Next)
      BY <2>1 DEF ProgramNext
    <3> QED
      BY <3>1, MaintenanceKeeps DEF MaintenanceBeside
  <2>2. CASE UNCHANGED programVars
    <3>1. program' = program /\ UNCHANGED ofTasks
      BY <2>2 DEF programVars
    <3> QED
      BY <3>1, MaintenanceRests DEF MaintenanceBeside
  <2> QED
    BY <2>1, <2>2
<1> QED
  BY <1>1, <1>2, PTL DEF ProgramSpec

\* Whatever calls start, cancel and ask at once, and however the helper is restarted under a
\* balance: one task of a kind runs at a time, one that was cancelled is never reported as
\* completed, and one that is was completed by the kernel for that very start.
THEOREM MaintenanceAlwaysHonest == ProgramSpec => []MaintenanceIsHonest
<1>1. MaintenanceBeside => MaintenanceIsHonest
  BY MaintenanceThen DEF MaintenanceBeside, MaintenanceIsHonest
<1> QED
  BY <1>1, MaintenanceBesideHolds, PTL

(*****************************************************************************)
(* The swap file and the stress test (SwapControl).                          *)
(*****************************************************************************)
Contents == 0 .. MostGiB + 1
HelperStages == {"Idle", "Enable", "SwapOff", "Remove", "Room", "Build", "Retire", "Aside", "Switch",
                 "Activate", "Restore", "Settle", "Release", "Rebuild", "List", "Unlist", "UnlistAndDelete", "Delete"}
SwapHelper == [at : HelperStages, want : Contents, old : Contents, wasActive : BOOLEAN]
StressTest == [shows : {"Idle", "Running", "Results"}, flag : BOOLEAN, pressed : BOOLEAN, cancelled : BOOLEAN,
               thread : {"None", "Allocating", "Holding", "Releasing", "Sent"}]

SwapType ==
  /\ file \in [main : Contents, fresh : Contents, backup : Contents]
  /\ active \in BOOLEAN /\ listed \in BOOLEAN
  /\ helper \in SwapHelper
  /\ stress \in StressTest
  /\ page \in [busy : BOOLEAN, shown : Contents, slider : Contents]
  /\ entrusted \in Contents

\* The page is busy as long as the helper runs, and a replacement is asked for
\* only where the kernel does not resume from the file.
PageWaits ==
  /\ helper.at # "Idle" => page.busy
  /\ helper.at \in {"Room", "Build", "Retire"} => file.main = 0 \/ ~disk.resumes
  /\ helper.at \in {"Room", "Build", "Retire", "Release", "Rebuild"} => helper.want \in Swap!Sizes
  /\ page.slider \in Swap!Sizes \cup {page.shown, 0}

\* Where the previous file is at each step of a replacement.
BackupFits ==
  /\ IF helper.at \in {"Build", "Retire", "Aside"}
       THEN entrusted = file.main /\ file.backup = 0 ELSE entrusted = file.backup
  /\ helper.at \in {"Release", "Rebuild"} => file.backup = 0
  /\ helper.at \in {"Retire", "Aside", "Switch"} => file.fresh \in Swap!Sizes
  /\ helper.at \in {"Activate", "Settle"} => file.main \in Swap!Sizes
  /\ helper.at \in {"Switch", "Restore"} => file.main = 0
  /\ helper.at \in {"Aside", "Switch", "Activate", "Restore", "UnlistAndDelete", "Delete"} => ~active
  /\ helper.at = "Aside" /\ helper.wasActive => file.main \in Swap!Sizes
  /\ helper.at \in {"Switch", "Activate", "Restore"} /\ helper.wasActive => file.backup \in Swap!Sizes

FlagIsPressed ==
  /\ (stress.shows = "Running") = (stress.thread # "None")
  /\ stress.flag \/ stress.cancelled => stress.pressed

SwapInv ==
  /\ SwapType /\ PageWaits /\ BackupFits /\ FlagIsPressed
  /\ Swap!SwapsToAFile /\ Swap!ResumeTargetStays

LEMMA SwapBounds == MostGiB \in Nat \ {0}
BY ProgramsConstants DEF Swap!SwapConstants

LEMMA IdleTypes ==
  /\ Swap!IdleHelper \in SwapHelper /\ Swap!IdleHelper.at = "Idle"
  /\ Swap!IdleTest \in StressTest /\ Swap!IdleTest.shows = "Idle" /\ Swap!IdleTest.thread = "None"
  /\ ~Swap!IdleTest.flag /\ ~Swap!IdleTest.pressed /\ ~Swap!IdleTest.cancelled
BY SwapBounds DEF Swap!IdleHelper, Swap!IdleTest, SwapHelper, StressTest, HelperStages, Contents

LEMMA SizesAreContents == Swap!Sizes \subseteq Contents /\ 0 \in Contents /\ 0 \notin Swap!Sizes /\ Swap!Blank \in Contents
BY SwapBounds DEF Swap!Sizes, Contents, Swap!Blank

LEMMA PageOf ==
  ASSUME NEW m \in Contents, NEW b \in BOOLEAN
  PROVE  /\ [busy |-> b, shown |-> m, slider |-> m] \in [busy : BOOLEAN, shown : Contents, slider : Contents]
         /\ [busy |-> b, shown |-> m, slider |-> m].slider = [busy |-> b, shown |-> m, slider |-> m].shown
OBVIOUS

LEMMA SwapStarts == Swap!Init => SwapInv
<1> SUFFICES ASSUME Swap!Init PROVE SwapInv
  OBVIOUS
<1>1. PICK m \in Swap!Sizes \cup {0} :
        /\ file = [main |-> m, fresh |-> 0, backup |-> 0]
        /\ active \in (IF m = 0 THEN {FALSE} ELSE BOOLEAN) /\ listed = active
        /\ page = [busy |-> FALSE, shown |-> m, slider |-> m]
  BY DEF Swap!Init, Swap!NoFile
<1>2. helper = Swap!IdleHelper /\ stress = Swap!IdleTest /\ entrusted = 0
  BY DEF Swap!Init
<1>3. m \in Contents /\ 0 \in Contents
  BY SizesAreContents
<1>4. /\ file \in [main : Contents, fresh : Contents, backup : Contents]
      /\ file.main = m /\ file.backup = 0
  BY <1>1, <1>3
<1>5. page \in [busy : BOOLEAN, shown : Contents, slider : Contents] /\ page.slider = page.shown
  BY <1>1, <1>3, PageOf
<1>6. active \in BOOLEAN /\ listed \in BOOLEAN /\ (active => m \in Swap!Sizes)
  BY <1>1
<1>7. SwapType
  BY <1>2, <1>3, <1>4, <1>5, <1>6, IdleTypes DEF SwapType
<1>8. PageWaits /\ BackupFits /\ FlagIsPressed
  BY <1>2, <1>4, <1>5, IdleTypes DEF PageWaits, BackupFits, FlagIsPressed
<1>9. Swap!SwapsToAFile /\ Swap!ResumeTargetStays
  BY <1>2, <1>4, <1>6 DEF Swap!SwapsToAFile, Swap!ResumeTargetStays
<1> QED
  BY <1>7, <1>8, <1>9 DEF SwapInv

LEMMA HelperGoes ==
  ASSUME NEW h \in SwapHelper, NEW s \in HelperStages
  PROVE  /\ [h EXCEPT !.at = s] \in SwapHelper /\ [h EXCEPT !.at = s].at = s
         /\ [h EXCEPT !.at = s].want = h.want /\ [h EXCEPT !.at = s].old = h.old
         /\ [h EXCEPT !.at = s].wasActive = h.wasActive
BY DEF SwapHelper

\* The helper's run ends: what it leaves behind as a backup was the previous file.
LEMMA EndsWell ==
  ASSUME SwapInv, Swap!Ends,
         file' \in [main : Contents, fresh : Contents, backup : Contents],
         file'.backup = 0 \/ file'.backup = entrusted,
         active' \in BOOLEAN, listed' \in BOOLEAN, active' => file'.main \in Swap!Sizes,
         UNCHANGED <<disk, stress>>
  PROVE  SwapInv'
<1>1. /\ helper' = Swap!IdleHelper
      /\ page' = [busy |-> FALSE, shown |-> file'.main, slider |-> file'.main]
      /\ entrusted' = IF file'.backup = 0 THEN 0 ELSE entrusted
  BY DEF Swap!Ends, Swap!Settled, Swap!NoFile
<1>2. file'.main \in Contents /\ file'.backup \in Contents
  OBVIOUS
<1>3. page' \in [busy : BOOLEAN, shown : Contents, slider : Contents] /\ page'.slider = page'.shown
  BY <1>1, <1>2, PageOf
<1>4. entrusted' = file'.backup /\ entrusted' \in Contents /\ helper'.at = "Idle"
  BY <1>1, <1>2, IdleTypes
<1>5. SwapType'
  BY <1>1, <1>3, <1>4, IdleTypes DEF SwapInv, SwapType
<1>6. PageWaits' /\ BackupFits'
  BY <1>3, <1>4 DEF PageWaits, BackupFits
<1>7. FlagIsPressed' /\ Swap!SwapsToAFile'
  BY DEF SwapInv, FlagIsPressed, Swap!SwapsToAFile
<1>8. Swap!ResumeTargetStays'
  BY <1>1 DEF SwapInv, Swap!ResumeTargetStays
<1> QED
  BY <1>5, <1>6, <1>7, <1>8 DEF SwapInv

LEMMA PagePreserves ==
  ASSUME SwapInv, Swap!MoveSlider \/ Swap!ToggleSwap \/ Swap!ApplySize \/ Swap!RemoveFile
  PROVE  SwapInv'
<1> USE DEF SwapInv
<1>1. CASE Swap!MoveSlider
  <2>1. /\ UNCHANGED <<file, active, listed, helper, entrusted, disk, stress>> /\ ~page.busy
        /\ \E z \in Swap!Sizes \cup {0} : page' = [page EXCEPT !.slider = z]
    BY <1>1 DEF Swap!MoveSlider, Swap!RestUnchanged
  <2>2. PICK z \in Swap!Sizes \cup {0} : page' = [page EXCEPT !.slider = z]
    BY <2>1
  <2>3. page' \in [busy : BOOLEAN, shown : Contents, slider : Contents] /\ page'.slider = z /\ page'.busy = page.busy
    BY <2>2, SizesAreContents DEF SwapType
  <2>4. SwapType' /\ PageWaits'
    BY <2>1, <2>3 DEF SwapType, PageWaits
  <2> QED
    BY <2>1, <2>4 DEF BackupFits, FlagIsPressed, Swap!SwapsToAFile, Swap!ResumeTargetStays
<1>2. ASSUME NEW s \in {"SwapOff", "Enable", "Remove", "Room"}, NEW w \in Contents, Swap!RunHelper(s, w),
             s = "Room" => w \in Swap!Sizes /\ (file.main = 0 \/ ~disk.resumes)
      PROVE  SwapInv'
  <2>1. /\ UNCHANGED <<file, active, listed, entrusted, disk, stress>>
        /\ page' = [page EXCEPT !.busy = TRUE] /\ helper.at = "Idle"
        /\ helper' = [[Swap!IdleHelper EXCEPT !.at = s] EXCEPT !.want = w]
    <3>1. helper' = [Swap!IdleHelper EXCEPT !.at = s, !.want = w]
      BY <1>2 DEF Swap!RunHelper
    <3> QED
      BY <1>2, <3>1 DEF Swap!RunHelper, Swap!RestUnchanged
  <2>2. page' \in [busy : BOOLEAN, shown : Contents, slider : Contents]
        /\ page'.slider = page.slider /\ page'.shown = page.shown /\ page'.busy
    BY <2>1 DEF SwapType
  <2>3. helper' \in SwapHelper /\ helper'.at = s /\ helper'.want = w
    <3> DEFINE q == [Swap!IdleHelper EXCEPT !.at = s]
    <3>1. s \in HelperStages
      BY <1>2 DEF HelperStages
    <3>2. q \in SwapHelper /\ q.at = s
      BY <3>1, IdleTypes, HelperGoes
    <3> HIDE DEF q
    <3>3. [q EXCEPT !.want = w] \in SwapHelper /\ [q EXCEPT !.want = w].at = s /\ [q EXCEPT !.want = w].want = w
      BY <3>2 DEF SwapHelper
    <3> QED
      BY <2>1, <3>3 DEF q
  <2>4. SwapType'
    BY <2>1, <2>2, <2>3 DEF SwapType
  <2>5. PageWaits'
    BY <1>2, <2>1, <2>2, <2>3 DEF PageWaits
  <2>6. BackupFits'
    BY <1>2, <2>1, <2>3 DEF BackupFits
  <2> QED
    BY <2>1, <2>4, <2>5, <2>6 DEF FlagIsPressed, Swap!SwapsToAFile, Swap!ResumeTargetStays
<1> HIDE DEF SwapInv
<1>3. CASE Swap!ToggleSwap
  BY <1>2, <1>3, SizesAreContents DEF Swap!ToggleSwap
<1>4. CASE Swap!RemoveFile
  BY <1>2, <1>4, SizesAreContents DEF Swap!RemoveFile
<1>5. CASE Swap!ApplySize
  <2>1. page.slider # page.shown /\ (file.main = 0 \/ ~disk.resumes)
    BY <1>5 DEF Swap!ApplySize, Swap!IsResumeTarget, Swap!NoFile
  <2>2. page.slider \in Contents /\ (page.slider # 0 => page.slider \in Swap!Sizes)
    BY <2>1, SizesAreContents DEF SwapInv, SwapType, PageWaits
  <2>3. CASE page.slider = 0
    <3>1. Swap!RunHelper("Remove", 0)
      BY <1>5, <2>3 DEF Swap!ApplySize
    <3> QED
      BY <1>2, <3>1, SizesAreContents
  <2>4. CASE page.slider # 0
    <3>1. Swap!RunHelper("Room", page.slider)
      BY <1>5, <2>4 DEF Swap!ApplySize
    <3> QED
      BY <1>2, <2>1, <2>2, <2>4, <3>1
  <2> QED
    BY <2>3, <2>4
<1> QED
  BY <1>1, <1>3, <1>4, <1>5

\* A step of the helper within its run.
LEMMA RunGoes ==
  ASSUME SwapInv, helper' \in SwapHelper, helper.at \notin {"Idle", "Room"},
         helper'.at \notin {"Idle", "Room"},
         helper'.want = helper.want,
         file' \in [main : Contents, fresh : Contents, backup : Contents],
         active' \in BOOLEAN, listed' \in BOOLEAN, active' => file'.main \in Swap!Sizes,
         UNCHANGED <<disk, stress, page, entrusted>>,
         helper'.at = "Retire" => helper.at = "Build" /\ UNCHANGED file,
         helper'.at \notin {"Build", "Release"}, helper'.at = "Rebuild" => helper.at = "Release",
         BackupFits'
  PROVE  SwapInv'
<1> USE DEF SwapInv
<1>1. SwapType'
  BY DEF SwapType
<1>2. PageWaits'
  BY DEF PageWaits
<1>3. FlagIsPressed' /\ Swap!SwapsToAFile' /\ Swap!ResumeTargetStays'
  BY DEF FlagIsPressed, Swap!SwapsToAFile, Swap!ResumeTargetStays
<1> QED
  BY <1>1, <1>2, <1>3

LEMMA RoomPreserves ==
  ASSUME SwapInv, Swap!CheckRoom
  PROVE  SwapInv'
<1>1. helper.at = "Room" /\ UNCHANGED <<file, active, listed, disk, stress>>
  BY DEF Swap!CheckRoom, Swap!RestUnchanged
<1>2. /\ entrusted = file.backup /\ file \in [main : Contents, fresh : Contents, backup : Contents]
      /\ active \in BOOLEAN /\ listed \in BOOLEAN /\ (active => file.main \in Swap!Sizes)
      /\ helper \in SwapHelper /\ helper.want \in Swap!Sizes /\ (file.main = 0 \/ ~disk.resumes) /\ page.busy
      /\ SwapType /\ PageWaits /\ FlagIsPressed /\ Swap!ResumeTargetStays
  BY <1>1 DEF SwapInv, SwapType, BackupFits, Swap!SwapsToAFile, PageWaits
<1>3. CASE Swap!Ends
  BY <1>1, <1>2, <1>3, EndsWell
<1>4. CASE ~Swap!Ends
  <2>1. /\ file.backup = 0 /\ UNCHANGED page
        /\ \/ helper' = [helper EXCEPT !.at = "Build", !.old = file.main] /\ entrusted' = file.main
           \/ file.main # 0 /\ helper' = [helper EXCEPT !.at = "Release", !.old = file.main] /\ UNCHANGED entrusted
    BY <1>4 DEF Swap!CheckRoom, Swap!NoFile
  <2>2. /\ helper' \in SwapHelper /\ helper'.want = helper.want
        /\ \/ helper'.at = "Build" /\ entrusted' = file.main
           \/ helper'.at = "Release" /\ UNCHANGED entrusted
    <3>1. ASSUME NEW s \in {"Build", "Release"}, helper' = [helper EXCEPT !.at = s, !.old = file.main]
          PROVE  helper' \in SwapHelper /\ helper'.want = helper.want /\ helper'.at = s
      <4> DEFINE q == [helper EXCEPT !.at = s]
      <4>0. s \in HelperStages
        BY DEF HelperStages
      <4>1. q \in SwapHelper /\ q.at = s /\ q.want = helper.want
        BY <1>2, <4>0, HelperGoes
      <4>2. helper' = [q EXCEPT !.old = file.main]
        BY <3>1
      <4> HIDE DEF q
      <4> QED
        BY <1>2, <4>1, <4>2 DEF SwapHelper
    <3> QED
      BY <2>1, <3>1
  <2>3. SwapType'
    BY <1>1, <1>2, <2>1, <2>2, SizesAreContents DEF SwapType
  <2>4. PageWaits' /\ BackupFits'
    BY <1>1, <1>2, <2>1, <2>2 DEF PageWaits, BackupFits
  <2>5. FlagIsPressed' /\ Swap!SwapsToAFile' /\ Swap!ResumeTargetStays'
    BY <1>1, <1>2, <2>2 DEF FlagIsPressed, Swap!SwapsToAFile, Swap!ResumeTargetStays
  <2> QED
    BY <2>3, <2>4, <2>5 DEF SwapInv
<1> QED
  BY <1>3, <1>4

LEMMA FileFields ==
  ASSUME NEW f \in [main : Contents, fresh : Contents, backup : Contents], NEW c \in Contents
  PROVE  /\ [f EXCEPT !.main = c] \in [main : Contents, fresh : Contents, backup : Contents]
         /\ [f EXCEPT !.fresh = c] \in [main : Contents, fresh : Contents, backup : Contents]
         /\ [f EXCEPT !.backup = c] \in [main : Contents, fresh : Contents, backup : Contents]
         /\ [f EXCEPT !.main = c].main = c /\ [f EXCEPT !.main = c].fresh = f.fresh /\ [f EXCEPT !.main = c].backup = f.backup
         /\ [f EXCEPT !.fresh = c].main = f.main /\ [f EXCEPT !.fresh = c].fresh = c /\ [f EXCEPT !.fresh = c].backup = f.backup
         /\ [f EXCEPT !.backup = c].main = f.main /\ [f EXCEPT !.backup = c].fresh = f.fresh /\ [f EXCEPT !.backup = c].backup = c
OBVIOUS

LEMMA SwapFacts ==
  ASSUME SwapInv
  PROVE  /\ file \in [main : Contents, fresh : Contents, backup : Contents]
         /\ file.main \in Contents /\ file.fresh \in Contents /\ file.backup \in Contents
         /\ active \in BOOLEAN /\ listed \in BOOLEAN /\ (active => file.main \in Swap!Sizes)
         /\ helper \in SwapHelper /\ BackupFits /\ PageWaits
BY DEF SwapInv, SwapType, Swap!SwapsToAFile

LEMMA SwitchingPreserves ==
  ASSUME SwapInv, Swap!Enable \/ Swap!List \/ Swap!Disable \/ Swap!Unlist
  PROVE  SwapInv'
<1>1. /\ UNCHANGED <<file, disk, stress>>
      /\ helper.at \in {"Enable", "List", "SwapOff", "Remove", "Unlist", "UnlistAndDelete"}
  BY DEF Swap!Enable, Swap!List, Swap!Disable, Swap!Unlist, Swap!RestUnchanged
<1>2. entrusted = file.backup
  BY <1>1, SwapFacts DEF BackupFits
<1>3. active' \in BOOLEAN /\ listed' \in BOOLEAN /\ (active' => file'.main \in Swap!Sizes)
  <2>1. CASE Swap!Enable
    <3>1. file' = file /\ listed' = listed /\ (active' = active \/ (active' = TRUE /\ file.main \in Swap!Sizes))
      BY <2>1 DEF Swap!Enable
    <3>2. CASE active' = active
      BY <3>1, <3>2, SwapFacts
    <3>3. CASE active' = TRUE /\ file.main \in Swap!Sizes
      BY <3>1, <3>3, SwapFacts
    <3> QED
      BY <3>1, <3>2, <3>3
  <2>2. CASE Swap!List
    BY <1>1, <2>2, SwapFacts DEF Swap!List
  <2>3. CASE Swap!Disable
    BY <1>1, <2>3, SwapFacts DEF Swap!Disable
  <2>4. CASE Swap!Unlist
    BY <1>1, <2>4, SwapFacts DEF Swap!Unlist
  <2> QED
    BY <2>1, <2>2, <2>3, <2>4
<1>4. CASE Swap!Ends
  BY <1>1, <1>2, <1>3, <1>4, SwapFacts, EndsWell
<1>5. CASE ~Swap!Ends
  <2>1. PICK s \in {"List", "Unlist", "UnlistAndDelete", "Delete"} :
          /\ helper' = [helper EXCEPT !.at = s] /\ UNCHANGED <<page, entrusted>>
          /\ s \in {"UnlistAndDelete", "Delete"} => ~active'
    <3>1. CASE Swap!Enable
      BY <1>5, <3>1 DEF Swap!Enable, Swap!Goes
    <3>2. CASE Swap!List
      BY <1>5, <3>2 DEF Swap!List
    <3>3. CASE Swap!Disable
      BY <1>5, <3>3 DEF Swap!Disable, Swap!Goes
    <3>4. CASE Swap!Unlist
      <4>1. helper.at = "UnlistAndDelete" /\ helper' = [helper EXCEPT !.at = "Delete"] /\ UNCHANGED <<page, entrusted, active>>
        BY <1>5, <3>4 DEF Swap!Unlist, Swap!Goes
      <4> QED
        BY <4>1, SwapFacts DEF BackupFits
    <3> QED
      BY <3>1, <3>2, <3>3, <3>4
  <2>2. helper' \in SwapHelper /\ helper'.at = s /\ helper'.want = helper.want
    <3>1. s \in HelperStages /\ helper \in SwapHelper
      BY <2>1, SwapFacts DEF HelperStages
    <3>2. helper' = [helper EXCEPT !.at = s]
      BY <2>1
    <3> QED
      BY <3>1, <3>2, HelperGoes
  <2>3. BackupFits'
    BY <1>1, <1>2, <2>1, <2>2 DEF BackupFits
  <2> QED
    BY <1>1, <1>3, <2>1, <2>2, <2>3, SwapFacts, RunGoes
<1> QED
  BY <1>4, <1>5

LEMMA DeletePreserves ==
  ASSUME SwapInv, Swap!Delete
  PROVE  SwapInv'
<1>1. /\ Swap!Ends /\ UNCHANGED <<active, listed, disk, stress>> /\ helper.at = "Delete"
      /\ UNCHANGED file \/ file' = [file EXCEPT !.main = 0]
  BY DEF Swap!Delete, Swap!RestUnchanged, Swap!Holds, Swap!NoFile
<1>2. entrusted = file.backup /\ ~active
  BY <1>1, SwapFacts DEF BackupFits
<1>3. file' \in [main : Contents, fresh : Contents, backup : Contents] /\ file'.backup = file.backup
  BY <1>1, SwapFacts, FileFields, SizesAreContents
<1> QED
  BY <1>1, <1>2, <1>3, SwapFacts, EndsWell

LEMMA BuildPreserves ==
  ASSUME SwapInv, Swap!Build
  PROVE  SwapInv'
<1>1. helper.at = "Build" /\ UNCHANGED <<active, listed, disk, stress>>
  BY DEF Swap!Build, Swap!RestUnchanged
<1>2. PICK c \in Contents : file' = [file EXCEPT !.fresh = c] /\
        \/ c = helper.want /\ helper' = [helper EXCEPT !.at = "Retire"] /\ UNCHANGED <<page, entrusted>>
        \/ Swap!Ends
  BY SwapFacts, SizesAreContents DEF Swap!Build, Swap!Holds, Swap!Goes, Swap!NoFile, SwapHelper
<1>3. /\ file' \in [main : Contents, fresh : Contents, backup : Contents]
      /\ file'.main = file.main /\ file'.backup = 0 /\ file'.fresh = c
  BY <1>1, <1>2, SwapFacts, FileFields DEF BackupFits
<1>4. CASE Swap!Ends
  BY <1>1, <1>3, <1>4, SwapFacts, EndsWell
<1>5. CASE c = helper.want /\ helper' = [helper EXCEPT !.at = "Retire"] /\ UNCHANGED <<page, entrusted>>
  <2>1. helper' \in SwapHelper /\ helper'.at = "Retire" /\ helper'.want = helper.want
    BY <1>5, SwapFacts, HelperGoes DEF HelperStages
  <2>2. SwapType'
    BY <1>1, <1>3, <1>5, <2>1 DEF SwapInv, SwapType
  <2>3. PageWaits' /\ BackupFits'
    BY <1>1, <1>3, <1>5, <2>1, SwapFacts DEF PageWaits, BackupFits
  <2>4. FlagIsPressed' /\ Swap!SwapsToAFile' /\ Swap!ResumeTargetStays'
    BY <1>1, <1>3, <1>5, <2>1 DEF SwapInv, FlagIsPressed, Swap!SwapsToAFile, Swap!ResumeTargetStays
  <2> QED
    BY <2>2, <2>3, <2>4 DEF SwapInv
<1> QED
  BY <1>2, <1>4, <1>5

LEMMA RetirePreserves ==
  ASSUME SwapInv, Swap!Retire
  PROVE  SwapInv'
<1>1. helper.at = "Retire" /\ UNCHANGED <<listed, disk, stress>>
  BY DEF Swap!Retire, Swap!RestUnchanged
<1>2. CASE Swap!Ends
  <2>1. UNCHANGED file \/ file' = [file EXCEPT !.fresh = 0]
    BY DEF Swap!Retire, Swap!Holds, Swap!NoFile
  <2>2. active' = FALSE \/ active' = active
    BY DEF Swap!Retire
  <2>3. /\ file' \in [main : Contents, fresh : Contents, backup : Contents]
        /\ file'.main = file.main /\ file'.backup = 0
    BY <1>1, <2>1, SwapFacts, FileFields, SizesAreContents DEF BackupFits
  <2>4. active' \in BOOLEAN /\ (active' => file'.main \in Swap!Sizes) /\ listed' \in BOOLEAN
    <3>1. CASE active' = FALSE
      BY <1>1, <3>1, SwapFacts
    <3>2. CASE active' = active
      BY <1>1, <2>3, <3>2, SwapFacts
    <3> QED
      BY <2>2, <3>1, <3>2
  <2> QED
    BY <1>1, <1>2, <2>3, <2>4, SwapFacts, EndsWell
<1>3. CASE ~Swap!Ends
  <2>1. /\ active' = FALSE /\ helper' = [helper EXCEPT !.at = "Aside", !.wasActive = active]
        /\ UNCHANGED <<file, page, entrusted>>
    BY <1>3 DEF Swap!Retire
  <2>2. /\ helper' \in SwapHelper /\ helper'.at = "Aside" /\ helper'.want = helper.want /\ (helper'.wasActive => active)
    <3> DEFINE q == [helper EXCEPT !.at = "Aside"]
    <3>1. q \in SwapHelper /\ q.at = "Aside" /\ q.want = helper.want
      BY SwapFacts, HelperGoes DEF HelperStages
    <3>2. helper' = [q EXCEPT !.wasActive = active]
      BY <2>1
    <3> HIDE DEF q
    <3> QED
      BY <3>1, <3>2, SwapFacts DEF SwapHelper
  <2>3. BackupFits'
    BY <1>1, <2>1, <2>2, SwapFacts DEF BackupFits
  <2> QED
    BY <1>1, <2>1, <2>2, <2>3, SwapFacts, RunGoes
<1> QED
  BY <1>2, <1>3

LEMMA MovesPreserve ==
  ASSUME SwapInv, Swap!MoveAside \/ Swap!SwitchPath \/ Swap!Activate
  PROVE  SwapInv'
<1>1. UNCHANGED <<listed, page, entrusted, disk, stress>>
  BY DEF Swap!MoveAside, Swap!SwitchPath, Swap!Activate, Swap!RestUnchanged
<1>2. CASE Swap!MoveAside
  <2>1. /\ helper.at = "Aside" /\ helper' = [helper EXCEPT !.at = "Switch"] /\ UNCHANGED active
        /\ \/ file.main = 0 /\ UNCHANGED file
           \/ file' = [[file EXCEPT !.main = 0] EXCEPT !.backup = file.main]
    <3>1. file.main # 0 => file' = [file EXCEPT !.main = 0, !.backup = file.main]
      BY <1>2 DEF Swap!MoveAside, Swap!NoFile
    <3>2. [file EXCEPT !.main = 0, !.backup = file.main] = [[file EXCEPT !.main = 0] EXCEPT !.backup = file.main]
      OBVIOUS
    <3> QED
      BY <1>2, <3>1, <3>2 DEF Swap!MoveAside, Swap!Goes, Swap!NoFile
  <2>2. helper' \in SwapHelper /\ helper'.at = "Switch" /\ helper'.want = helper.want /\ helper'.wasActive = helper.wasActive
    BY <2>1, SwapFacts, HelperGoes DEF HelperStages
  <2>3. entrusted = file.main /\ file.backup = 0 /\ ~active /\ file.fresh \in Swap!Sizes
        /\ (helper.wasActive => file.main \in Swap!Sizes)
    BY <2>1, SwapFacts DEF BackupFits
  <2>4. /\ file' \in [main : Contents, fresh : Contents, backup : Contents]
        /\ file'.main = 0 /\ file'.backup = file.main /\ file'.fresh = file.fresh
    <3> DEFINE f == [file EXCEPT !.main = 0]
    <3>1. f \in [main : Contents, fresh : Contents, backup : Contents] /\ f.main = 0 /\ f.fresh = file.fresh
      BY SwapFacts, FileFields, SizesAreContents
    <3>2. (UNCHANGED file /\ file.main = 0) \/ file' = [f EXCEPT !.backup = file.main]
      BY <2>1
    <3> HIDE DEF f
    <3> QED
      BY <2>3, <3>1, <3>2, SwapFacts, FileFields
  <2>5. BackupFits'
    BY <1>1, <2>1, <2>2, <2>3, <2>4, SizesAreContents DEF BackupFits
  <2> QED
    BY <1>1, <2>1, <2>2, <2>3, <2>4, <2>5, SwapFacts, RunGoes
<1>3. CASE Swap!SwitchPath
  <2>1. /\ helper.at = "Switch" /\ helper' = [helper EXCEPT !.at = "Activate"] /\ UNCHANGED active
        /\ file' = [[file EXCEPT !.main = file.fresh] EXCEPT !.fresh = 0]
    <3>1. file' = [file EXCEPT !.main = file.fresh, !.fresh = 0]
      BY <1>3 DEF Swap!SwitchPath, Swap!NoFile
    <3> QED
      BY <1>3, <3>1 DEF Swap!SwitchPath, Swap!Goes
  <2>2. helper' \in SwapHelper /\ helper'.at = "Activate" /\ helper'.want = helper.want /\ helper'.wasActive = helper.wasActive
    BY <2>1, SwapFacts, HelperGoes DEF HelperStages
  <2>3. entrusted = file.backup /\ ~active /\ file.fresh \in Swap!Sizes
        /\ (helper.wasActive => file.backup \in Swap!Sizes)
    BY <2>1, SwapFacts DEF BackupFits
  <2>4. /\ file' \in [main : Contents, fresh : Contents, backup : Contents]
        /\ file'.main = file.fresh /\ file'.backup = file.backup
    <3> DEFINE f == [file EXCEPT !.main = file.fresh]
    <3>1. f \in [main : Contents, fresh : Contents, backup : Contents] /\ f.main = file.fresh /\ f.backup = file.backup
      BY SwapFacts, FileFields
    <3>2. file' = [f EXCEPT !.fresh = 0]
      BY <2>1
    <3> HIDE DEF f
    <3> QED
      BY <3>1, <3>2, FileFields, SizesAreContents
  <2>5. BackupFits'
    BY <1>1, <2>1, <2>2, <2>3, <2>4 DEF BackupFits
  <2> QED
    BY <1>1, <2>1, <2>2, <2>3, <2>4, <2>5, SwapFacts, RunGoes
<1>4. CASE Swap!Activate
  <2>1. /\ helper.at = "Activate" /\ entrusted = file.backup /\ ~active /\ file.main \in Swap!Sizes
        /\ (helper.wasActive => file.backup \in Swap!Sizes)
    BY <1>4, SwapFacts DEF BackupFits, Swap!Activate
  <2>2. CASE active' = TRUE /\ helper' = [helper EXCEPT !.at = "Settle"] /\ UNCHANGED file
    <3>1. helper' \in SwapHelper /\ helper'.at = "Settle" /\ helper'.want = helper.want
      BY <2>2, SwapFacts, HelperGoes DEF HelperStages
    <3>2. BackupFits'
      BY <1>1, <2>1, <2>2, <3>1 DEF BackupFits
    <3> QED
      BY <1>1, <2>1, <2>2, <3>1, <3>2, SwapFacts, RunGoes
  <2>3. CASE helper' = [helper EXCEPT !.at = "Restore"] /\ file' = [file EXCEPT !.main = 0] /\ UNCHANGED active
    <3>1. /\ helper' \in SwapHelper /\ helper'.at = "Restore" /\ helper'.want = helper.want
          /\ helper'.wasActive = helper.wasActive
      BY <2>3, SwapFacts, HelperGoes DEF HelperStages
    <3>2. /\ file' \in [main : Contents, fresh : Contents, backup : Contents]
          /\ file'.main = 0 /\ file'.backup = file.backup
      BY <2>3, SwapFacts, FileFields, SizesAreContents
    <3>3. BackupFits'
      BY <1>1, <2>1, <2>3, <3>1, <3>2 DEF BackupFits
    <3> QED
      BY <1>1, <2>1, <2>3, <3>1, <3>2, <3>3, SwapFacts, RunGoes
  <2> QED
    BY <1>4, <2>2, <2>3 DEF Swap!Activate, Swap!Goes, Swap!Holds, Swap!NoFile
<1> QED
  BY <1>2, <1>3, <1>4

LEMMA LastStepsPreserve ==
  ASSUME SwapInv, Swap!Restore \/ Swap!Settle \/ Swap!Rebuild
  PROVE  SwapInv'
<1>1. /\ UNCHANGED <<disk, stress, listed>> /\ helper.at \in {"Restore", "Settle", "Rebuild"}
  BY DEF Swap!Restore, Swap!Settle, Swap!Rebuild, Swap!RestUnchanged
<1>2. CASE Swap!Restore
  <2>1. /\ helper.at = "Restore" /\ Swap!Ends
        /\ file' = [[file EXCEPT !.main = file.backup] EXCEPT !.backup = 0]
        /\ active' \in (IF helper.wasActive THEN BOOLEAN ELSE {FALSE})
    <3>1. file' = [file EXCEPT !.main = file.backup, !.backup = 0]
      BY <1>2 DEF Swap!Restore, Swap!NoFile
    <3> QED
      BY <1>2, <3>1 DEF Swap!Restore
  <2>2. /\ file' \in [main : Contents, fresh : Contents, backup : Contents]
        /\ file'.main = file.backup /\ file'.backup = 0
    <3> DEFINE f == [file EXCEPT !.main = file.backup]
    <3>1. f \in [main : Contents, fresh : Contents, backup : Contents] /\ f.main = file.backup
      BY SwapFacts, FileFields
    <3>2. file' = [f EXCEPT !.backup = 0]
      BY <2>1
    <3> HIDE DEF f
    <3> QED
      BY <3>1, <3>2, FileFields, SizesAreContents
  <2>3. active' \in BOOLEAN /\ (active' => file'.main \in Swap!Sizes)
    BY <2>1, <2>2, SwapFacts DEF BackupFits
  <2> QED
    BY <1>1, <2>1, <2>2, <2>3, SwapFacts, EndsWell
<1>3. CASE Swap!Settle
  <2>1. helper.at = "Settle" /\ UNCHANGED active /\ file.main \in Swap!Sizes /\ entrusted = file.backup
    BY <1>3, SwapFacts DEF Swap!Settle, BackupFits
  <2>2. CASE UNCHANGED file /\ Swap!Ends
    BY <1>1, <2>1, <2>2, SwapFacts, EndsWell
  <2>3. CASE /\ file' = [file EXCEPT !.backup = 0] /\ helper' = [helper EXCEPT !.at = "List"]
             /\ Swap!Settled /\ UNCHANGED page
    <3>1. /\ file' \in [main : Contents, fresh : Contents, backup : Contents]
          /\ file'.main = file.main /\ file'.backup = 0
      BY <2>3, SwapFacts, FileFields, SizesAreContents
    <3>2. helper' \in SwapHelper /\ helper'.at = "List" /\ helper'.want = helper.want
      BY <2>3, SwapFacts, HelperGoes DEF HelperStages
    <3>3. entrusted' = 0
      BY <2>3, <3>1 DEF Swap!Settled, Swap!NoFile
    <3>4. SwapType'
      BY <1>1, <2>1, <2>3, <3>1, <3>2, <3>3, SizesAreContents DEF SwapInv, SwapType
    <3>5. PageWaits' /\ BackupFits'
      BY <1>1, <2>1, <2>3, <3>1, <3>2, <3>3, SwapFacts DEF PageWaits, BackupFits
    <3>6. FlagIsPressed' /\ Swap!SwapsToAFile' /\ Swap!ResumeTargetStays'
      BY <1>1, <2>1, <3>1, <3>3 DEF SwapInv, FlagIsPressed, Swap!SwapsToAFile, Swap!ResumeTargetStays
    <3> QED
      BY <3>4, <3>5, <3>6 DEF SwapInv
  <2> QED
    BY <1>3, <2>2, <2>3 DEF Swap!Settle, Swap!Holds, Swap!Goes, Swap!NoFile
<1>4. CASE Swap!Rebuild
  <2>1. PICK c \in Contents :
          /\ file' = [file EXCEPT !.main = c] /\ helper.at = "Rebuild"
          /\ \/ /\ c = helper.want /\ active' = TRUE /\ helper' = [helper EXCEPT !.at = "List"]
                /\ UNCHANGED <<page, entrusted>>
             \/ Swap!Ends /\ active' \in (IF c \in Swap!Sizes /\ helper.wasActive THEN BOOLEAN ELSE {FALSE})
    BY <1>4, SwapFacts, SizesAreContents DEF Swap!Rebuild, Swap!Holds, Swap!Goes, Swap!NoFile, SwapHelper
  <2>2. /\ file' \in [main : Contents, fresh : Contents, backup : Contents]
        /\ file'.main = c /\ file'.backup = 0 /\ entrusted = file.backup
    BY <2>1, SwapFacts, FileFields DEF BackupFits
  <2>3. helper.want \in Swap!Sizes
    BY <2>1, SwapFacts DEF PageWaits
  <2>4. active' \in BOOLEAN /\ listed' \in BOOLEAN /\ (active' => c \in Swap!Sizes)
    BY <1>1, <2>1, <2>3, SwapFacts
  <2>5. CASE Swap!Ends
    BY <1>1, <2>2, <2>4, <2>5, EndsWell
  <2>6. CASE helper' = [helper EXCEPT !.at = "List"] /\ UNCHANGED <<page, entrusted>>
    <3>1. helper' \in SwapHelper /\ helper'.at = "List" /\ helper'.want = helper.want
      BY <2>6, SwapFacts, HelperGoes DEF HelperStages
    <3>2. BackupFits'
      BY <2>1, <2>2, <2>6, <3>1, SwapFacts DEF BackupFits
    <3> QED
      BY <1>1, <2>1, <2>2, <2>4, <2>6, <3>1, <3>2, RunGoes
  <2> QED
    BY <2>1, <2>5, <2>6
<1> QED
  BY <1>2, <1>3, <1>4

LEMMA ReleasePreserves ==
  ASSUME SwapInv, Swap!Release
  PROVE  SwapInv'
<1>1. /\ helper.at = "Release" /\ UNCHANGED <<listed, entrusted, disk, stress>>
      /\ entrusted = file.backup /\ file.backup = 0
  BY SwapFacts DEF Swap!Release, Swap!RestUnchanged, BackupFits
<1>2. CASE active' = FALSE /\ Swap!Holds("main", Swap!NoFile)
           /\ helper' = [helper EXCEPT !.at = "Rebuild", !.wasActive = active] /\ UNCHANGED page
  <2>1. helper' \in SwapHelper /\ helper'.at = "Rebuild" /\ helper'.want = helper.want
    <3> DEFINE q == [helper EXCEPT !.at = "Rebuild"]
    <3>1. q \in SwapHelper /\ q.at = "Rebuild" /\ q.want = helper.want
      BY SwapFacts, HelperGoes DEF HelperStages
    <3>2. helper' = [q EXCEPT !.wasActive = active]
      BY <1>2
    <3> HIDE DEF q
    <3> QED
      BY <3>1, <3>2, SwapFacts DEF SwapHelper
  <2>2. /\ file' \in [main : Contents, fresh : Contents, backup : Contents]
        /\ file'.main = 0 /\ file'.backup = file.backup
    BY <1>2, SwapFacts, FileFields, SizesAreContents DEF Swap!Holds, Swap!NoFile
  <2>3. BackupFits'
    BY <1>1, <1>2, <2>1, <2>2 DEF BackupFits
  <2> QED
    BY <1>1, <1>2, <2>1, <2>2, <2>3, SwapFacts, RunGoes
<1>3. CASE /\ UNCHANGED <<file, active>> /\ helper' = Swap!IdleHelper
           /\ page' = [busy |-> FALSE, shown |-> file.main, slider |-> file.main]
  <2>1. Swap!Ends
    BY <1>1, <1>3 DEF Swap!Ends, Swap!Settled, Swap!NoFile
  <2> QED
    BY <1>1, <1>3, <2>1, SwapFacts, EndsWell
<1> QED
  BY <1>2, <1>3 DEF Swap!Release

LEMMA CutPreserves ==
  ASSUME SwapInv, Swap!PowerCut
  PROVE  SwapInv'
<1>1. /\ UNCHANGED <<file, listed, disk>> /\ helper' = Swap!IdleHelper /\ stress' = Swap!IdleTest
      /\ active' \in (IF listed /\ file.main \in Swap!Sizes THEN BOOLEAN ELSE {FALSE})
      /\ page' = [busy |-> FALSE, shown |-> file.main, slider |-> file.main]
      /\ entrusted' = IF file'.backup = 0 THEN 0 ELSE entrusted
  BY DEF Swap!PowerCut, Swap!Settled, Swap!NoFile
<1>2. file.backup = 0 \/ file.backup = entrusted
  BY SwapFacts DEF BackupFits
<1>3. page' \in [busy : BOOLEAN, shown : Contents, slider : Contents] /\ page'.slider = page'.shown
  BY <1>1, SwapFacts, PageOf
<1>4. entrusted' = file'.backup /\ entrusted' \in Contents /\ helper'.at = "Idle"
  BY <1>1, <1>2, SwapFacts, IdleTypes
<1>5. active' \in BOOLEAN /\ (active' => file'.main \in Swap!Sizes)
  BY <1>1
<1>6. SwapType'
  BY <1>1, <1>3, <1>4, <1>5, IdleTypes, SwapFacts DEF SwapType
<1>7. PageWaits' /\ BackupFits' /\ FlagIsPressed' /\ Swap!SwapsToAFile'
  BY <1>1, <1>3, <1>4, <1>5, IdleTypes DEF PageWaits, BackupFits, FlagIsPressed, Swap!SwapsToAFile
<1>8. Swap!ResumeTargetStays'
  BY <1>1, <1>4, <1>2 DEF SwapInv, Swap!ResumeTargetStays
<1> QED
  BY <1>6, <1>7, <1>8 DEF SwapInv

\* zram and the stress test leave the file alone.
LEMMA BesidePreserves ==
  ASSUME SwapInv, Swap!FileUnchanged, stress' \in StressTest, FlagIsPressed'
  PROVE  SwapInv'
BY DEF Swap!FileUnchanged, SwapInv, SwapType, PageWaits, BackupFits, Swap!SwapsToAFile, Swap!ResumeTargetStays

LEMMA TestPreserves ==
  ASSUME SwapInv, Swap!StartTest \/ Swap!CancelTest \/ Swap!RunStressTest \/ Swap!ShowResults \/ Swap!RunAgain
  PROVE  SwapInv'
<1>1. Swap!FileUnchanged /\ stress \in StressTest /\ FlagIsPressed
  BY DEF Swap!StartTest, Swap!CancelTest, Swap!RunStressTest, Swap!ShowResults, Swap!RunAgain, Swap!Tests,
         SwapInv, SwapType
<1>2. CASE Swap!StartTest
  <2>1. stress' = [[Swap!IdleTest EXCEPT !.shows = "Running"] EXCEPT !.thread = "Allocating"]
    BY <1>2 DEF Swap!StartTest, Swap!Tests, Swap!IdleTest
  <2>2. stress' \in StressTest /\ FlagIsPressed'
    BY <2>1 DEF Swap!IdleTest, StressTest, FlagIsPressed
  <2> QED
    BY <1>1, <2>2, BesidePreserves
<1>3. CASE Swap!CancelTest
  <2>1. stress' = [stress EXCEPT !.flag = TRUE, !.pressed = TRUE] /\ stress.shows = "Running"
    BY <1>3 DEF Swap!CancelTest, Swap!Tests
  <2>2. stress' \in StressTest /\ FlagIsPressed'
    BY <1>1, <2>1 DEF StressTest, FlagIsPressed
  <2> QED
    BY <1>1, <2>2, BesidePreserves
<1>4. CASE Swap!RunStressTest
  <2>1. \/ stress' = [stress EXCEPT !.thread = "Sent", !.cancelled = TRUE] /\ stress.flag /\ stress.thread # "None"
        \/ \E s \in {"Holding", "Releasing", "Sent"} : stress' = [stress EXCEPT !.thread = s] /\ stress.thread # "None"
    BY <1>4 DEF Swap!RunStressTest, Swap!Tests
  <2>2. stress' \in StressTest /\ FlagIsPressed'
    BY <1>1, <2>1 DEF StressTest, FlagIsPressed
  <2> QED
    BY <1>1, <2>2, BesidePreserves
<1>5. CASE Swap!ShowResults
  <2>1. stress' = [stress EXCEPT !.shows = "Results", !.thread = "None", !.flag = FALSE]
    BY <1>5 DEF Swap!ShowResults, Swap!Tests
  <2>2. stress' \in StressTest /\ FlagIsPressed'
    BY <1>1, <2>1 DEF StressTest, FlagIsPressed
  <2> QED
    BY <1>1, <2>2, BesidePreserves
<1>6. CASE Swap!RunAgain
  <2>1. stress' \in StressTest /\ FlagIsPressed'
    BY <1>6, IdleTypes DEF Swap!RunAgain, Swap!Tests, FlagIsPressed
  <2> QED
    BY <1>1, <2>1, BesidePreserves
<1> QED
  BY <1>2, <1>3, <1>4, <1>5, <1>6

LEMMA SwapKeeps == SwapInv /\ Swap!Next => SwapInv'
<1>1. SwapInv /\ (Swap!CreateDevice \/ Swap!DestroyDevice) => SwapInv'
  <2> SUFFICES ASSUME SwapInv, Swap!CreateDevice \/ Swap!DestroyDevice PROVE SwapInv'
    OBVIOUS
  <2>1. Swap!FileUnchanged /\ stress' = stress
    BY DEF Swap!CreateDevice, Swap!DestroyDevice
  <2>2. stress' \in StressTest /\ FlagIsPressed'
    BY <2>1 DEF SwapInv, SwapType, FlagIsPressed
  <2> QED
    BY <2>1, <2>2, BesidePreserves
<1> QED
  BY <1>1, PagePreserves, SwitchingPreserves, DeletePreserves, RoomPreserves, BuildPreserves, RetirePreserves, MovesPreserve,
     LastStepsPreserve, ReleasePreserves, CutPreserves, TestPreserves DEF Swap!Next

LEMMA SwapThen == SwapInv => Swap!SwapControlIsSafe
<1> SUFFICES ASSUME SwapInv PROVE Swap!SwapControlIsSafe
  OBVIOUS
<1>1. entrusted \in {file.main, file.backup}
  BY SwapFacts DEF BackupFits
<1> QED
  BY <1>1 DEF SwapInv, FlagIsPressed, Swap!SwapControlIsSafe, Swap!PreviousFileKept, Swap!TestIsHonest

LEMMA SwapRests == SwapInv /\ UNCHANGED ofSwap => SwapInv'
BY DEF ofSwap, SwapInv, SwapType, PageWaits, BackupFits, FlagIsPressed, Swap!SwapsToAFile, Swap!ResumeTargetStays

\* While the swap page is not the program that runs, nothing of it changes.
SwapBeside == program = "swap control" => SwapInv

LEMMA SwapBesideHolds == ProgramSpec => []SwapBeside
<1>1. ProgramInit => SwapBeside
  BY SwapStarts DEF ProgramInit, SwapBeside
<1>2. SwapBeside /\ [ProgramNext]_programVars => SwapBeside'
  <2> SUFFICES ASSUME SwapBeside, [ProgramNext]_programVars PROVE SwapBeside'
    OBVIOUS
  <2>1. CASE ProgramNext
    <3>1. program' = program /\ (program = "swap control" => Swap!Next)
      BY <2>1 DEF ProgramNext
    <3> QED
      BY <3>1, SwapKeeps DEF SwapBeside
  <2>2. CASE UNCHANGED programVars
    <3>1. program' = program /\ UNCHANGED ofSwap
      BY <2>2 DEF programVars
    <3> QED
      BY <3>1, SwapRests DEF SwapBeside
  <2> QED
    BY <2>1, <2>2
<1> QED
  BY <1>1, <1>2, PTL DEF ProgramSpec

(*****************************************************************************)
(* The firewall front end (UfWall).                                          *)
(*****************************************************************************)
LEMMA WallBounds == MostIdle \in Nat /\ MostIdle > 0 /\ MostRules \in Nat /\ MostTicks \in Nat /\ MostReads \in Nat
BY ProgramsConstants DEF Wall!WallConstants

\* An element leaves a sequence: those behind it move up.
LEMMA RemovedElement ==
  ASSUME NEW S, NEW q \in Seq(S), NEW n \in 1 .. Len(q)
  PROVE  /\ Wall!RemoveAt(q, n) \in Seq(S) /\ Len(Wall!RemoveAt(q, n)) = Len(q) - 1
         /\ \A i \in 1 .. Len(q) - 1 : Wall!RemoveAt(q, n)[i] = IF i < n THEN q[i] ELSE q[i + 1]
<1> DEFINE u == SubSeq(q, 1, n - 1)
           w == SubSeq(q, n + 1, Len(q))
<1>1. Len(q) \in Nat /\ \A i \in 1 .. Len(q) : q[i] \in S
  BY LenProperties
<1>2. u \in Seq(S) /\ Len(u) = n - 1 /\ \A i \in 1 .. n - 1 : u[i] = q[i]
  BY <1>1, SubSeqProperties
<1>3. w \in Seq(S) /\ Len(w) = Len(q) - n /\ \A i \in 1 .. Len(q) - n : w[i] = q[n + i]
  BY <1>1, SubSeqProperties
<1>4. Wall!RemoveAt(q, n) = u \o w
  BY DEF Wall!RemoveAt
<1> HIDE DEF u, w
<1>5. u \o w \in Seq(S) /\ Len(u \o w) = Len(u) + Len(w)
      /\ \A i \in 1 .. Len(u) + Len(w) : (u \o w)[i] = IF i <= Len(u) THEN u[i] ELSE w[i - Len(u)]
  BY <1>2, <1>3, ConcatProperties
<1>6. Len(u) + Len(w) = Len(q) - 1
  BY <1>1, <1>2, <1>3
<1> DEFINE x == u \o w
<1>7. x \in Seq(S) /\ Len(x) = Len(q) - 1
      /\ \A i \in 1 .. Len(q) - 1 : x[i] = IF i <= n - 1 THEN u[i] ELSE w[i - (n - 1)]
  BY <1>2, <1>5, <1>6
<1> HIDE DEF x
<1>8. ASSUME NEW i \in 1 .. Len(q) - 1 PROVE x[i] = IF i < n THEN q[i] ELSE q[i + 1]
  <2>1. CASE i < n
    BY <1>1, <1>2, <1>7, <2>1
  <2>2. CASE i >= n
    <3>1. x[i] = w[i - (n - 1)] /\ i - (n - 1) \in 1 .. Len(q) - n
      BY <1>1, <1>7, <2>2
    <3>2. w[i - (n - 1)] = q[n + (i - (n - 1))]
      BY <1>3, <3>1
    <3> QED
      BY <1>1, <2>2, <3>1, <3>2
  <2> QED
    BY <1>1, <2>1, <2>2
<1> QED
  BY <1>4, <1>7, <1>8 DEF x

\* An element is put at a place, or behind the last: those behind it move down.
LEMMA InsertedElement ==
  ASSUME NEW S, NEW q \in Seq(S), NEW n \in 1 .. Len(q) + 1, NEW e \in S
  PROVE  /\ Wall!InsertAt(q, n, e) \in Seq(S) /\ Len(Wall!InsertAt(q, n, e)) = Len(q) + 1
         /\ \A i \in 1 .. Len(q) + 1 :
              /\ i < n => Wall!InsertAt(q, n, e)[i] = q[i]
              /\ i = n => Wall!InsertAt(q, n, e)[i] = e
              /\ i > n => Wall!InsertAt(q, n, e)[i] = q[i - 1]
<1> DEFINE u == SubSeq(q, 1, n - 1)
           w == SubSeq(q, n, Len(q))
           x == u \o <<e>>
<1>1. Len(q) \in Nat /\ \A i \in 1 .. Len(q) : q[i] \in S
  BY LenProperties
<1>2. u \in Seq(S) /\ Len(u) = n - 1 /\ \A i \in 1 .. n - 1 : u[i] = q[i]
  BY <1>1, SubSeqProperties
<1>3. w \in Seq(S) /\ Len(w) = Len(q) - n + 1 /\ \A i \in 1 .. Len(q) - n + 1 : w[i] = q[n + i - 1]
  BY <1>1, SubSeqProperties
<1>4. Wall!InsertAt(q, n, e) = x \o w
  BY DEF Wall!InsertAt
<1>5. <<e>> \in Seq(S) /\ Len(<<e>>) = 1 /\ <<e>>[1] = e
  OBVIOUS
<1> HIDE DEF u, w
<1>6. x \in Seq(S) /\ Len(x) = n /\ \A i \in 1 .. n : x[i] = IF i <= n - 1 THEN u[i] ELSE e
  BY <1>1, <1>2, <1>5, ConcatProperties
<1> HIDE DEF x
<1> DEFINE y == x \o w
<1>7. y \in Seq(S) /\ Len(y) = Len(x) + Len(w)
      /\ \A i \in 1 .. Len(x) + Len(w) : y[i] = IF i <= Len(x) THEN x[i] ELSE w[i - Len(x)]
  BY <1>3, <1>6, ConcatProperties
<1> HIDE DEF y
<1>8. Len(x) + Len(w) = Len(q) + 1
  BY <1>1, <1>3, <1>6
<1>9. ASSUME NEW i \in 1 .. Len(q) + 1
      PROVE  /\ i < n => y[i] = q[i]
             /\ i = n => y[i] = e
             /\ i > n => y[i] = q[i - 1]
  <2>1. CASE i < n
    <3>1. i \in 1 .. n - 1 /\ i \in 1 .. n /\ i \in 1 .. Len(x) + Len(w) /\ i <= Len(x)
      BY <1>1, <1>6, <1>8, <2>1
    <3>2. y[i] = x[i] /\ x[i] = u[i] /\ u[i] = q[i]
      BY <1>2, <1>6, <1>7, <3>1
    <3> QED
      BY <2>1, <3>2
  <2>2. CASE i = n
    BY <1>1, <1>6, <1>7, <1>8, <2>2
  <2>3. CASE i > n
    <3>0. i \in 1 .. Len(x) + Len(w) /\ ~(i <= Len(x)) /\ i - n \in 1 .. Len(q) - n + 1
      BY <1>1, <1>6, <1>8, <2>3
    <3>1. y[i] = w[i - n]
      BY <1>6, <1>7, <3>0
    <3>2. w[i - n] = q[n + (i - n) - 1]
      BY <1>3, <3>0
    <3> QED
      BY <1>1, <2>3, <3>1, <3>2
  <2> QED
    BY <1>1, <2>1, <2>2, <2>3
<1> QED
  BY <1>4, <1>7, <1>8, <1>9 DEF y

Line == [for : 0 .. 2, made : Nat]

\* What became of list q leaves its first k lines alone, and has behind them lines that were
\* behind them, or new ones.
Beyond(q, p, k, new) ==
  k <= Len(q) =>
    /\ k <= Len(p)
    /\ \A i \in 1 .. k : p[i] = q[i]
    /\ \A i \in k + 1 .. Len(p) : p[i].made \in new \/ \E j \in k + 1 .. Len(q) : p[i] = q[j]

LEMMA RemovesBeyond ==
  ASSUME NEW q \in Seq(Line), NEW n \in 1 .. Len(q), NEW k \in Nat, k < n
  PROVE  Beyond(q, Wall!RemoveAt(q, n), k, {})
<1> DEFINE p == Wall!RemoveAt(q, n)
<1>1. /\ Len(q) \in Nat /\ Len(p) = Len(q) - 1
      /\ \A i \in 1 .. Len(q) - 1 : p[i] = IF i < n THEN q[i] ELSE q[i + 1]
  BY RemovedElement, LenProperties
<1> HIDE DEF p
<1>2. k <= Len(p) /\ \A i \in 1 .. k : p[i] = q[i]
  BY <1>1
<1>3. ASSUME NEW i \in k + 1 .. Len(p) PROVE \E j \in k + 1 .. Len(q) : p[i] = q[j]
  <2>1. i \in 1 .. Len(q) - 1 /\ i \in k + 1 .. Len(q) /\ i + 1 \in k + 1 .. Len(q)
    BY <1>1
  <2>2. p[i] = q[i] \/ p[i] = q[i + 1]
    BY <1>1, <2>1
  <2> QED
    BY <2>1, <2>2
<1> QED
  BY <1>2, <1>3 DEF Beyond, p

LEMMA InsertsBeyond ==
  ASSUME NEW q \in Seq(Line), NEW n \in 1 .. Len(q) + 1, NEW e \in Line, NEW k \in Nat, k < n
  PROVE  Beyond(q, Wall!InsertAt(q, n, e), k, {e.made})
<1> DEFINE p == Wall!InsertAt(q, n, e)
<1>1. /\ Len(q) \in Nat /\ Len(p) = Len(q) + 1
      /\ \A i \in 1 .. Len(q) + 1 : /\ i < n => p[i] = q[i]
                                    /\ i = n => p[i] = e
                                    /\ i > n => p[i] = q[i - 1]
  BY InsertedElement, LenProperties
<1> HIDE DEF p
<1>2. k <= Len(p) /\ \A i \in 1 .. k : p[i] = q[i]
  BY <1>1
<1>3. ASSUME NEW i \in k + 1 .. Len(p) PROVE p[i].made \in {e.made} \/ \E j \in k + 1 .. Len(q) : p[i] = q[j]
  <2>1. i \in 1 .. Len(q) + 1
    BY <1>1
  <2>2. CASE i < n
    <3>1. i \in k + 1 .. Len(q) /\ p[i] = q[i]
      BY <1>1, <2>1, <2>2
    <3> QED
      BY <3>1
  <2>3. CASE i = n
    BY <1>1, <2>1, <2>3
  <2>4. CASE i > n
    <3>1. i - 1 \in k + 1 .. Len(q) /\ p[i] = q[i - 1]
      BY <1>1, <2>1, <2>4
    <3> QED
      BY <3>1
  <2> QED
    BY <1>1, <2>1, <2>2, <2>3, <2>4
<1> QED
  BY <1>2, <1>3 DEF Beyond, p

LEMMA BeyondTwice ==
  ASSUME NEW q \in Seq(Line), NEW p \in Seq(Line), NEW r \in Seq(Line), NEW k \in Nat, NEW new,
         Beyond(q, p, k, new), Beyond(p, r, k, new)
  PROVE  Beyond(q, r, k, new)
<1> SUFFICES ASSUME k <= Len(q)
             PROVE  /\ k <= Len(r)
                    /\ \A i \in 1 .. k : r[i] = q[i]
                    /\ \A i \in k + 1 .. Len(r) : r[i].made \in new \/ \E j \in k + 1 .. Len(q) : r[i] = q[j]
  BY DEF Beyond
<1>1. /\ k <= Len(p) /\ \A i \in 1 .. k : p[i] = q[i]
      /\ \A i \in k + 1 .. Len(p) : p[i].made \in new \/ \E j \in k + 1 .. Len(q) : p[i] = q[j]
  BY DEF Beyond
<1>2. /\ k <= Len(r) /\ \A i \in 1 .. k : r[i] = p[i]
      /\ \A i \in k + 1 .. Len(r) : r[i].made \in new \/ \E j \in k + 1 .. Len(p) : r[i] = p[j]
  BY <1>1 DEF Beyond
<1>3. ASSUME NEW i \in k + 1 .. Len(r) PROVE r[i].made \in new \/ \E j \in k + 1 .. Len(q) : r[i] = q[j]
  <2>1. CASE r[i].made \in new
    BY <2>1
  <2>2. CASE \E j \in k + 1 .. Len(p) : r[i] = p[j]
    <3>1. PICK j \in k + 1 .. Len(p) : r[i] = p[j]
      BY <2>2
    <3>2. p[j].made \in new \/ \E l \in k + 1 .. Len(q) : p[j] = q[l]
      BY <1>1
    <3> QED
      BY <3>1, <3>2
  <2> QED
    BY <1>2, <2>1, <2>2
<1> QED
  BY <1>1, <1>2, <1>3

RuleList == rules \in Seq(Line) /\ \A i \in DOMAIN rules : rules[i].made <= made
SweepType ==
  [at : {"None"}] \cup
  [at : {"Sweeping"}, numbers : Seq(Nat), later : Nat, shifted : BOOLEAN, strays : BOOLEAN]
EditType ==
  [at : {"None"}] \cup
  [at : {"Deleted", "Refused", "Lost"}, number : Nat \ {0}, last : BOOLEAN, moved : BOOLEAN]

\* What a sweep has still to delete are the first lines of the list, all from before it began;
\* whatever is behind them is younger.
SweptTo(k) ==
  /\ k \in 0 .. Len(rules)
  /\ everything.numbers = Wall!DescendingNumbers(k)
  /\ \A i \in 1 .. k : rules[i].made <= everything.later
  /\ \A i \in k + 1 .. Len(rules) : rules[i].made > everything.later
  /\ ~everything.strays

\* The place of a rule that was not the last is still one that ufw takes.
EditHolds ==
  /\ edit \in EditType
  /\ edit.at = "Deleted" /\ ~edit.moved /\ ~edit.last => edit.number <= Len(rules)
  /\ Wall!EditLosesOnlyTheLast

ProfileRuns == profile.at \in {"Allowing", "Forbidding"} => profile.next \in {1, 2}

WallSwept ==
  /\ made \in Nat /\ RuleList
  /\ everything \in SweepType
  /\ everything.at = "Sweeping" => everything.later <= made
  /\ everything.at = "Sweeping" /\ ~everything.shifted => \E k \in Nat : SweptTo(k)
  /\ EditHolds /\ ProfileRuns

\* A read that began after the helper last ended found the units as they are.
Units == [available : BOOLEAN, masked : BOOLEAN, starts : BOOLEAN, active : BOOLEAN]
Discoveries ==
  [units : Units, shows : BOOLEAN, sensitive : BOOLEAN, settled : BOOLEAN, early : SUBSET Wall!Reads,
   step : {"None", "Mask", "Stop", "Unmask", "Enable", "Start", "Done"},
   reads : [Wall!Reads -> {"None", "Asked", "On", "Off"}]]
FindsUnits(next, r) ==
  /\ next.reads[r] = "On" => Wall!MdnsEnabled(next.units)
  /\ next.reads[r] = "Off" => ~Wall!MdnsEnabled(next.units)
ReadsFit(next) ==
  /\ next \in Discoveries
  /\ next.step = "None" =>
       /\ \A r \in Wall!Reads \ next.early : FindsUnits(next, r)
       /\ next.settled => next.shows = Wall!MdnsEnabled(next.units)
WallReads == ReadsFit(mdns)

WallListens ==
  /\ audit \in [known : BOOLEAN, busy : BOOLEAN, idle : Nat, clock : Nat, last : Nat]
  /\ audit.busy => audit.known
  /\ audit.last <= audit.clock
  /\ audit.last > 0 /\ audit.clock < audit.last + MostIdle => audit.known /\ audit.idle <= audit.clock - audit.last

WallInv == WallSwept /\ WallReads /\ WallListens

LEMMA WallStarts == Wall!Init => WallInv
<1> SUFFICES ASSUME Wall!Init PROVE WallInv
  OBVIOUS
<1> DEFINE one == [for |-> 0, made |-> 2]
           two == [for |-> 1, made |-> 1]
<1>1. /\ rules = <<one>> \/ rules = <<two, one>>
      /\ made = 2 /\ everything = [at |-> "None"] /\ profile = [at |-> "None"] /\ edit = [at |-> "None"]
  BY DEF Wall!Init, Wall!NoSweep, Wall!NoEdit, Wall!OneRule, Wall!TwoRules
<1>2. WallSwept
  <2>1. one \in Line /\ two \in Line /\ one.made <= 2 /\ two.made <= 2
    BY DEF Line
  <2> HIDE DEF one, two
  <2>2. RuleList
    <3>1. CASE rules = <<one>>
      BY <1>1, <2>1, <3>1 DEF RuleList
    <3>2. CASE rules = <<two, one>>
      BY <1>1, <2>1, <3>2 DEF RuleList
    <3> QED
      BY <1>1, <3>1, <3>2
  <2> QED
    BY <1>1, <2>2 DEF WallSwept, SweepType, EditHolds, EditType, ProfileRuns, Wall!EditLosesOnlyTheLast
<1>3. WallReads
  <2>1. PICK u \in Units : mdns = [units |-> u, shows |-> FALSE, sensitive |-> TRUE, step |-> "None",
                                   reads |-> [r \in Wall!Reads |-> "None"], early |-> {}, settled |-> FALSE]
    BY DEF Wall!Init, Units
  <2>2. mdns \in Discoveries /\ ~mdns.settled /\ mdns.reads = [r \in Wall!Reads |-> "None"]
    BY <2>1 DEF Discoveries
  <2> QED
    BY <2>2 DEF WallReads, ReadsFit, FindsUnits
<1>4. WallListens
  BY WallBounds DEF Wall!Init, WallListens
<1> QED
  BY <1>2, <1>3, <1>4 DEF WallInv

\* The pages that share nothing with the rules.
LEMMA ReadsPreserve ==
  ASSUME WallReads, Wall!RefreshMdns \/ Wall!LookMdns \/ Wall!ApplyMdns
  PROVE  WallReads'
<1>1. mdns \in Discoveries
  BY DEF WallReads, ReadsFit
<1>2. CASE Wall!RefreshMdns
  <2>1. PICK r \in Wall!Reads : mdns' = [mdns EXCEPT !.reads[r] = "Asked", !.sensitive = FALSE, !.early = @ \ {r}]
    BY <1>2 DEF Wall!RefreshMdns, Wall!Discovery
  <2>2. /\ mdns' \in Discoveries /\ mdns'.reads = [mdns.reads EXCEPT ![r] = "Asked"] /\ mdns'.early = mdns.early \ {r}
        /\ mdns'.units = mdns.units /\ mdns'.shows = mdns.shows /\ mdns'.settled = mdns.settled /\ mdns'.step = mdns.step
    BY <1>1, <2>1 DEF Discoveries
  <2>3. ASSUME mdns.step = "None", NEW x \in Wall!Reads \ mdns'.early PROVE FindsUnits(mdns', x)
    <3>1. CASE x = r
      BY <1>1, <2>2, <3>1 DEF FindsUnits, Discoveries
    <3>2. CASE x # r
      BY <1>1, <2>2, <2>3, <3>2 DEF FindsUnits, Discoveries, WallReads, ReadsFit
    <3> QED
      BY <3>1, <3>2
  <2> QED
    BY <2>2, <2>3 DEF WallReads, ReadsFit
<1>3. CASE Wall!LookMdns
  <2>1. PICK r \in Wall!Reads : \E s \in {"None", "On", "Off"} :
          /\ mdns' = [mdns EXCEPT !.reads[r] = s]
          /\ (s = "On" => Wall!MdnsEnabled(mdns.units)) /\ (s = "Off" => ~Wall!MdnsEnabled(mdns.units))
    BY <1>3 DEF Wall!LookMdns, Wall!Discovery
  <2>2. PICK s \in {"None", "On", "Off"} :
          /\ mdns' = [mdns EXCEPT !.reads[r] = s]
          /\ (s = "On" => Wall!MdnsEnabled(mdns.units)) /\ (s = "Off" => ~Wall!MdnsEnabled(mdns.units))
    BY <2>1
  <2>3. /\ mdns' \in Discoveries /\ mdns'.reads = [mdns.reads EXCEPT ![r] = s] /\ mdns'.early = mdns.early
        /\ mdns'.units = mdns.units /\ mdns'.shows = mdns.shows /\ mdns'.settled = mdns.settled /\ mdns'.step = mdns.step
    BY <1>1, <2>2 DEF Discoveries
  <2>4. ASSUME mdns.step = "None", NEW x \in Wall!Reads \ mdns.early PROVE FindsUnits(mdns', x)
    <3>1. CASE x = r
      BY <1>1, <2>2, <2>3, <3>1 DEF FindsUnits, Discoveries
    <3>2. CASE x # r
      BY <1>1, <2>3, <2>4, <3>2 DEF FindsUnits, Discoveries, WallReads, ReadsFit
    <3> QED
      BY <3>1, <3>2
  <2> QED
    BY <2>3, <2>4 DEF WallReads, ReadsFit
<1>4. CASE Wall!ApplyMdns
  <2>1. PICK r \in Wall!Reads :
          /\ mdns.reads[r] \in {"On", "Off"}
          /\ mdns' = [mdns EXCEPT !.reads[r] = "None", !.shows = mdns.reads[r] = "On",
                        !.sensitive = mdns.units.available, !.settled = r \notin mdns.early]
    BY <1>4 DEF Wall!ApplyMdns, Wall!Discovery
  <2> DEFINE on == mdns.reads[r] = "On"
             new == r \notin mdns.early
  <2>2. on \in BOOLEAN /\ new \in BOOLEAN /\ mdns.units.available \in BOOLEAN
    BY <1>1 DEF Discoveries, Units
  <2>3. /\ mdns' \in Discoveries /\ mdns'.reads = [mdns.reads EXCEPT ![r] = "None"] /\ mdns'.early = mdns.early
        /\ mdns'.units = mdns.units /\ mdns'.shows = on /\ mdns'.settled = new /\ mdns'.step = mdns.step
    <3> HIDE DEF on, new
    <3>1. mdns' = [mdns EXCEPT !.reads[r] = "None", !.shows = on, !.sensitive = mdns.units.available, !.settled = new]
      BY <2>1 DEF on, new
    <3> QED
      BY <1>1, <2>2, <3>1 DEF Discoveries
  <2>4. ASSUME mdns.step = "None", NEW x \in Wall!Reads \ mdns.early PROVE FindsUnits(mdns', x)
    <3>1. CASE x = r
      BY <1>1, <2>3, <3>1 DEF FindsUnits, Discoveries
    <3>2. CASE x # r
      BY <1>1, <2>3, <2>4, <3>2 DEF FindsUnits, Discoveries, WallReads, ReadsFit
    <3> QED
      BY <3>1, <3>2
  <2>5. ASSUME mdns.step = "None", new PROVE on = Wall!MdnsEnabled(mdns.units)
    <3>1. FindsUnits(mdns, r) /\ mdns.units \in Units
      BY <1>1, <2>5 DEF WallReads, ReadsFit, Discoveries
    <3>2. Wall!MdnsEnabled(mdns.units) \in BOOLEAN
      BY <3>1 DEF Wall!MdnsEnabled, Units
    <3> QED
      BY <2>1, <2>2, <3>1, <3>2 DEF FindsUnits
  <2> HIDE DEF on, new
  <2> QED
    BY <2>3, <2>4, <2>5 DEF WallReads, ReadsFit
<1> QED
  BY <1>2, <1>3, <1>4

LEMMA DiscoveryPreserves ==
  ASSUME WallReads, Wall!SetMdns \/ Wall!MdnsHelper \/ Wall!MdnsReturns
  PROVE  WallReads'
<1>1. mdns \in Discoveries
  BY DEF WallReads, ReadsFit
<1>2. CASE Wall!SetMdns
  <2>1. CASE mdns.step # "None" /\ mdns' = [mdns EXCEPT !.shows = ~@]
    <3>1. mdns' \in Discoveries /\ mdns'.step # "None"
      BY <1>1, <2>1 DEF Discoveries
    <3> QED
      BY <3>1 DEF WallReads, ReadsFit
  <2>2. CASE mdns' = [mdns EXCEPT !.shows = ~@, !.sensitive = FALSE, !.step = IF mdns.shows THEN "Mask" ELSE "Unmask"]
    <3>1. PICK z \in {"Mask", "Unmask"} : mdns' = [mdns EXCEPT !.shows = ~@, !.sensitive = FALSE, !.step = z]
      BY <2>2
    <3>2. mdns' \in Discoveries /\ mdns'.step = z
      BY <1>1, <3>1 DEF Discoveries
    <3> QED
      BY <3>2 DEF WallReads, ReadsFit
  <2> QED
    BY <1>2, <2>1, <2>2 DEF Wall!SetMdns, Wall!Discovery
<1>3. CASE Wall!MdnsHelper
  <2>1. \/ mdns' = [mdns EXCEPT !.units.masked = TRUE, !.step = "Stop"]
        \/ mdns' = [mdns EXCEPT !.units.active = FALSE, !.step = "Done"]
        \/ mdns' = [mdns EXCEPT !.units.masked = FALSE, !.step = "Enable"]
        \/ mdns' = [mdns EXCEPT !.units.starts = TRUE, !.step = "Start"]
        \/ mdns' = [mdns EXCEPT !.units.active = TRUE, !.step = "Done"]
        \/ mdns' = [mdns EXCEPT !.step = "Done"]
    BY <1>3 DEF Wall!MdnsHelper, Wall!Discovery
  <2>2. ASSUME NEW f \in {"masked", "active", "starts"}, NEW b \in BOOLEAN, NEW z \in {"Stop", "Done", "Enable", "Start"},
               mdns' = [mdns EXCEPT !.units[f] = b, !.step = z]
        PROVE  mdns' \in Discoveries /\ mdns'.step # "None"
    <3>1. mdns.units \in Units /\ [mdns.units EXCEPT ![f] = b] \in Units
      BY <1>1 DEF Discoveries, Units
    <3> QED
      BY <1>1, <2>2, <3>1 DEF Discoveries
  <2>3. mdns' \in Discoveries /\ mdns'.step # "None"
    <3>1. CASE mdns' = [mdns EXCEPT !.units.masked = TRUE, !.step = "Stop"]
      BY <2>2, <3>1
    <3>2. CASE mdns' = [mdns EXCEPT !.units.active = FALSE, !.step = "Done"]
      BY <2>2, <3>2
    <3>3. CASE mdns' = [mdns EXCEPT !.units.masked = FALSE, !.step = "Enable"]
      BY <2>2, <3>3
    <3>4. CASE mdns' = [mdns EXCEPT !.units.starts = TRUE, !.step = "Start"]
      BY <2>2, <3>4
    <3>5. CASE mdns' = [mdns EXCEPT !.units.active = TRUE, !.step = "Done"]
      BY <2>2, <3>5
    <3>6. CASE mdns' = [mdns EXCEPT !.step = "Done"]
      BY <1>1, <3>6 DEF Discoveries
    <3> QED
      BY <2>1, <3>1, <3>2, <3>3, <3>4, <3>5, <3>6
  <2> QED
    BY <2>3 DEF WallReads, ReadsFit
<1>4. CASE Wall!MdnsReturns
  <2>1. PICK r \in Wall!Reads \ Wall!UnderWay :
          mdns' = [mdns EXCEPT !.step = "None", !.reads[r] = "Asked", !.sensitive = FALSE,
                     !.early = Wall!UnderWay, !.settled = FALSE]
    BY <1>4 DEF Wall!MdnsReturns, Wall!Discovery
  <2>2. Wall!UnderWay \subseteq Wall!Reads
    BY DEF Wall!UnderWay
  <2>3. mdns' \in Discoveries /\ ~mdns'.settled /\ mdns'.reads = [mdns.reads EXCEPT ![r] = "Asked"]
        /\ mdns'.early = Wall!UnderWay
    BY <1>1, <2>1, <2>2 DEF Discoveries
  <2>4. ASSUME NEW x \in Wall!Reads \ Wall!UnderWay PROVE mdns'.reads[x] \in {"None", "Asked"}
    BY <1>1, <2>3, <2>4 DEF Wall!UnderWay, Discoveries
  <2> QED
    BY <2>3, <2>4 DEF WallReads, ReadsFit, FindsUnits
<1> QED
  BY <1>2, <1>3, <1>4

LEMMA AuditPreserves ==
  ASSUME WallListens, Wall!Packet \/ Wall!Tick
  PROVE  WallListens'
<1>3. WallListens
  OBVIOUS
<1>4. CASE Wall!Packet
  <2>1. audit' = [audit EXCEPT !.known = TRUE, !.busy = TRUE]
    BY <1>4 DEF Wall!Packet, Wall!Audits
  <2>2. /\ audit' \in [known : BOOLEAN, busy : BOOLEAN, idle : Nat, clock : Nat, last : Nat]
        /\ audit'.known = TRUE /\ audit'.idle = audit.idle /\ audit'.clock = audit.clock /\ audit'.last = audit.last
    BY <1>3, <2>1 DEF WallListens
  <2> QED
    BY <1>3, <2>2 DEF WallListens
<1>5. CASE Wall!Tick
  <2> DEFINE idle == IF audit.busy THEN 0 ELSE audit.idle + 1
  <2>1. audit' = [known |-> audit.known /\ idle < MostIdle, busy |-> FALSE, clock |-> audit.clock + 1,
                  idle |-> IF audit.known /\ idle < MostIdle THEN idle ELSE 0,
                  last |-> IF audit.busy THEN audit.clock + 1 ELSE audit.last]
    BY <1>5 DEF Wall!Tick, Wall!Audits
  <2> DEFINE stays == audit.known /\ idle < MostIdle
             resumed == IF audit.known /\ idle < MostIdle THEN idle ELSE 0
             latest == IF audit.busy THEN audit.clock + 1 ELSE audit.last
  <2>2. idle \in Nat /\ stays \in BOOLEAN /\ resumed \in Nat /\ latest \in Nat /\ audit.clock + 1 \in Nat
    BY <1>3 DEF WallListens
  <2>3. /\ audit' \in [known : BOOLEAN, busy : BOOLEAN, idle : Nat, clock : Nat, last : Nat]
        /\ ~audit'.busy /\ (audit'.known <=> audit.known /\ idle < MostIdle) /\ audit'.clock = audit.clock + 1
        /\ audit'.idle = (IF audit.known /\ idle < MostIdle THEN idle ELSE 0)
        /\ audit'.last = (IF audit.busy THEN audit.clock + 1 ELSE audit.last)
    <3>1. /\ audit'.known = stays /\ audit'.idle = resumed /\ audit'.last = latest /\ ~audit'.busy
          /\ audit'.clock = audit.clock + 1
      BY <2>1
    <3>2. audit' = [known |-> stays, busy |-> FALSE, clock |-> audit.clock + 1, idle |-> resumed, last |-> latest]
      BY <2>1
    <3>3. ASSUME NEW k \in BOOLEAN, NEW c \in Nat, NEW i \in Nat, NEW l \in Nat
          PROVE  [known |-> k, busy |-> FALSE, clock |-> c, idle |-> i, last |-> l]
                 \in [known : BOOLEAN, busy : BOOLEAN, idle : Nat, clock : Nat, last : Nat]
      OBVIOUS
    <3>4. audit' \in [known : BOOLEAN, busy : BOOLEAN, idle : Nat, clock : Nat, last : Nat]
      <4> HIDE DEF stays, resumed, latest
      <4> QED
        BY <2>2, <3>2, <3>3
    <3> QED
      BY <3>1, <3>4
  <2>4. CASE audit.busy
    BY <1>3, <2>3, <2>4, WallBounds DEF WallListens
  <2>5. CASE ~audit.busy
    <3>1. audit'.last <= audit'.clock
      BY <1>3, <2>3, <2>5 DEF WallListens
    <3>2. ASSUME audit'.last > 0, audit'.clock < audit'.last + MostIdle
          PROVE  audit'.known /\ audit'.idle <= audit'.clock - audit'.last
      <4>1. audit.known /\ audit.idle <= audit.clock - audit.last /\ idle = audit.idle + 1
        BY <1>3, <2>3, <2>5, <3>2, WallBounds DEF WallListens
      <4>2. idle < MostIdle
        BY <1>3, <2>3, <2>5, <3>2, <4>1, WallBounds DEF WallListens
      <4> HIDE DEF idle
      <4> QED
        BY <1>3, <2>2, <2>3, <2>5, <4>1, <4>2 DEF WallListens
    <3> QED
      BY <2>3, <3>1, <3>2 DEF WallListens
  <2> QED
    BY <2>4, <2>5
<1> QED
  BY <1>4, <1>5

LEMMA ListIs ==
  ASSUME WallSwept
  PROVE  /\ made \in Nat /\ rules \in Seq(Line) /\ Len(rules) \in Nat /\ DOMAIN rules = 1 .. Len(rules)
         /\ \A i \in 1 .. Len(rules) : rules[i] \in Line /\ rules[i].made \in Nat /\ rules[i].made <= made
         /\ everything \in SweepType /\ EditHolds /\ ProfileRuns
<1>1. made \in Nat /\ rules \in Seq(Line) /\ everything \in SweepType /\ EditHolds /\ ProfileRuns
      /\ \A i \in DOMAIN rules : rules[i].made <= made
  BY DEF WallSwept, RuleList
<1>2. Len(rules) \in Nat /\ DOMAIN rules = 1 .. Len(rules) /\ \A i \in 1 .. Len(rules) : rules[i] \in Line
  BY <1>1, LenProperties
<1> QED
  BY <1>1, <1>2 DEF Line

\* The numbers of a sweep, and what is left of them after the first.
LEMMA NumbersDescend ==
  ASSUME NEW k \in Nat
  PROVE  /\ Wall!DescendingNumbers(k) \in Seq(Nat) /\ Len(Wall!DescendingNumbers(k)) = k
         /\ Wall!DescendingNumbers(k) # <<>> =>
              /\ k # 0 /\ Head(Wall!DescendingNumbers(k)) = k
              /\ Tail(Wall!DescendingNumbers(k)) = Wall!DescendingNumbers(k - 1)
<1> DEFINE q == Wall!DescendingNumbers(k)
<1>1. q = [i \in 1 .. k |-> k + 1 - i]
  BY DEF Wall!DescendingNumbers
<1>2. q \in Seq(Nat)
  <2>1. \A i \in 1 .. k : k + 1 - i \in Nat
    OBVIOUS
  <2> QED
    BY <1>1, <2>1
<1>3. Len(q) = k
  BY <1>1, <1>2, LenProperties
<1>4. ASSUME q # <<>> PROVE k # 0 /\ Head(q) = k /\ Tail(q) = Wall!DescendingNumbers(k - 1)
  <2> HIDE DEF q
  <2>1. k # 0
    BY <1>2, <1>3, <1>4, EmptySeq
  <2>2. Head(q) = q[1] /\ q[1] = k
    BY <1>1, <1>2, <1>4, <2>1
  <2>3. /\ Tail(q) \in Seq(Nat) /\ Len(Tail(q)) = k - 1
        /\ \A i \in 1 .. k - 1 : Tail(q)[i] = q[i + 1]
    BY <1>2, <1>3, <1>4, HeadTailProperties
  <2>4. \A i \in 1 .. k - 1 : Tail(q)[i] = k - i
    BY <1>1, <2>1, <2>3
  <2>5. Tail(q) = [i \in 1 .. k - 1 |-> Tail(q)[i]]
    BY <2>3, LenProperties
  <2>6. [i \in 1 .. k - 1 |-> (k - 1) + 1 - i] = [i \in 1 .. k - 1 |-> Tail(q)[i]]
    <3>1. \A i \in 1 .. k - 1 : (k - 1) + 1 - i = k - i
      BY <2>1
    <3>2. \A i \in 1 .. k - 1 : (k - 1) + 1 - i = Tail(q)[i]
      BY <2>4, <3>1
    <3> HIDE DEF q
    <3> QED
      BY <3>2, Zenon
  <2> QED
    BY <2>1, <2>2, <2>5, <2>6 DEF Wall!DescendingNumbers
<1> QED
  BY <1>2, <1>3, <1>4

\* The list stays as it is.
LEMMA ListStays ==
  ASSUME WallSwept, UNCHANGED <<rules, made, everything>>, EditHolds', ProfileRuns'
  PROVE  WallSwept'
BY DEF WallSwept, RuleList, SweptTo

\* A change at the n-th line: a sweep's numbers are shifted, or it was behind them.
LEMMA ListChanges ==
  ASSUME WallSwept, rules' \in Seq(Line), made' \in Nat, made' >= made,
         NEW new, \A x \in new : x = made + 1 /\ x <= made',
         NEW n \in Nat, n > 0, everything' = Wall!Shifted(n),
         \A k \in Nat : k < n => Beyond(rules, rules', k, new),
         EditHolds', ProfileRuns'
  PROVE  WallSwept'
<1>1. RuleList'
  <2>1. 0 \in Nat /\ 0 < n /\ 0 <= Len(rules) /\ 0 + 1 = 1
    BY ListIs
  <2>2. \A i \in 1 .. Len(rules') : rules'[i].made \in new \/ \E j \in 1 .. Len(rules) : rules'[i] = rules[j]
    <3>1. Beyond(rules, rules', 0, new)
      BY <2>1
    <3> QED
      BY <2>1, <3>1 DEF Beyond
  <2>3. ASSUME NEW i \in 1 .. Len(rules') PROVE rules'[i].made <= made'
    <3>1. CASE rules'[i].made \in new
      BY <3>1
    <3>2. CASE \E j \in 1 .. Len(rules) : rules'[i] = rules[j]
      <4>1. PICK j \in 1 .. Len(rules) : rules'[i] = rules[j]
        BY <3>2
      <4>2. rules[j].made \in Nat /\ rules[j].made <= made /\ made \in Nat
        BY ListIs
      <4> QED
        BY <4>1, <4>2
    <3> QED
      BY <2>2, <3>1, <3>2
  <2> QED
    BY <2>3, LenProperties DEF RuleList
<1>2. everything' \in SweepType
  BY ListIs DEF Wall!Shifted, SweepType
<1>3. ASSUME everything'.at = "Sweeping"
      PROVE  /\ everything.at = "Sweeping" /\ everything'.later = everything.later
             /\ everything.later \in Nat /\ everything.later <= made /\ everything'.later <= made'
  <2>1. everything.at = "Sweeping"
    BY <1>3, ListIs DEF Wall!Shifted, SweepType
  <2>2. everything \in [at : {"Sweeping"}, numbers : Seq(Nat), later : Nat, shifted : BOOLEAN, strays : BOOLEAN]
    BY <2>1, ListIs DEF SweepType
  <2>3. everything'.later = everything.later
    BY <2>2 DEF Wall!Shifted
  <2>4. everything.later \in Nat /\ everything.later <= made
    BY <2>1, <2>2 DEF WallSwept
  <2> QED
    BY <2>1, <2>3, <2>4, ListIs
<1>4. ASSUME everything'.at = "Sweeping", ~everything'.shifted PROVE \E k \in Nat : SweptTo(k)'
  <2>1. everything.at = "Sweeping"
    BY <1>3, <1>4
  <2>2. everything \in [at : {"Sweeping"}, numbers : Seq(Nat), later : Nat, shifted : BOOLEAN, strays : BOOLEAN]
    BY <2>1, ListIs DEF SweepType
  <2>3. ~(n <= Len(everything.numbers)) /\ everything' = everything
    BY <1>4, <2>1, <2>2 DEF Wall!Shifted
  <2>4. PICK k \in Nat : SweptTo(k)
    BY <1>4, <2>1, <2>3 DEF WallSwept
  <2>5. Len(everything.numbers) = k
    BY <2>4, NumbersDescend DEF SweptTo
  <2>6. k < n /\ k <= Len(rules) /\ Len(rules') \in Nat
    BY <2>3, <2>4, <2>5, ListIs, LenProperties DEF SweptTo
  <2>7. /\ k <= Len(rules') /\ \A i \in 1 .. k : rules'[i] = rules[i]
        /\ \A i \in k + 1 .. Len(rules') : rules'[i].made \in new \/ \E j \in k + 1 .. Len(rules) : rules'[i] = rules[j]
    BY <2>6 DEF Beyond
  <2>8. \A i \in 1 .. k : rules'[i].made <= everything.later
    BY <2>4, <2>7 DEF SweptTo
  <2>9. ASSUME NEW i \in k + 1 .. Len(rules') PROVE rules'[i].made > everything.later
    <3>1. CASE rules'[i].made \in new
      <4>1. rules'[i].made = made + 1
        BY <3>1
      <4> QED
        BY <1>3, <1>4, <4>1, ListIs
    <3>2. CASE \E j \in k + 1 .. Len(rules) : rules'[i] = rules[j]
      BY <2>4, <3>2 DEF SweptTo
    <3> QED
      BY <2>7, <3>1, <3>2
  <2>10. SweptTo(k)'
    BY <2>3, <2>4, <2>6, <2>7, <2>8, <2>9 DEF SweptTo
  <2> QED
    BY <2>10
<1> QED
  BY <1>1, <1>2, <1>3, <1>4 DEF WallSwept

\* A rule's lines are added, at a place or two.
LEMMA RuleComes ==
  ASSUME WallSwept, NEW port \in 0 .. 2, NEW spot \in 1 .. Len(rules) + 1, Wall!Add(port, spot), EditHolds', ProfileRuns'
  PROVE  WallSwept'
<1> DEFINE line == [for |-> port, made |-> made + 1]
           p == Wall!InsertAt(rules, spot, line)
<1>1. made' = made + 1 /\ made' \in Nat /\ made' >= made /\ line \in Line /\ line.made = made + 1 /\ spot \in Nat /\ spot > 0
  BY ListIs DEF Wall!Add, Line
<1> HIDE DEF line
<1>2. p \in Seq(Line) /\ Len(p) = Len(rules) + 1
  BY <1>1, ListIs, InsertedElement
<1>3. \A k \in Nat : k < spot => Beyond(rules, p, k, {made + 1})
  BY <1>1, ListIs, InsertsBeyond
<1> DEFINE new == {made + 1}
<1>6. \A x \in new : x = made + 1 /\ x <= made'
  BY <1>1, ListIs
<1>7. ASSUME NEW n \in Nat, n > 0, everything' = Wall!Shifted(n), rules' \in Seq(Line),
             \A k \in Nat : k < n => Beyond(rules, rules', k, new)
      PROVE  WallSwept'
  <2> HIDE DEF new
  <2> QED
    BY <1>1, <1>6, <1>7, ListChanges
<1>4. CASE rules' = p /\ everything' = Wall!Shifted(spot)
  BY <1>1, <1>2, <1>3, <1>4, <1>7
<1>5. ASSUME NEW other \in 1 .. Len(rules) + 2, rules' = Wall!InsertAt(p, other, line),
             everything' = Wall!Shifted(IF other < spot THEN other ELSE spot)
      PROVE  WallSwept'
  <2> DEFINE n == IF other < spot THEN other ELSE spot
  <2>1. n \in Nat /\ n > 0 /\ n <= spot /\ n <= other /\ other \in 1 .. Len(p) + 1
    BY <1>1, <1>2, <1>5, ListIs
  <2> HIDE DEF n, p
  <2>2. rules' \in Seq(Line)
    BY <1>1, <1>2, <1>5, <2>1, InsertedElement
  <2>3. ASSUME NEW k \in Nat, k < n PROVE Beyond(rules, rules', k, {made + 1})
    <3>1. k < spot /\ k < other
      BY <1>1, <2>1, <2>3
    <3>2. Beyond(rules, p, k, {made + 1}) /\ Beyond(p, rules', k, {made + 1})
      BY <1>1, <1>2, <1>3, <1>5, <2>1, <3>1, InsertsBeyond
    <3> QED
      BY <1>2, <2>2, <3>2, ListIs, BeyondTwice
  <2>4. everything' = Wall!Shifted(n)
    BY <1>5 DEF n
  <2> QED
    BY <2>1, <2>2, <2>3, <2>4, <1>7
<1> QED
  BY <1>4, <1>5 DEF Wall!Add, line, p

\* One line leaves the list, whichever number a command names.
LEMMA LineLeaves ==
  ASSUME WallSwept, NEW n \in DOMAIN rules, Wall!DeleteNumber(n)
  PROVE  /\ n \in 1 .. Len(rules) /\ rules' \in Seq(Line) /\ Len(rules') = Len(rules) - 1
         /\ \A k \in Nat : k < n => Beyond(rules, rules', k, {})
<1>1. rules \in Seq(Line) /\ Len(rules) \in Nat /\ n \in 1 .. Len(rules) /\ rules' = Wall!RemoveAt(rules, n)
  BY ListIs DEF Wall!DeleteNumber
<1> QED
  BY <1>1, RemovedElement, RemovesBeyond

LEMMA DeletionHolds ==
  ASSUME WallSwept, NEW n \in DOMAIN rules, Wall!DeleteNumber(n), everything' = Wall!Shifted(n), UNCHANGED made,
         EditHolds', ProfileRuns'
  PROVE  WallSwept'
<1>1. n \in Nat /\ n > 0 /\ made' \in Nat /\ made' >= made
  BY ListIs
<1> QED
  BY <1>1, LineLeaves, ListChanges

LEMMA EditIsDisturbed ==
  ASSUME WallSwept, edit' = Wall!Disturbed
  PROVE  EditHolds'
BY ListIs DEF EditHolds, EditType, Wall!Disturbed, Wall!EditLosesOnlyTheLast

LEMMA EditStays ==
  ASSUME WallSwept, UNCHANGED <<edit, rules>>
  PROVE  EditHolds'
BY ListIs DEF EditHolds, Wall!EditLosesOnlyTheLast

LEMMA NoEditHolds ==
  ASSUME edit' = Wall!NoEdit
  PROVE  EditHolds'
BY DEF EditHolds, EditType, Wall!NoEdit, Wall!EditLosesOnlyTheLast

\* A sweep deletes the number it has come to.
LEMMA SweepHolds ==
  ASSUME WallSwept, Wall!DeleteAllRules
  PROVE  WallSwept'
<1>1. everything.at = "Sweeping" /\ UNCHANGED <<made, profile>> /\ ProfileRuns'
  BY ListIs DEF Wall!DeleteAllRules, ProfileRuns
<1>2. CASE everything' = Wall!NoSweep /\ UNCHANGED <<rules, edit>>
  BY <1>1, <1>2, ListIs, EditStays DEF WallSwept, RuleList, Wall!NoSweep, SweepType
<1>3. CASE /\ everything.numbers # <<>> /\ Head(everything.numbers) \in DOMAIN rules
           /\ Wall!DeleteNumber(Head(everything.numbers))
           /\ everything' = [everything EXCEPT !.numbers = Tail(@),
                               !.strays = @ \/ rules[Head(everything.numbers)].made > everything.later]
           /\ edit' = Wall!Disturbed
  <2> DEFINE n == Head(everything.numbers)
             stray == everything.strays \/ rules[n].made > everything.later
  <2>1. everything \in [at : {"Sweeping"}, numbers : Seq(Nat), later : Nat, shifted : BOOLEAN, strays : BOOLEAN]
    BY <1>1, ListIs DEF SweepType
  <2>2. Tail(everything.numbers) \in Seq(Nat) /\ stray \in BOOLEAN
    BY <1>3, <2>1, HeadTailProperties
  <2>3. /\ everything' \in SweepType /\ everything'.at = "Sweeping" /\ everything'.later = everything.later
        /\ everything'.shifted = everything.shifted /\ everything'.numbers = Tail(everything.numbers)
        /\ everything'.strays = stray
    <3> HIDE DEF n, stray
    <3>1. everything' = [everything EXCEPT !.numbers = Tail(everything.numbers), !.strays = stray]
      BY <1>3 DEF n, stray
    <3> QED
      BY <2>1, <2>2, <3>1 DEF SweepType
  <2>4. /\ n \in 1 .. Len(rules) /\ rules' \in Seq(Line) /\ Len(rules') = Len(rules) - 1
        /\ \A k \in Nat : k < n => Beyond(rules, rules', k, {})
    BY <1>3, LineLeaves
  <2> HIDE DEF n, stray
  <2>5. RuleList'
    <3>1. 0 \in Nat /\ 0 < n /\ 0 <= Len(rules) /\ 0 + 1 = 1
      BY <2>4, ListIs
    <3>2. Beyond(rules, rules', 0, {})
      BY <2>4, <3>1
    <3>3. \A i \in 1 .. Len(rules') : \E j \in 1 .. Len(rules) : rules'[i] = rules[j]
      BY <3>1, <3>2 DEF Beyond
    <3>4. \A i \in 1 .. Len(rules') : rules'[i].made <= made
      BY <3>3, ListIs
    <3> QED
      BY <1>1, <2>4, <3>4, LenProperties DEF RuleList
  <2>6. ASSUME ~everything.shifted, NEW k \in Nat, SweptTo(k) PROVE k - 1 \in Nat /\ SweptTo(k - 1)'
    <3>1. k \in Nat /\ k # 0 /\ n = k /\ Tail(everything.numbers) = Wall!DescendingNumbers(k - 1) /\ k <= Len(rules)
      BY <1>3, <2>6, NumbersDescend, ListIs DEF SweptTo, n
    <3>2. k - 1 \in Nat /\ k - 1 < n /\ k - 1 \in 0 .. Len(rules') /\ k - 1 <= Len(rules) /\ (k - 1) + 1 = k
      BY <2>4, <3>1, ListIs
    <3>3. ~stray
      <4>1. rules[n].made <= everything.later /\ ~everything.strays /\ rules[n].made \in Nat /\ everything.later \in Nat
        BY <2>1, <2>4, <2>6, <3>1, ListIs DEF SweptTo
      <4> QED
        BY <4>1 DEF stray
    <3>4. rules' = Wall!RemoveAt(rules, n)
      BY <1>3 DEF Wall!DeleteNumber, n
    <3>5. \A i \in 1 .. Len(rules) - 1 : rules'[i] = IF i < n THEN rules[i] ELSE rules[i + 1]
      BY <2>4, <3>4, ListIs, RemovedElement
    <3>6. ASSUME NEW i \in 1 .. k - 1 PROVE rules'[i].made <= everything.later
      <4>1. i \in 1 .. Len(rules) - 1 /\ i < n /\ i \in 1 .. k
        BY <3>1, ListIs
      <4> QED
        BY <2>6, <3>5, <4>1 DEF SweptTo
    <3>7. ASSUME NEW i \in k .. Len(rules') PROVE rules'[i].made > everything.later
      <4>1. i \in 1 .. Len(rules) - 1 /\ ~(i < n) /\ i + 1 \in k + 1 .. Len(rules)
        BY <2>4, <3>1, ListIs
      <4> QED
        BY <2>6, <3>5, <4>1 DEF SweptTo
    <3> QED
      BY <2>3, <3>1, <3>2, <3>3, <3>6, <3>7 DEF SweptTo
  <2>7. everything'.at = "Sweeping" /\ ~everything'.shifted => \E k \in Nat : SweptTo(k)'
    BY <1>1, <2>3, <2>6 DEF WallSwept
  <2>8. everything.later <= made /\ EditHolds'
    BY <1>1, <1>3, EditIsDisturbed DEF WallSwept
  <2> QED
    BY <1>1, <2>3, <2>5, <2>7, <2>8, ListIs DEF WallSwept
<1> QED
  BY <1>2, <1>3 DEF Wall!DeleteAllRules

LEMMA ReadNumbersHolds ==
  ASSUME WallSwept, Wall!ReadNumbers
  PROVE  WallSwept'
<1>1. /\ UNCHANGED <<rules, made, profile, edit>> /\ ProfileRuns' /\ EditHolds'
      /\ everything' = [at |-> "Sweeping", numbers |-> Wall!DescendingNumbers(Len(rules)), later |-> made,
                        shifted |-> FALSE, strays |-> FALSE]
  BY ListIs, EditStays DEF Wall!ReadNumbers, Wall!SweepOrder, ProfileRuns
<1>2. Wall!DescendingNumbers(Len(rules)) \in Seq(Nat)
  BY ListIs, NumbersDescend
<1>3. everything' \in SweepType /\ everything'.numbers = Wall!DescendingNumbers(Len(rules)) /\ everything'.later = made
      /\ ~everything'.strays
  BY <1>1, <1>2, ListIs DEF SweepType
<1>4. SweptTo(Len(rules))'
  <2>1. Len(rules) + 1 .. Len(rules) = {}
    BY ListIs
  <2> QED
    BY <1>1, <1>3, <2>1, ListIs DEF SweptTo
<1> QED
  BY <1>1, <1>3, <1>4, ListIs DEF WallSwept, RuleList

\* The editing dialog's two commands.
LEMMA EditPreserves ==
  ASSUME WallSwept, Wall!SaveDeletes \/ Wall!SaveInserts \/ Wall!CloseEdit
  PROVE  WallSwept'
<1>1. UNCHANGED profile /\ ProfileRuns'
  BY ListIs DEF Wall!SaveDeletes, Wall!SaveInserts, Wall!CloseEdit, ProfileRuns
<1>2. CASE Wall!SaveDeletes
  <2>1. PICK n \in DOMAIN rules :
          /\ Wall!DeleteNumber(n) /\ everything' = Wall!Shifted(n)
          /\ edit' = [at |-> "Deleted", number |-> n, last |-> n = Len(rules), moved |-> FALSE]
    BY <1>2 DEF Wall!SaveDeletes
  <2> DEFINE final == n = Len(rules)
  <2>2. n \in Nat \ {0} /\ n \in 1 .. Len(rules) /\ Len(rules) \in Nat /\ Len(rules') = Len(rules) - 1
    <3>1. n \in 1 .. Len(rules) /\ Len(rules') = Len(rules) - 1
      BY <2>1, LineLeaves
    <3> QED
      BY <3>1, ListIs
  <2>3. edit' \in EditType /\ edit'.at = "Deleted" /\ edit'.number = n /\ edit'.last = final
    <3>1. final \in BOOLEAN
      OBVIOUS
    <3> HIDE DEF final
    <3>2. edit' = [at |-> "Deleted", number |-> n, last |-> final, moved |-> FALSE]
      BY <2>1 DEF final
    <3> QED
      BY <2>2, <3>1, <3>2 DEF EditType
  <2>4. ~final => n <= Len(rules')
    BY <2>2
  <2>5. EditHolds'
    BY <2>3, <2>4 DEF EditHolds, Wall!EditLosesOnlyTheLast
  <2>6. UNCHANGED made
    BY <1>2 DEF Wall!SaveDeletes
  <2> QED
    BY <1>1, <2>1, <2>5, <2>6, DeletionHolds
<1>3. CASE Wall!SaveInserts
  <2>1. edit.at = "Deleted" /\ edit \in EditType
    BY <1>3, ListIs DEF Wall!SaveInserts, EditHolds
  <2>2. edit \in [at : {"Deleted", "Refused", "Lost"}, number : Nat \ {0}, last : BOOLEAN, moved : BOOLEAN]
    BY <2>1 DEF EditType
  <2>3. CASE edit.number \in 1 .. Len(rules) /\ Wall!Add(0, edit.number) /\ edit' = Wall!NoEdit
    <3>1. edit.number \in 1 .. Len(rules) + 1 /\ 0 \in 0 .. 2
      BY <2>3, ListIs
    <3> QED
      BY <1>1, <2>3, <3>1, NoEditHolds, RuleComes
  <2>4. CASE /\ edit' = [edit EXCEPT !.at = IF edit.number \in 1 .. Len(rules) THEN "Refused" ELSE "Lost"]
             /\ UNCHANGED <<rules, made, everything>>
    <3>1. CASE edit.number \in 1 .. Len(rules)
      <4>1. edit' \in EditType /\ edit'.at = "Refused"
        BY <2>2, <2>4, <3>1 DEF EditType
      <4> QED
        BY <1>1, <2>4, <4>1, ListStays DEF EditHolds, Wall!EditLosesOnlyTheLast
    <3>2. CASE edit.number \notin 1 .. Len(rules)
      <4>1. edit' = [edit EXCEPT !.at = "Lost"]
        BY <2>4, <3>2
      <4>2. edit' \in EditType /\ edit'.at = "Lost" /\ edit'.moved = edit.moved /\ edit'.last = edit.last
        BY <2>2, <4>1 DEF EditType
      <4>3. ~edit.moved => edit.last
        <5>1. edit.number \in Nat \ {0} /\ Len(rules) \in Nat /\ ~(edit.number <= Len(rules))
          BY <2>2, <3>2, ListIs
        <5> QED
          BY <2>1, <5>1, ListIs DEF EditHolds
      <4> QED
        BY <1>1, <2>4, <4>2, <4>3, ListStays DEF EditHolds, Wall!EditLosesOnlyTheLast
    <3> QED
      BY <3>1, <3>2
  <2> QED
    BY <1>3, <2>3, <2>4 DEF Wall!SaveInserts, Wall!InsertPosition
<1>4. CASE Wall!CloseEdit
  BY <1>1, <1>4, NoEditHolds, ListStays DEF Wall!CloseEdit
<1> QED
  BY <1>2, <1>3, <1>4

\* The profile's commands.
LEMMA ProfilePreserves ==
  ASSUME WallSwept, Wall!ToggleProfile \/ Wall!AllowApp \/ Wall!DeleteApp
  PROVE  WallSwept'
<1>1. CASE Wall!ToggleProfile
  <2>1. UNCHANGED <<rules, made, everything, edit>> /\ profile'.next = 1
    BY <1>1 DEF Wall!ToggleProfile
  <2> QED
    BY <2>1, EditStays, ListStays DEF ProfileRuns
<1>2. ASSUME Wall!NextPort, profile.next \in {1, 2} PROVE ProfileRuns'
  <2>1. CASE profile.next = 2
    BY <1>2, <2>1 DEF ProfileRuns, Wall!NextPort
  <2>2. CASE profile.next = 1
    <3>1. profile' = [profile EXCEPT !.next = 2]
      BY <1>2, <2>2 DEF Wall!NextPort
    <3>2. profile'.at \in {"Allowing", "Forbidding"} => profile'.next = 2 \/ profile' = profile
      BY <3>1
    <3> QED
      BY <1>2, <3>2 DEF ProfileRuns
  <2> QED
    BY <1>2, <2>1, <2>2
<1>3. CASE Wall!AllowApp
  <2>1. profile.next \in {1, 2} /\ profile.next \in 0 .. 2
    BY <1>3, ListIs DEF Wall!AllowApp, ProfileRuns
  <2>2. ProfileRuns'
    <3>1. CASE Wall!NextPort
      BY <1>2, <2>1, <3>1
    <3>2. CASE profile' = [at |-> "None"]
      BY <3>2 DEF ProfileRuns
    <3> QED
      BY <1>3, <3>1, <3>2 DEF Wall!AllowApp
  <2>3. CASE UNCHANGED <<rules, made, edit, everything>>
    BY <2>2, <2>3, EditStays, ListStays
  <2>4. CASE edit' = Wall!Disturbed /\ \E spot \in 1 .. Len(rules) + 1 : Wall!Add(profile.next, spot)
    BY <2>1, <2>2, <2>4, EditIsDisturbed, RuleComes
  <2> QED
    BY <1>3, <2>3, <2>4 DEF Wall!AllowApp
<1>4. CASE Wall!DeleteApp
  <2>1. ProfileRuns' /\ UNCHANGED made
    BY <1>2, <1>4, ListIs DEF Wall!DeleteApp, ProfileRuns
  <2>2. CASE UNCHANGED <<rules, edit, everything>>
    BY <2>1, <2>2, EditStays, ListStays
  <2>3. ASSUME NEW n \in DOMAIN rules, everything' = Wall!Shifted(n), edit' = Wall!Disturbed,
               \/ Wall!DeleteNumber(n)
               \/ \E m \in n + 1 .. Len(rules) : rules' = Wall!RemoveAt(Wall!RemoveAt(rules, m), n)
        PROVE  WallSwept'
    <3>1. EditHolds'
      BY <2>3, EditIsDisturbed
    <3>2. CASE Wall!DeleteNumber(n)
      BY <2>1, <2>3, <3>1, <3>2, DeletionHolds
    <3>3. ASSUME NEW m \in n + 1 .. Len(rules), rules' = Wall!RemoveAt(Wall!RemoveAt(rules, m), n)
          PROVE  WallSwept'
      <4> DEFINE p == Wall!RemoveAt(rules, m)
      <4>1. n \in 1 .. Len(rules) /\ m \in 1 .. Len(rules) /\ n \in Nat /\ n > 0 /\ m > n
        BY <2>3, <3>3, ListIs
      <4>2. p \in Seq(Line) /\ Len(p) = Len(rules) - 1
        BY <4>1, ListIs, RemovedElement
      <4>3. \A k \in Nat : k < m => Beyond(rules, p, k, {})
        BY <4>1, ListIs, RemovesBeyond
      <4> HIDE DEF p
      <4>4. n \in 1 .. Len(p) /\ rules' = Wall!RemoveAt(p, n)
        BY <3>3, <4>1, <4>2, ListIs DEF p
      <4>5. rules' \in Seq(Line)
        BY <4>2, <4>4, RemovedElement
      <4>6. ASSUME NEW k \in Nat, k < n PROVE Beyond(rules, rules', k, {})
        <5>1. k < m
          BY <4>1, <4>6
        <5>2. Beyond(rules, p, k, {}) /\ Beyond(p, rules', k, {})
          BY <4>2, <4>3, <4>4, <4>6, <5>1, RemovesBeyond
        <5> QED
          BY <4>2, <4>5, <5>2, ListIs, BeyondTwice
      <4>7. made' \in Nat /\ made' >= made
        BY <2>1, ListIs
      <4> QED
        BY <2>1, <2>3, <3>1, <4>1, <4>5, <4>6, <4>7, ListChanges
    <3> QED
      BY <2>3, <3>2, <3>3
  <2> QED
    BY <1>4, <2>2, <2>3 DEF Wall!DeleteApp
<1> QED
  BY <1>1, <1>3, <1>4

LEMMA RulesPreserve ==
  ASSUME WallSwept, Wall!AddRule \/ Wall!DeleteRule
  PROVE  WallSwept'
<1>1. UNCHANGED profile /\ ProfileRuns' /\ EditHolds' /\ 0 \in 0 .. 2
  BY ListIs, EditIsDisturbed DEF Wall!AddRule, Wall!DeleteRule, ProfileRuns
<1>2. CASE Wall!AddRule
  BY <1>1, <1>2, RuleComes DEF Wall!AddRule
<1>3. CASE Wall!DeleteRule
  BY <1>1, <1>3, DeletionHolds DEF Wall!DeleteRule
<1> QED
  BY <1>2, <1>3

LEMMA WallKeeps == WallInv /\ Wall!Next => WallInv'
<1> SUFFICES ASSUME WallInv, Wall!Next PROVE WallInv'
  OBVIOUS
<1>1. CASE \/ Wall!AddRule \/ Wall!DeleteRule \/ Wall!SaveDeletes \/ Wall!SaveInserts \/ Wall!CloseEdit
           \/ Wall!ReadNumbers \/ Wall!DeleteAllRules \/ Wall!ToggleProfile \/ Wall!AllowApp \/ Wall!DeleteApp
  <2>1. UNCHANGED <<mdns, audit>>
    BY <1>1 DEF Wall!AddRule, Wall!DeleteRule, Wall!SaveDeletes, Wall!SaveInserts, Wall!CloseEdit, Wall!ReadNumbers,
                Wall!DeleteAllRules, Wall!ToggleProfile, Wall!AllowApp, Wall!DeleteApp, Wall!Elsewhere
  <2>2. WallReads' /\ WallListens'
    BY <2>1 DEF WallInv, WallReads, WallListens
  <2>3. WallSwept'
    BY <1>1, RulesPreserve, EditPreserves, ProfilePreserves, SweepHolds, ReadNumbersHolds DEF WallInv
  <2> QED
    BY <2>2, <2>3 DEF WallInv
<1>2. CASE \/ Wall!RefreshMdns \/ Wall!LookMdns \/ Wall!ApplyMdns
           \/ Wall!SetMdns \/ Wall!MdnsHelper \/ Wall!MdnsReturns
  <2>1. UNCHANGED <<rules, made, edit, everything, profile, audit>>
    BY <1>2 DEF Wall!RefreshMdns, Wall!LookMdns, Wall!ApplyMdns, Wall!SetMdns, Wall!MdnsHelper, Wall!MdnsReturns,
                Wall!Discovery
  <2>2. WallSwept
    BY DEF WallInv
  <2>3. EditHolds' /\ ProfileRuns'
    BY <2>1, <2>2, EditStays, ListIs DEF ProfileRuns
  <2>4. WallSwept'
    BY <2>1, <2>2, <2>3, ListStays
  <2>5. WallReads'
    BY <1>2, ReadsPreserve, DiscoveryPreserves DEF WallInv
  <2> QED
    BY <2>1, <2>4, <2>5 DEF WallInv, WallListens
<1>3. CASE Wall!Packet \/ Wall!Tick
  <2>1. UNCHANGED <<rules, made, edit, everything, profile, mdns>>
    BY <1>3 DEF Wall!Packet, Wall!Tick, Wall!Audits
  <2>2. WallSwept
    BY DEF WallInv
  <2>3. EditHolds' /\ ProfileRuns'
    BY <2>1, <2>2, EditStays, ListIs DEF ProfileRuns
  <2>4. WallSwept'
    BY <2>1, <2>2, <2>3, ListStays
  <2>5. WallListens'
    BY <1>3, AuditPreserves DEF WallInv
  <2> QED
    BY <2>1, <2>4, <2>5 DEF WallInv, WallReads
<1> QED
  BY <1>1, <1>2, <1>3 DEF Wall!Next

LEMMA WallThen == WallInv => Wall!UfWallIsHonest
<1> SUFFICES ASSUME WallInv PROVE Wall!UfWallIsHonest
  OBVIOUS
<1>1. Wall!MdnsIsShown
  BY DEF WallInv, WallReads, ReadsFit, Wall!MdnsIsShown
<1>2. Wall!RecentIsListed
  BY DEF WallInv, WallListens, Wall!RecentIsListed
<1>3. WallSwept /\ Wall!EditLosesOnlyTheLast
  BY DEF WallInv, WallSwept, EditHolds
<1>4. ASSUME everything.at = "Sweeping", ~everything.shifted
      PROVE  /\ ~everything.strays
             /\ everything.numbers = <<>> => \A i \in DOMAIN rules : rules[i].made > everything.later
  <2>1. PICK k \in Nat : SweptTo(k)
    BY <1>3, <1>4 DEF WallSwept
  <2>2. ASSUME everything.numbers = <<>> PROVE k = 0
    <3>1. everything.numbers = Wall!DescendingNumbers(k) /\ Len(Wall!DescendingNumbers(k)) = k
      BY <2>1, NumbersDescend DEF SweptTo
    <3> QED
      BY <2>2, <3>1
  <2> QED
    BY <1>3, <2>1, <2>2, ListIs DEF SweptTo
<1>5. Wall!DeleteAllIsExact
  BY <1>4 DEF Wall!DeleteAllIsExact
<1> QED
  BY <1>1, <1>2, <1>3, <1>5 DEF Wall!UfWallIsHonest

LEMMA WallRests == WallInv /\ UNCHANGED ofWall => WallInv'
BY DEF ofWall, WallInv, WallSwept, RuleList, SweptTo, EditHolds, Wall!EditLosesOnlyTheLast, ProfileRuns, WallReads,
       WallListens

\* While the firewall page is not the program that runs, nothing of it changes.
WallBeside == program = "firewall" => WallInv

LEMMA WallBesideHolds == ProgramSpec => []WallBeside
<1>1. ProgramInit => WallBeside
  BY WallStarts DEF ProgramInit, WallBeside
<1>2. WallBeside /\ [ProgramNext]_programVars => WallBeside'
  <2> SUFFICES ASSUME WallBeside, [ProgramNext]_programVars PROVE WallBeside'
    OBVIOUS
  <2>1. CASE ProgramNext
    <3>1. program' = program /\ (program = "firewall" => Wall!Next)
      BY <2>1 DEF ProgramNext
    <3> QED
      BY <3>1, WallKeeps DEF WallBeside
  <2>2. CASE UNCHANGED programVars
    <3>1. program' = program /\ UNCHANGED ofWall
      BY <2>2 DEF programVars
    <3> QED
      BY <3>1, WallRests DEF WallBeside
  <2> QED
    BY <2>1, <2>2
<1> QED
  BY <1>1, <1>2, PTL DEF ProgramSpec

\* For every size of the swap file and wherever the helper fails or is killed between two of its
\* steps, the previous file is there under one of its names until its successor is active, the
\* kernel swaps to no file that is missing and one it may resume from is not replaced, and the
\* stress test runs as long as it says. For any rules, wherever the firewall's pages add and delete
\* them, Delete all deletes just the lines it read unless another command moved their numbers, and
\* an edit that ufw refuses loses the last rule of the list only, unless another command changed it
\* between the edit's two. However many reads of the units overtake the helper and each other, the
\* discovery switch shows their state once a read that began after the helper has set it, and the
\* auditor knows every connection with recent traffic.
THEOREM DesktopToolsAlwaysSafe == ProgramSpec => []DesktopToolsAreSafe
<1>1. SwapBeside /\ WallBeside => DesktopToolsAreSafe
  BY SwapThen, WallThen DEF SwapBeside, WallBeside, DesktopToolsAreSafe, SwapControlIsSafe, UfWallIsHonest
<1> QED
  BY <1>1, SwapBesideHolds, WallBesideHolds, PTL
=============================================================================
