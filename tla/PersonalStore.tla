----------------------------- MODULE PersonalStore -----------------------------
(***************************************************************************)
(* The store of the Home snapshots (personal.rs): one metadata record and  *)
(* one read-only snapshot of @home each, one operation.lock and one browse *)
(* lock per snapshot.  Every call of the engine is a job of the helper;    *)
(* what a job holds of the locks follows from the step it has reached.     *)
(***************************************************************************)
EXTENDS Naturals, FiniteSets

CONSTANTS
  None,
  Ids,        \* snapshot ids; PersonalSnapshotId::new draws none twice
  Jobs,       \* calls that may run at the same time
  Interval,   \* snapshot_interval_hours
  KeepAll,    \* keep_all_hours
  MaxTime,    \* bound of the clock
  MaxFaults   \* failing calls, deaths of the helper and power cuts

ASSUME HomeConstants ==
  /\ Interval \in Nat \ {0} /\ KeepAll \in Nat \ {0}
  /\ MaxTime \in Nat /\ MaxFaults \in Nat

VARIABLES
  rec,        \* personal/metadata/<id>.json
  view,       \* the snapshots the running kernel shows
  disk,       \* the snapshots the last commit holds
  drawn,      \* ids drawn so far
  clock,      \* the wall clock in hours
  job,
  faults

vars == <<rec, view, disk, drawn, clock, job, faults>>

(***************************************************************************)
(* Records.                                                                *)
(***************************************************************************)
States == {"Creating", "Ready", "Broken", "Deleting"}
Kinds  == {"Manual", "Automatic"}
Record == [state : States, kind : Kinds, pinned : BOOLEAN, created : 0 .. MaxTime]

NewRecord(kind, pinned) ==
  [state |-> "Creating", kind |-> kind, pinned |-> pinned, created |-> clock]

CanDelete(r) == ~r.pinned

Known == {i \in Ids : rec[i] # None}

\* discover: a record is listed with its snapshot, or without it when it is
\* being deleted; every other record is an issue.
Listed == {i \in Known : i \in view \/ rec[i].state = "Deleting"}
Issues == Known \ Listed

\* verify: what can be browsed and restored from.
Restorable == {i \in Listed : rec[i].state = "Ready"}

\* scheduled_snapshot_due: the newest usable snapshot is old enough.  An age
\* below zero, of a clock set back, is below every interval.
Due(now) == \A i \in Restorable : now >= rec[i].created + Interval

(***************************************************************************)
(* Jobs.  A creation and a deletion wait for operation.lock; a deletion    *)
(* tries the browse lock of its snapshot, a reader waits for it.           *)
(***************************************************************************)
CreateSteps == {"snapshot", "sync", "publish", "spoil", "discard"}
DeleteSteps == {"remove", "forget"}
ReadSteps   == {"reading"}
Steps == {"idle", "scheduled", "delete", "lock_shared"}
           \cup CreateSteps \cup DeleteSteps \cup ReadSteps

\* id: the snapshot worked on; now: the time a scheduled creation was asked for;
\* todo: the deletions this call has still to make.
Job == [at : Steps, id : Ids \cup {None}, now : 0 .. MaxTime, todo : SUBSET Ids]

NewJob(at, id, now, todo) == [at |-> at, id |-> id, now |-> now, todo |-> todo]
Idle == NewJob("idle", None, 0, {})

ASSUME HomeNone == None \notin Ids /\ None \notin Record

LockSteps == CreateSteps \cup DeleteSteps
OperationLockFree == \A j \in Jobs : job[j].at \notin LockSteps
\* A deletion holds the browse lock alone, readers share it.
Readers(i)  == {j \in Jobs : job[j].at \in ReadSteps /\ job[j].id = i}
Deleters(i) == {j \in Jobs : job[j].at \in DeleteSteps /\ job[j].id = i}

Become(j, with) == job' = [job EXCEPT ![j] = with]
Goto(j, at)     == Become(j, IF at = "idle" THEN Idle ELSE [job[j] EXCEPT !.at = at])

\* Where a deletion goes when it has returned: to the next one of the call.
AfterDelete(j) ==
  IF job[j].todo = {} THEN Idle ELSE NewJob("delete", None, 0, job[j].todo)

Fault == faults < MaxFaults /\ faults' = faults + 1
NoFault == UNCHANGED faults

\* write_record and the removal of a record: temporary file, fsync, rename,
\* fsync of the directory.  When it fails the new file may be in place or not.
WriteRecord(j, i, r, next, err) ==
  \/ rec' = [rec EXCEPT ![i] = r] /\ Become(j, next) /\ NoFault
  \/ rec' \in {rec, [rec EXCEPT ![i] = r]} /\ Become(j, err) /\ Fault

\* btrfs subvolume delete --commit-after.
DeleteSnapshot(j, i, next, err) ==
  \/ view' = view \ {i} /\ disk' = view' /\ Become(j, next) /\ NoFault
  \/ view' \in {view, view \ {i}} /\ disk' \in {disk, view'} /\ Become(j, err) /\ Fault

At(j, step) == [job[j] EXCEPT !.at = step]
=============================================================================
