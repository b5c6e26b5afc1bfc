------------------------------ MODULE Deployments ------------------------------
(***************************************************************************)
(* OperationEngine (operations.rs): creation, deletion and pinning of      *)
(* system snapshots.  A step is one durable effect of the operation; a     *)
(* creation that is part of a rollback or of a package transaction goes on *)
(* to the steps of module Coordination.                                    *)
(***************************************************************************)
EXTENDS DeploymentStore

OnlyRecords  == UNCHANGED <<view, disk, lineage, used, rollback, package>>
OnlySnapshots == UNCHANGED <<rec, lineage, used, rollback, package>>
OnlyLineage  == UNCHANGED <<rec, view, disk, used, rollback, package>>
OnlyJob      == UNCHANGED <<storeVars, rollback, package>>

\* Where a creation goes when it has returned a record, or an error.
Created(kind) ==
  CASE kind = "PreRollback" -> "claim"
    [] kind = "AptPre"      -> "record_pre"
    [] kind = "AptPost"     -> "record_post"
    [] OTHER                -> "idle"

Failed(kind) == IF kind \in AptKinds THEN "interrupt" ELSE "idle"

(***************************************************************************)
(* create_snapshot.                                                        *)
(***************************************************************************)
Create(j, kind) ==
  /\ job[j].at = "idle"
  /\ job' = [job EXCEPT ![j] = NewJob("lock", kind, None, None)]
  /\ OnlyJob /\ UNCHANGED faults

\* The reserve (no id is left), the lock, the lineage the parent is taken from.
CreateLock(j) ==
  LET failed == Failed(job[j].kind) IN
  /\ job[j].at = "lock"
  /\ IF used = Ids \/ ~OperationLockFree \/ EnsureFails
     THEN Returns(j, failed) /\ UNCHANGED lineage
     ELSE WriteLineage(j, Ensured, "record", failed)
  /\ OnlyLineage

CreateRecord(j) ==
  /\ job[j].at = "record"
  /\ \E i \in Ids \ used, pinned \in (IF job[j].kind = "Manual" THEN BOOLEAN ELSE {FALSE}) :
       LET created == [rec EXCEPT ![i] = Creating(pinned)] IN
       /\ used' = used \cup {i}
       /\ \/ /\ rec' = created /\ UNCHANGED faults
             /\ job' = [job EXCEPT ![j] = NewJob("snapshot", @.kind, i, @.target)]
          \/ rec' \in {rec, created} /\ Errs(j, Failed(job[j].kind))
  /\ UNCHANGED <<view, disk, lineage, rollback, package>>

TakeSnapshot(j) ==
  LET with == view \cup {job[j].id} IN
  /\ job[j].at = "snapshot"
  /\ \/ view' = with /\ Returns(j, "capture")
     \/ view' \in {view, with} /\ Errs(j, "cleanup")
  /\ UNCHANGED disk /\ OnlySnapshots

\* Mutant: the identity is captured and nothing is synced.
CaptureUnsynced(j) ==
  /\ job[j].at = "capture" /\ Returns(j, "commit")
  /\ UNCHANGED <<view, disk>> /\ OnlySnapshots

\* Identity and digests, with the sync before them.
Capture(j) ==
  /\ job[j].at = "capture"
  /\ \/ disk' = view /\ Returns(j, "commit")
     \/ disk' \in {disk, view} /\ Errs(j, "cleanup")
  /\ UNCHANGED view /\ OnlySnapshots

\* The sync that follows finds nothing new to commit.
Commit(j) ==
  LET i == job[j].id IN
  /\ job[j].at = "commit"
  /\ WriteRecord(j, i, [rec[i] EXCEPT !.state = "Ready", !.uuid = TRUE], "list", "cleanup")
  /\ OnlyRecords

\* record_recovery_point.
ListSnapshot(j) ==
  LET i == job[j].id IN
  /\ job[j].at = "list"
  /\ WriteLineage(j, [lineage EXCEPT ![i] = IF @ = "unknown" THEN "available" ELSE @],
                  Created(job[j].kind), "cleanup")
  /\ OnlyLineage

\* cleanup_snapshot, which syncs even when there is nothing to delete.
CleanupSnapshot(j) ==
  /\ job[j].at = "cleanup"
  /\ DeleteSnapshot(j, job[j].id, "fail", "fail")
  /\ OnlySnapshots

\* Mutant: the record becomes Broken.
MarkBroken(j) ==
  LET i == job[j].id
      failed == Failed(job[j].kind) IN
  /\ job[j].at = "fail"
  /\ WriteRecord(j, i, [rec[i] EXCEPT !.state = "Broken", !.uuid = FALSE], failed, failed)
  /\ OnlyRecords

MarkIncomplete(j) ==
  LET i == job[j].id
      failed == Failed(job[j].kind) IN
  /\ job[j].at = "fail"
  /\ WriteRecord(j, i, [rec[i] EXCEPT !.state = "Incomplete", !.uuid = FALSE], failed, failed)
  /\ OnlyRecords

CreateStep(j) ==
  \/ CreateLock(j) \/ CreateRecord(j) \/ TakeSnapshot(j) \/ Capture(j) \/ Commit(j)
  \/ ListSnapshot(j) \/ CleanupSnapshot(j) \/ MarkIncomplete(j)

(***************************************************************************)
(* delete_with_restorable_floor.  Retention asks for a minimum of one      *)
(* restorable deployment, and for deployments that once were Ready.        *)
(***************************************************************************)
Referenced(i) ==
  \/ rollback # None /\ i \in {rollback.target, rollback.fallback}
  \/ package # None /\ i \in {package.pre, package.post}

\* Mutant: the floor counts records, whether or not their snapshots are there.
FloorByRecords(i) ==
  /\ ~rec[i].pinned
  /\ rec[i].state = "Ready" =>
       Cardinality({k \in Known : rec[k].state = "Ready"}) > 1

FloorAllows(i) ==
  /\ ~rec[i].pinned /\ Issues = {}
  /\ rec[i].state = "Ready" => Cardinality(Restorable) > 1

Delete(j, i, kind) ==
  /\ job[j].at = "idle" /\ OperationLockFree
  /\ rec[i] # None /\ (kind = "DeleteAutomatic" => rec[i].uuid)
  /\ job' = [job EXCEPT ![j] = NewJob("await_start", kind, i, None)]
  /\ OnlyJob /\ UNCHANGED faults

\* Waits for start.lock; then an open browse lease of the snapshot refuses.
AcquireStartLock(j) ==
  /\ job[j].at = "await_start" /\ StartLockFree
  /\ \E at \in {"check", "idle"} : Returns(j, at)
  /\ OnlyJob

\* Mutant: a deletion is never resumed.
DeleteCheckOnce(j) ==
  LET i == job[j].id IN
  /\ job[j].at = "check"
  /\ Returns(j, IF CanDelete(rec[i]) /\ ~Referenced(i) THEN "mark" ELSE "idle")
  /\ OnlyJob

\* An interrupted deletion is resumed whatever the floor.
DeleteCheck(j) ==
  LET i == job[j].id
      allowed == /\ CanDelete(rec[i])
                 /\ job[j].kind = "DeleteAutomatic" => FloorAllows(i)
                 /\ <<rec[i].state, "Deleting">> \in CanTransition IN
  /\ job[j].at = "check"
  /\ Returns(j, IF Referenced(i) THEN "idle"
                ELSE IF rec[i].state = "Deleting" THEN "remove_snapshot"
                ELSE IF allowed THEN "mark" ELSE "idle")
  /\ OnlyJob

\* Mutant: the snapshot goes first.
MarkSkipped(j) ==
  /\ job[j].at = "mark" /\ Returns(j, "remove_snapshot") /\ OnlyJob

MarkDeleting(j) ==
  LET i == job[j].id IN
  /\ job[j].at = "mark"
  /\ WriteRecord(j, i, [rec[i] EXCEPT !.state = "Deleting"], "remove_snapshot", "idle")
  /\ OnlyRecords

RemoveSnapshot(j) ==
  /\ job[j].at = "remove_snapshot"
  /\ IF job[j].id \in view
     THEN DeleteSnapshot(j, job[j].id, "unlist", "idle")
     ELSE Returns(j, "unlist") /\ UNCHANGED <<view, disk>>
  /\ OnlySnapshots

\* mark_snapshot_removed: a deployment that the lineage never listed is an error.
Unlist(j) ==
  LET i == job[j].id IN
  /\ job[j].at = "unlist"
  /\ CASE EnsureFails            -> Returns(j, "idle") /\ UNCHANGED lineage
       [] ~EnsureFails /\ Ensured[i] = "unknown" -> WriteLineage(j, Ensured, "idle", "idle")
       [] OTHER -> WriteLineage(j, [Ensured EXCEPT ![i] = "removed"], "remove_record", "idle")
  /\ OnlyLineage

\* With the final sync.
RemoveRecord(j) ==
  LET without == [rec EXCEPT ![job[j].id] = None] IN
  /\ job[j].at = "remove_record"
  /\ \/ rec' = without /\ disk' = view /\ Returns(j, "idle")
     \/ rec' \in {rec, without} /\ disk' \in {disk, view} /\ Errs(j, "idle")
  /\ UNCHANGED <<view, lineage, used, rollback, package>>

DeleteStep(j) ==
  \/ AcquireStartLock(j) \/ DeleteCheck(j) \/ MarkDeleting(j) \/ RemoveSnapshot(j)
  \/ Unlist(j) \/ RemoveRecord(j)

\* set_pinned, whole under operation.lock.
SetPinned(i) ==
  /\ OperationLockFree
  /\ rec[i] # None /\ rec[i].state # "Deleting"
  /\ rec' = [rec EXCEPT ![i].pinned = ~@]
  /\ UNCHANGED <<view, disk, lineage, used, rollback, package, job, faults>>
=============================================================================
