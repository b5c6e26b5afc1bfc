--------------------------- MODULE PersonalSnapshots ---------------------------
(***************************************************************************)
(* PersonalSnapshotEngine (personal.rs) and the calls of the helper that   *)
(* reach it: manual and scheduled creation, deletion of one or several     *)
(* snapshots, protection, browsing, and the Home half of the automatic     *)
(* cleanup.  The helper runs its methods concurrently and every method     *)
(* makes an engine of its own, so all that serialises them are the locks.  *)
(***************************************************************************)
EXTENDS PersonalStore

OnlyJob       == UNCHANGED <<rec, view, disk, drawn, clock>>
OnlyRecords   == UNCHANGED <<view, disk, drawn, clock>>
OnlySnapshots == UNCHANGED <<rec, drawn, clock>>

(***************************************************************************)
(* Creation.                                                               *)
(***************************************************************************)
\* The notification before a scheduled snapshot and its ten seconds come first:
\* now is read after them and before the lock.
CreateScheduled(j) ==
  /\ job[j].at = "idle"
  /\ Become(j, NewJob("scheduled", None, clock, {}))
  /\ OnlyJob /\ NoFault

\* The first lines of create_locked.  The reserve of free space is an id left.
RecordCreating(j, kind, pinned) ==
  \E i \in Ids \ drawn :
    /\ drawn' = drawn \cup {i}
    /\ WriteRecord(j, i, NewRecord(kind, pinned), NewJob("snapshot", i, 0, {}), Idle)
    /\ UNCHANGED <<view, disk, clock>>

CreateManual(j) ==
  /\ job[j].at = "idle" /\ OperationLockFree
  /\ \E pinned \in BOOLEAN : RecordCreating(j, "Manual", pinned)

\* Not due, or no space.
Refuse(j) == Become(j, Idle) /\ OnlyJob /\ NoFault

\* Mutant: the caller looked whether a snapshot is due before it had the lock.
ScheduledUnchecked(j) ==
  /\ job[j].at = "scheduled" /\ OperationLockFree
  /\ IF drawn = Ids THEN Refuse(j) ELSE RecordCreating(j, "Automatic", FALSE)

ScheduledLock(j) ==
  /\ job[j].at = "scheduled" /\ OperationLockFree
  /\ IF Due(job[j].now) /\ drawn # Ids THEN RecordCreating(j, "Automatic", FALSE) ELSE Refuse(j)

TakeSnapshot(j) ==
  LET with == view \cup {job[j].id} IN
  /\ job[j].at = "snapshot"
  /\ \/ view' = with /\ Goto(j, "sync") /\ NoFault
     \/ view' \in {view, with} /\ Goto(j, "spoil") /\ Fault
  /\ UNCHANGED disk /\ OnlySnapshots

\* Mutant: the record is published before the file system is synced.
SyncNothing(j) ==
  job[j].at = "sync" /\ Goto(j, "publish") /\ NoFault /\ UNCHANGED <<view, disk>> /\ OnlySnapshots

SyncHome(j) ==
  /\ job[j].at = "sync"
  /\ \/ disk' = view /\ Goto(j, "publish") /\ NoFault
     \/ disk' \in {disk, view} /\ Goto(j, "spoil") /\ Fault
  /\ UNCHANGED view /\ OnlySnapshots

Publish(j) ==
  LET i == job[j].id IN
  /\ job[j].at = "publish"
  /\ WriteRecord(j, i, [rec[i] EXCEPT !.state = "Ready"], Idle, At(j, "spoil"))
  /\ OnlyRecords

\* The cleanup of create_locked ignores what fails of it.
Spoil(j) ==
  LET i == job[j].id IN
  /\ job[j].at = "spoil"
  /\ WriteRecord(j, i, [rec[i] EXCEPT !.state = "Broken"], At(j, "discard"), At(j, "discard"))
  /\ OnlyRecords

Discard(j) ==
  /\ job[j].at = "discard"
  /\ IF job[j].id \in view
     THEN DeleteSnapshot(j, job[j].id, Idle, Idle)
     ELSE Become(j, Idle) /\ NoFault /\ UNCHANGED <<view, disk>>
  /\ OnlySnapshots

(***************************************************************************)
(* Deletion, of the snapshots one call names.                              *)
(***************************************************************************)
Delete(j) ==
  /\ job[j].at = "idle"
  /\ \E selected \in SUBSET Known \ {{}} :
       Become(j, NewJob("delete", None, 0, selected))
  /\ OnlyJob /\ NoFault

\* Mutant: what may be deleted was decided from the listing.
RefusedNever(i) == rec[i] = None

\* Busy, gone or protected.
Refused(i) == Readers(i) # {} \/ rec[i] = None \/ (rec[i] # None /\ ~CanDelete(rec[i]))

DeleteLock(j) ==
  /\ job[j].at = "delete" /\ OperationLockFree
  /\ \E i \in job[j].todo :
       LET rest == job[j].todo \ {i}
           next == IF rest = {} THEN Idle ELSE NewJob("delete", None, 0, rest) IN
       IF Refused(i)
       THEN Become(j, next) /\ NoFault /\ UNCHANGED rec
       ELSE WriteRecord(j, i, [rec[i] EXCEPT !.state = "Deleting"],
                        NewJob(IF i \in view THEN "remove" ELSE "forget", i, 0, rest), next)
  /\ OnlyRecords

RemoveSnapshot(j) ==
  /\ job[j].at = "remove"
  /\ DeleteSnapshot(j, job[j].id, At(j, "forget"), AfterDelete(j))
  /\ OnlySnapshots

ForgetRecord(j) ==
  /\ job[j].at = "forget"
  /\ WriteRecord(j, job[j].id, None, AfterDelete(j), AfterDelete(j))
  /\ OnlyRecords

(***************************************************************************)
(* set_pinned, whole under the lock.                                       *)
(***************************************************************************)
SetPinned(j) ==
  /\ job[j].at = "idle" /\ OperationLockFree
  /\ \E i \in Known, pinned \in BOOLEAN :
       /\ rec[i].state = "Ready" /\ rec[i].pinned # pinned
       /\ WriteRecord(j, i, [rec[i] EXCEPT !.pinned = pinned], Idle, Idle)
  /\ OnlyRecords

(***************************************************************************)
(* Browsing.  verify looks at the record before the lock is asked for;     *)
(* a snapshot that is gone by then cannot be opened.                       *)
(***************************************************************************)
Verify(j) ==
  /\ job[j].at = "idle"
  /\ \E i \in Restorable : Become(j, NewJob("lock_shared", i, 0, {}))
  /\ OnlyJob /\ NoFault

\* Mutant: a reader does not wait for a deletion.
OpenAtOnce(j) ==
  /\ job[j].at = "lock_shared"
  /\ Goto(j, IF job[j].id \in view THEN "reading" ELSE "idle")
  /\ OnlyJob /\ NoFault

Open(j) ==
  /\ job[j].at = "lock_shared" /\ Deleters(job[j].id) = {}
  /\ Goto(j, IF job[j].id \in view THEN "reading" ELSE "idle")
  /\ OnlyJob /\ NoFault

EndReading(j) == job[j].at = "reading" /\ Goto(j, "idle") /\ OnlyJob /\ NoFault

(***************************************************************************)
(* The Home half of apply_schedule_retention_impl: it decides from one     *)
(* listing and deletes one by one.  What evaluate_retention may decide is  *)
(* the subject of module Retention.                                        *)
(***************************************************************************)
Candidates == {i \in Restorable : ~rec[i].pinned /\ clock >= rec[i].created + KeepAll}
Cleanups   == {selected \in SUBSET Candidates : Restorable \ selected # {}}

Cleanup(j) ==
  /\ job[j].at = "idle" /\ Issues = {}
  /\ \E selected \in Cleanups \ {{}} : Become(j, NewJob("delete", None, 0, selected))
  /\ OnlyJob /\ NoFault

(***************************************************************************)
(* The helper dies with its calls, the machine loses power with all that   *)
(* no transaction of the file system holds.                                *)
(***************************************************************************)
AllIdle == job' = [j \in Jobs |-> Idle]

HelperDies == Fault /\ AllIdle /\ OnlyJob

\* A record that was being written is there or not: the same two outcomes as a
\* failure, which a fault before this one gives.
LosePower ==
  /\ Fault /\ AllIdle
  /\ \E kept \in SUBSET (view \cup disk) :
       view \cap disk \subseteq kept /\ view' = kept /\ disk' = kept
  /\ OnlySnapshots

Tick == clock < MaxTime /\ clock' = clock + 1 /\ NoFault /\ UNCHANGED <<rec, view, disk, drawn, job>>

CreateStep(j) ==
  \/ ScheduledLock(j) \/ TakeSnapshot(j) \/ SyncHome(j) \/ Publish(j)
  \/ Spoil(j) \/ Discard(j)
DeleteStep(j) == DeleteLock(j) \/ RemoveSnapshot(j) \/ ForgetRecord(j)
ReadStep(j)   == Open(j) \/ EndReading(j)
JobStep(j)    == CreateStep(j) \/ DeleteStep(j) \/ ReadStep(j)

Begin(j) ==
  \/ CreateManual(j) \/ CreateScheduled(j) \/ Delete(j) \/ SetPinned(j) \/ Verify(j) \/ Cleanup(j)

Init ==
  /\ rec = [i \in Ids |-> None] /\ view = {} /\ disk = {} /\ drawn = {} /\ clock = 0
  /\ job = [j \in Jobs |-> Idle] /\ faults = 0

Next == Tick \/ HelperDies \/ LosePower \/ \E j \in Jobs : Begin(j) \/ JobStep(j)

Spec == Init /\ [][Next]_vars
=============================================================================
