----------------------------- MODULE Coordination -----------------------------
(***************************************************************************)
(* The two transactions that own the recovery boundary in turn: a rollback *)
(* (rollback.rs up to its record, and what becomes of the record) and a    *)
(* package transaction (package_hook.rs, package_transaction.rs), composed *)
(* with the operations on the deployments they refer to.  What a rollback  *)
(* does between its record and its end is module SystemRollback's.         *)
(***************************************************************************)
EXTENDS Deployments

OnlyPackage  == UNCHANGED <<storeVars, rollback>>
OnlyRollback == UNCHANGED <<storeVars, package>>

(***************************************************************************)
(* schedule: the pending checks and the verification of the target; the    *)
(* safety snapshot; then, under start.lock, the record.                    *)
(***************************************************************************)
Schedule(j, target) ==
  /\ job[j].at = "idle" /\ rollback = None /\ package = None
  /\ OperationLockFree /\ target \in Restorable
  /\ job' = [job EXCEPT ![j] = NewJob("lock", "PreRollback", None, target)]
  /\ OnlyJob /\ UNCHANGED faults

\* Mutant: a package transaction that began meanwhile is not noticed.
ClaimUnchecked(j) ==
  /\ job[j].at = "claim" /\ StartLockFree
  /\ IF rollback # None
     THEN Returns(j, "clean") /\ UNCHANGED rollback
     ELSE WriteRollback(j, Rollback(job[j].target, job[j].id), "idle", "clean")
  /\ OnlyRollback

\* create_transaction looks at both transactions again, at no deployment.
Claim(j) ==
  /\ job[j].at = "claim" /\ StartLockFree
  /\ IF package # None \/ rollback # None
     THEN Returns(j, "clean") /\ UNCHANGED rollback
     ELSE WriteRollback(j, Rollback(job[j].target, job[j].id), "idle", "clean")
  /\ OnlyRollback

\* cleanup_failed_schedule removes the record, whose ever it is.
Clean(j) ==
  /\ job[j].at = "clean" /\ WriteRollback(j, None, "idle", "idle")
  /\ OnlyRollback

ScheduleStep(j) == Claim(j) \/ Clean(j)

(***************************************************************************)
(* What becomes of the record.                                             *)
(***************************************************************************)
\* Cancelled, failed to arm, or failed without a change of the root.
Withdraw ==
  /\ rollback # None /\ ~rollback.applied
  /\ rollback' = None
  /\ UNCHANGED <<storeVars, package, job, faults>>

\* A restart: the initramfs applies a rollback whose deployments are valid.
Apply ==
  /\ rollback # None /\ ~rollback.applied
  /\ {rollback.target, rollback.fallback} \subseteq Restorable
  /\ \A j \in Jobs : job[j].at = "idle"
  /\ rollback' = [rollback EXCEPT !.applied = TRUE]
  /\ disk' = view
  /\ UNCHANGED <<rec, view, lineage, used, package, job, faults>>

\* finish_confirmed and finish_reverted begin with record_activation, which
\* refuses deployments that the lineage never listed.
Settle ==
  /\ rollback # None /\ rollback.applied
  /\ ~EnsureFails
  /\ lineage' = Ensured
  /\ \A i \in {rollback.target, rollback.fallback} : lineage'[i] # "unknown"
  /\ rollback' = None
  /\ UNCHANGED <<rec, view, disk, used, package, job, faults>>

(***************************************************************************)
(* Package transactions.  APT's own lock admits one run at a time; a hook  *)
(* that fails does not stop it.  Either snapshot may be disabled.          *)
(***************************************************************************)
Interrupted(p) == IF p.phase \in TerminalPhases THEN p ELSE Package("Interrupted", p.pre, None)

\* archive updates the record, then renames it into the history.
Archive(j, terminal) == WritePackage(j, {terminal}, None, "idle")

AptIdle == \A j \in Jobs : job[j].kind \notin AptKinds

\* begin_transaction, whole under start.lock: a stale record is archived first.
AptBefore(j) ==
  LET begun == Package("PreparingPre", None, None)
      stale == IF package = None THEN {} ELSE {package, Interrupted(package)} IN
  /\ job[j].at = "idle" /\ AptIdle
  /\ StartLockFree /\ rollback = None
  /\ \/ \E at \in {"lock", "skip_pre"} :
          /\ package' = begun
          /\ job' = [job EXCEPT ![j] = NewJob(at, "AptPre", None, None)]
          /\ UNCHANGED faults
     \/ package' \in {None, begun} \cup stale /\ Errs(j, "idle")
  /\ OnlyPackage

SkipPre(j) ==
  /\ job[j].at = "skip_pre"
  /\ WritePackage(j, {}, Package("AwaitingPost", None, None), "idle")
  /\ OnlyPackage

\* The snapshot is recorded for the post hook, or it was all the policy wants.
RecordPre(j) ==
  LET i == job[j].id IN
  /\ job[j].at = "record_pre"
  /\ \/ WritePackage(j, {}, Package("AwaitingPost", i, None), "idle")
     \/ Archive(j, Package("Complete", i, None))
  /\ OnlyPackage

RecordPost(j) ==
  /\ job[j].at = "record_post"
  /\ Archive(j, Package("Complete", package.pre, job[j].id))
  /\ OnlyPackage

Interrupt(j) ==
  /\ job[j].at = "interrupt"
  /\ Archive(j, Interrupted(package))
  /\ OnlyPackage

\* after_packages, with the post snapshot enabled.
AptAfter(j) ==
  /\ job[j].at = "idle" /\ AptIdle
  /\ package # None /\ package.phase \notin TerminalPhases
  /\ job' = [job EXCEPT ![j] =
               NewJob(IF package.phase = "AwaitingPost" THEN "lock" ELSE "interrupt",
                      "AptPost", None, None)]
  /\ OnlyJob /\ UNCHANGED faults

\* after_packages, with the post snapshot disabled since.
AptAfterDisabled(j) ==
  /\ job[j].at = "idle" /\ AptIdle
  /\ package # None /\ package.phase = "AwaitingPost"
  /\ Archive(j, IF package.pre # None THEN Package("Complete", package.pre, None)
                                      ELSE Interrupted(package))
  /\ OnlyPackage

AptStep(j) == SkipPre(j) \/ RecordPre(j) \/ RecordPost(j) \/ Interrupt(j)

(***************************************************************************)
(* Faults that end jobs.  A process that dies releases its locks.          *)
(***************************************************************************)
Die(j) ==
  /\ job[j].at # "idle" /\ Errs(j, "idle")
  /\ OnlyJob

LosePower ==
  /\ Fault
  /\ job' = [j \in Jobs |-> Idle]
  /\ disk' \in {disk, view} /\ view' = disk'
  /\ UNCHANGED <<rec, lineage, used, rollback, package>>

(***************************************************************************)
(* The whole.  A store begins empty, or with the deployments of a release  *)
(* that kept no lineage.                                                   *)
(***************************************************************************)
Init ==
  /\ rec = [i \in Ids |-> IF i \in Legacy
                          THEN [state |-> "Ready", pinned |-> FALSE, uuid |-> TRUE]
                          ELSE None]
  /\ view = Legacy /\ disk = Legacy /\ used = Legacy
  /\ lineage = None
  /\ rollback = None /\ package = None
  /\ job = [j \in Jobs |-> Idle]
  /\ faults = 0

Begin(j) ==
  \/ \E kind \in {"Manual", "Automatic"} : Create(j, kind)
  \/ \E i \in Ids, kind \in {"Delete", "DeleteAutomatic"} : Delete(j, i, kind)
  \/ \E i \in Ids : Schedule(j, i)
  \/ AptBefore(j) \/ AptAfter(j) \/ AptAfterDisabled(j)

JobStep(j) == CreateStep(j) \/ DeleteStep(j) \/ ScheduleStep(j) \/ AptStep(j)

Next ==
  \/ \E j \in Jobs : Begin(j) \/ JobStep(j) \/ Die(j)
  \/ \E i \in Ids : SetPinned(i)
  \/ Withdraw \/ Apply \/ Settle
  \/ LosePower

Spec == Init /\ [][Next]_vars

(***************************************************************************)
(* Fairness.  Jobs run on, and one that waits for start.lock gets it at    *)
(* some time: the kernel queues the waiters of a flock (SF).  A browse     *)
(* lease ends.  Whoever asked for a deletion that was interrupted asks     *)
(* again, and not always while another operation runs (SF).  The           *)
(* confirmation service tries at every boot to settle an applied rollback. *)
(***************************************************************************)
DeleteAgain(i) ==
  /\ rec[i] # None /\ rec[i].state = "Deleting"
  /\ \E j \in Jobs : Delete(j, i, "Delete")

NoLease(i) == \E j \in Jobs : job[j].id = i /\ AcquireStartLock(j) /\ job'[j].at = "check"

Fairness ==
  /\ \A j \in Jobs : SF_vars(JobStep(j))
  /\ \A i \in Ids : SF_vars(DeleteAgain(i)) /\ SF_vars(NoLease(i))
  /\ WF_vars(Settle)

FairSpec == Spec /\ Fairness
=============================================================================
