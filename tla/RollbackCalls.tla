----------------------------- MODULE RollbackCalls -----------------------------
(***************************************************************************)
(* The userspace side of a rollback: RollbackCoordinator::schedule and     *)
(* cancel (rollback.rs), called over D-Bus, and ConfirmationEngine::       *)
(* reconcile (confirmation.rs), run by the confirmation service at every   *)
(* boot and by a D-Bus call.  Nothing serialises them: each backend call   *)
(* is a step, and the steps of two activities interleave.                  *)
(*                                                                         *)
(* What schedule reads before it draws an id (layout, target, package      *)
(* transaction, recovery kernel) decides only whether the call starts and  *)
(* is not modelled here.                                                   *)
(***************************************************************************)
EXTENDS RecoveryState

CallSteps == {"idle",
  "create", "regenerate", "verify", "arm_record", "arm_boot",  \* schedule
  "clean_clear", "clean_remove", "clean_regenerate",           \* its cleanup
  "cancel_clear", "cancel_remove", "cancel_regenerate",        \* cancel
  "record", "lineage", "delete_old", "clear", "archive",       \* reconcile
  "remove", "finish"}

(***************************************************************************)
(* A backend call either returns, and the activity goes to its next step,  *)
(* or returns an error, with or without its effect, and the activity goes  *)
(* where the ? operator or the cleanup takes it.                           *)
(***************************************************************************)
AdvanceCall(c, next) ==
  /\ call' = [call EXCEPT ![c] = next]
  /\ held' = IF next = "idle" THEN [held EXCEPT ![c] = None] ELSE held

Returns(c, next) == AdvanceCall(c, next) /\ UNCHANGED faults
Errs(c, next)    == Fault /\ AdvanceCall(c, next)

WriteRecord(c, t, next, err) ==
  \/ tx' = t /\ Returns(c, next)
  \/ tx' \in {tx, t} /\ Errs(c, err)

WriteSelector(c, s, next, err) ==
  \/ selector' = s /\ Returns(c, next)
  \/ selector' \in {selector, s} /\ Errs(c, err)

\* update-grub writes the entry of whatever rollback is pending by then.
WriteMenu(c, next, err) ==
  \/ menu' = MenuEntry(tx) /\ Returns(c, next)
  \/ menu' \in {menu, MenuEntry(tx)} /\ Errs(c, err)

RestOfRecord   == UNCHANGED <<history, lineage, layoutVars, grubVars, bootVars,
                              engineVars, issued>>
RestOfSelector == UNCHANGED <<recordVars, layoutVars, menu, bootVars, engineVars, issued>>
RestOfMenu     == UNCHANGED <<recordVars, layoutVars, selector, bootVars, engineVars, issued>>
OnlyCall       == UNCHANGED <<recordVars, layoutVars, grubVars, bootVars, engineVars, issued>>

InUserspace == power = "user"

(***************************************************************************)
(* schedule.  The pending check, the creation of the record and its later  *)
(* update are separate looks at one file.                                  *)
(***************************************************************************)
\* Mutant: an id may be drawn twice.
ScheduleStaleId(c) ==
  /\ InUserspace /\ call[c] = "idle" /\ tx = None
  /\ \E i \in TxIds : held' = [held EXCEPT ![c] = NewTransaction(i)]
  /\ call' = [call EXCEPT ![c] = "create"]
  /\ UNCHANGED <<recordVars, layoutVars, grubVars, bootVars, engineVars, faults, issued>>

Schedule(c) ==
  /\ InUserspace /\ call[c] = "idle" /\ tx = None
  /\ \E i \in TxIds \ issued :
       /\ issued' = issued \cup {i}
       /\ held' = [held EXCEPT ![c] = NewTransaction(i)]
  /\ call' = [call EXCEPT ![c] = "create"]
  /\ UNCHANGED <<recordVars, layoutVars, grubVars, bootVars, engineVars, faults>>

\* TransactionStore::create, under the start lock.  The -old- and -new- names
\* of the new id are free.
CreateRecord(c) ==
  /\ call[c] = "create"
  /\ IF tx # None
     THEN Returns(c, "clean_clear") /\ UNCHANGED <<tx, layoutVars>>
     ELSE /\ WriteRecord(c, held[c], "regenerate", "clean_clear")
          /\ view' = IF tx' = None THEN view ELSE Layout(view.root, None, None)
          /\ disk' = IF tx' = None THEN disk ELSE Layout(disk.root, None, None)
  /\ UNCHANGED <<history, lineage, grubVars, bootVars, engineVars, issued>>

RegenerateMenu(c) ==
  /\ call[c] = "regenerate" /\ WriteMenu(c, "verify", "clean_clear")
  /\ RestOfMenu

VerifyMenu(c) ==
  /\ call[c] = "verify"
  /\ \/ Returns(c, IF menu = held[c].id THEN "arm_record" ELSE "clean_clear")
     \/ Errs(c, "clean_clear")
  /\ OnlyCall

\* update replaces whatever record is pending, whichever id it bears.
ArmRecord(c) ==
  /\ call[c] = "arm_record"
  /\ IF tx = None
     THEN Returns(c, "clean_clear") /\ UNCHANGED tx
     ELSE WriteRecord(c, Transition(held[c], "Armed"), "arm_boot", "clean_clear")
  /\ RestOfRecord

\* arm_pending_once selects the pending rollback, then schedule compares ids.
ArmBoot(c) ==
  /\ call[c] = "arm_boot"
  /\ IF tx = None \/ tx.phase # "Armed"
     THEN Returns(c, "clean_clear") /\ UNCHANGED selector
     ELSE WriteSelector(c, tx.id, IF tx.id = held[c].id THEN "idle" ELSE "clean_clear",
                        "clean_clear")
  /\ RestOfSelector

\* cleanup_failed_schedule tries all three, whatever fails.
CleanClear(c) ==
  /\ call[c] = "clean_clear" /\ WriteSelector(c, None, "clean_remove", "clean_remove")
  /\ RestOfSelector

CleanRemove(c) ==
  /\ call[c] = "clean_remove" /\ WriteRecord(c, None, "clean_regenerate", "clean_regenerate")
  /\ RestOfRecord

CleanRegenerate(c) ==
  /\ call[c] = "clean_regenerate" /\ WriteMenu(c, "idle", "idle")
  /\ RestOfMenu

ScheduleStep(c) ==
  \/ CreateRecord(c) \/ RegenerateMenu(c) \/ VerifyMenu(c) \/ ArmRecord(c) \/ ArmBoot(c)
  \/ CleanClear(c) \/ CleanRemove(c) \/ CleanRegenerate(c)

(***************************************************************************)
(* cancel.                                                                 *)
(***************************************************************************)
\* Mutant: a rollback may be cancelled in any phase.
CancelAnyPhase(c) ==
  /\ InUserspace /\ call[c] = "idle" /\ tx # None
  /\ Returns(c, "cancel_clear")
  /\ OnlyCall

Cancel(c) ==
  /\ InUserspace /\ call[c] = "idle"
  /\ tx # None /\ tx.phase \in {"Preparing", "Armed"}
  /\ Returns(c, "cancel_clear")
  /\ OnlyCall

CancelClear(c) ==
  /\ call[c] = "cancel_clear" /\ WriteSelector(c, None, "cancel_remove", "idle")
  /\ RestOfSelector

CancelRemove(c) ==
  /\ call[c] = "cancel_remove" /\ WriteRecord(c, None, "cancel_regenerate", "idle")
  /\ RestOfRecord

CancelRegenerate(c) ==
  /\ call[c] = "cancel_regenerate" /\ WriteMenu(c, "idle", "idle")
  /\ RestOfMenu

CancelStep(c) == CancelClear(c) \/ CancelRemove(c) \/ CancelRegenerate(c)

(***************************************************************************)
(* reconcile.  It loads the record once, decides on it, and resumes the    *)
(* list of a terminal phase from its top: every step must bear repetition. *)
(***************************************************************************)
\* verify_running_target; the kernel release is that of the recovery entry.
RunningAnyBoot == Parent(view.root) = TargetOf[tx.id]   \* mutant: in whichever boot

RunningTarget ==
  tx.applying_boot_id = boot /\ Parent(view.root) = TargetOf[tx.id]

\* The phases reconcile acts on, with the record it goes on with.
\* Mutant: a reverted rollback is not taken up again.
ReconciledUnlessReverted ==
  CASE tx.phase = "BootedUnconfirmed" /\ RunningTarget -> {Transition(tx, "Confirmed")}
    [] tx.phase \in {"Confirmed", "Failed"}            -> {tx}
    [] OTHER                                           -> {}

\* Mutant: a target that runs is confirmed before the engine recorded it.
ReconciledEarly ==
  CASE tx.phase \in {"Applying", "BootedUnconfirmed"} /\ RunningTarget ->
         {Transition(tx, "Confirmed")}
    [] tx.phase \in Terminal -> {tx}
    [] OTHER                 -> {}

Reconciled ==
  CASE tx.phase = "Armed" /\ requested = tx.id          -> {RecordFailure(tx)}
    [] tx.phase = "BootedUnconfirmed" /\ RunningTarget -> {Transition(tx, "Confirmed")}
    [] tx.phase \in Terminal                           -> {tx}
    [] OTHER                                           -> {}

\* Where the lists of finish_confirmed, finish_reverted and finish_failed start.
FinishUnrecorded(t) == IF t.phase = "Confirmed" THEN "lineage" ELSE "clear"      \* mutant
FinishByDeleting(t) == IF t.phase = "Confirmed" THEN "delete_old" ELSE "clear"   \* mutant

Finish(t) == IF t.phase = "Failed" THEN "clear" ELSE "lineage"

Reconcile(c) ==
  /\ InUserspace /\ call[c] = "idle" /\ tx # None
  /\ \E t \in Reconciled :
       /\ held' = [held EXCEPT ![c] = t]
       /\ call' = [call EXCEPT ![c] = IF t = tx THEN Finish(t) ELSE "record"]
  /\ serviced' = TRUE
  /\ UNCHANGED <<recordVars, layoutVars, grubVars, power, boot, requested, engineVars,
                 issued, faults>>

\* Nothing to do, or not the verified target; the service is not run again.
ReconcileRefused ==
  /\ InUserspace /\ ~serviced
  /\ tx # None => Reconciled = {}
  /\ serviced' = TRUE
  /\ UNCHANGED <<recordVars, layoutVars, grubVars, power, boot, requested, engineVars,
                 callVars, faults>>

RecordOutcome(c) ==
  /\ call[c] = "record"
  /\ IF tx = None
     THEN Returns(c, "idle") /\ UNCHANGED tx
     ELSE WriteRecord(c, held[c], Finish(held[c]), "idle")
  /\ RestOfRecord

\* record_activation: the same outcome twice is one activation, another is an error.
RecordLineage(c) ==
  LET i == held[c].id
      outcome == held[c].phase
      next == IF outcome = "Confirmed" THEN "delete_old" ELSE "clear"
      recorded == [lineage EXCEPT ![i] = outcome] IN
  /\ call[c] = "lineage"
  /\ IF lineage[i] \notin {None, outcome}
     THEN Returns(c, "idle") /\ UNCHANGED lineage
     ELSE \/ lineage' = recorded /\ Returns(c, next)
          \/ lineage' \in {lineage, recorded} /\ Errs(c, "idle")
  /\ UNCHANGED <<tx, history, layoutVars, grubVars, bootVars, engineVars, issued>>

\* btrfs subvolume delete --commit-after; an old root that is not there needs no
\* command, and so no commit.
DeleteOldRoot(c) ==
  LET without == Layout(view.root, None, view.new) IN
  /\ call[c] = "delete_old"
  /\ IF view.old = None
     THEN Returns(c, "clear") /\ UNCHANGED layoutVars
     ELSE \/ view' = without /\ disk' = without /\ Returns(c, "clear")
          \/ view' \in {view, without} /\ disk' \in {disk, view'} /\ Errs(c, "idle")
  /\ UNCHANGED <<recordVars, grubVars, bootVars, engineVars, issued>>

\* Mutant: the record is removed before it is archived.
ClearThenRemove(c) ==
  /\ call[c] = "clear" /\ WriteSelector(c, None, "remove", "idle")
  /\ RestOfSelector

ClearSelector(c) ==
  /\ call[c] = "clear" /\ WriteSelector(c, None, "archive", "idle")
  /\ RestOfSelector

ArchiveRecord(c) ==
  LET archived == [history EXCEPT ![held[c].id] = held[c].phase] IN
  /\ call[c] = "archive"
  /\ \/ history' = archived /\ Returns(c, "remove")
     \/ history' \in {history, archived} /\ Errs(c, "idle")
  /\ UNCHANGED <<tx, lineage, layoutVars, grubVars, bootVars, engineVars, issued>>

RemoveRecord(c) ==
  /\ call[c] = "remove" /\ WriteRecord(c, None, "finish", "idle")
  /\ RestOfRecord

FinishMenu(c) ==
  /\ call[c] = "finish" /\ WriteMenu(c, "idle", "idle")
  /\ RestOfMenu

ReconcileStep(c) ==
  \/ RecordOutcome(c) \/ RecordLineage(c) \/ DeleteOldRoot(c) \/ ClearSelector(c)
  \/ ArchiveRecord(c) \/ RemoveRecord(c) \/ FinishMenu(c)

CallStep(c) == ScheduleStep(c) \/ CancelStep(c) \/ ReconcileStep(c)
CallStart(c) == Schedule(c) \/ Cancel(c) \/ Reconcile(c)

\* Any package that installs a kernel runs update-grub too.
UpdateGrub ==
  /\ InUserspace /\ menu' = MenuEntry(tx)
  /\ UNCHANGED <<recordVars, layoutVars, selector, bootVars, engineVars, callVars, faults>>
=============================================================================
