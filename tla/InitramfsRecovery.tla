--------------------------- MODULE InitramfsRecovery ---------------------------
(***************************************************************************)
(* The initramfs side of a rollback: the local-premount hook and           *)
(* RecoveryEngine::execute (recovery.rs).  Every durable effect is a step  *)
(* of its own, so that a power cut can fall between any two of them: a     *)
(* record update, a subvolume command, a filesystem sync, a checkpoint.    *)
(***************************************************************************)
EXTENDS RecoveryState

\* How often the apply and the revert loop look at the layout.
OneRoundPerMove == 3   \* mutant: none is left to see that the layout has converged
ApplyRounds  == 5
RevertRounds == 6

EnginePcs == {"idle", "hook", "engine", "validating", "validate", "begin",
              "loop", "sync", "checkpoint", "done"}

(***************************************************************************)
(* Effects.  Each may fail: the engine then returns the error, the hook    *)
(* logs it and the boot goes on.  A failing update may or may not have     *)
(* replaced the file (the rename precedes the directory fsync), a failing  *)
(* command may or may not have acted, a failing sync may have committed.   *)
(***************************************************************************)
Goto(next) == pc' = next

Write(t, next) ==
  \/ tx' = t /\ Goto(next) /\ UNCHANGED faults
  \/ Fault /\ tx' \in {tx, t} /\ Goto("done")

\* Mutant: the checkpoint is written before the layout is synced.
CommandUnsynced(l, next) == view' = l /\ Goto("checkpoint") /\ UNCHANGED faults

Command(l, next) ==
  \/ view' = l /\ Goto(next) /\ UNCHANGED faults
  \/ Fault /\ view' \in {view, l} /\ Goto("done")

\* Mutant: the sync does nothing.
SyncNothing(next) == Goto(next) /\ UNCHANGED <<disk, faults>>

Sync(next) ==
  \/ disk' = view /\ Goto(next) /\ UNCHANGED faults
  \/ Fault /\ disk' \in {disk, view} /\ Goto("done")

OnlyRecord(P) == P /\ UNCHANGED <<history, lineage, layoutVars, grubVars, bootVars, callVars>>
OnlyControl   == UNCHANGED <<recordVars, layoutVars, grubVars, bootVars, callVars>>

(***************************************************************************)
(* The hook.  It leaves without running the engine when there is no        *)
(* pending file, and when the protocol check, the mount or, on a requested *)
(* boot, the staging of the confirmation engine fails.                     *)
(***************************************************************************)
\* Mutant: the engine runs on requested boots only.
HookIfRequested ==
  /\ pc = "hook"
  /\ Goto(IF tx = None \/ requested = None THEN "done" ELSE "engine")
  /\ UNCHANGED <<rounds, owed, faults>>
  /\ OnlyControl

Hook ==
  /\ pc = "hook"
  /\ \/ Goto(IF tx = None THEN "done" ELSE "engine") /\ UNCHANGED faults
     \/ Fault /\ Goto("done")
  /\ UNCHANGED <<rounds, owed>>
  /\ OnlyControl

(***************************************************************************)
(* RecoveryEngine::execute_with_observer: load, dispatch on the phase, and *)
(* the first update of the chosen path.                                    *)
(***************************************************************************)
StaleArmed ==
  /\ tx.phase = "Armed" /\ requested # tx.id
  /\ tx.initramfs_attempts > 0 /\ tx.initramfs_boot_id # boot

\* Mutant: an interrupted apply that used up its entries fails as well.
ExhaustedAny == requested = tx.id /\ tx.initramfs_attempts >= MaxAttempts

ExhaustedArmed ==
  /\ tx.phase = "Armed" /\ requested = tx.id
  /\ tx.initramfs_attempts >= MaxAttempts

Enterable ==
  /\ requested = tx.id
  /\ CanEnterInitramfs(tx)
  /\ tx.apply_attempts < MaxAttempts

\* Mutant: an apply that may not be retried is left alone.
AbandonedBooted == tx.phase = "BootedUnconfirmed" /\ tx.applying_boot_id # boot

Abandoned ==
  \/ tx.phase = "Applying" /\ ~Enterable
  \/ tx.phase = "BootedUnconfirmed" /\ tx.applying_boot_id # boot

FailSafe ==
  /\ pc = "engine" /\ (StaleArmed \/ ExhaustedArmed)
  /\ OnlyRecord(Write(RecordFailure(tx), "done"))
  /\ UNCHANGED <<rounds, owed>>

Enter ==
  /\ pc = "engine" /\ Enterable
  /\ OnlyRecord(Write(RecordInitramfsEntry(tx, boot), "validating"))
  /\ UNCHANGED <<rounds, owed>>

StartRevert ==
  /\ pc = "engine" /\ Abandoned
  /\ OnlyRecord(Write(RecordCheckpoint(Transition(tx, "Reverting"), "RevertStarted"),
                      "loop"))
  /\ rounds' = RevertRounds /\ UNCHANGED owed

ResumeRevert ==
  /\ pc = "engine" /\ tx.phase = "Reverting"
  /\ Goto("loop") /\ rounds' = RevertRounds
  /\ UNCHANGED <<owed, faults>> /\ OnlyControl

NoAction ==
  /\ pc = "engine"
  /\ ~(StaleArmed \/ ExhaustedArmed \/ Enterable \/ Abandoned)
  /\ tx.phase # "Reverting"
  /\ Goto("done")
  /\ UNCHANGED <<rounds, owed, faults>> /\ OnlyControl

(***************************************************************************)
(* The apply path.                                                         *)
(***************************************************************************)
PersistValidating ==
  /\ pc = "validating"
  /\ OnlyRecord(Write(RecordCheckpoint(tx, "Validating"), "validate"))
  /\ UNCHANGED <<rounds, owed>>

\* validate_deployments: the store's verdict on target and fallback is an input.
ValidateDeployments ==
  /\ pc = "validate"
  /\ Goto("begin")
  /\ UNCHANGED <<rounds, owed, faults>> /\ OnlyControl

\* An invalid deployment is recorded as a failure on the first attempt only; an
\* interrupted apply keeps its phase and is retried or reverted by a later boot.
RejectDeployments ==
  /\ pc = "validate" /\ Fault /\ Goto("done")
  /\ tx' \in (IF tx.phase = "Armed" THEN {tx, RecordFailure(tx)} ELSE {tx})
  /\ UNCHANGED <<history, lineage, layoutVars, grubVars, bootVars, callVars, rounds, owed>>

StartApply ==
  /\ pc = "begin" /\ CanBeginApply(tx, boot)
  /\ OnlyRecord(Write(BeginApply(tx, boot), "loop"))
  /\ rounds' = ApplyRounds /\ UNCHANGED owed

(***************************************************************************)
(* The two convergence loops, apply and revert; the phase tells which one  *)
(* runs.  Each decides on what is there, never on how far the record says  *)
(* it got, and every change of layout is synced before its checkpoint is   *)
(* written.  A set of moves holds the one command the loop issues next and *)
(* the checkpoint it owes for it, or nothing when it knows no way on.      *)
(***************************************************************************)
Move(l, c) == [to |-> l, checkpoint |-> c]

ApplyMoves(l, i) ==
  CASE Present(l) = <<TRUE, FALSE, FALSE>> ->
         {Move(Layout(l.root, None, i), "WritableTargetCreated")}
    [] Present(l) = <<TRUE, FALSE, TRUE>>  ->
         {Move(Layout(None, l.root, l.new), "CurrentRootProtected")}
    [] Present(l) = <<FALSE, TRUE, TRUE>>  ->
         {Move(Layout(l.new, l.old, None), "TargetRootActivated")}
    [] OTHER -> {}

\* Mutant: with both roots in place, the protected one is taken for the discarded.
RevertByDeletingOld(l) ==
  CASE l.root # None                 -> {Move(Layout(l.root, None, None), "DiscardedRootDeleted")}
    [] l.root = None /\ l.old # None -> {Move(Layout(l.old, None, l.new), "FallbackRootActivated")}
    [] OTHER                         -> {}

RevertMoves(l) ==
  CASE Present(l) = <<TRUE, FALSE, TRUE>> ->
         {Move(Layout(l.root, None, None), "DiscardedRootDeleted")}
    [] l.root = None /\ l.old # None ->
         {Move(Layout(l.old, None, l.new), "FallbackRootActivated")}
    [] Present(l) = <<TRUE, TRUE, FALSE>> ->
         {Move(Layout(None, l.old, l.root), "RestoredRootMovedAside")}
    [] OTHER -> {}

Moves == IF tx.phase = "Applying" THEN ApplyMoves(view, tx.id) ELSE RevertMoves(view)

Converged ==
  /\ rounds > 0
  /\ Present(view) = <<TRUE, tx.phase = "Applying", FALSE>>

\* unsafe_state, or a loop that used up its rounds.
UnsafeLayout == pc = "loop" /\ ~Converged /\ (rounds = 0 \/ Moves = {})

LoopStep ==
  /\ pc = "loop" /\ ~Converged
  /\ IF UnsafeLayout
     THEN Goto("done") /\ UNCHANGED <<view, rounds, owed, faults>>
     ELSE /\ rounds' = rounds - 1
          /\ \E m \in Moves : Command(m.to, "sync") /\ owed' = m.checkpoint
  /\ UNCHANGED <<disk, recordVars, grubVars, bootVars, callVars>>

SyncLayout ==
  /\ pc = "sync" /\ Sync("checkpoint")
  /\ UNCHANGED <<view, rounds, owed, recordVars, grubVars, bootVars, callVars>>

PersistCheckpoint ==
  /\ pc = "checkpoint"
  /\ OnlyRecord(Write(RecordCheckpoint(tx, owed), "loop"))
  /\ owed' = None /\ UNCHANGED rounds

RecordBooted ==
  /\ pc = "loop" /\ Converged /\ tx.phase = "Applying"
  /\ OnlyRecord(Write(RecordCheckpoint(Transition(tx, "BootedUnconfirmed"),
                                       "BootedUnconfirmedRecorded"), "done"))
  /\ UNCHANGED <<rounds, owed>>

RecordReverted ==
  /\ pc = "loop" /\ Converged /\ tx.phase = "Reverting"
  /\ OnlyRecord(Write(RecordCheckpoint(Transition(tx, "Reverted"), "RevertedRecorded"),
                      "done"))
  /\ UNCHANGED <<rounds, owed>>

EngineStep ==
  \/ Hook \/ FailSafe \/ Enter \/ StartRevert \/ ResumeRevert \/ NoAction
  \/ PersistValidating \/ ValidateDeployments \/ RejectDeployments \/ StartApply
  \/ LoopStep \/ SyncLayout \/ PersistCheckpoint \/ RecordBooted \/ RecordReverted
=============================================================================
