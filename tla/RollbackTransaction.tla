-------------------------- MODULE RollbackTransaction --------------------------
(***************************************************************************)
(* The durable rollback record and its phase machine (transaction.rs).     *)
(*                                                                         *)
(* Everything here is a constant-level operator: the operations are        *)
(* functions from a record to the record the code would write, each with a *)
(* Can... predicate for the early returns that refuse it.  The record      *)
(* keeps the fields the recovery decides on; timestamps, digests, names    *)
(* and the diagnostic (present exactly when the phase is Failed) are left  *)
(* out.                                                                    *)
(***************************************************************************)
EXTENDS Naturals

CONSTANTS
  TxIds,        \* rollback ids (UUIDs: every schedule call draws a fresh one)
  BootIds,      \* kernel boot ids
  MaxAttempts,  \* MAX_APPLY_ATTEMPTS
  None          \* the absent Option<T>

ASSUME MaxAttemptsAssumption == MaxAttempts \in Nat \ {0}

Phases == {"Preparing", "Armed", "Applying", "BootedUnconfirmed",
           "Reverting", "Reverted", "Confirmed", "Failed"}

Checkpoints == {"InitramfsEntered", "Validating", "ApplyStarted",
                "WritableTargetCreated", "CurrentRootProtected",
                "TargetRootActivated", "BootedUnconfirmedRecorded",
                "RevertStarted", "RestoredRootMovedAside",
                "FallbackRootActivated", "DiscardedRootDeleted",
                "RevertedRecorded"}

Transaction ==
  [id                 : TxIds,
   phase              : Phases,
   initramfs_attempts : 0..MaxAttempts,
   initramfs_boot_id  : BootIds \cup {None},
   checkpoint         : Checkpoints \cup {None},
   apply_attempts     : 0..MaxAttempts,
   applying_boot_id   : BootIds \cup {None}]

ASSUME NoneAssumption ==
  None \notin TxIds \cup BootIds \cup Phases \cup Checkpoints \cup Transaction

Successors(phase) ==
  CASE phase = "Preparing"         -> {"Armed", "Failed"}
    [] phase = "Armed"             -> {"Applying", "Failed"}
    [] phase = "Applying"          -> {"BootedUnconfirmed", "Reverting", "Failed"}
    [] phase = "BootedUnconfirmed" -> {"Confirmed", "Reverting"}
    [] phase = "Reverting"         -> {"Reverted", "Failed"}
    [] OTHER                       -> {}

Terminal == {"Reverted", "Confirmed", "Failed"}

NewTransaction(i) ==
  [id |-> i, phase |-> "Preparing",
   initramfs_attempts |-> 0, initramfs_boot_id |-> None, checkpoint |-> None,
   apply_attempts |-> 0, applying_boot_id |-> None]

(***************************************************************************)
(* The record operations.                                                  *)
(***************************************************************************)
\* Mutant: the attempt limit is forgotten.
CanEnterUnbounded(t) == t.phase \in {"Armed", "Applying"}

CanEnterInitramfs(t) ==
  t.phase \in {"Armed", "Applying"} /\ t.initramfs_attempts < MaxAttempts

\* Mutant: the boot is recorded but not counted.
RecordUncountedEntry(t, b) ==
  [t EXCEPT !.initramfs_boot_id = b, !.checkpoint = "InitramfsEntered"]

RecordInitramfsEntry(t, b) ==
  [t EXCEPT !.initramfs_attempts = @ + 1,
            !.initramfs_boot_id = b,
            !.checkpoint = "InitramfsEntered"]

RecordCheckpoint(t, c) == [t EXCEPT !.checkpoint = c]

CanTransition(t, next) == next \in Successors(t.phase)

Transition(t, next) == [t EXCEPT !.phase = next]

CanBeginApply(t, b) ==
  /\ t.phase \in {"Armed", "Applying"}
  /\ t.apply_attempts < MaxAttempts
  /\ t.initramfs_boot_id = b

BeginApply(t, b) ==
  [t EXCEPT !.phase = "Applying",
            !.apply_attempts = @ + 1,
            !.applying_boot_id = b,
            !.checkpoint = "ApplyStarted"]

RecordFailure(t) == [t EXCEPT !.phase = "Failed"]

(***************************************************************************)
(* What validate() demands of a record.  Every load of the pending file    *)
(* runs it, so a record that violates it can be neither resumed nor        *)
(* reverted nor cancelled.                                                 *)
(***************************************************************************)
Valid(t) ==
  /\ (t.initramfs_attempts = 0) <=> (t.initramfs_boot_id = None)
  /\ (t.initramfs_attempts = 0) <=> (t.checkpoint = None)
  /\ t.phase \in {"Preparing", "Armed"} => t.apply_attempts = 0
  /\ t.phase \in {"Applying", "BootedUnconfirmed", "Reverting", "Reverted",
                  "Confirmed"} => t.apply_attempts > 0
  /\ t.apply_attempts > 0 => t.applying_boot_id # None
  /\ t.apply_attempts <= t.initramfs_attempts
=============================================================================
