----------------------------- MODULE RecoveryState -----------------------------
(***************************************************************************)
(* The state that the three programs of a system rollback share: the       *)
(* helper and confirmation service in userspace, the engine in the         *)
(* initramfs, and GRUB.  They never call one another: they meet only in    *)
(* the pending file, in the subvolumes of the Btrfs top level and in the   *)
(* GRUB environment, and a power cut may fall between any two of them.     *)
(***************************************************************************)
EXTENDS RollbackTransaction

CONSTANTS
  Installed,  \* the system found in @root before the first rollback
  Targets,    \* system snapshots
  TargetOf,   \* the snapshot each rollback restores
  Calls,      \* userspace activities: D-Bus calls and the confirmation service
  MaxFaults   \* bound on power cuts and failing commands

ASSUME StateAssumption ==
  /\ Installed \notin TxIds \cup {None}
  /\ None \notin Targets
  /\ TargetOf \in [TxIds -> Targets]
  /\ MaxFaults \in Nat

VARIABLES
  tx,         \* transactions/pending-rollback.json, None when absent
  history,    \* rollback-history: outcome archived for each id
  lineage,    \* outcome recorded for each id in the lineage store
  view,       \* the top-level subvolumes as the running kernel shows them
  disk,       \* the same as the last Btrfs commit left them
  selector,   \* next_entry of the EFI environment block: the recovery lease
  menu,       \* the id whose recovery entry grub.cfg holds
  power,      \* "off", "initramfs" or "user"
  boot,       \* the running boot id
  requested,  \* the rollback id on the kernel command line
  serviced,   \* the confirmation service has run in this boot
  pc,         \* the step of the initramfs hook and engine
  rounds,     \* layouts the apply or revert loop may still look at
  owed,       \* the checkpoint the loop writes once its command is synced
  call,       \* the step of each userspace activity
  held,       \* the record each userspace activity has in memory
  issued,     \* ids already drawn
  faults      \* faults that have happened

recordVars  == <<tx, history, lineage>>
layoutVars  == <<view, disk>>
grubVars    == <<selector, menu>>
bootVars    == <<power, boot, requested, serviced>>
engineVars  == <<pc, rounds, owed>>
callVars    == <<call, held, issued>>
vars == <<recordVars, layoutVars, grubVars, bootVars, engineVars, callVars, faults>>

(***************************************************************************)
(* Top-level layout.  A writable root is named by the rollback that        *)
(* created it, so what matters of a subvolume is which system it is.  The  *)
(* names ...-old-<id> and ...-new-<id> are those of one rollback: old and  *)
(* new are the subvolumes of the last one recorded, and what an earlier    *)
(* one left behind is never looked at again.                               *)
(***************************************************************************)
Systems == TxIds \cup {Installed}

Layouts == [root : Systems \cup {None},
            old  : Systems \cup {None},
            new  : Systems \cup {None}]

Layout(r, o, n) == [root |-> r, old |-> o, new |-> n]

\* real_directory of @root, ...-old-<id> and ...-new-<id>.
Present(l) == <<l.root # None, l.old # None, l.new # None>>

\* btrfs "Parent UUID" of a root: the snapshot it was made from.
Parent(s) == IF s \in TxIds THEN TargetOf[s] ELSE None

\* recovery_menu_entry: update-grub emits an entry for a startable rollback only.
MenuEntry(t) == IF t # None /\ t.phase \in {"Preparing", "Armed"} THEN t.id ELSE None

\* One more power cut or failing command.
Fault == faults < MaxFaults /\ faults' = faults + 1

=============================================================================
