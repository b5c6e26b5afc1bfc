---------------------------- MODULE SystemRollback ----------------------------
(***************************************************************************)
(* A machine on which rollbacks are scheduled, cancelled, applied, reverted*)
(* and confirmed while its power may go at any moment: the initramfs engine*)
(* and the userspace calls composed with GRUB and the boot sequence.       *)
(***************************************************************************)
EXTENDS InitramfsRecovery, RollbackCalls

(***************************************************************************)
(* GRUB.  The preamble takes the selector as default and clears it; the    *)
(* recovery entry, however it was chosen, sets it again before the kernel  *)
(* starts, so that it is a lease that an interrupted boot renews.  A       *)
(* selector that names no entry of the menu boots the ordinary system.     *)
(***************************************************************************)
DefaultEntry == IF selector = menu THEN menu ELSE None

\* A boot id is random: one that no record names is as good as a new one.
FreshBootIds ==
  BootIds \ ({boot} \cup (IF tx = None THEN {}
                          ELSE {tx.initramfs_boot_id, tx.applying_boot_id}))

\* The default entry, or the ordinary or recovery entry by hand.
Boot ==
  /\ power = "off" /\ power' = "initramfs"
  /\ boot' \in FreshBootIds
  /\ requested' \in {DefaultEntry, None, menu}
  /\ selector' = requested'
  /\ pc' = "hook" /\ serviced' = FALSE
  /\ UNCHANGED <<recordVars, layoutVars, menu, rounds, owed, callVars, faults>>

\* Power goes between the preamble and the entry.
BootInterrupted ==
  /\ power = "off" /\ Fault
  /\ selector' = None
  /\ UNCHANGED <<recordVars, layoutVars, menu, bootVars, engineVars, callVars>>

(***************************************************************************)
(* The end of the initramfs.                                               *)
(***************************************************************************)
MountRoot ==
  /\ power = "initramfs" /\ pc = "done" /\ view.root # None
  /\ power' = "user"
  /\ pc' = "idle" /\ rounds' = 0 /\ owed' = None
  /\ UNCHANGED <<recordVars, layoutVars, grubVars, boot, requested, serviced, callVars,
                 faults>>

\* All that a running kernel held is gone.
PowerOff ==
  /\ power' = "off"
  /\ pc' = "idle" /\ rounds' = 0 /\ owed' = None
  /\ requested' = None /\ serviced' = FALSE
  /\ call' = [c \in Calls |-> "idle"]
  /\ held' = [c \in Calls |-> None]
  /\ UNCHANGED <<recordVars, grubVars, boot, issued>>

\* Of a layout that was not synced Btrfs may or may not have committed a part.
LosePower ==
  /\ PowerOff
  /\ disk' \in {disk, view} /\ view' = disk'

\* panic(): there is no @root to mount, and someone restarts the machine.
Panic ==
  /\ power = "initramfs" /\ pc = "done" /\ view.root = None
  /\ LosePower /\ UNCHANGED faults

Crash == power # "off" /\ Fault /\ LosePower

\* A restart of the idle machine, once the confirmation service has run.
Restart ==
  /\ InUserspace /\ serviced
  /\ \A c \in Calls : call[c] = "idle"
  /\ PowerOff
  /\ disk' = view /\ UNCHANGED <<view, faults>>

BootStep == Boot \/ BootInterrupted \/ MountRoot \/ Panic \/ Crash \/ Restart

Init ==
  /\ tx = None
  /\ history = [i \in TxIds |-> None] /\ lineage = [i \in TxIds |-> None]
  /\ view = Layout(Installed, None, None) /\ disk = view
  /\ selector = None /\ menu = None
  /\ power = "off" /\ boot \in BootIds /\ requested = None /\ serviced = FALSE
  /\ pc = "idle" /\ rounds = 0 /\ owed = None
  /\ call = [c \in Calls |-> "idle"] /\ held = [c \in Calls |-> None]
  /\ issued = {}
  /\ faults = 0

Engine == power = "initramfs" /\ EngineStep

Next ==
  \/ BootStep
  \/ Engine
  \/ \E c \in Calls : CallStart(c) \/ CallStep(c)
  \/ ReconcileRefused
  \/ UpdateGrub

Spec == Init /\ [][Next]_vars

(***************************************************************************)
(* Fairness.  A machine that is off is started, the initramfs and the      *)
(* calls run on, systemd starts the confirmation service at every boot     *)
(* (WantedBy=multi-user.target), and a machine nobody uses is restarted    *)
(* sooner or later.  Nobody need schedule, cancel or reconcile by hand.    *)
(***************************************************************************)
ConfirmationService ==
  ~serviced /\ (ReconcileRefused \/ \E c \in Calls : Reconcile(c))

Fairness ==
  /\ WF_vars(Boot) /\ WF_vars(Engine) /\ WF_vars(MountRoot) /\ WF_vars(Panic)
  /\ \A c \in Calls : WF_vars(CallStep(c))
  /\ WF_vars(ConfirmationService)
  /\ WF_vars(Restart)

FairSpec == Spec /\ Fairness
=============================================================================
