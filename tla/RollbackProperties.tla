-------------------------- MODULE RollbackProperties --------------------------
(***************************************************************************)
(* What must hold of a machine that rolls back, and the inductive invariant*)
(* that implies it.                                                        *)
(***************************************************************************)
EXTENDS SystemRollback

Outcomes == {"Confirmed", "Reverted"}

\* Every variable stays in its domain: pending record, layouts, GRUB
\* environment, boot, engine and calls.
TypeOK ==
  /\ tx \in Transaction \cup {None}
  /\ history \in [TxIds -> Terminal \cup {None}]
  /\ lineage \in [TxIds -> Outcomes \cup {None}]
  /\ view \in Layouts /\ disk \in Layouts
  /\ selector \in TxIds \cup {None} /\ menu \in TxIds \cup {None}
  /\ power \in {"off", "initramfs", "user"}
  /\ boot \in BootIds
  /\ requested \in TxIds \cup {None}
  /\ serviced \in BOOLEAN
  /\ pc \in EnginePcs /\ rounds \in 0..RevertRounds
  /\ owed \in Checkpoints \cup {None}
  /\ call \in [Calls -> CallSteps]
  /\ held \in [Calls -> Transaction \cup {None}]
  /\ issued \subseteq TxIds
  /\ faults \in 0..MaxFaults

\* The record is always one that load_pending accepts: validate() refuses no
\* record the code itself wrote, so no rollback gets stuck as unreadable.
RecordReadable == tx # None => Valid(tx)

(***************************************************************************)
(* The committed system: what the machine runs once the rollback in flight *)
(* is over, if it is given up now.                                         *)
(***************************************************************************)
InFlight == {"Applying", "BootedUnconfirmed", "Reverting"}

Committed(l) ==
  IF tx # None /\ tx.phase \in InFlight /\ l.old # None THEN l.old ELSE l.root

\* A power cut at any step of apply, revert or confirmation (recovery.rs,
\* confirmation.rs) loses no system: there is a committed one, and the running
\* kernel and the last Btrfs commit agree which.
CommittedSystemSurvives ==
  /\ Committed(view) # None
  /\ Committed(view) = Committed(disk)

\* apply and revert never meet a layout that unsafe_state() refuses, nor run
\* out of rounds: whatever was interrupted before, the loops know a way on.
LayoutAlwaysKnown == ~UnsafeLayout

\* @root is missing on disk only while the record makes the next initramfs put
\* one back.
MissingRootIsMended ==
  disk.root = None => tx # None /\ tx.phase \in {"Applying", "Reverting"}

(***************************************************************************)
(* A checkpoint is written only after the filesystem boundary it names is  *)
(* synced, so the last checkpoint bounds what a power cut can undo.        *)
(***************************************************************************)
Complete(l) == l.root # None /\ l.old = None /\ l.new = None

\* Does layout l hold what checkpoint c of record t promises?
DurableIn(l, c, t) ==
  /\ c = "WritableTargetCreated"  => l.new # None \/ l.old # None
  /\ c = "CurrentRootProtected"   => l.old # None
  /\ c \in {"TargetRootActivated", "BootedUnconfirmedRecorded"} =>
       l.root = t.id /\ (t.phase # "Confirmed" => l.old # None)
  /\ c = "RestoredRootMovedAside" => l.root # t.id
  /\ c = "FallbackRootActivated"  => l.root \notin {t.id, None} /\ l.old = None
  /\ c \in {"DiscardedRootDeleted", "RevertedRecorded"} => Complete(l)

CheckpointsAreDurable == tx # None => DurableIn(disk, tx.checkpoint, tx)

\* The three stores tell one story: a rollback archived as confirmed or reverted
\* has the same outcome in the lineage store, whichever steps of the
\* confirmation were repeated after a crash.
StoresAgree ==
  \A i \in TxIds : history[i] \in Outcomes => lineage[i] = history[i]

\* Once no rollback is pending, the running system is a rollback's target only
\* if that rollback is archived as confirmed: reverted, failed and cancelled
\* rollbacks leave no trace in @root or beside it.
OutcomeMatchesRoot ==
  tx = None => /\ view.root \in TxIds => history[view.root] = "Confirmed"
               /\ view.new = None

(***************************************************************************)
(* Action properties.                                                      *)
(***************************************************************************)
\* A rollback is confirmed only from the boot that applied it, with its target
\* mounted as @root, although the hook may be skipped and the machine restarted
\* in between.
ConfirmedOnlyWhenRunning ==
  [][tx' # None /\ tx'.phase = "Confirmed" /\ (tx = None \/ tx.phase # "Confirmed")
     => /\ tx # None /\ tx.id = tx'.id
        /\ power = "user" /\ boot = tx.applying_boot_id
        /\ view.root = tx.id]_vars

\* A pending record goes away unarchived only if no root has been touched: not
\* once the rollback is in flight, and a terminal one only with its history.
ArchivedBeforeRemoved ==
  [][tx # None /\ (tx' = None \/ tx'.id # tx.id) =>
       \/ tx.phase \in {"Preparing", "Armed"}
       \/ history[tx.id] = tx.phase]_vars

\* The phases a rollback goes through in the pending file, which calls, engine and
\* confirmation write from copies in memory, follow can_transition_to.
PhasesFollowTable ==
  [][tx # None /\ tx' # None /\ tx'.id = tx.id /\ tx'.phase # tx.phase
     => CanTransition(tx, tx'.phase)]_vars

\* What the history and the lineage say of a rollback is never rewritten.
OutcomesAreFinal ==
  [][\A i \in TxIds : /\ history[i] # None => history'[i] = history[i]
                      /\ lineage[i] # None => lineage'[i] = lineage[i]]_vars

\* The protected old root is deleted by the confirmation only, after the
\* outcome is durable in the record and in the lineage.
OldRootOutlivesDoubt ==
  [][view.old # None /\ view'.old = None /\ view'.root # view.old /\ power = "user"
     => tx = None \/ (tx.phase = "Confirmed" /\ lineage[tx.id] = "Confirmed")]_vars

(***************************************************************************)
(* Liveness.                                                               *)
(***************************************************************************)
\* A rollback that reached the initramfs is brought to an end: applied and
\* confirmed, reverted or failed, and its record removed.
EnteredRollbackEnds ==
  \A i \in TxIds :
    tx # None /\ tx.id = i /\ tx.initramfs_attempts > 0 ~> tx = None \/ tx.id # i

\* ... with its outcome in the history once it has touched a root.
AppliedRollbackIsArchived ==
  \A i \in TxIds :
    tx # None /\ tx.id = i /\ tx.apply_attempts > 0 ~> history[i] # None

\* The machine comes up: no power cut or failing command leaves it where only a
\* manual repair helps.
MachineComesUp == power # "user" ~> power = "user"

(***************************************************************************)
(* What the documentation and the messages of the program say, and the     *)
(* code does not do: each of these is refuted.                             *)
(***************************************************************************)
\* VM-QUALIFICATION.md: no @root.snapshots-manager-* subvolume is orphaned.  But
\* delete_old_root takes an old root that is gone for one that is durably
\* gone: when an earlier attempt failed after unlinking it, nothing commits the
\* deletion before the record is removed, and a power cut brings it back.
NoOrphanedRoots == tx = None => Present(view) = <<TRUE, FALSE, FALSE>>

\* schedule's cleanup announces "Cancelling the incomplete restore".  But it
\* removes whatever is pending, also a complete restore: that of the call that
\* won the race for the pending file and has returned since.
CleanupSparesCompleteRestore ==
  [][\A c \in Calls :
       /\ call[c] = "clean_remove" /\ call'[c] # call[c]
       /\ tx # None /\ tx.phase = "Armed"
       /\ \A d \in Calls : held[d] = None \/ held[d].id # tx.id
       => tx' = tx]_vars

(***************************************************************************)
(* The abstract promise.                                                   *)
(***************************************************************************)
Pending == IF tx # None /\ tx.phase \notin Terminal THEN tx.id ELSE None

Switched == {i \in TxIds : \/ lineage[i] = "Confirmed"
                           \/ tx # None /\ tx.id = i /\ tx.phase = "Confirmed"}

Switch == INSTANCE AtomicSwitch WITH
  Rollbacks <- TxIds, Initial <- Installed, Nothing <- None,
  current <- Committed(view), pending <- Pending, switched <- Switched

\* The machine implements the abstract switch: the committed system changes only
\* when the pending rollback is confirmed, in that one step.
SwitchIsAtomic == Switch!Spec

(***************************************************************************)
(* The inductive invariant, in layers: CoreInv is inductive by itself and  *)
(* carries the committed system, each of the others relative to what comes *)
(* before it.  It holds for any number of calls at once.                   *)
(***************************************************************************)
NotInFlight == tx = None \/ tx.phase \notin InFlight

\* The engine runs in the initramfs only, on a record it has loaded.
EngineRuns ==
  /\ pc # "idle" => power = "initramfs"
  /\ pc \notin {"idle", "hook", "done"} => tx # None
  /\ pc \in {"validating", "validate", "begin"} => tx.phase \in {"Armed", "Applying"}
  /\ pc \in {"loop", "sync", "checkpoint"} => tx.phase \in {"Applying", "Reverting"}

\* A call runs in userspace only, and what it holds fits its step.
Finishing == {"clear", "archive", "remove", "finish"}
Scheduling == {"create", "regenerate", "verify", "arm_record", "arm_boot",
               "clean_clear", "clean_remove", "clean_regenerate"}

\* Does record h fit step s of a call?
Fits(h, s) ==
  /\ s \in Scheduling => h # None /\ h.phase = "Preparing"
  /\ s \in {"record"} \cup Finishing => h # None /\ h.phase \in Terminal
  /\ s \in {"lineage", "delete_old"} => h # None /\ h.phase \in Outcomes

CallsRun ==
  \A c \in Calls : /\ call[c] # "idle" => power = "user"
                   /\ Fits(held[c], call[c])

\* While a call runs no rollback is in flight, but the one it confirms: calls only
\* ever write records that are not, so none becomes so under a call's feet.
CallsMeetNoFlight ==
  \A c \in Calls :
    call[c] # "idle" =>
      \/ NotInFlight
      \/ call[c] = "record" /\ held[c].phase = "Confirmed" /\ tx.phase = "BootedUnconfirmed"

\* What is mounted is what is committed, except after a command that was not
\* synced: the loop is about to, or the engine gave up.
SyncedBeforeDecision ==
  (power = "off" \/ pc \in EnginePcs \ {"idle", "sync", "done"}) => view = disk

\* No root of a rollback that has not been applied is in place.
NothingProtectedYet ==
  /\ tx # None /\ tx.phase \in {"Preparing", "Armed"} => view.old = None /\ disk.old = None
  /\ \A c \in Calls : call[c] \in {"regenerate", "verify", "arm_record", "arm_boot"} =>
       view.old = None /\ disk.old = None

\* The target is activated before the record says it was.
BootedIsDurable ==
  tx # None /\ tx.phase = "BootedUnconfirmed" => view.root = disk.root /\ view.root # None

CoreInv ==
  /\ TypeOK
  /\ EngineRuns
  /\ CallsRun
  /\ CallsMeetNoFlight
  /\ SyncedBeforeDecision
  /\ NothingProtectedYet
  /\ BootedIsDurable
  /\ CommittedSystemSurvives

(***************************************************************************)
(* Records.  Every record, pending or in a call's hands, is one that       *)
(* validate() accepts, with a checkpoint of its phase.                     *)
(***************************************************************************)
EntryCheckpoints  == {"InitramfsEntered", "Validating"}
ApplyCheckpoints  == {"WritableTargetCreated", "CurrentRootProtected", "TargetRootActivated"}
RevertCheckpoints == {"RestoredRootMovedAside", "FallbackRootActivated", "DiscardedRootDeleted"}

AtPhase(t) ==
  /\ t.phase = "Preparing" => t.checkpoint = None
  /\ t.phase \in {"Armed", "Failed"} => t.checkpoint \in EntryCheckpoints \cup {None}
  /\ t.phase = "Applying" =>
       t.checkpoint \in EntryCheckpoints \cup {"ApplyStarted"} \cup ApplyCheckpoints
  /\ t.phase \in {"BootedUnconfirmed", "Confirmed"} =>
       t.checkpoint = "BootedUnconfirmedRecorded"
  /\ t.phase = "Reverting" => t.checkpoint \in {"RevertStarted"} \cup RevertCheckpoints
  /\ t.phase = "Reverted" => t.checkpoint = "RevertedRecorded"

SoundRecord(t) == t = None \/ (Valid(t) /\ AtPhase(t))

RecordsAreSound ==
  /\ SoundRecord(tx)
  /\ \A c \in Calls : /\ SoundRecord(held[c])
                      /\ call[c] \in Scheduling => held[c] = NewTransaction(held[c].id)
  /\ pc \in {"validating", "validate", "begin"} => tx.apply_attempts < tx.initramfs_attempts
  /\ pc \in {"sync", "checkpoint"} =>
       owed \in IF tx.phase = "Applying" THEN ApplyCheckpoints ELSE RevertCheckpoints

\* Whatever bears the id of a rollback was made by one that drew it.
LayoutIssued(l) == {l.root, l.old, l.new} \cap TxIds \subseteq issued

IdsAreIssued ==
  /\ tx # None => tx.id \in issued
  /\ \A c \in Calls : held[c] # None => held[c].id \in issued
  /\ menu \in issued \cup {None} /\ requested \in issued \cup {None}
  /\ \A i \in TxIds \ issued : history[i] = None /\ lineage[i] = None
  /\ LayoutIssued(view) /\ LayoutIssued(disk)

(***************************************************************************)
(* Layouts.  A layout is one the loops know, its subvolumes are those of   *)
(* the rollback that is pending, and it holds what the record's checkpoint *)
(* says.                                                                   *)
(***************************************************************************)
Known(l) ==
  \/ l.root # None /\ l.old = None
  \/ l.root = None /\ l.old # None /\ l.new # None
  \/ l.root # None /\ l.old # None /\ l.new = None

\* While rollback i is in flight only what it made bears its name.
NamedFor(l, i) ==
  /\ l.new \in {None, i} /\ l.old # i
  /\ l.old = None => l.root # i
  /\ l.old # None => l.root \in {None, i}

LayoutFits(l, t) ==
  /\ Known(l)
  /\ (t = None \/ t.phase \notin InFlight) => l.new = None
  /\ t # None =>
       /\ t.phase \in InFlight => NamedFor(l, t.id)
       /\ t.phase \in {"Preparing", "Armed"} => l.root # t.id
       /\ t.phase \in {"BootedUnconfirmed", "Confirmed"} => l.root = t.id
       /\ DurableIn(l, t.checkpoint, t)

\* The rounds a loop still needs, the one that sees it converged included.
Ahead(l, phase) ==
  IF phase = "Applying"
  THEN IF l.root = None THEN 2
       ELSE IF l.old # None THEN 1 ELSE IF l.new = None THEN 4 ELSE 3
  ELSE IF l.root = None THEN 3
       ELSE IF l.old # None THEN 4 ELSE IF l.new = None THEN 1 ELSE 2

\* The calls that bring a rollback to its end.
Settle == {"record", "lineage", "delete_old"} \cup Finishing

LayoutsAreSound ==
  /\ LayoutFits(view, tx) /\ LayoutFits(disk, tx)
  /\ pc \in {"loop", "sync", "checkpoint"} => rounds >= Ahead(view, tx.phase)
  /\ pc \in {"sync", "checkpoint"} => DurableIn(view, owed, tx)
  /\ power = "user" => view.root # None
  /\ NotInFlight /\ view.old # None => disk.old # None
  /\ \A c \in Calls :
       /\ call[c] \in Scheduling => held[c].id # view.root
       /\ call[c] \in Settle /\ held[c].phase = "Confirmed" => held[c].id = view.root
       /\ call[c] = "record" => held[c].phase # "Reverted"

(***************************************************************************)
(* Outcomes.  Between two boots at most one rollback comes to its end: all *)
(* calls that settle one settle the same, and what they tell the history   *)
(* and the lineage is the same story.  Rollbacks that calls draw in the    *)
(* meantime have none yet.                                                 *)
(***************************************************************************)
Cancelling == {"cancel_clear", "cancel_remove", "cancel_regenerate"}

\* Some call may remove or replace whatever record is pending.
Drawing == \E d \in Calls : call[d] \in Scheduling \cup Cancelling

Archived(t) == t.phase \in Outcomes => history[t.id] = t.phase

NothingElseTold(t) ==
  history[t.id] \in {None, t.phase} /\ lineage[t.id] \in {None, t.phase}

\* The pending record is that of a call at step s of settling record h, is about to
\* become it, or was drawn since.
Belongs(h, s) ==
  tx # None =>
    \/ tx = h
    \/ s = "record" /\ tx.phase = "Armed" /\ h = RecordFailure(tx)
    \/ s = "record" /\ tx.phase = "BootedUnconfirmed" /\ h = Transition(tx, "Confirmed")
    \/ tx.id # h.id /\ tx.phase \in {"Preparing", "Armed"} /\ tx.id # requested

\* What it has told, and must have told, at that step.
Tells(h, s) ==
  s \in Settle =>
    /\ NothingElseTold(h)
    /\ Belongs(h, s)
    /\ tx = None \/ tx.id # h.id \/ Drawing => Archived(h)
    /\ s \in {"remove", "finish"} => history[h.id] = h.phase
    /\ s \notin {"record", "lineage"} /\ h.phase \in Outcomes => lineage[h.id] = h.phase
    /\ s = "delete_old" => h.phase = "Confirmed"

\* A call that schedules the rollback of record h.
Draws(h, s) ==
  s \in Scheduling =>
    /\ h.id # requested
    /\ history[h.id] = None /\ lineage[h.id] = None
    /\ tx # None /\ tx.id = h.id => tx.phase \in {"Preparing", "Armed"}

\* What once was the running system is the installed one or was confirmed.
Settled(s) == s \in TxIds => history[s] = "Confirmed"

RootsAccounted(l) ==
  /\ Settled(l.old)
  /\ Settled(l.root) \/ (tx # None /\ tx.id = l.root /\ tx.phase \in InFlight \cup {"Confirmed"})

OneStory ==
  /\ \A c \in Calls : Tells(held[c], call[c]) /\ Draws(held[c], call[c])
  /\ \A c, d \in Calls :
       /\ call[c] \in Settle /\ call[d] \in Settle => held[c] = held[d]
       /\ call[c] \in Settle /\ call[d] \in Scheduling => held[c].id # held[d].id
  /\ tx # None => NothingElseTold(tx) /\ (Drawing => Archived(tx))
  /\ RootsAccounted(view) /\ RootsAccounted(disk)
  /\ StoresAgree

\* What engine, calls, boots and power cuts preserve together; the invariants above
\* follow from it.
IInv == CoreInv /\ RecordsAreSound /\ IdsAreIssued /\ LayoutsAreSound /\ OneStory
===============================================================================
