------------------------------ MODULE BootArtifacts ------------------------------
(*****************************************************************************)
(* The kernel, the initramfs and the confirmation engine that a restore      *)
(* starts with (boot.rs). There is one copy of each, outside the snapshots;  *)
(* schedule provisions them and records their digests, update-grub offers    *)
(* them to GRUB, and the initramfs replaces the engine by the one it carries *)
(* (recovery.rs) before userspace runs it. What else the calls and the       *)
(* initramfs do is in RollbackCalls and InitramfsRecovery.                   *)
(*****************************************************************************)
EXTENDS Naturals, Sequences

CONSTANTS
  Schedulers,     \* calls that may run side by side
  MostRestores,   \* bound: restores recorded
  MostBuilds      \* bound: versions of kernel and engine after the first

ArtifactConstants == {MostRestores, MostBuilds} \subseteq Nat \ {0}

VARIABLES
  installed,  \* the version of each boot file of the running root
  artifacts,  \* that of its copy, 0 if there is none; a digest is a version
  restore,    \* the pending record
  drawn,      \* restores recorded so far
  menu,       \* the restore whose entry grub.cfg holds, or 0
  selector,   \* the restore GRUB is to start, or 0
  machine,    \* the boot: its stage, what it was asked for, the engine its initramfs carries
  steps,      \* what each call does next
  overlapped  \* history: two calls ran side by side since the pending record's began

artifactVars == <<installed, artifacts, restore, drawn, menu, selector, machine, steps, overlapped>>

Parts == <<"kernel", "initramfs", "confirm">>
Each == {Parts[i] : i \in DOMAIN Parts}
Builds == 1 .. MostBuilds + 1
None == [p \in Each |-> 0]
NoRestore == [id |-> 0, phase |-> "None", digest |-> None]
Undecided == {"Preparing", "Armed"}
InFlight == {"Applying", "Booted", "Over"}  \* Booted is BootedUnconfirmed, Over is terminal

Idle == [at |-> "idle", part |-> 1, id |-> 0, digest |-> None]
At(c, step) == machine.stage = "userspace" /\ steps[c].at = step
Go(c, step) == steps' = [steps EXCEPT ![c].at = step]
End(c) == steps' = [steps EXCEPT ![c] = Idle]
Userspace(boot, unit) == [boot EXCEPT !.stage = "userspace", !.carries = 0, !.unit = unit]

\* An initramfs is as old as the confirmation engine it carries.
Init ==
  /\ installed \in [Each -> {1}]
  /\ artifacts = None /\ restore = NoRestore /\ drawn = 0
  /\ menu = 0 /\ selector = 0
  /\ machine = [stage |-> "userspace", requested |-> 0, carries |-> 0, unit |-> FALSE]
  /\ steps = [c \in Schedulers |-> Idle]
  /\ overlapped = FALSE

Begin(c, step) ==
  /\ At(c, "idle")
  /\ Go(c, step)
  /\ overlapped' = \/ restore # NoRestore /\ overlapped
                   \/ \E d \in Schedulers \ {c} : steps[d] # Idle

(*****************************************************************************)
(* schedule                                                                  *)
(*****************************************************************************)
\* Schedule without its first check.
ScheduleAnyhow(c) ==
  /\ Begin(c, "copy")
  /\ UNCHANGED <<installed, artifacts, restore, drawn, menu, selector, machine>>

Schedule(c) ==
  /\ restore = NoRestore
  /\ Begin(c, "copy")
  /\ UNCHANGED <<installed, artifacts, restore, drawn, menu, selector, machine>>

\* The three files one by one, each by an atomic rename, then their digests one by one.
Advance(c, digest, next) ==
  LET call == steps[c] IN
  steps' = [steps EXCEPT ![c] = IF call.part < Len(Parts)
                                THEN [call EXCEPT !.part = @ + 1, !.digest = digest]
                                ELSE [call EXCEPT !.part = 1, !.digest = digest, !.at = next]]

Copy(c) ==
  /\ At(c, "copy")
  /\ LET p == Parts[steps[c].part] IN artifacts' = [artifacts EXCEPT ![p] = installed[p]]
  /\ Advance(c, None, "hash") \/ End(c)
  /\ UNCHANGED <<installed, restore, drawn, menu, selector, machine, overlapped>>

Hash(c) ==
  /\ At(c, "hash")
  /\ LET p == Parts[steps[c].part] IN
     Advance(c, [steps[c].digest EXCEPT ![p] = artifacts[p]], "record")
  /\ UNCHANGED <<installed, artifacts, restore, drawn, menu, selector, machine, overlapped>>

\* A copy, a digest or the safety snapshot fails: nothing is recorded yet.
GiveUp(c) ==
  /\ \E step \in {"copy", "hash", "record"} : At(c, step)
  /\ End(c)
  /\ UNCHANGED <<installed, artifacts, restore, drawn, menu, selector, machine, overlapped>>

\* create_transaction. From here on every failure leads to the cleanup.
CreateRecord(c) ==
  /\ At(c, "record")
  /\ \E next \in {"grub", "unselect"} :
       /\ steps' = [steps EXCEPT ![c].at = next, ![c].id = drawn + 1]
       /\ \/ /\ restore = NoRestore /\ drawn < MostRestores
             /\ drawn' = drawn + 1
             /\ restore' = [id |-> drawn', phase |-> "Preparing", digest |-> steps[c].digest]
          \/ next = "unselect" /\ UNCHANGED <<drawn, restore>>
  /\ UNCHANGED <<installed, artifacts, menu, selector, machine, overlapped>>

\* recovery_menu_entry: an entry for a record not yet entered, if its files are those it names.
Offered == IF restore.phase \in Undecided THEN restore.id ELSE 0
MayOffer == restore.phase \in Undecided => artifacts = restore.digest

RegenerateGrub(c) ==
  /\ At(c, "grub")
  /\ \/ MayOffer /\ menu' = Offered /\ Go(c, "verify")
     \/ UNCHANGED menu /\ Go(c, "unselect")
  /\ UNCHANGED <<installed, artifacts, restore, drawn, selector, machine, overlapped>>

\* verify_grub_config, then the update to Armed: any record is replaced, a missing one is not.
ArmRecord(c) ==
  /\ At(c, "verify")
  /\ \/ /\ menu = steps[c].id /\ restore # NoRestore
        /\ restore' = [id |-> steps[c].id, phase |-> "Armed", digest |-> steps[c].digest]
        /\ Go(c, "select") \/ Go(c, "unselect")
     \/ UNCHANGED restore /\ Go(c, "unselect")
  /\ UNCHANGED <<installed, artifacts, drawn, menu, selector, machine, overlapped>>

\* arm_pending_once selects whatever is armed; another id than its own is an error.
ArmOnce(c) ==
  /\ At(c, "select")
  /\ \/ /\ restore.phase = "Armed" /\ selector' = restore.id
        /\ (restore.id = steps[c].id /\ End(c)) \/ Go(c, "unselect")
     \/ UNCHANGED selector /\ Go(c, "unselect")
  /\ UNCHANGED <<installed, artifacts, restore, drawn, menu, machine, overlapped>>

(*****************************************************************************)
(* cancel, and the cleanup of a failed schedule, which goes on when a step   *)
(* of it fails; cancel (no id) then stops.                                   *)
(*****************************************************************************)
Cancel(c) ==
  /\ restore.phase \in Undecided
  /\ Begin(c, "unselect")
  /\ UNCHANGED <<installed, artifacts, restore, drawn, menu, selector, machine>>

OnFailure(c, next) == IF steps[c].id = 0 THEN End(c) ELSE Go(c, next)

ClearOnce(c) ==
  /\ At(c, "unselect")
  /\ \/ selector' = 0 /\ Go(c, "remove")
     \/ UNCHANGED selector /\ OnFailure(c, "remove")
  /\ UNCHANGED <<installed, artifacts, restore, drawn, menu, machine, overlapped>>

RemoveRecord(c) ==
  /\ At(c, "remove")
  /\ \/ restore' = NoRestore /\ (Go(c, "regenerate") \/ OnFailure(c, "regenerate"))
     \/ UNCHANGED restore /\ OnFailure(c, "regenerate")
  /\ UNCHANGED <<installed, artifacts, drawn, menu, selector, machine, overlapped>>

RegenerateLast(c) ==
  /\ At(c, "regenerate")
  /\ (MayOffer /\ menu' = Offered) \/ UNCHANGED menu
  /\ End(c)
  /\ UNCHANGED <<installed, artifacts, restore, drawn, selector, machine, overlapped>>

(*****************************************************************************)
(* The rest of the system: packages, the power, GRUB, the initramfs.         *)
(*****************************************************************************)
\* A new kernel or engine; the initramfs is made again at once, or later (a deferred trigger).
Upgrade ==
  /\ machine.stage = "userspace"
  /\ \/ /\ installed["kernel"] + installed["confirm"] < MostBuilds + 2
        /\ \E p \in {"kernel", "confirm"} : installed' = [installed EXCEPT ![p] = @ + 1]
     \/ /\ installed["initramfs"] # installed["confirm"]
        /\ installed' = [installed EXCEPT !["initramfs"] = installed["confirm"]]
  /\ UNCHANGED <<artifacts, restore, drawn, menu, selector, machine, steps, overlapped>>

\* Any package may run update-grub.
UpdateGrub ==
  /\ machine.stage = "userspace" /\ MayOffer /\ menu' = Offered
  /\ UNCHANGED <<installed, artifacts, restore, drawn, selector, machine, steps, overlapped>>

\* The recovery entry renews the selector that GRUB has just cleared.
Boot ==
  /\ LET entered == selector # 0 /\ selector = menu IN
     /\ selector' = IF entered THEN selector ELSE 0
     /\ machine' = [stage |-> "stage", requested |-> selector', unit |-> FALSE,
                    carries |-> IF entered THEN artifacts["initramfs"] ELSE installed["initramfs"]]
  /\ steps' = [c \in Schedulers |-> Idle]
  /\ UNCHANGED <<installed, artifacts, restore, drawn, menu, overlapped>>

\* stage_confirmation_artifact: the engine in the initramfs must be the recorded one. Without
\* it a requested boot does nothing; another goes on with the engine of the root.
MayStage == machine.carries = restore.digest["confirm"]
Stage ==
  /\ machine.stage = "stage"
  /\ IF restore = NoRestore THEN machine' = Userspace(machine, FALSE) /\ UNCHANGED artifacts
     ELSE \/ /\ MayStage
             /\ artifacts' = [artifacts EXCEPT !["confirm"] = machine.carries]
             /\ machine' = [machine EXCEPT !.stage = "engine", !.unit = TRUE]
          \/ /\ machine' = IF machine.requested # 0 THEN Userspace(machine, FALSE)
                           ELSE [machine EXCEPT !.stage = "engine"]
             /\ UNCHANGED artifacts
  /\ UNCHANGED <<installed, restore, drawn, menu, selector, steps, overlapped>>

\* execute. An applied target brings its own /boot with it.
BeginApply ==
  /\ machine.stage = "engine"
  /\ restore.phase = "Armed" /\ machine.requested = restore.id
  /\ restore' = [restore EXCEPT !.phase = "Applying"]
  /\ UNCHANGED <<installed, artifacts, drawn, menu, selector, machine, steps, overlapped>>

Engine ==
  /\ machine.stage = "engine"
  /\ \/ UNCHANGED <<restore, installed, menu>>
     \/ /\ restore.phase = "Applying" /\ machine.requested = restore.id
        /\ restore' = [restore EXCEPT !.phase = "Booted"]
        /\ \E kernel, engine \in Builds :
             /\ kernel <= installed["kernel"] /\ engine <= installed["confirm"]
             /\ installed' = [p \in Each |-> IF p = "kernel" THEN kernel ELSE engine]
        /\ menu' = 0
     \/ /\ restore.phase \in {"Armed", "Applying", "Booted"}
        /\ restore' = [restore EXCEPT !.phase = "Over"]
        /\ UNCHANGED <<installed, menu>>
  /\ machine' = Userspace(machine, machine.unit)
  /\ UNCHANGED <<artifacts, drawn, selector, steps, overlapped>>

\* reconcile, by the engine of the unit or that of the root: the outcome is recorded, the
\* selector cleared, the record archived and GRUB told, or less if one of these fails.
Reconcile ==
  /\ machine.stage = "userspace"
  /\ \/ restore.phase \in {"Booted", "Over"}
     \/ restore.phase = "Armed" /\ machine.requested = restore.id
  /\ selector' \in {0, selector}
  /\ \/ restore' = [restore EXCEPT !.phase = "Over"] /\ UNCHANGED menu
     \/ selector' = 0 /\ restore' = NoRestore /\ menu' \in {0, menu}
  /\ UNCHANGED <<installed, artifacts, drawn, machine, steps, overlapped>>

Next ==
  \/ \E c \in Schedulers :
       \/ Schedule(c) \/ Copy(c) \/ Hash(c) \/ GiveUp(c) \/ CreateRecord(c) \/ RegenerateGrub(c)
       \/ ArmRecord(c) \/ ArmOnce(c) \/ Cancel(c) \/ ClearOnce(c) \/ RemoveRecord(c)
       \/ RegenerateLast(c)
  \/ Upgrade \/ UpdateGrub \/ Boot \/ Stage \/ BeginApply \/ Engine \/ Reconcile
Spec == Init /\ [][Next]_artifactVars

\* An armed restore has the files it was armed with, whatever is installed meanwhile, and GRUB
\* knows the entry it is to start, as long as no two calls overlapped (rollback.rs:251); and the
\* engine that the transient unit runs is, after any overlap, the one the record names.
ArtifactsFitRecord ==
  /\ ~overlapped /\ restore.phase = "Armed" =>
       artifacts = restore.digest /\ (selector = restore.id => menu = selector)
  /\ machine.unit /\ restore.phase \in InFlight => artifacts["confirm"] = restore.digest["confirm"]
================================================================================
