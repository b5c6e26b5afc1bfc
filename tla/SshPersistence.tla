------------------------------ MODULE SshPersistence ------------------------------
(***************************************************************************)
(* The switch that keeps SSH connections open                              *)
(* (andiora-yubikey-manager: ssh_config.rs, ssh_persistence_group in       *)
(* window.rs): a marked block in the user's ~/.ssh/config that includes a  *)
(* file of the application's own.  Two files, each replaced by a rename    *)
(* after a last look at it, while the user edits the same two files, ssh   *)
(* may reject what was written and the application may die at any step.    *)
(***************************************************************************)
EXTENDS Integers

CONSTANTS
  MostEdits,     \* bound: edits of the user
  MostSwitches,  \* bound: uses of the switch
  MostFaults     \* bound: I/O errors

\* What the constants must be.
PersistenceConstants == {MostEdits, MostSwitches, MostFaults} \subseteq Nat

VARIABLES
  sshConfig,     \* ~/.ssh/config: the user's own text, the block, another Include
  fragment,      \* config.d/andiora-yubikey-manager.inc: none, ours, foreign
  change,        \* the run of set_enabled: its next call and its variables
  toggle,        \* the switch of the page
  edits,         \* the user's text as last saved, which numbers the edits
  switches, faults,
  meddled,       \* history: the user changed or removed the fragment
  raced,         \* history: a save fell between the last look and the rename
  others         \* history: the user saved something during this run

sshVars == <<sshConfig, fragment, change, toggle, edits, switches, faults, meddled, raced, others>>

NoChange == [at |-> "idle"]
Blocks == {"none", "whole", "broken"}

(***************************************************************************)
(* inspect_state, from the two files as read.                              *)
(***************************************************************************)
InspectState(c, f) ==
  IF c.block = "whole" /\ f = "ours" /\ ~c.include THEN "Enabled"
  ELSE IF c.block = "none" /\ f # "foreign" /\ ~(f = "ours" /\ c.include) THEN "Disabled"
  ELSE "NeedsAttention"

\* validate_ssh_config: ssh -G on the candidate.
SshAccepts(c) == ~c.bad

(***************************************************************************)
(* The page.                                                               *)
(***************************************************************************)
Idle == change.at \in {"idle", "failed"}
Validated(state) == IF state = "Enabled" /\ ~SshAccepts(sshConfig) THEN "NeedsAttention" ELSE state

FileSystemFails == faults < MostFaults /\ faults' = faults + 1

\* A look that fails needs attention, too.
ShowSwitch ==
  /\ Idle
  /\ \/ toggle' = Validated(InspectState(sshConfig, fragment)) /\ UNCHANGED faults
     \/ FileSystemFails /\ toggle' = "NeedsAttention"
  /\ UNCHANGED <<sshConfig, fragment, change, edits, switches, meddled, raced, others>>

Other(state) == IF state = "Enabled" THEN "Disabled" ELSE "Enabled"

\* set_enabled looks first: refused (also when the look fails), nothing to do,
\* or the change.
SetEnabled ==
  /\ Idle /\ toggle \in {"Enabled", "Disabled"} /\ switches < MostSwitches
  /\ switches' = switches + 1 /\ others' = FALSE
  /\ LET seen == InspectState(sshConfig, fragment)
         wanted == Other(toggle)
     IN \/ FileSystemFails /\ change' = NoChange /\ UNCHANGED toggle
        \/ seen = "NeedsAttention" /\ change' = NoChange /\ UNCHANGED <<toggle, faults>>
        \/ seen = wanted /\ change' = NoChange /\ toggle' = Validated(seen) /\ UNCHANGED faults
        \/ /\ seen = toggle /\ UNCHANGED <<toggle, faults>>
           /\ change' = [at |-> "read", wanted |-> wanted, made |-> FALSE, original |-> "unread",
                         found |-> [block |-> sshConfig.block, fragment |-> fragment]]
  /\ UNCHANGED <<sshConfig, fragment, edits, meddled, raced>>

GoOn(at) == change' = [change EXCEPT !.at = at]
\* The switch goes back: what was changed was taken back, or that failed, too,
\* which the code does not tell apart.
FailAs(cleaned) == change' = [at |-> "failed", found |-> change.found, cleaned |-> cleaned]
Fail == FailAs(TRUE)

(***************************************************************************)
(* enable_files: the fragment first, then the block that includes it.      *)
(***************************************************************************)
ReadToEnable ==
  /\ change.at = "read" /\ change.wanted = "Enabled"
  /\ \/ sshConfig.block = "none" /\ change' = [change EXCEPT !.at = "fragment", !.original = sshConfig]
     \/ sshConfig.block = "whole" /\ GoOn("inspect")
     \/ sshConfig.block = "broken" /\ Fail
  /\ UNCHANGED <<sshConfig, fragment, toggle, edits, switches, faults, meddled, raced, others>>

CreateFragment ==
  /\ change.at = "fragment"
  /\ \/ fragment = "none" /\ fragment' = "ours" /\ change' = [change EXCEPT !.at = "check", !.made = TRUE]
     \/ fragment = "ours" /\ GoOn("check") /\ UNCHANGED fragment
     \/ fragment = "foreign" /\ Fail /\ UNCHANGED fragment
  /\ UNCHANGED <<sshConfig, toggle, edits, switches, faults, meddled, raced, others>>

(***************************************************************************)
(* atomic_replace of the configuration: the candidate is validated, the    *)
(* file compared with what was read, and then renamed over.                *)
(***************************************************************************)
Candidate == [change.original EXCEPT !.block = IF change.wanted = "Enabled" THEN "whole" ELSE "none"]
NotCompared == TRUE
StillAsRead == sshConfig = change.original

CheckConfig ==
  /\ change.at = "check"
  /\ IF SshAccepts(Candidate) /\ StillAsRead THEN GoOn("rename") ELSE GoOn("undo")
  /\ UNCHANGED <<sshConfig, fragment, toggle, edits, switches, faults, meddled, raced, others>>

RenameConfig ==
  /\ change.at = "rename"
  /\ sshConfig' = Candidate
  /\ GoOn(IF change.wanted = "Enabled" THEN "inspect" ELSE "unlink")
  /\ UNCHANGED <<fragment, toggle, edits, switches, faults, meddled, raced, others>>

\* The block was not written: the fragment made for it goes again.
UndoFragment ==
  /\ change.at = "undo"
  /\ fragment' = IF change.made /\ fragment = "ours" THEN "none" ELSE fragment
  /\ Fail
  /\ UNCHANGED <<sshConfig, toggle, edits, switches, faults, meddled, raced, others>>

(***************************************************************************)
(* disable: the block first, then the fragment, unless another Include may *)
(* need it; the block comes back when the fragment cannot be removed.      *)
(***************************************************************************)
ReadToDisable ==
  /\ change.at = "read" /\ change.wanted = "Disabled"
  /\ IF sshConfig.block = "whole" THEN change' = [change EXCEPT !.at = "check", !.original = sshConfig] ELSE Fail
  /\ UNCHANGED <<sshConfig, fragment, toggle, edits, switches, faults, meddled, raced, others>>

RemoveFragment ==
  /\ change.at = "unlink"
  /\ \/ change.original.include /\ GoOn("inspect") /\ UNCHANGED fragment
     \/ ~change.original.include /\ fragment # "foreign" /\ fragment' = "none" /\ GoOn("inspect")
     \/ ~change.original.include /\ fragment = "foreign" /\ GoOn("rollback") /\ UNCHANGED fragment
  /\ UNCHANGED <<sshConfig, toggle, edits, switches, faults, meddled, raced, others>>

RollbackConfig ==
  /\ change.at = "rollback"
  /\ IF sshConfig = Candidate THEN GoOn("restore") ELSE Fail
  /\ UNCHANGED <<sshConfig, fragment, toggle, edits, switches, faults, meddled, raced, others>>

RestoreConfig ==
  /\ change.at = "restore"
  /\ sshConfig' = change.original
  /\ Fail
  /\ UNCHANGED <<fragment, toggle, edits, switches, faults, meddled, raced, others>>

\* A call to the file system, or ssh -G, fails: before the change, while it is
\* made, while it is taken back, or at the last look.
CallFails ==
  /\ FileSystemFails
  /\ \/ change.at \in {"read", "fragment"} /\ Fail
     \/ change.at \in {"check", "rename"} /\ GoOn("undo")
     \/ change.at = "unlink" /\ ~change.original.include /\ GoOn("rollback")
     \/ change.at = "undo" /\ change.made /\ FailAs(FALSE)
     \/ change.at \in {"rollback", "restore", "inspect"} /\ FailAs(FALSE)
  /\ UNCHANGED <<sshConfig, fragment, toggle, edits, switches, meddled, raced, others>>

\* The last look: the state asked for, or an error.
InspectAgain ==
  /\ change.at = "inspect"
  /\ IF Validated(InspectState(sshConfig, fragment)) = change.wanted
       THEN change' = NoChange /\ toggle' = change.wanted
       ELSE Fail /\ UNCHANGED toggle
  /\ UNCHANGED <<sshConfig, fragment, edits, switches, faults, meddled, raced, others>>

(***************************************************************************)
(* The user's editor writes whole files; the application may be killed.    *)
(***************************************************************************)
EditConfig ==
  /\ edits < MostEdits
  /\ edits' = edits + 1
  /\ \E block \in Blocks, include \in BOOLEAN, bad \in BOOLEAN :
       /\ block = "whole" => sshConfig.block = "whole"
       /\ sshConfig' = [text |-> edits', block |-> block, include |-> include, bad |-> bad]
  /\ raced' = (raced \/ change.at \in {"rename", "restore"})
  /\ others' = TRUE
  /\ UNCHANGED <<fragment, change, toggle, switches, faults, meddled>>

EditFragment ==
  /\ fragment' \in {"none", "foreign"} \ {fragment}
  /\ meddled' = TRUE /\ others' = TRUE
  /\ UNCHANGED <<sshConfig, change, toggle, edits, switches, faults, raced>>

ApplicationDies ==
  /\ ~Idle
  /\ change' = NoChange /\ toggle' = "unknown"
  /\ UNCHANGED <<sshConfig, fragment, edits, switches, faults, meddled, raced, others>>

Init ==
  /\ \E include, bad \in BOOLEAN : sshConfig = [text |-> 0, block |-> "none", include |-> include, bad |-> bad]
  /\ fragment = "none" /\ change = NoChange /\ toggle = "unknown"
  /\ edits = 0 /\ switches = 0 /\ faults = 0
  /\ meddled = FALSE /\ raced = FALSE /\ others = FALSE

Next ==
  \/ ShowSwitch \/ SetEnabled \/ ReadToEnable \/ CreateFragment \/ CheckConfig \/ RenameConfig \/ UndoFragment
  \/ ReadToDisable \/ RemoveFragment \/ RollbackConfig \/ RestoreConfig \/ CallFails \/ InspectAgain
  \/ EditConfig \/ EditFragment \/ ApplicationDies

Spec == Init /\ [][Next]_sshVars

(***************************************************************************)
(* Properties.                                                             *)
(***************************************************************************)
\* The block never includes a file that is not there, whatever step the
\* application dies at, unless the user changed that file himself.
BlockHasFragment == sshConfig.block = "whole" => fragment = "ours" \/ meddled

\* What the user saved is still there, unless it was saved between the last
\* look and the rename.
EditsSurvive == sshConfig.text = edits \/ raced

\* A change that failed with nobody else writing leaves files the page can
\* still switch, and both as they were unless taking it back, or the last look,
\* failed as well; another Include that may load the fragment is excepted.
FailureRestores ==
  change.at = "failed" /\ ~others /\ ~sshConfig.include =>
    /\ InspectState(sshConfig, fragment) # "NeedsAttention"
    /\ change.cleaned => sshConfig.block = change.found.block /\ fragment = change.found.fragment

PersistenceIsSafe == BlockHasFragment /\ EditsSurvive /\ FailureRestores
================================================================================
