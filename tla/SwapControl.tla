------------------------------- MODULE SwapControl -------------------------------
(***************************************************************************)
(* Swap Control (andiora-swapcontrol-gtk): the swap file its privileged    *)
(* helper enables, disables and resizes command by command, the settings   *)
(* page that asks for it, the zram devices the vendor service rebuilds     *)
(* from a configuration file, and the memory stress test.  Commands fail,  *)
(* and the power may be cut between any two of them.                       *)
(***************************************************************************)
EXTENDS Naturals, Sequences, FiniteSets, SequencesExt

CONSTANTS
  MostGiB,       \* sizes of a swap file: 1 .. MostGiB
  MostDevices,   \* bound of the zram devices
  MostRuns       \* bound of the helper's runs between two power cuts

\* What the constants must be.
SwapConstants == {MostGiB, MostDevices, MostRuns} \subseteq Nat \ {0}

VARIABLES
  file,      \* /swapfile, /swapfile.andiora-new, /swapfile.andiora-old: what each holds
  active,    \* the kernel swaps to /swapfile
  listed,    \* /etc/fstab names /swapfile
  disk,      \* the root file system takes swap files; the kernel resumes from /swapfile
  helper,    \* the helper's run: its next command and its local variables
  page,      \* the settings page: an operation runs, the size shown, the slider
  devices,   \* disk sizes of /dev/zram0, /dev/zram1, ...; 0 is a device that was reset
  zramConf,  \* /etc/default/andiora-zram: the sizes asked for
  stress,    \* the stress test: its page, its thread, its flag
  entrusted, \* history: size of the file when a replacement began, 0 when none counts
  runs       \* bound: helper runs since the machine started

swapVars == <<file, active, listed, disk, helper, page, devices, zramConf, stress, entrusted, runs>>

Sizes == 1..MostGiB
NoFile == 0
Blank == MostGiB + 1         \* a file without a swap header
IdleHelper == [at |-> "Idle", want |-> 0, old |-> 0, wasActive |-> FALSE]
IdleTest == [shows |-> "Idle", thread |-> "None", flag |-> FALSE, pressed |-> FALSE, cancelled |-> FALSE]

FileUnchanged == UNCHANGED <<file, active, listed, disk, helper, page, entrusted, runs>>
RestUnchanged == UNCHANGED <<disk, devices, zramConf, stress>>
Holds(name, content) == file' = [file EXCEPT ![name] = content]
Goes(step) == helper' = [helper EXCEPT !.at = step]

\* A replacement counts as long as its backup is there.
Settled == entrusted' = IF file'.backup = NoFile THEN 0 ELSE entrusted

\* The helper ends, whatever it answers: the page is enabled and reads everything again.
Ends ==
  /\ helper' = IdleHelper /\ Settled
  /\ page' = [busy |-> FALSE, shown |-> file'.main, slider |-> file'.main]

(***************************************************************************)
(* The page: one operation at a time.  A file the kernel resumes from may  *)
(* be switched off, after a warning, but neither resized nor removed.      *)
(***************************************************************************)
IsResumeTarget == disk.resumes /\ file.main # NoFile

MoveSlider ==
  /\ ~page.busy /\ disk.supported /\ ~IsResumeTarget
  /\ \E size \in Sizes \cup {0} : size # page.slider /\ page' = [page EXCEPT !.slider = size]
  /\ UNCHANGED <<file, active, listed, helper, entrusted, runs>> /\ RestUnchanged

RunHelper(step, want) ==
  /\ ~page.busy /\ helper.at = "Idle" /\ runs < MostRuns
  /\ runs' = runs + 1 /\ page' = [page EXCEPT !.busy = TRUE]
  /\ helper' = [IdleHelper EXCEPT !.at = step, !.want = want]
  /\ UNCHANGED <<file, active, listed, entrusted>> /\ RestUnchanged

ToggleSwap ==
  \/ active /\ RunHelper("SwapOff", 0)
  \/ ~active /\ disk.supported /\ page.shown # NoFile /\ RunHelper("Enable", 0)

ApplySize ==
  /\ page.slider # page.shown /\ ~IsResumeTarget
  /\ RunHelper(IF page.slider = 0 THEN "Remove" ELSE "Room", page.slider)

RemoveFile == /\ ~disk.supported /\ page.shown # NoFile /\ ~active /\ RunHelper("Remove", 0)

(***************************************************************************)
(* Enabling, disabling and removing.                                       *)
(***************************************************************************)
Enable ==
  /\ helper.at = "Enable" /\ UNCHANGED file
  /\ \/ file.main \in Sizes /\ active' = TRUE /\ Goes("List") /\ UNCHANGED <<page, entrusted>>
     \/ Ends /\ UNCHANGED active       \* no file, no header, or swapon fails
  /\ UNCHANGED <<listed, runs>> /\ RestUnchanged

\* ensure_swapfile_fstab_entry, which enabling and resizing end with.
List ==
  /\ helper.at = "List" /\ listed' \in {listed, TRUE}
  /\ UNCHANGED <<file, active, runs>> /\ Ends /\ RestUnchanged

\* swapfile_disable; for a size of 0 and for the removal the file goes as well.
Disable ==
  /\ helper.at \in {"SwapOff", "Remove"} /\ UNCHANGED file
  /\ \/ /\ active' = FALSE /\ Goes(IF helper.at = "Remove" THEN "UnlistAndDelete" ELSE "Unlist")
        /\ UNCHANGED <<page, entrusted>>
     \/ active /\ Ends /\ UNCHANGED active
  /\ UNCHANGED <<listed, runs>> /\ RestUnchanged

Unlist ==
  /\ helper.at \in {"Unlist", "UnlistAndDelete"} /\ UNCHANGED file
  /\ \/ /\ helper.at = "UnlistAndDelete" /\ listed' = FALSE /\ Goes("Delete")
        /\ UNCHANGED <<page, entrusted>>
     \/ helper.at = "Unlist" /\ listed' = FALSE /\ Ends
     \/ Ends /\ UNCHANGED listed
  /\ UNCHANGED <<active, runs>> /\ RestUnchanged

Delete ==
  /\ helper.at = "Delete" /\ (Holds("main", NoFile) \/ UNCHANGED file) /\ Ends
  /\ UNCHANGED <<active, listed, runs>> /\ RestUnchanged

(***************************************************************************)
(* Resizing.  With room for both files the new one is built and validated  *)
(* beside the old one; otherwise the old one is released first.            *)
(***************************************************************************)
CheckRoom ==
  /\ helper.at = "Room"
  /\ UNCHANGED file
  /\ \/ Ends                                         \* refused
     \/ /\ disk.supported /\ file.fresh = NoFile /\ file.backup = NoFile
        /\ \/ helper' = [helper EXCEPT !.at = "Build", !.old = file.main] /\ entrusted' = file.main
           \/ file.main # NoFile /\ helper' = [helper EXCEPT !.at = "Release", !.old = file.main]
              /\ UNCHANGED entrusted
        /\ UNCHANGED page
  /\ UNCHANGED <<active, listed, runs>> /\ RestUnchanged

Build ==
  /\ helper.at = "Build"
  /\ \/ Holds("fresh", helper.want) /\ Goes("Retire") /\ UNCHANGED <<page, entrusted>>
     \/ \E left \in {NoFile, Blank} : Holds("fresh", left) /\ Ends
  /\ UNCHANGED <<active, listed, runs>> /\ RestUnchanged

Retire ==
  /\ helper.at = "Retire"
  /\ \/ /\ active' = FALSE /\ helper' = [helper EXCEPT !.at = "Aside", !.wasActive = active]
        /\ UNCHANGED <<file, page, entrusted>>
     \/ active /\ Holds("fresh", NoFile) /\ Ends /\ UNCHANGED active
  /\ UNCHANGED <<listed, runs>> /\ RestUnchanged

MoveAside ==
  /\ helper.at = "Aside" /\ Goes("Switch")
  /\ file' = IF file.main = NoFile THEN file ELSE [file EXCEPT !.main = NoFile, !.backup = file.main]
  /\ UNCHANGED <<active, listed, page, entrusted, runs>> /\ RestUnchanged

\* A bug: the backup is dropped as soon as the new file has its name.
SwitchDropsBackup ==
  /\ helper.at = "Switch" /\ Goes("Activate")
  /\ file' = [main |-> file.fresh, fresh |-> NoFile, backup |-> NoFile]
  /\ UNCHANGED <<active, listed, page, entrusted, runs>> /\ RestUnchanged

SwitchPath ==
  /\ helper.at = "Switch" /\ Goes("Activate")
  /\ file' = [file EXCEPT !.main = file.fresh, !.fresh = NoFile]
  /\ UNCHANGED <<active, listed, page, entrusted, runs>> /\ RestUnchanged

Activate ==
  /\ helper.at = "Activate"
  /\ \/ active' = TRUE /\ Goes("Settle") /\ UNCHANGED file
     \/ Goes("Restore") /\ Holds("main", NoFile) /\ UNCHANGED active
  /\ UNCHANGED <<listed, page, entrusted, runs>> /\ RestUnchanged

Restore ==
  /\ helper.at = "Restore"
  /\ file' = [file EXCEPT !.main = file.backup, !.backup = NoFile]
  /\ active' \in (IF helper.wasActive THEN BOOLEAN ELSE {FALSE})
  /\ Ends /\ UNCHANGED <<listed, runs>> /\ RestUnchanged

Settle ==
  /\ helper.at = "Settle"
  /\ \/ Holds("backup", NoFile) /\ Goes("List") /\ Settled /\ UNCHANGED page
     \/ UNCHANGED file /\ Ends
  /\ UNCHANGED <<active, listed, runs>> /\ RestUnchanged

Release ==
  /\ helper.at = "Release"
  /\ \/ /\ active' = FALSE /\ Holds("main", NoFile)
        /\ helper' = [helper EXCEPT !.at = "Rebuild", !.wasActive = active] /\ UNCHANGED page
     \/ active /\ UNCHANGED <<file, active>> /\ helper' = IdleHelper
        /\ page' = [busy |-> FALSE, shown |-> file.main, slider |-> file.main]
  /\ UNCHANGED <<listed, entrusted, runs>> /\ RestUnchanged

Rebuild ==
  /\ helper.at = "Rebuild"
  /\ \/ Holds("main", helper.want) /\ active' = TRUE /\ Goes("List") /\ UNCHANGED <<page, entrusted>>
     \/ \E left \in {NoFile, Blank, helper.old} :        \* the old size is recreated, or is not
          /\ Holds("main", left) /\ Ends
          /\ active' \in (IF left \in Sizes /\ helper.wasActive THEN BOOLEAN ELSE {FALSE})
  /\ UNCHANGED <<listed, runs>> /\ RestUnchanged

\* fsck and mkswap leave what was written; the next start swaps to what /etc/fstab names.
PowerCut ==
  /\ helper.at # "Idle" /\ UNCHANGED file
  /\ active' \in (IF listed /\ file.main \in Sizes THEN BOOLEAN ELSE {FALSE})
  /\ helper' = IdleHelper /\ runs' = 0 /\ stress' = IdleTest
  /\ page' = [busy |-> FALSE, shown |-> file.main, slider |-> file.main]
  /\ Settled /\ UNCHANGED <<listed, disk, devices, zramConf>>

(***************************************************************************)
(* zram.  Creating and removing a device rewrites the whole configuration  *)
(* from the devices the kernel lists, and restarts the vendor service: it  *)
(* resets every device, then builds the configured ones until one fails.   *)
(* The progress dialog of a helper run is modal.                           *)
(***************************************************************************)
SetUp(conf, from) ==
  FoldLeft(LAMBDA built, size :
             IF built.failed \/ size = 0 THEN [built EXCEPT !.failed = TRUE]
             ELSE LET free == {i \in DOMAIN built.list : built.list[i] = 0}
                  IN IF free = {} THEN [built EXCEPT !.list = Append(@, size)]
                     ELSE [built EXCEPT !.list[CHOOSE i \in free : \A j \in free : i <= j] = size],
           [list |-> from, failed |-> FALSE], conf)

PersistZram(conf) ==
  \/ UNCHANGED <<devices, zramConf>>                  \* authentication was cancelled
  \/ zramConf' = conf /\ UNCHANGED devices            \* the service was not restarted
  \/ /\ zramConf' = conf
     /\ \E good \in 0..Len(conf) :                    \* a command of the service may fail
          devices' = SetUp(SubSeq(conf, 1, good), [i \in DOMAIN devices |-> 0]).list

CreateDevice ==
  /\ Len(devices) < MostDevices
  /\ ~page.busy /\ PersistZram(Append(devices, 1))
  /\ FileUnchanged /\ UNCHANGED stress

DestroyDevice ==
  /\ ~page.busy /\ \E i \in DOMAIN devices : PersistZram(RemoveAt(devices, i))
  /\ FileUnchanged /\ UNCHANGED stress

(***************************************************************************)
(* The stress test: a thread that allocates, holds and releases, a flag it *)
(* reads between two steps, and one result on a channel.                   *)
(***************************************************************************)
Tests(next) == stress' = next /\ FileUnchanged /\ UNCHANGED <<devices, zramConf>>

StartTest == ~page.busy /\ stress.shows = "Idle" /\ Tests([IdleTest EXCEPT !.shows = "Running", !.thread = "Allocating"])
CancelTest == ~page.busy /\ stress.shows = "Running" /\ ~stress.pressed /\ Tests([stress EXCEPT !.flag = TRUE, !.pressed = TRUE])
RunStressTest ==
  \/ /\ stress.thread \in {"Allocating", "Holding"} /\ stress.flag
     /\ Tests([stress EXCEPT !.thread = "Sent", !.cancelled = TRUE])
  \/ /\ stress.thread = "Allocating" /\ ~stress.flag /\ Tests([stress EXCEPT !.thread = "Holding"])
  \/ /\ stress.thread = "Holding" /\ Tests([stress EXCEPT !.thread = "Releasing"])
  \/ /\ stress.thread = "Releasing" /\ Tests([stress EXCEPT !.thread = "Sent"])
ShowResults ==
  /\ stress.thread = "Sent"
  /\ Tests([stress EXCEPT !.shows = "Results", !.thread = "None", !.flag = FALSE])
RunAgain == ~page.busy /\ stress.shows = "Results" /\ Tests(IdleTest)

Init ==
  /\ \E content \in Sizes \cup {NoFile} :
       /\ file = [main |-> content, fresh |-> NoFile, backup |-> NoFile]
       /\ active \in (IF content = NoFile THEN {FALSE} ELSE BOOLEAN) /\ listed = active
       /\ page = [busy |-> FALSE, shown |-> content, slider |-> content]
  /\ disk \in [supported : BOOLEAN, resumes : BOOLEAN]
  /\ helper = IdleHelper /\ stress = IdleTest /\ entrusted = 0 /\ runs = 0
  /\ devices = <<1>> /\ zramConf = <<1>>

Next ==
  \/ MoveSlider \/ ToggleSwap \/ ApplySize \/ RemoveFile
  \/ Enable \/ List \/ Disable \/ Unlist \/ Delete
  \/ CheckRoom \/ Build \/ Retire \/ MoveAside \/ SwitchPath \/ Activate \/ Restore \/ Settle
  \/ Release \/ Rebuild \/ PowerCut
  \/ CreateDevice \/ DestroyDevice
  \/ StartTest \/ CancelTest \/ RunStressTest \/ ShowResults \/ RunAgain

Spec == Init /\ [][Next]_swapVars

(***************************************************************************)
(* Whatever command fails and wherever the power is cut: while a           *)
(* replacement with room is under way, or was interrupted, the previous    *)
(* swap file exists under one of its two names until its successor is      *)
(* active; the kernel never swaps to a file that is not there; the file    *)
(* the kernel resumes from is not replaced; and a stress test is running   *)
(* exactly as long as its thread lives, and cancelled only by the user.    *)
(***************************************************************************)
PreviousFileKept == entrusted # 0 /\ helper.at # "Settle" => entrusted \in {file.main, file.backup}
SwapsToAFile == active => file.main \in Sizes
ResumeTargetStays == entrusted # 0 => ~disk.resumes
TestIsHonest ==
  /\ (stress.shows = "Running") = (stress.thread # "None")
  /\ stress.cancelled => stress.pressed
SwapControlIsSafe == PreviousFileKept /\ SwapsToAFile /\ ResumeTargetStays /\ TestIsHonest
=================================================================================
