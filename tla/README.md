# AndioraOS: a verified model of its snapshots, its recovery and its desktop tools

AndioraOS is a Debian-based distribution: a build system and some sixty packages. Many of them are
assets, metadata and translations. One carries logic that must be right on every machine at every
power cut: `andiora-btrfs-snapshots-manager`, which takes Btrfs snapshots of the system and of Home
and replaces the running root by one of them. Around it are programs that interleave processes,
threads, privileged helpers and files of their own: the bash command guesser, the YubiKey manager,
Swap Control, the firewall front end, the windows of the snapshot manager. This directory models
them, checks the models with TLC and proves the most important properties with TLAPS.

Paths below are relative to `src/packages_src/`; Rust files without a directory are those of
`andiora-btrfs-snapshots-manager/src/andiora-recovery-engine/src/`.

## 1. Inventory

The snapshot manager:

| Component | State it keeps | Operations | Interacts with | Hard behaviour | What makes it correct |
| --- | --- | --- | --- | --- | --- |
| Rollback record store (`transaction.rs`) | `transactions/pending-rollback.json`, `rollback-history/` | create, update, remove, archive, load; phases, entries, checkpoints | all of the following | one file, three programs, no ids compared | every record written is one `validate()` accepts; phases follow the table; outcomes are archived before the record goes |
| Initramfs engine (`recovery.rs`, `data/initramfs-local-premount`) | none of its own: record and top-level subvolumes | apply, revert, fail safe | record store, Btrfs, kernel command line | power cuts between any two steps, commands that fail half-way, bounded attempts | never loses a system, never leaves a layout it does not know, always ends |
| Coordinator (`rollback.rs`) | none | schedule, its cleanup, cancel | record store, GRUB, package transactions, deployments | concurrent D-Bus calls, failure after each step | a restore is armed completely or not at all |
| Confirmation (`confirmation.rs`, its service) | none | reconcile: confirm, finish reverted, finish failed | record store, lineage, GRUB, Btrfs | list of durable steps repeated from the top after a failure | confirms only what runs; deletes the old root last |
| Boot integration (`boot.rs`, `data/01_*_env`, `data/09_*`) | EFI environment block, recovery menu entry; one copy of kernel, initramfs and confirmation engine | provision, arm once, clear, emit menu entry, stage the engine | GRUB, packages, coordinator, confirmation, initramfs | the selector is a lease GRUB itself renews; the copies are overwritten by later calls, by packages' successors and by the initramfs | an armed restore has the files whose digests it names; a selector without its record is harmless |
| Lineage (`lineage.rs`) | `system-lineage.json` | record activation, record recovery point, mark removed | confirmation, operations | repeated calls after crashes | agrees with the history, acyclic |
| Start lock, package hook, package transaction (`coordination.rs`, `package_hook.rs`, `package_transaction.rs`) | `start.lock`, pending package transaction and its history | APT pre and post hook, archive | coordinator, operations | APT killed between hooks; locks held for part of a call | never both a rollback and a package transaction |
| Deployments (`store.rs`, `operations.rs`, `model.rs`) | one record and one read-only snapshot each | create, pin, rename, verify, delete | record store, lineage, retention | interrupted creation and deletion | no Ready record without its snapshot; a referenced or last restorable snapshot stays |
| Personal snapshots (`personal.rs`) | records and snapshots of `@home`; one browse lock each | create by hand and when due, delete, pin, browse, export | helper | readers beside deletions, timers that fire together, power cuts | what is offered is on the disk, is not taken from under a reader, and scheduled ones keep their interval |
| Helper (`btrfs-snapshots-manager-helper/src/main.rs`) | rate limiters, quota, browse leases | the D-Bus methods | all engines, Polkit | methods run concurrently and wait for Polkit in between; a restart forgets | limits hold over any span; a lease admits its holder only |
| Helper support (`btrfs.rs`, `scrub.rs`) | one flag and one task record per kind of task | start, cancel, status of rebalance, defragmentation, integrity check | systemd, the kernel | a cancellation that meets a start or an end; the kernel outlives the service | one task at a time; a cancelled one is never called finished |
| Retention (`retention_v2.rs`) | none; one listing per run | select, delete one by one | deployments, personal snapshots | bucket edges, stale listings | what it deletes was superfluous; a usable snapshot is left |
| Automation (`automation.rs`, the scheduler) | `automation.toml` | the timer's worker, scheduled calls with notice | helper | the policy changes while a call sleeps | nothing after it was switched off; the interval is kept |
| Windows (`ui/snapshot_page.rs`, `ui/personal_history.rs`, `ui/btrfs_settings/maintenance/`) | lists, selection, dialogs, a browse lease, a countdown | refresh, delete, pin, restore, recover files, start and watch tasks | helper | answers out of order, other clients, windows that go away, service restarts | a page shows what is there; a recovered file is whole; a result is that of its run |
| Layout, Secure Boot inspection, notifier, CLI | none | single calls | helper | none of their own | - |

The other programs that keep state:

| Component | State it keeps | Operations | Hard behaviour | What makes it correct |
| --- | --- | --- | --- | --- |
| Command guesser, helper (`andiora-bash-guess-command/engine/src/runtime.rs`, `world.rs`, `domains.rs`) | a snapshot of packages, services, containers, Git and files; a queue of two workers | answer a query, observe a command, refresh, drain | refreshes that began before the command that invalidates them; a full queue | no query sees a list again that a command has invalidated |
| its choice (`slot.rs`, `arbiter.rs`) | a pool of candidates | generate, choose | ties, sources that must not fill in for each other | what is shown has the best evidence and no rival |
| its history (`history.rs`) | one log shared by all shells | append, load, compact | kills between the pieces of a line, compaction under other writers | no record is lost but in named ways |
| its front end (`native/andiora_ghost.c`) | the suggestion, the helper's socket | redisplay, accept, start and replace the helper | 8 ms deadline, late answers, prompts in between | the ghost belongs to the line it stands behind |
| YubiKey manager, sudo (`andiora-yubikey-manager/data/helper`, `backend.rs`, `window.rs`) | metadata, PAM mapping, PAM stack, sudoers | enrol, remove, switch, repair | four files, one write after another, a helper that dies, two accounts | accepted keys are listed; nobody is locked out |
| its SSH and Git pages (`ssh.rs`, `ssh_config.rs`, `git_signing.rs`) | `~/.ssh/config` and a fragment; keys in the device; Git's settings | share connections; list, create, delete, load, choose | the user edits the same files; commands that do their work and lose the answer; keys swapped in the port | no edit is lost; an answer that allows another try changed nothing |
| its Home page (`device_monitor.rs`, `home.rs`) | device and enrolment readings | navigate, poll, hotplug | readings side by side | it shows what is plugged in |
| Swap Control (`andiora-swapcontrol-gtk`) | swap file, `fstab`, zram configuration and devices, a stress test | create, resize, enable, disable, apply, test | commands that fail, power cuts between any two | the previous swap file is kept until its successor is active |
| Firewall (`andiora-ufwall-gtk`) | a list of ufw's rules read some time ago | list, add, edit, delete, profiles, mDNS, audit | rules are numbered anew by every change | deleting all deletes what was listed |

The installer, the Secure Boot toolkit, the driver center, the why-ai assistant, the desktop daemons,
the build tools and the themes are listed with their reasons in `PROJECT.json` and in section 6.

The three programs of a rollback never call one another. Userspace writes a record and a GRUB
selector and restarts; GRUB clears the selector and starts the recovery entry, which sets it again;
the engine reads record and layout, moves subvolumes and writes the record; userspace reads the
record in the next boot and finishes. Each may be cut off anywhere. The helper's methods run as tasks
of one process; every engine they call makes its own view of the files, so only file locks serialise
them. The windows and the scheduler are D-Bus clients of the helper. The programs of the second table
share no state with these or with one another, except the guesser's shells, which share one log.

## 2. Modules

Four groups. The first three are composed as the code composes them:

| Module | Models | State | Actions |
| --- | --- | --- | --- |
| `RollbackTransaction` | `transaction.rs` record | (operators only) | phase table, entry, checkpoint, `begin_apply`, failure, `validate` |
| `RecoveryState` | what the programs share | all variables | - |
| `InitramfsRecovery` | hook and `recovery.rs` | `pc`, `rounds`, `owed`, `view`, `disk`, `tx` | one per durable effect of hook, dispatch, apply and revert |
| `RollbackCalls` | `rollback.rs`, `confirmation.rs`, `record_activation` | `call`, `held`, `tx`, `history`, `lineage`, `selector`, `menu` | one per backend call of schedule, cleanup, cancel, reconcile |
| `SystemRollback` | GRUB, boot sequence, power; composes the two | `power`, `boot`, `requested`, `serviced` | `Boot`, `MountRoot`, `Crash`, `Panic`, `Restart`, `Init`, `Next`, fairness |
| `AtomicSwitch` | the abstract promise | `current`, `pending`, `switched` | `Begin`, `Commit`, `Abandon` |
| `RollbackProperties` | properties, refinement mapping, inductive invariant | - | - |
| `DeploymentStore` | what the operations on system snapshots share | records, snapshots, lineage, locks, the two pending transactions | the helpers that write them |
| `Deployments` | `operations.rs` | `rec`, `view`, `disk`, `lineage`, `used`, `job` | one per durable effect of create and delete, `SetPinned` |
| `Coordination` | `schedule` up to its record, `package_hook.rs`, `package_transaction.rs`; composes them with `Deployments` | `rollback`, `package`, `job`, `faults` | `Schedule`, `Claim`, `Clean`, the hooks, `Withdraw`, `Apply`, `Settle`, `Die`, `LosePower`, fairness |
| `CoordinationProperties` | properties, inductive invariant | - | - |
| `PersonalStore` | the store of the Home snapshots | `rec`, `view`, `disk`, `drawn`, `clock`, `job`, `faults` | the helpers that write them |
| `PersonalSnapshots` | `personal.rs` and the methods that reach it | the same | creation by hand and when due, deletion of several, `SetPinned`, browsing, cleanup, `Die`, `LosePower` |
| `RestorePoints` | the abstract promise of a store of restore points | `offer` | `Next` |
| `HomeProperties` | properties, refinement mapping, inductive invariant | - | - |
| `SystemRollbackProofs`, `CoordinationProofs`, `HomeProofs`, and of the fourth group `ProgramProofs`, `UpkeepProofs`, `SecurityKeyProofs`, `WindowProofs`, `GuesserProofs` | theorems | - | - |
| `MCRollback`, `MCCoordination` | values for TLC | - | - |

The fourth group are programs that stand alone, each a module with its own properties at its end.
`Programs` puts them side by side, `MCPrograms` gives their constants values:

| Module | Models | State | What may happen in any order |
| --- | --- | --- | --- |
| `Retention` | `retention_v2.rs`, `apply_schedule_retention_impl` | `kept`, `selected`, `taken`, `today` | a run decides once and deletes one by one; snapshots are taken, pinned, deleted; days pass; runs fail |
| `HelperService` | browse leases of `main.rs` | `leases`, `call`, `system`, `protected` | calls of several processes, each with its Polkit wait; deletions, pins; expiry; restarts |
| `SnapshotRequests` | quota and rate limit | `attempts`, `lastOperation`, `request` | calls overtaken at Polkit and at Btrfs; the clock; restarts |
| `Automation` | scheduler, timer, policy | `policy`, `worker`, `turn`, `lastCall`, `snapped` | worker and a second caller, a policy saved while a call sleeps, restarts |
| `Maintenance` | `btrfs.rs` tasks | `running`, `task`, `thread`, `kernel`, `asked` | starts, cancellations, ends of the kernel's work, deaths of the service |
| `BootArtifacts` | `boot.rs` provisioning, staging in `recovery.rs` | `installed`, `artifacts`, `restore`, `menu`, `selector`, `machine`, `steps` | two schedule or cancel calls, package upgrades, `update-grub`, boots |
| `FileRecovery` | `personal_history.rs` | `view`, `rows`, `listing`, `lease`, `release`, `recovery`, `destination`, `folders` | two viewers' listings and recoveries, releases of tokens that come late or fail, the main window closing, a kill |
| `SnapshotPage` | `snapshot_page.rs` | `stock`, `reply`, `again`, `items`, `modal`, `picked`, `remaining` | queries, signals, dialogs, other clients, the countdown |
| `TaskDialog` | the maintenance windows | `started`, `busy`, `control`, `dialog`, `monitor`, `late` | polls, queries that fail or are answered with defaults, starts waiting for an authorization, other clients, service restarts |
| `GuessEngine` | `runtime.rs`, `world.rs` | `gen`, `at`, `where`, `content`, `queue`, `workers` | commands observed, refreshes begun and ended, `cd`, draining |
| `GhostLine` | `andiora_ghost.c` | `screen`, `cached`, `suggestion`, `visible`, `socket`, `wire`, `answers` | keys, redisplays, answers in time or late, helper deaths, `diagnose` and `configure-history` |
| `GuessHistory` | `history.rs` | `log`, `lock`, `writer` | two shells' appends, loads of a part of the log or of none, compactions, kills |
| `GuessArbiter` | `slot.rs`, `domains.rs` generate, `arbiter.rs` | `slot`, `pool`, `answer` | any candidates of every source, in the code's order |
| `SecurityKeys` | sudo page and privileged helper | `enrolled`, `mapping`, `pam`, `managed`, `window`, `holder` | two accounts' pages, the helper write by write, its death, repair |
| `SshPersistence` | `ssh_config.rs` | `sshConfig`, `fragment`, `change`, `toggle` | the user's edits, I/O errors of the change, of taking it back and of the last look, rejection by ssh, death |
| `ResidentKeys` | `ssh.rs`, `git_signing.rs` | `resident`, `results`, `agent`, `git`, `job` | lost answers, keys swapped while a call runs, `git config` failing and its rollback failing |
| `KeyHome` | `device_monitor.rs`, `home.rs` | `snapshot`, `full`, `reading`, `debounce`, `events` | full and passive readings, udev lines, polls |
| `SwapControl` | the helper, the page, zram, stress test | `file`, `active`, `listed`, `helper`, `devices`, `stress` | failing commands, an `fstab` that cannot be written after `swapon` or `swapoff`, power cuts between commands |
| `UfWall` | `ufw/backend.rs`, the pages | `rules`, `made`, `edit`, `everything`, `profile`, `mdns`, `audit` | a delete-all, an edit, additions at any position with their second lines, deletions and a profile switch at the same time; two reads of the units and the helper |

The first two groups meet at the rollback record. The first follows one record from
its creation to its end and knows a deployment only as a system to boot. The second follows the
deployments and knows the rollback only as a pending record that names two of them and is applied,
or not, at a restart. `RecordLineage` of the first assumes that the lineage lists both.
`BootArtifacts` follows the same record a third time, for its files and their digests, and knows of
apply and confirmation only that they happen.

How the state corresponds to the code, in the first group:

* `tx` is the pending file. A write is `write_atomic`: temporary file, fsync, rename, fsync of the
  directory. It is durable when it succeeds; when it fails the rename may have happened or not, so
  both outcomes are possible. Every other call has the same form: an effect and a success, or either
  outcome and an error that goes where `?`, the cleanup or the hook takes it.
* `view` is the Btrfs top level as the running kernel shows it, `disk` as the last commit left it.
  Subvolume commands change `view` only; `btrfs filesystem sync` copies it; a power cut keeps one of
  the two. Three subvolumes matter: `@root`, the protected old root and the new root of the rollback.
  The last two bear the rollback's id in their names, so they start out absent for a new id.
* A root is identified by the rollback that created it, or `Installed`. Of two rollbacks to the same
  snapshot the parent UUID is equal (`Parent`), as in the code; `TargetOf` makes it so in the runs.
* `held` is the copy of the record a call keeps in memory: `schedule` and `reconcile` write from the
  copy, not from the file, and nothing compares the two.
* `selector` is `next_entry` of the EFI environment, `menu` the id whose entry `grub.cfg` holds. They
  go stale in every way the code allows: a menu entry survives the removal of its record until
  `update-grub`, and other packages run `update-grub` at any time.
* `rounds` is the iteration left of the loops at `recovery.rs:448` (5) and `recovery.rs:541` (6).
* Boot ids are random UUIDs, so a boot takes one that nothing records (`FreshBootIds`); four are
  enough for the running boot, the two of the record and one more.

In the second group:

* `rec` holds the metadata files, `view` and `disk` the snapshots as the running kernel and the last
  commit have them. A record has an identity (`uuid`) from Ready on; `Issues` are the records whose
  snapshot discovery does not find. Metadata is fsynced file by file, Btrfs is not: that is why a
  power cut can separate them.
* A `job` is one activity: a D-Bus method, the scheduler's creation or retention, an APT hook, a
  schedule call. Its step says what it does next and what it holds. `operation.lock` is tried
  (`LOCK_NB`), `start.lock` is waited for; the kernel drops both with their holder, so they are
  derived from the steps and not variables. Steps that nobody can observe between are one action:
  `begin_transaction` and `create_transaction` run whole under `start.lock`, pinning whole under
  `operation.lock`.
* `lineage` says of each id whether the history lists it, and as available or removed. `EnsureFails`
  is a migration that does not pass its own validation.
* `Withdraw`, `Apply` and `Settle` are the first group seen from the second.
* An id is drawn once (`used`), as UUIDs are; the reserve of free space is that an id is left.

In the third, `rec`, `view`, `disk` and `job` mean the same for Home. The browse lock of a snapshot is
shared by its readers and exclusive for its deletion; who holds it follows from the steps as well.
`clock` is the time the due check compares, in units of which `Interval` is two.

In the fourth, a version stands for a content and its digest, a number that grows for a generation or
a moment; a command of another program is one action with the outcomes the calling code tells apart,
"did its work and failed" among them; a variable called history in its comment exists for a property
only. What each module leaves out is said in its head or at the definition.

`Programs` is no composition: a behaviour of it is a behaviour of one of its programs, the others
rest. It lets one run check all of them, each as if alone; the number of states is the sum.

Abstracted throughout: wording, formatting, layout of windows, parsing of command output (the result
is an input), path and file-type checks (their refusal is an error outcome), progress reports. In the
first group also times and digests, in the second titles, the parents and the head of the lineage and
the history files.

## 3. Runs

| Run | Instance | Question |
| --- | --- | --- |
| `rollback` | 2 rollbacks, 1 call at a time, 3 attempts, 4 faults | does any combination of crashes and errors break apply, revert or confirmation; does the machine implement `AtomicSwitch` |
| `rollback_race` | 2 rollbacks, 2 concurrent calls, 2 attempts, 2 faults | what still holds when nothing serialises the calls; is `IInv` an invariant |
| `rollback_live` | 1 rollback, 1 call, 2 attempts, 3 faults, fairness | does a rollback end, is it archived, does the machine come up |
| `coord` | 3 deployments, 2 jobs, 2 faults, symmetric | do creations, deletions, retention, schedule calls and hooks keep what they promise one another, cut off anywhere; is this group's `IInv` an invariant |
| `coord_live` | 2 deployments, one of an earlier release, 2 jobs, 1 fault, fairness | does every job end, does an interrupted deletion end when asked for again |
| `home` | 2 snapshots, 2 jobs, 3 moments, 2 faults | do timers, callers, readers and the cleanup of Home keep what they promise; does the store implement `RestorePoints` |
| `programs` | 19 programs, one at a time | does each keep what its module says of it |
| `find_orphan`, `find_cleanup`, `find_undeletable`, `find_refs`, `find_ghost` | see section 5 | statements of the documentation, of messages and of tests that the code does not keep |

Bounds of the recovery. Two rollbacks are what it takes for one to meet the leavings of another (menu,
selector, history, parent UUID, a late call). `MaxAttempts` is 3 in `rollback`, the constant of the
code; 2 in the others keeps a first attempt and a retry. `MaxFaults` bounds power cuts and failing
calls together: four cut every one of the three allowed attempts and the revert after them; in the
other runs it bounds the product with the interleavings. In `rollback_race` boot ids are symmetric; no
property distinguishes them. In `coord` three deployments are a target, its
safety snapshot and one more; two jobs are every pair of activities, and a third adds no pair, for
all that is shared is locks, records and transactions read one at a time; two faults are a failure
and a cut of its cleanup or retry. Ids used up are never free again, so a run is a history of at most
three deployments. In `home` two snapshots are one that is offered and one in the making, or two that
a timer would make at once; two jobs as in `coord`; the clock passes one interval. `CHECK_DEADLOCK
FALSE` everywhere: a machine, a window or a shell may be left alone for ever.

Bounds of `programs`, in `programs.cfg`: two of whatever may overlap (calling processes, requesters,
schedulers, accounts, keys, shells, viewers, queue workers, directories), because every rule these
programs rely on is between two; between one and three operations of each kind, so that one can follow on
the leavings of another; one fault or two kills; and a clock that passes the longest limit of the program
by a step, so that something expires and something follows. Sizes let a second thing follow the first: two
zram devices, three rules (`MostRules`), a read of the discovery units that overtakes another (`MostReads`
2), two lives of the service. The guesser's log has 8,000 lines that are read (`LinesRead`) and 2,000
entries that are kept (`EntriesKept`) in the code; with 2 and 1 of the three lines at which it is
compacted (`MostLines`), both limits leave something out. `MCPrograms` gives retention a calendar of days
of two moments and weeks that a month may cut, and the arbiter words that are prefixes of one another.

Safety properties of the rollback, each with the code it is about, are stated in `RollbackProperties`:
`RecordReadable`, `CommittedSystemSurvives`, `LayoutAlwaysKnown`, `MissingRootIsMended`,
`CheckpointsAreDurable`, `StoresAgree`, `OutcomeMatchesRoot`; `ConfirmedOnlyWhenRunning`,
`ArchivedBeforeRemoved`, `PhasesFollowTable`, `OutcomesAreFinal`, `OldRootOutlivesDoubt`. The first
four and the refinement `SwitchIsAtomic` say together that power cuts do not matter: what the machine
will run changes only in the one step that records the confirmation, and until then a complete
system can be put back whatever was interrupted. All but three of them are proved for any
number of overlapping calls; `ConfirmedOnlyWhenRunning`, `ArchivedBeforeRemoved` and the refinement
cannot hold of those (section 5) and are checked and proved for one call at a time.

Of the system snapshots: `BoundaryHasOneOwner`, `RestorableIsDurable`, `RemovedIsNotOffered`,
`AutomaticKeepsRestorable`, `PendingReferencesKept`. Together they say that what the user sees as a
restore point is one: committed before it is offered, never offered again once it is given up, not
taken by a cleanup that would leave none or by a deletion while a restart is going to use it.

Of Home: `OfferedIsDurable`, `NoDeletionUnderReader`, `Spaced`, and `ImplementsRestorePoints`: to its
user the store is a set of points that appear, are protected and released, and go for good, each in
one step. `Spaced` holds within the bound of faults only: three failures of one creation hide its
snapshot from the check, and a power cut brings it back.

Of the programs, by the property of the run:

* `HistoryIsCovered` (`Retention`): as long as the policy promises a day or a week, it has a snapshot
  at least as new as any that was taken in it, across changes of tier, half-done runs and new
  snapshots; and a cleanup leaves a usable one unless the user takes away the one it counted on.
* `HelperIsSafe`: a process reads only what an administrator opened for it, under a permission still
  good when the call checked it, and nothing is deleted under the reader (`HelperService`); no span
  of the window has more passwordless Home snapshots than the allowance, none of the rate limit more
  than one system snapshot, in one life of the service (`SnapshotRequests`).
* `AutomationObeys`: no automatic snapshot later than one notice after its scope was turned off, and
  none within the interval of another, whoever asks.
* `MaintenanceIsHonest`: a cancellation answered with success leaves nothing at work; finished means
  completed; the flag is up exactly while a task of that kind is.
* `ArtifactsFitRecord`: as long as no two calls overlapped, the files of an armed restore are those it
  was armed with and GRUB has its entry, whatever is installed meanwhile; and the engine the
  transient unit runs is, after any overlap, the one the record names.
* `WindowsAreHonest`: a list is of the folder it names, a recovered file is replaced whole or not at
  all, an incomplete folder is not called recovered (`FileRecovery`); a list at rest is from after
  the last change and signal the page knows of, and a restart is requested once (`SnapshotPage`); a
  window that started a run never presents an earlier one's outcome, if the status it read before the
  start was one and not the defaults of a failed query (`TaskDialog`).
* `SecurityKeysAreSafe`: an accepted key is listed, a switch locks nobody out, nobody's policy changes
  by another's run, an entry names the key that was touched, the page shows the policy that holds.
* `KeyPagesAreHonest`: the block in the SSH configuration has its fragment, the user's edits survive,
  a change that fails leaves files that can still be switched, and both as they were unless taking it
  back or the last look failed too (`SshPersistence`); an answer that allows another try changed
  nothing, a selection for Git is whole unless its rollback fails (`ResidentKeys`); Home shows the
  plugged keys (`KeyHome`).
* `GuessesAreHonest`: no list is offered that a command has invalidated since it was read (`GuessEngine`);
  the ghost is that of the line, but after a `diagnose` (`GhostLine`); the log counts every record once
  and loses it only to a torn line, one for each kill, or to a compaction that had it before it, past the
  limits of what it reads and keeps or in a log it could not read; what another shell appends meanwhile
  stays (`GuessHistory`); what is shown has the best evidence and no rival (`GuessArbiter`).
* `DesktopToolsAreSafe`: the previous swap file exists until its successor is active, wherever the
  power goes (`SwapControl`); deleting all rules deletes those it read unless another command moved
  their numbers, an edit that ufw refuses loses none but the last rule, the discovery switch tells the
  truth after a read that began when the helper was done, and the auditor always (`UfWall`).

Exceptions stand in the properties themselves and are what the code concedes: the history variables
(`raced`, `orphans`, `cut`, `gaveUp`, `killed`, `admitted`, `overlapped`, `shifted`, `moved`,
`settled`, `cleaned`, `blind`, `diagnosed`, `forgotten`) name them one by one. What they admit is in
section 5 where it contradicts a comment or surprises a user.

Liveness and fairness. A machine that is off is started (`WF` of `Boot`); initramfs code and calls
run on (`Engine`, `MountRoot`, `Panic`, `CallStep`); systemd starts the confirmation service in
every boot of `multi-user.target` (`ConfirmationService`); an idle machine is restarted at some time
(`Restart`). Weak fairness is enough for all: none of these is disabled again by anything but a
power cut or the activity itself. Nothing forces users to schedule, cancel or reconcile. Faults are
bounded, which is the assumption that power holds eventually; the code's own limit is on attempts.
In `coord_live` jobs are strongly fair, because one may wait for `start.lock` while others take it in
turn and the kernel queues waiters; a deletion that is left in Deleting is asked for again, for ever,
and not only while another operation runs (`DeleteAgain`); a browse lease is not held on every one of
these attempts (`NoLease`); the confirmation service settles an applied rollback when it can
(`Settle`). Nothing forces anyone to create, pin, schedule or run APT. The programs of the last run
state no liveness: what must end there ends because a user, a timer or another program goes on, and
the code promises nothing of them.

## 4. Proofs

`SystemRollbackProofs` is about the rollback, for any sets of rollbacks, boot ids, targets and calls,
any attempt limit above zero and any number of faults, from the assumptions named in the modules. For
calls that overlap in any way:

* `TypeCorrect`: `Spec => []TypeOK`; `InvariantHolds`: `Spec => []IInv`.
* `CommittedSystemNeverLost`, `MissingRootAlwaysMended`: the committed system is complete on the disk,
  and a missing root is one the engine puts back.
* `RecordAlwaysReadable`, `LayoutsAlwaysKnown`, `CheckpointsAlwaysDurable`.
* `StoresAlwaysAgree`, `OutcomeAlwaysMatchesRoot`, and the action properties
  `PhasesAlwaysFollowTable`, `OutcomesAlwaysFinal`, `OldRootAlwaysOutlivesDoubt`.

For one call at a time (`OneCall`): `OnlyRunningConfirmed`, `AlwaysArchivedFirst`, and the refinement
`SwitchAlwaysAtomic`, `Spec => SwitchIsAtomic`. That hypothesis is what the code needs and does not
enforce: of two calls that pass their checks together one removes or replaces the record of the
other, as `find_cleanup` shows. One call includes its own death, power cuts and every boot.

None of these properties is inductive. `IInv` is, and it has five layers, each inductive relative to
those before it:

1. `Frame` (`TypeOK`, `EngineRuns`, `CallsRun`): the engine runs only in the initramfs, on a loaded
   record whose phase fits its step; calls run only in userspace with a copy that fits theirs.
2. `CoreInv` adds what carries the safety. While any call runs, no rollback is in flight but the one
   it is about to confirm (`CallsMeetNoFlight`), which holds because calls write only records that
   are not in flight, and only the initramfs, where no call survives, makes one so; every decision
   is taken on a synced layout (`SyncedBeforeDecision`); nothing is protected before it is applied
   (`NothingProtectedYet`); `BootedUnconfirmed` names a durable root (`BootedIsDurable`).
3. `RecordsAreSound` and `IdsAreIssued`: every record, pending or in a call's hands, passes
   `validate` and has a checkpoint of its phase; whatever bears an id was made by who drew it. Here
   `StepEffect` says once, for all actions, what a step of the machine can do to the record, the
   layouts and the calls, and `NextEffect` proves that every step has one of these effects. The
   layers above are proved from the effects, not from the actions.
4. `LayoutsAreSound`: mounted and durable layout are ones the loops know, bear only the names of the
   pending rollback, and hold what its checkpoint says; the loop has rounds enough left to converge
   (`Ahead`), so an in-flight rollback never fails for want of a round.
5. `OneStory`: calls that settle rollbacks between two boots settle the same one, and what they have
   told history and lineage is what their step says (`Tells`); a call that schedules has drawn an id
   nobody tells of (`Draws`); whatever once was the running system is the installed one or was
   confirmed (`RootsAccounted`), so an outcome names the root it left behind.

The refinement maps to `AtomicSwitch` the system the machine ends up with if the rollback in flight is
given up now, the rollback that may still be committed, and those that were. With one call at a time a
call finds the record its step expects (`Finds`, preserved as `Alone`), so a record leaves only after its
outcome was told, and every effect maps to `Begin`, `Commit`, `Abandon` or a stutter (`StepSwitches`).
`rollback_race` checks `IInv`, `rollback` the properties.

`CoordinationProofs` proves for any sets of deployments and jobs, any store of an earlier release and
any number of faults:

* `StoreTypeCorrect`: `Spec => []TypeOK`.
* `BoundaryNeverShared`: `Spec => []BoundaryHasOneOwner`.
* `CoordinationInvariantHolds`: `Spec => []IInv`.
* `OfferedIsDurable`: `Spec => []RestorableIsDurable`.
* `RemovedNeverOffered`: `Spec => []RemovedIsNotOffered`.
* `PendingKeepsReferences`: `Spec => PendingReferencesKept`.
* `RetentionLeavesOne`: `Spec => AutomaticKeepsRestorable`.

Again in two layers. `Frame` says who holds what. `BoundaryHasOneOwner` alone is not inductive: a hook
writes its record after it has released `start.lock`, and if the record were gone by then the write
would make a second owner. `Frame` adds that a running hook has its record pending (`HookHasRecord`)
and runs alone (`OneHook`, from APT's own lock), that one job holds `operation.lock`
(`OneOperation`), and that every job has the kind, the record and the lineage its step works on
(`JobsFit`). The lemmas `JobBecomes` and `JobGoes` carry the argument for a step of one job among
many; each action then has a lemma that fits it to them.

The rest of `IInv` is inductive relative to `Frame`, and says what the store's parts owe one another.
`Sound`: a Ready record has an identity, and its snapshot, where there is one, is on the disk; a
deployment the lineage calls removed is being deleted; and what is known was drawn. `Works`: a job's
record is in the state its step expects, so that the snapshot a commit makes Ready is on the disk
already. `NamesApart`: what a rollback names, or a schedule call is going to name while it holds
neither lock, is neither being made nor about to be deleted; it holds because a schedule call starts
with a restorable target while nobody operates, because new ids are fresh, and because a deletion
looks at the pending record after it has `start.lock` and keeps the lock to its end. `FloorKept`: a
deletion by retention that has passed its floor still leaves another restorable deployment, because
nobody else operates meanwhile. `SoundStep` carries a step of one job, `OwnSound` and `QuietSound` its
two common shapes, `NamesStep` what the step does to the names. The two action properties follow from
`LossIsOneJobs`: whatever a step takes away, one job takes away, and it is what that job works on.

`HomeProofs` proves for any sets of snapshots and jobs, any interval, clock and number of faults:

* `HomeInvariantHolds`: `Spec => []HomeInv`.
* `OfferedSurvivesPowerCut`: `Spec => []OfferedIsDurable`.
* `ReadersAreSafe`: `Spec => []NoDeletionUnderReader`.
* `StoreImplementsRestorePoints`: `Spec => ImplementsRestorePoints`, the refinement.

`HomeInv` joins the types, `OfferedIsDurable`, that one job holds `operation.lock` (`OneHolder`), and
`JobFits`: a creation works on the record it wrote, a deletion on one it marked, and a reader, who
looked before it had the lock, on a snapshot that still exists. A step of one job leaves the others
fitting because it holds the lock (`StepUnderLock`) or changes nothing they use (`OthersFit`). For the
refinement every action either leaves each `OfferOf` alone or moves one along `Moves`
(`KeepsIsMove`); a power cut moves none, because what is offered is on the disk.

`UpkeepProofs` proves `HistoryAlwaysCovered`, `Spec => []HistoryIsCovered`, for any calendar whose
weeks are made of whole days, any policy and any length of life. The step that matters is the
decision: the newest snapshot of a day that is still promised is never in a bucket with a newer one
(`NewestOfDayStays`, `NewestOfWeekStays`), whatever tier the others fall into; it exists by the
well-foundedness of the naturals (`LastExists`). Deletions then remove only what was decided.

It also proves `MaintenanceAlwaysHonest`, `ProgramSpec => []MaintenanceIsHonest`, for any number of
callers and starts. `MaintenanceInv` is about one task at a time: the flag of a task is up because of one
call or of its thread, never two (`FlagFits`); once begun its record is its own until the thread ends it
(`RecordFits`). The generation carries the argument: the kernel balances for the thread that waits or for
an earlier service, and a generation that was cancelled has not begun, was stopped, or is over
(`BalanceFits`); a child is killed only by who has left the wish in its own record (`DefragFits`).

And `DesktopToolsAlwaysSafe`, `ProgramSpec => []DesktopToolsAreSafe`, for any sizes, rules, failures and
power cuts. `SwapInv` says at each step of the helper under which name the previous file is
(`BackupFits`), and that a replacement is asked for only where the kernel does not resume from the file
(`PageWaits`). `WallInv`: what Delete all has still to delete are the first lines of the list, none of
them younger than the reading, and behind them are only younger ones (`SweptTo`): that is why it
deletes from the end and why another command that moves the numbers (`shifted`) breaks it; an edit that
has deleted a line before the last can still insert there (`EditHolds`); a read that began after the
helper ended found the units as they are (`WallReads`); the age of a silent connection is never more
than its silence (`WallListens`).

`SecurityKeyProofs` proves `SecurityKeysAlwaysSafe`, `ProgramSpec => []SecurityKeysAreSafe`, for any
number of accounts, keys, credentials and helper runs. The helper writes four files in a row and may
die between any two, so `KeysInv` says what each prefix has left: metadata, mapping and PAM stack
agree but for the run at work and the accounts whose run was cut off (`FilesAgree`, `KeyRunFits`), a
run on the policy could put back what it found, and the rules of the others are as it read them
(`PolicyRunFits`). A removal takes no other entry's credential because numbers are never drawn twice,
in the files, in the run or in a request that still waits for the lock (`NumbersFit`); and a page may
trust what it has drawn because only the run it waits for changes it (`PageFits`).

It also proves `KeyPagesAlwaysHonest`, `ProgramSpec => []KeyPagesAreHonest`. `KeyHomeInv`: a reading
that nothing disturbed, and after one every reading, has the keys that are plugged in (`HomeAgrees`).
`SshInv`: at every step of a change, what is about to be renamed over the configuration was made of the
text in it unless the user wrote in between (`TextSteps`), the block is there only over its fragment
(`BlockSteps`), and a run that is alone with the files knows what it found, what it has changed of it
and whether that was taken back (`Alone`). `ResidentInv`: a
call knows what it has done by its step, not by the answer it got (`CreateSteps`, `DeleteSteps`,
`GitSteps`), so an answer that allows another try follows only a step that changed nothing.

`ProgramProofs` proves of programs that run side by side, for any number of callers, requesters,
schedulers and operations, any clock and any limits:

* `HelperAlwaysSafe`: `ProgramSpec => []HelperIsSafe`.
* `AutomationAlwaysObeys`: `ProgramSpec => []AutomationObeys`.
* `ArtifactsAlwaysFit`: `ProgramSpec => []ArtifactsFitRecord`.

Each program has an inductive invariant of its own; `SideBySide` joins them, and a step of one program
leaves the others' because it changes nothing of theirs. `HelperInv`: every lease in memory was granted and
no token twice (`LeasesGranted`); a call past the check was covered by a grant at the moment of the
check, however late it opens the file (`ChecksCovered`); one deletion runs, of a snapshot nobody
reads (`DeletionsApart`). `LimitsInv`: the attempts the service remembers are the end of what was
really spent, and what it forgot is older than the window (`QuotaKept`), so the check of the short
list is a check of the long one; the rate limit is kept since the last restart (`RateKept`).
`AutomationInv`: a call sleeps no longer than the notice, and one about to create found its scope on at
most a notice ago (`TurnFits`); the rate limit of the helper plays no part. `ArtifactsInv`: restore
ids are drawn fresh, so no boot was asked for a restore that a call is still arming (`IdsAreDrawn`);
a restore inherited by a boot meets no call that schedules (`InheritedIsAlone`); the engine a unit
was given is the recorded one (`UnitIsRecorded`); and as long as no two calls overlapped, what a
call has copied, hashed, recorded and offered is what is there (`OneAtATime`, `ArmedFits`).

`WindowProofs` proves `WindowsAlwaysHonest`, `ProgramSpec => []WindowsAreHonest`, for any number of
viewers, snapshots, tasks and starts. `FileInv`: only the last listing asked for can answer (`RowsFit`),
the token of a closed window is being released or that failed (`LeaseFits`), a run works on a folder of
its own until it has told what became of it (`RunFitsIn`), and an incomplete folder has somebody who works
on it or was admitted (`FolderFits`). `PageInv`: a reply older than what is due is read again, so a page
at rest is not (`ListFits`), and a restart is asked for by the answer to one dialog (`RestartFits`).
`DialogInv` carries the argument that a service which is restarted, and numbers its runs afresh, fools no
window: what a loop has seen begin is newer than what had ended when its window was opened, and until it
sees one begin the marker it started from tells the old run, unless that marker was made of defaults
(`MonitorFits`); the answers under way fit the same (`AnswerFits`).

`GuesserProofs` proves `GuessesAlwaysHonest`, `ProgramSpec => []GuessesAreHonest`, for any places,
lines, letters, confidences, shells, commands and bounds:

* `EngineInv`: what a worker has read for the current generation was read after the last invalidation,
  for its own directory (`WorkerFits`); so whatever older workers deliver later is of another generation.
* `GhostInv`: at most one request is under way, and in the socket is nothing but it or its answer
  (`Exchanges`), because after a missed deadline helper and socket are replaced; a hint is for the line
  it was cached for unless a diagnosis took its place, and while one is drawn that line is on the
  screen (`HintFits`).
* `ArbiterInv`: every candidate in the pool is of a kind the slot allows and comes from a source that
  may speak there (`SourcesFit`). That the best score exists, that the longest common prefix of lines
  with a common prefix extends it (`CommonIsCommon`), and that the choice has no rival (`ShownFits`)
  are lemmas for any pool.
* `HistoryInv`: a record still to be appended is in no line and no other helper has it
  (`UnwrittenFits`); who holds the lock has read what the log still says (`HolderFits`); each torn line
  that can still spoil a record is a kill that no spoiled record accounts for yet (`PaidFor`). What
  a compaction is going to write and what it leaves out are together what the log says and share
  nothing, because the merged lines are apart (`Apart`, `MergedFits`) and count only what was read
  (`NewestFits`); so counts never grow, whatever the limits, and shrink by what was left out.

Only model-checked: `Spaced` of Home, which is true within the bound of faults only, so there is nothing
to prove for all values of it, and liveness. Out of the prover's reach: liveness under fairness and
`ENABLED`, and induction over data; no module that is proved about uses recursive operators. Where a
proof needs a greatest or least element it takes it from the well-foundedness of the naturals.

## 5. Where code and documentation differ

With a run each:

* `find_orphan`. `docs/VM-QUALIFICATION.md` of the snapshot manager says that no old or new root is
  orphaned. `delete_old_root` treats an old root that is absent as deleted: if an earlier attempt
  removed it and failed before its commit, no commit follows, and a power cut after the record is
  gone brings it back.
* `find_cleanup`. The cleanup of a failed `schedule` says it cancels the incomplete restore. It
  removes whatever is pending: of two calls that pass the pending check together, the one that fails
  to create its record removes the restore of the one that succeeded.
* `find_undeletable`. Incomplete and Creating deployments can be deleted, says `can_delete`, and the
  tests of the user interface. The deletion stops at the lineage, which never listed them, and leaves
  a record that is Deleting for ever.
* `find_refs`. `ARCHITECTURE-V2.md:60` of the guesser says that Git snapshots cannot cross repository
  boundaries. After `cd` the branches of the repository left behind are offered until the next Git
  command (`domains.rs:864` tests their age, not their place).
* `find_ghost`. `README.md:90` of the guesser says that Right Arrow and End accept the visible
  suggestion. `andiora_ghost.c:661` does not ask whether it is visible: after a line that was
  accepted or left, or on one the hint does not fit, they insert what no one sees.

`find_cleanup` needs two overlapping calls, one of them held up between two of its steps; for the same
reason a late `update` of `schedule` can replace the record of another call, which compares no ids.
None of this loses a system: `CommittedSystemSurvives` holds for any number of calls.

Seen while modelling, without a run:

* The power-loss matrix of `docs/VM-QUALIFICATION.md` expects an automatic fallback after an apply was
  cut at `writable-target-created` or `current-root-protected`. The GRUB entry has renewed its lease,
  so the next boot is a requested one and the engine applies again.
* A deletion as the first operation after an upgrade writes Deleting before the lineage is migrated;
  the migrated lineage does not pass its own validation, then and ever after.
* A deployment is Ready before the lineage lists it. If the process dies in between, it is offered and
  can be applied, but its activation cannot be recorded.
* A safety snapshot is protected from the rollback record on, not from its creation, so a deletion in
  between leaves a record that names nothing and that the initramfs rejects. The same is true of a
  package snapshot until `RecordPre` names it.
* Of two overlapping `schedule` calls the second overwrites the recovery files the first has recorded;
  `update-grub` then fails, for whoever runs it, until the restore is cancelled. The engine inside
  the initramfs is checked by name only when a restore is armed, so an upgrade whose initramfs was
  not rebuilt yet arms a restore that the initramfs refuses to start; the failure is recorded.
* Editing a firewall rule deletes it before it inserts the new one "at same position"
  (`add_rule_dialog.rs:324`): an edited last rule has no such position any more and is lost. Numbers
  read once are used for commands after others have changed the list, and additions renumber as well.
  Two refreshes of the discovery switch are not ordered (`status_view.rs:313-339`): the older answer
  may be the last, and then the switch shows the state from before its own change.
* The sudo page shows the policy of its own metadata, so the rule the installer writes is shown as
  disabled. An enrolment that dies between the mapping and the metadata leaves a key that is accepted
  and not listed, until the repair.
* Both rollbacks of the key pages ignore that they fail: `git_signing.rs:130-136` leaves some of Git's
  settings changed, `ssh_config.rs:266-269` a fragment that nothing includes, behind the message of the
  first failure.
* Guesser: a history log that cannot be read counts as empty, and the compaction after the next append
  renames an empty file over it (`history.rs:41-43,287`). A compaction writes the latest command first,
  while readers that find the log too long skip its first lines: they skip the latest.
  `andiora_ghost diagnose` replaces the suggestion but not the line it was cached for
  (`andiora_ghost.c:824`), so at that line the next redisplay draws what was diagnosed.
* Guesser: a command with a leading space is not recorded but learned as the predecessor of the next;
  lists of processes and services whose refresh fails keep old entries under a new time; relative
  artifacts are offered after `cd`; a compaction skips the first line it reads; helpers that restart
  lose what was learned and not yet written.
* File recovery: a token is not given back when the main window has gone before the authorization was
  answered; nor when its release cannot be started or fails, which is logged at most
  (`personal_history.rs:110-123`). A replacement whose directory cannot be synced is reported as failed
  although it happened.
* Snapshot page: a refused restart is not asked for again, and none is requested when the window has
  gone before the dialog's button is answered; deletions and pins of other clients send no signal;
  creations while the listener reconnects are missed.
* Task windows: an authorization prompt that outlasts fifteen polls shows the task as unavailable although
  it may start later; a poll and a start outlive their window and may set the button again. A status query
  that fails is answered as a success whose fields are defaults (`main.rs:1473-1494`,
  `dbus_client.rs:104-138`); if that is the status read before a start, the marker it leaves cannot tell
  an older run, and its result is presented as the new one's.

## 6. Not modelled, and the plan

Partly modelled, with what is left:

* Lineage: parents, head and branch names, acyclic over every history of the store.
* Deployments: rename and verify (single writes), the due check of scheduled creation of the system
  (`Automation` has the one the helper makes), `transition_deployment` (no caller writes through it).
* Helper: status, listing and plan methods forward one call; package lists and audit messages format.
* Windows, notifier, CLI: settings pages, the notifier and the CLI make single calls and keep nothing.
* YubiKey manager: dialog layout, passkeys (the page only tells of them), the agent's protocol.
* Guesser: the grammar tables, the shell-line parser and the texts of suggestions are data.

Not modelled: the installer runs once and sequentially (its storage planner, a pure function over
inventories, is the next candidate); layout and Secure Boot inspection are stateless and enter as
verdicts; why-ai is a text pipeline around a language model; the driver center a front end over
package installation; the Secure Boot toolkit, first-run wizard, appearance and live settings guide
single external commands; the desktop daemons copy one setting or watch one directory; build and
mirror tools are scripts run once on a build host; themes, translations and meta packages are assets.

Next, in this order:

1. Lineage nodes, acyclic for every history of the store, with a proof.
2. The installer's storage planner against a declarative definition.
3. Two of the standing programs together where they share a machine: Swap Control and a deletion of
   snapshots under pressure of space.
