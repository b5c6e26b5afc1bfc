-------------------------------- MODULE Programs -------------------------------
(*****************************************************************************)
(* The programs of the repository that share no state with the rollback or   *)
(* with each other, side by side: a behaviour is one of one program, so a state*)
(* of this specification is a state of that program. Retention, which has    *)
(* proofs of its own, rests at its start while another runs.                 *)
(*****************************************************************************)
EXTENDS Retention

CONSTANTS
  Windows, Systems, LeaseTime, LastMoment, Tokens, Callers, QuotaWindow, Allowance,
  RateWindow, LastInstant, System, Home, Worker, Hand, Notice, Interval, RateLimit, LastHour,
  MostSaves, Requesters, MostStarts, MostGiB, MostDevices, MostRuns, MostRules, MostIdle,
  MostTicks, MostReads, Accounts, Locked, Keys, MostMinted, MostHelperRuns, MostEdits, MostSwitches,
  MostFaults, MostCreated, MostCalls, MostSwaps, MostChanges, MostVisits, Domains, Places,
  Capacity, Lasting, MostObserved, LastTick, Texts, Several, MostKeys, MostHelpers, Shells,
  Learned, MostLines, LinesRead, EntriesKept, MostRecords, MostKills, Lines, Typed, Confidences, Quiet,
  MostCandidates, Viewers, Secured, MostLoads, MostRecoveries, Entries, MostVersions,
  Seconds, MostTaskRuns, MostServices, StartupQueries, FailedQueries, Schedulers,
  MostRestores, MostBuilds

VARIABLES
  program,   \* the one that runs
  moment, leases, call, system, protected, grants,
  instant, attempts, lastOperation, request, spent, begun,
  time, policy, saves, worker, turn, lastCall, snapped, offSince,
  running, task, thread, kernel, asked, used, cancelled, done,
  file, active, listed, disk, helper, page, devices, zramConf, stress, entrusted, runs,
  rules, made, edit, everything, profile, mdns, audit, part,
  enrolled, mapping, pam, managed, installer, nopass, minted, window, holder, helperRuns, wish,
    cut, orphans, gaveUp,
  sshConfig, fragment, change, toggle, edits, switches, faults, meddled, raced, others,
  seat, resident, created, results, agent, git, job, told, calls, swaps,
  plugged, configured, snapshot, full, reading, pending, debounce, events, onHome, changes,
    visits, fresh,
  domain, tick, observed, here, last, gen, at, where, content, since, submits, queue, workers,
    unfinished, stage,
  screen, atEnd, cached, suggestion, visible, submitted, ghostEnabled, hooked, place, waiting,
    socket, processes, wire, answers, keys, helpers, diagnosed,
  log, lock, writer, records, kills, appended, spoiled, forgotten,
  slot, pool, answer,
  parent, view, position, rows, generation, listing, lease, release, recovery, outcome,
    destination, folders, temporary, admitted, loads, recoveries, killed,
  stock, phase, version, heard, main, refreshing, reply, again, stack, items, readAt,
    selecting, picked, banner, modal, due, warned, remaining, requested, restarts, down,
  kind, started, uncounted, busy, service, preferences, control, starting, earlier, dialog,
    monitor, late, reported,
  installed, artifacts, restore, drawn, menu, selector, machine, steps, overlapped

Helper == INSTANCE HelperService
Requests == INSTANCE SnapshotRequests
Scheduler == INSTANCE Automation
Tasks == INSTANCE Maintenance
Swap == INSTANCE SwapControl
Wall == INSTANCE UfWall
Pam == INSTANCE SecurityKeys
Ssh == INSTANCE SshPersistence
Resident == INSTANCE ResidentKeys
Keyring == INSTANCE KeyHome
Engine == INSTANCE GuessEngine
Ghost == INSTANCE GhostLine
Log == INSTANCE GuessHistory
Arbiter == INSTANCE GuessArbiter
Recovery == INSTANCE FileRecovery
Page == INSTANCE SnapshotPage
Dialog == INSTANCE TaskDialog
Boot == INSTANCE BootArtifacts

\* What the constants must be, for each program.
ASSUME ProgramsConstants ==
  /\ Helper!HelperConstants
  /\ Requests!RequestConstants
  /\ Scheduler!AutomationConstants
  /\ Tasks!MaintenanceConstants
  /\ Swap!SwapConstants
  /\ Wall!WallConstants
  /\ Pam!KeyConstants
  /\ Ssh!PersistenceConstants
  /\ Resident!ResidentConstants
  /\ Keyring!KeyHomeConstants
  /\ Engine!EngineConstants
  /\ Ghost!GhostConstants
  /\ Log!HistoryConstants
  /\ Arbiter!ArbiterConstants
  /\ Recovery!RecoveryConstants
  /\ Page!PageConstants
  /\ Dialog!DialogConstants
  /\ Boot!ArtifactConstants

\* The state of each program, and that of one that does not run.
ofHelper == <<moment, leases, call, system, protected, grants>>
NoHelper ==
  /\ moment = 0 /\ leases = 0 /\ call = 0 /\ system = 0 /\ protected = 0 /\ grants = 0
ofRequests == <<instant, attempts, lastOperation, request, spent, begun>>
NoRequests ==
  /\ instant = 0 /\ attempts = 0 /\ lastOperation = 0 /\ request = 0 /\ spent = 0 /\ begun = 0
ofScheduler == <<time, policy, saves, worker, turn, lastCall, snapped, offSince>>
NoScheduler ==
  /\ time = 0 /\ policy = 0 /\ saves = 0 /\ worker = 0 /\ turn = 0 /\ lastCall = 0
  /\ snapped = 0 /\ offSince = 0
ofTasks == <<running, task, thread, kernel, asked, used, cancelled, done>>
NoTasks ==
  /\ running = 0 /\ task = 0 /\ thread = 0 /\ kernel = 0 /\ asked = 0 /\ used = 0
  /\ cancelled = 0 /\ done = 0
ofSwap == <<file, active, listed, disk, helper, page, devices, zramConf, stress,
            entrusted, runs>>
NoSwap ==
  /\ file = 0 /\ active = 0 /\ listed = 0 /\ disk = 0 /\ helper = 0 /\ page = 0
  /\ devices = 0 /\ zramConf = 0 /\ stress = 0 /\ entrusted = 0 /\ runs = 0
ofWall == <<rules, made, edit, everything, profile, mdns, audit, part>>
NoWall ==
  /\ rules = 0 /\ made = 0 /\ edit = 0 /\ everything = 0 /\ profile = 0
  /\ mdns = 0 /\ audit = 0 /\ part = 0
ofPam == <<enrolled, mapping, pam, managed, installer, nopass, minted, window, holder,
           helperRuns, wish, cut, orphans, gaveUp>>
NoPam ==
  /\ enrolled = 0 /\ mapping = 0 /\ pam = 0 /\ managed = 0 /\ installer = 0 /\ nopass = 0
  /\ minted = 0 /\ window = 0 /\ holder = 0 /\ helperRuns = 0 /\ wish = 0 /\ cut = 0
  /\ orphans = 0 /\ gaveUp = 0
ofSsh == <<sshConfig, fragment, change, toggle, edits, switches, faults, meddled, raced,
           others>>
NoSsh ==
  /\ sshConfig = 0 /\ fragment = 0 /\ change = 0 /\ toggle = 0 /\ edits = 0 /\ switches = 0
  /\ faults = 0 /\ meddled = 0 /\ raced = 0 /\ others = 0
ofResident == <<seat, resident, created, results, agent, git, job, told, calls, swaps>>
NoResident ==
  /\ seat = 0 /\ resident = 0 /\ created = 0 /\ results = 0 /\ agent = 0 /\ git = 0
  /\ job = 0 /\ told = 0 /\ calls = 0 /\ swaps = 0
ofKeyring == <<plugged, configured, snapshot, full, reading, pending, debounce, events,
               onHome, changes, visits, fresh>>
NoKeyring ==
  /\ plugged = 0 /\ configured = 0 /\ snapshot = 0 /\ full = 0 /\ reading = 0 /\ pending = 0
  /\ debounce = 0 /\ events = 0 /\ onHome = 0 /\ changes = 0 /\ visits = 0 /\ fresh = 0
ofEngine == <<domain, tick, observed, here, last, gen, at, where, content, since,
              submits, queue, workers, unfinished, stage>>
NoEngine ==
  /\ domain = 0 /\ tick = 0 /\ observed = 0 /\ here = 0 /\ last = 0 /\ gen = 0
  /\ at = 0 /\ where = 0 /\ content = 0 /\ since = 0 /\ submits = 0 /\ queue = 0
  /\ workers = 0 /\ unfinished = 0 /\ stage = 0
ofGhost == <<screen, atEnd, cached, suggestion, visible, submitted, ghostEnabled, hooked,
             place, waiting, socket, processes, wire, answers, keys, helpers, diagnosed>>
NoGhost ==
  /\ screen = 0 /\ atEnd = 0 /\ cached = 0 /\ suggestion = 0 /\ visible = 0 /\ submitted = 0
  /\ ghostEnabled = 0 /\ hooked = 0 /\ place = 0 /\ waiting = 0 /\ socket = 0 /\ processes = 0
  /\ wire = 0 /\ answers = 0 /\ keys = 0 /\ helpers = 0 /\ diagnosed = 0
ofLog == <<log, lock, writer, records, kills, appended, spoiled, forgotten>>
NoLog ==
  /\ log = 0 /\ lock = 0 /\ writer = 0 /\ records = 0 /\ kills = 0 /\ appended = 0
  /\ spoiled = 0 /\ forgotten = 0
ofArbiter == <<slot, pool, answer>>
NoArbiter ==
  /\ slot = 0 /\ pool = 0 /\ answer = 0
ofRecovery == <<parent, view, position, rows, generation, listing, lease, release, recovery,
                outcome, destination, folders, temporary, admitted, loads, recoveries,
                killed>>
NoRecovery ==
  /\ parent = 0 /\ view = 0 /\ position = 0 /\ rows = 0 /\ generation = 0 /\ listing = 0
  /\ lease = 0 /\ release = 0 /\ recovery = 0 /\ outcome = 0 /\ destination = 0
  /\ folders = 0 /\ temporary = 0 /\ admitted = 0 /\ loads = 0 /\ recoveries = 0 /\ killed = 0
ofPage == <<stock, phase, version, heard, main, refreshing, reply, again, stack, items,
            readAt, selecting, picked, banner, modal, due, warned, remaining, requested,
            restarts, down>>
NoPage ==
  /\ stock = 0 /\ phase = 0 /\ version = 0 /\ heard = 0 /\ main = 0 /\ refreshing = 0
  /\ reply = 0 /\ again = 0 /\ stack = 0 /\ items = 0 /\ readAt = 0 /\ selecting = 0
  /\ picked = 0 /\ banner = 0 /\ modal = 0 /\ due = 0 /\ warned = 0 /\ remaining = 0
  /\ requested = 0 /\ restarts = 0 /\ down = 0
ofDialog == <<kind, started, uncounted, busy, service, preferences, control, starting,
              earlier, dialog, monitor, late, reported>>
NoDialog ==
  /\ kind = 0 /\ started = 0 /\ uncounted = 0 /\ busy = 0 /\ service = 0 /\ preferences = 0
  /\ control = 0 /\ starting = 0 /\ earlier = 0 /\ dialog = 0 /\ monitor = 0 /\ late = 0
  /\ reported = 0
ofBoot == <<installed, artifacts, restore, drawn, menu, selector, machine, steps,
            overlapped>>
NoBoot ==
  /\ installed = 0 /\ artifacts = 0 /\ restore = 0 /\ drawn = 0 /\ menu = 0 /\ selector = 0
  /\ machine = 0 /\ steps = 0 /\ overlapped = 0

ProgramNames == {"retention", "browsing", "requests", "automation", "maintenance",
                 "swap control", "firewall", "security keys", "ssh persistence",
                 "resident keys", "key home", "guess engine", "ghost line", "guess history",
                 "arbiter", "file recovery", "snapshot page", "task dialog", "boot artifacts"}

ProgramInit ==
  /\ program \in ProgramNames
  /\ Init
  /\ IF program = "browsing" THEN Helper!Init ELSE NoHelper
  /\ IF program = "requests" THEN Requests!Init ELSE NoRequests
  /\ IF program = "automation" THEN Scheduler!Init ELSE NoScheduler
  /\ IF program = "maintenance" THEN Tasks!Init ELSE NoTasks
  /\ IF program = "swap control" THEN Swap!Init ELSE NoSwap
  /\ IF program = "firewall" THEN Wall!Init ELSE NoWall
  /\ IF program = "security keys" THEN Pam!Init ELSE NoPam
  /\ IF program = "ssh persistence" THEN Ssh!Init ELSE NoSsh
  /\ IF program = "resident keys" THEN Resident!Init ELSE NoResident
  /\ IF program = "key home" THEN Keyring!Init ELSE NoKeyring
  /\ IF program = "guess engine" THEN Engine!Init ELSE NoEngine
  /\ IF program = "ghost line" THEN Ghost!Init ELSE NoGhost
  /\ IF program = "guess history" THEN Log!Init ELSE NoLog
  /\ IF program = "arbiter" THEN Arbiter!Init ELSE NoArbiter
  /\ IF program = "file recovery" THEN Recovery!Init ELSE NoRecovery
  /\ IF program = "snapshot page" THEN Page!Init ELSE NoPage
  /\ IF program = "task dialog" THEN Dialog!Init ELSE NoDialog
  /\ IF program = "boot artifacts" THEN Boot!Init ELSE NoBoot

Resting ==
  /\ program # "retention" => UNCHANGED vars
  /\ program # "browsing" => UNCHANGED ofHelper
  /\ program # "requests" => UNCHANGED ofRequests
  /\ program # "automation" => UNCHANGED ofScheduler
  /\ program # "maintenance" => UNCHANGED ofTasks
  /\ program # "swap control" => UNCHANGED ofSwap
  /\ program # "firewall" => UNCHANGED ofWall
  /\ program # "security keys" => UNCHANGED ofPam
  /\ program # "ssh persistence" => UNCHANGED ofSsh
  /\ program # "resident keys" => UNCHANGED ofResident
  /\ program # "key home" => UNCHANGED ofKeyring
  /\ program # "guess engine" => UNCHANGED ofEngine
  /\ program # "ghost line" => UNCHANGED ofGhost
  /\ program # "guess history" => UNCHANGED ofLog
  /\ program # "arbiter" => UNCHANGED ofArbiter
  /\ program # "file recovery" => UNCHANGED ofRecovery
  /\ program # "snapshot page" => UNCHANGED ofPage
  /\ program # "task dialog" => UNCHANGED ofDialog
  /\ program # "boot artifacts" => UNCHANGED ofBoot

ProgramNext ==
  /\ UNCHANGED program /\ Resting
  /\ \/ program = "retention" /\ Next
     \/ program = "browsing" /\ Helper!Next
     \/ program = "requests" /\ Requests!Next
     \/ program = "automation" /\ Scheduler!Next
     \/ program = "maintenance" /\ Tasks!Next
     \/ program = "swap control" /\ Swap!Next
     \/ program = "firewall" /\ Wall!Next
     \/ program = "security keys" /\ Pam!Next
     \/ program = "ssh persistence" /\ Ssh!Next
     \/ program = "resident keys" /\ Resident!Next
     \/ program = "key home" /\ Keyring!Next
     \/ program = "guess engine" /\ Engine!Next
     \/ program = "ghost line" /\ Ghost!Next
     \/ program = "guess history" /\ Log!Next
     \/ program = "arbiter" /\ Arbiter!Next
     \/ program = "file recovery" /\ Recovery!Next
     \/ program = "snapshot page" /\ Page!Next
     \/ program = "task dialog" /\ Dialog!Next
     \/ program = "boot artifacts" /\ Boot!Next

programVars == <<program, vars, ofHelper, ofRequests, ofScheduler, ofTasks, ofSwap, ofWall,
                 ofPam, ofSsh, ofResident, ofKeyring, ofEngine, ofGhost, ofLog, ofArbiter,
                 ofRecovery, ofPage, ofDialog, ofBoot>>

ProgramSpec == ProgramInit /\ [][ProgramNext]_programVars

(*****************************************************************************)
(* What each program keeps; its own module says what it means.               *)
(*****************************************************************************)
\* What a caller reads from a snapshot was offered to it, by a lease of its own
\* that has not run out, and exists while it is read (HelperService).
BrowsingIsSafe == program = "browsing" => Helper!BrowsingIsSafe

\* Snapshots begun without a password stay within the quota and the rate limit,
\* however calls of several processes interleave (SnapshotRequests).
LimitsHold == program = "requests" => Requests!LimitsHold

\* No automatic snapshot is taken long after its scope was switched off, and
\* none sooner than the interval after the last (Automation).
AutomationObeys == program = "automation" => Scheduler!AutomationObeys

\* One task of a kind at a time, a cancelled task is never reported as completed,
\* and what a task reports is what the kernel did (Maintenance).
MaintenanceIsHonest == program = "maintenance" => Tasks!MaintenanceIsHonest

\* The swap file survives a failed or interrupted change (SwapControl).
SwapControlIsSafe == program = "swap control" => Swap!SwapControlIsSafe

\* What the firewall front end deletes, shows and records (UfWall).
UfWallIsHonest == program = "firewall" => Wall!UfWallIsHonest

\* Accepted credentials are listed ones, a switch locks nobody out (SecurityKeys).
SecurityKeysAreSafe == program = "security keys" => Pam!SecurityKeysAreSafe

\* The user's SSH configuration survives the switch and its failures (SshPersistence).
PersistenceIsSafe == program = "ssh persistence" => Ssh!PersistenceIsSafe

\* What the key page says of resident keys and Git signing is so (ResidentKeys).
ResidentKeysAreHonest == program = "resident keys" => Resident!ResidentKeysAreHonest

\* The Home page shows the keys that are plugged in (KeyHome).
HomeIsFresh == program = "key home" => Keyring!HomeIsFresh

\* What the command guesser suggests from its surroundings was not invalidated since
\* it was read (GuessEngine).
GuessesAreCurrent == program = "guess engine" => Engine!GuessesAreCurrent

\* The ghost text belongs to the line it stands behind (GhostLine).
GhostBelongsToLine == program = "ghost line" => Ghost!GhostBelongsToLine

\* What the shells learn survives each other's compactions and kills (GuessHistory).
NothingElseIsLost == program = "guess history" => Log!NothingElseIsLost

\* A suggestion has the best evidence, and no rival (GuessArbiter).
AnswersAreJustified == program = "arbiter" => Arbiter!AnswersAreJustified

\* What the file browser recovers is whole, and its rows are the folder it names
\* (FileRecovery).
RecoveredIsWhole == program = "file recovery" => Recovery!RecoveredIsWhole

\* The snapshot page is current, and an armed rollback asks for the restart once
\* (SnapshotPage).
PageIsCurrent == program = "snapshot page" => Page!PageIsCurrent

\* A task window presents the run it was opened for (TaskDialog).
ResultIsOfItsRun == program = "task dialog" => Dialog!ResultIsOfItsRun

\* A restore starts with the files it was armed with (BootArtifacts).
ArtifactsFitRecord == program = "boot artifacts" => Boot!ArtifactsFitRecord

\* The key manager's pages: what they change in the SSH configuration, and what they say of
\* keys, of Git and of the devices.
KeyPagesAreHonest == PersistenceIsSafe /\ ResidentKeysAreHonest /\ HomeIsFresh

\* The command guesser: its snapshot, its ghost text, its history and its choice.
GuessesAreHonest ==
  GuessesAreCurrent /\ GhostBelongsToLine /\ NothingElseIsLost /\ AnswersAreJustified

\* The helper: what a browse lease admits to, and how often snapshots are taken unasked.
HelperIsSafe == BrowsingIsSafe /\ LimitsHold

\* Swapping and the firewall: what their windows change, and what they say of it.
DesktopToolsAreSafe == SwapControlIsSafe /\ UfWallIsHonest

\* The windows of the snapshot manager: the recovered files, the page and the task windows.
WindowsAreHonest == RecoveredIsWhole /\ PageIsCurrent /\ ResultIsOfItsRun
================================================================================
