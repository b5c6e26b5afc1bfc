------------------------------ MODULE HelperService ------------------------------
(***************************************************************************)
(* Looking into system snapshots through the privileged D-Bus service      *)
(* (btrfs-snapshots-manager-helper/main.rs, system_browser.rs,             *)
(* browse_lock.rs) while snapshots are deleted and protected.  An          *)
(* administrator opens one snapshot for one process; the service keeps     *)
(* that as a lease in memory and checks it at every later call.  Every     *)
(* call runs as a task of its own and is overtaken wherever it waits: for  *)
(* Polkit, or while Btrfs works.  A restart of the service forgets all     *)
(* calls and leases.                                                       *)
(***************************************************************************)
EXTENDS Integers, FiniteSets

CONSTANTS
  Windows,       \* the processes that call the service
  Systems,       \* system snapshots
  LeaseTime,     \* life of a lease
  LastMoment,    \* bound of the clock
  Tokens         \* the lease tokens the service may give out in one life

\* What the constants must be.
HelperConstants == LeaseTime \in Nat \ {0} /\ LastMoment \in Nat

VARIABLES
  moment,       \* Instant::now()
  leases,       \* browse_leases: token -> lease
  call,         \* the call each process waits for
  system,       \* the system snapshots: Present, Deleting, Gone
  protected,    \* the pinned ones
  grants        \* history: what an administrator allowed this service to show

helperVars == <<moment, leases, call, system, protected, grants>>

\* The Polkit action a call is checked against.
PolkitAction ==
  [begin_browse |-> "RESTORE", delete_deployments |-> "DELETE", set_deployment_pinned |-> "CONFIGURE"]

NoCall == [op |-> "None", stage |-> "None"]
At(c, op, stage) == call[c].op = op /\ call[c].stage = stage
GoTo(c, stage) == call' = [call EXCEPT ![c].stage = stage]
Answer(c) == call' = [call EXCEPT ![c] = NoCall]

Lease(c, id) == [pid |-> c, id |-> id, expires |-> moment + LeaseTime]

(***************************************************************************)
(* Requests, and Polkit's answer: refused, dismissed and timed out are one.*)
(***************************************************************************)
Request(c) ==
  /\ call[c] = NoCall
  /\ \E op \in DOMAIN PolkitAction, id \in Systems :
       call' = [call EXCEPT ![c] = [op |-> op, stage |-> "Polkit", id |-> id]]
  /\ UNCHANGED <<moment, leases, system, protected, grants>>

\* list_system_snapshot_files and export_system_snapshot_file ask no password.
RequestFiles(c) ==
  /\ call[c] = NoCall
  /\ \E token \in Tokens, id \in Systems :
       call' = [call EXCEPT ![c] = [op |-> "list_files", stage |-> "Lease", id |-> id, token |-> token]]
  /\ UNCHANGED <<moment, leases, system, protected, grants>>

CheckAuthorization(c) ==
  /\ call[c].stage = "Polkit"
  /\ GoTo(c, "Run") \/ Answer(c)
  /\ UNCHANGED <<moment, leases, system, protected, grants>>

(***************************************************************************)
(* Looking into a snapshot.                                                *)
(***************************************************************************)
BeginBrowse(c) ==
  /\ At(c, "begin_browse", "Run") /\ Answer(c)
  /\ \/ system[call[c].id] # "Present" /\ UNCHANGED <<leases, grants>>
     \/ \E token \in Tokens \ {g.token : g \in grants} :
          /\ system[call[c].id] = "Present"
          /\ leases' = [t \in DOMAIN leases \cup {token} |->
                          IF t = token THEN Lease(c, call[c].id) ELSE leases[t]]
          /\ grants' = grants \cup
               {[token |-> token, pid |-> c, id |-> call[c].id, at |-> moment, ended |-> LastMoment]}
  /\ UNCHANGED <<moment, system, protected>>

EndBrowse(c) ==
  /\ call[c] = NoCall
  /\ \E token \in DOMAIN leases :
       /\ leases[token].pid = c
       /\ leases' = [t \in DOMAIN leases \ {token} |-> leases[t]]
       /\ grants' = {IF g.token = token THEN [g EXCEPT !.ended = moment] ELSE g : g \in grants}
  /\ UNCHANGED <<moment, call, system, protected>>

\* Mutant: expired leases are only dropped when the next one is given out.
EveryLease == DOMAIN leases

LiveLeases == {t \in DOMAIN leases : leases[t].expires > moment}

ValidateLease(c) ==
  /\ At(c, "list_files", "Lease")
  /\ leases' = [t \in LiveLeases |-> leases[t]]
  /\ IF /\ call[c].token \in LiveLeases
        /\ leases[call[c].token].pid = c /\ leases[call[c].token].id = call[c].id
     THEN call' = [call EXCEPT ![c] = [op |-> "list_files", stage |-> "Check", id |-> call[c].id,
                                       checked |-> moment]]
     ELSE Answer(c)
  /\ UNCHANGED <<moment, system, protected, grants>>

CheckAvailable(c) ==
  /\ At(c, "list_files", "Check")
  /\ IF system[call[c].id] = "Present" THEN GoTo(c, "Open") ELSE Answer(c)
  /\ UNCHANGED <<moment, leases, system, protected, grants>>

DeletionRuns(id) == \E c \in Windows : At(c, "delete_deployments", "Deleting") /\ call[c].id = id

\* Mutant: the snapshot is opened without its lock.
OpenUnlocked(c) ==
  /\ At(c, "list_files", "Open")
  /\ IF system[call[c].id] = "Gone" THEN Answer(c) ELSE GoTo(c, "Read")
  /\ UNCHANGED <<moment, leases, system, protected, grants>>

\* The shared lock waits for a deletion to end; what it took is not found, what
\* a failed one left is read.
OpenSnapshot(c) ==
  /\ At(c, "list_files", "Open") /\ ~DeletionRuns(call[c].id)
  /\ IF system[call[c].id] = "Gone" THEN Answer(c) ELSE GoTo(c, "Read")
  /\ UNCHANGED <<moment, leases, system, protected, grants>>

\* list, or open_file; the lock ends with the call.
ReadSnapshot(c) ==
  /\ At(c, "list_files", "Read") /\ Answer(c)
  /\ UNCHANGED <<moment, leases, system, protected, grants>>

(***************************************************************************)
(* Deleting and protecting, one at a time under the operation lock.        *)
(***************************************************************************)
OperationRuns == \E id \in Systems : DeletionRuns(id)
ReadLocked(id) == \E c \in Windows : At(c, "list_files", "Read") /\ call[c].id = id

\* A deletion that a restart cut short is taken up again by the next one.
DeleteDeployment(c) ==
  /\ At(c, "delete_deployments", "Run")
  /\ IF \/ OperationRuns \/ ReadLocked(call[c].id)
        \/ system[call[c].id] = "Gone" \/ call[c].id \in protected
     THEN Answer(c) /\ UNCHANGED system
     ELSE GoTo(c, "Deleting") /\ system' = [system EXCEPT ![call[c].id] = "Deleting"]
  /\ UNCHANGED <<moment, leases, protected, grants>>

\* delete_deployments goes on with the next one, whether this one failed or not.
DeletionEnds(c) ==
  /\ At(c, "delete_deployments", "Deleting")
  /\ system' \in {system, [system EXCEPT ![call[c].id] = "Gone"]}
  /\ \/ Answer(c)
     \/ \E id \in Systems \ {call[c].id} : call' = [call EXCEPT ![c].stage = "Run", ![c].id = id]
  /\ UNCHANGED <<moment, leases, protected, grants>>

SetDeploymentPinned(c) ==
  /\ At(c, "set_deployment_pinned", "Run") /\ Answer(c)
  /\ \/ UNCHANGED protected
     \/ /\ ~OperationRuns /\ system[call[c].id] = "Present"
        /\ protected' \in {protected \cup {call[c].id}, protected \ {call[c].id}}
  /\ UNCHANGED <<moment, leases, system, grants>>

(***************************************************************************)
(* Time, and the end of the service.                                       *)
(***************************************************************************)
ClockTicks ==
  /\ moment < LastMoment /\ moment' = moment + 1
  /\ UNCHANGED <<leases, call, system, protected, grants>>

HelperRestarts ==
  /\ leases' = <<>> /\ grants' = {} /\ call' = [c \in Windows |-> NoCall]
  /\ UNCHANGED <<moment, system, protected>>

Init ==
  /\ moment = 0 /\ leases = <<>> /\ grants = {} /\ call = [c \in Windows |-> NoCall]
  /\ system = [id \in Systems |-> "Present"] /\ protected = {}

Next ==
  \/ \E c \in Windows :
       \/ Request(c) \/ RequestFiles(c) \/ CheckAuthorization(c)
       \/ BeginBrowse(c) \/ EndBrowse(c) \/ ValidateLease(c) \/ CheckAvailable(c)
       \/ OpenSnapshot(c) \/ ReadSnapshot(c)
       \/ DeleteDeployment(c) \/ DeletionEnds(c) \/ SetDeploymentPinned(c)
  \/ ClockTicks \/ HelperRestarts

Spec == Init /\ [][Next]_helperVars

(***************************************************************************)
(* What the service promises.                                              *)
(***************************************************************************)
\* A process reads only a snapshot that an administrator opened for it, under a
\* permission that was neither used up nor given back when the call checked it,
\* and that nothing deletes under the reader.
ReadsAreLeased ==
  \A c \in Windows : At(c, "list_files", "Read") =>
    /\ system[call[c].id] # "Gone" /\ ~DeletionRuns(call[c].id)
    /\ \E g \in grants : /\ g.pid = c /\ g.id = call[c].id
                         /\ call[c].checked \in g.at .. g.ended
                         /\ call[c].checked < g.at + LeaseTime

\* Protecting a snapshot and deleting it exclude each other, whoever was first.
ProtectedStays == \A id \in protected : system[id] = "Present"

BrowsingIsSafe == ReadsAreLeased /\ ProtectedStays
=============================================================================
