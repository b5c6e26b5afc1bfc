---------------------------- MODULE DeploymentStore ----------------------------
(***************************************************************************)
(* The recovery store of the system snapshots: one metadata record per     *)
(* deployment, its read-only Btrfs snapshot, the lineage of all that ever  *)
(* existed, and the two pending transactions that refer to deployments.    *)
(* Every long operation is a job; what a job holds of operation.lock and   *)
(* start.lock follows from the step it has reached.                        *)
(***************************************************************************)
EXTENDS Naturals, FiniteSets

CONSTANTS
  None,
  Ids,        \* deployment ids
  Jobs,       \* activities that may run at the same time
  Legacy,     \* Ready deployments of a release that kept no lineage
  MaxFaults   \* failing calls, killed jobs and power cuts

ASSUME StoreConstants == Legacy \subseteq Ids /\ MaxFaults \in Nat

VARIABLES
  rec,        \* metadata/<id>.json
  view,       \* the snapshots the running kernel shows
  disk,       \* the snapshots the last commit holds
  lineage,    \* history/system-lineage.json
  used,       \* ids drawn, for DeploymentId::new draws no id twice
  rollback,   \* the pending rollback's references and whether it was applied
  package,    \* transactions/package-pending
  job,
  faults

storeVars == <<rec, view, disk, lineage, used>>
vars == <<rec, view, disk, lineage, used, rollback, package, job, faults>>

(***************************************************************************)
(* Records.  A record has an identity (the UUID of its snapshot) from the  *)
(* time it is Ready until it is gone or Incomplete.                        *)
(***************************************************************************)
\* The Broken of the code (DeploymentState) is never written.
States  == {"Creating", "Ready", "Incomplete", "Deleting"}
Record  == [state : States, pinned : BOOLEAN, uuid : BOOLEAN]
Creating(pinned) == [state |-> "Creating", pinned |-> pinned, uuid |-> FALSE]

CanTransition ==
  {<<"Creating", "Ready">>, <<"Creating", "Incomplete">>, <<"Creating", "Deleting">>,
   <<"Ready", "Deleting">>, <<"Incomplete", "Deleting">>}

CanDelete(r) == ~r.pinned /\ r.state \in {"Creating", "Ready", "Incomplete"}

Known == {i \in Ids : rec[i] # None}

\* discover: a record with an identity and no snapshot is an issue, unless it
\* is being deleted.
Issues     == {i \in Known : rec[i].uuid /\ rec[i].state # "Deleting" /\ i \notin view}
Discovered == Known \ Issues
Restorable == {i \in Discovered : rec[i].state = "Ready"}

(***************************************************************************)
(* The lineage.  ensure_initialized migrates a store that has none, and    *)
(* saves nothing that does not pass validate: a node that is not available *)
(* must say when it was removed, and migrate never does.                   *)
(***************************************************************************)
Lineage == [Ids -> {"unknown", "available", "removed"}]

Migrated == [i \in Ids |-> IF i \in Discovered /\ rec[i].uuid THEN "available" ELSE "unknown"]

EnsureFails ==
  lineage = None /\ \E i \in Discovered : rec[i].uuid /\ rec[i].state = "Deleting"

Ensured == IF lineage = None THEN Migrated ELSE lineage

(***************************************************************************)
(* The pending transactions, as far as they refer to deployments.          *)
(***************************************************************************)
RollbackRecord == [target : Ids, fallback : Ids, applied : BOOLEAN]
Rollback(target, fallback) == [target |-> target, fallback |-> fallback, applied |-> FALSE]

PackagePhases  == {"PreparingPre", "AwaitingPost", "Complete", "Interrupted"}
TerminalPhases == {"Complete", "Interrupted"}
PackageRecord  == [phase : PackagePhases, pre : Ids \cup {None}, post : Ids \cup {None}]
Package(phase, pre, post) == [phase |-> phase, pre |-> pre, post |-> post]

(***************************************************************************)
(* Jobs.                                                                   *)
(***************************************************************************)
CreateKinds == {"Manual", "Automatic", "AptPre", "AptPost", "PreRollback"}
AptKinds    == {"AptPre", "AptPost"}
Kinds       == CreateKinds \cup {"Delete", "DeleteAutomatic"}

CreateSteps == {"record", "snapshot", "capture", "commit", "list", "cleanup", "fail"}
DeleteSteps == {"check", "mark", "remove_snapshot", "unlist", "remove_record"}
Steps == {"idle", "lock", "await_start", "claim", "clean", "skip_pre", "record_pre",
          "record_post", "interrupt"} \cup CreateSteps \cup DeleteSteps

JobType == [at : Steps, kind : Kinds \cup {None}, id : Ids \cup {None},
            target : Ids \cup {None}]

Idle == [at |-> "idle", kind |-> None, id |-> None, target |-> None]
NewJob(at, kind, id, target) == [at |-> at, kind |-> kind, id |-> id, target |-> target]

\* None is none of the values that stand beside it.
ASSUME StoreNone ==
  /\ None \notin Ids /\ None \notin Kinds /\ None \notin Record
  /\ None \notin Lineage /\ None \notin RollbackRecord /\ None \notin PackageRecord

\* operation.lock is taken with LOCK_NB, start.lock is waited for.
OperationLockFree == \A j \in Jobs : job[j].at \notin CreateSteps \cup DeleteSteps \cup {"await_start"}
StartLockIgnored  == TRUE   \* mutant: start.lock excludes nobody
StartLockTaken    == \A j \in Jobs : job[j].at \notin DeleteSteps \cup {"await_start"} \* mutant: twice
StartLockFree     == \A j \in Jobs : job[j].at \notin DeleteSteps

Goto(j, at) == job' = [job EXCEPT ![j] = IF at = "idle" THEN Idle ELSE [@ EXCEPT !.at = at]]

Fault == faults < MaxFaults /\ faults' = faults + 1
Returns(j, at) == Goto(j, at) /\ UNCHANGED faults
Errs(j, at)    == Fault /\ Goto(j, at)

\* write_atomic and remove_file, each followed by an fsync of the directory.
WriteRecord(j, i, r, next, err) ==
  \/ rec' = [rec EXCEPT ![i] = r] /\ Returns(j, next)
  \/ rec' \in {rec, [rec EXCEPT ![i] = r]} /\ Errs(j, err)

WriteLineage(j, l, next, err) ==
  \/ lineage' = l /\ Returns(j, next)
  \/ lineage' \in {lineage, l} /\ Errs(j, err)

WritePackage(j, writes, p, next) ==
  \/ package' = p /\ Returns(j, next)
  \/ package' \in {package, p} \cup writes /\ Errs(j, "idle")

WriteRollback(j, r, next, err) ==
  \/ rollback' = r /\ Returns(j, next)
  \/ rollback' \in {rollback, r} /\ Errs(j, err)

\* btrfs subvolume delete --commit-after.
DeleteSnapshot(j, i, next, err) ==
  \/ view' = view \ {i} /\ disk' = view' /\ Returns(j, next)
  \/ view' \in {view, view \ {i}} /\ disk' \in {disk, view'} /\ Errs(j, err)
=============================================================================
