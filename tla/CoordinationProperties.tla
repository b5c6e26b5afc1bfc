------------------------ MODULE CoordinationProperties ------------------------
(***************************************************************************)
(* What the deployments, their lineage and the two transactions promise    *)
(* one another, and the inductive invariant that implies it.               *)
(***************************************************************************)
EXTENDS Coordination

StoreType ==
  /\ rec \in [Ids -> Record \cup {None}]
  /\ view \subseteq Ids /\ disk \subseteq Ids /\ used \subseteq Ids
  /\ lineage \in Lineage \cup {None}
  /\ rollback \in RollbackRecord \cup {None}
  /\ package \in PackageRecord \cup {None}
  /\ faults \in 0..MaxFaults

\* The type invariant of the store, the transactions and the jobs.
TypeOK == StoreType /\ job \in [Jobs -> JobType]

(***************************************************************************)
(* Invariants.                                                             *)
(***************************************************************************)
\* A rollback and a package transaction never own the recovery boundary at the
\* same time: create_transaction (rollback.rs) and begin_transaction
\* (package_hook.rs) each look for the other under start.lock, but a hook goes on
\* writing its record after it has released the lock.
BoundaryHasOneOwner == rollback = None \/ package = None

\* A snapshot that is offered for restore (check_available, operations.rs) is not
\* taken away by a power cut: it was committed before its record became Ready.
RestorableIsDurable == Restorable \subseteq disk

\* A deployment that the lineage calls removed is not offered for restore again,
\* though a deletion that failed to commit may leave its snapshot behind: the
\* record says Deleting before anything is taken away (operations.rs:858-860).
RemovedIsNotOffered ==
  lineage # None => \A i \in Restorable : lineage[i] # "removed"

(***************************************************************************)
(* Action properties.                                                      *)
(***************************************************************************)
\* Retention never takes away the last snapshot that can be restored: a
\* deployment whose snapshot is missing does not count (delete_automatic, with a
\* floor of one).
AutomaticKeepsRestorable ==
  [][\A j \in Jobs :
       job[j].kind = "DeleteAutomatic" /\ job'[j] # job[j] /\ Restorable # {}
         => Restorable' # {}]_vars

\* As long as a rollback is pending, no deletion takes away a snapshot it names,
\* if it was there when the record was written (ensure_not_transaction_referenced
\* reads the record under start.lock, which a deletion keeps to its end).
PendingReferencesKept ==
  [][rollback # None /\ rollback' = rollback =>
       \A i \in {rollback.target, rollback.fallback} :
         i \in Restorable => i \in Restorable']_vars

(***************************************************************************)
(* Liveness.                                                               *)
(***************************************************************************)
\* Every job ends: a job waits for start.lock with operation.lock in its hand, and
\* no job that holds start.lock waits for anything (operations.rs:787-794).
JobsEnd == \A j \in Jobs : job[j].at # "idle" ~> job[j].at = "idle"

\* An interrupted deletion of a deployment that the lineage lists gets done when it
\* is asked for again, from whichever step it was cut off at, unless a transaction
\* refers to the deployment (operations.rs:818-819 resumes at the record's state).
ListedDeletionEnds ==
  \A i \in Ids :
    rec[i] # None /\ rec[i].state = "Deleting" /\ lineage # None /\ Ensured[i] # "unknown"
      ~> rec[i] = None \/ Referenced(i)

(***************************************************************************)
(* A statement the code does not keep; see the README.                     *)
(***************************************************************************)
\* A damaged or unfinished deployment can be safely removed: a deletion that is
\* asked for again and again gets done (snapshot_model.rs:173, operations.rs:1987).
DeletionEnds ==
  \A i \in Ids : (rec[i] # None /\ rec[i].state = "Deleting") ~> rec[i] = None

(***************************************************************************)
(* The inductive invariant, in two layers: Frame says who holds what and   *)
(* is inductive by itself; the rest says what the records, the snapshots   *)
(* and the lineage owe one another, and is inductive relative to it.       *)
(***************************************************************************)
OperationSteps == CreateSteps \cup DeleteSteps \cup {"await_start"}

\* One job at a time holds operation.lock.
OneOperation ==
  \A j, k \in Jobs :
    job[j].at \in OperationSteps /\ job[k].at \in OperationSteps => j = k

\* The steps of a job v fit what it is for, and have what they work on in the
\* records r and the lineage l.
Fits(v, r, l) ==
  /\ v.at \in CreateSteps \cup {"lock"} => v.kind \in CreateKinds
  /\ v.at \in DeleteSteps \cup {"await_start"} => v.kind \in {"Delete", "DeleteAutomatic"}
  /\ v.at \in {"claim", "clean"} => v.kind = "PreRollback"
  /\ v.at \in {"skip_pre", "record_pre", "record_post", "interrupt"} => v.kind \in AptKinds
  /\ v.at \in (OperationSteps \ {"record"}) \cup {"claim", "record_pre", "record_post"} =>
       v.id \in Ids
  /\ v.at \in OperationSteps \ {"record"} => r[v.id] # None
  /\ v.at \in CreateSteps => l # None
  /\ v.kind = "PreRollback" => v.target \in Ids
  /\ v.at = "idle" => v.kind = None

JobsFit == \A j \in Jobs : Fits(job[j], rec, lineage)

\* A hook that runs has the pending package record, and runs alone.
HookHasRecord == \A j \in Jobs : job[j].kind \in AptKinds => package # None
OneHook ==
  \A j, k \in Jobs : job[j].kind \in AptKinds /\ job[k].kind \in AptKinds => j = k

Frame ==
  /\ TypeOK /\ OneOperation /\ JobsFit
  /\ HookHasRecord /\ OneHook
  /\ BoundaryHasOneOwner

(***************************************************************************)
(* What is known of a deployment, whatever the jobs do: a Ready one whose  *)
(* snapshot is there is on the disk; one that the lineage calls removed is *)
(* being deleted or gone; and an id is known only if it was drawn.         *)
(***************************************************************************)
Sound(i) ==
  /\ rec[i] # None \/ (lineage # None /\ lineage[i] # "unknown") => i \in used
  /\ rec[i] # None /\ rec[i].state = "Ready" =>
       rec[i].uuid /\ (i \in view => i \in disk)
  /\ rec[i] # None /\ lineage # None /\ lineage[i] = "removed" => rec[i].state = "Deleting"

Making   == CreateSteps \ {"record"}
Removing == {"remove_snapshot", "unlist", "remove_record"}

\* A job works on a record in the state its step expects.
Works(j) ==
  LET i == job[j].id IN
  /\ job[j].at \in {"snapshot", "capture", "commit"} => rec[i].state = "Creating"
  /\ job[j].at = "commit" => (i \in view => i \in disk)
  /\ job[j].at \in Making \cup {"mark"} => rec[i].state # "Deleting"
  /\ job[j].at \in Removing => rec[i].state = "Deleting"

StoreSound == (\A i \in Ids : Sound(i)) /\ (\A j \in Jobs : Works(j))

(***************************************************************************)
(* What a pending or a coming rollback names is neither being made nor     *)
(* about to be deleted; and a deletion by retention leaves another one.    *)
(***************************************************************************)
Named == IF rollback = None THEN {} ELSE {rollback.target, rollback.fallback}

\* What a schedule call is going to name.
Wanted(j) ==
  (IF job[j].kind = "PreRollback" THEN {job[j].target} ELSE {})
    \cup (IF job[j].at = "claim" THEN {job[j].id} ELSE {})

NamesApart ==
  /\ Named \subseteq used
  /\ \A j \in Jobs : Wanted(j) \subseteq used
  /\ \A j, k \in Jobs : job[k].at \in Making => job[k].id \notin Named \cup Wanted(j)
  /\ \A j \in Jobs : job[j].at = "mark" => job[j].id \notin Named

FloorKept ==
  \A j \in Jobs :
    job[j].at = "mark" /\ job[j].kind = "DeleteAutomatic" /\ job[j].id \in Restorable =>
      \E i \in Restorable : i # job[j].id

IInv == Frame /\ StoreSound /\ NamesApart /\ FloorKept
===============================================================================
