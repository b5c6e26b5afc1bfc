-------------------------- MODULE CoordinationProofs --------------------------
(***************************************************************************)
(* Proofs about the recovery store, for any number of deployments, jobs    *)
(* and faults, and any store of an earlier release.                        *)
(***************************************************************************)
EXTENDS CoordinationProperties, FiniteSetTheorems, TLAPS

(***************************************************************************)
(* A job takes a step.  What the step writes keeps its type, removes no    *)
(* record another job works on, and leaves the boundary with one owner.    *)
(***************************************************************************)
After(j, at) ==
  IF at = "idle" THEN Idle ELSE NewJob(at, job[j].kind, job[j].id, job[j].target)

LEMMA AfterType ==
  ASSUME NEW j \in Jobs, NEW at \in Steps, job \in [Jobs -> JobType]
  PROVE  /\ After(j, at) \in JobType
         /\ After(j, at).at = at
         /\ at # "idle" => /\ After(j, at).kind = job[j].kind
                           /\ After(j, at).id = job[j].id
                           /\ After(j, at).target = job[j].target
         /\ at = "idle" => After(j, at).kind = None
<1>1. Idle \in JobType /\ Idle.at = "idle" /\ Idle.kind = None
  BY DEF Idle, JobType, Steps
<1>2. job[j] \in JobType
  OBVIOUS
<1>3. NewJob(at, job[j].kind, job[j].id, job[j].target) \in JobType
  BY <1>2 DEF JobType, NewJob
<1> QED
  BY <1>1, <1>3 DEF After, NewJob

LEMMA GotoAfter ==
  ASSUME NEW j \in Jobs, NEW at \in Steps, job \in [Jobs -> JobType], Goto(j, at)
  PROVE  job' = [job EXCEPT ![j] = After(j, at)]
<1>1. job[j] \in JobType
  OBVIOUS
<1>2. [job[j] EXCEPT !.at = at] = NewJob(at, job[j].kind, job[j].id, job[j].target)
  BY <1>1 DEF JobType, NewJob
<1> QED
  BY <1>2 DEF Goto, After

\* What a job may do to the records and the lineage.
Keeps(j) ==
  /\ \A i \in Ids : rec[i] # None =>
       rec'[i] # None \/ (job[j].at \in OperationSteps /\ i = job[j].id)
  /\ lineage # None => lineage' # None

LEMMA JobBecomes ==
  ASSUME Frame, NEW j \in Jobs, NEW v \in JobType, job' = [job EXCEPT ![j] = v],
         StoreType', BoundaryHasOneOwner', Keeps(j),
         v.at \in OperationSteps => job[j].at \in OperationSteps \/ OperationLockFree,
         v.kind \in AptKinds => job[j].kind \in AptKinds \/ AptIdle,
         \/ package' # None
         \/ v.kind \notin AptKinds /\ (job[j].kind \in AptKinds \/ AptIdle \/ package' = package),
         Fits(v, rec', lineage')
  PROVE  Frame'
<1> USE DEF Frame
<1>1. job \in [Jobs -> JobType] /\ job' \in [Jobs -> JobType]
  BY DEF TypeOK
<1>2. job'[j] = v /\ \A k \in Jobs \ {j} : job'[k] = job[k]
  BY <1>1
<1>3. TypeOK'
  BY <1>1 DEF TypeOK
<1>4. OneOperation'
  BY <1>2 DEF OneOperation, OperationLockFree, OperationSteps
<1>5. JobsFit'
  <2> SUFFICES ASSUME NEW k \in Jobs \ {j} PROVE Fits(job[k], rec', lineage')
    BY <1>2 DEF JobsFit
  <2>1. Fits(job[k], rec, lineage)
    BY DEF JobsFit
  <2>2. job[k].at \in OperationSteps => job[j].at \notin OperationSteps
    BY DEF OneOperation
  <2>3. job[k].at \in OperationSteps \ {"record"} => rec'[job[k].id] # None
    BY <2>1, <2>2 DEF Fits, Keeps
  <2>4. job[k].at \in CreateSteps => lineage' # None
    BY <2>1 DEF Fits, Keeps
  <2> QED
    BY <2>1, <2>3, <2>4 DEF Fits
<1>6. HookHasRecord'
  BY <1>2 DEF HookHasRecord, OneHook, AptIdle
<1>7. OneHook'
  BY <1>2 DEF OneHook, AptIdle
<1> QED
  BY <1>3, <1>4, <1>5, <1>6, <1>7

\* The common case: the job goes on, ends, or has nothing to do with a hook.
LEMMA JobGoes ==
  ASSUME Frame, NEW j \in Jobs, NEW at \in Steps, Goto(j, at),
         StoreType', BoundaryHasOneOwner', Keeps(j),
         at \in OperationSteps => job[j].at \in OperationSteps \/ OperationLockFree,
         \/ package' # None \/ package' = package
         \/ at = "idle" /\ job[j].kind \in AptKinds,
         at # "idle" => Fits(After(j, at), rec', lineage')
  PROVE  Frame'
<1>1. job \in [Jobs -> JobType]
  BY DEF Frame, TypeOK
<1>2. job' = [job EXCEPT ![j] = After(j, at)]
  BY <1>1, GotoAfter
<1>3. PICK v : v = After(j, at)
  OBVIOUS
<1>4. v \in JobType /\ v.at = at
  BY <1>1, <1>3, AfterType
<1>5. v.kind = (IF at = "idle" THEN None ELSE job[j].kind)
  BY <1>1, <1>3, AfterType
<1>6. None \notin AptKinds /\ "PreRollback" # None
  BY StoreNone DEF AptKinds, Kinds, CreateKinds
<1>7. v.kind \in AptKinds => job[j].kind \in AptKinds
  BY <1>5, <1>6
<1>8. \/ package' # None
      \/ v.kind \notin AptKinds /\ (job[j].kind \in AptKinds \/ AptIdle \/ package' = package)
  <2>1. CASE package' # None
    BY <2>1
  <2>2. CASE package' = None /\ package' = package
    <3>1. job[j].kind \notin AptKinds
      BY <2>2 DEF Frame, HookHasRecord
    <3> QED
      BY <2>2, <3>1, <1>7
  <2>3. CASE at = "idle" /\ job[j].kind \in AptKinds
    BY <2>3, <1>5, <1>6
  <2> QED
    BY <2>1, <2>2, <2>3
<1>9. Fits(v, rec', lineage')
  <2>1. CASE at = "idle"
    BY <2>1, <1>4, <1>5, <1>6
       DEF Fits, CreateSteps, DeleteSteps, OperationSteps
  <2>2. CASE at # "idle"
    BY <2>2, <1>3
  <2> QED
    BY <2>1, <2>2
<1> QED
  BY <1>2, <1>3, <1>4, <1>7, <1>8, <1>9, JobBecomes

\* What is known of a job that takes a step.
LEMMA Given ==
  ASSUME Frame, NEW j \in Jobs
  PROVE  /\ StoreType /\ BoundaryHasOneOwner
         /\ job \in [Jobs -> JobType] /\ job[j] \in JobType
         /\ Fits(job[j], rec, lineage)
         /\ job[j].kind \in AptKinds => package # None
BY DEF Frame, TypeOK, JobsFit, HookHasRecord

(***************************************************************************)
(* The types of what the operations write.                                 *)
(***************************************************************************)
LEMMA FaultsType ==
  ASSUME StoreType, UNCHANGED faults \/ Fault
  PROVE  faults' \in 0..MaxFaults
<1>1. faults \in 0..MaxFaults /\ MaxFaults \in Nat
  BY StoreConstants DEF StoreType
<1> QED
  BY <1>1 DEF Fault

LEMMA RecordWritten ==
  ASSUME StoreType, NEW i \in Ids, NEW r \in Record, rec' \in {rec, [rec EXCEPT ![i] = r]}
  PROVE  /\ rec' \in [Ids -> Record \cup {None}]
         /\ \A k \in Ids : rec[k] # None => rec'[k] # None
<1>1. rec \in [Ids -> Record \cup {None}] /\ None \notin Record
  BY StoreNone DEF StoreType
<1> QED
  BY <1>1

LEMMA EnsuredType ==
  ASSUME StoreType
  PROVE  Ensured \in Lineage
<1>1. Migrated \in Lineage
  BY DEF Migrated, Lineage
<1> QED
  BY <1>1 DEF Ensured, StoreType

LEMMA LineageWritten ==
  ASSUME StoreType, NEW l \in Lineage, lineage' \in {lineage, l}
  PROVE  /\ lineage' \in Lineage \cup {None}
         /\ lineage # None => lineage' # None
         /\ lineage' = l => lineage' # None
BY StoreNone DEF StoreType

(***************************************************************************)
(* Creation.                                                               *)
(***************************************************************************)
LEMMA CreateStarts ==
  ASSUME Frame, NEW j \in Jobs, NEW kind \in {"Manual", "Automatic"}, Create(j, kind)
  PROVE  Frame'
<1> DEFINE v == NewJob("lock", kind, None, None)
<1> USE DEF Create, OnlyJob, storeVars
<1>1. v \in JobType
  BY DEF JobType, NewJob, Steps, Kinds, CreateKinds
<1>2. v.at = "lock" /\ v.kind = kind
  BY DEF NewJob
<1>3. StoreType' /\ BoundaryHasOneOwner'
  BY Given DEF StoreType, BoundaryHasOneOwner
<1>4. Keeps(j)
  BY DEF Keeps
<1>5. Fits(v, rec', lineage')
  BY <1>2 DEF Fits, OperationSteps, CreateSteps, DeleteSteps, CreateKinds
<1>6. v.kind \notin AptKinds /\ v.at \notin OperationSteps
  BY <1>2 DEF AptKinds, OperationSteps, CreateSteps, DeleteSteps
<1> HIDE DEF v
<1> QED
  BY <1>1, <1>3, <1>4, <1>5, <1>6, JobBecomes DEF v

LEMMA CreateLockKeeps ==
  ASSUME Frame, NEW j \in Jobs, CreateLock(j)
  PROVE  Frame'
<1> USE DEF OnlyLineage
<1>1. PICK at \in {"record", "idle", "interrupt"} :
        /\ Goto(j, at) /\ (UNCHANGED faults \/ Fault)
        /\ lineage' \in {lineage, Ensured}
        /\ at = "record" => OperationLockFree /\ lineage' = Ensured
        /\ at = "interrupt" => job[j].kind \in AptKinds
  BY DEF CreateLock, WriteLineage, Returns, Errs, Failed
<1>2. /\ lineage' \in Lineage \cup {None}
      /\ lineage # None => lineage' # None
      /\ at = "record" => lineage' # None
  BY <1>1, Given, EnsuredType, LineageWritten
<1>3. StoreType' /\ BoundaryHasOneOwner'
  BY <1>1, <1>2, Given, FaultsType DEF CreateLock, StoreType, BoundaryHasOneOwner
<1>4. Keeps(j)
  BY <1>2 DEF CreateLock, Keeps
<1>5. at # "idle" => Fits(After(j, at), rec', lineage')
  BY <1>1, <1>2, Given DEF CreateLock, Fits, After, NewJob, OperationSteps, CreateSteps, DeleteSteps
<1>6. at \in Steps
  BY DEF Steps, CreateSteps
<1>7. package' = package
  BY DEF CreateLock
<1>8. at \in OperationSteps => OperationLockFree
  BY <1>1 DEF OperationSteps, CreateSteps, DeleteSteps
<1> QED
  BY <1>1, <1>3, <1>4, <1>5, <1>6, <1>7, <1>8, JobGoes

LEMMA CreateRecordKeeps ==
  ASSUME Frame, NEW j \in Jobs, CreateRecord(j)
  PROVE  Frame'
<1>1. PICK i \in Ids \ used, pinned \in BOOLEAN :
        LET created == [rec EXCEPT ![i] = Creating(pinned)] IN
        /\ used' = used \cup {i}
        /\ \/ /\ rec' = created /\ UNCHANGED faults
              /\ job' = [job EXCEPT ![j] = NewJob("snapshot", job[j].kind, i, job[j].target)]
           \/ rec' \in {rec, created} /\ Errs(j, Failed(job[j].kind))
  BY DEF CreateRecord
<1>2. job[j].at = "record" /\ UNCHANGED <<view, disk, lineage, rollback, package>>
  BY DEF CreateRecord
<1>3. Creating(pinned) \in Record
  BY DEF Creating, Record, States
<1>4. /\ rec' \in [Ids -> Record \cup {None}]
      /\ \A k \in Ids : rec[k] # None => rec'[k] # None
  BY <1>1, <1>3, Given, RecordWritten
<1>5. StoreType' /\ BoundaryHasOneOwner'
  BY <1>1, <1>2, <1>4, Given, FaultsType DEF StoreType, BoundaryHasOneOwner, Errs
<1>6. Keeps(j)
  BY <1>2, <1>4 DEF Keeps
<1>7. lineage # None /\ job[j].kind \in CreateKinds
  BY <1>2, Given DEF Fits, CreateSteps
<1>8. CASE job' = [job EXCEPT ![j] = NewJob("snapshot", job[j].kind, i, job[j].target)]
           /\ rec' = [rec EXCEPT ![i] = Creating(pinned)]
  <2> DEFINE v == NewJob("snapshot", job[j].kind, i, job[j].target)
  <2>1. job[j] \in JobType /\ job \in [Jobs -> JobType]
    BY Given
  <2>3. job' = [job EXCEPT ![j] = v]
    BY <1>8
  <2>4. v \in JobType
    BY <2>1 DEF JobType, NewJob, Steps, CreateSteps
  <2>5. /\ v.at = "snapshot" /\ v.kind = job[j].kind /\ v.id = i
        /\ v.target = job[j].target
    BY DEF NewJob
  <2>6. rec'[i] # None
    BY <1>3, <1>8, Given, StoreNone DEF StoreType
  <2>7. Fits(v, rec', lineage')
    BY <1>2, <1>7, <2>5, <2>6, Given DEF Fits, OperationSteps, CreateSteps, DeleteSteps
  <2>8. job[j].at \in OperationSteps
    BY <1>2 DEF OperationSteps, CreateSteps
  <2>9. v.kind \in AptKinds => job[j].kind \in AptKinds /\ package' # None
    BY <1>2, <2>5, Given
  <2>10. package' # None \/ (v.kind \notin AptKinds /\ package' = package)
    BY <1>2, <2>9
  <2> HIDE DEF v
  <2> QED
    BY <1>5, <1>6, <2>3, <2>4, <2>7, <2>8, <2>9, <2>10, JobBecomes
<1>9. CASE Goto(j, Failed(job[j].kind))
  <2>1. PICK at \in {"idle", "interrupt"} :
          Goto(j, at) /\ (at = "interrupt" => job[j].kind \in AptKinds)
    BY <1>9 DEF Failed
  <2>2. at \in Steps /\ at \notin OperationSteps
    BY DEF Steps, OperationSteps, CreateSteps, DeleteSteps
  <2>3. at # "idle" => Fits(After(j, at), rec', lineage')
    BY <1>2, <2>1, Given DEF Fits, After, NewJob, OperationSteps, CreateSteps, DeleteSteps
  <2> QED
    BY <1>2, <1>5, <1>6, <2>1, <2>2, <2>3, JobGoes
<1> QED
  BY <1>1, <1>8, <1>9 DEF Errs

\* The steps that write the snapshots, the record or the lineage, and go on.
LEMMA CreationGoes ==
  ASSUME Frame, NEW j \in Jobs, NEW at, Goto(j, at),
         job[j].at \in CreateSteps \ {"record"},
         \/ at \in {"capture", "commit", "list", "cleanup", "fail", "idle"}
         \/ at = Created(job[j].kind) \/ at = Failed(job[j].kind),
         StoreType', UNCHANGED <<rollback, package>>,
         \A k \in Ids : rec[k] # None => rec'[k] # None,
         lineage # None => lineage' # None
  PROVE  Frame'
<1>1. /\ at \in Steps
      /\ at \in OperationSteps => at \in CreateSteps \ {"record"}
      /\ at \notin DeleteSteps \cup {"await_start", "clean", "skip_pre", "lock"}
      /\ at = "claim" => job[j].kind = "PreRollback"
      /\ at \in {"record_pre", "record_post", "interrupt"} => job[j].kind \in AptKinds
  BY DEF Created, Failed, Steps, OperationSteps, CreateSteps, DeleteSteps, AptKinds
<1>2. BoundaryHasOneOwner'
  BY Given DEF BoundaryHasOneOwner
<1>3. Keeps(j)
  BY DEF Keeps
<1>4. job[j].at \in OperationSteps \ {"record"}
  BY DEF OperationSteps
<1>5. /\ job[j].id \in Ids /\ rec'[job[j].id] # None /\ lineage' # None
      /\ job[j].kind \in CreateKinds
      /\ job[j].kind = "PreRollback" => job[j].target \in Ids
  BY <1>4, Given DEF Fits
<1>6. at # "idle" => Fits(After(j, at), rec', lineage')
  BY <1>1, <1>5 DEF Fits, After, NewJob
<1> QED
  BY <1>1, <1>2, <1>3, <1>4, <1>6, JobGoes

LEMMA TakeSnapshotKeeps ==
  ASSUME Frame, NEW j \in Jobs, TakeSnapshot(j)
  PROVE  Frame'
<1>1. PICK at \in {"capture", "cleanup"} :
        Goto(j, at) /\ (UNCHANGED faults \/ Fault) /\ view' \in {view, view \cup {job[j].id}}
  BY DEF TakeSnapshot, Returns, Errs
<1>2. job[j].at \in CreateSteps \ {"record"} /\ job[j].id \in Ids
  BY Given DEF TakeSnapshot, Fits, OperationSteps, CreateSteps
<1>3. StoreType'
  BY <1>1, <1>2, Given, FaultsType DEF TakeSnapshot, OnlySnapshots, StoreType
<1> QED
  BY <1>1, <1>2, <1>3, CreationGoes DEF TakeSnapshot, OnlySnapshots

LEMMA CaptureKeeps ==
  ASSUME Frame, NEW j \in Jobs, Capture(j)
  PROVE  Frame'
<1>1. PICK at \in {"commit", "cleanup"} :
        Goto(j, at) /\ (UNCHANGED faults \/ Fault) /\ disk' \in {disk, view}
  BY DEF Capture, Returns, Errs
<1>2. job[j].at \in CreateSteps \ {"record"}
  BY DEF Capture, CreateSteps
<1>3. StoreType'
  BY <1>1, Given, FaultsType DEF Capture, OnlySnapshots, StoreType
<1> QED
  BY <1>1, <1>2, <1>3, CreationGoes DEF Capture, OnlySnapshots

LEMMA CommitKeeps ==
  ASSUME Frame, NEW j \in Jobs, Commit(j)
  PROVE  Frame'
<1> DEFINE i == job[j].id
           r == [rec[i] EXCEPT !.state = "Ready", !.uuid = TRUE]
<1>1. PICK at \in {"list", "cleanup"} :
        /\ Goto(j, at) /\ (UNCHANGED faults \/ Fault)
        /\ rec' \in {rec, [rec EXCEPT ![i] = r]}
  BY DEF Commit, WriteRecord, Returns, Errs
<1>2. job[j].at \in CreateSteps \ {"record"} /\ i \in Ids /\ rec[i] # None
  BY Given DEF Commit, Fits, OperationSteps, CreateSteps
<1>3. r \in Record
  BY <1>2, Given DEF StoreType, Record, States
<1>4. /\ rec' \in [Ids -> Record \cup {None}]
      /\ \A k \in Ids : rec[k] # None => rec'[k] # None
  BY <1>1, <1>2, <1>3, Given, RecordWritten
<1>5. StoreType'
  BY <1>1, <1>4, Given, FaultsType DEF Commit, OnlyRecords, StoreType
<1> QED
  BY <1>1, <1>2, <1>4, <1>5, CreationGoes DEF Commit, OnlyRecords

LEMMA ListSnapshotKeeps ==
  ASSUME Frame, NEW j \in Jobs, ListSnapshot(j)
  PROVE  Frame'
<1> DEFINE i == job[j].id
           l == [lineage EXCEPT ![i] = IF @ = "unknown" THEN "available" ELSE @]
<1>1. PICK at \in {Created(job[j].kind), "cleanup"} :
        Goto(j, at) /\ (UNCHANGED faults \/ Fault) /\ lineage' \in {lineage, l}
  BY DEF ListSnapshot, WriteLineage, Returns, Errs
<1>2. /\ job[j].at \in CreateSteps \ {"record"} /\ i \in Ids
      /\ lineage # None
  BY Given DEF ListSnapshot, Fits, OperationSteps, CreateSteps
<1>3. lineage \in Lineage
  BY <1>2, Given DEF StoreType
<1>4. l \in Lineage
  BY <1>2, <1>3 DEF Lineage
<1>5. lineage' \in Lineage \cup {None} /\ (lineage # None => lineage' # None)
  BY <1>1, <1>4, Given, LineageWritten
<1>6. StoreType'
  BY <1>1, <1>5, Given, FaultsType DEF ListSnapshot, OnlyLineage, StoreType
<1> QED
  BY <1>1, <1>2, <1>5, <1>6, CreationGoes DEF ListSnapshot, OnlyLineage

LEMMA DeleteSnapshotType ==
  ASSUME StoreType, NEW j \in Jobs, NEW i, NEW next, NEW err, DeleteSnapshot(j, i, next, err)
  PROVE  /\ view' \subseteq Ids /\ disk' \subseteq Ids /\ faults' \in 0..MaxFaults
         /\ Goto(j, next) \/ Goto(j, err)
<1>1. UNCHANGED faults \/ Fault
  BY DEF DeleteSnapshot, Returns, Errs
<1>2. view' \in {view, view \ {i}} /\ disk' \in {disk, view'}
  BY DEF DeleteSnapshot
<1>3. view \subseteq Ids /\ disk \subseteq Ids
  BY DEF StoreType
<1>4. view' \subseteq Ids /\ disk' \subseteq Ids
  BY <1>2, <1>3
<1> QED
  BY <1>1, <1>4, FaultsType DEF DeleteSnapshot, Returns, Errs

LEMMA CleanupKeeps ==
  ASSUME Frame, NEW j \in Jobs, CleanupSnapshot(j)
  PROVE  Frame'
<1>1. /\ Goto(j, "fail") /\ view' \subseteq Ids /\ disk' \subseteq Ids
      /\ faults' \in 0..MaxFaults
  BY Given, DeleteSnapshotType DEF CleanupSnapshot
<1>2. job[j].at \in CreateSteps \ {"record"}
  BY DEF CleanupSnapshot, CreateSteps
<1>3. StoreType'
  BY <1>1, Given DEF CleanupSnapshot, OnlySnapshots, StoreType
<1> QED
  BY <1>1, <1>2, <1>3, CreationGoes DEF CleanupSnapshot, OnlySnapshots

LEMMA MarkIncompleteKeeps ==
  ASSUME Frame, NEW j \in Jobs, MarkIncomplete(j)
  PROVE  Frame'
<1> DEFINE i == job[j].id
           r == [rec[i] EXCEPT !.state = "Incomplete", !.uuid = FALSE]
           at == Failed(job[j].kind)
<1>1. /\ Goto(j, at) /\ (UNCHANGED faults \/ Fault)
      /\ rec' \in {rec, [rec EXCEPT ![i] = r]}
  BY DEF MarkIncomplete, WriteRecord, Returns, Errs
<1>2. job[j].at \in CreateSteps \ {"record"} /\ i \in Ids /\ rec[i] # None
  BY Given DEF MarkIncomplete, Fits, OperationSteps, CreateSteps
<1>3. r \in Record
  BY <1>2, Given DEF StoreType, Record, States
<1>4. /\ rec' \in [Ids -> Record \cup {None}]
      /\ \A k \in Ids : rec[k] # None => rec'[k] # None
  BY <1>1, <1>2, <1>3, Given, RecordWritten
<1>5. StoreType'
  BY <1>1, <1>4, Given, FaultsType DEF MarkIncomplete, OnlyRecords, StoreType
<1> QED
  BY <1>1, <1>2, <1>4, <1>5, CreationGoes DEF MarkIncomplete, OnlyRecords

(***************************************************************************)
(* Deletion and pinning.                                                   *)
(***************************************************************************)
LEMMA DeletionStarts ==
  ASSUME Frame, NEW j \in Jobs, NEW i \in Ids, NEW kind \in {"Delete", "DeleteAutomatic"},
         Delete(j, i, kind)
  PROVE  Frame'
<1> DEFINE v == NewJob("await_start", kind, i, None)
<1> USE DEF Delete, OnlyJob, storeVars
<1>1. v \in JobType
  BY DEF JobType, NewJob, Steps, Kinds
<1>2. v.at = "await_start" /\ v.kind = kind /\ v.id = i
  BY DEF NewJob
<1>3. StoreType' /\ BoundaryHasOneOwner'
  BY Given DEF StoreType, BoundaryHasOneOwner
<1>4. Keeps(j)
  BY DEF Keeps
<1>5. Fits(v, rec', lineage')
  BY <1>2 DEF Fits, OperationSteps, CreateSteps, DeleteSteps
<1>6. v.kind \notin AptKinds
  BY <1>2 DEF AptKinds
<1> HIDE DEF v
<1> QED
  BY <1>1, <1>3, <1>4, <1>5, <1>6, JobBecomes DEF v

LEMMA DeletionGoes ==
  ASSUME Frame, NEW j \in Jobs, NEW at \in DeleteSteps \cup {"idle"}, Goto(j, at),
         job[j].at \in DeleteSteps \cup {"await_start"},
         StoreType', UNCHANGED <<rollback, package>>,
         \A k \in Ids : rec[k] # None => rec'[k] # None \/ (at = "idle" /\ k = job[j].id),
         lineage # None => lineage' # None
  PROVE  Frame'
<1>1. at \in Steps /\ job[j].at \in OperationSteps \ {"record"}
  BY DEF Steps, OperationSteps, CreateSteps, DeleteSteps
<1>2. BoundaryHasOneOwner'
  BY Given DEF BoundaryHasOneOwner
<1>3. Keeps(j)
  BY <1>1 DEF Keeps
<1>4. /\ job[j].id \in Ids /\ rec[job[j].id] # None
      /\ job[j].kind \in {"Delete", "DeleteAutomatic"}
  BY <1>1, Given DEF Fits
<1>5. at # "idle" => Fits(After(j, at), rec', lineage')
  BY <1>4 DEF Fits, After, NewJob, OperationSteps, CreateSteps, DeleteSteps
<1> QED
  BY <1>1, <1>2, <1>3, <1>5, JobGoes

LEMMA AcquireStartLockKeeps ==
  ASSUME Frame, NEW j \in Jobs, AcquireStartLock(j)
  PROVE  Frame'
<1>1. PICK at \in {"check", "idle"} : Goto(j, at) /\ UNCHANGED faults
  BY DEF AcquireStartLock, Returns
<1>2. at \in DeleteSteps \cup {"idle"} /\ job[j].at = "await_start"
  BY DEF AcquireStartLock, DeleteSteps
<1>3. StoreType'
  BY <1>1, Given DEF AcquireStartLock, OnlyJob, storeVars, StoreType
<1> QED
  BY <1>1, <1>2, <1>3, DeletionGoes DEF AcquireStartLock, OnlyJob, storeVars

LEMMA DeleteCheckKeeps ==
  ASSUME Frame, NEW j \in Jobs, DeleteCheck(j)
  PROVE  Frame'
<1>1. PICK at \in {"remove_snapshot", "mark", "idle"} : Goto(j, at) /\ UNCHANGED faults
  BY DEF DeleteCheck, Returns
<1>2. at \in DeleteSteps \cup {"idle"} /\ job[j].at \in DeleteSteps
  BY DEF DeleteCheck, DeleteSteps
<1>3. StoreType'
  BY <1>1, Given DEF DeleteCheck, OnlyJob, storeVars, StoreType
<1> QED
  BY <1>1, <1>2, <1>3, DeletionGoes DEF DeleteCheck, OnlyJob, storeVars

LEMMA MarkDeletingKeeps ==
  ASSUME Frame, NEW j \in Jobs, MarkDeleting(j)
  PROVE  Frame'
<1> DEFINE i == job[j].id
           r == [rec[i] EXCEPT !.state = "Deleting"]
<1>1. PICK at \in {"remove_snapshot", "idle"} :
        /\ Goto(j, at) /\ (UNCHANGED faults \/ Fault)
        /\ rec' \in {rec, [rec EXCEPT ![i] = r]}
  BY DEF MarkDeleting, WriteRecord, Returns, Errs
<1>2. /\ at \in DeleteSteps \cup {"idle"} /\ job[j].at \in DeleteSteps
      /\ i \in Ids /\ rec[i] # None
  BY Given DEF MarkDeleting, Fits, OperationSteps, CreateSteps, DeleteSteps
<1>3. r \in Record
  BY <1>2, Given DEF StoreType, Record, States
<1>4. /\ rec' \in [Ids -> Record \cup {None}]
      /\ \A k \in Ids : rec[k] # None => rec'[k] # None
  BY <1>1, <1>2, <1>3, Given, RecordWritten
<1>5. StoreType'
  BY <1>1, <1>4, Given, FaultsType DEF MarkDeleting, OnlyRecords, StoreType
<1> QED
  BY <1>1, <1>2, <1>4, <1>5, DeletionGoes DEF MarkDeleting, OnlyRecords

LEMMA RemoveSnapshotKeeps ==
  ASSUME Frame, NEW j \in Jobs, RemoveSnapshot(j)
  PROVE  Frame'
<1>1. job[j].at \in DeleteSteps /\ UNCHANGED <<rec, lineage, used, rollback, package>>
  BY DEF RemoveSnapshot, OnlySnapshots, DeleteSteps
<1>2. /\ view' \subseteq Ids /\ disk' \subseteq Ids /\ faults' \in 0..MaxFaults
      /\ Goto(j, "unlist") \/ Goto(j, "idle")
  <2>1. CASE DeleteSnapshot(j, job[j].id, "unlist", "idle")
    BY <2>1, Given, DeleteSnapshotType
  <2>2. CASE Returns(j, "unlist") /\ UNCHANGED <<view, disk>>
    BY <2>2, Given, FaultsType DEF Returns, StoreType
  <2> QED
    BY <2>1, <2>2 DEF RemoveSnapshot
<1>3. StoreType'
  BY <1>1, <1>2, Given DEF StoreType
<1>4. "unlist" \in DeleteSteps
  BY DEF DeleteSteps
<1>5. CASE Goto(j, "unlist")
  BY <1>1, <1>3, <1>4, <1>5, DeletionGoes
<1>6. CASE Goto(j, "idle")
  BY <1>1, <1>3, <1>6, DeletionGoes
<1> QED
  BY <1>2, <1>5, <1>6

LEMMA UnlistKeeps ==
  ASSUME Frame, NEW j \in Jobs, Unlist(j)
  PROVE  Frame'
<1> DEFINE i == job[j].id
           l == [Ensured EXCEPT ![i] = "removed"]
<1>1. PICK at \in {"remove_record", "idle"} :
        /\ Goto(j, at) /\ (UNCHANGED faults \/ Fault)
        /\ lineage' \in {lineage, Ensured, l}
  BY DEF Unlist, WriteLineage, Returns, Errs
<1>2. at \in DeleteSteps \cup {"idle"} /\ job[j].at \in DeleteSteps
  BY DEF Unlist, DeleteSteps
<1>3. Ensured \in Lineage /\ l \in Lineage
  BY Given, EnsuredType DEF Lineage
<1>4. lineage' \in Lineage \cup {None} /\ (lineage # None => lineage' # None)
  BY <1>1, <1>3, Given, LineageWritten
<1>5. StoreType'
  BY <1>1, <1>4, Given, FaultsType DEF Unlist, OnlyLineage, StoreType
<1> QED
  BY <1>1, <1>2, <1>4, <1>5, DeletionGoes DEF Unlist, OnlyLineage

LEMMA RemoveRecordKeeps ==
  ASSUME Frame, NEW j \in Jobs, RemoveRecord(j)
  PROVE  Frame'
<1> DEFINE without == [rec EXCEPT ![job[j].id] = None]
<1>1. /\ Goto(j, "idle") /\ (UNCHANGED faults \/ Fault)
      /\ rec' \in {rec, without} /\ disk' \in {disk, view}
  BY DEF RemoveRecord, Returns, Errs
<1>2. job[j].at \in DeleteSteps
  BY DEF RemoveRecord, DeleteSteps
<1>3. rec \in [Ids -> Record \cup {None}]
  BY Given DEF StoreType
<1>4. /\ rec' \in [Ids -> Record \cup {None}]
      /\ \A k \in Ids : rec[k] # None => rec'[k] # None \/ k = job[j].id
  BY <1>1, <1>3
<1>5. StoreType'
  BY <1>1, <1>4, Given, FaultsType DEF RemoveRecord, StoreType
<1> QED
  BY <1>1, <1>2, <1>4, <1>5, DeletionGoes DEF RemoveRecord

LEMMA SetPinnedKeeps ==
  ASSUME Frame, NEW i \in Ids, SetPinned(i)
  PROVE  Frame'
<1> USE DEF Frame
<1>1. rec \in [Ids -> Record \cup {None}] /\ rec[i] \in Record
  BY DEF TypeOK, StoreType, SetPinned
<1>2. [rec[i] EXCEPT !.pinned = ~rec[i].pinned] \in Record
  BY <1>1 DEF Record
<1>3. rec' = [rec EXCEPT ![i] = [rec[i] EXCEPT !.pinned = ~rec[i].pinned]]
  BY DEF SetPinned
<1>4. /\ rec' \in [Ids -> Record \cup {None}]
      /\ \A k \in Ids : rec[k] # None => rec'[k] # None
  BY <1>1, <1>2, <1>3, StoreNone
<1>5. TypeOK'
  BY <1>4 DEF TypeOK, StoreType, SetPinned
<1>6. JobsFit'
  <2> SUFFICES ASSUME NEW k \in Jobs PROVE Fits(job[k], rec', lineage)
    BY DEF JobsFit, SetPinned
  <2>1. Fits(job[k], rec, lineage)
    BY DEF JobsFit
  <2> QED
    BY <1>4, <2>1 DEF Fits, OperationSteps, CreateSteps, DeleteSteps
<1> QED
  BY <1>5, <1>6 DEF SetPinned, OneOperation, HookHasRecord, OneHook, BoundaryHasOneOwner

(***************************************************************************)
(* The rollback.                                                           *)
(***************************************************************************)
LEMMA ScheduleStarts ==
  ASSUME Frame, NEW j \in Jobs, NEW i \in Ids, Schedule(j, i)
  PROVE  Frame'
<1> DEFINE v == NewJob("lock", "PreRollback", None, i)
<1> USE DEF Schedule, OnlyJob, storeVars
<1>1. v \in JobType
  BY DEF JobType, NewJob, Steps, Kinds, CreateKinds
<1>2. v.at = "lock" /\ v.kind = "PreRollback" /\ v.target = i
  BY DEF NewJob
<1>3. StoreType' /\ BoundaryHasOneOwner'
  BY Given DEF StoreType, BoundaryHasOneOwner
<1>4. Keeps(j)
  BY DEF Keeps
<1>5. Fits(v, rec', lineage')
  BY <1>2 DEF Fits, OperationSteps, CreateSteps, DeleteSteps, CreateKinds
<1>6. v.kind \notin AptKinds /\ v.at \notin OperationSteps
  BY <1>2 DEF AptKinds, OperationSteps, CreateSteps, DeleteSteps
<1> HIDE DEF v
<1> QED
  BY <1>1, <1>3, <1>4, <1>5, <1>6, JobBecomes DEF v

LEMMA RollbackGoes ==
  ASSUME Frame, NEW j \in Jobs, NEW at \in {"idle", "clean"}, Goto(j, at),
         job[j].at \in {"claim", "clean"}, UNCHANGED faults \/ Fault,
         rollback' \in RollbackRecord \cup {None},
         rollback' \in {rollback, None} \/ package = None, OnlyRollback
  PROVE  Frame'
<1>1. UNCHANGED <<rec, view, disk, lineage, used, package>>
  BY DEF OnlyRollback, storeVars
<1>2. StoreType'
  BY <1>1, Given, FaultsType DEF StoreType
<1>3. BoundaryHasOneOwner'
  BY <1>1, Given DEF BoundaryHasOneOwner
<1>4. Keeps(j)
  BY <1>1 DEF Keeps
<1>5. job[j].kind = "PreRollback" /\ job[j].target \in Ids
  BY Given DEF Fits
<1>6. at # "idle" => Fits(After(j, at), rec', lineage')
  BY <1>5 DEF Fits, After, NewJob, OperationSteps, CreateSteps, DeleteSteps
<1>7. at \in Steps /\ at \notin OperationSteps
  BY DEF Steps, OperationSteps, CreateSteps, DeleteSteps
<1> QED
  BY <1>1, <1>2, <1>3, <1>4, <1>6, <1>7, JobGoes

LEMMA ClaimKeeps ==
  ASSUME Frame, NEW j \in Jobs, Claim(j)
  PROVE  Frame'
<1> DEFINE r == Rollback(job[j].target, job[j].id)
<1>1. PICK at \in {"idle", "clean"} :
        /\ Goto(j, at) /\ (UNCHANGED faults \/ Fault)
        /\ rollback' \in {rollback, r} /\ (rollback' # rollback => package = None)
  BY DEF Claim, WriteRollback, Returns, Errs
<1>2. /\ job[j].target \in Ids /\ job[j].id \in Ids
      /\ job[j].at \in {"claim", "clean"}
  BY Given DEF Claim, Fits
<1>3. r \in RollbackRecord
  BY <1>2 DEF Rollback, RollbackRecord
<1>4. rollback' \in RollbackRecord \cup {None}
  BY <1>1, <1>3, Given DEF StoreType
<1> QED
  BY <1>1, <1>2, <1>4, RollbackGoes DEF Claim

LEMMA CleanKeeps ==
  ASSUME Frame, NEW j \in Jobs, Clean(j)
  PROVE  Frame'
<1>1. Goto(j, "idle") /\ (UNCHANGED faults \/ Fault) /\ rollback' \in {rollback, None}
  BY DEF Clean, WriteRollback, Returns, Errs
<1>2. rollback' \in RollbackRecord \cup {None}
  BY <1>1, Given DEF StoreType
<1> QED
  BY <1>1, <1>2, RollbackGoes DEF Clean

LEMMA RecordEnds ==
  ASSUME Frame, Withdraw \/ Apply \/ Settle
  PROVE  Frame'
<1> USE DEF Frame
<1>1. UNCHANGED <<rec, view, used, package, job, faults>>
  BY DEF Withdraw, Apply, Settle, storeVars
<1>2. disk' \in {disk, view}
  BY DEF Withdraw, Apply, Settle, storeVars
<1>3. lineage' \in {lineage, Ensured}
  BY DEF Withdraw, Apply, Settle, storeVars
<1>4. StoreType
  BY DEF TypeOK
<1>5. lineage' \in Lineage \cup {None} /\ (lineage # None => lineage' # None)
  BY <1>3, <1>4, EnsuredType, LineageWritten
<1>6. rollback' \in RollbackRecord \cup {None} /\ (rollback' # None => rollback # None)
  <2>1. CASE Withdraw \/ Settle
    BY <2>1 DEF Withdraw, Settle
  <2>2. CASE Apply
    <3>1. rollback \in RollbackRecord /\ rollback' = [rollback EXCEPT !.applied = TRUE]
      BY <2>2, <1>4 DEF Apply, StoreType
    <3>2. rollback' \in RollbackRecord
      BY <3>1 DEF RollbackRecord
    <3> QED
      BY <2>2, <3>2 DEF Apply
  <2> QED
    BY <2>1, <2>2
<1>7. TypeOK'
  BY <1>1, <1>2, <1>4, <1>5, <1>6 DEF TypeOK, StoreType
<1>8. JobsFit'
  BY <1>1, <1>5 DEF JobsFit, Fits
<1>9. BoundaryHasOneOwner'
  BY <1>1, <1>6 DEF BoundaryHasOneOwner
<1> QED
  BY <1>1, <1>7, <1>8, <1>9 DEF OneOperation, HookHasRecord, OneHook

(***************************************************************************)
(* The package transaction.                                                *)
(***************************************************************************)
LEMMA PackageType ==
  ASSUME NEW phase \in PackagePhases, NEW pre \in Ids \cup {None}, NEW post \in Ids \cup {None}
  PROVE  Package(phase, pre, post) \in PackageRecord /\ Package(phase, pre, post) # None
<1>1. Package(phase, pre, post) \in PackageRecord
  BY DEF Package, PackageRecord
<1> QED
  BY <1>1, StoreNone

LEMMA InterruptedType ==
  ASSUME NEW p \in PackageRecord
  PROVE  Interrupted(p) \in PackageRecord /\ Interrupted(p) # None
<1>1. p.pre \in Ids \cup {None} /\ p # None
  BY StoreNone DEF PackageRecord
<1>2. Package("Interrupted", p.pre, None) \in PackageRecord
  BY <1>1, PackageType DEF PackagePhases
<1> QED
  BY <1>1, <1>2, StoreNone DEF Interrupted

\* A hook that begins, or whose first step is also its last.
LEMMA HookBecomes ==
  ASSUME Frame, NEW j \in Jobs, AptIdle, job[j].at = "idle",
         NEW v \in {Idle, NewJob("lock", "AptPre", None, None),
                    NewJob("skip_pre", "AptPre", None, None),
                    NewJob("lock", "AptPost", None, None),
                    NewJob("interrupt", "AptPost", None, None)},
         job' = [job EXCEPT ![j] = v], OnlyPackage, UNCHANGED faults \/ Fault,
         package' \in PackageRecord \cup {None},
         v # Idle => package' # None,
         package' # None => rollback = None
  PROVE  Frame'
<1>1. UNCHANGED <<rec, view, disk, lineage, used, rollback>>
  BY DEF OnlyPackage, storeVars
<1>2. StoreType'
  BY <1>1, Given, FaultsType DEF StoreType
<1>3. BoundaryHasOneOwner'
  BY <1>1 DEF BoundaryHasOneOwner
<1>4. Keeps(j)
  BY <1>1 DEF Keeps
<1>5. v \in JobType
  BY DEF JobType, NewJob, Idle, Steps, Kinds, CreateKinds
<1>6. v.at \in {"idle", "lock", "skip_pre", "interrupt"}
  BY DEF NewJob, Idle
<1>7. v.kind = (IF v.at = "idle" THEN None ELSE v.kind)
  BY DEF NewJob, Idle
<1>8. v.at # "idle" => v.kind \in {"AptPre", "AptPost"}
  BY DEF NewJob, Idle
<1>9. None \notin AptKinds /\ None # "PreRollback"
  BY StoreNone DEF AptKinds, Kinds, CreateKinds
<1>10. v = Idle \/ v.at # "idle"
  BY DEF NewJob, Idle
<1>11. Fits(v, rec', lineage')
  BY <1>6, <1>7, <1>8, <1>9
     DEF Fits, OperationSteps, CreateSteps, DeleteSteps, CreateKinds, AptKinds
<1>12. v.at \notin OperationSteps
  BY <1>6 DEF OperationSteps, CreateSteps, DeleteSteps
<1>13. package' # None \/ v.kind \notin AptKinds
  BY <1>9, <1>10 DEF Idle
<1> QED
  BY <1>2, <1>3, <1>4, <1>5, <1>11, <1>12, <1>13, JobBecomes

LEMMA AptBeforeKeeps ==
  ASSUME Frame, NEW j \in Jobs, AptBefore(j)
  PROVE  Frame'
<1> DEFINE begun == Package("PreparingPre", None, None)
<1>1. begun \in PackageRecord /\ begun # None
  BY PackageType DEF PackagePhases
<1>2. package # None => package \in PackageRecord
  BY Given DEF StoreType
<1>3. package' \in PackageRecord \cup {None}
  BY <1>1, <1>2, InterruptedType DEF AptBefore
<1>4. /\ AptIdle /\ job[j].at = "idle" /\ rollback = None /\ OnlyPackage
  BY DEF AptBefore
<1>5. CASE \E at \in {"lock", "skip_pre"} :
             /\ package' = begun
             /\ job' = [job EXCEPT ![j] = NewJob(at, "AptPre", None, None)]
             /\ UNCHANGED faults
  BY <1>1, <1>3, <1>4, <1>5, HookBecomes
<1>6. CASE Errs(j, "idle")
  BY <1>3, <1>4, <1>6, HookBecomes DEF Errs, Goto
<1> QED
  BY <1>5, <1>6 DEF AptBefore

\* The steps of a hook that has its record.
LEMMA HookGoes ==
  ASSUME Frame, NEW j \in Jobs, Goto(j, "idle"), job[j].kind \in AptKinds,
         package' \in PackageRecord \cup {None}, OnlyPackage, UNCHANGED faults \/ Fault
  PROVE  Frame'
<1>1. UNCHANGED <<rec, view, disk, lineage, used, rollback>>
  BY DEF OnlyPackage, storeVars
<1>2. StoreType'
  BY <1>1, Given, FaultsType DEF StoreType
<1>3. BoundaryHasOneOwner'
  BY <1>1, Given DEF BoundaryHasOneOwner
<1>4. Keeps(j)
  BY <1>1 DEF Keeps
<1>5. "idle" \in Steps /\ "idle" \notin OperationSteps
  BY DEF Steps, OperationSteps, CreateSteps, DeleteSteps
<1> QED
  BY <1>2, <1>3, <1>4, <1>5, JobGoes

LEMMA HookStepKeeps ==
  ASSUME Frame, NEW j \in Jobs, AptStep(j)
  PROVE  Frame'
<1> USE DEF WritePackage, Archive, Returns, Errs
<1>1. job[j].at \in {"skip_pre", "record_pre", "record_post", "interrupt"} /\ OnlyPackage
  BY DEF AptStep, SkipPre, RecordPre, RecordPost, Interrupt
<1>2. job[j].kind \in AptKinds
  BY <1>1, Given DEF Fits
<1>3. package \in PackageRecord
  BY <1>2, Given DEF StoreType
<1>4. package.pre \in Ids \cup {None}
  BY <1>3 DEF PackageRecord
<1>5. job[j].id \in Ids \/ job[j].at \notin {"record_pre", "record_post"}
  BY Given DEF Fits
<1>6. /\ Goto(j, "idle") /\ (UNCHANGED faults \/ Fault)
      /\ package' \in PackageRecord \cup {None}
  <2>1. CASE SkipPre(j)
    <3>1. Package("AwaitingPost", None, None) \in PackageRecord
      BY PackageType DEF PackagePhases
    <3> QED
      BY <2>1, <3>1, <1>3 DEF SkipPre
  <2>2. CASE RecordPre(j)
    <3>1. /\ Package("AwaitingPost", job[j].id, None) \in PackageRecord
          /\ Package("Complete", job[j].id, None) \in PackageRecord
      BY <2>2, <1>5, PackageType DEF RecordPre, PackagePhases
    <3> QED
      BY <2>2, <3>1, <1>3 DEF RecordPre
  <2>3. CASE RecordPost(j)
    <3>1. Package("Complete", package.pre, job[j].id) \in PackageRecord
      BY <2>3, <1>4, <1>5, PackageType DEF RecordPost, PackagePhases
    <3> QED
      BY <2>3, <3>1, <1>3 DEF RecordPost
  <2>4. CASE Interrupt(j)
    BY <2>4, <1>3, InterruptedType DEF Interrupt
  <2> QED
    BY <2>1, <2>2, <2>3, <2>4 DEF AptStep
<1> QED
  BY <1>1, <1>2, <1>6, HookGoes

LEMMA AptAfterKeeps ==
  ASSUME Frame, NEW j \in Jobs, AptAfter(j) \/ AptAfterDisabled(j)
  PROVE  Frame'
<1>1. /\ job[j].at = "idle" /\ AptIdle /\ package # None
  BY DEF AptAfter, AptAfterDisabled
<1>2. package \in PackageRecord /\ rollback = None
  BY <1>1, Given DEF StoreType, BoundaryHasOneOwner
<1>3. CASE AptAfter(j)
  <2>1. OnlyPackage /\ package' = package /\ UNCHANGED faults
    BY <1>3 DEF AptAfter, OnlyJob, OnlyPackage, storeVars
  <2>2. PICK at \in {"lock", "interrupt"} :
          job' = [job EXCEPT ![j] = NewJob(at, "AptPost", None, None)]
    BY <1>3 DEF AptAfter
  <2> QED
    BY <1>1, <1>2, <2>1, <2>2, HookBecomes
<1>4. CASE AptAfterDisabled(j)
  <2>1. package.pre \in Ids \cup {None}
    BY <1>2 DEF PackageRecord
  <2>2. Package("Complete", package.pre, None) \in PackageRecord
    BY <2>1, PackageType DEF PackagePhases
  <2>3. /\ Goto(j, "idle") /\ (UNCHANGED faults \/ Fault) /\ OnlyPackage
        /\ package' \in PackageRecord \cup {None}
    BY <1>2, <1>4, <2>2, InterruptedType
       DEF AptAfterDisabled, Archive, WritePackage, Returns, Errs
  <2> QED
    BY <1>1, <1>2, <2>3, HookBecomes DEF Goto
<1> QED
  BY <1>3, <1>4

(***************************************************************************)
(* Faults, and the whole.                                                  *)
(***************************************************************************)
LEMMA DieKeeps ==
  ASSUME Frame, NEW j \in Jobs, Die(j)
  PROVE  Frame'
<1>1. Goto(j, "idle") /\ Fault
  BY DEF Die, Errs
<1>2. UNCHANGED <<rec, view, disk, lineage, used, rollback, package>>
  BY DEF Die, OnlyJob, storeVars
<1>3. StoreType' /\ BoundaryHasOneOwner' /\ Keeps(j)
  BY <1>1, <1>2, Given, FaultsType DEF StoreType, BoundaryHasOneOwner, Keeps
<1>4. "idle" \in Steps /\ "idle" \notin OperationSteps
  BY DEF Steps, OperationSteps, CreateSteps, DeleteSteps
<1> QED
  BY <1>1, <1>2, <1>3, <1>4, JobGoes

AllIdle == job = [j \in Jobs |-> Idle]

LEMMA IdleJobs ==
  AllIdle => /\ job \in [Jobs -> JobType]
             /\ OneOperation /\ JobsFit /\ HookHasRecord /\ OneHook
<1> SUFFICES ASSUME AllIdle
             PROVE  /\ job \in [Jobs -> JobType]
                    /\ OneOperation /\ JobsFit /\ HookHasRecord /\ OneHook
  OBVIOUS
<1> USE DEF AllIdle
<1>1. Idle \in JobType
  BY DEF Idle, JobType, Steps
<1>2. None \notin AptKinds /\ None # "PreRollback"
  BY StoreNone DEF AptKinds, Kinds, CreateKinds
<1>3. \A j \in Jobs : job[j].at = "idle" /\ job[j].kind = None
  BY DEF Idle
<1>4. JobsFit
  BY <1>2, <1>3 DEF JobsFit, Fits, OperationSteps, CreateSteps, DeleteSteps
<1> QED
  BY <1>1, <1>2, <1>3, <1>4
     DEF OneOperation, HookHasRecord, OneHook, OperationSteps, CreateSteps, DeleteSteps

LEMMA LosePowerKeeps ==
  ASSUME Frame, LosePower
  PROVE  Frame'
<1>1. AllIdle' /\ UNCHANGED <<rec, lineage, used, rollback, package>>
  BY DEF LosePower, AllIdle
<1>2. /\ (job \in [Jobs -> JobType])'
      /\ OneOperation' /\ JobsFit' /\ HookHasRecord' /\ OneHook'
  BY <1>1, IdleJobs, PTL
<1>3. StoreType /\ BoundaryHasOneOwner
  BY DEF Frame, TypeOK
<1>4. view' \subseteq Ids /\ disk' \subseteq Ids
  BY <1>3 DEF LosePower, StoreType
<1>5. StoreType' /\ BoundaryHasOneOwner'
  BY <1>1, <1>3, <1>4, FaultsType DEF LosePower, StoreType, BoundaryHasOneOwner
<1> QED
  BY <1>2, <1>5 DEF Frame, TypeOK

LEMMA InitFrame == Init => Frame
<1> SUFFICES ASSUME Init PROVE Frame
  OBVIOUS
<1> USE DEF Init
<1>1. [state |-> "Ready", pinned |-> FALSE, uuid |-> TRUE] \in Record
  BY DEF Record, States
<1>2. rec \in [Ids -> Record \cup {None}]
  BY <1>1
<1>3. StoreType
  BY <1>2, StoreConstants DEF StoreType
<1>4. BoundaryHasOneOwner
  BY DEF BoundaryHasOneOwner
<1> QED
  BY <1>3, <1>4, IdleJobs DEF AllIdle, Frame, TypeOK

LEMMA NextFrame == Frame /\ [Next]_vars => Frame'
<1> SUFFICES ASSUME Frame, [Next]_vars PROVE Frame'
  OBVIOUS
<1>1. ASSUME NEW j \in Jobs, Begin(j) PROVE Frame'
  BY <1>1, CreateStarts, DeletionStarts, ScheduleStarts, AptBeforeKeeps, AptAfterKeeps
     DEF Begin
<1>2. ASSUME NEW j \in Jobs, CreateStep(j) PROVE Frame'
  BY <1>2, CreateLockKeeps, CreateRecordKeeps, TakeSnapshotKeeps, CaptureKeeps, CommitKeeps,
     ListSnapshotKeeps, CleanupKeeps, MarkIncompleteKeeps DEF CreateStep
<1>3. ASSUME NEW j \in Jobs, DeleteStep(j) PROVE Frame'
  BY <1>3, AcquireStartLockKeeps, DeleteCheckKeeps, MarkDeletingKeeps, RemoveSnapshotKeeps,
     UnlistKeeps, RemoveRecordKeeps DEF DeleteStep
<1>4. ASSUME NEW j \in Jobs, ScheduleStep(j) \/ AptStep(j) PROVE Frame'
  BY <1>4, ClaimKeeps, CleanKeeps, HookStepKeeps DEF ScheduleStep
<1>5. ASSUME UNCHANGED vars PROVE Frame'
  BY <1>5 DEF vars, Frame, TypeOK, StoreType, OneOperation, JobsFit, HookHasRecord, OneHook,
              BoundaryHasOneOwner, Fits
<1> QED
  BY <1>1, <1>2, <1>3, <1>4, <1>5, DieKeeps, SetPinnedKeeps, RecordEnds, LosePowerKeeps
     DEF Next, JobStep

\* Who holds what, for any number of deployments, jobs and faults: locks, records and
\* lineage fit the steps the jobs are at (operations.rs, package_hook.rs).
THEOREM FrameHolds == Spec => []Frame
BY InitFrame, NextFrame, PTL DEF Spec

\* Type correctness of the recovery store and the jobs.
THEOREM StoreTypeCorrect == Spec => []TypeOK
<1>1. Frame => TypeOK
  BY DEF Frame
<1> QED
  BY <1>1, FrameHolds, PTL

\* A rollback and a package transaction never own the recovery boundary together.
THEOREM BoundaryNeverShared == Spec => []BoundaryHasOneOwner
<1>1. Frame => BoundaryHasOneOwner
  BY DEF Frame
<1> QED
  BY <1>1, FrameHolds, PTL

-----------------------------------------------------------------------------
(***************************************************************************)
(* What can be restored: the layer of the invariant that rests on Frame.   *)
(***************************************************************************)

(***************************************************************************)
(* What the records, the snapshots and the lineage owe one another.        *)
(***************************************************************************)
LEMMA StepNames ==
  /\ Making \subseteq OperationSteps /\ Removing \subseteq OperationSteps
  /\ "mark" \in OperationSteps /\ {"commit", "snapshot", "capture"} \subseteq Making
  /\ {"idle", "lock", "await_start", "claim", "clean", "skip_pre", "record_pre", "record_post",
      "interrupt", "check", "record"} \cap (Making \cup Removing \cup {"mark"}) = {}
  /\ OperationSteps \subseteq Steps
BY DEF Making, Removing, OperationSteps, CreateSteps, DeleteSteps, Steps

\* What a step may write into the lineage of a deployment it does not work on.
LineageStays(k) ==
  lineage' # None => \/ lineage # None /\ lineage'[k] = lineage[k]
                     \/ lineage'[k] = "unknown"
                     \/ lineage'[k] = "available" /\ rec[k] # None

LEMMA EnsuredStays ==
  ASSUME lineage' \in {lineage, Ensured}
  PROVE  \A k \in Ids : LineageStays(k)
<1>1. \A k \in Ids : Migrated[k] = "unknown" \/ (Migrated[k] = "available" /\ rec[k] # None)
  BY DEF Migrated, Discovered, Known
<1> QED
  BY <1>1 DEF LineageStays, Ensured

LEMMA SoundStays ==
  ASSUME NEW k \in Ids, Sound(k), rec'[k] = rec[k], k \in view' <=> k \in view,
         disk' \in {disk, view, view'}, used \subseteq used', LineageStays(k)
  PROVE  Sound(k)'
BY DEF Sound, LineageStays

(***************************************************************************)
(* What can be restored.                                                   *)
(***************************************************************************)
LEMMA RestorableMeans ==
  /\ \A i : i \in Restorable <=>
       i \in Ids /\ rec[i] # None /\ rec[i].state = "Ready" /\ (rec[i].uuid => i \in view)
  /\ StoreSound => \A i \in Restorable : i \in view /\ i \in disk /\ i \in used
<1>1. \A i : i \in Restorable <=>
        i \in Ids /\ rec[i] # None /\ rec[i].state = "Ready" /\ (rec[i].uuid => i \in view)
  BY DEF Restorable, Discovered, Known, Issues
<1> QED
  BY <1>1 DEF StoreSound, Sound

\* What a step takes away is what the job that takes it works on.
Loses == Making \cup {"mark"}
LostBy(j) == \A i \in Restorable \ Restorable' : job[j].at \in Loses /\ i = job[j].id

\* The part of the invariant that one job's step keeps, and what it takes away; the
\* other jobs stay where they are.
StepSound(j) ==
  /\ StoreSound' /\ FloorKept' /\ LostBy(j)
  /\ \A k \in Jobs \ {j} : job'[k] = job[k]

\* A deletion that retention is about to do leaves something.
LeavesOne(v) ==
  v.at = "mark" /\ v.kind = "DeleteAutomatic" /\ v.id \in Restorable =>
    \E i \in Restorable : i # v.id

\* A step of one job. It touches the deployments T.
LEMMA SoundStep ==
  ASSUME Frame, StoreSound, FloorKept, NEW j \in Jobs, NEW v, job' = [job EXCEPT ![j] = v],
         job[j].at \in OperationSteps \/ UNCHANGED <<rec, view, disk>>,
         NEW T \in SUBSET Ids,
         \A k \in Ids \ T : rec'[k] = rec[k] /\ (k \in view' <=> k \in view) /\ LineageStays(k),
         disk' \in {disk, view, view'}, used \subseteq used',
         \A k \in T : Sound(k)',
         \A k \in T : k \in Restorable => job[j].at \in Loses /\ k = job[j].id,
         Works(j)', LeavesOne(v)'
  PROVE  StepSound(j)
<1>1. ASSUME NEW k \in Ids PROVE Sound(k)'
  BY SoundStays DEF StoreSound
<1>2. ASSUME NEW k \in Jobs \ {j}
      PROVE  /\ job'[k] = job[k]
             /\ job[k].at \in OperationSteps => UNCHANGED <<rec, view, disk>>
  BY Given DEF Frame, OneOperation
<1>3. ASSUME NEW k \in Jobs \ {j} PROVE Works(k)'
  <2>1. CASE job[k].at \in OperationSteps
    BY <1>2, <2>1 DEF Works, StoreSound
  <2>2. CASE job[k].at \notin OperationSteps
    BY <1>2, <2>2, StepNames DEF Works
  <2> QED
    BY <2>1, <2>2
<1>4. FloorKept'
  <2>1. job'[j] = v
    BY Given
  <2>2. ASSUME NEW k \in Jobs \ {j}, job[k].at = "mark" PROVE Restorable' = Restorable
    BY <1>2, <2>2, StepNames DEF Restorable, Discovered, Known, Issues
  <2> QED
    BY <1>2, <2>1, <2>2 DEF FloorKept, LeavesOne
<1>5. LostBy(j)
  <2> SUFFICES ASSUME NEW i \in Restorable, i \notin Restorable'
               PROVE  i \in T
    BY DEF LostBy
  <2>1. i \in Ids /\ (i \notin T => rec'[i] = rec[i] /\ (i \in view' <=> i \in view))
    BY RestorableMeans
  <2>2. i \in Restorable' <=>
          /\ i \in Ids /\ rec'[i] # None /\ rec'[i].state = "Ready"
          /\ rec'[i].uuid => i \in view'
    BY DEF Restorable, Discovered, Known, Issues
  <2> QED
    BY <2>1, <2>2, RestorableMeans
<1> QED
  BY <1>1, <1>2, <1>3, <1>4, <1>5 DEF StoreSound, StepSound

\* The job has gone on to a step, and this is what the step expects.
Expected(at, i, r, w, d) ==
  /\ at \in {"snapshot", "capture", "commit"} => r[i].state = "Creating"
  /\ at = "commit" => (i \in w => i \in d)
  /\ at \in Making \cup {"mark"} => r[i].state # "Deleting"
  /\ at \in Removing => r[i].state = "Deleting"

LEMMA WorksAfter ==
  ASSUME Frame, NEW j \in Jobs, NEW at \in Steps, Goto(j, at),
         Expected(at, job[j].id, rec', view', disk')
  PROVE  /\ job' = [job EXCEPT ![j] = After(j, at)] /\ job'[j] = After(j, at)
         /\ job'[j].at = at
         /\ Works(j)'
<1>1. job \in [Jobs -> JobType]
  BY Given
<1>2. job' = [job EXCEPT ![j] = After(j, at)] /\ job'[j] = After(j, at)
  BY <1>1, GotoAfter
<1>3. job'[j].at = at /\ (at # "idle" => job'[j].id = job[j].id)
  BY <1>1, <1>2, AfterType
<1> QED
  BY <1>2, <1>3, StepNames DEF Works, Expected

\* A step that goes on and touches at most the job's own deployment.
LEMMA OwnSound ==
  ASSUME Frame, StoreSound, FloorKept, NEW j \in Jobs, NEW at \in Steps, Goto(j, at),
         NEW i \in Ids, i = job[j].id,
         job[j].at \in Loses \/ (job[j].at \in OperationSteps /\ i \notin Restorable),
         \A k \in Ids \ {i} :
           rec'[k] = rec[k] /\ (k \in view' <=> k \in view) /\ LineageStays(k),
         disk' \in {disk, view, view'}, used' = used, at # "mark",
         Sound(i)', Expected(at, i, rec', view', disk')
  PROVE  StepSound(j)
<1>1. job[j].at \in OperationSteps
  BY StepNames DEF Loses
<1>2. job' = [job EXCEPT ![j] = After(j, at)] /\ job'[j].at = at /\ Works(j)'
      /\ job'[j] = After(j, at)
  BY WorksAfter
<1>3. PICK v : v = After(j, at)
  OBVIOUS
<1>4. job' = [job EXCEPT ![j] = v] /\ used \subseteq used' /\ {i} \in SUBSET Ids
  BY <1>2, <1>3
<1>5. \A k \in {i} : Sound(k)' /\ (k \in Restorable => job[j].at \in Loses /\ k = job[j].id)
  OBVIOUS
<1>6. LeavesOne(v)'
  BY <1>2, <1>3 DEF LeavesOne
<1> QED
  BY <1>1, <1>2, <1>4, <1>5, <1>6, SoundStep

\* A step that writes nothing of the store, but perhaps its lineage.
LEMMA QuietSound ==
  ASSUME Frame, StoreSound, FloorKept, NEW j \in Jobs, NEW v, job' = [job EXCEPT ![j] = v],
         v.at \notin Making \cup Removing \cup {"mark"},
         UNCHANGED <<rec, view, disk, used>>, \A k \in Ids : LineageStays(k)
  PROVE  StepSound(j)
<1>1. job'[j] = v
  BY Given
<1>2. Works(j)' /\ LeavesOne(v)'
  BY <1>1, StepNames DEF Works, LeavesOne
<1>3. disk' \in {disk, view, view'} /\ used \subseteq used' /\ {} \in SUBSET Ids
  OBVIOUS
<1> QED
  BY <1>2, <1>3, SoundStep

LEMMA QuietGoes ==
  ASSUME Frame, StoreSound, FloorKept, NEW j \in Jobs, NEW at \in Steps, Goto(j, at),
         at \notin Making \cup Removing \cup {"mark"},
         UNCHANGED <<rec, view, disk, used>>, lineage' \in {lineage, Ensured}
  PROVE  StepSound(j)
<1>1. PICK v : v = After(j, at)
  OBVIOUS
<1>2. job' = [job EXCEPT ![j] = v] /\ v.at = at
  BY <1>1, Given, GotoAfter, AfterType
<1> QED
  BY <1>2, QuietSound, EnsuredStays

(***************************************************************************)
(* Creation.                                                               *)
(***************************************************************************)
LEMMA CreateLockSound ==
  ASSUME Frame, StoreSound, FloorKept, NEW j \in Jobs, CreateLock(j)
  PROVE  StepSound(j)
<1>1. PICK at \in {"record", "idle", "interrupt"} :
        Goto(j, at) /\ lineage' \in {lineage, Ensured}
  BY DEF CreateLock, WriteLineage, Returns, Errs, Failed
<1>2. UNCHANGED <<rec, view, disk, used>>
  BY DEF CreateLock, OnlyLineage
<1>3. at \in Steps /\ at \notin Making \cup Removing \cup {"mark"}
  BY StepNames DEF Steps, CreateSteps
<1> QED
  BY <1>1, <1>2, <1>3, QuietGoes

LEMMA CreateRecordSound ==
  ASSUME Frame, StoreSound, FloorKept, NEW j \in Jobs, CreateRecord(j)
  PROVE  StepSound(j)
<1>1. PICK i \in Ids \ used, pinned \in BOOLEAN :
        LET created == [rec EXCEPT ![i] = Creating(pinned)] IN
        /\ used' = used \cup {i}
        /\ \/ /\ rec' = created
              /\ job' = [job EXCEPT ![j] = NewJob("snapshot", job[j].kind, i, job[j].target)]
           \/ rec' \in {rec, created} /\ Goto(j, Failed(job[j].kind))
  BY DEF CreateRecord, Errs
<1>2. job[j].at = "record" /\ UNCHANGED <<view, disk, lineage>>
  BY DEF CreateRecord
<1>3. rec[i] = None /\ (lineage # None => lineage[i] = "unknown")
  BY <1>1 DEF StoreSound, Sound
<1>4. /\ \A k \in Ids \ {i} : rec'[k] = rec[k]
      /\ rec'[i] \in {None, Creating(pinned)}
  BY <1>1, <1>3, Given DEF StoreType
<1>5. Sound(i)'
  BY <1>1, <1>2, <1>3, <1>4, StoreNone DEF Sound, Creating
<1>6. \A k \in Ids : LineageStays(k)
  BY <1>2 DEF LineageStays
<1>7. job[j].at \in OperationSteps /\ i \notin Restorable
  BY <1>2, <1>3, RestorableMeans DEF OperationSteps, CreateSteps
<1>8. PICK v :
        /\ job' = [job EXCEPT ![j] = v]
        /\ \/ v.at = "snapshot" /\ v.id = i /\ rec'[i] = Creating(pinned)
           \/ v.at \in {"idle", "interrupt"}
  <2>1. CASE /\ rec' = [rec EXCEPT ![i] = Creating(pinned)]
             /\ job' = [job EXCEPT ![j] = NewJob("snapshot", job[j].kind, i, job[j].target)]
    <3>1. rec'[i] = Creating(pinned)
      BY <2>1, Given DEF StoreType
    <3>2. PICK v : v = NewJob("snapshot", job[j].kind, i, job[j].target)
      OBVIOUS
    <3>3. v.at = "snapshot" /\ v.id = i
      BY <3>2 DEF NewJob
    <3> QED
      BY <2>1, <3>1, <3>2, <3>3
  <2>2. CASE Goto(j, Failed(job[j].kind))
    <3>1. PICK at \in {"idle", "interrupt"} : Goto(j, at)
      BY <2>2 DEF Failed
    <3>2. at \in Steps
      BY DEF Steps
    <3>3. PICK v : v = After(j, at)
      OBVIOUS
    <3> QED
      BY <3>1, <3>2, <3>3, Given, GotoAfter, AfterType
  <2> QED
    BY <1>1, <2>1, <2>2
<1>9. job'[j] = v
  BY <1>8, Given
<1>10. Works(j)' /\ LeavesOne(v)'
  BY <1>8, <1>9, StepNames DEF Works, LeavesOne, Creating, Removing
<1>11. {i} \in SUBSET Ids /\ used \subseteq used' /\ disk' \in {disk, view, view'}
  BY <1>1, <1>2
<1> QED
  BY <1>2, <1>4, <1>5, <1>6, <1>7, <1>8, <1>10, <1>11, SoundStep

\* What a job that makes a deployment or deletes it knows of it.
LEMMA OwnDeployment ==
  ASSUME Frame, StoreSound, NEW j \in Jobs, job[j].at \in OperationSteps \ {"record"}
  PROVE  /\ job[j].id \in Ids /\ Sound(job[j].id) /\ Works(j)
         /\ rec[job[j].id] \in Record /\ rec[job[j].id] # None
         /\ lineage # None => lineage \in Lineage
         /\ job[j].at \in CreateSteps => lineage # None
BY Given DEF Fits, StoreSound, StoreType

LEMMA TakeSnapshotSound ==
  ASSUME Frame, StoreSound, FloorKept, NEW j \in Jobs, TakeSnapshot(j)
  PROVE  StepSound(j)
<1>1. PICK at \in {"capture", "cleanup"} :
        Goto(j, at) /\ view' \in {view, view \cup {job[j].id}}
  BY DEF TakeSnapshot, Returns, Errs
<1>2. job[j].at = "snapshot" /\ UNCHANGED <<rec, disk, lineage, used>>
  BY DEF TakeSnapshot, OnlySnapshots
<1>3. job[j].at \in Loses /\ job[j].at \in OperationSteps \ {"record"}
  BY <1>2 DEF Loses, Making, OperationSteps, CreateSteps
<1>4. PICK i \in Ids : i = job[j].id
  BY <1>3, OwnDeployment
<1>5. Sound(i) /\ rec[i].state = "Creating"
  BY <1>2, <1>3, <1>4, OwnDeployment DEF Works, StoreSound
<1>6. Sound(i)' /\ Expected(at, i, rec', view', disk')
  BY <1>2, <1>5, StepNames DEF Sound, Expected, Removing
<1>7. \A k \in Ids \ {i} :
        rec'[k] = rec[k] /\ (k \in view' <=> k \in view) /\ LineageStays(k)
  BY <1>1, <1>2, <1>4 DEF LineageStays
<1>8. at \in Steps /\ at # "mark"
  BY DEF Steps, CreateSteps
<1> QED
  BY <1>1, <1>2, <1>3, <1>4, <1>6, <1>7, <1>8, OwnSound

LEMMA CaptureSound ==
  ASSUME Frame, StoreSound, FloorKept, NEW j \in Jobs, Capture(j)
  PROVE  StepSound(j)
<1>1. PICK at \in {"commit", "cleanup"} :
        Goto(j, at) /\ disk' \in {disk, view} /\ (at = "commit" => disk' = view)
  BY DEF Capture, Returns, Errs
<1>2. job[j].at = "capture" /\ UNCHANGED <<rec, view, lineage, used>>
  BY DEF Capture, OnlySnapshots
<1>3. job[j].at \in Loses /\ job[j].at \in OperationSteps \ {"record"}
  BY <1>2 DEF Loses, Making, OperationSteps, CreateSteps
<1>4. PICK i \in Ids : i = job[j].id
  BY <1>3, OwnDeployment
<1>5. Sound(i) /\ rec[i].state = "Creating"
  BY <1>2, <1>3, <1>4, OwnDeployment DEF Works, StoreSound
<1>6. Sound(i)' /\ Expected(at, i, rec', view', disk')
  BY <1>1, <1>2, <1>5 DEF Sound, Expected, Removing
<1>7. \A k \in Ids \ {i} :
        rec'[k] = rec[k] /\ (k \in view' <=> k \in view) /\ LineageStays(k)
  BY <1>2 DEF LineageStays
<1>8. at \in Steps /\ at # "mark"
  BY DEF Steps, CreateSteps
<1> QED
  BY <1>1, <1>2, <1>3, <1>4, <1>6, <1>7, <1>8, OwnSound

\* A write of the record of the job's own deployment.
LEMMA RecordStays ==
  ASSUME StoreType, NEW i \in Ids, NEW r \in Record, rec' \in {rec, [rec EXCEPT ![i] = r]},
         lineage' = lineage
  PROVE  /\ \A k \in Ids \ {i} : rec'[k] = rec[k]
         /\ rec'[i] \in {rec[i], r} /\ (rec' = [rec EXCEPT ![i] = r] => rec'[i] = r)
         /\ \A k \in Ids : LineageStays(k)
BY DEF LineageStays, StoreType

LEMMA CommitSound ==
  ASSUME Frame, StoreSound, FloorKept, NEW j \in Jobs, Commit(j)
  PROVE  StepSound(j)
<1>1. job[j].at = "commit" /\ UNCHANGED <<view, disk, lineage, used>>
  BY DEF Commit, OnlyRecords
<1>2. job[j].at \in Loses /\ job[j].at \in OperationSteps \ {"record"}
  BY <1>1 DEF Loses, Making, OperationSteps, CreateSteps
<1>3. PICK i \in Ids : i = job[j].id
  BY <1>2, OwnDeployment
<1>4. Sound(i) /\ rec[i].state = "Creating" /\ (i \in view => i \in disk) /\ rec[i] \in Record
      /\ rec[i] # None
  BY <1>1, <1>2, <1>3, OwnDeployment DEF Works, StoreSound
<1>5. PICK r \in Record : r = [rec[i] EXCEPT !.state = "Ready", !.uuid = TRUE]
  BY <1>4 DEF Record, States
<1>6. r.state = "Ready" /\ r.uuid
  BY <1>4, <1>5 DEF Record
<1>7. PICK at \in {"list", "cleanup"} : Goto(j, at) /\ rec' \in {rec, [rec EXCEPT ![i] = r]}
  BY <1>3, <1>5 DEF Commit, WriteRecord, Returns, Errs
<1>8. /\ \A k \in Ids \ {i} : rec'[k] = rec[k]
      /\ rec'[i] \in {rec[i], r} /\ \A k \in Ids : LineageStays(k)
  BY <1>1, <1>7, Given, RecordStays
<1>9. Sound(i)'
  BY <1>1, <1>4, <1>6, <1>8 DEF Sound
<1>10. Expected(at, i, rec', view', disk')
  BY <1>4, <1>6, <1>8, StepNames DEF Expected, Removing
<1>11. at \in Steps /\ at # "mark"
  BY DEF Steps, CreateSteps
<1> QED
  BY <1>1, <1>2, <1>3, <1>7, <1>8, <1>9, <1>10, <1>11, OwnSound

LEMMA ListSnapshotSound ==
  ASSUME Frame, StoreSound, FloorKept, NEW j \in Jobs, ListSnapshot(j)
  PROVE  StepSound(j)
<1>1. job[j].at = "list" /\ UNCHANGED <<rec, view, disk, used>>
  BY DEF ListSnapshot, OnlyLineage
<1>2. /\ job[j].at \in Loses /\ job[j].at \in OperationSteps \ {"record"}
      /\ job[j].at \in CreateSteps /\ job[j].at \in Making
  BY <1>1 DEF Loses, Making, OperationSteps, CreateSteps
<1>3. PICK i \in Ids : i = job[j].id
  BY <1>2, OwnDeployment
<1>4. /\ Sound(i) /\ rec[i].state # "Deleting" /\ rec[i] # None
      /\ lineage \in Lineage /\ lineage # None
  BY <1>2, <1>3, OwnDeployment DEF Works, StoreSound
<1>5. PICK at \in {"claim", "record_pre", "record_post", "idle", "cleanup"} :
        /\ Goto(j, at)
        /\ lineage' \in {lineage, [lineage EXCEPT ![i] = IF @ = "unknown" THEN "available" ELSE @]}
  BY <1>3 DEF ListSnapshot, WriteLineage, Returns, Errs, Created
<1>6. /\ \A k \in Ids \ {i} : lineage'[k] = lineage[k]
      /\ lineage'[i] \in {lineage[i], "available"}
  BY <1>4, <1>5 DEF Lineage
<1>7. Sound(i)'
  BY <1>1, <1>4, <1>6 DEF Sound
<1>8. Expected(at, i, rec', view', disk')
  BY <1>1, <1>4, StepNames DEF Expected, Removing
<1>9. \A k \in Ids \ {i} :
        rec'[k] = rec[k] /\ (k \in view' <=> k \in view) /\ LineageStays(k)
  BY <1>1, <1>4, <1>6 DEF LineageStays
<1>10. at \in Steps /\ at # "mark"
  BY DEF Steps, CreateSteps
<1> QED
  BY <1>1, <1>2, <1>3, <1>5, <1>7, <1>8, <1>9, <1>10, OwnSound

LEMMA CleanupSound ==
  ASSUME Frame, StoreSound, FloorKept, NEW j \in Jobs, CleanupSnapshot(j)
  PROVE  StepSound(j)
<1>1. job[j].at = "cleanup" /\ UNCHANGED <<rec, lineage, used>>
  BY DEF CleanupSnapshot, OnlySnapshots
<1>2. /\ job[j].at \in Loses /\ job[j].at \in OperationSteps \ {"record"}
      /\ job[j].at \in Making
  BY <1>1 DEF Loses, Making, OperationSteps, CreateSteps
<1>3. PICK i \in Ids : i = job[j].id
  BY <1>2, OwnDeployment
<1>4. Sound(i) /\ rec[i].state # "Deleting"
  BY <1>2, <1>3, OwnDeployment DEF Works, StoreSound
<1>5. Goto(j, "fail") /\ view' \in {view, view \ {i}} /\ disk' \in {disk, view'}
  BY <1>3 DEF CleanupSnapshot, DeleteSnapshot, Returns, Errs
<1>6. Sound(i)'
  BY <1>1, <1>4, <1>5 DEF Sound
<1>7. Expected("fail", i, rec', view', disk')
  BY <1>1, <1>4 DEF Expected, Removing
<1>8. \A k \in Ids \ {i} :
        rec'[k] = rec[k] /\ (k \in view' <=> k \in view) /\ LineageStays(k)
  BY <1>1, <1>5 DEF LineageStays
<1>9. "fail" \in Steps
  BY DEF Steps, CreateSteps
<1> QED
  BY <1>1, <1>2, <1>3, <1>5, <1>6, <1>7, <1>8, <1>9, OwnSound

LEMMA MarkIncompleteSound ==
  ASSUME Frame, StoreSound, FloorKept, NEW j \in Jobs, MarkIncomplete(j)
  PROVE  StepSound(j)
<1>1. job[j].at = "fail" /\ UNCHANGED <<view, disk, lineage, used>>
  BY DEF MarkIncomplete, OnlyRecords
<1>2. /\ job[j].at \in Loses /\ job[j].at \in OperationSteps \ {"record"}
      /\ job[j].at \in Making
  BY <1>1 DEF Loses, Making, OperationSteps, CreateSteps
<1>3. PICK i \in Ids : i = job[j].id
  BY <1>2, OwnDeployment
<1>4. Sound(i) /\ rec[i].state # "Deleting" /\ rec[i] # None /\ rec[i] \in Record
  BY <1>2, <1>3, OwnDeployment DEF Works, StoreSound
<1>5. PICK r \in Record : r = [rec[i] EXCEPT !.state = "Incomplete", !.uuid = FALSE]
  BY <1>4 DEF Record, States
<1>6. r.state = "Incomplete"
  BY <1>4, <1>5 DEF Record
<1>7. PICK at \in {"idle", "interrupt"} : Goto(j, at) /\ rec' \in {rec, [rec EXCEPT ![i] = r]}
  BY <1>3, <1>5 DEF MarkIncomplete, WriteRecord, Returns, Errs, Failed
<1>8. /\ \A k \in Ids \ {i} : rec'[k] = rec[k]
      /\ rec'[i] \in {rec[i], r} /\ \A k \in Ids : LineageStays(k)
  BY <1>1, <1>7, Given, RecordStays
<1>9. Sound(i)'
  BY <1>1, <1>4, <1>6, <1>8 DEF Sound
<1>10. Expected(at, i, rec', view', disk')
  BY StepNames DEF Expected
<1>11. at \in Steps /\ at # "mark"
  BY DEF Steps
<1> QED
  BY <1>1, <1>2, <1>3, <1>7, <1>8, <1>9, <1>10, <1>11, OwnSound

(***************************************************************************)
(* Deletion.                                                               *)
(***************************************************************************)
LEMMA AnotherOne ==
  ASSUME NEW S, NEW x \in S, Cardinality(S) > 1
  PROVE  \E y \in S : y # x
<1> SUFFICES ASSUME \A y \in S : y = x PROVE FALSE
  OBVIOUS
<1>1. S = {x}
  OBVIOUS
<1>2. Cardinality({x}) = 1
  BY FS_Singleton
<1> QED
  BY <1>1, <1>2

LEMMA AcquireStartLockSound ==
  ASSUME Frame, StoreSound, FloorKept, NEW j \in Jobs, AcquireStartLock(j)
  PROVE  StepSound(j)
<1>1. PICK at \in {"check", "idle"} : Goto(j, at)
  BY DEF AcquireStartLock, Returns
<1>2. UNCHANGED <<rec, view, disk, used, lineage>>
  BY DEF AcquireStartLock, OnlyJob, storeVars
<1>3. at \in Steps /\ at \notin Making \cup Removing \cup {"mark"}
  BY StepNames DEF Steps, DeleteSteps
<1> QED
  BY <1>1, <1>2, <1>3, QuietGoes

LEMMA DeleteCheckSound ==
  ASSUME Frame, StoreSound, FloorKept, NEW j \in Jobs, DeleteCheck(j)
  PROVE  StepSound(j)
<1>1. job[j].at = "check" /\ UNCHANGED <<rec, view, disk, used, lineage>>
  BY DEF DeleteCheck, OnlyJob, storeVars
<1>2. job[j].at \in OperationSteps \ {"record"}
  BY <1>1 DEF OperationSteps, DeleteSteps
<1>3. PICK i \in Ids : i = job[j].id
  BY <1>2, OwnDeployment
<1>4. PICK at \in {"idle", "remove_snapshot", "mark"} :
        /\ Goto(j, at)
        /\ at = "remove_snapshot" => rec[i].state = "Deleting"
        /\ at = "mark" => CanDelete(rec[i])
        /\ at = "mark" /\ job[j].kind = "DeleteAutomatic" => FloorAllows(i)
  BY <1>3 DEF DeleteCheck, Returns
<1>5. at \in Steps
  BY DEF Steps, DeleteSteps
<1>6. Expected(at, i, rec', view', disk')
  BY <1>1, <1>4 DEF Expected, Making, CreateSteps, Removing, CanDelete
<1>7. job' = [job EXCEPT ![j] = After(j, at)] /\ Works(j)' /\ job'[j] = After(j, at)
  BY <1>3, <1>4, <1>5, <1>6, WorksAfter
<1>8. PICK v : v = After(j, at)
  OBVIOUS
<1>9. v.at = at /\ (at # "idle" => v.kind = job[j].kind /\ v.id = i)
  BY <1>3, <1>5, <1>8, Given, AfterType
<1>10. Restorable' = Restorable
  BY <1>1 DEF Restorable, Discovered, Known, Issues
<1>11. LeavesOne(v)'
  <2> SUFFICES ASSUME at = "mark", job[j].kind = "DeleteAutomatic", i \in Restorable
               PROVE  \E k \in Restorable : k # i
    BY <1>9, <1>10 DEF LeavesOne
  <2>1. FloorAllows(i) /\ rec[i].state = "Ready"
    BY <1>4, RestorableMeans
  <2> QED
    BY <2>1, AnotherOne DEF FloorAllows
<1>12. \A k \in Ids : LineageStays(k)
  BY <1>1, EnsuredStays
<1>13. {} \in SUBSET Ids /\ disk' \in {disk, view, view'} /\ used \subseteq used'
  BY <1>1
<1>14. job' = [job EXCEPT ![j] = v]
  BY <1>7, <1>8
<1> QED
  BY <1>1, <1>7, <1>11, <1>12, <1>13, <1>14, SoundStep

LEMMA MarkDeletingSound ==
  ASSUME Frame, StoreSound, FloorKept, NEW j \in Jobs, MarkDeleting(j)
  PROVE  StepSound(j)
<1>1. job[j].at = "mark" /\ UNCHANGED <<view, disk, lineage, used>>
  BY DEF MarkDeleting, OnlyRecords
<1>2. job[j].at \in Loses /\ job[j].at \in OperationSteps \ {"record"}
  BY <1>1 DEF Loses, OperationSteps, DeleteSteps
<1>3. PICK i \in Ids : i = job[j].id
  BY <1>2, OwnDeployment
<1>4. Sound(i) /\ rec[i] # None /\ rec[i] \in Record
  BY <1>2, <1>3, OwnDeployment DEF StoreSound
<1>5. PICK r \in Record : r = [rec[i] EXCEPT !.state = "Deleting"]
  BY <1>4 DEF Record, States
<1>6. r.state = "Deleting"
  BY <1>4, <1>5 DEF Record
<1>7. PICK at \in {"remove_snapshot", "idle"} :
        /\ Goto(j, at) /\ rec' \in {rec, [rec EXCEPT ![i] = r]}
        /\ at = "remove_snapshot" => rec' = [rec EXCEPT ![i] = r]
  BY <1>3, <1>5 DEF MarkDeleting, WriteRecord, Returns, Errs
<1>8. /\ \A k \in Ids \ {i} : rec'[k] = rec[k]
      /\ rec'[i] \in {rec[i], r} /\ (at = "remove_snapshot" => rec'[i] = r)
      /\ \A k \in Ids : LineageStays(k)
  BY <1>1, <1>7, Given, RecordStays
<1>9. Sound(i)'
  BY <1>1, <1>4, <1>6, <1>8 DEF Sound
<1>10. Expected(at, i, rec', view', disk')
  BY <1>6, <1>7, <1>8 DEF Expected, Making, CreateSteps, Removing
<1>11. at \in Steps /\ at # "mark"
  BY DEF Steps, DeleteSteps
<1> QED
  BY <1>1, <1>2, <1>3, <1>7, <1>8, <1>9, <1>10, <1>11, OwnSound

\* What a deletion knows once the record says Deleting.
LEMMA OwnDeletion ==
  ASSUME Frame, StoreSound, NEW j \in Jobs, job[j].at \in Removing
  PROVE  /\ job[j].id \in Ids /\ Sound(job[j].id) /\ rec[job[j].id].state = "Deleting"
         /\ rec[job[j].id] # None /\ job[j].at \in OperationSteps
         /\ job[j].id \notin Restorable
<1>1. job[j].at \in OperationSteps \ {"record"}
  BY StepNames
<1>2. rec[job[j].id].state = "Deleting"
  BY <1>1, OwnDeployment DEF Works
<1> QED
  BY <1>1, <1>2, OwnDeployment, RestorableMeans

LEMMA RemoveSnapshotSound ==
  ASSUME Frame, StoreSound, FloorKept, NEW j \in Jobs, RemoveSnapshot(j)
  PROVE  StepSound(j)
<1>1. job[j].at \in Removing /\ UNCHANGED <<rec, lineage, used>>
  BY DEF RemoveSnapshot, OnlySnapshots, Removing
<1>2. PICK i \in Ids : i = job[j].id
  BY <1>1, OwnDeletion
<1>3. /\ Sound(i) /\ rec[i].state = "Deleting" /\ i \notin Restorable
      /\ job[j].at \in OperationSteps
  BY <1>1, <1>2, OwnDeletion
<1>4. PICK at \in {"unlist", "idle"} :
        /\ Goto(j, at) /\ view' \in {view, view \ {i}} /\ disk' \in {disk, view'}
  BY <1>2 DEF RemoveSnapshot, DeleteSnapshot, Returns, Errs
<1>5. Sound(i)'
  BY <1>1, <1>3, <1>4 DEF Sound
<1>6. Expected(at, i, rec', view', disk')
  BY <1>1, <1>3, <1>4 DEF Expected, Making, CreateSteps
<1>7. \A k \in Ids \ {i} :
        rec'[k] = rec[k] /\ (k \in view' <=> k \in view) /\ LineageStays(k)
  BY <1>1, <1>4 DEF LineageStays
<1>8. at \in Steps /\ at # "mark"
  BY DEF Steps, DeleteSteps
<1> QED
  BY <1>1, <1>2, <1>3, <1>4, <1>5, <1>6, <1>7, <1>8, OwnSound

LEMMA UnlistSound ==
  ASSUME Frame, StoreSound, FloorKept, NEW j \in Jobs, Unlist(j)
  PROVE  StepSound(j)
<1>1. job[j].at \in Removing /\ UNCHANGED <<rec, view, disk, used>>
  BY DEF Unlist, OnlyLineage, Removing
<1>2. PICK i \in Ids : i = job[j].id
  BY <1>1, OwnDeletion
<1>3. /\ Sound(i) /\ rec[i].state = "Deleting" /\ i \notin Restorable /\ rec[i] # None
      /\ job[j].at \in OperationSteps
  BY <1>1, <1>2, OwnDeletion
<1>4. PICK at \in {"idle", "remove_record"} :
        /\ Goto(j, at)
        /\ lineage' \in {lineage, Ensured, [Ensured EXCEPT ![i] = "removed"]}
  BY <1>2 DEF Unlist, WriteLineage, Returns, Errs
<1>5. \A k \in Ids \ {i} : LineageStays(k)
  <2>1. CASE lineage' \in {lineage, Ensured}
    BY <2>1, EnsuredStays
  <2>2. CASE lineage' = [Ensured EXCEPT ![i] = "removed"]
    <3>1. \A k \in Ids \ {i} : lineage'[k] = Ensured[k]
      BY <2>2, Given, EnsuredType DEF Lineage
    <3>2. \A k \in Ids :
            Migrated[k] = "unknown" \/ (Migrated[k] = "available" /\ rec[k] # None)
      BY DEF Migrated, Discovered, Known
    <3> QED
      BY <3>1, <3>2 DEF LineageStays, Ensured
  <2> QED
    BY <1>4, <2>1, <2>2
<1>6. Sound(i)'
  BY <1>1, <1>3 DEF Sound
<1>7. Expected(at, i, rec', view', disk')
  BY <1>1, <1>3, <1>4 DEF Expected, Making, CreateSteps
<1>8. at \in Steps /\ at # "mark"
  BY DEF Steps, DeleteSteps
<1> QED
  BY <1>1, <1>2, <1>3, <1>4, <1>5, <1>6, <1>7, <1>8, OwnSound

LEMMA RemoveRecordSound ==
  ASSUME Frame, StoreSound, FloorKept, NEW j \in Jobs, RemoveRecord(j)
  PROVE  StepSound(j)
<1>1. job[j].at \in Removing /\ UNCHANGED <<view, lineage, used>>
  BY DEF RemoveRecord, Removing
<1>2. PICK i \in Ids : i = job[j].id
  BY <1>1, OwnDeletion
<1>3. /\ Sound(i) /\ rec[i].state = "Deleting" /\ i \notin Restorable /\ rec[i] # None
      /\ job[j].at \in OperationSteps
  BY <1>1, <1>2, OwnDeletion
<1>4. Goto(j, "idle") /\ rec' \in {rec, [rec EXCEPT ![i] = None]} /\ disk' \in {disk, view}
  BY <1>2 DEF RemoveRecord, Returns, Errs
<1>5. /\ \A k \in Ids \ {i} : rec'[k] = rec[k]
      /\ rec'[i] \in {rec[i], None}
  BY <1>4, Given DEF StoreType
<1>6. Sound(i)'
  BY <1>1, <1>3, <1>5 DEF Sound
<1>7. Expected("idle", i, rec', view', disk')
  BY StepNames DEF Expected
<1>8. \A k \in Ids \ {i} :
        rec'[k] = rec[k] /\ (k \in view' <=> k \in view) /\ LineageStays(k)
  BY <1>1, <1>5 DEF LineageStays
<1>9. "idle" \in Steps
  BY DEF Steps
<1> QED
  BY <1>1, <1>2, <1>3, <1>4, <1>6, <1>7, <1>8, <1>9, OwnSound

(***************************************************************************)
(* Steps that leave the records and the snapshots alone.                   *)
(***************************************************************************)
\* A job begins.
LEMMA StartSound ==
  ASSUME Frame, StoreSound, FloorKept, NEW j \in Jobs, NEW at, NEW kind, NEW i, NEW target,
         job' = [job EXCEPT ![j] = NewJob(at, kind, i, target)],
         at \notin Making \cup Removing \cup {"mark"}, UNCHANGED storeVars
  PROVE  StepSound(j)
<1>1. PICK v : v = NewJob(at, kind, i, target)
  OBVIOUS
<1>2. v.at = at
  BY <1>1 DEF NewJob
<1>3. UNCHANGED <<rec, view, disk, used>> /\ \A k \in Ids : LineageStays(k)
  BY EnsuredStays DEF storeVars
<1> QED
  BY <1>1, <1>2, <1>3, QuietSound

\* A job ends, or goes on in a transaction.
LEMMA AsideSound ==
  ASSUME Frame, StoreSound, FloorKept, NEW j \in Jobs, UNCHANGED storeVars,
         \E at \in {"idle", "clean"} : Goto(j, at)
  PROVE  StepSound(j)
<1>1. PICK at \in {"idle", "clean"} : Goto(j, at)
  OBVIOUS
<1>2. at \in Steps /\ at \notin Making \cup Removing \cup {"mark"}
  BY StepNames DEF Steps
<1>3. UNCHANGED <<rec, view, disk, used>> /\ lineage' \in {lineage, Ensured}
  BY DEF storeVars
<1> QED
  BY <1>1, <1>2, <1>3, QuietGoes

LEMMA BeginSound ==
  ASSUME Frame, StoreSound, FloorKept, NEW j \in Jobs, Begin(j)
  PROVE  StepSound(j)
<1>1. UNCHANGED storeVars
  BY DEF Begin, Create, Delete, Schedule, AptBefore, AptAfter, AptAfterDisabled, OnlyJob,
         OnlyPackage
<1>2. {"lock", "await_start", "skip_pre", "interrupt"}
        \cap (Making \cup Removing \cup {"mark"}) = {}
  BY StepNames
<1>3. ASSUME NEW kind \in {"Manual", "Automatic"}, Create(j, kind) PROVE StepSound(j)
  BY <1>1, <1>2, <1>3, StartSound DEF Create
<1>4. ASSUME NEW i \in Ids, NEW kind \in {"Delete", "DeleteAutomatic"}, Delete(j, i, kind)
      PROVE  StepSound(j)
  BY <1>1, <1>2, <1>4, StartSound DEF Delete
<1>5. ASSUME NEW i \in Ids, Schedule(j, i) PROVE StepSound(j)
  BY <1>1, <1>2, <1>5, StartSound DEF Schedule
<1>6. CASE AptBefore(j)
  <2>1. CASE \E at \in {"lock", "skip_pre"} :
               job' = [job EXCEPT ![j] = NewJob(at, "AptPre", None, None)]
    BY <1>1, <1>2, <2>1, StartSound
  <2>2. CASE Goto(j, "idle")
    BY <1>1, <2>2, AsideSound
  <2> QED
    BY <1>6, <2>1, <2>2 DEF AptBefore, Errs
<1>7. CASE AptAfter(j)
  <2>1. PICK at \in {"lock", "interrupt"} :
          job' = [job EXCEPT ![j] = NewJob(at, "AptPost", None, None)]
    BY <1>7 DEF AptAfter
  <2> QED
    BY <1>1, <1>2, <2>1, StartSound
<1>8. CASE AptAfterDisabled(j)
  <2>1. Goto(j, "idle")
    BY <1>8 DEF AptAfterDisabled, Archive, WritePackage, Returns, Errs
  <2> QED
    BY <1>1, <2>1, AsideSound
<1> QED
  BY <1>3, <1>4, <1>5, <1>6, <1>7, <1>8 DEF Begin

LEMMA TransactionSound ==
  ASSUME Frame, StoreSound, FloorKept, NEW j \in Jobs,
         ScheduleStep(j) \/ AptStep(j) \/ Die(j)
  PROVE  StepSound(j)
<1>1. UNCHANGED storeVars
  BY DEF ScheduleStep, AptStep, Die, Claim, Clean, SkipPre, RecordPre, RecordPost, Interrupt,
         OnlyJob, OnlyPackage, OnlyRollback
<1>2. \E at \in {"idle", "clean"} : Goto(j, at)
  BY DEF ScheduleStep, AptStep, Die, Claim, Clean, SkipPre, RecordPre, RecordPost, Interrupt,
         Archive, WritePackage, WriteRollback, Returns, Errs
<1> QED
  BY <1>1, <1>2, AsideSound

LEMMA JobSound ==
  ASSUME Frame, StoreSound, FloorKept, NEW j \in Jobs, Begin(j) \/ JobStep(j) \/ Die(j)
  PROVE  StepSound(j)
<1>1. CASE CreateStep(j)
  BY <1>1, CreateLockSound, CreateRecordSound, TakeSnapshotSound, CaptureSound, CommitSound,
     ListSnapshotSound, CleanupSound, MarkIncompleteSound DEF CreateStep
<1>2. CASE DeleteStep(j)
  BY <1>2, AcquireStartLockSound, DeleteCheckSound, MarkDeletingSound, RemoveSnapshotSound,
     UnlistSound, RemoveRecordSound DEF DeleteStep
<1> QED
  BY <1>1, <1>2, BeginSound, TransactionSound DEF JobStep

\* What a step of the system that is no job's keeps. It takes nothing away.
SystemSound == StoreSound' /\ FloorKept' /\ Restorable \subseteq Restorable'

\* No job is in the middle of an operation.
NobodyOperates == \A j \in Jobs : job[j].at \notin OperationSteps

LEMMA NoneWorks == NobodyOperates => (\A j \in Jobs : Works(j)) /\ FloorKept
BY StepNames DEF NobodyOperates, Works, FloorKept

LEMMA SetPinnedSound ==
  ASSUME Frame, StoreSound, NEW i \in Ids, SetPinned(i)
  PROVE  SystemSound
<1>1. UNCHANGED <<view, disk, lineage, used, job>>
  BY DEF SetPinned
<1>2. /\ \A k \in Ids : rec'[k] = None <=> rec[k] = None
      /\ \A k \in Ids : rec[k] # None => rec'[k].state = rec[k].state /\ rec'[k].uuid = rec[k].uuid
  <2>1. rec \in [Ids -> Record \cup {None}] /\ rec[i] \in Record
    BY DEF Frame, TypeOK, SetPinned, StoreType
  <2>2. PICK r \in Record : r = [rec[i] EXCEPT !.pinned = ~@]
    BY <2>1 DEF Record
  <2>3. rec' = [rec EXCEPT ![i] = r] /\ r.state = rec[i].state /\ r.uuid = rec[i].uuid
    BY <2>1, <2>2 DEF SetPinned, Record
  <2> QED
    BY <2>1, <2>3, StoreNone
<1>3. \A k \in Ids : Sound(k)'
  BY <1>1, <1>2 DEF StoreSound, Sound
<1>4. NobodyOperates'
  BY <1>1 DEF SetPinned, OperationLockFree, OperationSteps, NobodyOperates
<1>5. (\A j \in Jobs : Works(j))' /\ FloorKept'
  BY <1>4, NoneWorks, PTL
<1>6. Restorable \subseteq Restorable'
  BY <1>1, <1>2 DEF Restorable, Discovered, Known, Issues
<1> QED
  BY <1>3, <1>5, <1>6 DEF StoreSound, SystemSound

LEMMA RecordEndsSound ==
  ASSUME Frame, StoreSound, FloorKept, Withdraw \/ Apply \/ Settle \/ UNCHANGED vars
  PROVE  SystemSound
<1>1. /\ UNCHANGED <<rec, view, used, job>> /\ disk' \in {disk, view}
      /\ lineage' \in {lineage, Ensured}
  BY DEF Withdraw, Apply, Settle, storeVars, vars
<1>2. \A k \in Ids : Sound(k)'
  BY <1>1, EnsuredStays, SoundStays DEF StoreSound
<1>3. \A j \in Jobs : Works(j)'
  BY <1>1 DEF StoreSound, Works
<1>4. Restorable' = Restorable
  BY <1>1 DEF Restorable, Discovered, Known, Issues
<1> QED
  BY <1>1, <1>2, <1>3, <1>4 DEF StoreSound, FloorKept, SystemSound

LEMMA LosePowerSound ==
  ASSUME Frame, StoreSound, LosePower
  PROVE  SystemSound
<1>1. /\ UNCHANGED <<rec, lineage, used>> /\ disk' \in {disk, view} /\ view' = disk'
      /\ AllIdle'
  BY DEF LosePower, AllIdle
<1>2. \A k \in Ids : Sound(k)'
  BY <1>1 DEF StoreSound, Sound
<1>3. NobodyOperates'
  BY <1>1 DEF AllIdle, Idle, OperationSteps, CreateSteps, DeleteSteps, NobodyOperates
<1>4. (\A j \in Jobs : Works(j))' /\ FloorKept'
  BY <1>3, NoneWorks, PTL
<1>5. Restorable \subseteq Restorable'
  <2> SUFFICES ASSUME NEW i \in Restorable PROVE i \in Restorable'
    OBVIOUS
  <2>1. i \in Ids /\ rec[i] # None /\ rec[i].state = "Ready" /\ i \in view'
    BY <1>1, RestorableMeans
  <2> QED
    BY <1>1, <2>1 DEF Restorable, Discovered, Known, Issues
<1> QED
  BY <1>2, <1>4, <1>5 DEF StoreSound, SystemSound

(***************************************************************************)
(* What rollbacks name.                                                    *)
(***************************************************************************)
LEMMA NamesStep ==
  ASSUME Frame, NamesApart, NEW j \in Jobs, NEW v, job' = [job EXCEPT ![j] = v],
         used \subseteq used',
         Named' \subseteq Named \cup Wanted(j), Named' \subseteq Named \/ StartLockFree,
         \/ Wanted(j)' \subseteq Wanted(j)
         \/ /\ Wanted(j)' \subseteq used' /\ v.at \notin Making
            /\ \A k \in Jobs \ {j} : job[k].at \notin Making,
         v.at \in Making => (job[j].at \in Making /\ v.id = job[j].id) \/ v.id \notin used,
         v.at = "mark" => v.id \notin Named'
  PROVE  NamesApart'
<1>1. job'[j] = v /\ \A k \in Jobs \ {j} : job'[k] = job[k]
  BY Given
<1>2. \A k \in Jobs \ {j} : Wanted(k)' = Wanted(k)
  BY <1>1 DEF Wanted
<1>3. Named' \subseteq used /\ Named' \subseteq used'
  BY DEF NamesApart
<1>4. ASSUME NEW k \in Jobs PROVE Wanted(k)' \subseteq used'
  BY <1>2 DEF NamesApart
<1>5. ASSUME NEW k \in Jobs, NEW l \in Jobs, job'[k].at \in Making
      PROVE  job'[k].id \notin Named' \cup Wanted(l)'
  <2>1. CASE Wanted(j)' \subseteq Wanted(j)
    <3>1. \A m \in Jobs : Wanted(m)' \subseteq Wanted(m)
      BY <1>2, <2>1
    <3>2. Named' \cup Wanted(l)' \subseteq used
      BY <1>3, <3>1 DEF NamesApart
    <3>3. job[k].at \in Making => job[k].id \notin Named' \cup Wanted(l)'
      BY <3>1 DEF NamesApart
    <3> QED
      BY <1>1, <1>5, <3>2, <3>3
  <2>2. CASE v.at \notin Making /\ \A m \in Jobs \ {j} : job[m].at \notin Making
    BY <1>1, <1>5, <2>2
  <2> QED
    BY <2>1, <2>2
<1>6. ASSUME NEW k \in Jobs, job'[k].at = "mark" PROVE job'[k].id \notin Named'
  BY <1>1, <1>6 DEF NamesApart, StartLockFree, DeleteSteps
<1> QED
  BY <1>3, <1>4, <1>5, <1>6 DEF NamesApart

\* The common case: the job goes on and names nothing new.
LEMMA NamesGo ==
  ASSUME Frame, StoreSound, NamesApart, NEW j \in Jobs, NEW at \in Steps, Goto(j, at),
         UNCHANGED <<used, rollback>>,
         at \in Making => job[j].at \in Making,
         at = "claim" => job[j].at \in Making,
         at = "mark" => job[j].at \in OperationSteps \ {"record"} /\ ~Referenced(job[j].id)
  PROVE  NamesApart'
<1>1. PICK v : v = After(j, at)
  OBVIOUS
<1>2. job' = [job EXCEPT ![j] = v] /\ job'[j] = v /\ v.at = at
  BY <1>1, Given, GotoAfter, AfterType
<1>3. /\ at # "idle" => v.kind = job[j].kind /\ v.id = job[j].id /\ v.target = job[j].target
      /\ at = "idle" => v.kind = None
  BY <1>1, Given, AfterType
<1>4. Named' = Named
  BY DEF Named
<1>5. None # "PreRollback" /\ "claim" # "idle"
  BY StoreNone DEF Kinds, CreateKinds
<1>6. CASE at # "claim"
  <2>1. Wanted(j)' \subseteq Wanted(j)
    BY <1>2, <1>3, <1>5, <1>6 DEF Wanted
  <2>2. at = "mark" => v.id \notin Named'
    BY <1>3, <1>4 DEF Referenced, Named
  <2>3. v.at \in Making => job[j].at \in Making /\ v.id = job[j].id
    BY <1>2, <1>3, StepNames
  <2> QED
    BY <1>2, <1>4, <2>1, <2>2, <2>3, NamesStep
<1>7. CASE at = "claim"
  <2>1. job[j].at \in OperationSteps \ {"record"}
    BY <1>7, StepNames
  <2>2. job[j].id \in used
    BY <2>1, OwnDeployment DEF Sound
  <2>3. Wanted(j)' \subseteq Wanted(j) \cup {job[j].id}
    BY <1>2, <1>3, <1>7 DEF Wanted
  <2>4. Wanted(j)' \subseteq used'
    BY <2>2, <2>3 DEF NamesApart
  <2>5. \A k \in Jobs \ {j} : job[k].at \notin Making
    BY <2>1, StepNames DEF Frame, OneOperation
  <2>6. v.at \notin Making /\ v.at # "mark"
    BY <1>2, <1>7, StepNames
  <2> QED
    BY <1>2, <1>4, <2>4, <2>5, <2>6, NamesStep
<1> QED
  BY <1>6, <1>7

LEMMA CreateNames ==
  ASSUME Frame, StoreSound, NamesApart, NEW j \in Jobs, CreateStep(j)
  PROVE  NamesApart'
<1> USE DEF Returns, Errs, Failed
<1>1. UNCHANGED rollback
  BY DEF CreateStep, CreateLock, CreateRecord, TakeSnapshot, Capture, Commit, ListSnapshot,
         CleanupSnapshot, MarkIncomplete, OnlyRecords, OnlySnapshots, OnlyLineage
<1>2. Making = {"snapshot", "capture", "commit", "list", "cleanup", "fail"}
  BY DEF Making, CreateSteps
<1>3. CASE CreateLock(j)
  <2>1. PICK at \in {"record", "idle", "interrupt"} : Goto(j, at)
    BY <1>3 DEF CreateLock, WriteLineage
  <2>2. at \in Steps /\ UNCHANGED used
    BY <1>3 DEF CreateLock, OnlyLineage, Steps, CreateSteps
  <2> QED
    BY <1>1, <1>2, <2>1, <2>2, NamesGo
<1>4. CASE CreateRecord(j)
  <2>1. PICK i \in Ids \ used :
          /\ used' = used \cup {i}
          /\ \/ job' = [job EXCEPT ![j] = NewJob("snapshot", job[j].kind, i, job[j].target)]
             \/ \E at \in {"idle", "interrupt"} : Goto(j, at)
    BY <1>4 DEF CreateRecord
  <2>2. PICK v :
          /\ job' = [job EXCEPT ![j] = v]
          /\ (v.at = "snapshot" /\ v.id = i) \/ v.at \in {"idle", "interrupt"}
          /\ v.kind = None \/ (v.kind = job[j].kind /\ v.target = job[j].target)
    <3>1. CASE job' = [job EXCEPT ![j] = NewJob("snapshot", job[j].kind, i, job[j].target)]
      <4>1. PICK v : v = NewJob("snapshot", job[j].kind, i, job[j].target)
        OBVIOUS
      <4>2. v.at = "snapshot" /\ v.id = i /\ v.kind = job[j].kind /\ v.target = job[j].target
        BY <4>1 DEF NewJob
      <4> QED
        BY <3>1, <4>1, <4>2
    <3>2. CASE \E at \in {"idle", "interrupt"} : Goto(j, at)
      <4>1. PICK at \in {"idle", "interrupt"} : Goto(j, at)
        BY <3>2
      <4>2. at \in Steps
        BY DEF Steps
      <4>3. PICK v : v = After(j, at)
        OBVIOUS
      <4>4. /\ v.at = at
            /\ at = "idle" => v.kind = None
            /\ at # "idle" => v.kind = job[j].kind /\ v.target = job[j].target
        BY <4>2, <4>3, Given, AfterType
      <4>5. job' = [job EXCEPT ![j] = v]
        BY <4>1, <4>2, <4>3, Given, GotoAfter
      <4> QED
        BY <4>4, <4>5
    <3> QED
      BY <2>1, <3>1, <3>2
  <2>3. job'[j] = v /\ None # "PreRollback"
    BY <2>2, Given, StoreNone DEF Kinds, CreateKinds
  <2>4. Wanted(j)' \subseteq Wanted(j)
    BY <2>2, <2>3 DEF Wanted
  <2>5. Named' = Named
    BY <1>1 DEF Named
  <2>6. v.at \in Making => v.id \notin used
    BY <1>2, <2>1, <2>2
  <2> QED
    BY <2>1, <2>2, <2>4, <2>5, <2>6, NamesStep
<1>5. CASE CreateStep(j) /\ ~CreateLock(j) /\ ~CreateRecord(j)
  <2>1. /\ job[j].at \in Making /\ UNCHANGED used
        /\ \E at \in {"capture", "commit", "list", "cleanup", "fail", "idle", "interrupt",
                      "claim", "record_pre", "record_post"} : Goto(j, at)
    BY <1>2, <1>5
       DEF CreateStep, TakeSnapshot, Capture, Commit, ListSnapshot, CleanupSnapshot,
           MarkIncomplete, OnlyRecords, OnlySnapshots, OnlyLineage, WriteRecord, WriteLineage,
           DeleteSnapshot, Created
  <2>2. PICK at \in {"capture", "commit", "list", "cleanup", "fail", "idle", "interrupt",
                     "claim", "record_pre", "record_post"} : Goto(j, at)
    BY <2>1
  <2>3. at \in Steps /\ at # "mark"
    BY DEF Steps, CreateSteps
  <2> QED
    BY <1>1, <2>1, <2>2, <2>3, NamesGo
<1> QED
  BY <1>3, <1>4, <1>5

LEMMA DeleteNames ==
  ASSUME Frame, StoreSound, NamesApart, NEW j \in Jobs, DeleteStep(j)
  PROVE  NamesApart'
<1> USE DEF Returns, Errs
<1>1. UNCHANGED <<used, rollback>>
  BY DEF DeleteStep, AcquireStartLock, DeleteCheck, MarkDeleting, RemoveSnapshot, Unlist,
         RemoveRecord, OnlyJob, OnlyRecords, OnlySnapshots, OnlyLineage, storeVars
<1>2. Making = {"snapshot", "capture", "commit", "list", "cleanup", "fail"}
  BY DEF Making, CreateSteps
<1>3. PICK at \in {"idle", "check", "mark", "remove_snapshot", "unlist", "remove_record"} :
        Goto(j, at) /\ (at = "mark" => job[j].at = "check" /\ ~Referenced(job[j].id))
  <2>1. CASE DeleteCheck(j)
    <3>1. PICK i : i = job[j].id
      OBVIOUS
    <3>2. PICK at \in {"idle", "remove_snapshot", "mark"} :
            Goto(j, at) /\ (at = "mark" => ~Referenced(i))
      BY <2>1, <3>1 DEF DeleteCheck
    <3> QED
      BY <2>1, <3>1, <3>2 DEF DeleteCheck
  <2>2. CASE DeleteStep(j) /\ ~DeleteCheck(j)
    BY <2>2
       DEF DeleteStep, AcquireStartLock, MarkDeleting, RemoveSnapshot, Unlist, RemoveRecord,
           WriteRecord, WriteLineage, DeleteSnapshot
  <2> QED
    BY <2>1, <2>2
<1>4. at \in Steps /\ "check" \in OperationSteps \ {"record"}
  BY DEF Steps, OperationSteps, DeleteSteps
<1> QED
  BY <1>1, <1>2, <1>3, <1>4, NamesGo

\* A call that starts names only what no job is making.
LEMMA BeginNames ==
  ASSUME Frame, StoreSound, NamesApart, NEW j \in Jobs, Begin(j)
  PROVE  NamesApart'
<1>1. UNCHANGED <<used, rollback>>
  BY DEF Begin, Create, Delete, Schedule, AptBefore, AptAfter, AptAfterDisabled, OnlyJob,
         OnlyPackage, storeVars
<1>2. Named' = Named
  BY <1>1 DEF Named
<1>3. CASE \E at \in {"lock", "await_start", "skip_pre", "interrupt"},
              kind \in {"Manual", "Automatic", "Delete", "DeleteAutomatic", "AptPre", "AptPost"},
              i \in Ids \cup {None} :
             job' = [job EXCEPT ![j] = NewJob(at, kind, i, None)]
  <2>1. PICK at \in {"lock", "await_start", "skip_pre", "interrupt"},
             kind \in {"Manual", "Automatic", "Delete", "DeleteAutomatic", "AptPre", "AptPost"},
             i \in Ids \cup {None} :
               job' = [job EXCEPT ![j] = NewJob(at, kind, i, None)]
    BY <1>3
  <2>2. PICK v : v = NewJob(at, kind, i, None)
    OBVIOUS
  <2>3. job' = [job EXCEPT ![j] = v] /\ job'[j] = v /\ v.at = at /\ v.kind = kind
    BY <2>1, <2>2, Given DEF NewJob
  <2>4. Wanted(j)' \subseteq Wanted(j)
    BY <2>3 DEF Wanted
  <2>5. v.at \notin Making /\ v.at # "mark"
    BY <2>3, StepNames
  <2> QED
    BY <1>1, <1>2, <2>3, <2>4, <2>5, NamesStep
<1>4. ASSUME NEW target \in Ids, Schedule(j, target) PROVE NamesApart'
  <2>1. PICK v : v = NewJob("lock", "PreRollback", None, target)
    OBVIOUS
  <2>2. /\ job' = [job EXCEPT ![j] = v] /\ job'[j] = v
        /\ v.at = "lock" /\ v.kind = "PreRollback" /\ v.target = target
    BY <1>4, <2>1, Given DEF Schedule, NewJob
  <2>3. Wanted(j)' \subseteq used'
    BY <1>1, <1>4, <2>2, RestorableMeans DEF Wanted, Schedule
  <2>4. \A k \in Jobs : job[k].at \notin Making
    BY <1>4 DEF Schedule, OperationLockFree, Making
  <2>5. v.at \notin Making /\ v.at # "mark"
    BY <2>2, StepNames
  <2> QED
    BY <1>1, <1>2, <2>2, <2>3, <2>4, <2>5, NamesStep
<1>5. CASE Goto(j, "idle")
  <2>1. "idle" \in Steps /\ "idle" \notin Making
    BY StepNames DEF Steps
  <2> QED
    BY <1>1, <1>5, <2>1, NamesGo
<1>6. CASE \E kind \in {"Manual", "Automatic"} : Create(j, kind)
  BY <1>3, <1>6 DEF Create
<1>7. CASE \E i \in Ids, kind \in {"Delete", "DeleteAutomatic"} : Delete(j, i, kind)
  BY <1>3, <1>7 DEF Delete
<1>8. CASE AptBefore(j)
  BY <1>3, <1>5, <1>8 DEF AptBefore, Errs
<1>9. CASE AptAfter(j)
  BY <1>3, <1>9 DEF AptAfter
<1>10. CASE AptAfterDisabled(j)
  BY <1>5, <1>10 DEF AptAfterDisabled, Archive, WritePackage, Returns, Errs
<1> QED
  BY <1>4, <1>6, <1>7, <1>8, <1>9, <1>10 DEF Begin

LEMMA ClaimNames ==
  ASSUME Frame, NamesApart, NEW j \in Jobs, ScheduleStep(j)
  PROVE  NamesApart'
<1>1. PICK at \in {"idle", "clean"} : Goto(j, at)
  BY DEF ScheduleStep, Claim, Clean, WriteRollback, Returns, Errs
<1>2. used' = used
  BY DEF ScheduleStep, Claim, Clean, OnlyRollback, storeVars
<1>3. PICK v : v = After(j, at)
  OBVIOUS
<1>4. at \in Steps /\ at \notin Making
  BY StepNames DEF Steps
<1>5. /\ job' = [job EXCEPT ![j] = v] /\ job'[j] = v /\ v.at = at
      /\ v.kind = None \/ (v.kind = job[j].kind /\ v.target = job[j].target)
  BY <1>1, <1>3, <1>4, Given, GotoAfter, AfterType
<1>6. None # "PreRollback"
  BY StoreNone DEF Kinds, CreateKinds
<1>7. Wanted(j)' \subseteq Wanted(j)
  BY <1>5, <1>6 DEF Wanted
<1>8. Named' \subseteq Named \cup Wanted(j) /\ (Named' \subseteq Named \/ StartLockFree)
  <2>1. CASE Claim(j)
    <3>1. job[j].kind = "PreRollback" /\ job[j].at = "claim" /\ StartLockFree
      BY <2>1, Given DEF Claim, Fits
    <3>2. rollback' \in {rollback, Rollback(job[j].target, job[j].id)}
      BY <2>1 DEF Claim, WriteRollback
    <3>3. CASE rollback' = rollback
      BY <3>3 DEF Named
    <3>4. CASE rollback' = Rollback(job[j].target, job[j].id)
      <4>1. Named' \subseteq {job[j].target, job[j].id}
        BY <3>4 DEF Named, Rollback
      <4> QED
        BY <3>1, <4>1 DEF Wanted
    <3> QED
      BY <3>1, <3>2, <3>3, <3>4
  <2>2. CASE Clean(j)
    BY <2>2 DEF Clean, WriteRollback, Named
  <2> QED
    BY <2>1, <2>2 DEF ScheduleStep
<1> QED
  BY <1>2, <1>4, <1>5, <1>7, <1>8, NamesStep

LEMMA AptNames ==
  ASSUME Frame, StoreSound, NamesApart, NEW j \in Jobs, AptStep(j) \/ Die(j)
  PROVE  NamesApart'
<1>1. Goto(j, "idle") /\ UNCHANGED <<used, rollback>>
  BY DEF AptStep, SkipPre, RecordPre, RecordPost, Interrupt, Archive, WritePackage, Die,
         Returns, Errs, OnlyPackage, OnlyJob, storeVars
<1>2. "idle" \in Steps /\ "idle" \notin Making
  BY StepNames DEF Steps
<1> QED
  BY <1>1, <1>2, NamesGo

LEMMA SystemNames ==
  ASSUME Frame, NamesApart,
         \/ \E i \in Ids : SetPinned(i)
         \/ Withdraw \/ Apply \/ Settle \/ LosePower \/ UNCHANGED vars
  PROVE  NamesApart'
<1>1. used' = used /\ Named' \subseteq Named
  <2>1. used' = used
    BY DEF SetPinned, Withdraw, Apply, Settle, LosePower, vars, storeVars
  <2>2. rollback' \in {rollback, None} \/ Apply
    BY DEF SetPinned, Withdraw, Settle, LosePower, vars
  <2>3. CASE Apply
    <3>1. rollback \in RollbackRecord /\ rollback' = [rollback EXCEPT !.applied = TRUE]
      BY <2>3 DEF Frame, TypeOK, StoreType, Apply
    <3>2. /\ rollback'.target = rollback.target /\ rollback'.fallback = rollback.fallback
          /\ rollback # None
      BY <3>1, StoreNone DEF RollbackRecord
    <3> QED
      BY <2>1, <3>2 DEF Named
  <2> QED
    BY <2>1, <2>2, <2>3 DEF Named
<1>2. CASE job' = job
  BY <1>1, <1>2 DEF NamesApart, Wanted
<1>3. CASE LosePower
  <2>1. \A j \in Jobs : job'[j].at = "idle" /\ job'[j].kind = None
    BY <1>3 DEF LosePower, Idle
  <2>2. \A j \in Jobs : Wanted(j)' = {}
    BY <2>1, StoreNone DEF Wanted, Kinds, CreateKinds
  <2> QED
    BY <1>1, <2>1, <2>2, StepNames DEF NamesApart
<1> QED
  BY <1>2, <1>3 DEF SetPinned, Withdraw, Apply, Settle, vars

(***************************************************************************)
(* The whole.                                                              *)
(***************************************************************************)
LEMMA InitIInv == Init => IInv
<1> SUFFICES ASSUME Init PROVE IInv
  OBVIOUS
<1>1. AllIdle /\ NobodyOperates
  BY DEF Init, AllIdle, Idle, NobodyOperates, OperationSteps, CreateSteps, DeleteSteps
<1>2. \A j \in Jobs : job[j].at = "idle" /\ job[j].kind = None
  BY DEF Init, Idle
<1>3. \A i \in Ids : Sound(i)
  <2>1. view = disk /\ lineage = None
    BY DEF Init
  <2>2. \A i \in Ids : rec[i] # None => i \in used /\ rec[i].uuid
    BY StoreNone DEF Init
  <2> QED
    BY <2>1, <2>2 DEF Sound
<1>4. NamesApart
  <2>1. Named = {}
    BY DEF Init, Named
  <2>2. \A j \in Jobs : Wanted(j) = {}
    BY <1>2, StoreNone DEF Wanted, Kinds, CreateKinds
  <2> QED
    BY <1>2, <2>1, <2>2, StepNames DEF NamesApart
<1> QED
  BY <1>1, <1>3, <1>4, InitFrame, NoneWorks DEF StoreSound, IInv

\* Every step is a job's or the system's.
LEMMA NextIs ==
  ASSUME [Next]_vars
  PROVE  \/ \E j \in Jobs : Begin(j) \/ JobStep(j) \/ Die(j)
         \/ \E i \in Ids : SetPinned(i)
         \/ Withdraw \/ Apply \/ Settle \/ LosePower \/ UNCHANGED vars
BY DEF Next

LEMMA NextSound ==
  ASSUME IInv, [Next]_vars
  PROVE  SystemSound \/ \E j \in Jobs : StepSound(j)
<1>1. Frame /\ StoreSound /\ FloorKept
  BY DEF IInv
<1>2. CASE \E j \in Jobs : Begin(j) \/ JobStep(j) \/ Die(j)
  BY <1>1, <1>2, JobSound
<1>3. CASE \E i \in Ids : SetPinned(i)
  BY <1>1, <1>3, SetPinnedSound
<1>4. CASE Withdraw \/ Apply \/ Settle \/ UNCHANGED vars
  BY <1>1, <1>4, RecordEndsSound
<1>5. CASE LosePower
  BY <1>1, <1>5, LosePowerSound
<1> QED
  BY <1>2, <1>3, <1>4, <1>5, NextIs

LEMMA NextNames ==
  ASSUME IInv, [Next]_vars
  PROVE  NamesApart'
<1>1. Frame /\ StoreSound /\ NamesApart
  BY DEF IInv
<1>2. ASSUME NEW j \in Jobs, Begin(j) \/ JobStep(j) \/ Die(j) PROVE NamesApart'
  BY <1>1, <1>2, BeginNames, CreateNames, DeleteNames, ClaimNames, AptNames DEF JobStep
<1>3. CASE \/ \E i \in Ids : SetPinned(i)
           \/ Withdraw \/ Apply \/ Settle \/ LosePower \/ UNCHANGED vars
  BY <1>1, <1>3, SystemNames
<1> QED
  BY <1>2, <1>3, NextIs

LEMMA NextIInv == IInv /\ [Next]_vars => IInv'
<1> SUFFICES ASSUME IInv, [Next]_vars PROVE IInv'
  OBVIOUS
<1>1. Frame'
  BY NextFrame DEF IInv
<1>2. StoreSound' /\ FloorKept'
  BY NextSound DEF SystemSound, StepSound
<1> QED
  BY <1>1, <1>2, NextNames DEF IInv

\* What a step takes away, one job takes away, and it is what that job works on.
LEMMA LossIsOneJobs ==
  ASSUME IInv, [Next]_vars, NEW i \in Restorable, i \notin Restorable'
  PROVE  \E j \in Jobs : /\ job[j].at \in Loses /\ job[j].id = i
                         /\ \A k \in Jobs \ {j} : job'[k] = job[k]
<1>1. PICK j \in Jobs : StepSound(j)
  BY NextSound DEF SystemSound
<1> QED
  BY <1>1 DEF StepSound, LostBy

\* What the deployments, their snapshots, the lineage and the two transactions owe one
\* another, for any number of deployments, jobs and faults: the inductive invariant.
THEOREM CoordinationInvariantHolds == Spec => []IInv
BY InitIInv, NextIInv, PTL DEF Spec

\* What is offered for restore (check_available, operations.rs) is on the disk: no power
\* cut takes it away.
THEOREM OfferedIsDurable == Spec => []RestorableIsDurable
<1>1. IInv => RestorableIsDurable
  BY RestorableMeans DEF IInv, RestorableIsDurable
<1> QED
  BY <1>1, CoordinationInvariantHolds, PTL

\* What the lineage calls removed is not offered for restore, though a failed deletion
\* (operations.rs) may have left its snapshot behind.
THEOREM RemovedNeverOffered == Spec => []RemovedIsNotOffered
<1>1. IInv => RemovedIsNotOffered
  BY RestorableMeans DEF IInv, StoreSound, Sound, RemovedIsNotOffered
<1> QED
  BY <1>1, CoordinationInvariantHolds, PTL

\* No step takes away what a pending rollback names (ensure_not_transaction_referenced,
\* operations.rs): what a job makes or is about to delete is not named.
THEOREM PendingKeepsReferences == Spec => PendingReferencesKept
<1>1. IInv /\ [Next]_vars =>
        (rollback # None /\ rollback' = rollback =>
           \A i \in {rollback.target, rollback.fallback} :
             i \in Restorable => i \in Restorable')
  <2> SUFFICES ASSUME IInv, [Next]_vars, rollback # None,
                      NEW i \in {rollback.target, rollback.fallback},
                      i \in Restorable, i \notin Restorable'
               PROVE  FALSE
    OBVIOUS
  <2>1. PICK j \in Jobs : job[j].at \in Loses /\ job[j].id = i
    BY LossIsOneJobs
  <2>2. i \in Named
    BY DEF Named
  <2> QED
    BY <2>1, <2>2 DEF IInv, NamesApart, Loses
<1> QED
  BY <1>1, CoordinationInvariantHolds, PTL DEF Spec, PendingReferencesKept

\* A deletion by retention never takes away the last deployment that can be restored
\* (delete_automatic, operations.rs): the floor it checked holds until it is done.
THEOREM RetentionLeavesOne == Spec => AutomaticKeepsRestorable
<1>1. IInv /\ [Next]_vars =>
        \A j \in Jobs :
          job[j].kind = "DeleteAutomatic" /\ job'[j] # job[j] /\ Restorable # {}
            => Restorable' # {}
  <2> SUFFICES ASSUME IInv, [Next]_vars, NEW j \in Jobs, job[j].kind = "DeleteAutomatic",
                      job'[j] # job[j], NEW i \in Restorable, Restorable' = {}
               PROVE  FALSE
    OBVIOUS
  <2>1. \A k \in Restorable : job[j].at \in Loses /\ job[j].id = k
    <3> SUFFICES ASSUME NEW k \in Restorable PROVE job[j].at \in Loses /\ job[j].id = k
      OBVIOUS
    <3>1. PICK l \in Jobs : /\ job[l].at \in Loses /\ job[l].id = k
                            /\ \A m \in Jobs \ {l} : job'[m] = job[m]
      BY LossIsOneJobs
    <3> QED
      BY <3>1
  <2>2. job[j].at = "mark"
    <3>1. job[j].at \notin CreateSteps
      BY Given DEF IInv, Fits, CreateKinds
    <3> QED
      BY <2>1, <3>1 DEF Loses, Making
  <2> QED
    BY <2>1, <2>2 DEF IInv, FloorKept
<1> QED
  BY <1>1, CoordinationInvariantHolds, PTL DEF Spec, AutomaticKeepsRestorable
=============================================================================
