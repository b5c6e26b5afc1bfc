------------------------------ MODULE HomeProofs ------------------------------
(***************************************************************************)
(* Theorems about the Home store, for any sets of snapshots and calls, any *)
(* intervals and any number of faults.                                     *)
(***************************************************************************)
EXTENDS HomeProperties, TLAPS

(***************************************************************************)
(* The values a job takes.                                                 *)
(***************************************************************************)
LEMMA NewJobIsJob ==
  ASSUME NEW at \in Steps, NEW i \in Ids \cup {None}, NEW now \in 0 .. MaxTime, NEW todo \in SUBSET Ids
  PROVE  /\ NewJob(at, i, now, todo) \in Job
         /\ NewJob(at, i, now, todo).at = at /\ NewJob(at, i, now, todo).id = i
  BY SMT DEF NewJob, Job

LEMMA ZeroIsTime == 0 \in 0 .. MaxTime /\ {} \in SUBSET Ids
  BY HomeConstants, SMT

LEMMA IdleIsJob == Idle \in Job /\ Idle.at = "idle"
  BY HomeConstants, SMT DEF Idle, NewJob, Job, Steps

LEMMA AtIsJob ==
  ASSUME job \in [Jobs -> Job], NEW j \in Jobs, NEW step \in Steps
  PROVE  At(j, step) \in Job /\ At(j, step).at = step /\ At(j, step).id = job[j].id
  BY SMT DEF At, Job

LEMMA AfterIsJob ==
  ASSUME job \in [Jobs -> Job], NEW j \in Jobs
  PROVE  AfterDelete(j) \in Job /\ AfterDelete(j).at \in {"idle", "delete"}
  <1>1. CASE job[j].todo = {}
    BY <1>1, IdleIsJob DEF AfterDelete
  <1>2. CASE job[j].todo # {}
    <2>1. job[j].todo \in SUBSET Ids
      BY SMT DEF Job
    <2> QED BY <1>2, <2>1, HomeConstants, SMT DEF AfterDelete, NewJob, Job, Steps
  <1> QED BY <1>1, <1>2

LEMMA JobBecomes ==
  ASSUME job \in [Jobs -> Job], NEW j \in Jobs, NEW w \in Job, Become(j, w)
  PROVE  /\ job' \in [Jobs -> Job] /\ job'[j] = w
         /\ \A k \in Jobs \ {j} : job'[k] = job[k]
  BY SMT DEF Become

LEMMA LockStepsAreSteps == LockSteps \subseteq Steps /\ ReadSteps \subseteq Steps
  BY DEF LockSteps, CreateSteps, DeleteSteps, ReadSteps, Steps

(***************************************************************************)
(* A job that has operation.lock, or takes it, disturbs no other job when  *)
(* it leaves the readers of its snapshot alone.                            *)
(***************************************************************************)
HasLock(j) == job[j].at \in LockSteps \/ OperationLockFree

Undisturbed(i) ==
  /\ rec'[i] = None => i \notin view'
  /\ rec'[i] = None \/ rec'[i].state = "Deleting" => Readers(i) = {}

\* Everything but the snapshot i is as it was, or safer.
OnlyOf(i) ==
  \A x \in Ids \ {i} :
    /\ rec'[x] = rec[x] /\ (x \in view' <=> x \in view)
    /\ x \in view /\ x \in disk => x \in disk'

OnlyJobOf(j) ==
  /\ job' \in [Jobs -> Job] /\ \A k \in Jobs \ {j} : job'[k] = job[k]
  /\ job'[j].at \in DeleteSteps => Readers(job'[j].id) = {}

LEMMA OthersFit ==
  ASSUME HomeInv, NEW j \in Jobs, NEW i \in Ids, HasLock(j), Undisturbed(i),
         OnlyJobOf(j), OnlyOf(i), NEW k \in Jobs, k # j
  PROVE  JobFits(k)' /\ (job'[k].at \notin LockSteps)
  <1>1. job'[k] = job[k] /\ job[k].at \notin LockSteps
    BY DEF HasLock, HomeInv, OneHolder, OperationLockFree, OnlyJobOf
  <1>2. job'[k].at \in ReadSteps \cup {"lock_shared"} => job'[k].id \in Ids
    BY <1>1 DEF HomeInv, JobFits, ReadSteps
  <1>3. ASSUME NEW x, job'[k].id = x, job'[k].at \in ReadSteps PROVE Deleters(x)' = {}
    <2>1. job[k].at = "reading" /\ k \in Readers(x) /\ Deleters(x) = {}
      BY <1>1, <1>3 DEF HomeInv, JobFits, ReadSteps, Readers
    <2>2. \A m \in Jobs : ~(job'[m].at \in DeleteSteps /\ job'[m].id = x)
      BY <2>1 DEF Deleters, OnlyJobOf
    <2> QED BY <2>2 DEF Deleters
  <1>4. ASSUME job'[k].at \in ReadSteps \cup {"lock_shared"}
        PROVE  /\ rec'[job'[k].id] = None => job'[k].id \notin view'
               /\ job'[k].at \in ReadSteps =>
                    /\ rec'[job'[k].id] # None
                    /\ rec'[job'[k].id].state = "Deleting" => job'[k].id \in view'
    <2>1. CASE job'[k].id = i
      <3>1. job'[k].at \in ReadSteps => Readers(i) # {}
        BY <1>1, <2>1 DEF Readers
      <3> QED BY <1>1, <2>1, <3>1 DEF Undisturbed
    <2>2. CASE job'[k].id # i
      BY <1>1, <1>2, <1>4, <2>2 DEF HomeInv, JobFits, ReadSteps, OnlyOf
    <2> QED BY <2>1, <2>2
  <1> QED
    <2>1. job'[k].at \notin CreateSteps /\ job'[k].at \notin DeleteSteps /\ job'[k].at # "forget"
      BY <1>1 DEF LockSteps, DeleteSteps
    <2>2. job'[k].at = "reading" => Deleters(job[k].id)' = {}
      BY <1>1, <1>3 DEF ReadSteps
    <2> QED BY <1>1, <1>2, <1>4, <2>1, <2>2 DEF JobFits, ReadSteps

LEMMA StepUnderLock ==
  ASSUME HomeInv, TypeOK', NEW j \in Jobs, NEW i \in Ids, HasLock(j), Undisturbed(i),
         OnlyJobOf(j), OnlyOf(i), JobFits(j)',
         rec'[i] # None /\ rec'[i].state = "Ready" /\ i \in view' => i \in disk'
  PROVE  HomeInv'
  <1>1. \A k \in Jobs \ {j} : JobFits(k)' /\ job'[k].at \notin LockSteps
    BY OthersFit
  <1>2. OneHolder'
    BY <1>1 DEF OneHolder, LockSteps, CreateSteps, DeleteSteps
  <1>3. OfferedIsDurable'
    BY DEF HomeInv, OfferedIsDurable, Restorable, Listed, Known, OnlyOf
  <1> QED BY <1>1, <1>2, <1>3 DEF HomeInv

LEMMA InitHolds == Init => HomeInv
  BY HomeConstants, HomeNone, SMTT(30)
  DEF Init, HomeInv, TypeOK, OneHolder, JobFits, OfferedIsDurable, Restorable, Listed, Known,
      Job, Idle, NewJob, Steps, CreateSteps, DeleteSteps, ReadSteps, LockSteps, Deleters, Record

(***************************************************************************)
(* One lemma per action: what becomes of the job, of the records and of    *)
(* the snapshots, and the parts of the invariant from that.                *)
(***************************************************************************)
LEMMA NewRecordIsRecord ==
  ASSUME TypeOK, NEW kind \in Kinds, NEW pinned \in BOOLEAN
  PROVE  /\ NewRecord(kind, pinned) \in Record
         /\ NewRecord(kind, pinned).state = "Creating"
  BY SMT DEF NewRecord, Record, States, TypeOK

LEMMA StateIsRecord ==
  ASSUME NEW r \in Record, NEW s \in States
  PROVE  [r EXCEPT !.state = s] \in Record /\ [r EXCEPT !.state = s].state = s
  BY SMT DEF Record

(***************************************************************************)
(* A creation begins: the record of a fresh id.                            *)
(***************************************************************************)
LEMMA RecordCreatingHolds ==
  ASSUME HomeInv, NEW j \in Jobs, NEW kind \in Kinds, NEW pinned \in BOOLEAN,
         OperationLockFree, RecordCreating(j, kind, pinned)
  PROVE  HomeInv'
  <1>1. PICK i \in Ids \ drawn :
          /\ drawn' = drawn \cup {i}
          /\ WriteRecord(j, i, NewRecord(kind, pinned),
                         NewJob("snapshot", i, 0, {}), Idle)
          /\ UNCHANGED <<view, disk, clock>>
    BY DEF RecordCreating
  <1> DEFINE w == NewJob("snapshot", i, 0, {})
  <1>2. w \in Job /\ w.at = "snapshot" /\ w.id = i
    BY NewJobIsJob, ZeroIsTime DEF HomeInv, TypeOK, Steps, CreateSteps
  <1>3. /\ job \in [Jobs -> Job] /\ rec \in [Ids -> Record \cup {None}]
        /\ rec[i] = None /\ i \notin view /\ faults \in 0 .. MaxFaults
    BY <1>1 DEF HomeInv, TypeOK, Known
  <1>4. rec' \in {rec, [rec EXCEPT ![i] = NewRecord(kind, pinned)]} /\ faults' \in 0 .. MaxFaults
    BY <1>1, <1>3, HomeConstants, SMT DEF WriteRecord, Fault, NoFault
  <1>5. /\ job' \in [Jobs -> Job] /\ \A k \in Jobs \ {j} : job'[k] = job[k]
        /\ \/ job'[j] = w /\ rec' = [rec EXCEPT ![i] = NewRecord(kind, pinned)]
           \/ job'[j] = Idle
    BY <1>1, <1>2, <1>3, IdleIsJob, JobBecomes DEF WriteRecord
  <1>6. NewRecord(kind, pinned) \in Record /\ NewRecord(kind, pinned).state = "Creating"
    BY NewRecordIsRecord DEF HomeInv
  <1>7. TypeOK'
    BY <1>1, <1>3, <1>4, <1>5, <1>6 DEF HomeInv, TypeOK, Known
  <1>8. rec'[i] = None \/ (rec'[i].state = "Creating" /\ rec'[i] # None)
    BY <1>3, <1>4, <1>6, HomeNone
  <1>9. Undisturbed(i)
    BY <1>1, <1>3, <1>8 DEF Undisturbed, Readers, ReadSteps, HomeInv, JobFits
  <1>10. OnlyJobOf(j)
    BY <1>2, <1>5, IdleIsJob DEF OnlyJobOf, DeleteSteps
  <1>11. OnlyOf(i)
    BY <1>1, <1>3, <1>4 DEF OnlyOf
  <1>12. JobFits(j)'
    <2>1. CASE job'[j] = Idle
      BY <2>1, IdleIsJob DEF JobFits, CreateSteps, DeleteSteps
    <2>2. CASE job'[j] = w /\ rec' = [rec EXCEPT ![i] = NewRecord(kind, pinned)]
      <3>1. rec'[i].state = "Creating" /\ rec'[i] # None /\ i \in drawn'
        BY <1>1, <1>3, <1>6, <2>2, HomeNone
      <3> QED BY <1>2, <2>2, <3>1 DEF JobFits, CreateSteps, DeleteSteps
    <2> QED BY <1>5, <2>1, <2>2
  <1> QED BY <1>7, <1>8, <1>9, <1>10, <1>11, <1>12, StepUnderLock DEF HasLock

LEMMA CreateManualHolds == ASSUME HomeInv, NEW j \in Jobs, CreateManual(j) PROVE HomeInv'
  BY RecordCreatingHolds DEF CreateManual, Kinds

(***************************************************************************)
(* Steps that change one job and nothing else of the store.                *)
(***************************************************************************)
LEMMA OnlyJobHolds ==
  ASSUME HomeInv, NEW j \in Jobs, NEW w \in Job, Become(j, w), OnlyJob, NoFault,
         job[j].at \notin LockSteps, w.at \notin LockSteps,
         w.at \in {"lock_shared", "reading"} => w.id \in Ids /\ (rec[w.id] = None => w.id \notin view),
         w.at = "reading" => /\ Deleters(w.id) = {} /\ rec[w.id] # None
                             /\ rec[w.id].state = "Deleting" => w.id \in view
  PROVE  HomeInv'
  <1>1. /\ job' \in [Jobs -> Job] /\ job'[j] = w /\ \A k \in Jobs \ {j} : job'[k] = job[k]
        /\ UNCHANGED <<rec, view, disk, drawn, clock, faults>>
    BY JobBecomes DEF HomeInv, TypeOK, OnlyJob, NoFault
  <1>2. TypeOK'
    BY <1>1 DEF HomeInv, TypeOK, Known
  <1>3. OneHolder'
    BY <1>1 DEF HomeInv, OneHolder
  <1>4. ASSUME NEW x PROVE Deleters(x)' = Deleters(x)
    BY <1>1 DEF Deleters, LockSteps
  <1>5. JobFits(j)'
    <2>1. w.at = "reading" => Deleters(w.id)' = {}
      BY <1>4
    <2>2. job'[j].at \notin CreateSteps /\ job'[j].at \notin DeleteSteps /\ job'[j].at # "forget"
      BY <1>1 DEF LockSteps, DeleteSteps
    <2> QED BY <1>1, <2>1, <2>2 DEF JobFits
  <1>6. ASSUME NEW k \in Jobs \ {j} PROVE JobFits(k)'
    <2>1. Deleters(job[k].id)' = Deleters(job[k].id)
      BY <1>1, <1>4
    <2> QED BY <1>1, <2>1 DEF HomeInv, JobFits
  <1>7. OfferedIsDurable'
    BY <1>1 DEF HomeInv, OfferedIsDurable, Restorable, Listed, Known
  <1> QED BY <1>2, <1>3, <1>5, <1>6, <1>7 DEF HomeInv

LEMMA CreateScheduledHolds == ASSUME HomeInv, NEW j \in Jobs, CreateScheduled(j) PROVE HomeInv'
  <1> DEFINE w == NewJob("scheduled", None, clock, {})
  <1>1. w \in Job /\ w.at = "scheduled"
    <2>1. clock \in 0 .. MaxTime /\ "scheduled" \in Steps
      BY DEF HomeInv, TypeOK, Steps
    <2> QED BY <2>1, NewJobIsJob, ZeroIsTime
  <1> QED
    BY <1>1, OnlyJobHolds DEF CreateScheduled, LockSteps, CreateSteps, DeleteSteps

LEMMA RefuseHolds ==
  ASSUME HomeInv, NEW j \in Jobs, job[j].at \notin LockSteps, Refuse(j) PROVE HomeInv'
  BY IdleIsJob, OnlyJobHolds DEF Refuse, LockSteps, CreateSteps, DeleteSteps

LEMMA ScheduledLockHolds == ASSUME HomeInv, NEW j \in Jobs, ScheduledLock(j) PROVE HomeInv'
  BY RefuseHolds, RecordCreatingHolds
  DEF ScheduledLock, Kinds, LockSteps, CreateSteps, DeleteSteps

LEMMA DeleteHolds == ASSUME HomeInv, NEW j \in Jobs, Delete(j) PROVE HomeInv'
  <1>1. PICK selected \in SUBSET Known : Become(j, NewJob("delete", None, 0, selected))
    BY DEF Delete
  <1> DEFINE w == NewJob("delete", None, 0, selected)
  <1>2. selected \subseteq Ids
    BY DEF Known
  <1>3. w \in Job /\ w.at = "delete"
    <2>1. selected \in SUBSET Ids /\ "delete" \in Steps
      BY <1>2 DEF Steps
    <2> QED BY <2>1, NewJobIsJob, ZeroIsTime
  <1> QED
    BY <1>1, <1>3, OnlyJobHolds DEF Delete, LockSteps, CreateSteps, DeleteSteps

LEMMA CleanupHolds == ASSUME HomeInv, NEW j \in Jobs, Cleanup(j) PROVE HomeInv'
  <1>1. PICK selected \in Cleanups : Become(j, NewJob("delete", None, 0, selected))
    BY DEF Cleanup
  <1> DEFINE w == NewJob("delete", None, 0, selected)
  <1>2. selected \subseteq Ids
    BY DEF Cleanups, Candidates, Restorable, Listed, Known
  <1>3. w \in Job /\ w.at = "delete"
    <2>1. selected \in SUBSET Ids /\ "delete" \in Steps
      BY <1>2 DEF Steps
    <2> QED BY <2>1, NewJobIsJob, ZeroIsTime
  <1> QED
    BY <1>1, <1>3, OnlyJobHolds DEF Cleanup, LockSteps, CreateSteps, DeleteSteps

LEMMA VerifyHolds == ASSUME HomeInv, NEW j \in Jobs, Verify(j) PROVE HomeInv'
  <1>1. PICK i \in Restorable : Become(j, NewJob("lock_shared", i, 0, {}))
    BY DEF Verify
  <1> DEFINE w == NewJob("lock_shared", i, 0, {})
  <1>2. i \in Ids /\ rec[i] # None
    BY DEF Restorable, Listed, Known
  <1>3. w \in Job /\ w.at = "lock_shared" /\ w.id = i
    BY <1>2, NewJobIsJob, ZeroIsTime DEF Steps
  <1> QED
    BY <1>1, <1>2, <1>3, OnlyJobHolds DEF Verify, LockSteps, CreateSteps, DeleteSteps

LEMMA ReturnsHolds ==
  ASSUME HomeInv, NEW j \in Jobs, job[j].at \notin LockSteps, Goto(j, "idle"), OnlyJob, NoFault
  PROVE  HomeInv'
  BY IdleIsJob, OnlyJobHolds DEF Goto, LockSteps, CreateSteps, DeleteSteps

LEMMA OpenHolds == ASSUME HomeInv, NEW j \in Jobs, Open(j) PROVE HomeInv'
  <1>1. CASE job[j].id \notin view
    BY <1>1, ReturnsHolds DEF Open, LockSteps, CreateSteps, DeleteSteps
  <1>2. CASE job[j].id \in view
    <2>1. job[j].id \in Ids /\ rec[job[j].id] # None
      BY <1>2 DEF Open, HomeInv, JobFits
    <2>2. At(j, "reading") \in Job /\ At(j, "reading").at = "reading"
          /\ At(j, "reading").id = job[j].id
      BY AtIsJob DEF HomeInv, TypeOK, Steps, ReadSteps
    <2>3. Become(j, At(j, "reading"))
      BY <1>2 DEF Open, Goto, At
    <2> QED
      BY <1>2, <2>1, <2>2, <2>3, OnlyJobHolds DEF Open, LockSteps, CreateSteps, DeleteSteps
  <1> QED BY <1>1, <1>2

LEMMA EndReadingHolds == ASSUME HomeInv, NEW j \in Jobs, EndReading(j) PROVE HomeInv'
  BY ReturnsHolds DEF EndReading, LockSteps, CreateSteps, DeleteSteps

(***************************************************************************)
(* Steps under operation.lock.                                             *)
(***************************************************************************)
\* The snapshot a creation or a deletion works on.
LEMMA SubjectKnown ==
  ASSUME HomeInv, NEW j \in Jobs, job[j].at \in LockSteps
  PROVE  /\ job[j].id \in Ids /\ rec[job[j].id] \in Record /\ rec[job[j].id] # None
         /\ rec \in [Ids -> Record \cup {None}] /\ job \in [Jobs -> Job] /\ faults \in 0 .. MaxFaults
         /\ view \subseteq Ids /\ disk \subseteq Ids
  <1>1. /\ rec \in [Ids -> Record \cup {None}] /\ job \in [Jobs -> Job] /\ faults \in 0 .. MaxFaults
        /\ view \subseteq Ids /\ disk \subseteq Ids /\ drawn \subseteq Ids
    BY DEF HomeInv, TypeOK
  <1>2. job[j].id \in Ids /\ rec[job[j].id] # None
    BY <1>1 DEF HomeInv, JobFits, LockSteps
  <1> QED BY <1>1, <1>2

LEMMA FaultsType == ASSUME TypeOK, NoFault \/ Fault PROVE faults' \in 0 .. MaxFaults
  BY HomeConstants, SMT DEF TypeOK, NoFault, Fault

\* The types after a step that keeps job, records and snapshots well-formed.
LEMMA StepType ==
  ASSUME TypeOK, NoFault \/ Fault, NEW i \in drawn, UNCHANGED <<drawn, clock>>,
         job' \in [Jobs -> Job], rec' \in [Ids -> Record \cup {None}],
         \A x \in Ids \ {i} : rec'[x] = rec[x] /\ (x \in view' => x \in view)
                              /\ (x \in disk' => x \in view \/ x \in disk),
         view' \subseteq Ids, disk' \subseteq Ids
  PROVE  TypeOK'
  BY FaultsType DEF TypeOK, Known

\* A creation goes on, or goes to its cleanup, or ends.
LEMMA CreationGoesOn ==
  ASSUME HomeInv, NEW j \in Jobs, job[j].at \in CreateSteps, NEW s \in CreateSteps,
         Become(j, At(j, s)), NoFault \/ Fault, UNCHANGED <<drawn, clock>>,
         rec' \in [Ids -> Record \cup {None}], view' \subseteq Ids, disk' \subseteq Ids,
         OnlyOf(job[j].id),
         \A x \in Ids \ {job[j].id} : x \in disk' => x \in view \/ x \in disk,
         rec'[job[j].id] # None, rec'[job[j].id].state # "Deleting",
         s \in {"snapshot", "sync", "publish"} => rec'[job[j].id].state = "Creating",
         s = "sync" => job[j].id \in view',
         s = "publish" => job[j].id \in disk',
         rec'[job[j].id].state = "Ready" /\ job[j].id \in view' => job[j].id \in disk'
  PROVE  HomeInv'
  <1> DEFINE i == job[j].id
  <1>1. i \in Ids /\ i \in drawn /\ job \in [Jobs -> Job] /\ job[j].at \in LockSteps /\ TypeOK
    BY SubjectKnown DEF HomeInv, JobFits, LockSteps
  <1>2. /\ job' \in [Jobs -> Job] /\ job'[j].at = s /\ job'[j].id = i
        /\ \A k \in Jobs \ {j} : job'[k] = job[k]
    BY <1>1, AtIsJob, JobBecomes, LockStepsAreSteps DEF LockSteps
  <1>3. TypeOK'
    BY <1>1, <1>2, StepType DEF OnlyOf
  <1>4. JobFits(j)'
    <2>1. i \in drawn'
      BY <1>1
    <2> QED BY <1>2, <2>1 DEF JobFits, CreateSteps, DeleteSteps
  <1>5. OnlyJobOf(j)
    BY <1>2 DEF OnlyJobOf, CreateSteps, DeleteSteps
  <1> QED BY <1>1, <1>3, <1>4, <1>5, StepUnderLock DEF HasLock, Undisturbed

LEMMA CallEnds ==
  ASSUME HomeInv, NEW j \in Jobs, job[j].at \in LockSteps, NEW w \in Job, w.at \in {"idle", "delete"},
         Become(j, w), NoFault \/ Fault, UNCHANGED <<drawn, clock>>,
         rec' \in [Ids -> Record \cup {None}], view' \subseteq Ids, disk' \subseteq Ids,
         OnlyOf(job[j].id), Undisturbed(job[j].id),
         \A x \in Ids \ {job[j].id} : x \in disk' => x \in view \/ x \in disk,
         rec'[job[j].id] # None /\ rec'[job[j].id].state = "Ready" /\ job[j].id \in view'
            => job[j].id \in disk'
  PROVE  HomeInv'
  <1> DEFINE i == job[j].id
  <1>1. i \in Ids /\ i \in drawn /\ job \in [Jobs -> Job] /\ TypeOK
    BY SubjectKnown DEF HomeInv, TypeOK, Known
  <1>2. /\ job' \in [Jobs -> Job] /\ job'[j] = w
        /\ \A k \in Jobs \ {j} : job'[k] = job[k]
    BY <1>1, JobBecomes
  <1>3. TypeOK'
    BY <1>1, <1>2, StepType DEF OnlyOf
  <1>4. JobFits(j)'
    BY <1>2 DEF JobFits, CreateSteps, DeleteSteps
  <1>5. OnlyJobOf(j)
    BY <1>2 DEF OnlyJobOf, DeleteSteps
  <1> QED BY <1>1, <1>3, <1>4, <1>5, StepUnderLock DEF HasLock

LEMMA TakeSnapshotHolds == ASSUME HomeInv, NEW j \in Jobs, TakeSnapshot(j) PROVE HomeInv'
  <1> DEFINE i == job[j].id
  <1>1. job[j].at = "snapshot" /\ job[j].at \in CreateSteps /\ job[j].at \in LockSteps
    BY DEF TakeSnapshot, CreateSteps, LockSteps
  <1>2. i \in Ids /\ rec[i] # None /\ rec[i].state = "Creating" /\ view \subseteq Ids
    BY <1>1, SubjectKnown DEF HomeInv, JobFits
  <1>3. UNCHANGED <<rec, disk, drawn, clock>> /\ view' \in {view, view \cup {i}}
    BY DEF TakeSnapshot, OnlySnapshots
  <1>4. OnlyOf(i)
    BY <1>3 DEF OnlyOf
  <1>5. CASE Become(j, At(j, "sync")) /\ NoFault /\ view' = view \cup {i}
    BY <1>1, <1>2, <1>3, <1>4, <1>5, SubjectKnown, CreationGoesOn DEF CreateSteps
  <1>6. CASE Become(j, At(j, "spoil")) /\ Fault
    BY <1>1, <1>2, <1>3, <1>4, <1>6, SubjectKnown, CreationGoesOn DEF CreateSteps
  <1> QED BY <1>5, <1>6 DEF TakeSnapshot, Goto, At

LEMMA SyncHomeHolds == ASSUME HomeInv, NEW j \in Jobs, SyncHome(j) PROVE HomeInv'
  <1> DEFINE i == job[j].id
  <1>1. job[j].at = "sync" /\ job[j].at \in CreateSteps /\ job[j].at \in LockSteps
    BY DEF SyncHome, CreateSteps, LockSteps
  <1>2. i \in Ids /\ rec[i] # None /\ rec[i].state = "Creating" /\ view \subseteq Ids
    BY <1>1, SubjectKnown DEF HomeInv, JobFits
  <1>3. UNCHANGED <<rec, view, drawn, clock>> /\ disk' \in {view, disk}
    BY DEF SyncHome, OnlySnapshots
  <1>4. OnlyOf(i)
    BY <1>3 DEF OnlyOf
  <1>5. CASE Become(j, At(j, "publish")) /\ NoFault /\ disk' = view /\ i \in view
    BY <1>1, <1>2, <1>3, <1>4, <1>5, SubjectKnown, CreationGoesOn DEF CreateSteps
  <1>6. CASE Become(j, At(j, "spoil")) /\ Fault
    BY <1>1, <1>2, <1>3, <1>4, <1>6, SubjectKnown, CreationGoesOn DEF CreateSteps
  <1> QED BY <1>1, <1>5, <1>6 DEF SyncHome, Goto, At, HomeInv, JobFits

LEMMA PublishHolds == ASSUME HomeInv, NEW j \in Jobs, Publish(j) PROVE HomeInv'
  <1> DEFINE i == job[j].id
             ready == [rec[i] EXCEPT !.state = "Ready"]
  <1>1. job[j].at = "publish" /\ job[j].at \in CreateSteps /\ job[j].at \in LockSteps
    BY DEF Publish, CreateSteps, LockSteps
  <1>2. i \in Ids /\ rec[i] # None /\ rec[i].state = "Creating" /\ i \in disk /\ rec[i] \in Record
        /\ rec \in [Ids -> Record \cup {None}]
    BY <1>1, SubjectKnown DEF HomeInv, JobFits
  <1>3. ready \in Record /\ ready.state = "Ready" /\ ready # None
    BY <1>2, StateIsRecord, HomeNone DEF States
  <1>4. UNCHANGED <<view, disk, drawn, clock>> /\ rec' \in {rec, [rec EXCEPT ![i] = ready]}
    BY DEF Publish, OnlyRecords, WriteRecord
  <1>5. /\ rec' \in [Ids -> Record \cup {None}] /\ OnlyOf(i)
        /\ rec'[i] # None /\ rec'[i].state # "Deleting"
    BY <1>2, <1>3, <1>4 DEF OnlyOf
  <1>6. Undisturbed(i)
    BY <1>5 DEF Undisturbed
  <1>7. view' \subseteq Ids /\ disk' \subseteq Ids
    BY <1>1, <1>4, SubjectKnown
  <1>8. CASE Become(j, Idle) /\ NoFault
    BY <1>1, <1>2, <1>4, <1>5, <1>6, <1>7, <1>8, IdleIsJob, CallEnds
  <1>9. CASE Become(j, At(j, "spoil")) /\ Fault
    BY <1>1, <1>2, <1>4, <1>5, <1>7, <1>9, CreationGoesOn DEF CreateSteps
  <1> QED BY <1>8, <1>9 DEF Publish, WriteRecord

LEMMA SpoilHolds == ASSUME HomeInv, NEW j \in Jobs, Spoil(j) PROVE HomeInv'
  <1> DEFINE i == job[j].id
             broken == [rec[i] EXCEPT !.state = "Broken"]
  <1>1. job[j].at = "spoil" /\ job[j].at \in CreateSteps /\ job[j].at \in LockSteps
    BY DEF Spoil, CreateSteps, LockSteps
  <1>2. i \in Ids /\ rec[i] # None /\ rec[i].state # "Deleting" /\ rec[i] \in Record
        /\ rec \in [Ids -> Record \cup {None}]
    BY <1>1, SubjectKnown DEF HomeInv, JobFits
  <1>3. broken \in Record /\ broken.state = "Broken" /\ broken # None
    BY <1>2, StateIsRecord, HomeNone DEF States
  <1>4. UNCHANGED <<view, disk, drawn, clock>> /\ rec' \in {rec, [rec EXCEPT ![i] = broken]}
        /\ Become(j, At(j, "discard")) /\ (NoFault \/ Fault)
    BY DEF Spoil, OnlyRecords, WriteRecord
  <1>5. /\ rec' \in [Ids -> Record \cup {None}] /\ OnlyOf(i)
        /\ rec'[i] # None /\ rec'[i].state # "Deleting"
        /\ rec'[i].state = "Ready" => rec[i].state = "Ready"
    BY <1>2, <1>3, <1>4 DEF OnlyOf
  <1>6. rec'[i].state = "Ready" /\ i \in view' => i \in disk'
    BY <1>2, <1>4, <1>5 DEF HomeInv, OfferedIsDurable, Restorable, Listed, Known
  <1>7. view' \subseteq Ids /\ disk' \subseteq Ids
    BY <1>1, <1>4, SubjectKnown
  <1> QED BY <1>1, <1>2, <1>4, <1>5, <1>6, <1>7, CreationGoesOn DEF CreateSteps

\* btrfs subvolume delete --commit-after, done or failed.
LEMMA DeletesOnly ==
  ASSUME HomeInv, NEW j \in Jobs, NEW i \in Ids, NEW next, NEW err,
         DeleteSnapshot(j, i, next, err), UNCHANGED rec
  PROVE  /\ OnlyOf(i) /\ view' \subseteq view /\ view' \subseteq Ids /\ disk' \subseteq Ids
         /\ \A x \in Ids \ {i} : x \in disk' => x \in view \/ x \in disk
         /\ i \in view' => disk' = disk \/ disk' = view
         /\ (Become(j, next) /\ NoFault /\ i \notin view') \/ (Become(j, err) /\ Fault)
  <1>1. view \subseteq Ids /\ disk \subseteq Ids
    BY DEF HomeInv, TypeOK
  <1>2. CASE view' = view \ {i} /\ disk' = view' /\ Become(j, next) /\ NoFault
    BY <1>1, <1>2 DEF OnlyOf
  <1>3. CASE view' \in {view, view \ {i}} /\ disk' \in {disk, view'} /\ Become(j, err) /\ Fault
    BY <1>1, <1>3 DEF OnlyOf
  <1> QED BY <1>2, <1>3 DEF DeleteSnapshot

LEMMA DiscardHolds == ASSUME HomeInv, NEW j \in Jobs, Discard(j) PROVE HomeInv'
  <1> DEFINE i == job[j].id
  <1>1. job[j].at = "discard" /\ job[j].at \in CreateSteps /\ job[j].at \in LockSteps
    BY DEF Discard, CreateSteps, LockSteps
  <1>2. i \in Ids /\ rec[i] # None /\ rec[i].state # "Deleting"
        /\ rec \in [Ids -> Record \cup {None}] /\ view \subseteq Ids /\ disk \subseteq Ids
    BY <1>1, SubjectKnown DEF HomeInv, JobFits
  <1>3. UNCHANGED <<rec, drawn, clock>>
    BY DEF Discard, OnlySnapshots
  <1>4. Undisturbed(i)
    BY <1>2, <1>3 DEF Undisturbed
  <1>5. CASE DeleteSnapshot(j, i, Idle, Idle)
    <2>1. i \in view' => i \in view
      BY <1>2, <1>3, <1>5, DeletesOnly
    <2>2. rec'[i].state = "Ready" /\ i \in view' => i \in disk'
      BY <1>2, <1>3, <1>5, <2>1, DeletesOnly
      DEF HomeInv, OfferedIsDurable, Restorable, Listed, Known
    <2> QED BY <1>1, <1>2, <1>3, <1>4, <1>5, <2>2, DeletesOnly, IdleIsJob, CallEnds
  <1>6. CASE Become(j, Idle) /\ NoFault /\ UNCHANGED <<view, disk>>
    <2>1. OnlyOf(i)
      BY <1>3, <1>6 DEF OnlyOf
    <2>2. rec'[i].state = "Ready" /\ i \in view' => i \in disk'
      BY <1>2, <1>3, <1>6 DEF HomeInv, OfferedIsDurable, Restorable, Listed, Known
    <2> QED BY <1>1, <1>2, <1>3, <1>4, <1>6, <2>1, <2>2, IdleIsJob, CallEnds
  <1> QED BY <1>5, <1>6 DEF Discard

LEMMA RemoveSnapshotHolds == ASSUME HomeInv, NEW j \in Jobs, RemoveSnapshot(j) PROVE HomeInv'
  <1> DEFINE i == job[j].id
  <1>1. job[j].at = "remove" /\ job[j].at \in DeleteSteps /\ job[j].at \in LockSteps
    BY DEF RemoveSnapshot, DeleteSteps, LockSteps
  <1>2. i \in Ids /\ i \in drawn /\ rec[i] # None /\ rec[i].state = "Deleting" /\ job \in [Jobs -> Job]
        /\ rec \in [Ids -> Record \cup {None}] /\ view \subseteq Ids /\ disk \subseteq Ids /\ TypeOK
    BY <1>1, SubjectKnown DEF HomeInv, JobFits, TypeOK, Known
  <1>3. UNCHANGED <<rec, drawn, clock>> /\ DeleteSnapshot(j, i, At(j, "forget"), AfterDelete(j))
    BY DEF RemoveSnapshot, OnlySnapshots
  <1>4. Readers(i) = {}
    BY <1>1 DEF HomeInv, JobFits, Readers, Deleters, ReadSteps
  <1>5. Undisturbed(i)
    BY <1>2, <1>3, <1>4 DEF Undisturbed
  <1>6. CASE Become(j, AfterDelete(j)) /\ Fault
    BY <1>1, <1>2, <1>3, <1>5, <1>6, DeletesOnly, AfterIsJob, CallEnds
  <1>7. CASE Become(j, At(j, "forget")) /\ NoFault /\ i \notin view'
    <2>1. /\ job' \in [Jobs -> Job] /\ job'[j].at = "forget" /\ job'[j].id = i
          /\ \A k \in Jobs \ {j} : job'[k] = job[k]
      BY <1>2, <1>7, AtIsJob, JobBecomes DEF Steps, DeleteSteps
    <2>2. TypeOK'
      BY <1>2, <1>3, <1>7, <2>1, DeletesOnly, StepType DEF OnlyOf
    <2>3. JobFits(j)'
      BY <1>2, <1>3, <1>7, <2>1 DEF JobFits, CreateSteps, DeleteSteps
    <2>4. OnlyJobOf(j)
      BY <1>4, <2>1 DEF OnlyJobOf
    <2> QED BY <1>1, <1>2, <1>3, <1>5, <1>7, <2>2, <2>3, <2>4, DeletesOnly, StepUnderLock DEF HasLock
  <1> QED BY <1>2, <1>3, <1>6, <1>7, DeletesOnly

LEMMA ForgetRecordHolds == ASSUME HomeInv, NEW j \in Jobs, ForgetRecord(j) PROVE HomeInv'
  <1> DEFINE i == job[j].id
  <1>1. job[j].at = "forget" /\ job[j].at \in DeleteSteps /\ job[j].at \in LockSteps
    BY DEF ForgetRecord, DeleteSteps, LockSteps
  <1>2. i \in Ids /\ rec[i] # None /\ rec[i].state = "Deleting" /\ i \notin view
        /\ rec \in [Ids -> Record \cup {None}] /\ view \subseteq Ids /\ disk \subseteq Ids
    BY <1>1, SubjectKnown DEF HomeInv, JobFits
  <1>3. UNCHANGED <<view, disk, drawn, clock>> /\ rec' \in {rec, [rec EXCEPT ![i] = None]}
        /\ Become(j, AfterDelete(j)) /\ (NoFault \/ Fault)
    BY DEF ForgetRecord, OnlyRecords, WriteRecord
  <1>4. rec' \in [Ids -> Record \cup {None}] /\ OnlyOf(i)
        /\ (rec'[i] = None \/ rec'[i].state = "Deleting")
    BY <1>2, <1>3 DEF OnlyOf
  <1>5. Undisturbed(i)
    BY <1>1, <1>2, <1>3 DEF Undisturbed, HomeInv, JobFits, Readers, Deleters, ReadSteps
  <1>6. job \in [Jobs -> Job]
    BY DEF HomeInv, TypeOK
  <1> QED BY <1>1, <1>2, <1>3, <1>4, <1>5, <1>6, AfterIsJob, CallEnds


LEMMA DeleteLockHolds == ASSUME HomeInv, NEW j \in Jobs, DeleteLock(j) PROVE HomeInv'
  <1>1. PICK i \in job[j].todo :
          LET rest == job[j].todo \ {i}
              next == IF rest = {} THEN Idle ELSE NewJob("delete", None, 0, rest) IN
          IF Refused(i)
          THEN Become(j, next) /\ NoFault /\ UNCHANGED rec
          ELSE WriteRecord(j, i, [rec[i] EXCEPT !.state = "Deleting"],
                           NewJob(IF i \in view THEN "remove" ELSE "forget", i, 0, rest), next)
    BY DEF DeleteLock
  <1> DEFINE rest == job[j].todo \ {i}
             next == IF rest = {} THEN Idle ELSE NewJob("delete", None, 0, rest)
             doomed == [rec[i] EXCEPT !.state = "Deleting"]
             w == NewJob(IF i \in view THEN "remove" ELSE "forget", i, 0, rest)
  <1>2. /\ job \in [Jobs -> Job] /\ rec \in [Ids -> Record \cup {None}] /\ TypeOK
        /\ view \subseteq Ids /\ disk \subseteq Ids /\ job[j].at = "delete" /\ OperationLockFree
        /\ UNCHANGED <<view, disk, drawn, clock>>
    BY DEF HomeInv, TypeOK, DeleteLock, OnlyRecords
  <1>3. i \in Ids /\ rest \in SUBSET Ids
    <2>1. job[j].todo \in SUBSET Ids
      BY <1>2, SMT DEF Job
    <2> QED BY <2>1
  <1>4. next \in Job /\ next.at \in {"idle", "delete"}
    <2>1. CASE rest = {}
      BY <2>1, IdleIsJob
    <2>2. CASE rest # {}
      BY <1>3, <2>2, NewJobIsJob, ZeroIsTime DEF Steps
    <2> QED BY <2>1, <2>2
  <1>5. w \in Job /\ w.at \in DeleteSteps /\ w.id = i /\ (w.at = "forget" => i \notin view)
    BY <1>3, NewJobIsJob, ZeroIsTime DEF Steps, DeleteSteps
  <1>6. CASE Refused(i)
    BY <1>1, <1>2, <1>4, <1>6, OnlyJobHolds DEF OnlyJob, LockSteps, CreateSteps, DeleteSteps
  <1>7. CASE ~Refused(i)
    <2>1. Readers(i) = {} /\ rec[i] # None /\ rec[i] \in Record /\ i \in drawn
      BY <1>2, <1>3, <1>7 DEF Refused, TypeOK, Known
    <2>2. doomed \in Record /\ doomed.state = "Deleting" /\ doomed # None
      BY <2>1, StateIsRecord, HomeNone DEF States
    <2>3. /\ rec' \in {rec, [rec EXCEPT ![i] = doomed]} /\ (NoFault \/ Fault)
          /\ \/ Become(j, w) /\ rec' = [rec EXCEPT ![i] = doomed]
             \/ Become(j, next)
      BY <1>1, <1>7 DEF WriteRecord
    <2>4. /\ rec' \in [Ids -> Record \cup {None}] /\ OnlyOf(i) /\ rec'[i] # None
          /\ rec'[i].state = "Ready" => rec[i].state = "Ready"
      BY <1>2, <1>3, <2>1, <2>2, <2>3 DEF OnlyOf
    <2>5. Undisturbed(i)
      BY <2>1, <2>4 DEF Undisturbed
    <2>6. /\ job' \in [Jobs -> Job] /\ \A k \in Jobs \ {j} : job'[k] = job[k]
          /\ \/ job'[j] = w /\ rec' = [rec EXCEPT ![i] = doomed]
             \/ job'[j] = next
      BY <1>2, <1>4, <1>5, <2>3, JobBecomes
    <2>7. TypeOK'
      BY <1>2, <2>1, <2>3, <2>4, <2>6, StepType DEF OnlyOf
    <2>8. JobFits(j)'
      <3>1. CASE job'[j] = next
        BY <1>4, <3>1 DEF JobFits, CreateSteps, DeleteSteps
      <3>2. CASE job'[j] = w /\ rec' = [rec EXCEPT ![i] = doomed]
        <4>1. rec'[i] = doomed
          BY <1>2, <1>3, <3>2
        <4> QED BY <1>2, <1>3, <1>5, <2>2, <3>2, <4>1 DEF JobFits, CreateSteps, DeleteSteps
      <3> QED BY <2>6, <3>1, <3>2
    <2>9. OnlyJobOf(j)
      BY <1>4, <1>5, <2>1, <2>6 DEF OnlyJobOf, DeleteSteps
    <2>10. rec'[i].state = "Ready" /\ i \in view' => i \in disk'
      BY <1>2, <1>3, <2>1, <2>4 DEF HomeInv, OfferedIsDurable, Restorable, Listed, Known
    <2> QED
      BY <1>2, <1>3, <2>4, <2>5, <2>7, <2>8, <2>9, <2>10, StepUnderLock DEF HasLock
  <1> QED BY <1>6, <1>7

LEMMA SetPinnedHolds == ASSUME HomeInv, NEW j \in Jobs, SetPinned(j) PROVE HomeInv'
  <1>1. PICK i \in Known, pinned \in BOOLEAN :
          /\ rec[i].state = "Ready"
          /\ WriteRecord(j, i, [rec[i] EXCEPT !.pinned = pinned], Idle, Idle)
    BY DEF SetPinned
  <1> DEFINE r == [rec[i] EXCEPT !.pinned = pinned]
  <1>2. /\ job \in [Jobs -> Job] /\ rec \in [Ids -> Record \cup {None}] /\ TypeOK
        /\ view \subseteq Ids /\ disk \subseteq Ids /\ OperationLockFree
        /\ UNCHANGED <<view, disk, drawn, clock>>
    BY DEF HomeInv, TypeOK, SetPinned, OnlyRecords
  <1>3. i \in Ids /\ i \in drawn /\ rec[i] # None /\ rec[i] \in Record
    BY <1>2 DEF TypeOK, Known
  <1>4. r \in Record /\ r.state = "Ready" /\ r # None
    BY <1>1, <1>3, HomeNone, SMT DEF Record
  <1>5. rec' \in {rec, [rec EXCEPT ![i] = r]} /\ (NoFault \/ Fault) /\ Become(j, Idle)
    BY <1>1 DEF WriteRecord
  <1>6. /\ rec' \in [Ids -> Record \cup {None}] /\ OnlyOf(i)
        /\ rec'[i] # None /\ rec'[i].state = "Ready"
    BY <1>1, <1>2, <1>3, <1>4, <1>5 DEF OnlyOf
  <1>7. /\ job' \in [Jobs -> Job] /\ job'[j] = Idle /\ \A k \in Jobs \ {j} : job'[k] = job[k]
    BY <1>2, <1>5, IdleIsJob, JobBecomes
  <1>8. TypeOK'
    BY <1>2, <1>3, <1>5, <1>6, <1>7, StepType DEF OnlyOf
  <1>9. JobFits(j)' /\ OnlyJobOf(j) /\ Undisturbed(i)
    BY <1>6, <1>7, IdleIsJob DEF JobFits, OnlyJobOf, Undisturbed, CreateSteps, DeleteSteps
  <1>10. i \in view' => i \in disk'
    BY <1>1, <1>2, <1>3 DEF HomeInv, OfferedIsDurable, Restorable, Listed, Known
  <1> QED BY <1>2, <1>3, <1>6, <1>8, <1>9, <1>10, StepUnderLock DEF HasLock

(***************************************************************************)
(* Steps of the environment.                                               *)
(***************************************************************************)
LEMMA TickHolds == ASSUME HomeInv, Tick PROVE HomeInv'
  <1>1. clock' \in 0 .. MaxTime /\ UNCHANGED <<rec, view, disk, drawn, job, faults>>
    BY HomeConstants, SMT DEF HomeInv, TypeOK, Tick, NoFault
  <1> QED
    BY <1>1 DEF HomeInv, TypeOK, OneHolder, JobFits, OfferedIsDurable, Restorable, Listed, Known, Deleters

\* Without calls the invariant is about the snapshots alone.
LEMMA AllIdleHolds ==
  ASSUME HomeInv, AllIdle, Fault, UNCHANGED <<rec, drawn, clock>>,
         view' \subseteq view \cup disk, disk' \subseteq view \cup disk,
         view' \subseteq disk' \/ UNCHANGED <<view, disk>>
  PROVE  HomeInv'
  <1>1. job' \in [Jobs -> Job] /\ \A j \in Jobs : job'[j].at = "idle"
    BY IdleIsJob DEF AllIdle
  <1>2. TypeOK'
    BY <1>1, FaultsType DEF HomeInv, TypeOK, Known
  <1>3. OneHolder' /\ \A j \in Jobs : JobFits(j)'
    BY <1>1 DEF OneHolder, JobFits, LockSteps, CreateSteps, DeleteSteps
  <1>4. OfferedIsDurable'
    <2>1. ASSUME NEW i \in Restorable' PROVE i \in disk'
      <3>1. rec[i] # None /\ rec[i].state = "Ready" /\ i \in Ids /\ i \in view'
        BY <2>1 DEF Restorable, Listed, Known
      <3>2. CASE view' \subseteq disk'
        BY <3>1, <3>2
      <3>3. CASE UNCHANGED <<view, disk>>
        BY <3>1, <3>3 DEF HomeInv, OfferedIsDurable, Restorable, Listed, Known
      <3> QED BY <3>2, <3>3
    <2> QED BY <2>1 DEF OfferedIsDurable
  <1> QED BY <1>2, <1>3, <1>4 DEF HomeInv

LEMMA HelperDiesHolds == ASSUME HomeInv, HelperDies PROVE HomeInv'
  <1>1. AllIdle /\ Fault /\ UNCHANGED <<rec, view, disk, drawn, clock>>
    BY DEF HelperDies, OnlyJob
  <1> QED BY <1>1, AllIdleHolds

LEMMA LosePowerHolds == ASSUME HomeInv, LosePower PROVE HomeInv'
  <1>1. AllIdle /\ Fault /\ UNCHANGED <<rec, drawn, clock>>
        /\ view' = disk' /\ view' \subseteq view \cup disk
    BY DEF LosePower, OnlySnapshots
  <1> QED BY <1>1, AllIdleHolds

LEMMA NextHolds == ASSUME HomeInv, [Next]_vars PROVE HomeInv'
  <1>1. CASE UNCHANGED vars
    BY <1>1 DEF vars, HomeInv, TypeOK, OneHolder, JobFits, OfferedIsDurable, Restorable, Listed,
                Known, Deleters
  <1>2. CASE Tick
    BY <1>2, TickHolds
  <1>3. CASE HelperDies
    BY <1>3, HelperDiesHolds
  <1>4. CASE LosePower
    BY <1>4, LosePowerHolds
  <1>5. ASSUME NEW j \in Jobs, Begin(j) PROVE HomeInv'
    BY <1>5, CreateManualHolds, CreateScheduledHolds, DeleteHolds, SetPinnedHolds, VerifyHolds,
       CleanupHolds DEF Begin
  <1>6. ASSUME NEW j \in Jobs, JobStep(j) PROVE HomeInv'
    BY <1>6, ScheduledLockHolds, TakeSnapshotHolds, SyncHomeHolds, PublishHolds, SpoilHolds,
       DiscardHolds, DeleteLockHolds, RemoveSnapshotHolds, ForgetRecordHolds, OpenHolds,
       EndReadingHolds DEF JobStep, CreateStep, DeleteStep, ReadStep
  <1> QED BY <1>1, <1>2, <1>3, <1>4, <1>5, <1>6 DEF Next

(***************************************************************************)
(* The theorems.                                                           *)
(***************************************************************************)
\* The invariant of the Home store: one call at a time changes it, and the
\* record each call works on is the one it wrote.
THEOREM HomeInvariantHolds == Spec => []HomeInv
  <1>1. Init => HomeInv
    BY InitHolds
  <1>2. HomeInv /\ [Next]_vars => HomeInv'
    BY NextHolds
  <1> QED BY <1>1, <1>2, PTL DEF Spec

\* create_locked and delete_locked: what is offered for restoring survives a
\* power cut at any moment.
THEOREM OfferedSurvivesPowerCut == Spec => []OfferedIsDurable
  <1>1. HomeInv => OfferedIsDurable
    BY DEF HomeInv
  <1> QED BY <1>1, HomeInvariantHolds, PTL

\* The browse lock: nothing deletes a snapshot that somebody reads.
THEOREM ReadersAreSafe == Spec => []NoDeletionUnderReader
  <1>1. HomeInv => NoDeletionUnderReader
    BY DEF HomeInv, JobFits, NoDeletionUnderReader, ReadSteps
  <1> QED BY <1>1, HomeInvariantHolds, PTL

(***************************************************************************)
(* The store implements RestorePoints.  Of a step it is enough to know, of *)
(* each snapshot, that what is given up stays so and that what is offered  *)
(* stays so or is given up unprotected.                                    *)
(***************************************************************************)
GivenUp(i) == i \in drawn /\ (rec[i] = None \/ (rec[i] # None /\ rec[i].state = "Deleting"))
Offered(i) == i \in Restorable /\ ~BeingCreated(i)

Keeps(i) ==
  /\ GivenUp(i) => GivenUp(i)'
  /\ Offered(i) => Offered(i)' \/ (GivenUp(i)' /\ ~rec[i].pinned)

LEMMA KeepsIsMove ==
  ASSUME TypeOK, TypeOK', NEW i \in Ids, Keeps(i), OfferOf(i)' # OfferOf(i)
  PROVE  <<OfferOf(i), OfferOf(i)'>> \in Points!Moves /\ OfferOf(i)' \in Points!Offers
  <1>1. /\ OfferOf(i) = IF GivenUp(i) THEN "gone" ELSE IF ~Offered(i) THEN "none"
                        ELSE IF rec[i].pinned THEN "protected" ELSE "open"
        /\ OfferOf(i)' = IF GivenUp(i)' THEN "gone" ELSE IF ~Offered(i)' THEN "none"
                         ELSE IF rec'[i].pinned THEN "protected" ELSE "open"
    BY DEF OfferOf, GivenUp, Offered
  <1>2. CASE GivenUp(i)
    BY <1>1, <1>2 DEF Keeps
  <1>3. CASE ~GivenUp(i) /\ ~Offered(i)
    BY <1>1, <1>3 DEF Points!Moves, Points!Offers
  <1>4. CASE ~GivenUp(i) /\ Offered(i)
    <2>1. CASE GivenUp(i)' /\ ~rec[i].pinned
      BY <1>1, <1>4, <2>1 DEF Points!Moves, Points!Offers
    <2>2. CASE Offered(i)' /\ ~GivenUp(i)'
      <3>1. /\ OfferOf(i) = IF rec[i].pinned THEN "protected" ELSE "open"
            /\ OfferOf(i)' = IF rec'[i].pinned THEN "protected" ELSE "open"
        BY <1>1, <1>4, <2>2
      <3> QED BY <3>1 DEF Points!Moves, Points!Offers
    <2>3. Offered(i)' => ~GivenUp(i)'
      BY DEF Offered, GivenUp, Restorable, Listed, Known
    <2> QED BY <1>4, <2>1, <2>2, <2>3 DEF Keeps
  <1> QED BY <1>2, <1>3, <1>4

LEMMA UntouchedKeeps ==
  ASSUME NEW i \in Ids, rec'[i] = rec[i], i \in view => i \in view', drawn \subseteq drawn',
         ~BeingCreated(i) => ~BeingCreated(i)'
  PROVE  Keeps(i)
  BY DEF Keeps, GivenUp, Offered, Restorable, Listed, Known

LEMMA NoNewCreation ==
  ASSUME HomeInv, NEW j \in Jobs, NEW w \in Job, Become(j, w), NEW i \in Ids,
         w.at \in CreateSteps /\ w.id = i => job[j].at \in CreateSteps /\ job[j].id = i,
         ~BeingCreated(i)
  PROVE  ~BeingCreated(i)'
  <1>1. job'[j] = w /\ \A k \in Jobs \ {j} : job'[k] = job[k]
    BY JobBecomes DEF HomeInv, TypeOK
  <1> QED BY <1>1 DEF BeingCreated

\* What a step under operation.lock does to any other snapshot.
LEMMA OtherKeeps ==
  ASSUME HomeInv, NEW j \in Jobs, NEW w \in Job, Become(j, w), NEW i \in Ids, NEW x \in Ids, x # i,
         rec'[i] = rec[i], i \in view => i \in view', drawn \subseteq drawn',
         w.at \in CreateSteps => w.id = x
  PROVE  Keeps(i)
  BY NoNewCreation, UntouchedKeeps

\* A snapshot that is being created is neither offered nor given up.
LEMMA CreatedKeeps ==
  ASSUME HomeInv, NEW j \in Jobs, job[j].at \in CreateSteps, NEW i \in Ids, i = job[j].id
  PROVE  Keeps(i)
  BY DEF Keeps, GivenUp, Offered, BeingCreated, HomeInv, JobFits

\* A deletion that has begun only goes on.
LEMMA DoomedKeeps ==
  ASSUME HomeInv, NEW j \in Jobs, job[j].at \in DeleteSteps, UNCHANGED drawn,
         NEW i \in Ids, i = job[j].id, rec' \in {rec, [rec EXCEPT ![i] = None]}
  PROVE  Keeps(i)
  <1>1. /\ rec[i] # None /\ rec[i].state = "Deleting"
        /\ rec \in [Ids -> Record \cup {None}] /\ i \in drawn
    BY DEF HomeInv, JobFits, TypeOK, Known
  <1>2. GivenUp(i)'
    BY <1>1 DEF GivenUp
  <1> QED BY <1>1, <1>2 DEF Keeps, Offered, Restorable

LEMMA OnlyJobKeeps ==
  ASSUME HomeInv, NEW j \in Jobs, NEW w \in Job, Become(j, w), NEW i \in Ids,
         w.at \in CreateSteps => job[j].at \in CreateSteps /\ w.id = job[j].id,
         UNCHANGED <<rec, drawn>>, i \in view => i \in view'
  PROVE  Keeps(i)
  BY NoNewCreation, UntouchedKeeps

LEMMA RecordCreatingKeeps ==
  ASSUME HomeInv, NEW j \in Jobs, NEW kind, NEW pinned, RecordCreating(j, kind, pinned), NEW i \in Ids
  PROVE  Keeps(i)
  <1>1. PICK x \in Ids \ drawn :
          /\ drawn' = drawn \cup {x}
          /\ WriteRecord(j, x, NewRecord(kind, pinned), NewJob("snapshot", x, 0, {}), Idle)
          /\ UNCHANGED <<view, disk, clock>>
    BY DEF RecordCreating
  <1>2. rec \in [Ids -> Record \cup {None}] /\ rec[x] = None
    BY <1>1 DEF HomeInv, TypeOK, Known
  <1>3. CASE i = x
    BY <1>1, <1>2, <1>3 DEF Keeps, GivenUp, Offered, Restorable, Listed, Known
  <1>4. CASE i # x
    <2>1. rec'[i] = rec[i]
      BY <1>1, <1>2, <1>4 DEF WriteRecord
    <2>2. NewJob("snapshot", x, 0, {}) \in Job /\ NewJob("snapshot", x, 0, {}).id = x
      <3>1. "snapshot" \in Steps /\ x \in Ids
        BY DEF Steps, CreateSteps
      <3> QED BY <3>1, NewJobIsJob, ZeroIsTime
    <2>3. PICK w \in {Idle, NewJob("snapshot", x, 0, {})} : Become(j, w)
      BY <1>1 DEF WriteRecord
    <2> QED
      BY <1>1, <1>4, <2>1, <2>2, <2>3, IdleIsJob, OtherKeeps DEF CreateSteps
  <1> QED BY <1>3, <1>4

LEMMA CreateStepKeeps ==
  ASSUME HomeInv, NEW j \in Jobs, CreateStep(j), NEW i \in Ids
  PROVE  Keeps(i)
  <1>1. CASE ScheduledLock(j)
    <2>1. CASE Refuse(j)
      BY <2>1, IdleIsJob, OnlyJobKeeps DEF Refuse, OnlyJob, CreateSteps
    <2> QED BY <1>1, <2>1, RecordCreatingKeeps DEF ScheduledLock
  <1>2. CASE TakeSnapshot(j) \/ SyncHome(j) \/ Publish(j) \/ Spoil(j) \/ Discard(j)
    <2> DEFINE x == job[j].id
    <2>1. job[j].at \in CreateSteps /\ job[j].at \in LockSteps
      BY <1>2 DEF TakeSnapshot, SyncHome, Publish, Spoil, Discard, CreateSteps, LockSteps
    <2>2. x \in Ids /\ rec \in [Ids -> Record \cup {None}] /\ job \in [Jobs -> Job]
      BY <2>1, SubjectKnown
    <2>3. CASE i = x
      BY <2>1, <2>3, CreatedKeeps
    <2>4. CASE i # x
      <3>1. rec'[i] = rec[i] /\ (i \in view => i \in view') /\ UNCHANGED drawn
        BY <1>2, <2>2, <2>4
        DEF TakeSnapshot, SyncHome, Publish, Spoil, Discard, OnlySnapshots, OnlyRecords,
            WriteRecord, DeleteSnapshot
      <3>2. \E w \in {Idle} \cup {At(j, s) : s \in CreateSteps} : Become(j, w)
        BY <1>2 DEF TakeSnapshot, SyncHome, Publish, Spoil, Discard, WriteRecord, DeleteSnapshot,
                    Goto, At, CreateSteps
      <3>3. PICK w \in {Idle} \cup {At(j, s) : s \in CreateSteps} : Become(j, w)
        BY <3>2
      <3>4. w \in Job /\ (w.at \in CreateSteps => w.id = x)
        BY <2>2, <3>3, AtIsJob, IdleIsJob, LockStepsAreSteps DEF LockSteps, CreateSteps
      <3> QED BY <2>2, <2>4, <3>1, <3>3, <3>4, OtherKeeps
    <2> QED BY <2>3, <2>4
  <1> QED BY <1>1, <1>2 DEF CreateStep

LEMMA DeleteLockKeeps ==
  ASSUME HomeInv, NEW j \in Jobs, DeleteLock(j), NEW i \in Ids
  PROVE  Keeps(i)
  <1>1. PICK x \in job[j].todo :
          LET rest == job[j].todo \ {x}
              next == IF rest = {} THEN Idle ELSE NewJob("delete", None, 0, rest) IN
          IF Refused(x)
          THEN Become(j, next) /\ NoFault /\ UNCHANGED rec
          ELSE WriteRecord(j, x, [rec[x] EXCEPT !.state = "Deleting"],
                           NewJob(IF x \in view THEN "remove" ELSE "forget", x, 0, rest), next)
    BY DEF DeleteLock
  <1> DEFINE rest == job[j].todo \ {x}
             next == IF rest = {} THEN Idle ELSE NewJob("delete", None, 0, rest)
             doomed == [rec[x] EXCEPT !.state = "Deleting"]
             w == NewJob(IF x \in view THEN "remove" ELSE "forget", x, 0, rest)
  <1>2. job \in [Jobs -> Job] /\ rec \in [Ids -> Record \cup {None}] /\ UNCHANGED <<view, drawn>>
    BY DEF HomeInv, TypeOK, DeleteLock, OnlyRecords
  <1>3. x \in Ids /\ rest \in SUBSET Ids
    <2>1. job[j].todo \in SUBSET Ids
      BY <1>2, SMT DEF Job
    <2> QED BY <2>1
  <1>4. next \in Job /\ next.at \notin CreateSteps
    <2>1. CASE rest = {}
      BY <2>1, IdleIsJob DEF CreateSteps
    <2>2. CASE rest # {}
      BY <1>3, <2>2, NewJobIsJob, ZeroIsTime DEF Steps, CreateSteps
    <2> QED BY <2>1, <2>2
  <1>5. w \in Job /\ w.at \notin CreateSteps
    BY <1>3, NewJobIsJob, ZeroIsTime DEF Steps, DeleteSteps, CreateSteps
  <1>6. (Become(j, next) \/ Become(j, w)) /\ (rec' = rec \/ (~Refused(x) /\ rec' = [rec EXCEPT ![x] = doomed]))
    BY <1>1 DEF WriteRecord
  <1>7. ~BeingCreated(i) => ~BeingCreated(i)'
    BY <1>4, <1>5, <1>6, NoNewCreation
  <1>8. CASE rec'[i] = rec[i]
    BY <1>2, <1>7, <1>8, UntouchedKeeps
  <1>9. CASE i = x /\ ~Refused(x) /\ rec' = [rec EXCEPT ![x] = doomed]
    <2>1. rec[i] # None /\ rec[i] \in Record /\ ~rec[i].pinned /\ i \in drawn
      BY <1>2, <1>3, <1>9 DEF Refused, CanDelete, HomeInv, TypeOK, Known
    <2>2. rec'[i] # None /\ rec'[i].state = "Deleting"
      BY <1>2, <1>3, <1>9, <2>1, StateIsRecord, HomeNone DEF States
    <2> QED BY <1>2, <2>1, <2>2 DEF Keeps, GivenUp
  <1> QED BY <1>2, <1>3, <1>6, <1>8, <1>9

LEMMA DeleteStepKeeps ==
  ASSUME HomeInv, NEW j \in Jobs, RemoveSnapshot(j) \/ ForgetRecord(j), NEW i \in Ids
  PROVE  Keeps(i)
  <1> DEFINE x == job[j].id
  <1>1. job[j].at \in DeleteSteps /\ job[j].at \in LockSteps
    BY DEF RemoveSnapshot, ForgetRecord, DeleteSteps, LockSteps
  <1>2. x \in Ids /\ rec \in [Ids -> Record \cup {None}] /\ job \in [Jobs -> Job]
    BY <1>1, SubjectKnown
  <1>3. rec' \in {rec, [rec EXCEPT ![x] = None]} /\ UNCHANGED drawn
        /\ (i # x => (i \in view => i \in view'))
        /\ (Become(j, AfterDelete(j)) \/ Become(j, At(j, "forget")))
    BY DEF RemoveSnapshot, ForgetRecord, OnlySnapshots, OnlyRecords, WriteRecord, DeleteSnapshot
  <1>4. CASE i = x
    BY <1>1, <1>3, <1>4, DoomedKeeps
  <1>5. CASE i # x
    <2>1. PICK w \in {AfterDelete(j), At(j, "forget")} : Become(j, w)
      BY <1>3
    <2>2. w \in Job /\ w.at \notin CreateSteps
      BY <1>2, <2>1, AfterIsJob, AtIsJob DEF Steps, DeleteSteps, CreateSteps
    <2>3. rec'[i] = rec[i]
      BY <1>2, <1>3, <1>5
    <2> QED BY <1>2, <1>3, <1>5, <2>1, <2>2, <2>3, OtherKeeps
  <1> QED BY <1>4, <1>5

LEMMA SetPinnedKeeps ==
  ASSUME HomeInv, NEW j \in Jobs, SetPinned(j), NEW i \in Ids
  PROVE  Keeps(i)
  <1>1. PICK x \in Known, pinned \in BOOLEAN :
          /\ rec[x].state = "Ready"
          /\ WriteRecord(j, x, [rec[x] EXCEPT !.pinned = pinned], Idle, Idle)
    BY DEF SetPinned
  <1>2. rec \in [Ids -> Record \cup {None}] /\ UNCHANGED <<view, drawn>> /\ Become(j, Idle)
    BY <1>1 DEF HomeInv, TypeOK, SetPinned, OnlyRecords, WriteRecord
  <1>3. x \in Ids /\ rec[x] \in Record
    BY <1>2 DEF Known
  <1> DEFINE r == [rec[x] EXCEPT !.pinned = pinned]
  <1>4. r.state = "Ready" /\ r # None
    BY <1>1, <1>3, HomeNone, SMT DEF Record
  <1>5. rec' \in {rec, [rec EXCEPT ![x] = r]}
    BY <1>1 DEF WriteRecord
  <1>6. ~BeingCreated(i) => ~BeingCreated(i)'
    BY <1>2, IdleIsJob, NoNewCreation DEF CreateSteps
  <1>7. CASE rec'[i] = rec[i]
    BY <1>2, <1>6, <1>7, UntouchedKeeps
  <1>8. CASE i = x /\ rec' = [rec EXCEPT ![x] = r]
    <2>1. rec'[i] = r /\ rec[i].state = "Ready" /\ rec[i] # None
      BY <1>1, <1>2, <1>3, <1>8 DEF Known
    <2> QED BY <1>2, <1>4, <1>6, <2>1 DEF Keeps, GivenUp, Offered, Restorable, Listed, Known
  <1> QED BY <1>2, <1>3, <1>5, <1>7, <1>8

LEMMA CallKeeps ==
  ASSUME HomeInv, NEW j \in Jobs, NEW i \in Ids,
         CreateScheduled(j) \/ Delete(j) \/ Verify(j) \/ Cleanup(j) \/ Open(j) \/ EndReading(j)
  PROVE  Keeps(i)
  <1>1. UNCHANGED <<rec, drawn, view>>
    BY DEF CreateScheduled, Delete, Verify, Cleanup, Open, EndReading, OnlyJob
  <1>2. \E w \in Job : w.at \notin CreateSteps /\ Become(j, w)
    <2>1. /\ job \in [Jobs -> Job] /\ clock \in 0 .. MaxTime /\ Restorable \subseteq Ids
          /\ Known \subseteq Ids
      BY DEF HomeInv, TypeOK, Restorable, Listed, Known
    <2>2. CASE CreateScheduled(j)
      BY <2>1, <2>2, NewJobIsJob, ZeroIsTime DEF CreateScheduled, Steps, CreateSteps
    <2>3. CASE Delete(j) \/ Cleanup(j)
      <3>1. PICK selected \in SUBSET Ids : Become(j, NewJob("delete", None, 0, selected))
        BY <2>1, <2>3 DEF Delete, Cleanup, Cleanups, Candidates
      <3> QED BY <3>1, NewJobIsJob, ZeroIsTime DEF Steps, CreateSteps
    <2>4. CASE Verify(j)
      BY <2>1, <2>4, NewJobIsJob, ZeroIsTime DEF Verify, Steps, CreateSteps
    <2>5. CASE Open(j) \/ EndReading(j)
      <3>1. PICK w \in {Idle, At(j, "reading")} : Become(j, w)
        BY <2>5 DEF Open, EndReading, Goto, At
      <3> QED BY <2>1, <3>1, IdleIsJob, AtIsJob DEF Steps, ReadSteps, CreateSteps
    <2> QED BY <2>2, <2>3, <2>4, <2>5
  <1> QED BY <1>1, <1>2, OnlyJobKeeps

LEMMA EnvironmentKeeps ==
  ASSUME HomeInv, Tick \/ HelperDies \/ LosePower \/ UNCHANGED vars, NEW i \in Ids
  PROVE  Keeps(i)
  <1>1. UNCHANGED <<rec, drawn>> /\ (UNCHANGED job \/ AllIdle)
    BY DEF Tick, HelperDies, LosePower, OnlyJob, OnlySnapshots, vars
  <1>2. ~BeingCreated(i) => ~BeingCreated(i)'
    <2>1. AllIdle => \A j \in Jobs : job'[j].at = "idle"
      BY IdleIsJob DEF AllIdle
    <2> QED BY <1>1, <2>1 DEF BeingCreated, CreateSteps
  <1>3. i \in Restorable => i \in view /\ i \in view'
    BY DEF Tick, HelperDies, LosePower, OnlyJob, vars, HomeInv, OfferedIsDurable, Restorable, Listed, Known
  <1> QED BY <1>1, <1>2, <1>3 DEF Keeps, GivenUp, Offered, Restorable, Listed, Known

LEMMA StepKeeps ==
  ASSUME HomeInv, [Next]_vars, NEW i \in Ids
  PROVE  Keeps(i)
  <1>1. ASSUME NEW j \in Jobs, Begin(j) PROVE Keeps(i)
    BY <1>1, RecordCreatingKeeps, SetPinnedKeeps, CallKeeps DEF Begin, CreateManual
  <1>2. ASSUME NEW j \in Jobs, JobStep(j) PROVE Keeps(i)
    BY <1>2, CreateStepKeeps, DeleteLockKeeps, DeleteStepKeeps, CallKeeps
    DEF JobStep, DeleteStep, ReadStep
  <1> QED BY <1>1, <1>2, EnvironmentKeeps DEF Next

\* The Home store keeps the promise of a store of restore points, whatever
\* fails and whenever the helper dies or the power is cut: what is offered goes
\* only by a deletion, a protected snapshot never does, and none comes back.
THEOREM StoreImplementsRestorePoints == Spec => ImplementsRestorePoints
  <1> DEFINE offers == [i \in Ids |-> OfferOf(i)]
  <1>1. Init => Points!Init
    BY DEF Init, Points!Init, OfferOf, Restorable, Listed, Known
  <1>2. HomeInv /\ HomeInv' /\ [Next]_vars => [Points!Next]_offers
    <2> SUFFICES ASSUME HomeInv, HomeInv', [Next]_vars, offers' # offers PROVE Points!Next
      OBVIOUS
    <2>1. \A i \in Ids : OfferOf(i)' # OfferOf(i) =>
            <<OfferOf(i), OfferOf(i)'>> \in Points!Moves
      BY StepKeeps, KeepsIsMove DEF HomeInv
    <2>2. \A i \in Ids : OfferOf(i)' \in Points!Offers
      BY DEF OfferOf, Points!Offers
    <2> QED BY <2>1, <2>2 DEF Points!Next
  <1> QED BY <1>1, <1>2, HomeInvariantHolds, PTL DEF Spec, ImplementsRestorePoints, Points!Spec
=============================================================================
