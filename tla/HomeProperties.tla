---------------------------- MODULE HomeProperties ----------------------------
(***************************************************************************)
(* What the Home history promises.                                         *)
(***************************************************************************)
EXTENDS PersonalSnapshots

TypeOK ==
  /\ rec \in [Ids -> Record \cup {None}]
  /\ view \subseteq Ids /\ disk \subseteq Ids /\ drawn \subseteq Ids
  /\ clock \in 0 .. MaxTime /\ faults \in 0 .. MaxFaults
  /\ job \in [Jobs -> Job]
  /\ Known \cup view \cup disk \subseteq drawn

\* A snapshot that is offered for restoring is on the disk: a power cut after
\* any step of any call does not take it (create_locked syncs the file system
\* before it publishes, a deletion marks the record before it removes).
OfferedIsDurable == Restorable \subseteq disk

\* Timers that fire together, twice or late never make a scheduled snapshot
\* within the interval of an older one (create_scheduled_if_due decides under
\* the lock of the creation).  A manual one may follow at any time.  What three
\* failures of one creation hide from the check and a power cut brings back is
\* beyond the bound of faults.
Spaced ==
  \A a, b \in Restorable :
    /\ a # b /\ rec[b].kind = "Automatic" /\ rec[a].created <= rec[b].created
    => \/ rec[b].created >= rec[a].created + Interval
       \/ rec[a].kind = "Manual" /\ rec[a].created = rec[b].created

\* No deletion takes a snapshot from under its reader, although the reader
\* looked at the record before it had the lock and an earlier deletion may have
\* failed half-way (browser, delete).
NoDeletionUnderReader ==
  \A j \in Jobs : job[j].at \in ReadSteps =>
    LET i == job[j].id IN
    rec[i] # None /\ (rec[i].state = "Deleting" => i \in view)

(***************************************************************************)
(* The store as a set of restore points.  A creation that has not returned *)
(* offers nothing yet; a record that is being deleted offers nothing more. *)
(***************************************************************************)
BeingCreated(i) == \E j \in Jobs : job[j].id = i /\ job[j].at \in CreateSteps

OfferOf(i) ==
  IF i \in drawn /\ (rec[i] = None \/ (rec[i] # None /\ rec[i].state = "Deleting")) THEN "gone"
  ELSE IF i \notin Restorable \/ BeingCreated(i) THEN "none"
  ELSE IF rec[i].pinned THEN "protected" ELSE "open"

Points == INSTANCE RestorePoints WITH Points <- Ids, offer <- [i \in Ids |-> OfferOf(i)]

\* What is offered is never lost but by a deletion, never deleted while it is
\* protected and never offered again, whatever fails, dies or loses power.
ImplementsRestorePoints == Points!Spec

(***************************************************************************)
(* The inductive invariant.                                                *)
(***************************************************************************)
OneHolder ==
  \A j, k \in Jobs : job[j].at \in LockSteps /\ job[k].at \in LockSteps => j = k

\* The record a creation or a deletion works on is the one it wrote.
JobFits(j) ==
  LET i == job[j].id
      at == job[j].at IN
  /\ at \in CreateSteps =>
       /\ i \in drawn /\ rec[i] # None /\ rec[i].state # "Deleting"
       /\ at \in {"snapshot", "sync", "publish"} => rec[i].state = "Creating"
       /\ at = "sync" => i \in view
       /\ at = "publish" => i \in disk
  /\ at \in DeleteSteps => i \in Ids /\ rec[i] # None /\ rec[i].state = "Deleting"
  /\ at \in {"lock_shared", "reading"} => i \in Ids /\ (rec[i] = None => i \notin view)
  /\ at = "reading" => /\ Deleters(i) = {} /\ rec[i] # None
                       /\ rec[i].state = "Deleting" => i \in view
  /\ at = "forget" => i \notin view

HomeInv ==
  /\ TypeOK
  /\ OneHolder
  /\ \A j \in Jobs : JobFits(j)
  /\ OfferedIsDurable
=============================================================================
