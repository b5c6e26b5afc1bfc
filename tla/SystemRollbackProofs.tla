-------------------------- MODULE SystemRollbackProofs --------------------------
(***************************************************************************)
(* Proofs that the invariants of a machine that rolls back hold for any    *)
(* number of rollbacks, boots, attempts, concurrent calls and faults. The  *)
(* second half is about the outcomes: what the history, the lineage, the   *)
(* pending record and the installed root say of a rollback is one story,   *)
(* never retold, in the order of can_transition_to.                        *)
(***************************************************************************)
EXTENDS RollbackProperties, TLAPS

(***************************************************************************)
(* The record operations stay within the record's type.                    *)
(***************************************************************************)
LEMMA NewTransactionType ==
  ASSUME NEW i \in TxIds
  PROVE  NewTransaction(i) \in Transaction /\ NewTransaction(i).phase = "Preparing"
BY MaxAttemptsAssumption DEF NewTransaction, Transaction, Phases

LEMMA EntryType ==
  ASSUME NEW t \in Transaction, NEW b \in BootIds, CanEnterInitramfs(t)
  PROVE  /\ RecordInitramfsEntry(t, b) \in Transaction
         /\ RecordInitramfsEntry(t, b).phase = t.phase
<1>1. t.initramfs_attempts + 1 \in 0..MaxAttempts
  <2>1. t.initramfs_attempts \in 0..MaxAttempts
    BY DEF Transaction
  <2> QED
    BY <2>1, MaxAttemptsAssumption DEF CanEnterInitramfs
<1>2. "InitramfsEntered" \in Checkpoints
  BY DEF Checkpoints
<1> QED
  BY <1>1, <1>2 DEF RecordInitramfsEntry, Transaction

LEMMA CheckpointType ==
  ASSUME NEW t \in Transaction, NEW c \in Checkpoints \cup {None}
  PROVE  /\ RecordCheckpoint(t, c) \in Transaction
         /\ RecordCheckpoint(t, c).phase = t.phase
BY DEF RecordCheckpoint, Transaction

LEMMA TransitionType ==
  ASSUME NEW t \in Transaction, NEW p \in Phases
  PROVE  /\ Transition(t, p) \in Transaction
         /\ Transition(t, p).phase = p
BY DEF Transition, Transaction

LEMMA BeginApplyType ==
  ASSUME NEW t \in Transaction, NEW b \in BootIds, CanBeginApply(t, b)
  PROVE  /\ BeginApply(t, b) \in Transaction
         /\ BeginApply(t, b).phase = "Applying"
<1>1. t.apply_attempts + 1 \in 0..MaxAttempts
  <2>1. t.apply_attempts \in 0..MaxAttempts
    BY DEF Transaction
  <2> QED
    BY <2>1, MaxAttemptsAssumption DEF CanBeginApply
<1>2. "ApplyStarted" \in Checkpoints /\ "Applying" \in Phases
  BY DEF Checkpoints, Phases
<1> QED
  BY <1>1, <1>2 DEF BeginApply, Transaction

LEMMA FailureType ==
  ASSUME NEW t \in Transaction
  PROVE  /\ RecordFailure(t) \in Transaction
         /\ RecordFailure(t).phase = "Failed"
BY DEF RecordFailure, Transaction, Phases

LEMMA NoneIsNoRecord == None \notin Transaction
BY NoneAssumption

LEMMA FaultType ==
  ASSUME faults \in 0..MaxFaults, Fault
  PROVE  faults' \in 0..MaxFaults
BY StateAssumption DEF Fault

(***************************************************************************)
(* The two loops.  Every command either leaves the protected root alone or *)
(* renames the one committed system between root and old.                  *)
(***************************************************************************)
LEMMA ApplyMove ==
  ASSUME NEW l, NEW i, NEW m \in ApplyMoves(l, i)
  PROVE
    \/ /\ l.root # None /\ l.old = None
       /\ m = Move(Layout(l.root, None, i), "WritableTargetCreated")
    \/ /\ l.root # None /\ l.old = None
       /\ m = Move(Layout(None, l.root, l.new), "CurrentRootProtected")
    \/ /\ l.root = None /\ l.old # None
       /\ m = Move(Layout(l.new, l.old, None), "TargetRootActivated")
BY Zenon DEF ApplyMoves, Present

LEMMA RevertMove ==
  ASSUME NEW l, NEW m \in RevertMoves(l)
  PROVE
    \/ /\ l.root # None /\ l.old = None
       /\ m = Move(Layout(l.root, None, None), "DiscardedRootDeleted")
    \/ /\ l.root = None /\ l.old # None
       /\ m = Move(Layout(l.old, None, l.new), "FallbackRootActivated")
    \/ /\ l.root # None /\ l.old # None
       /\ m = Move(Layout(None, l.old, l.root), "RestoredRootMovedAside")
BY Zenon DEF RevertMoves, Present

Saved(l) == IF l.old # None THEN l.old ELSE l.root

LEMMA MoveKeepsSaved ==
  ASSUME tx \in Transaction, view \in Layouts, NEW m \in Moves
  PROVE  /\ m.to \in Layouts
         /\ m.checkpoint \in Checkpoints
         /\ Saved(m.to) = Saved(view)
<1>1. tx.id \in TxIds
  BY DEF Transaction
<1>2. CASE tx.phase = "Applying"
  <2>1. m \in ApplyMoves(view, tx.id)
    BY <1>2 DEF Moves
  <2> QED
    BY <1>1, <2>1, ApplyMove DEF Saved, Move, Layout, Layouts, Systems, Checkpoints
<1>3. CASE tx.phase # "Applying"
  <2>1. m \in RevertMoves(view)
    BY <1>3 DEF Moves
  <2> QED
    BY <2>1, RevertMove DEF Saved, Move, Layout, Layouts, Systems, Checkpoints
<1> QED
  BY <1>2, <1>3

(***************************************************************************)
(* The frame: types, and who runs when.                                    *)
(***************************************************************************)
Frame == TypeOK /\ EngineRuns /\ CallsRun

LEMMA InitFrame == Init => Frame
<1> SUFFICES ASSUME Init PROVE Frame
  OBVIOUS
<1>1. TypeOK
  <2>1. view \in Layouts /\ disk \in Layouts
    BY DEF Init, Layout, Layouts, Systems
  <2>2. rounds \in 0..RevertRounds /\ faults \in 0..MaxFaults
    BY StateAssumption DEF Init, RevertRounds
  <2> QED
    BY <2>1, <2>2 DEF Init, TypeOK, EnginePcs, CallSteps
<1>2. EngineRuns /\ CallsRun
  BY DEF Init, EngineRuns, CallsRun, Fits, Scheduling, Finishing
<1> QED
  BY <1>1, <1>2 DEF Frame

(***************************************************************************)
(* Engine steps.                                                           *)
(***************************************************************************)
LEMMA EngineFrame ==
  ASSUME Frame, power = "initramfs",
         UNCHANGED <<history, lineage, grubVars, bootVars, callVars>>,
         tx' \in Transaction \cup {None}, view' \in Layouts, disk' \in Layouts,
         pc' \in EnginePcs, rounds' \in 0..RevertRounds,
         owed' \in Checkpoints \cup {None}, faults' \in 0..MaxFaults,
         pc' \notin {"idle", "hook", "done"} => tx' # None,
         pc' \in {"validating", "validate", "begin"} => tx'.phase \in {"Armed", "Applying"},
         pc' \in {"loop", "sync", "checkpoint"} => tx'.phase \in {"Applying", "Reverting"}
  PROVE  Frame'
<1>1. TypeOK'
  BY DEF Frame, TypeOK, grubVars, bootVars, callVars
<1>2. EngineRuns'
  BY DEF EngineRuns, bootVars
<1>3. CallsRun'
  BY DEF Frame, CallsRun, bootVars, callVars
<1> QED
  BY <1>1, <1>2, <1>3 DEF Frame

LEMMA WriteEffect ==
  ASSUME Frame, NEW t, NEW next \in EnginePcs, Write(t, next)
  PROVE  /\ tx' \in {tx, t}
         /\ pc' \in {next, "done"}
         /\ pc' # "done" => tx' = t
         /\ faults' \in 0..MaxFaults
<1>1. faults \in 0..MaxFaults
  BY DEF Frame, TypeOK
<1> QED
  BY <1>1, FaultType DEF Write, Goto

\* A step that writes record t, which fits the step it leads to.
LEMMA EngineWrite ==
  ASSUME Frame, power = "initramfs", NEW t \in Transaction, NEW next \in EnginePcs,
         OnlyRecord(Write(t, next)),
         rounds' \in 0..RevertRounds, owed' \in Checkpoints \cup {None},
         next # "idle",
         next \in {"validating", "validate", "begin"} => t.phase \in {"Armed", "Applying"},
         next \in {"loop", "sync", "checkpoint"} => t.phase \in {"Applying", "Reverting"}
  PROVE  Frame'
<1>1. /\ tx' \in {tx, t} /\ pc' \in {next, "done"} /\ faults' \in 0..MaxFaults
      /\ pc' # "done" => tx' = t
  BY WriteEffect DEF OnlyRecord
<1>2. t # None
  BY NoneIsNoRecord
<1>3. UNCHANGED <<history, lineage, layoutVars, grubVars, bootVars, callVars>>
  BY DEF OnlyRecord
<1>4. tx' \in Transaction \cup {None} /\ view' \in Layouts /\ disk' \in Layouts
  BY <1>1, <1>3 DEF Frame, TypeOK, layoutVars
<1>5. pc' \in EnginePcs
  BY <1>1 DEF EnginePcs
<1>6. /\ pc' \notin {"idle", "hook", "done"} => tx' # None
      /\ pc' \in {"validating", "validate", "begin"} => tx'.phase \in {"Armed", "Applying"}
      /\ pc' \in {"loop", "sync", "checkpoint"} => tx'.phase \in {"Applying", "Reverting"}
  BY <1>1, <1>2
<1> QED
  BY <1>1, <1>3, <1>4, <1>5, <1>6, EngineFrame

LEMMA PhaseTypes ==
  /\ {"Reverting", "BootedUnconfirmed", "Reverted", "Confirmed", "Armed"} \subseteq Phases
  /\ {"RevertStarted", "Validating", "BootedUnconfirmedRecorded", "RevertedRecorded"}
       \subseteq Checkpoints
BY DEF Phases, Checkpoints

LEMMA EnginePreservesFrame ==
  ASSUME Frame, Engine
  PROVE  Frame'
<1> USE DEF Frame
<1>0. power = "initramfs" /\ tx \in Transaction \cup {None} /\ boot \in BootIds
      /\ rounds \in 0..RevertRounds /\ owed \in Checkpoints \cup {None}
  BY DEF Engine, TypeOK
<1>00. pc \notin {"idle", "hook", "done"} => tx \in Transaction
  BY <1>0 DEF EngineRuns
<1>000. /\ {"engine", "validating", "validate", "begin", "loop", "sync", "checkpoint", "done"}
             \subseteq EnginePcs
        /\ ApplyRounds \in 0..RevertRounds /\ RevertRounds \in 0..RevertRounds
  BY DEF EnginePcs, ApplyRounds, RevertRounds
<1>1. CASE Hook
  <2>1. pc' \in {"done", "engine"} /\ (pc' = "engine" => tx # None) /\ faults' \in 0..MaxFaults
    BY <1>1, FaultType DEF Hook, Goto, TypeOK
  <2> QED
    BY <1>0, <1>000, <1>1, <2>1, EngineFrame DEF Hook, OnlyControl, TypeOK, recordVars, layoutVars
<1>2. CASE FailSafe
  BY <1>0, <1>00, <1>000, <1>2, FailureType, EngineWrite DEF FailSafe
<1>3. CASE Enter
  <2>1. tx \in Transaction /\ CanEnterInitramfs(tx) /\ tx.phase \in {"Armed", "Applying"}
    BY <1>00, <1>3 DEF Enter, Enterable, CanEnterInitramfs
  <2> QED
    BY <1>0, <1>000, <1>3, <2>1, EntryType, EngineWrite DEF Enter
<1>4. CASE StartRevert
  <2>1. tx \in Transaction
    BY <1>00, <1>4 DEF StartRevert
  <2>2. /\ RecordCheckpoint(Transition(tx, "Reverting"), "RevertStarted") \in Transaction
        /\ RecordCheckpoint(Transition(tx, "Reverting"), "RevertStarted").phase = "Reverting"
    <3>1. /\ Transition(tx, "Reverting") \in Transaction
          /\ Transition(tx, "Reverting").phase = "Reverting"
      BY <2>1, PhaseTypes, TransitionType
    <3> QED
      BY <3>1, PhaseTypes, CheckpointType
  <2> QED
    BY <1>0, <1>000, <1>4, <2>2, EngineWrite DEF StartRevert
<1>5. CASE ResumeRevert
  <2>1. tx \in Transaction /\ tx # None
    BY <1>00, <1>5, NoneIsNoRecord DEF ResumeRevert
  <2> QED
    BY <1>0, <1>000, <1>5, <2>1, EngineFrame
       DEF ResumeRevert, OnlyControl, Goto, TypeOK, recordVars, layoutVars
<1>6. CASE NoAction
  BY <1>0, <1>000, <1>6, EngineFrame
     DEF NoAction, OnlyControl, Goto, TypeOK, recordVars, layoutVars
<1>7. CASE PersistValidating
  <2>1. tx \in Transaction /\ tx.phase \in {"Armed", "Applying"}
    BY <1>00, <1>7 DEF PersistValidating, EngineRuns
  <2> QED
    BY <1>0, <1>000, <1>7, <2>1, PhaseTypes, CheckpointType, EngineWrite DEF PersistValidating
<1>8. CASE ValidateDeployments
  BY <1>0, <1>00, <1>000, <1>8, EngineFrame, NoneIsNoRecord
     DEF ValidateDeployments, EngineRuns, OnlyControl, Goto, TypeOK, recordVars, layoutVars
<1>9. CASE RejectDeployments
  <2>1. tx' \in Transaction \cup {None}
    BY <1>00, <1>9, FailureType DEF RejectDeployments
  <2>2. faults' \in 0..MaxFaults /\ pc' = "done"
    BY <1>9, FaultType DEF RejectDeployments, Goto, TypeOK
  <2> QED
    BY <1>0, <1>000, <1>9, <2>1, <2>2, EngineFrame DEF RejectDeployments, TypeOK, layoutVars
<1>10. CASE StartApply
  <2>1. tx \in Transaction /\ CanBeginApply(tx, boot)
    BY <1>00, <1>10 DEF StartApply
  <2> QED
    BY <1>0, <1>000, <1>10, <2>1, BeginApplyType, EngineWrite DEF StartApply
<1>11. CASE LoopStep
  <2>1. tx \in Transaction /\ tx.phase \in {"Applying", "Reverting"} /\ tx # None
    BY <1>00, <1>11 DEF LoopStep, EngineRuns
  <2>2. CASE UnsafeLayout
    BY <1>0, <1>000, <1>11, <2>1, <2>2, EngineFrame
       DEF LoopStep, Goto, TypeOK, recordVars
  <2>3. CASE ~UnsafeLayout
    <3>1. rounds # 0 /\ rounds' = rounds - 1
      BY <1>11, <2>3 DEF LoopStep, UnsafeLayout
    <3>2. rounds' \in 0..RevertRounds
      BY <1>0, <3>1 DEF RevertRounds
    <3>3. PICK m \in Moves : Command(m.to, "sync") /\ owed' = m.checkpoint
      BY <1>11, <2>3 DEF LoopStep
    <3>4. m.to \in Layouts /\ m.checkpoint \in Checkpoints
      BY <2>1, MoveKeepsSaved DEF TypeOK
    <3>5. view' \in Layouts /\ pc' \in {"sync", "done"} /\ faults' \in 0..MaxFaults
      BY <3>3, <3>4, FaultType DEF Command, Goto, TypeOK
    <3> QED
      BY <1>0, <1>000, <1>11, <2>1, <3>2, <3>3, <3>4, <3>5, EngineFrame
         DEF LoopStep, TypeOK, recordVars
  <2> QED
    BY <2>2, <2>3
<1>12. CASE SyncLayout
  <2>1. tx \in Transaction /\ tx.phase \in {"Applying", "Reverting"} /\ tx # None
    BY <1>00, <1>12 DEF SyncLayout, EngineRuns
  <2>2. disk' \in Layouts /\ pc' \in {"checkpoint", "done"} /\ faults' \in 0..MaxFaults
    BY <1>12, FaultType DEF SyncLayout, Sync, Goto, TypeOK
  <2> QED
    BY <1>0, <1>000, <1>12, <2>1, <2>2, EngineFrame DEF SyncLayout, TypeOK, recordVars
<1>13. CASE PersistCheckpoint
  <2>1. tx \in Transaction /\ tx.phase \in {"Applying", "Reverting"}
    BY <1>00, <1>13 DEF PersistCheckpoint, EngineRuns
  <2> QED
    BY <1>0, <1>000, <1>13, <2>1, CheckpointType, EngineWrite DEF PersistCheckpoint
<1>14. CASE RecordBooted
  <2>1. tx \in Transaction
    BY <1>00, <1>14 DEF RecordBooted
  <2>2. RecordCheckpoint(Transition(tx, "BootedUnconfirmed"), "BootedUnconfirmedRecorded")
          \in Transaction
    BY <2>1, PhaseTypes, TransitionType, CheckpointType
  <2> QED
    BY <1>0, <1>000, <1>14, <2>2, EngineWrite DEF RecordBooted
<1>15. CASE RecordReverted
  <2>1. tx \in Transaction
    BY <1>00, <1>15 DEF RecordReverted
  <2>2. RecordCheckpoint(Transition(tx, "Reverted"), "RevertedRecorded") \in Transaction
    BY <2>1, PhaseTypes, TransitionType, CheckpointType
  <2> QED
    BY <1>0, <1>000, <1>15, <2>2, EngineWrite DEF RecordReverted
<1> QED
  BY <1>1, <1>2, <1>3, <1>4, <1>5, <1>6, <1>7, <1>8, <1>9, <1>10, <1>11, <1>12, <1>13,
     <1>14, <1>15 DEF Engine, EngineStep

(***************************************************************************)
(* Steps of the boot.                                                      *)
(***************************************************************************)
LEMMA PowerOffFrame ==
  ASSUME Frame, PowerOff, view' \in Layouts, disk' \in Layouts, faults' \in 0..MaxFaults
  PROVE  Frame'
<1>1. TypeOK'
  <2>1. /\ call' \in [Calls -> CallSteps] /\ held' \in [Calls -> Transaction \cup {None}]
        /\ rounds' \in 0..RevertRounds /\ pc' \in EnginePcs
    BY DEF PowerOff, CallSteps, RevertRounds, EnginePcs
  <2> QED
    BY <2>1 DEF Frame, TypeOK, PowerOff, recordVars, grubVars
<1>2. EngineRuns' /\ CallsRun'
  BY DEF PowerOff, EngineRuns, CallsRun, Fits, Scheduling, Finishing
<1> QED
  BY <1>1, <1>2 DEF Frame

LEMMA BootPreservesFrame ==
  ASSUME Frame, BootStep
  PROVE  Frame'
<1> USE DEF Frame
<1>1. view \in Layouts /\ disk \in Layouts /\ faults \in 0..MaxFaults
  BY DEF TypeOK
<1>2. CASE Boot
  <2>1. /\ boot' \in BootIds
        /\ requested' \in TxIds \cup {None} /\ selector' \in TxIds \cup {None}
    BY <1>2 DEF Boot, FreshBootIds, DefaultEntry, TypeOK
  <2>2. TypeOK'
    BY <1>2, <2>1 DEF Boot, TypeOK, recordVars, layoutVars, callVars, EnginePcs
  <2>3. EngineRuns' /\ CallsRun'
    BY <1>2 DEF Boot, EngineRuns, CallsRun, callVars
  <2> QED
    BY <2>2, <2>3
<1>3. CASE BootInterrupted
  <2>1. faults' \in 0..MaxFaults
    BY <1>1, <1>3, FaultType DEF BootInterrupted
  <2> QED
    BY <1>3, <2>1
       DEF BootInterrupted, TypeOK, EngineRuns, CallsRun, recordVars, layoutVars, bootVars,
           engineVars, callVars
<1>4. CASE MountRoot
  <2>1. TypeOK'
    BY <1>4 DEF MountRoot, TypeOK, recordVars, layoutVars, grubVars, callVars, EnginePcs,
                RevertRounds
  <2>2. EngineRuns' /\ CallsRun'
    BY <1>4 DEF MountRoot, EngineRuns, CallsRun, callVars
  <2> QED
    BY <2>1, <2>2
<1>5. CASE Panic
  BY <1>1, <1>5, PowerOffFrame DEF Panic, LosePower
<1>6. CASE Crash
  BY <1>1, <1>6, PowerOffFrame, FaultType DEF Crash, LosePower
<1>7. CASE Restart
  BY <1>1, <1>7, PowerOffFrame DEF Restart
<1> QED
  BY <1>2, <1>3, <1>4, <1>5, <1>6, <1>7 DEF BootStep

(***************************************************************************)
(* Steps of a call.                                                        *)
(***************************************************************************)
\* A call that comes to step s with record h.
LEMMA CallComesTo ==
  ASSUME Frame, NEW c \in Calls, NEW s \in CallSteps, NEW h \in Transaction \cup {None},
         Fits(h, s), power = "user",
         call' = [call EXCEPT ![c] = s], held' = [held EXCEPT ![c] = h],
         UNCHANGED <<power, boot, requested, engineVars>>,
         serviced' \in BOOLEAN, issued' \subseteq TxIds,
         tx' \in Transaction \cup {None},
         history' \in [TxIds -> Terminal \cup {None}],
         lineage' \in [TxIds -> Outcomes \cup {None}],
         view' \in Layouts, disk' \in Layouts,
         selector' \in TxIds \cup {None}, menu' \in TxIds \cup {None},
         faults' \in 0..MaxFaults
  PROVE  Frame'
<1>1. TypeOK'
  BY DEF Frame, TypeOK, engineVars
<1>2. EngineRuns'
  BY DEF Frame, EngineRuns, engineVars
<1>3. CallsRun'
  <2> SUFFICES ASSUME NEW d \in Calls PROVE power' = "user" /\ Fits(held'[d], call'[d])
    BY DEF CallsRun
  <2>1. CASE d = c
    BY <2>1 DEF Frame, TypeOK
  <2>2. CASE d # c
    BY <2>2 DEF Frame, TypeOK, CallsRun
  <2> QED
    BY <2>1, <2>2
<1> QED
  BY <1>1, <1>2, <1>3 DEF Frame

\* A call that goes to step s with the record it holds.
LEMMA CallAdvances ==
  ASSUME Frame, NEW c \in Calls, NEW s \in CallSteps, AdvanceCall(c, s),
         s = "idle" \/ Fits(held[c], s), power = "user",
         UNCHANGED <<bootVars, engineVars, issued>>,
         tx' \in Transaction \cup {None},
         history' \in [TxIds -> Terminal \cup {None}],
         lineage' \in [TxIds -> Outcomes \cup {None}],
         view' \in Layouts, disk' \in Layouts,
         selector' \in TxIds \cup {None}, menu' \in TxIds \cup {None},
         faults' \in 0..MaxFaults
  PROVE  Frame'
<1>1. /\ held \in [Calls -> Transaction \cup {None}]
      /\ serviced \in BOOLEAN /\ issued \subseteq TxIds
  BY DEF Frame, TypeOK
<1>2. UNCHANGED <<power, boot, requested, engineVars>> /\ serviced' \in BOOLEAN
      /\ issued' \subseteq TxIds
  BY <1>1 DEF bootVars
<1>3. CASE s = "idle"
  <2>1. Fits(None, s) /\ held' = [held EXCEPT ![c] = None] /\ call' = [call EXCEPT ![c] = s]
    BY <1>3 DEF AdvanceCall, Fits, Scheduling, Finishing
  <2> QED
    BY <1>2, <2>1, CallComesTo
<1>4. CASE s # "idle"
  <2>1. held' = [held EXCEPT ![c] = held[c]] /\ call' = [call EXCEPT ![c] = s]
    BY <1>1, <1>4 DEF AdvanceCall
  <2>2. held[c] \in Transaction \cup {None}
    BY <1>1
  <2> QED
    BY <1>2, <1>4, <2>1, <2>2, CallComesTo
<1> QED
  BY <1>3, <1>4

\* A backend call that returns, or errs.
LEMMA CallReturns ==
  ASSUME Frame, NEW c \in Calls, NEW s \in CallSteps, NEW e \in CallSteps,
         Returns(c, s) \/ Errs(c, e),
         s = "idle" \/ Fits(held[c], s), e = "idle" \/ Fits(held[c], e), power = "user",
         UNCHANGED <<bootVars, engineVars, issued>>,
         tx' \in Transaction \cup {None},
         history' \in [TxIds -> Terminal \cup {None}],
         lineage' \in [TxIds -> Outcomes \cup {None}],
         view' \in Layouts, disk' \in Layouts,
         selector' \in TxIds \cup {None}, menu' \in TxIds \cup {None}
  PROVE  Frame'
<1>1. faults' \in 0..MaxFaults
  BY FaultType DEF Frame, TypeOK, Returns, Errs
<1>2. AdvanceCall(c, s) \/ AdvanceCall(c, e)
  BY DEF Returns, Errs
<1> QED
  BY <1>1, <1>2, CallAdvances

LEMMA CallWritesRecord ==
  ASSUME Frame, NEW c \in Calls, NEW s \in CallSteps, NEW e \in CallSteps,
         NEW t \in Transaction \cup {None}, WriteRecord(c, t, s, e), RestOfRecord,
         s = "idle" \/ Fits(held[c], s), e = "idle" \/ Fits(held[c], e), power = "user"
  PROVE  Frame'
<1>1. /\ Returns(c, s) \/ Errs(c, e)
      /\ tx' \in Transaction \cup {None}
  BY DEF WriteRecord, Frame, TypeOK
<1> QED
  BY <1>1, CallReturns DEF RestOfRecord, Frame, TypeOK, layoutVars, grubVars

LEMMA CallWritesSelector ==
  ASSUME Frame, NEW c \in Calls, NEW s \in CallSteps, NEW e \in CallSteps,
         NEW i \in TxIds \cup {None}, WriteSelector(c, i, s, e), RestOfSelector,
         s = "idle" \/ Fits(held[c], s), e = "idle" \/ Fits(held[c], e), power = "user"
  PROVE  Frame'
<1>1. /\ Returns(c, s) \/ Errs(c, e)
      /\ selector' \in TxIds \cup {None}
  BY DEF WriteSelector, Frame, TypeOK
<1> QED
  BY <1>1, CallReturns DEF RestOfSelector, Frame, TypeOK, recordVars, layoutVars

LEMMA MenuEntryType ==
  ASSUME TypeOK
  PROVE  MenuEntry(tx) \in TxIds \cup {None}
BY DEF MenuEntry, TypeOK, Transaction

LEMMA CallWritesMenu ==
  ASSUME Frame, NEW c \in Calls, NEW s \in CallSteps, NEW e \in CallSteps,
         WriteMenu(c, s, e), RestOfMenu,
         s = "idle" \/ Fits(held[c], s), e = "idle" \/ Fits(held[c], e), power = "user"
  PROVE  Frame'
<1>1. /\ Returns(c, s) \/ Errs(c, e)
      /\ menu' \in TxIds \cup {None}
  BY MenuEntryType DEF WriteMenu, Frame, TypeOK
<1> QED
  BY <1>1, CallReturns DEF RestOfMenu, Frame, TypeOK, recordVars, layoutVars

LEMMA ScheduleStepPreservesFrame ==
  ASSUME Frame, NEW c \in Calls, ScheduleStep(c)
  PROVE  Frame'
<1>0. /\ power = "user" /\ call[c] \in Scheduling
      /\ held[c] \in Transaction /\ held[c].phase = "Preparing"
      /\ held[c].id \in TxIds
  <2>1. call[c] \in Scheduling /\ call[c] # "idle"
    BY DEF ScheduleStep, CreateRecord, RegenerateMenu, VerifyMenu, ArmRecord, ArmBoot,
           CleanClear, CleanRemove, CleanRegenerate, Scheduling
  <2>2. held[c] \in Transaction /\ held[c].phase = "Preparing" /\ power = "user"
    BY <2>1 DEF Frame, TypeOK, CallsRun, Fits
  <2> QED
    BY <2>1, <2>2 DEF Transaction
<1>1. /\ Scheduling \cup {"idle"} \subseteq CallSteps
      /\ \A s \in Scheduling : Fits(held[c], s)
  BY <1>0, NoneIsNoRecord DEF Scheduling, CallSteps, Fits, Finishing
<1>2. {"create", "regenerate", "verify", "arm_record", "arm_boot",
       "clean_clear", "clean_remove", "clean_regenerate"} \subseteq Scheduling
  BY DEF Scheduling
<1>3. CASE CreateRecord(c)
  <2>1. /\ tx' \in Transaction \cup {None}
        /\ Returns(c, "clean_clear") \/ Returns(c, "regenerate") \/ Errs(c, "clean_clear")
    BY <1>0, <1>3 DEF CreateRecord, WriteRecord, Frame, TypeOK
  <2>2. view' \in Layouts /\ disk' \in Layouts
    BY <1>3 DEF CreateRecord, Frame, TypeOK, Layout, Layouts, layoutVars
  <2> QED
    BY <1>0, <1>1, <1>2, <1>3, <2>1, <2>2, CallReturns
       DEF CreateRecord, Frame, TypeOK, grubVars
<1>4. CASE RegenerateMenu(c)
  BY <1>0, <1>1, <1>2, <1>4, CallWritesMenu DEF RegenerateMenu
<1>5. CASE VerifyMenu(c)
  <2>1. Returns(c, "arm_record") \/ Returns(c, "clean_clear") \/ Errs(c, "clean_clear")
    BY <1>5 DEF VerifyMenu
  <2> QED
    BY <1>0, <1>1, <1>2, <1>5, <2>1, CallReturns
       DEF VerifyMenu, OnlyCall, Frame, TypeOK, recordVars, layoutVars, grubVars
<1>6. CASE ArmRecord(c)
  <2>1. Transition(held[c], "Armed") \in Transaction
    BY <1>0, PhaseTypes, TransitionType
  <2>2. CASE tx = None
    BY <1>0, <1>1, <1>2, <1>6, <2>2, CallReturns
       DEF ArmRecord, RestOfRecord, Frame, TypeOK, layoutVars, grubVars
  <2>3. CASE tx # None
    BY <1>0, <1>1, <1>2, <1>6, <2>1, <2>3, CallWritesRecord DEF ArmRecord
  <2> QED
    BY <2>2, <2>3
<1>7. CASE ArmBoot(c)
  <2>1. CASE tx = None \/ tx.phase # "Armed"
    BY <1>0, <1>1, <1>2, <1>7, <2>1, CallReturns
       DEF ArmBoot, RestOfSelector, Frame, TypeOK, recordVars, layoutVars
  <2>2. CASE ~(tx = None \/ tx.phase # "Armed")
    <3>1. tx.id \in TxIds
      BY <2>2 DEF Frame, TypeOK, Transaction
    <3>2. PICK s \in {"idle", "clean_clear"} : WriteSelector(c, tx.id, s, "clean_clear")
      BY <1>7, <2>2 DEF ArmBoot
    <3> QED
      BY <1>0, <1>1, <1>2, <1>7, <3>1, <3>2, CallWritesSelector DEF ArmBoot
  <2> QED
    BY <2>1, <2>2
<1>8. CASE CleanClear(c)
  BY <1>0, <1>1, <1>2, <1>8, CallWritesSelector DEF CleanClear
<1>9. CASE CleanRemove(c)
  BY <1>0, <1>1, <1>2, <1>9, CallWritesRecord DEF CleanRemove
<1>10. CASE CleanRegenerate(c)
  BY <1>0, <1>1, <1>2, <1>10, CallWritesMenu DEF CleanRegenerate
<1> QED
  BY <1>3, <1>4, <1>5, <1>6, <1>7, <1>8, <1>9, <1>10 DEF ScheduleStep

LEMMA CancelStepPreservesFrame ==
  ASSUME Frame, NEW c \in Calls, CancelStep(c)
  PROVE  Frame'
<1>0. power = "user"
  BY DEF CancelStep, CancelClear, CancelRemove, CancelRegenerate, Frame, CallsRun
<1>1. /\ {"cancel_remove", "cancel_regenerate", "idle"} \subseteq CallSteps
      /\ \A s \in {"cancel_remove", "cancel_regenerate"} : Fits(held[c], s)
  BY DEF Scheduling, CallSteps, Fits, Finishing
<1>2. CASE CancelClear(c)
  BY <1>0, <1>1, <1>2, CallWritesSelector DEF CancelClear
<1>3. CASE CancelRemove(c)
  BY <1>0, <1>1, <1>3, CallWritesRecord DEF CancelRemove
<1>4. CASE CancelRegenerate(c)
  BY <1>0, <1>1, <1>4, CallWritesMenu DEF CancelRegenerate
<1> QED
  BY <1>2, <1>3, <1>4 DEF CancelStep

LEMMA ReconcileStepPreservesFrame ==
  ASSUME Frame, NEW c \in Calls, ReconcileStep(c)
  PROVE  Frame'
<1> DEFINE Steps == {"record", "lineage", "delete_old"} \cup Finishing
<1>0. /\ power = "user" /\ call[c] \in Steps
      /\ held[c] \in Transaction /\ held[c].phase \in Terminal
      /\ held[c].id \in TxIds
  <2>1. call[c] \in Steps /\ call[c] # "idle"
    BY DEF ReconcileStep, RecordOutcome, RecordLineage, DeleteOldRoot, ClearSelector,
           ArchiveRecord, RemoveRecord, FinishMenu, Finishing
  <2>2. /\ held[c] \in Transaction \cup {None} /\ held[c] # None /\ power = "user"
        /\ held[c].phase \in Terminal
    BY <2>1 DEF Frame, TypeOK, CallsRun, Fits, Outcomes, Terminal
  <2> QED
    BY <2>1, <2>2 DEF Transaction
<1>1. /\ Steps \cup {"idle"} \subseteq CallSteps
      /\ \A s \in {"record"} \cup Finishing : Fits(held[c], s)
      /\ held[c].phase \in Outcomes => Fits(held[c], "lineage") /\ Fits(held[c], "delete_old")
  BY <1>0, NoneIsNoRecord DEF Scheduling, CallSteps, Fits, Finishing, Terminal, Outcomes
<1>2. {"clear", "archive", "remove", "finish"} \subseteq Finishing
  BY DEF Finishing
<1>3. CASE RecordOutcome(c)
  <2>1. CASE tx = None
    BY <1>0, <1>1, <1>3, <2>1, CallReturns
       DEF RecordOutcome, RestOfRecord, Frame, TypeOK, layoutVars, grubVars
  <2>2. CASE tx # None
    <3>1. Finish(held[c]) \in CallSteps /\ Fits(held[c], Finish(held[c]))
      BY <1>0, <1>1, <1>2 DEF Finish, Terminal, Outcomes
    <3> QED
      BY <1>0, <1>1, <1>2, <1>3, <2>2, <3>1, CallWritesRecord DEF RecordOutcome
  <2> QED
    BY <2>1, <2>2
<1>4. CASE RecordLineage(c)
  <2>1. held[c].phase \in Outcomes
    BY <1>4 DEF RecordLineage, Frame, CallsRun, Fits
  <2>2. /\ lineage' \in [TxIds -> Outcomes \cup {None}]
        /\ Returns(c, "idle") \/ Returns(c, "delete_old") \/ Returns(c, "clear")
           \/ Errs(c, "idle")
    BY <1>0, <1>4, <2>1 DEF RecordLineage, Frame, TypeOK
  <2> QED
    BY <1>0, <1>1, <1>2, <1>4, <2>1, <2>2, CallReturns
       DEF RecordLineage, Frame, TypeOK, layoutVars, grubVars
<1>5. CASE DeleteOldRoot(c)
  <2>1. /\ view' \in Layouts /\ disk' \in Layouts
        /\ Returns(c, "clear") \/ Errs(c, "idle")
    <3>1. Layout(view.root, None, view.new) \in Layouts
      BY DEF Frame, TypeOK, Layout, Layouts
    <3> QED
      BY <1>5, <3>1 DEF DeleteOldRoot, Frame, TypeOK, layoutVars
  <2> QED
    BY <1>0, <1>1, <1>2, <1>5, <2>1, CallReturns
       DEF DeleteOldRoot, Frame, TypeOK, recordVars, grubVars
<1>6. CASE ClearSelector(c)
  BY <1>0, <1>1, <1>2, <1>6, CallWritesSelector DEF ClearSelector
<1>7. CASE ArchiveRecord(c)
  <2>1. /\ history' \in [TxIds -> Terminal \cup {None}]
        /\ Returns(c, "remove") \/ Errs(c, "idle")
    BY <1>0, <1>7 DEF ArchiveRecord, Frame, TypeOK
  <2> QED
    BY <1>0, <1>1, <1>2, <1>7, <2>1, CallReturns
       DEF ArchiveRecord, Frame, TypeOK, layoutVars, grubVars
<1>8. CASE RemoveRecord(c)
  BY <1>0, <1>1, <1>2, <1>8, CallWritesRecord DEF RemoveRecord
<1>9. CASE FinishMenu(c)
  BY <1>0, <1>1, <1>2, <1>9, CallWritesMenu DEF FinishMenu
<1> QED
  BY <1>3, <1>4, <1>5, <1>6, <1>7, <1>8, <1>9 DEF ReconcileStep

\* The record a reconciliation goes on with is terminal.
LEMMA ReconciledType ==
  ASSUME tx \in Transaction, NEW t \in Reconciled
  PROVE  /\ t \in Transaction /\ t.phase \in Terminal
         /\ \/ t = RecordFailure(tx) /\ tx.phase = "Armed"
            \/ t = Transition(tx, "Confirmed") /\ tx.phase = "BootedUnconfirmed"
            \/ t = tx
<1>1. /\ RecordFailure(tx) \in Transaction /\ RecordFailure(tx).phase = "Failed"
      /\ Transition(tx, "Confirmed") \in Transaction
      /\ Transition(tx, "Confirmed").phase = "Confirmed"
  BY PhaseTypes, FailureType, TransitionType
<1>2. \/ t = RecordFailure(tx) /\ tx.phase = "Armed"
      \/ t = Transition(tx, "Confirmed") /\ tx.phase = "BootedUnconfirmed"
      \/ t = tx /\ tx.phase \in Terminal
  BY Zenon DEF Reconciled
<1> QED
  BY <1>1, <1>2 DEF Terminal

LEMMA CallStartPreservesFrame ==
  ASSUME Frame, NEW c \in Calls, CallStart(c)
  PROVE  Frame'
<1>0. /\ power = "user" /\ issued \subseteq TxIds /\ serviced \in BOOLEAN
      /\ faults \in 0..MaxFaults
  BY DEF CallStart, Schedule, Cancel, Reconcile, InUserspace, Frame, TypeOK
<1>1. CASE Schedule(c)
  <2>1. PICK i \in TxIds : /\ issued' = issued \cup {i}
                           /\ held' = [held EXCEPT ![c] = NewTransaction(i)]
    BY <1>1 DEF Schedule
  <2>2. Fits(NewTransaction(i), "create") /\ NewTransaction(i) \in Transaction
    BY NewTransactionType, NoneIsNoRecord DEF Fits, Scheduling, Finishing
  <2>3. "create" \in CallSteps
    BY DEF CallSteps
  <2> QED
    BY <1>0, <1>1, <2>1, <2>2, <2>3, CallComesTo
       DEF Schedule, Frame, TypeOK, recordVars, layoutVars, grubVars, bootVars
<1>2. CASE Cancel(c)
  <2>1. "cancel_clear" \in CallSteps /\ Fits(held[c], "cancel_clear")
    BY DEF CallSteps, Fits, Scheduling, Finishing
  <2> QED
    BY <1>0, <1>2, <2>1, CallReturns
       DEF Cancel, OnlyCall, Frame, TypeOK, recordVars, layoutVars, grubVars
<1>3. CASE Reconcile(c)
  <2>1. tx \in Transaction
    BY <1>3 DEF Reconcile, Frame, TypeOK
  <2>2. PICK t \in Reconciled :
          /\ held' = [held EXCEPT ![c] = t]
          /\ call' = [call EXCEPT ![c] = IF t = tx THEN Finish(t) ELSE "record"]
    BY <1>3 DEF Reconcile
  <2>3. t \in Transaction /\ t.phase \in Terminal
    BY <2>1, ReconciledType
  <2> DEFINE s == IF t = tx THEN Finish(t) ELSE "record"
  <2>4. s \in CallSteps /\ Fits(t, s)
    BY <2>3, NoneIsNoRecord
       DEF Finish, CallSteps, Fits, Scheduling, Finishing, Terminal, Outcomes
  <2> QED
    BY <1>0, <1>3, <2>2, <2>3, <2>4, CallComesTo
       DEF Reconcile, Frame, TypeOK, recordVars, layoutVars, grubVars
<1> QED
  BY <1>1, <1>2, <1>3 DEF CallStart

LEMMA NextPreservesFrame ==
  ASSUME Frame, [Next]_vars
  PROVE  Frame'
<1>1. CASE BootStep
  BY <1>1, BootPreservesFrame
<1>2. CASE Engine
  BY <1>2, EnginePreservesFrame
<1>3. ASSUME NEW c \in Calls, CallStart(c) PROVE Frame'
  BY <1>3, CallStartPreservesFrame
<1>4. ASSUME NEW c \in Calls, CallStep(c) PROVE Frame'
  BY <1>4, ScheduleStepPreservesFrame, CancelStepPreservesFrame, ReconcileStepPreservesFrame
     DEF CallStep
<1>5. CASE ReconcileRefused
  BY <1>5 DEF ReconcileRefused, Frame, TypeOK, EngineRuns, CallsRun, recordVars, layoutVars,
              grubVars, engineVars, callVars
<1>6. CASE UpdateGrub
  <2>1. menu' \in TxIds \cup {None}
    BY <1>6, MenuEntryType DEF UpdateGrub, Frame
  <2> QED
    BY <1>6, <2>1 DEF UpdateGrub, Frame, TypeOK, EngineRuns, CallsRun, recordVars, layoutVars,
                      bootVars, engineVars, callVars
<1>7. CASE UNCHANGED vars
  BY <1>7 DEF vars, Frame, TypeOK, EngineRuns, CallsRun, recordVars, layoutVars, grubVars,
              bootVars, engineVars, callVars
<1> QED
  BY <1>1, <1>2, <1>3, <1>4, <1>5, <1>6, <1>7 DEF Next

\* Type correctness: every record the engine, the calls and the confirmation
\* write is a rollback record, every layout a layout, and each program runs
\* only where it may.
THEOREM TypeCorrect == Spec => []TypeOK
<1>1. Init => Frame
  BY InitFrame
<1>2. Frame /\ [Next]_vars => Frame'
  BY NextPreservesFrame
<1>3. Frame => TypeOK
  BY DEF Frame
<1> QED
  BY <1>1, <1>2, <1>3, PTL DEF Spec

(***************************************************************************)
(* The committed system survives.                                          *)
(***************************************************************************)
Layered ==
  /\ CallsMeetNoFlight
  /\ SyncedBeforeDecision
  /\ NothingProtectedYet
  /\ BootedIsDurable
  /\ CommittedSystemSurvives

LEMMA InitLayered == Init => Layered
BY StateAssumption
   DEF Init, Layered, CallsMeetNoFlight, SyncedBeforeDecision, NothingProtectedYet,
       BootedIsDurable, CommittedSystemSurvives, Committed, Layout

\* No call runs in the initramfs, so only the layout conjuncts are at stake there.
LEMMA CallsRest ==
  ASSUME Frame, power = "initramfs", UNCHANGED callVars
  PROVE  /\ CallsMeetNoFlight'
         /\ \A c \in Calls : call'[c] = "idle"
BY DEF Frame, CallsRun, CallsMeetNoFlight, callVars

Deciding == EnginePcs \ {"idle", "sync", "done"}

\* A step that only writes the record, in one of the ways the engine does.
LEMMA EngineRecordLayered ==
  ASSUME Frame, Layered, power = "initramfs", pc \in Deciding, tx # None,
         UNCHANGED <<layoutVars, power, callVars>>, NEW t \in Transaction, tx' \in {tx, t},
         \/ t.phase = tx.phase
         \/ /\ tx.phase \in InFlight /\ t.phase \in InFlight
            /\ t.phase = "BootedUnconfirmed" => view.root # None
         \/ tx.phase = "Armed" /\ t.phase \in {"Failed", "Applying"}
         \/ tx.phase = "Reverting" /\ t.phase = "Reverted" /\ view.old = None
  PROVE  Layered'
<1>0. view = disk /\ view' = view /\ disk' = disk /\ power' = power /\ t # None /\ tx' # None
  BY NoneIsNoRecord DEF Layered, SyncedBeforeDecision, Deciding, layoutVars
<1>1. CallsMeetNoFlight' /\ \A c \in Calls : call'[c] = "idle"
  BY CallsRest
<1>2. SyncedBeforeDecision'
  BY <1>0 DEF SyncedBeforeDecision
<1>3. NothingProtectedYet'
  BY <1>0, <1>1 DEF Layered, NothingProtectedYet, InFlight
<1>4. BootedIsDurable'
  BY <1>0 DEF Layered, BootedIsDurable, InFlight
<1>5. CommittedSystemSurvives'
  <2>1. Committed(view) # None
    BY DEF Layered, CommittedSystemSurvives
  <2>2. Committed(view)' = Committed(view)
    BY <1>0 DEF Layered, NothingProtectedYet, Committed, InFlight
  <2>3. Committed(view)' = Committed(disk)'
    BY <1>0 DEF Committed
  <2> QED
    BY <2>1, <2>2, <2>3 DEF CommittedSystemSurvives
<1> QED
  BY <1>1, <1>2, <1>3, <1>4, <1>5 DEF Layered

\* A step that changes neither the record nor the layout.
LEMMA EngineControlLayered ==
  ASSUME Frame, Layered, power = "initramfs", UNCHANGED <<tx, layoutVars, power, callVars>>,
         pc' \in Deciding => pc \in Deciding
  PROVE  Layered'
<1>1. CallsMeetNoFlight' /\ \A c \in Calls : call'[c] = "idle"
  BY CallsRest
<1>2. EnginePcs' = EnginePcs
  BY DEF EnginePcs
<1>3. SyncedBeforeDecision' /\ NothingProtectedYet' /\ BootedIsDurable'
  BY <1>1, <1>2 DEF Layered, SyncedBeforeDecision, NothingProtectedYet, BootedIsDurable, Deciding,
                    layoutVars
<1>4. CommittedSystemSurvives'
  BY DEF Layered, CommittedSystemSurvives, Committed, layoutVars
<1> QED
  BY <1>1, <1>3, <1>4 DEF Layered

\* With a rollback in flight, what Committed looks at is what the loops save.
LEMMA CommittedInFlight ==
  ASSUME tx # None, tx.phase \in InFlight, NEW l
  PROVE  Committed(l) = Saved(l)
BY DEF Committed, Saved

LEMMA LoopStepLayered ==
  ASSUME Frame, Layered, power = "initramfs", LoopStep
  PROVE  Layered'
<1>0. /\ tx \in Transaction /\ tx # None /\ tx' = tx /\ disk' = disk /\ power' = power
      /\ tx.phase \in {"Applying", "Reverting"} /\ view = disk /\ UNCHANGED callVars
  <2>1. pc = "loop" /\ pc \in Deciding
    BY DEF LoopStep, Deciding, EnginePcs
  <2>2. tx # None /\ tx.phase \in {"Applying", "Reverting"} /\ view = disk
    BY <2>1 DEF Frame, EngineRuns, Layered, SyncedBeforeDecision, Deciding
  <2> QED
    BY <2>2 DEF LoopStep, Frame, TypeOK, recordVars, bootVars
<1>1. CASE UnsafeLayout
  <2>1. UNCHANGED <<tx, layoutVars, power, callVars>> /\ pc' = "done"
    BY <1>0, <1>1 DEF LoopStep, Goto, layoutVars
  <2> QED
    BY <2>1, EngineControlLayered DEF Deciding
<1>2. CASE ~UnsafeLayout
  <2>1. PICK m \in Moves : Command(m.to, "sync")
    BY <1>2 DEF LoopStep
  <2>2. view' \in {view, m.to} /\ pc' \in {"sync", "done"}
    BY <2>1 DEF Command, Goto
  <2>3. Saved(view') = Saved(view)
    BY <1>0, <2>2, MoveKeepsSaved DEF Frame, TypeOK
  <2>4. CallsMeetNoFlight' /\ \A c \in Calls : call'[c] = "idle"
    BY <1>0, CallsRest
  <2>5. SyncedBeforeDecision' /\ NothingProtectedYet' /\ BootedIsDurable'
    BY <1>0, <2>2, <2>4 DEF SyncedBeforeDecision, NothingProtectedYet, BootedIsDurable
  <2>6. CommittedSystemSurvives'
    <3>1. Committed(view) = Saved(view) /\ Committed(view) # None
      BY <1>0, CommittedInFlight DEF InFlight, Layered, CommittedSystemSurvives
    <3>2. Committed(view)' = Saved(view') /\ Committed(disk)' = Saved(disk)
      BY <1>0 DEF Committed, Saved, InFlight
    <3> QED
      BY <1>0, <2>3, <3>1, <3>2 DEF CommittedSystemSurvives
  <2> QED
    BY <2>4, <2>5, <2>6 DEF Layered
<1> QED
  BY <1>1, <1>2

LEMMA SyncLayoutLayered ==
  ASSUME Frame, Layered, power = "initramfs", SyncLayout
  PROVE  Layered'
<1>0. /\ tx # None /\ tx' = tx /\ view' = view /\ power' = power /\ UNCHANGED callVars
      /\ tx.phase \in {"Applying", "Reverting"}
      /\ disk' \in {disk, view} /\ (pc' = "done" \/ disk' = view)
  BY DEF SyncLayout, Sync, Goto, Frame, EngineRuns, recordVars, bootVars
<1>1. CallsMeetNoFlight' /\ \A c \in Calls : call'[c] = "idle"
  BY <1>0, CallsRest
<1>2. SyncedBeforeDecision' /\ NothingProtectedYet' /\ BootedIsDurable'
  BY <1>0, <1>1 DEF SyncedBeforeDecision, NothingProtectedYet, BootedIsDurable
<1>3. CommittedSystemSurvives'
  BY <1>0 DEF Layered, CommittedSystemSurvives, Committed
<1> QED
  BY <1>1, <1>2, <1>3 DEF Layered

LEMMA EnginePreservesLayered ==
  ASSUME Frame, Layered, Engine
  PROVE  Layered'
<1>0. /\ power = "initramfs" /\ tx \in Transaction \cup {None} /\ boot \in BootIds
      /\ pc \notin {"idle", "hook", "done"} => tx \in Transaction /\ tx # None
  BY DEF Engine, Frame, TypeOK, EngineRuns
<1>1. {"hook", "engine", "validating", "validate", "begin", "loop", "checkpoint"} \subseteq Deciding
  BY DEF Deciding, EnginePcs
<1>2. CASE Hook
  BY <1>0, <1>1, <1>2, EngineControlLayered DEF Hook, OnlyControl, recordVars, bootVars
<1>3. CASE FailSafe
  <2>1. /\ tx \in Transaction /\ tx # None /\ pc \in Deciding /\ tx.phase = "Armed"
        /\ RecordFailure(tx) \in Transaction /\ RecordFailure(tx).phase = "Failed"
    BY <1>0, <1>1, <1>3, FailureType DEF FailSafe, StaleArmed, ExhaustedArmed
  <2>2. tx' \in {tx, RecordFailure(tx)} /\ UNCHANGED <<layoutVars, power, callVars>>
    BY <1>3 DEF FailSafe, OnlyRecord, Write, bootVars
  <2> QED
    BY <1>0, <2>1, <2>2, EngineRecordLayered
<1>4. CASE Enter
  <2>1. /\ tx \in Transaction /\ tx # None /\ pc \in Deciding
        /\ RecordInitramfsEntry(tx, boot) \in Transaction
        /\ RecordInitramfsEntry(tx, boot).phase = tx.phase
    BY <1>0, <1>1, <1>4, EntryType DEF Enter, Enterable
  <2>2. /\ tx' \in {tx, RecordInitramfsEntry(tx, boot)}
        /\ UNCHANGED <<layoutVars, power, callVars>>
    BY <1>4 DEF Enter, OnlyRecord, Write, bootVars
  <2> QED
    BY <1>0, <2>1, <2>2, EngineRecordLayered
<1>5. CASE StartRevert
  <2> DEFINE t == RecordCheckpoint(Transition(tx, "Reverting"), "RevertStarted")
  <2>1. /\ tx \in Transaction /\ tx # None /\ pc \in Deciding
        /\ tx.phase \in {"Applying", "BootedUnconfirmed"}
    BY <1>0, <1>1, <1>5 DEF StartRevert, Abandoned
  <2>2. t \in Transaction /\ t.phase = "Reverting"
    <3>1. /\ Transition(tx, "Reverting") \in Transaction
          /\ Transition(tx, "Reverting").phase = "Reverting"
      BY <2>1, PhaseTypes, TransitionType
    <3> QED
      BY <3>1, PhaseTypes, CheckpointType
  <2>3. tx' \in {tx, t} /\ UNCHANGED <<layoutVars, power, callVars>>
    BY <1>5 DEF StartRevert, OnlyRecord, Write, bootVars
  <2> HIDE DEF t
  <2> QED
    BY <1>0, <2>1, <2>2, <2>3, EngineRecordLayered DEF InFlight
<1>6. CASE ResumeRevert
  BY <1>0, <1>1, <1>6, EngineControlLayered DEF ResumeRevert, OnlyControl, recordVars, bootVars
<1>7. CASE NoAction
  BY <1>0, <1>1, <1>7, EngineControlLayered DEF NoAction, OnlyControl, recordVars, bootVars
<1>8. CASE PersistValidating
  <2>1. /\ tx \in Transaction /\ tx # None /\ pc \in Deciding
        /\ RecordCheckpoint(tx, "Validating") \in Transaction
        /\ RecordCheckpoint(tx, "Validating").phase = tx.phase
    BY <1>0, <1>1, <1>8, PhaseTypes, CheckpointType DEF PersistValidating
  <2>2. /\ tx' \in {tx, RecordCheckpoint(tx, "Validating")}
        /\ UNCHANGED <<layoutVars, power, callVars>>
    BY <1>8 DEF PersistValidating, OnlyRecord, Write, bootVars
  <2> QED
    BY <1>0, <2>1, <2>2, EngineRecordLayered
<1>9. CASE ValidateDeployments
  BY <1>0, <1>1, <1>9, EngineControlLayered
     DEF ValidateDeployments, OnlyControl, recordVars, bootVars
<1>10. CASE RejectDeployments
  <2>1. tx \in Transaction /\ tx # None /\ pc \in Deciding
    BY <1>0, <1>1, <1>10 DEF RejectDeployments
  <2>2. RecordFailure(tx) \in Transaction /\ RecordFailure(tx).phase = "Failed"
    BY <2>1, FailureType
  <2>3. UNCHANGED <<layoutVars, power, callVars>>
    BY <1>10 DEF RejectDeployments, bootVars
  <2>4. CASE tx.phase = "Armed"
    <3>1. tx' \in {tx, RecordFailure(tx)}
      BY <1>10, <2>4 DEF RejectDeployments
    <3> QED
      BY <1>0, <2>1, <2>2, <2>3, <2>4, <3>1, EngineRecordLayered
  <2>5. CASE tx.phase # "Armed"
    <3>1. tx' = tx
      BY <1>10, <2>5 DEF RejectDeployments
    <3> QED
      BY <1>0, <2>1, <2>3, <3>1, EngineControlLayered
  <2> QED
    BY <2>4, <2>5
<1>11. CASE StartApply
  <2>1. /\ tx \in Transaction /\ tx # None /\ pc \in Deciding
        /\ tx.phase \in {"Armed", "Applying"}
        /\ BeginApply(tx, boot) \in Transaction /\ BeginApply(tx, boot).phase = "Applying"
    BY <1>0, <1>1, <1>11, BeginApplyType DEF StartApply, CanBeginApply
  <2>2. tx' \in {tx, BeginApply(tx, boot)} /\ UNCHANGED <<layoutVars, power, callVars>>
    BY <1>11 DEF StartApply, OnlyRecord, Write, bootVars
  <2> QED
    BY <1>0, <2>1, <2>2, EngineRecordLayered
<1>12. CASE LoopStep
  BY <1>0, <1>12, LoopStepLayered
<1>13. CASE SyncLayout
  BY <1>0, <1>13, SyncLayoutLayered
<1>14. CASE PersistCheckpoint
  <2>1. /\ tx \in Transaction /\ tx # None /\ pc \in Deciding
        /\ RecordCheckpoint(tx, owed) \in Transaction
        /\ RecordCheckpoint(tx, owed).phase = tx.phase
    BY <1>0, <1>1, <1>14, CheckpointType DEF PersistCheckpoint, Frame, TypeOK
  <2>2. tx' \in {tx, RecordCheckpoint(tx, owed)} /\ UNCHANGED <<layoutVars, power, callVars>>
    BY <1>14 DEF PersistCheckpoint, OnlyRecord, Write, bootVars
  <2> QED
    BY <1>0, <2>1, <2>2, EngineRecordLayered
<1>15. CASE RecordBooted
  <2> DEFINE t == RecordCheckpoint(Transition(tx, "BootedUnconfirmed"),
                                   "BootedUnconfirmedRecorded")
  <2>1. /\ tx \in Transaction /\ tx # None /\ pc \in Deciding
        /\ tx.phase = "Applying" /\ Converged
    BY <1>0, <1>1, <1>15 DEF RecordBooted
  <2>2. t \in Transaction /\ t.phase = "BootedUnconfirmed"
    <3>1. /\ Transition(tx, "BootedUnconfirmed") \in Transaction
          /\ Transition(tx, "BootedUnconfirmed").phase = "BootedUnconfirmed"
      BY <2>1, PhaseTypes, TransitionType
    <3> QED
      BY <3>1, PhaseTypes, CheckpointType
  <2>3. view.root # None
    BY <2>1, Zenon DEF Converged, Present
  <2>4. tx' \in {tx, t} /\ UNCHANGED <<layoutVars, power, callVars>>
    BY <1>15 DEF RecordBooted, OnlyRecord, Write, bootVars
  <2> HIDE DEF t
  <2> QED
    BY <1>0, <2>1, <2>2, <2>3, <2>4, EngineRecordLayered DEF InFlight
<1>16. CASE RecordReverted
  <2> DEFINE t == RecordCheckpoint(Transition(tx, "Reverted"), "RevertedRecorded")
  <2>1. /\ tx \in Transaction /\ tx # None /\ pc \in Deciding
        /\ tx.phase = "Reverting" /\ Converged
    BY <1>0, <1>1, <1>16 DEF RecordReverted
  <2>2. t \in Transaction /\ t.phase = "Reverted"
    <3>1. /\ Transition(tx, "Reverted") \in Transaction
          /\ Transition(tx, "Reverted").phase = "Reverted"
      BY <2>1, PhaseTypes, TransitionType
    <3> QED
      BY <3>1, PhaseTypes, CheckpointType
  <2>3. view.old = None
    <3>1. (tx.phase = "Applying") = FALSE
      BY <2>1
    <3>2. Present(view) = <<TRUE, FALSE, FALSE>>
      BY <2>1, <3>1 DEF Converged
    <3> QED
      BY <3>2, Zenon DEF Present
  <2>4. tx' \in {tx, t} /\ UNCHANGED <<layoutVars, power, callVars>>
    BY <1>16 DEF RecordReverted, OnlyRecord, Write, bootVars
  <2> HIDE DEF t
  <2> QED
    BY <1>0, <2>1, <2>2, <2>3, <2>4, EngineRecordLayered
<1> QED
  BY <1>2, <1>3, <1>4, <1>5, <1>6, <1>7, <1>8, <1>9, <1>10, <1>11, <1>12, <1>13, <1>14,
     <1>15, <1>16 DEF Engine, EngineStep

(***************************************************************************)
(* A power cut takes the layout to what one of the two said; both say the  *)
(* same of the committed system.                                           *)
(***************************************************************************)
LEMMA PowerOffLayered ==
  ASSUME Frame, Layered, PowerOff, view' \in {view, disk}, disk' = view'
  PROVE  Layered'
<1>0. tx' = tx /\ \A c \in Calls : call'[c] = "idle"
  BY DEF PowerOff, recordVars
<1>1. CallsMeetNoFlight' /\ SyncedBeforeDecision' /\ NothingProtectedYet' /\ BootedIsDurable'
  BY <1>0 DEF Layered, CallsMeetNoFlight, SyncedBeforeDecision, NothingProtectedYet,
              BootedIsDurable
<1>2. CommittedSystemSurvives'
  BY <1>0 DEF Layered, CommittedSystemSurvives, Committed
<1> QED
  BY <1>1, <1>2 DEF Layered

LEMMA BootPreservesLayered ==
  ASSUME Frame, Layered, BootStep
  PROVE  Layered'
<1>1. CASE Boot
  <2>1. /\ tx' = tx /\ UNCHANGED <<layoutVars, call, held>> /\ view = disk
        /\ \A c \in Calls : call[c] = "idle"
    BY <1>1 DEF Boot, Frame, CallsRun, Layered, SyncedBeforeDecision, recordVars, callVars
  <2> QED
    BY <2>1 DEF Layered, CallsMeetNoFlight, SyncedBeforeDecision, NothingProtectedYet,
                BootedIsDurable, CommittedSystemSurvives, Committed, layoutVars
<1>2. CASE BootInterrupted
  BY <1>2 DEF BootInterrupted, Layered, CallsMeetNoFlight, NotInFlight, SyncedBeforeDecision,
              NothingProtectedYet, BootedIsDurable, CommittedSystemSurvives, Committed,
              recordVars, layoutVars, bootVars, engineVars, callVars
<1>3. CASE MountRoot
  <2>1. /\ UNCHANGED <<tx, layoutVars, call, held>> /\ \A c \in Calls : call[c] = "idle"
        /\ power' = "user" /\ pc' = "idle"
    BY <1>3 DEF MountRoot, Frame, CallsRun, recordVars, callVars
  <2> QED
    BY <2>1 DEF Layered, CallsMeetNoFlight, SyncedBeforeDecision, NothingProtectedYet,
                BootedIsDurable, CommittedSystemSurvives, Committed, layoutVars
<1>4. CASE Panic
  BY <1>4, PowerOffLayered DEF Panic, LosePower
<1>5. CASE Crash
  BY <1>5, PowerOffLayered DEF Crash, LosePower
<1>6. CASE Restart
  BY <1>6, PowerOffLayered DEF Restart
<1> QED
  BY <1>1, <1>2, <1>3, <1>4, <1>5, <1>6 DEF BootStep

(***************************************************************************)
(* Calls.  All but one of their steps are taken, and end, with no rollback *)
(* in flight: then the committed system is what @root holds.               *)
(***************************************************************************)
Unprotected == view.old = None /\ disk.old = None
Protecting  == {"regenerate", "verify", "arm_record", "arm_boot"}

LEMMA CallIsInUserspace ==
  ASSUME Frame, NEW c \in Calls, call[c] # "idle"
  PROVE  power = "user" /\ pc = "idle"
BY DEF Frame, CallsRun, EngineRuns

LEMMA LandedLayered ==
  ASSUME NotInFlight', power' = "user", pc' = "idle",
         view'.root = disk'.root, view'.root # None, NothingProtectedYet'
  PROVE  Layered'
<1>1. CallsMeetNoFlight' /\ SyncedBeforeDecision' /\ BootedIsDurable'
  BY DEF CallsMeetNoFlight, SyncedBeforeDecision, BootedIsDurable, NotInFlight, InFlight
<1>2. CommittedSystemSurvives'
  BY DEF CommittedSystemSurvives, Committed, NotInFlight
<1> QED
  BY <1>1, <1>2 DEF Layered

\* A call that leaves the roots alone while nothing is in flight.
LEMMA CallKeepsLayered ==
  ASSUME Layered, NEW c \in Calls, NotInFlight, NotInFlight',
         power = "user", pc = "idle", UNCHANGED <<power, pc>>,
         \A d \in Calls \ {c} : call'[d] = call[d],
         view'.root = view.root, disk'.root = disk.root,
         Unprotected => Unprotected',
         tx' = tx \/ tx' = None \/ tx'.phase \notin {"Preparing", "Armed"} \/ Unprotected',
         call'[c] \in Protecting => Unprotected'
  PROVE  Layered'
<1>1. view.root = disk.root /\ view.root # None
  BY DEF Layered, CommittedSystemSurvives, Committed, NotInFlight
<1>2. NothingProtectedYet'
  <2>1. tx' # None /\ tx'.phase \in {"Preparing", "Armed"} => Unprotected'
    BY DEF Layered, NothingProtectedYet, Unprotected
  <2>2. ASSUME NEW d \in Calls, call'[d] \in Protecting PROVE Unprotected'
    <3>1. CASE d = c
      BY <2>2, <3>1
    <3>2. CASE d # c
      BY <2>2, <3>2 DEF Layered, NothingProtectedYet, Unprotected, Protecting
    <3> QED
      BY <3>1, <3>2
  <2> QED
    BY <2>1, <2>2 DEF NothingProtectedYet, Unprotected, Protecting
<1> QED
  BY <1>1, <1>2, LandedLayered

\* What a returning or failing backend call does to the other calls: nothing.
LEMMA CallMoves ==
  ASSUME Frame, NEW c \in Calls, NEW s, NEW e, Returns(c, s) \/ Errs(c, e)
  PROVE  /\ call'[c] \in {s, e}
         /\ Returns(c, s) \/ call'[c] = e
         /\ \A d \in Calls \ {c} : call'[d] = call[d] /\ held'[d] = held[d]
BY DEF Frame, TypeOK, Returns, Errs, AdvanceCall

\* A step that touches neither the record nor the layout.
LEMMA CallControlLayered ==
  ASSUME Frame, Layered, NEW c \in Calls, NEW s, NEW e, Returns(c, s) \/ Errs(c, e),
         NotInFlight, power = "user", pc = "idle",
         UNCHANGED <<tx, layoutVars, power, pc>>,
         s \in Protecting => call[c] \in Protecting \/ Unprotected, e \notin Protecting
  PROVE  Layered'
<1>1. /\ call'[c] \in {s, e} /\ \A d \in Calls \ {c} : call'[d] = call[d]
  BY CallMoves
<1>2. NotInFlight' /\ view' = view /\ disk' = disk
  BY DEF NotInFlight, InFlight, layoutVars
<1>3. call'[c] \in Protecting => Unprotected'
  BY <1>1, <1>2 DEF Layered, NothingProtectedYet, Unprotected, Protecting
<1> QED
  BY <1>1, <1>2, <1>3, CallKeepsLayered DEF Unprotected

\* A step that writes a record of a rollback that is not in flight.
LEMMA CallRecordLayered ==
  ASSUME Frame, Layered, NEW c \in Calls, NEW s, NEW e, NEW t,
         WriteRecord(c, t, s, e), RestOfRecord,
         NotInFlight, power = "user", pc = "idle",
         t = None \/ t.phase \notin InFlight,
         t = None \/ t.phase \notin {"Preparing", "Armed"} \/ Unprotected,
         s \in Protecting => call[c] \in Protecting \/ Unprotected, e \notin Protecting
  PROVE  Layered'
<1>1. (Returns(c, s) \/ Errs(c, e)) /\ tx' \in {tx, t}
  BY DEF WriteRecord
<1>2. /\ call'[c] \in {s, e} /\ \A d \in Calls \ {c} : call'[d] = call[d]
  BY <1>1, CallMoves
<1>3. view' = view /\ disk' = disk /\ UNCHANGED <<power, pc>>
  BY DEF RestOfRecord, layoutVars, bootVars, engineVars
<1>4. NotInFlight'
  BY <1>1 DEF NotInFlight, InFlight
<1>5. call'[c] \in Protecting => Unprotected'
  BY <1>2, <1>3 DEF Layered, NothingProtectedYet, Unprotected, Protecting
<1>6. tx' = tx \/ tx' = None \/ tx'.phase \notin {"Preparing", "Armed"} \/ Unprotected'
  BY <1>1, <1>3 DEF Unprotected
<1> QED
  BY <1>2, <1>3, <1>4, <1>5, <1>6, CallKeepsLayered DEF Unprotected

LEMMA CallSelectorLayered ==
  ASSUME Frame, Layered, NEW c \in Calls, NEW s, NEW e, NEW i,
         WriteSelector(c, i, s, e), RestOfSelector,
         NotInFlight, power = "user", pc = "idle",
         s \notin Protecting, e \notin Protecting
  PROVE  Layered'
<1>1. Returns(c, s) \/ Errs(c, e)
  BY DEF WriteSelector
<1>2. UNCHANGED <<tx, layoutVars, power, pc>>
  BY DEF RestOfSelector, recordVars, bootVars, engineVars
<1> QED
  BY <1>1, <1>2, CallControlLayered

LEMMA CallMenuLayered ==
  ASSUME Frame, Layered, NEW c \in Calls, NEW s, NEW e,
         WriteMenu(c, s, e), RestOfMenu,
         NotInFlight, power = "user", pc = "idle",
         s \in Protecting => call[c] \in Protecting, e \notin Protecting
  PROVE  Layered'
<1>1. Returns(c, s) \/ Errs(c, e)
  BY DEF WriteMenu
<1>2. UNCHANGED <<tx, layoutVars, power, pc>>
  BY DEF RestOfMenu, recordVars, bootVars, engineVars
<1> QED
  BY <1>1, <1>2, CallControlLayered

LEMMA ScheduleStepLayered ==
  ASSUME Frame, Layered, NEW c \in Calls, ScheduleStep(c)
  PROVE  Layered'
<1>0. /\ NotInFlight /\ power = "user" /\ pc = "idle"
      /\ held[c] \in Transaction /\ held[c].phase = "Preparing"
  <2>1. call[c] \in Scheduling /\ call[c] \notin {"idle", "record"}
    BY DEF ScheduleStep, CreateRecord, RegenerateMenu, VerifyMenu, ArmRecord, ArmBoot,
           CleanClear, CleanRemove, CleanRegenerate, Scheduling
  <2>2. held[c] \in Transaction /\ held[c].phase = "Preparing"
    BY <2>1 DEF Frame, TypeOK, CallsRun, Fits
  <2> QED
    BY <2>1, <2>2, CallIsInUserspace DEF Layered, CallsMeetNoFlight
<1>1. CASE CreateRecord(c)
  <2>1. UNCHANGED <<power, pc>>
    BY <1>1 DEF CreateRecord, bootVars, engineVars
  <2>2. CASE tx # None
    <3>1. Returns(c, "clean_clear") /\ UNCHANGED <<tx, layoutVars>>
      BY <1>1, <2>2 DEF CreateRecord
    <3> QED
      BY <1>0, <2>1, <3>1, CallControlLayered DEF Protecting
  <2>3. CASE tx = None
    <3>1. /\ WriteRecord(c, held[c], "regenerate", "clean_clear")
          /\ view' = IF tx' = None THEN view ELSE Layout(view.root, None, None)
          /\ disk' = IF tx' = None THEN disk ELSE Layout(disk.root, None, None)
      BY <1>1, <2>3 DEF CreateRecord
    <3>2. /\ tx' \in {None, held[c]} /\ (Returns(c, "regenerate") \/ Errs(c, "clean_clear"))
          /\ call'[c] = "regenerate" => tx' = held[c]
      BY <2>3, <3>1 DEF WriteRecord, Errs, AdvanceCall, Frame, TypeOK
    <3>3. held[c] # None
      BY <1>0, NoneIsNoRecord
    <3>4. /\ view'.root = view.root /\ disk'.root = disk.root
          /\ tx' # None => Unprotected'
          /\ tx' = None => view' = view /\ disk' = disk
      BY <3>1 DEF Layout, Unprotected
    <3>5. call'[c] \in {"regenerate", "clean_clear"} /\ \A d \in Calls \ {c} : call'[d] = call[d]
      BY <3>2, CallMoves
    <3>6. NotInFlight'
      BY <1>0, <3>2 DEF NotInFlight, InFlight
    <3>7. Unprotected => Unprotected'
      BY <3>4 DEF Unprotected
    <3>8. call'[c] \in Protecting => Unprotected'
      BY <3>2, <3>3, <3>4, <3>5 DEF Protecting
    <3> QED
      BY <1>0, <2>1, <3>4, <3>5, <3>6, <3>7, <3>8, CallKeepsLayered
  <2> QED
    BY <2>2, <2>3
<1>2. CASE RegenerateMenu(c)
  BY <1>0, <1>2, CallMenuLayered DEF RegenerateMenu, Protecting
<1>3. CASE VerifyMenu(c)
  <2>1. /\ Returns(c, "arm_record") \/ Errs(c, "clean_clear") \/ Returns(c, "clean_clear")
        /\ call[c] \in Protecting
    BY <1>3 DEF VerifyMenu, Protecting
  <2>2. UNCHANGED <<tx, layoutVars, power, pc>>
    BY <1>3 DEF VerifyMenu, OnlyCall, recordVars, bootVars, engineVars
  <2>3. "clean_clear" \notin Protecting
    BY DEF Protecting
  <2> QED
    BY <1>0, <2>1, <2>2, <2>3, CallControlLayered
<1>4. CASE ArmRecord(c)
  <2>1. "clean_clear" \notin Protecting /\ Unprotected
    BY <1>4 DEF ArmRecord, Protecting, Unprotected, Layered, NothingProtectedYet
  <2>2. CASE tx = None
    <3>1. Returns(c, "clean_clear") /\ UNCHANGED <<tx, layoutVars, power, pc>>
      BY <1>4, <2>2 DEF ArmRecord, RestOfRecord, bootVars, engineVars
    <3> QED
      BY <1>0, <2>1, <3>1, CallControlLayered
  <2>3. CASE tx # None
    <3>1. Transition(held[c], "Armed").phase \notin InFlight
      BY <1>0, PhaseTypes, TransitionType DEF InFlight
    <3>2. /\ WriteRecord(c, Transition(held[c], "Armed"), "arm_boot", "clean_clear")
          /\ RestOfRecord
      BY <1>4, <2>3 DEF ArmRecord
    <3> QED
      BY <1>0, <2>1, <3>1, <3>2, CallRecordLayered
  <2> QED
    BY <2>2, <2>3
<1>5. CASE ArmBoot(c)
  <2>1. "clean_clear" \notin Protecting /\ "idle" \notin Protecting
    BY DEF Protecting
  <2>2. CASE tx = None \/ tx.phase # "Armed"
    <3>1. Returns(c, "clean_clear") /\ UNCHANGED <<tx, layoutVars, power, pc>>
      BY <1>5, <2>2 DEF ArmBoot, RestOfSelector, recordVars, bootVars, engineVars
    <3> QED
      BY <1>0, <2>1, <3>1, CallControlLayered
  <2>3. CASE ~(tx = None \/ tx.phase # "Armed")
    <3>1. PICK s \in {"idle", "clean_clear"} : WriteSelector(c, tx.id, s, "clean_clear")
      BY <1>5, <2>3 DEF ArmBoot
    <3>2. RestOfSelector
      BY <1>5 DEF ArmBoot
    <3> QED
      BY <1>0, <2>1, <3>1, <3>2, CallSelectorLayered
  <2> QED
    BY <2>2, <2>3
<1>6. CASE CleanClear(c)
  BY <1>0, <1>6, CallSelectorLayered DEF CleanClear, Protecting
<1>7. CASE CleanRemove(c)
  BY <1>0, <1>7, CallRecordLayered DEF CleanRemove, Protecting
<1>8. CASE CleanRegenerate(c)
  BY <1>0, <1>8, CallMenuLayered DEF CleanRegenerate, Protecting
<1> QED
  BY <1>1, <1>2, <1>3, <1>4, <1>5, <1>6, <1>7, <1>8 DEF ScheduleStep

LEMMA CancelStepLayered ==
  ASSUME Frame, Layered, NEW c \in Calls, CancelStep(c)
  PROVE  Layered'
<1>0. NotInFlight /\ power = "user" /\ pc = "idle"
  <2>1. call[c] \notin {"idle", "record"}
    BY DEF CancelStep, CancelClear, CancelRemove, CancelRegenerate
  <2> QED
    BY <2>1, CallIsInUserspace DEF Layered, CallsMeetNoFlight
<1>1. CASE CancelClear(c)
  BY <1>0, <1>1, CallSelectorLayered DEF CancelClear, Protecting
<1>2. CASE CancelRemove(c)
  BY <1>0, <1>2, CallRecordLayered DEF CancelRemove, Protecting
<1>3. CASE CancelRegenerate(c)
  BY <1>0, <1>3, CallMenuLayered DEF CancelRegenerate, Protecting
<1> QED
  BY <1>1, <1>2, <1>3 DEF CancelStep

\* The step that ends a flight: the confirmation is recorded.
LEMMA ConfirmationLayered ==
  ASSUME Frame, Layered, NEW c \in Calls, RecordOutcome(c), ~NotInFlight
  PROVE  Layered'
<1>0. /\ tx # None /\ tx.phase = "BootedUnconfirmed" /\ held[c].phase = "Confirmed"
      /\ power = "user" /\ pc = "idle"
      /\ view.root = disk.root /\ view.root # None
      /\ \A d \in Calls : call[d] \in {"idle", "record"}
  <2>1. call[c] = "record"
    BY DEF RecordOutcome
  <2>2. tx # None /\ tx.phase = "BootedUnconfirmed" /\ held[c].phase = "Confirmed"
    BY <2>1 DEF Layered, CallsMeetNoFlight, NotInFlight
  <2> QED
    BY <2>1, <2>2, CallIsInUserspace DEF Layered, BootedIsDurable, CallsMeetNoFlight
<1>1. /\ WriteRecord(c, held[c], "lineage", "idle")
      /\ view' = view /\ disk' = disk /\ UNCHANGED <<power, pc>>
  BY <1>0 DEF RecordOutcome, RestOfRecord, Finish, layoutVars, bootVars, engineVars
<1>2. /\ Returns(c, "lineage") \/ Errs(c, "idle")
      /\ tx' \in {tx, held[c]} /\ (Returns(c, "lineage") => tx' = held[c])
  BY <1>1 DEF WriteRecord, Returns, Errs, AdvanceCall, Frame, TypeOK
<1>3. /\ call'[c] \in {"lineage", "idle"} /\ (Returns(c, "lineage") \/ call'[c] = "idle")
      /\ \A d \in Calls \ {c} : call'[d] = call[d] /\ held'[d] = held[d]
  BY <1>2, CallMoves
<1>4. \A d \in Calls : call'[d] \in {"idle", "record", "lineage"}
  BY <1>0, <1>3
<1>5. CASE tx' = held[c]
  <2>1. NotInFlight' /\ NothingProtectedYet'
    BY <1>0, <1>4, <1>5 DEF NotInFlight, InFlight, NothingProtectedYet
  <2> QED
    BY <1>0, <1>1, <2>1, LandedLayered
<1>6. CASE tx' # held[c]
  <2>1. tx' = tx /\ call'[c] = "idle"
    BY <1>2, <1>3, <1>6
  <2>2. CallsMeetNoFlight'
    BY <1>3, <2>1 DEF Layered, CallsMeetNoFlight, NotInFlight, InFlight
  <2>3. SyncedBeforeDecision' /\ NothingProtectedYet' /\ BootedIsDurable'
    BY <1>0, <1>1, <1>4, <2>1 DEF SyncedBeforeDecision, NothingProtectedYet, BootedIsDurable
  <2>4. CommittedSystemSurvives'
    BY <1>1, <2>1 DEF Layered, CommittedSystemSurvives, Committed
  <2> QED
    BY <2>2, <2>3, <2>4 DEF Layered
<1> QED
  BY <1>5, <1>6

LEMMA ReconcileStepLayered ==
  ASSUME Frame, Layered, NEW c \in Calls, ReconcileStep(c)
  PROVE  Layered'
<1>0. /\ call[c] # "idle" /\ power = "user" /\ pc = "idle"
      /\ held[c] # None /\ held[c].phase \in Terminal
      /\ call[c] # "record" => NotInFlight
  <2>1. call[c] \in {"record", "lineage", "delete_old"} \cup Finishing
    BY DEF ReconcileStep, RecordOutcome, RecordLineage, DeleteOldRoot, ClearSelector,
           ArchiveRecord, RemoveRecord, FinishMenu, Finishing
  <2>2. call[c] # "idle"
    BY <2>1 DEF Finishing
  <2>3. held[c] # None /\ held[c].phase \in Terminal
    BY <2>1 DEF Frame, CallsRun, Fits, Outcomes, Terminal
  <2> QED
    BY <2>2, <2>3, CallIsInUserspace DEF Layered, CallsMeetNoFlight
<1>00. held[c].phase \notin InFlight /\ held[c].phase \notin {"Preparing", "Armed"}
  BY <1>0 DEF Terminal, InFlight
<1>000. {"idle", "lineage", "clear", "delete_old", "archive", "remove", "finish"}
          \cap Protecting = {}
  BY DEF Protecting
<1>1. CASE RecordOutcome(c)
  <2>1. CASE ~NotInFlight
    BY <1>1, <2>1, ConfirmationLayered
  <2>2. CASE NotInFlight /\ tx = None
    <3>1. Returns(c, "idle") /\ UNCHANGED <<tx, layoutVars, power, pc>>
      BY <1>1, <2>2 DEF RecordOutcome, RestOfRecord, bootVars, engineVars
    <3> QED
      BY <1>0, <1>000, <2>2, <3>1, CallControlLayered
  <2>3. CASE NotInFlight /\ tx # None
    <3>1. WriteRecord(c, held[c], Finish(held[c]), "idle") /\ RestOfRecord
      BY <1>1, <2>3 DEF RecordOutcome
    <3>2. Finish(held[c]) \notin Protecting /\ "idle" \notin Protecting
      BY DEF Finish, Protecting
    <3> QED
      BY <1>0, <1>00, <2>3, <3>1, <3>2, CallRecordLayered
  <2> QED
    BY <2>1, <2>2, <2>3
<1>2. CASE RecordLineage(c)
  <2>1. /\ NotInFlight /\ UNCHANGED <<tx, layoutVars, power, pc>>
        /\ \/ Returns(c, "idle") \/ Errs(c, "idle")
           \/ Returns(c, "delete_old") \/ Returns(c, "clear")
    BY <1>0, <1>2 DEF RecordLineage, bootVars, engineVars
  <2> QED
    BY <1>0, <1>000, <2>1, CallControlLayered
<1>3. CASE DeleteOldRoot(c)
  <2>1. /\ NotInFlight /\ UNCHANGED <<tx, power, pc>>
        /\ Returns(c, "clear") \/ Errs(c, "idle")
    BY <1>0, <1>3 DEF DeleteOldRoot, recordVars, bootVars, engineVars
  <2> DEFINE without == Layout(view.root, None, view.new)
  <2>2. view' \in {view, without} /\ disk' \in {disk, view, without}
    BY <1>3 DEF DeleteOldRoot, layoutVars
  <2>3. view.root = disk.root
    BY <2>1 DEF Layered, CommittedSystemSurvives, Committed, NotInFlight
  <2>4. /\ view'.root = view.root /\ disk'.root = disk.root
        /\ Unprotected => Unprotected'
    BY <2>2, <2>3 DEF Layout, Unprotected
  <2>5. /\ call'[c] \in {"clear", "idle"} /\ \A d \in Calls \ {c} : call'[d] = call[d]
    BY <2>1, CallMoves
  <2>6. NotInFlight'
    BY <2>1 DEF NotInFlight, InFlight
  <2> QED
    BY <1>0, <1>000, <2>1, <2>4, <2>5, <2>6, CallKeepsLayered
<1>4. CASE ClearSelector(c)
  BY <1>0, <1>000, <1>4, CallSelectorLayered DEF ClearSelector
<1>5. CASE ArchiveRecord(c)
  <2>1. /\ NotInFlight /\ UNCHANGED <<tx, layoutVars, power, pc>>
        /\ Returns(c, "remove") \/ Errs(c, "idle")
    BY <1>0, <1>5 DEF ArchiveRecord, bootVars, engineVars
  <2> QED
    BY <1>0, <1>000, <2>1, CallControlLayered
<1>6. CASE RemoveRecord(c)
  BY <1>0, <1>000, <1>6, CallRecordLayered DEF RemoveRecord
<1>7. CASE FinishMenu(c)
  BY <1>0, <1>000, <1>7, CallMenuLayered DEF FinishMenu
<1> QED
  BY <1>1, <1>2, <1>3, <1>4, <1>5, <1>6, <1>7 DEF ReconcileStep

LEMMA CallStartLayered ==
  ASSUME Frame, Layered, NEW c \in Calls, CallStart(c)
  PROVE  Layered'
<1>0. power = "user" /\ pc = "idle"
  BY DEF CallStart, Schedule, Cancel, Reconcile, InUserspace, Frame, EngineRuns
<1>1. CASE Schedule(c)
  <2>1. /\ NotInFlight /\ NotInFlight' /\ UNCHANGED <<tx, layoutVars, power, pc>>
        /\ call' = [call EXCEPT ![c] = "create"]
    BY <1>1 DEF Schedule, NotInFlight, recordVars, bootVars, engineVars
  <2>2. call'[c] \notin Protecting /\ \A d \in Calls \ {c} : call'[d] = call[d]
    BY <2>1 DEF Frame, TypeOK, Protecting
  <2> QED
    BY <1>0, <2>1, <2>2, CallKeepsLayered DEF layoutVars, Unprotected
<1>2. CASE Cancel(c)
  <2>1. /\ NotInFlight /\ UNCHANGED <<tx, layoutVars, power, pc>>
        /\ Returns(c, "cancel_clear") /\ "cancel_clear" \notin Protecting
    BY <1>2 DEF Cancel, OnlyCall, NotInFlight, InFlight, Protecting, recordVars, bootVars,
                engineVars
  <2> QED
    BY <1>0, <2>1, CallControlLayered
<1>3. CASE Reconcile(c)
  <2>1. tx \in Transaction /\ tx # None
    BY <1>3 DEF Reconcile, Frame, TypeOK
  <2>2. PICK t \in Reconciled :
          /\ held' = [held EXCEPT ![c] = t]
          /\ call' = [call EXCEPT ![c] = IF t = tx THEN Finish(t) ELSE "record"]
    BY <1>3 DEF Reconcile
  <2>3. /\ t \in Transaction /\ t.phase \in Terminal
        /\ \/ t = RecordFailure(tx) /\ tx.phase = "Armed"
           \/ t = Transition(tx, "Confirmed") /\ tx.phase = "BootedUnconfirmed"
           \/ t = tx
    BY <2>1, ReconciledType
  <2>4. UNCHANGED <<tx, layoutVars, power, pc>>
    BY <1>3 DEF Reconcile, recordVars, engineVars
  <2>5. /\ held'[c] = t /\ call'[c] = (IF t = tx THEN Finish(t) ELSE "record")
        /\ \A d \in Calls \ {c} : call'[d] = call[d] /\ held'[d] = held[d]
    BY <2>2 DEF Frame, TypeOK
  <2>6. call'[c] \notin Protecting
    BY <2>5 DEF Finish, Protecting
  <2>7. CASE tx.phase # "BootedUnconfirmed"
    <3>1. NotInFlight /\ NotInFlight'
      BY <2>3, <2>4, <2>7 DEF NotInFlight, InFlight, Terminal
    <3> QED
      BY <1>0, <2>4, <2>5, <2>6, <3>1, CallKeepsLayered DEF layoutVars, Unprotected
  <2>8. CASE tx.phase = "BootedUnconfirmed"
    <3>1. t # tx /\ t.phase = "Confirmed"
      BY <2>1, <2>3, <2>8, PhaseTypes, TransitionType DEF Terminal
    <3>2. call'[c] = "record" /\ held'[c].phase = "Confirmed"
      BY <2>5, <3>1
    <3>3. CallsMeetNoFlight'
      BY <2>4, <2>5, <2>8, <3>2 DEF Layered, CallsMeetNoFlight, NotInFlight, InFlight
    <3>4. SyncedBeforeDecision' /\ NothingProtectedYet' /\ BootedIsDurable'
      BY <1>0, <2>4, <2>5, <2>6
         DEF Layered, SyncedBeforeDecision, NothingProtectedYet, BootedIsDurable, Protecting,
             layoutVars
    <3>5. CommittedSystemSurvives'
      BY <2>4 DEF Layered, CommittedSystemSurvives, Committed, layoutVars
    <3> QED
      BY <3>3, <3>4, <3>5 DEF Layered
  <2> QED
    BY <2>7, <2>8
<1> QED
  BY <1>1, <1>2, <1>3 DEF CallStart

\* A step that only the GRUB environment or the service's flag sees.
LEMMA AsideLayered ==
  ASSUME Layered, UNCHANGED <<tx, layoutVars, power, pc, callVars>>
  PROVE  Layered'
<1>1. EnginePcs' = EnginePcs
  BY DEF EnginePcs
<1>2. CallsMeetNoFlight' /\ SyncedBeforeDecision' /\ NothingProtectedYet' /\ BootedIsDurable'
  BY <1>1 DEF Layered, CallsMeetNoFlight, NotInFlight, SyncedBeforeDecision,
              NothingProtectedYet, BootedIsDurable, layoutVars, callVars
<1>3. CommittedSystemSurvives'
  BY DEF Layered, CommittedSystemSurvives, Committed, layoutVars
<1> QED
  BY <1>2, <1>3 DEF Layered

LEMMA NextPreservesLayered ==
  ASSUME Frame, Layered, [Next]_vars
  PROVE  Layered'
<1>1. CASE BootStep
  BY <1>1, BootPreservesLayered
<1>2. CASE Engine
  BY <1>2, EnginePreservesLayered
<1>3. ASSUME NEW c \in Calls, CallStart(c) PROVE Layered'
  BY <1>3, CallStartLayered
<1>4. ASSUME NEW c \in Calls, CallStep(c) PROVE Layered'
  BY <1>4, ScheduleStepLayered, CancelStepLayered, ReconcileStepLayered DEF CallStep
<1>5. CASE ReconcileRefused
  BY <1>5, AsideLayered DEF ReconcileRefused, recordVars, engineVars
<1>6. CASE UpdateGrub
  BY <1>6, AsideLayered DEF UpdateGrub, recordVars, bootVars, engineVars
<1>7. CASE UNCHANGED vars
  BY <1>7, AsideLayered DEF vars, recordVars, bootVars, engineVars
<1> QED
  BY <1>1, <1>2, <1>3, <1>4, <1>5, <1>6, <1>7 DEF Next

\* The whole invariant is inductive: what the interleaved steps of the engine, of
\* any number of calls and of power cuts keep true together.
THEOREM CoreHolds == Spec => []CoreInv
<1>1. Init => Frame /\ Layered
  BY InitFrame, InitLayered
<1>2. Frame /\ Layered /\ [Next]_vars => (Frame /\ Layered)'
  BY NextPreservesFrame, NextPreservesLayered
<1>3. Frame /\ Layered => CoreInv
  BY DEF Frame, Layered, CoreInv
<1> QED
  BY <1>1, <1>2, <1>3, PTL DEF Spec

\* No power cut at any step of apply, revert or confirmation loses the committed
\* system, whatever userspace calls interleave with it.
THEOREM CommittedSystemNeverLost == Spec => []CommittedSystemSurvives
<1>1. CoreInv => CommittedSystemSurvives
  BY DEF CoreInv
<1> QED
  BY <1>1, CoreHolds, PTL

\* A machine without @root always carries a record that makes the next
\* initramfs put one back.
THEOREM MissingRootAlwaysMended == Spec => []MissingRootIsMended
<1>1. CoreInv => MissingRootIsMended
  <2> SUFFICES ASSUME CoreInv, disk.root = None
               PROVE  tx # None /\ tx.phase \in {"Applying", "Reverting"}
    BY DEF MissingRootIsMended
  <2>1. Committed(disk) # None
    BY DEF CoreInv, CommittedSystemSurvives
  <2>2. tx # None /\ tx.phase \in InFlight
    BY <2>1 DEF Committed
  <2>3. tx.phase # "BootedUnconfirmed"
    BY <2>2 DEF CoreInv, BootedIsDurable
  <2> QED
    BY <2>2, <2>3 DEF InFlight
<1> QED
  BY <1>1, CoreHolds, PTL

(***************************************************************************)
(* The pending record and the layouts it speaks of: every record can be    *)
(* read back, the loops know every layout they meet, and a checkpoint is   *)
(* never ahead of the disk.                                                *)
(***************************************************************************)

(***************************************************************************)
(* What a step of a call comes to, whichever of its actions it is.         *)
(***************************************************************************)
SameConcern(s, e) ==
  \/ s \in Scheduling /\ e \in Scheduling
  \/ s \in Cancelling /\ e \in Cancelling
  \/ s \in Settle /\ e \in Settle

\* Nothing but the call, the selector and the menu changes.
RestEffect(c) ==
  /\ UNCHANGED <<tx, history, lineage, view, disk>>
  /\ call'[c] \in Settle => call[c] = "clear" /\ call'[c] = "archive"

\* The pending record is removed.
RemoveEffect(c) ==
  /\ call[c] \in {"clean_remove", "cancel_remove", "remove"}
  /\ tx' = None /\ UNCHANGED <<history, lineage, view, disk>>
  /\ call'[c] \in {"clean_regenerate", "cancel_regenerate", "finish", "idle"}
  /\ call'[c] = "finish" => call[c] = "remove"

\* A record is written.
CreateEffect(c) ==
  /\ call[c] = "create" /\ tx = None /\ tx' = held[c]
  /\ view' = Layout(view.root, None, None) /\ disk' = Layout(disk.root, None, None)
  /\ call'[c] \in Scheduling \cup {"idle"} /\ UNCHANGED <<history, lineage>>

ArmEffect(c) ==
  /\ call[c] = "arm_record" /\ tx # None /\ tx' = Transition(held[c], "Armed")
  /\ call'[c] \in Scheduling \cup {"idle"} /\ UNCHANGED <<history, lineage, view, disk>>

OutcomeEffect(c) ==
  /\ call[c] = "record" /\ tx # None /\ tx' = held[c]
  /\ call'[c] \in {"idle", Finish(held[c])} /\ UNCHANGED <<history, lineage, view, disk>>

\* The outcome is told.
LineageEffect(c) ==
  LET h == held[c] IN
  /\ call[c] = "lineage" /\ lineage[h.id] \in {None, h.phase}
  /\ lineage' = [lineage EXCEPT ![h.id] = h.phase]
  /\ call'[c] \in {"idle", IF h.phase = "Confirmed" THEN "delete_old" ELSE "clear"}
  /\ UNCHANGED <<tx, history, view, disk>>

DeleteEffect(c) ==
  LET without == Layout(view.root, None, view.new) IN
  /\ call[c] = "delete_old"
  /\ view' \in {view, without} /\ disk' \in {disk, view'}
  /\ call'[c] \in {"idle", "clear"} /\ UNCHANGED <<tx, history, lineage>>

ArchiveEffect(c) ==
  LET h == held[c] IN
  /\ call[c] = "archive" /\ history' = [history EXCEPT ![h.id] = h.phase]
  /\ call'[c] \in {"idle", "remove"} /\ UNCHANGED <<tx, lineage, view, disk>>

CallEffect(c) ==
  \/ RestEffect(c) \/ RemoveEffect(c) \/ CreateEffect(c) \/ ArmEffect(c) \/ OutcomeEffect(c)
  \/ LineageEffect(c) \/ DeleteEffect(c) \/ ArchiveEffect(c)

\* What all steps of a call have in common.
CallFrame(c) ==
  /\ call[c] # "idle" /\ power = "user" /\ pc = "idle"
  /\ UNCHANGED <<power, boot, requested, pc, issued>>
  /\ menu' \in {menu, MenuEntry(tx)}
  /\ \A d \in Calls \ {c} : call'[d] = call[d] /\ held'[d] = held[d]
  /\ \/ call'[c] = "idle" /\ held'[c] = None
     \/ SameConcern(call[c], call'[c]) /\ held'[c] = held[c]

LEMMA AdvanceFrame ==
  ASSUME Frame, NEW c \in Calls, NEW s, NEW e, Returns(c, s) \/ Errs(c, e),
         call[c] # "idle",
         s = "idle" \/ SameConcern(call[c], s), e = "idle" \/ SameConcern(call[c], e),
         UNCHANGED <<bootVars, engineVars, issued>>, menu' \in {menu, MenuEntry(tx)}
  PROVE  CallFrame(c) /\ call'[c] \in {s, e} /\ (Returns(c, s) \/ call'[c] = e)
<1>1. power = "user" /\ pc = "idle" /\ "idle" \notin Scheduling \cup Cancelling \cup Settle
  BY CallIsInUserspace DEF Scheduling, Cancelling, Settle, Finishing
<1>2. call \in [Calls -> CallSteps] /\ held \in [Calls -> Transaction \cup {None}]
  BY DEF Frame, TypeOK
<1>3. PICK n \in {s, e} : AdvanceCall(c, n) /\ (Returns(c, s) \/ n = e)
  BY DEF Returns, Errs
<1>4. /\ call'[c] = n /\ held'[c] = (IF n = "idle" THEN None ELSE held[c])
      /\ \A d \in Calls \ {c} : call'[d] = call[d] /\ held'[d] = held[d]
  BY <1>2, <1>3 DEF AdvanceCall
<1> QED
  BY <1>1, <1>3, <1>4 DEF CallFrame, bootVars, engineVars

LEMMA RecordWritten ==
  ASSUME NEW c, NEW t, NEW s, NEW e, WriteRecord(c, t, s, e), RestOfRecord
  PROVE  /\ Returns(c, s) \/ Errs(c, e)
         /\ tx' = t \/ (tx' = tx /\ Errs(c, e))
         /\ UNCHANGED <<history, lineage, view, disk, bootVars, engineVars, issued>>
         /\ menu' = menu
BY DEF WriteRecord, RestOfRecord, layoutVars, grubVars

LEMMA SelectorWritten ==
  ASSUME NEW c, NEW i, NEW s, NEW e, WriteSelector(c, i, s, e), RestOfSelector
  PROVE  /\ Returns(c, s) \/ Errs(c, e)
         /\ UNCHANGED <<tx, history, lineage, view, disk, bootVars, engineVars, issued>>
         /\ menu' = menu
BY DEF WriteSelector, RestOfSelector, recordVars, layoutVars

LEMMA MenuWritten ==
  ASSUME NEW c, NEW s, NEW e, WriteMenu(c, s, e), RestOfMenu
  PROVE  /\ Returns(c, s) \/ Errs(c, e)
         /\ UNCHANGED <<tx, history, lineage, view, disk, bootVars, engineVars, issued>>
         /\ menu' \in {menu, MenuEntry(tx)}
BY DEF WriteMenu, RestOfMenu, recordVars, layoutVars

LEMMA ErrorsGoTo ==
  ASSUME Frame, NEW c \in Calls, NEW e, Errs(c, e)
  PROVE  call'[c] = e
BY DEF Frame, TypeOK, Errs, AdvanceCall

LEMMA ScheduleStepEffect ==
  ASSUME Frame, NEW c \in Calls, ScheduleStep(c)
  PROVE  CallFrame(c) /\ CallEffect(c)
<1> USE DEF CallEffect
<1>0. /\ call[c] \in Scheduling /\ call[c] # "idle"
      /\ \A s \in Scheduling : SameConcern(call[c], s)
      /\ Scheduling \cap Settle = {} /\ "idle" \notin Settle
  BY DEF ScheduleStep, CreateRecord, RegenerateMenu, VerifyMenu, ArmRecord, ArmBoot,
         CleanClear, CleanRemove, CleanRegenerate, Scheduling, SameConcern, Settle, Finishing
<1>1. {"create", "regenerate", "verify", "arm_record", "arm_boot",
       "clean_clear", "clean_remove", "clean_regenerate"} \subseteq Scheduling
  BY DEF Scheduling
<1>2. CASE CreateRecord(c)
  <2>0. call[c] = "create" /\ UNCHANGED <<history, lineage, bootVars, engineVars, issued, menu>>
    BY <1>2 DEF CreateRecord, grubVars
  <2>1. CASE tx # None
    <3>1. Returns(c, "clean_clear") /\ UNCHANGED <<tx, view, disk>>
      BY <1>2, <2>1 DEF CreateRecord, layoutVars
    <3>2. CallFrame(c) /\ call'[c] = "clean_clear"
      BY <1>0, <1>1, <2>0, <3>1, AdvanceFrame
    <3> QED
      BY <1>0, <1>1, <2>0, <3>1, <3>2 DEF RestEffect
  <2>2. CASE tx = None
    <3>1. /\ WriteRecord(c, held[c], "regenerate", "clean_clear")
          /\ view' = IF tx' = None THEN view ELSE Layout(view.root, None, None)
          /\ disk' = IF tx' = None THEN disk ELSE Layout(disk.root, None, None)
      BY <1>2, <2>2 DEF CreateRecord
    <3>2. /\ Returns(c, "regenerate") \/ Errs(c, "clean_clear")
          /\ tx' = held[c] \/ tx' = None
      BY <2>2, <3>1 DEF WriteRecord
    <3>3. CallFrame(c) /\ call'[c] \in {"regenerate", "clean_clear"}
      BY <1>0, <1>1, <2>0, <3>2, AdvanceFrame
    <3> QED
      BY <1>0, <1>1, <2>0, <2>2, <3>1, <3>2, <3>3 DEF RestEffect, CreateEffect
  <2> QED
    BY <2>1, <2>2
<1>3. CASE RegenerateMenu(c)
  BY <1>0, <1>1, <1>3, MenuWritten, AdvanceFrame DEF RegenerateMenu, RestEffect
<1>4. CASE VerifyMenu(c)
  <2>1. /\ Returns(c, "arm_record") \/ Returns(c, "clean_clear") \/ Errs(c, "clean_clear")
        /\ UNCHANGED <<tx, history, lineage, view, disk, bootVars, engineVars, issued, menu>>
    BY <1>4 DEF VerifyMenu, OnlyCall, recordVars, layoutVars, grubVars
  <2> QED
    BY <1>0, <1>1, <2>1, AdvanceFrame DEF RestEffect
<1>5. CASE ArmRecord(c)
  <2>0. call[c] = "arm_record"
    BY <1>5 DEF ArmRecord
  <2>1. CASE tx = None
    <3>1. /\ Returns(c, "clean_clear")
          /\ UNCHANGED <<tx, history, lineage, view, disk, bootVars, engineVars, issued, menu>>
      BY <1>5, <2>1 DEF ArmRecord, RestOfRecord, layoutVars, grubVars
    <3> QED
      BY <1>0, <1>1, <3>1, AdvanceFrame DEF RestEffect
  <2>2. CASE tx # None
    <3>1. /\ WriteRecord(c, Transition(held[c], "Armed"), "arm_boot", "clean_clear")
          /\ RestOfRecord
      BY <1>5, <2>2 DEF ArmRecord
    <3>2. CallFrame(c) /\ call'[c] \in {"arm_boot", "clean_clear"}
      BY <1>0, <1>1, <3>1, RecordWritten, AdvanceFrame
    <3>3. CASE tx' = tx
      BY <1>0, <1>1, <3>1, <3>2, <3>3, RecordWritten DEF RestEffect
    <3>4. CASE tx' = Transition(held[c], "Armed")
      BY <1>0, <1>1, <2>0, <2>2, <3>1, <3>2, <3>4, RecordWritten DEF ArmEffect
    <3> QED
      BY <3>1, <3>3, <3>4, RecordWritten
  <2> QED
    BY <2>1, <2>2
<1>6. CASE ArmBoot(c)
  <2>1. CASE tx = None \/ tx.phase # "Armed"
    <3>1. /\ Returns(c, "clean_clear")
          /\ UNCHANGED <<tx, history, lineage, view, disk, bootVars, engineVars, issued, menu>>
      BY <1>6, <2>1 DEF ArmBoot, RestOfSelector, recordVars, layoutVars
    <3> QED
      BY <1>0, <1>1, <3>1, AdvanceFrame DEF RestEffect
  <2>2. CASE ~(tx = None \/ tx.phase # "Armed")
    <3>1. PICK s \in {"idle", "clean_clear"} : WriteSelector(c, tx.id, s, "clean_clear")
      BY <1>6, <2>2 DEF ArmBoot
    <3>2. RestOfSelector
      BY <1>6 DEF ArmBoot
    <3>3. /\ Returns(c, s) \/ Errs(c, "clean_clear")
          /\ UNCHANGED <<tx, history, lineage, view, disk, bootVars, engineVars, issued>>
          /\ menu' = menu
      BY <3>1, <3>2, SelectorWritten
    <3>4. CallFrame(c) /\ call'[c] \in {s, "clean_clear"}
      BY <1>0, <1>1, <3>1, <3>3, AdvanceFrame
    <3> QED
      BY <1>0, <1>1, <3>1, <3>3, <3>4 DEF RestEffect
  <2> QED
    BY <2>1, <2>2
<1>7. CASE CleanClear(c)
  BY <1>0, <1>1, <1>7, SelectorWritten, AdvanceFrame DEF CleanClear, RestEffect
<1>8. CASE CleanRemove(c)
  <2>1. /\ WriteRecord(c, None, "clean_regenerate", "clean_regenerate") /\ RestOfRecord
        /\ call[c] = "clean_remove"
    BY <1>8 DEF CleanRemove
  <2>2. CallFrame(c) /\ call'[c] = "clean_regenerate"
    BY <1>0, <1>1, <2>1, RecordWritten, AdvanceFrame
  <2> QED
    BY <1>0, <1>1, <2>1, <2>2, RecordWritten DEF RestEffect, RemoveEffect
<1>9. CASE CleanRegenerate(c)
  BY <1>0, <1>1, <1>9, MenuWritten, AdvanceFrame DEF CleanRegenerate, RestEffect
<1> QED
  BY <1>2, <1>3, <1>4, <1>5, <1>6, <1>7, <1>8, <1>9 DEF ScheduleStep

LEMMA CancelStepEffect ==
  ASSUME Frame, NEW c \in Calls, CancelStep(c)
  PROVE  CallFrame(c) /\ CallEffect(c)
<1> USE DEF CallEffect
<1>0. /\ call[c] \in Cancelling /\ call[c] # "idle"
      /\ \A s \in Cancelling : SameConcern(call[c], s)
      /\ Cancelling \cap Settle = {} /\ "idle" \notin Settle
      /\ {"cancel_clear", "cancel_remove", "cancel_regenerate"} \subseteq Cancelling
  BY DEF CancelStep, CancelClear, CancelRemove, CancelRegenerate, Cancelling, SameConcern,
         Settle, Finishing
<1>1. CASE CancelClear(c)
  BY <1>0, <1>1, SelectorWritten, AdvanceFrame DEF CancelClear, RestEffect
<1>2. CASE CancelRemove(c)
  <2>1. /\ WriteRecord(c, None, "cancel_regenerate", "idle") /\ RestOfRecord
        /\ call[c] = "cancel_remove"
    BY <1>2 DEF CancelRemove
  <2>2. CallFrame(c) /\ call'[c] \in {"cancel_regenerate", "idle"}
    BY <1>0, <2>1, RecordWritten, AdvanceFrame
  <2> QED
    BY <1>0, <2>1, <2>2, RecordWritten DEF RestEffect, RemoveEffect
<1>3. CASE CancelRegenerate(c)
  BY <1>0, <1>3, MenuWritten, AdvanceFrame DEF CancelRegenerate, RestEffect
<1> QED
  BY <1>1, <1>2, <1>3 DEF CancelStep

LEMMA ReconcileStepEffect ==
  ASSUME Frame, NEW c \in Calls, ReconcileStep(c)
  PROVE  CallFrame(c) /\ CallEffect(c)
<1> USE DEF CallEffect
<1>0. /\ call[c] \in Settle /\ call[c] # "idle"
      /\ \A s \in Settle : SameConcern(call[c], s)
      /\ "idle" \notin Settle
      /\ {"record", "lineage", "delete_old", "clear", "archive", "remove", "finish"}
           \subseteq Settle
  BY DEF ReconcileStep, RecordOutcome, RecordLineage, DeleteOldRoot, ClearSelector,
         ArchiveRecord, RemoveRecord, FinishMenu, SameConcern, Settle, Finishing
<1>1. CASE RecordOutcome(c)
  <2>0. call[c] = "record" /\ RestOfRecord
    BY <1>1 DEF RecordOutcome
  <2>1. CASE tx = None
    <3>1. /\ Returns(c, "idle")
          /\ UNCHANGED <<tx, history, lineage, view, disk, bootVars, engineVars, issued, menu>>
      BY <1>1, <2>1 DEF RecordOutcome, RestOfRecord, layoutVars, grubVars
    <3> QED
      BY <1>0, <3>1, AdvanceFrame DEF RestEffect
  <2>2. CASE tx # None
    <3>1. WriteRecord(c, held[c], Finish(held[c]), "idle") /\ Finish(held[c]) \in Settle
      BY <1>0, <1>1, <2>2 DEF RecordOutcome, Finish
    <3>2. CallFrame(c) /\ call'[c] \in {Finish(held[c]), "idle"}
      BY <1>0, <2>0, <3>1, RecordWritten, AdvanceFrame
    <3>3. CASE tx' = held[c]
      BY <2>0, <2>2, <3>1, <3>2, <3>3, RecordWritten DEF OutcomeEffect
    <3>4. CASE tx' = tx /\ Errs(c, "idle")
      <4>1. call'[c] = "idle"
        BY <3>4, ErrorsGoTo
      <4> QED
        BY <1>0, <2>0, <3>1, <3>2, <3>4, <4>1, RecordWritten DEF RestEffect
    <3> QED
      BY <2>0, <3>1, <3>3, <3>4, RecordWritten
  <2> QED
    BY <2>1, <2>2
<1>2. CASE RecordLineage(c)
  <2> DEFINE h == held[c]
             next == IF h.phase = "Confirmed" THEN "delete_old" ELSE "clear"
             recorded == [lineage EXCEPT ![h.id] = h.phase]
  <2>1. /\ call[c] = "lineage"
        /\ UNCHANGED <<tx, history, view, disk, bootVars, engineVars, issued, menu>>
    BY <1>2 DEF RecordLineage, layoutVars, grubVars
  <2>2. CASE lineage[h.id] \notin {None, h.phase}
    <3>1. Returns(c, "idle") /\ UNCHANGED lineage
      BY <1>2, <2>2 DEF RecordLineage
    <3> QED
      BY <1>0, <2>1, <3>1, AdvanceFrame DEF RestEffect
  <2>3. CASE lineage[h.id] \in {None, h.phase}
    <3>1. \/ lineage' = recorded /\ Returns(c, next)
          \/ lineage' \in {lineage, recorded} /\ Errs(c, "idle")
      BY <1>2, <2>3, Zenon DEF RecordLineage
    <3>2. next \in Settle
      BY <1>0
    <3>3. CallFrame(c) /\ call'[c] \in {next, "idle"}
      BY <1>0, <2>1, <3>1, <3>2, AdvanceFrame
    <3>4. CASE lineage' = recorded
      BY <2>1, <2>3, <3>3, <3>4 DEF LineageEffect
    <3>5. CASE lineage' = lineage /\ Errs(c, "idle")
      <4>1. call'[c] = "idle"
        BY <3>5, ErrorsGoTo
      <4> QED
        BY <1>0, <2>1, <3>3, <3>5, <4>1 DEF RestEffect
    <3> QED
      BY <3>1, <3>4, <3>5
  <2> QED
    BY <2>2, <2>3
<1>3. CASE DeleteOldRoot(c)
  <2> DEFINE without == Layout(view.root, None, view.new)
  <2>1. /\ call[c] = "delete_old"
        /\ UNCHANGED <<tx, history, lineage, bootVars, engineVars, issued, menu>>
    BY <1>3 DEF DeleteOldRoot, recordVars, grubVars
  <2>2. /\ Returns(c, "clear") \/ Errs(c, "idle")
        /\ view' \in {view, without} /\ disk' \in {disk, view'}
    BY <1>3 DEF DeleteOldRoot, layoutVars
  <2>3. CallFrame(c) /\ call'[c] \in {"clear", "idle"}
    BY <1>0, <2>1, <2>2, AdvanceFrame
  <2> QED
    BY <2>1, <2>2, <2>3 DEF DeleteEffect
<1>4. CASE ClearSelector(c)
  BY <1>0, <1>4, SelectorWritten, AdvanceFrame DEF ClearSelector, RestEffect
<1>5. CASE ArchiveRecord(c)
  <2> DEFINE archived == [history EXCEPT ![held[c].id] = held[c].phase]
  <2>1. /\ call[c] = "archive"
        /\ UNCHANGED <<tx, lineage, view, disk, bootVars, engineVars, issued, menu>>
        /\ \/ history' = archived /\ Returns(c, "remove")
           \/ history' \in {history, archived} /\ Errs(c, "idle")
    BY <1>5 DEF ArchiveRecord, layoutVars, grubVars
  <2>2. CallFrame(c) /\ call'[c] \in {"remove", "idle"}
    BY <1>0, <2>1, AdvanceFrame
  <2>3. CASE history' = archived
    BY <2>1, <2>2, <2>3 DEF ArchiveEffect
  <2>4. CASE history' = history /\ Errs(c, "idle")
    <3>1. call'[c] = "idle"
      BY <2>4, ErrorsGoTo
    <3> QED
      BY <1>0, <2>1, <2>2, <2>4, <3>1 DEF RestEffect
  <2> QED
    BY <2>1, <2>3, <2>4
<1>6. CASE RemoveRecord(c)
  <2>1. WriteRecord(c, None, "finish", "idle") /\ RestOfRecord /\ call[c] = "remove"
    BY <1>6 DEF RemoveRecord
  <2>2. CallFrame(c) /\ call'[c] \in {"finish", "idle"}
    BY <1>0, <2>1, RecordWritten, AdvanceFrame
  <2>3. CASE tx' = None
    BY <2>1, <2>2, <2>3, RecordWritten DEF RemoveEffect
  <2>4. CASE tx' = tx /\ Errs(c, "idle")
    <3>1. call'[c] = "idle"
      BY <2>4, ErrorsGoTo
    <3> QED
      BY <1>0, <2>1, <2>2, <2>4, <3>1, RecordWritten DEF RestEffect
  <2> QED
    BY <2>1, <2>3, <2>4, RecordWritten
<1>7. CASE FinishMenu(c)
  BY <1>0, <1>7, MenuWritten, AdvanceFrame DEF FinishMenu, RestEffect
<1> QED
  BY <1>1, <1>2, <1>3, <1>4, <1>5, <1>6, <1>7 DEF ReconcileStep

LEMMA CallStepEffect ==
  ASSUME Frame, NEW c \in Calls, CallStep(c)
  PROVE  CallFrame(c) /\ CallEffect(c)
BY ScheduleStepEffect, CancelStepEffect, ReconcileStepEffect DEF CallStep

(***************************************************************************)
(* Records.  Each operation makes a sound record of a sound one.           *)
(***************************************************************************)
LEMMA NoneIsNoValue ==
  None \notin BootIds /\ None \notin Checkpoints /\ None \notin TxIds /\ None \notin Phases
BY NoneAssumption

LEMMA NewTransactionSound ==
  ASSUME NEW i \in TxIds
  PROVE  /\ SoundRecord(NewTransaction(i)) /\ NewTransaction(i).id = i
         /\ SoundRecord(Transition(NewTransaction(i), "Armed"))
         /\ Transition(NewTransaction(i), "Armed").id = i
BY DEF SoundRecord, Valid, AtPhase, NewTransaction, Transition

LEMMA EntrySound ==
  ASSUME NEW t \in Transaction, NEW b \in BootIds, CanEnterInitramfs(t), SoundRecord(t)
  PROVE  LET e == RecordInitramfsEntry(t, b) IN
         /\ SoundRecord(e) /\ e.id = t.id
         /\ e.apply_attempts < e.initramfs_attempts
<1>1. /\ t.initramfs_attempts \in Nat /\ t.apply_attempts \in Nat
      /\ t.phase \in {"Armed", "Applying"}
  BY MaxAttemptsAssumption DEF Transaction, CanEnterInitramfs
<1>2. Valid(t) /\ b # None
  BY NoneIsNoRecord, NoneIsNoValue DEF SoundRecord
<1>3. PICK e \in Transaction : e = RecordInitramfsEntry(t, b)
  BY EntryType
<1>4. /\ e.id = t.id /\ e.phase = t.phase /\ e.apply_attempts = t.apply_attempts
      /\ e.initramfs_attempts = t.initramfs_attempts + 1
      /\ e.initramfs_boot_id = b /\ e.checkpoint = "InitramfsEntered"
      /\ e.applying_boot_id = t.applying_boot_id
  BY <1>3 DEF RecordInitramfsEntry, Transaction
<1>5. Valid(e)
  BY <1>1, <1>2, <1>4, NoneIsNoValue DEF Valid, Checkpoints
<1>6. AtPhase(e)
  BY <1>1, <1>4 DEF AtPhase, EntryCheckpoints
<1> QED
  BY <1>1, <1>2, <1>3, <1>4, <1>5, <1>6 DEF SoundRecord, Valid

LEMMA CheckpointSound ==
  ASSUME NEW t \in Transaction, NEW c \in Checkpoints, SoundRecord(t),
         t.initramfs_attempts > 0,
         AtPhase(RecordCheckpoint(t, c))
  PROVE  LET e == RecordCheckpoint(t, c) IN
         /\ SoundRecord(e) /\ e.id = t.id
         /\ e.apply_attempts = t.apply_attempts
         /\ e.initramfs_attempts = t.initramfs_attempts
<1>1. Valid(t) /\ t.initramfs_attempts \in Nat /\ c # None
  BY NoneIsNoRecord, NoneIsNoValue, MaxAttemptsAssumption DEF SoundRecord, Transaction
<1>2. PICK e \in Transaction : e = RecordCheckpoint(t, c)
  BY CheckpointType
<1>3. /\ e.id = t.id /\ e.phase = t.phase /\ e.apply_attempts = t.apply_attempts
      /\ e.initramfs_attempts = t.initramfs_attempts
      /\ e.initramfs_boot_id = t.initramfs_boot_id /\ e.checkpoint = c
      /\ e.applying_boot_id = t.applying_boot_id
  BY <1>2 DEF RecordCheckpoint, Transaction
<1> QED
  BY <1>1, <1>2, <1>3 DEF SoundRecord, Valid

\* A record in flight has entered the initramfs.
LEMMA FlightEntered ==
  ASSUME NEW t \in Transaction, SoundRecord(t), t.phase \in InFlight
  PROVE  t.initramfs_attempts > 0 /\ t.apply_attempts > 0
<1>1. Valid(t) /\ t.initramfs_attempts \in Nat /\ t.apply_attempts \in Nat
  BY NoneIsNoRecord, MaxAttemptsAssumption DEF SoundRecord, Transaction
<1> QED
  BY <1>1 DEF Valid, InFlight

\* A record that moves on from one phase in flight, with a checkpoint of the next.
LEMMA LeaveSound ==
  ASSUME NEW t \in Transaction, SoundRecord(t), t.phase \in InFlight,
         NEW p \in {"BootedUnconfirmed", "Reverting", "Reverted"}, NEW c \in Checkpoints,
         p = "BootedUnconfirmed" => c = "BootedUnconfirmedRecorded",
         p = "Reverting" => c = "RevertStarted",
         p = "Reverted" => c = "RevertedRecorded"
  PROVE  LET e == RecordCheckpoint(Transition(t, p), c) IN
         /\ e \in Transaction /\ SoundRecord(e) /\ e.id = t.id /\ e.phase = p
         /\ e.checkpoint = c
<1>1. /\ Valid(t) /\ t.initramfs_attempts \in Nat /\ t.initramfs_attempts > 0
      /\ t.apply_attempts > 0 /\ c # None /\ p \in Phases
  BY FlightEntered, NoneIsNoRecord, NoneIsNoValue, MaxAttemptsAssumption, PhaseTypes
     DEF SoundRecord, Transaction
<1>2. PICK m \in Transaction : m = Transition(t, p)
  BY <1>1, TransitionType
<1>3. /\ m.id = t.id /\ m.phase = p /\ m.apply_attempts = t.apply_attempts
      /\ m.initramfs_attempts = t.initramfs_attempts
      /\ m.initramfs_boot_id = t.initramfs_boot_id
      /\ m.applying_boot_id = t.applying_boot_id
  BY <1>1, <1>2 DEF Transition, Transaction
<1>4. PICK e \in Transaction : e = RecordCheckpoint(m, c)
  BY CheckpointType
<1>5. /\ e.id = t.id /\ e.phase = p /\ e.apply_attempts = t.apply_attempts
      /\ e.initramfs_attempts = t.initramfs_attempts
      /\ e.initramfs_boot_id = t.initramfs_boot_id /\ e.checkpoint = c
      /\ e.applying_boot_id = t.applying_boot_id
  BY <1>3, <1>4 DEF RecordCheckpoint, Transaction
<1>6. Valid(e) /\ AtPhase(e)
  BY <1>1, <1>5 DEF Valid, AtPhase
<1> QED
  BY <1>2, <1>4, <1>5, <1>6 DEF SoundRecord

LEMMA BeginApplySound ==
  ASSUME NEW t \in Transaction, NEW b \in BootIds, CanBeginApply(t, b), SoundRecord(t),
         t.apply_attempts < t.initramfs_attempts
  PROVE  LET e == BeginApply(t, b) IN
         SoundRecord(e) /\ e.id = t.id /\ e.checkpoint = "ApplyStarted"
<1>1. /\ Valid(t) /\ t.initramfs_attempts \in Nat /\ t.apply_attempts \in Nat /\ b # None
  BY NoneIsNoRecord, NoneIsNoValue, MaxAttemptsAssumption DEF SoundRecord, Transaction
<1>2. PICK e \in Transaction : e = BeginApply(t, b)
  BY BeginApplyType
<1>3. /\ e.id = t.id /\ e.phase = "Applying" /\ e.apply_attempts = t.apply_attempts + 1
      /\ e.initramfs_attempts = t.initramfs_attempts
      /\ e.initramfs_boot_id = t.initramfs_boot_id /\ e.checkpoint = "ApplyStarted"
      /\ e.applying_boot_id = b
  BY <1>2 DEF BeginApply, Transaction
<1>4. Valid(e)
  BY <1>1, <1>3, NoneIsNoValue DEF Valid, Checkpoints
<1>5. AtPhase(e)
  BY <1>3 DEF AtPhase
<1> QED
  BY <1>2, <1>3, <1>4, <1>5 DEF SoundRecord

LEMMA FailureSound ==
  ASSUME NEW t \in Transaction, SoundRecord(t), t.phase = "Armed"
  PROVE  LET e == RecordFailure(t) IN
         SoundRecord(e) /\ e.id = t.id /\ e.checkpoint = t.checkpoint
<1>1. Valid(t) /\ AtPhase(t)
  BY NoneIsNoRecord DEF SoundRecord
<1>2. PICK e \in Transaction : e = RecordFailure(t)
  BY FailureType
<1>3. /\ e.id = t.id /\ e.phase = "Failed" /\ e.apply_attempts = t.apply_attempts
      /\ e.initramfs_attempts = t.initramfs_attempts
      /\ e.initramfs_boot_id = t.initramfs_boot_id /\ e.checkpoint = t.checkpoint
      /\ e.applying_boot_id = t.applying_boot_id
  BY <1>2 DEF RecordFailure, Transaction
<1> QED
  BY <1>1, <1>2, <1>3 DEF SoundRecord, Valid, AtPhase

LEMMA ConfirmSound ==
  ASSUME NEW t \in Transaction, SoundRecord(t), t.phase = "BootedUnconfirmed"
  PROVE  LET e == Transition(t, "Confirmed") IN
         SoundRecord(e) /\ e.id = t.id /\ e.checkpoint = t.checkpoint
<1>1. Valid(t) /\ AtPhase(t)
  BY NoneIsNoRecord DEF SoundRecord
<1>2. PICK e \in Transaction : e = Transition(t, "Confirmed")
  BY TransitionType, PhaseTypes
<1>3. /\ e.id = t.id /\ e.phase = "Confirmed" /\ e.apply_attempts = t.apply_attempts
      /\ e.initramfs_attempts = t.initramfs_attempts
      /\ e.initramfs_boot_id = t.initramfs_boot_id /\ e.checkpoint = t.checkpoint
      /\ e.applying_boot_id = t.applying_boot_id
  BY <1>2, PhaseTypes DEF Transition, Transaction
<1> QED
  BY <1>1, <1>2, <1>3 DEF SoundRecord, Valid, AtPhase

LEMMA InitRecords == Init => RecordsAreSound
BY DEF Init, RecordsAreSound, SoundRecord, Scheduling

\* An engine step whose record is sound again.
LEMMA EngineKeepsRecords ==
  ASSUME RecordsAreSound, UNCHANGED callVars, SoundRecord(tx'),
         pc' \in {"validating", "validate", "begin"} =>
           tx'.apply_attempts < tx'.initramfs_attempts,
         pc' \in {"sync", "checkpoint"} =>
           owed' \in IF tx'.phase = "Applying" THEN ApplyCheckpoints ELSE RevertCheckpoints
  PROVE  RecordsAreSound'
<1>1. /\ SoundRecord(tx)'
      /\ \A c \in Calls : /\ SoundRecord(held[c])'
                          /\ (call[c] \in Scheduling => held[c] = NewTransaction(held[c].id))'
  BY DEF RecordsAreSound, callVars, SoundRecord
<1>2. /\ ApplyCheckpoints' = ApplyCheckpoints /\ RevertCheckpoints' = RevertCheckpoints
  BY DEF ApplyCheckpoints, RevertCheckpoints
<1> QED
  BY <1>1, <1>2 DEF RecordsAreSound

(***************************************************************************)
(* What a step of the engine comes to.                                     *)
(***************************************************************************)
Looping == {"loop", "sync", "checkpoint"}

\* Another record of the same rollback, in phase p and with checkpoint k.
BecomesRecord(p, k) ==
  /\ tx' \in Transaction /\ tx'.id = tx.id /\ tx'.phase = p /\ tx'.checkpoint = k
  /\ UNCHANGED <<view, disk>>

EngineRests == UNCHANGED <<tx, view, disk>> /\ pc' \notin Looping

EngineResumes ==
  /\ UNCHANGED <<tx, view, disk>>
  /\ tx # None /\ tx.phase = "Reverting" /\ pc' = "loop" /\ rounds' = RevertRounds

EngineEnters ==
  /\ tx \in Transaction /\ pc' \notin Looping
  /\ \/ /\ tx.phase \in {"Armed", "Applying"}
        /\ \E k \in EntryCheckpoints : BecomesRecord(tx.phase, k)
     \/ tx.phase = "Armed" /\ BecomesRecord("Failed", tx.checkpoint)

EngineStarts ==
  /\ tx \in Transaction /\ pc' \in {"loop", "done"}
  /\ \/ /\ tx.phase \in {"Armed", "Applying"}
        /\ BecomesRecord("Applying", "ApplyStarted") /\ rounds' = ApplyRounds
     \/ /\ tx.phase \in {"Applying", "BootedUnconfirmed"}
        /\ BecomesRecord("Reverting", "RevertStarted") /\ rounds' = RevertRounds

EngineMoves ==
  /\ pc = "loop" /\ tx \in Transaction /\ tx.phase \in {"Applying", "Reverting"}
  /\ UNCHANGED <<tx, disk>> /\ rounds > 0 /\ rounds' = rounds - 1 /\ ~Converged
  /\ \E m \in Moves :
       /\ owed' = m.checkpoint
       /\ (view' = m.to /\ pc' = "sync") \/ (view' \in {view, m.to} /\ pc' = "done")

EngineSyncs ==
  /\ pc = "sync" /\ tx \in Transaction /\ tx.phase \in {"Applying", "Reverting"}
  /\ UNCHANGED <<tx, view, rounds, owed>>
  /\ (disk' = view /\ pc' = "checkpoint") \/ (disk' \in {disk, view} /\ pc' = "done")

EngineNotes ==
  /\ pc = "checkpoint" /\ tx \in Transaction /\ tx.phase \in {"Applying", "Reverting"}
  /\ BecomesRecord(tx.phase, owed) /\ UNCHANGED rounds /\ pc' \in {"loop", "done"}

EngineLands ==
  /\ pc = "loop" /\ tx \in Transaction /\ Converged /\ pc' = "done"
  /\ \/ tx.phase = "Applying" /\ BecomesRecord("BootedUnconfirmed", "BootedUnconfirmedRecorded")
     \/ tx.phase = "Reverting" /\ BecomesRecord("Reverted", "RevertedRecorded")

EngineEffect ==
  \/ EngineRests \/ EngineResumes \/ EngineEnters \/ EngineStarts
  \/ EngineMoves \/ EngineSyncs \/ EngineNotes \/ EngineLands

EngineOnly ==
  /\ power = "initramfs" /\ UNCHANGED <<power, boot, requested, history, lineage, menu>>
  /\ call' = call /\ held' = held /\ issued' = issued
  /\ \A c \in Calls : call[c] = "idle"

\* The checkpoint a move owes is one of its loop.
LEMMA MoveCheckpoint ==
  ASSUME NEW m \in Moves
  PROVE  /\ m.checkpoint \in IF tx.phase = "Applying" THEN ApplyCheckpoints ELSE RevertCheckpoints
<1>1. CASE tx.phase = "Applying"
  <2>1. m \in ApplyMoves(view, tx.id)
    BY <1>1 DEF Moves
  <2> QED
    BY <1>1, <2>1, ApplyMove DEF Move, ApplyCheckpoints
<1>2. CASE tx.phase # "Applying"
  <2>1. m \in RevertMoves(view)
    BY <1>2 DEF Moves
  <2> QED
    BY <1>2, <2>1, RevertMove DEF Move, RevertCheckpoints
<1> QED
  BY <1>1, <1>2

LEMMA EngineStepEffect ==
  ASSUME Frame, RecordsAreSound, Engine
  PROVE  RecordsAreSound' /\ EngineOnly /\ EngineEffect
<1> USE DEF EngineEffect, Looping
<1>0. /\ power = "initramfs" /\ boot \in BootIds /\ SoundRecord(tx)
      /\ tx \in Transaction \cup {None}
      /\ pc \notin {"idle", "hook", "done"} => tx \in Transaction
      /\ \A c \in Calls : call[c] = "idle"
  BY DEF Engine, Frame, TypeOK, EngineRuns, CallsRun, RecordsAreSound
<1>1. EngineOnly /\ UNCHANGED callVars
  BY <1>0 DEF EngineOnly, Engine, EngineStep, Hook, FailSafe, Enter, StartRevert, ResumeRevert,
         NoAction, PersistValidating, ValidateDeployments, RejectDeployments, StartApply,
         LoopStep, SyncLayout, PersistCheckpoint, RecordBooted, RecordReverted, OnlyRecord,
         OnlyControl, recordVars, grubVars, bootVars, callVars
<1>2. CASE Hook
  <2>1. UNCHANGED <<tx, view, disk>> /\ pc' \in {"done", "engine"}
    BY <1>2 DEF Hook, Goto, OnlyControl, recordVars, layoutVars
  <2> QED
    BY <1>0, <1>1, <2>1, EngineKeepsRecords DEF EngineRests
<1>3. CASE FailSafe
  <2>1. tx \in Transaction /\ tx.phase = "Armed"
    BY <1>0, <1>3 DEF FailSafe, StaleArmed, ExhaustedArmed
  <2>2. tx' \in {tx, RecordFailure(tx)} /\ pc' = "done" /\ UNCHANGED <<view, disk>>
    BY <1>3 DEF FailSafe, OnlyRecord, Write, Goto, layoutVars
  <2>3. /\ SoundRecord(tx')
        /\ tx' = tx \/ BecomesRecord("Failed", tx.checkpoint)
    BY <1>0, <2>1, <2>2, FailureType, FailureSound DEF BecomesRecord
  <2> QED
    BY <1>0, <1>1, <2>1, <2>2, <2>3, EngineKeepsRecords DEF EngineRests, EngineEnters
<1>4. CASE Enter
  <2>1. tx \in Transaction /\ CanEnterInitramfs(tx) /\ tx.phase \in {"Armed", "Applying"}
    BY <1>0, <1>4 DEF Enter, Enterable, CanEnterInitramfs
  <2> DEFINE e == RecordInitramfsEntry(tx, boot)
  <2>2. /\ (tx' = e /\ pc' = "validating") \/ (tx' \in {tx, e} /\ pc' = "done")
        /\ UNCHANGED <<view, disk>>
    BY <1>4 DEF Enter, OnlyRecord, Write, Goto, layoutVars
  <2>3. /\ e \in Transaction /\ e.phase = tx.phase /\ SoundRecord(e) /\ e.id = tx.id
        /\ e.apply_attempts < e.initramfs_attempts
    BY <1>0, <2>1, EntryType, EntrySound
  <2>4. e.checkpoint = "InitramfsEntered"
    BY <2>1 DEF RecordInitramfsEntry, Transaction
  <2> HIDE DEF e
  <2>5. RecordsAreSound'
    BY <1>0, <1>1, <2>2, <2>3, EngineKeepsRecords
  <2>6. tx' = tx \/ BecomesRecord(tx.phase, "InitramfsEntered")
    BY <2>2, <2>3, <2>4 DEF BecomesRecord
  <2> QED
    BY <1>1, <2>1, <2>2, <2>5, <2>6 DEF EngineRests, EngineEnters, EntryCheckpoints
<1>5. CASE StartRevert
  <2> DEFINE e == RecordCheckpoint(Transition(tx, "Reverting"), "RevertStarted")
  <2>1. tx \in Transaction /\ tx.phase \in {"Applying", "BootedUnconfirmed"}
    BY <1>0, <1>5 DEF StartRevert, Abandoned
  <2>2. /\ (tx' = e /\ pc' = "loop") \/ (tx' \in {tx, e} /\ pc' = "done")
        /\ UNCHANGED <<view, disk>> /\ rounds' = RevertRounds
    BY <1>5 DEF StartRevert, OnlyRecord, Write, Goto, layoutVars
  <2>3. /\ e \in Transaction /\ SoundRecord(e) /\ e.id = tx.id /\ e.phase = "Reverting"
        /\ e.checkpoint = "RevertStarted"
    BY <1>0, <2>1, PhaseTypes, LeaveSound DEF InFlight
  <2> HIDE DEF e
  <2>4. RecordsAreSound'
    BY <1>0, <1>1, <2>2, <2>3, EngineKeepsRecords
  <2>5. tx' = tx \/ BecomesRecord("Reverting", "RevertStarted")
    BY <2>2, <2>3 DEF BecomesRecord
  <2>6. tx' = tx => pc' = "done"
    BY <2>1, <2>2, <2>3
  <2> QED
    BY <1>1, <2>1, <2>2, <2>4, <2>5, <2>6 DEF EngineRests, EngineStarts
<1>6. CASE ResumeRevert
  <2>1. /\ UNCHANGED <<tx, view, disk>> /\ pc' = "loop" /\ rounds' = RevertRounds
        /\ tx.phase = "Reverting" /\ tx # None
    BY <1>0, <1>6, NoneIsNoRecord
       DEF ResumeRevert, Goto, OnlyControl, recordVars, layoutVars
  <2> QED
    BY <1>0, <1>1, <2>1, EngineKeepsRecords DEF EngineResumes
<1>7. CASE NoAction
  <2>1. UNCHANGED <<tx, view, disk>> /\ pc' = "done"
    BY <1>7 DEF NoAction, Goto, OnlyControl, recordVars, layoutVars
  <2> QED
    BY <1>0, <1>1, <2>1, EngineKeepsRecords DEF EngineRests
<1>8. CASE PersistValidating
  <2> DEFINE e == RecordCheckpoint(tx, "Validating")
  <2>1. /\ tx \in Transaction /\ tx.phase \in {"Armed", "Applying"}
        /\ tx.apply_attempts < tx.initramfs_attempts
    BY <1>0, <1>8 DEF PersistValidating, Frame, EngineRuns, RecordsAreSound
  <2>2. /\ (tx' = e /\ pc' = "validate") \/ (tx' \in {tx, e} /\ pc' = "done")
        /\ UNCHANGED <<view, disk>>
    BY <1>8 DEF PersistValidating, OnlyRecord, Write, Goto, layoutVars
  <2>3. e \in Transaction /\ e.phase = tx.phase /\ e.checkpoint = "Validating"
    BY <2>1, PhaseTypes, CheckpointType DEF RecordCheckpoint, Transaction
  <2>4. tx.initramfs_attempts > 0
    BY <2>1, MaxAttemptsAssumption DEF Transaction
  <2>5. AtPhase(e)
    BY <2>1, <2>3 DEF AtPhase, EntryCheckpoints
  <2>6. /\ SoundRecord(e) /\ e.id = tx.id /\ e.apply_attempts < e.initramfs_attempts
    BY <1>0, <2>1, <2>4, <2>5, PhaseTypes, CheckpointSound
  <2> HIDE DEF e
  <2>7. RecordsAreSound'
    BY <1>0, <1>1, <2>2, <2>6, EngineKeepsRecords
  <2>8. tx' = tx \/ BecomesRecord(tx.phase, "Validating")
    BY <2>2, <2>3, <2>6 DEF BecomesRecord
  <2> QED
    BY <1>1, <2>1, <2>2, <2>7, <2>8 DEF EngineRests, EngineEnters, EntryCheckpoints
<1>9. CASE ValidateDeployments
  <2>1. /\ UNCHANGED <<tx, view, disk>> /\ pc' = "begin"
        /\ tx.apply_attempts < tx.initramfs_attempts
    BY <1>9 DEF ValidateDeployments, Goto, OnlyControl, recordVars, layoutVars, RecordsAreSound
  <2> QED
    BY <1>0, <1>1, <2>1, EngineKeepsRecords DEF EngineRests
<1>10. CASE RejectDeployments
  <2>1. tx \in Transaction
    BY <1>0, <1>10 DEF RejectDeployments
  <2>2. /\ tx' = tx \/ (tx.phase = "Armed" /\ tx' = RecordFailure(tx))
        /\ pc' = "done" /\ UNCHANGED <<view, disk>>
    BY <1>10 DEF RejectDeployments, Goto, layoutVars
  <2>3. /\ SoundRecord(tx')
        /\ tx' = tx \/ (tx.phase = "Armed" /\ BecomesRecord("Failed", tx.checkpoint))
    BY <1>0, <2>1, <2>2, FailureType, FailureSound DEF BecomesRecord
  <2> QED
    BY <1>0, <1>1, <2>1, <2>2, <2>3, EngineKeepsRecords DEF EngineRests, EngineEnters
<1>11. CASE StartApply
  <2> DEFINE e == BeginApply(tx, boot)
  <2>1. /\ tx \in Transaction /\ CanBeginApply(tx, boot) /\ tx.phase \in {"Armed", "Applying"}
        /\ tx.apply_attempts < tx.initramfs_attempts
    BY <1>0, <1>11 DEF StartApply, CanBeginApply, RecordsAreSound
  <2>2. /\ (tx' = e /\ pc' = "loop") \/ (tx' \in {tx, e} /\ pc' = "done")
        /\ UNCHANGED <<view, disk>> /\ rounds' = ApplyRounds
    BY <1>11 DEF StartApply, OnlyRecord, Write, Goto, layoutVars
  <2>3. /\ e \in Transaction /\ e.phase = "Applying" /\ SoundRecord(e) /\ e.id = tx.id
        /\ e.checkpoint = "ApplyStarted"
    BY <1>0, <2>1, BeginApplyType, BeginApplySound
  <2> HIDE DEF e
  <2>4. RecordsAreSound'
    BY <1>0, <1>1, <2>2, <2>3, EngineKeepsRecords
  <2>5. (tx' = tx /\ pc' = "done") \/ BecomesRecord("Applying", "ApplyStarted")
    BY <2>2, <2>3 DEF BecomesRecord
  <2> QED
    BY <1>1, <2>1, <2>2, <2>4, <2>5 DEF EngineRests, EngineStarts
<1>12. CASE LoopStep
  <2>1. /\ tx \in Transaction /\ tx.phase \in {"Applying", "Reverting"} /\ pc = "loop"
        /\ tx' = tx /\ disk' = disk /\ ~Converged
    BY <1>0, <1>12 DEF LoopStep, Frame, EngineRuns, recordVars
  <2>2. CASE UnsafeLayout
    <3>1. pc' = "done" /\ view' = view
      BY <1>12, <2>2 DEF LoopStep, Goto
    <3> QED
      BY <1>0, <1>1, <2>1, <3>1, EngineKeepsRecords DEF EngineRests
  <2>3. CASE ~UnsafeLayout
    <3>1. PICK m \in Moves : Command(m.to, "sync") /\ owed' = m.checkpoint
      BY <1>12, <2>3 DEF LoopStep
    <3>2. rounds > 0 /\ rounds' = rounds - 1
      BY <1>12, <2>1, <2>3 DEF LoopStep, UnsafeLayout, Frame, TypeOK
    <3>3. (view' = m.to /\ pc' = "sync") \/ (view' \in {view, m.to} /\ pc' = "done")
      BY <3>1 DEF Command, Goto
    <3>4. RecordsAreSound'
      BY <1>0, <1>1, <2>1, <3>1, <3>3, MoveCheckpoint, EngineKeepsRecords
    <3>5. EngineMoves
      BY <2>1, <3>1, <3>2, <3>3 DEF EngineMoves
    <3> QED
      BY <1>1, <3>4, <3>5
  <2> QED
    BY <2>2, <2>3
<1>13. CASE SyncLayout
  <2>1. /\ tx \in Transaction /\ tx.phase \in {"Applying", "Reverting"} /\ pc = "sync"
        /\ UNCHANGED <<tx, view, rounds, owed>>
        /\ owed \in IF tx.phase = "Applying" THEN ApplyCheckpoints ELSE RevertCheckpoints
    BY <1>0, <1>13 DEF SyncLayout, Frame, EngineRuns, RecordsAreSound, recordVars
  <2>2. (disk' = view /\ pc' = "checkpoint") \/ (disk' \in {disk, view} /\ pc' = "done")
    BY <1>13 DEF SyncLayout, Sync, Goto
  <2>3. RecordsAreSound'
    BY <1>0, <1>1, <2>1, <2>2, EngineKeepsRecords
  <2> QED
    BY <1>1, <2>1, <2>2, <2>3 DEF EngineSyncs
<1>14. CASE PersistCheckpoint
  <2> DEFINE e == RecordCheckpoint(tx, owed)
  <2>1. /\ tx \in Transaction /\ tx.phase \in {"Applying", "Reverting"} /\ pc = "checkpoint"
        /\ owed \in IF tx.phase = "Applying" THEN ApplyCheckpoints ELSE RevertCheckpoints
    BY <1>0, <1>14 DEF PersistCheckpoint, Frame, EngineRuns, RecordsAreSound
  <2>2. owed \in Checkpoints
    BY <2>1 DEF ApplyCheckpoints, RevertCheckpoints, Checkpoints
  <2>3. /\ (tx' = e /\ pc' = "loop") \/ (tx' \in {tx, e} /\ pc' = "done")
        /\ UNCHANGED <<view, disk, rounds>>
    BY <1>14 DEF PersistCheckpoint, OnlyRecord, Write, Goto, layoutVars
  <2>4. e \in Transaction /\ e.phase = tx.phase /\ e.checkpoint = owed
    BY <2>1, <2>2, CheckpointType DEF RecordCheckpoint, Transaction
  <2>5. AtPhase(e)
    BY <2>1, <2>4 DEF AtPhase
  <2>6. SoundRecord(e) /\ e.id = tx.id
    BY <1>0, <2>1, <2>2, <2>5, FlightEntered, CheckpointSound DEF InFlight
  <2> HIDE DEF e
  <2>7. RecordsAreSound'
    BY <1>0, <1>1, <2>3, <2>6, EngineKeepsRecords
  <2>8. (tx' = tx /\ pc' = "done") \/ BecomesRecord(tx.phase, owed)
    BY <2>3, <2>4, <2>6 DEF BecomesRecord
  <2> QED
    BY <1>1, <2>1, <2>3, <2>7, <2>8 DEF EngineRests, EngineNotes
<1>15. CASE RecordBooted
  <2> DEFINE e == RecordCheckpoint(Transition(tx, "BootedUnconfirmed"),
                                   "BootedUnconfirmedRecorded")
  <2>1. tx \in Transaction /\ tx.phase = "Applying" /\ pc = "loop" /\ Converged
    BY <1>0, <1>15 DEF RecordBooted
  <2>2. tx' \in {tx, e} /\ pc' = "done" /\ UNCHANGED <<view, disk>>
    BY <1>15 DEF RecordBooted, OnlyRecord, Write, Goto, layoutVars
  <2>3. /\ e \in Transaction /\ SoundRecord(e) /\ e.id = tx.id
        /\ e.phase = "BootedUnconfirmed" /\ e.checkpoint = "BootedUnconfirmedRecorded"
    BY <1>0, <2>1, PhaseTypes, LeaveSound DEF InFlight
  <2> HIDE DEF e
  <2>4. RecordsAreSound'
    BY <1>0, <1>1, <2>2, <2>3, EngineKeepsRecords
  <2>5. tx' = tx \/ BecomesRecord("BootedUnconfirmed", "BootedUnconfirmedRecorded")
    BY <2>2, <2>3 DEF BecomesRecord
  <2> QED
    BY <1>1, <2>1, <2>2, <2>4, <2>5 DEF EngineRests, EngineLands
<1>16. CASE RecordReverted
  <2> DEFINE e == RecordCheckpoint(Transition(tx, "Reverted"), "RevertedRecorded")
  <2>1. tx \in Transaction /\ tx.phase = "Reverting" /\ pc = "loop" /\ Converged
    BY <1>0, <1>16 DEF RecordReverted
  <2>2. tx' \in {tx, e} /\ pc' = "done" /\ UNCHANGED <<view, disk>>
    BY <1>16 DEF RecordReverted, OnlyRecord, Write, Goto, layoutVars
  <2>3. /\ e \in Transaction /\ SoundRecord(e) /\ e.id = tx.id
        /\ e.phase = "Reverted" /\ e.checkpoint = "RevertedRecorded"
    BY <1>0, <2>1, PhaseTypes, LeaveSound DEF InFlight
  <2> HIDE DEF e
  <2>4. RecordsAreSound'
    BY <1>0, <1>1, <2>2, <2>3, EngineKeepsRecords
  <2>5. tx' = tx \/ BecomesRecord("Reverted", "RevertedRecorded")
    BY <2>2, <2>3 DEF BecomesRecord
  <2> QED
    BY <1>1, <2>1, <2>2, <2>4, <2>5 DEF EngineRests, EngineLands
<1> QED
  BY <1>2, <1>3, <1>4, <1>5, <1>6, <1>7, <1>8, <1>9, <1>10, <1>11, <1>12, <1>13, <1>14,
     <1>15, <1>16 DEF Engine, EngineStep

(***************************************************************************)
(* What the other steps come to.                                           *)
(***************************************************************************)
BootEffect ==
  /\ UNCHANGED <<tx, history, lineage, menu>> /\ issued' = issued
  /\ \A c \in Calls : call'[c] = "idle" /\ held'[c] \in {held[c], None}
  /\ requested' \in {requested, None, menu}
  /\ pc' \notin Looping \cup {"validating", "validate", "begin"}
  /\ \/ view' = view /\ disk' = disk
     \/ view' \in {view, disk} /\ disk' = view'
  /\ power' = "user" => view.root # None /\ view' = view

\* A call begins and holds record h at step s; nothing else changes.
StartFrame(c, h, s) ==
  /\ power = "user" /\ pc = "idle" /\ call[c] = "idle"
  /\ UNCHANGED <<power, boot, requested, pc, menu, tx, history, lineage, view, disk>>
  /\ call'[c] = s /\ held'[c] = h
  /\ \A d \in Calls \ {c} : call'[d] = call[d] /\ held'[d] = held[d]

ScheduleEffect(c) ==
  \E i \in TxIds \ issued :
    tx = None /\ issued' = issued \cup {i} /\ StartFrame(c, NewTransaction(i), "create")

CancelEffect(c) ==
  /\ tx \in Transaction /\ tx.phase \in {"Preparing", "Armed"} /\ issued' = issued
  /\ StartFrame(c, held[c], "cancel_clear")

ReconcileEffect(c) ==
  /\ tx \in Transaction /\ issued' = issued
  /\ \/ /\ tx.phase = "Armed" /\ requested = tx.id
        /\ StartFrame(c, RecordFailure(tx), "record")
     \/ /\ tx.phase = "BootedUnconfirmed" /\ tx.applying_boot_id = boot
        /\ StartFrame(c, Transition(tx, "Confirmed"), "record")
     \/ /\ tx.phase \in Terminal /\ StartFrame(c, tx, Finish(tx))

AsideEffect ==
  /\ UNCHANGED <<tx, history, lineage, view, disk, power, boot, requested, pc, rounds, owed>>
  /\ menu' \in {menu, MenuEntry(tx)}
  /\ call' = call /\ held' = held /\ issued' = issued

LEMMA BootStepEffect ==
  ASSUME Frame, BootStep
  PROVE  BootEffect
<1> USE DEF BootEffect, Looping
<1>0. \A c \in Calls : power # "user" => call[c] = "idle"
  BY DEF Frame, CallsRun
<1>1. CASE Boot
  BY <1>0, <1>1 DEF Boot, DefaultEntry, recordVars, layoutVars, callVars
<1>2. CASE BootInterrupted
  <2>1. pc = "idle"
    BY <1>2 DEF BootInterrupted, Frame, EngineRuns
  <2> QED
    BY <1>0, <1>2, <2>1
       DEF BootInterrupted, recordVars, layoutVars, bootVars, engineVars, callVars
<1>3. CASE MountRoot
  BY <1>0, <1>3 DEF MountRoot, recordVars, layoutVars, grubVars, callVars
<1>4. CASE Panic \/ Crash \/ Restart
  <2>1. /\ PowerOff
        /\ view' \in {view, disk} /\ disk' = view'
    BY <1>4 DEF Panic, Crash, Restart, LosePower
  <2> QED
    BY <2>1 DEF PowerOff, recordVars, grubVars
<1> QED
  BY <1>1, <1>2, <1>3, <1>4 DEF BootStep

LEMMA StartStepEffect ==
  ASSUME Frame, NEW c \in Calls, CallStart(c)
  PROVE  ScheduleEffect(c) \/ CancelEffect(c) \/ ReconcileEffect(c)
<1>0. /\ power = "user" /\ pc = "idle" /\ call[c] = "idle"
      /\ call \in [Calls -> CallSteps] /\ held \in [Calls -> Transaction \cup {None}]
  BY DEF CallStart, Schedule, Cancel, Reconcile, InUserspace, Frame, EngineRuns, TypeOK
<1>1. CASE Schedule(c)
  <2>1. PICK i \in TxIds \ issued :
          /\ issued' = issued \cup {i} /\ held' = [held EXCEPT ![c] = NewTransaction(i)]
    BY <1>1 DEF Schedule
  <2>2. StartFrame(c, NewTransaction(i), "create") /\ tx = None
    BY <1>0, <1>1, <2>1
       DEF Schedule, StartFrame, recordVars, layoutVars, grubVars, bootVars, engineVars
  <2> QED
    BY <2>1, <2>2 DEF ScheduleEffect
<1>2. CASE Cancel(c)
  <2>1. /\ tx \in Transaction /\ tx.phase \in {"Preparing", "Armed"}
        /\ AdvanceCall(c, "cancel_clear")
    BY <1>2 DEF Cancel, Returns, Frame, TypeOK
  <2>2. StartFrame(c, held[c], "cancel_clear") /\ issued' = issued
    BY <1>0, <1>2, <2>1
       DEF Cancel, OnlyCall, StartFrame, AdvanceCall, recordVars, layoutVars, grubVars, bootVars,
           engineVars
  <2> QED
    BY <2>1, <2>2 DEF CancelEffect
<1>3. CASE Reconcile(c)
  <2>1. tx \in Transaction
    BY <1>3 DEF Reconcile, Frame, TypeOK
  <2>2. PICK t \in Reconciled :
          /\ held' = [held EXCEPT ![c] = t]
          /\ call' = [call EXCEPT ![c] = IF t = tx THEN Finish(t) ELSE "record"]
    BY <1>3 DEF Reconcile
  <2>3. StartFrame(c, t, IF t = tx THEN Finish(t) ELSE "record") /\ issued' = issued
    BY <1>0, <1>3, <2>2 DEF Reconcile, StartFrame, recordVars, layoutVars, grubVars, engineVars
  <2>4. \/ t = RecordFailure(tx) /\ tx.phase = "Armed" /\ requested = tx.id
        \/ /\ t = Transition(tx, "Confirmed") /\ tx.phase = "BootedUnconfirmed"
           /\ tx.applying_boot_id = boot
        \/ t = tx /\ tx.phase \in Terminal
    BY <2>2, Zenon DEF Reconciled, RunningTarget
  <2>5. /\ RecordFailure(tx).phase = "Failed"
        /\ Transition(tx, "Confirmed").phase = "Confirmed"
    BY <2>1, FailureType, TransitionType, PhaseTypes
  <2>6. CASE t = RecordFailure(tx) /\ tx.phase = "Armed" /\ requested = tx.id
    <3>1. t # tx
      BY <2>5, <2>6
    <3> QED
      BY <2>1, <2>3, <2>6, <3>1 DEF ReconcileEffect
  <2>7. CASE /\ t = Transition(tx, "Confirmed") /\ tx.phase = "BootedUnconfirmed"
             /\ tx.applying_boot_id = boot
    <3>1. t # tx
      BY <2>5, <2>7
    <3> QED
      BY <2>1, <2>3, <2>7, <3>1 DEF ReconcileEffect
  <2>8. CASE t = tx /\ tx.phase \in Terminal
    BY <2>1, <2>3, <2>8 DEF ReconcileEffect
  <2> QED
    BY <2>4, <2>6, <2>7, <2>8
<1> QED
  BY <1>1, <1>2, <1>3 DEF CallStart

\* Every step of the machine has one of these effects.
StepEffect ==
  \/ BootEffect
  \/ EngineOnly /\ EngineEffect
  \/ \E c \in Calls : CallFrame(c) /\ CallEffect(c)
  \/ \E c \in Calls : ScheduleEffect(c) \/ CancelEffect(c) \/ ReconcileEffect(c)
  \/ AsideEffect

LEMMA NextEffect ==
  ASSUME Frame, RecordsAreSound, [Next]_vars
  PROVE  StepEffect
<1> USE DEF StepEffect
<1>1. CASE BootStep
  BY <1>1, BootStepEffect
<1>2. CASE Engine
  BY <1>2, EngineStepEffect
<1>3. ASSUME NEW c \in Calls, CallStart(c) PROVE StepEffect
  BY <1>3, StartStepEffect
<1>4. ASSUME NEW c \in Calls, CallStep(c) PROVE StepEffect
  BY <1>4, CallStepEffect
<1>5. CASE ReconcileRefused
  BY <1>5 DEF ReconcileRefused, AsideEffect, recordVars, layoutVars, grubVars, engineVars, callVars
<1>6. CASE UpdateGrub
  BY <1>6 DEF UpdateGrub, AsideEffect, recordVars, layoutVars, bootVars, engineVars, callVars
<1>7. CASE UNCHANGED vars
  BY <1>7 DEF vars, AsideEffect, recordVars, layoutVars, grubVars, bootVars, engineVars, callVars
<1> QED
  BY <1>1, <1>2, <1>3, <1>4, <1>5, <1>6, <1>7 DEF Next

\* The concerns of a call are disjoint, and none is idle.
LEMMA ConcernsDiffer ==
  /\ Scheduling \cap Cancelling = {} /\ Scheduling \cap Settle = {} /\ Cancelling \cap Settle = {}
  /\ "idle" \notin Scheduling \cup Cancelling \cup Settle
BY DEF Scheduling, Cancelling, Settle, Finishing

\* Outside the engine a record is sound if the one written is.
LEMMA CallsKeepRecords ==
  ASSUME RecordsAreSound, SoundRecord(tx'), NEW c \in Calls,
         pc' \notin {"validating", "validate", "begin"} \cup Looping,
         \A d \in Calls \ {c} : call'[d] = call[d] /\ held'[d] = held[d],
         SoundRecord(held'[c]), call'[c] \in Scheduling => held'[c] = NewTransaction(held'[c].id)
  PROVE  RecordsAreSound'
<1>1. ASSUME NEW d \in Calls
      PROVE  /\ SoundRecord(held'[d])
             /\ call'[d] \in Scheduling => held'[d] = NewTransaction(held'[d].id)
  BY DEF RecordsAreSound
<1>2. SoundRecord(tx)' /\ Scheduling' = Scheduling
      /\ \A d \in Calls : SoundRecord(held[d])' = SoundRecord(held'[d])
  BY DEF Scheduling, SoundRecord
<1>3. \A d \in Calls : NewTransaction(held[d].id)' = NewTransaction(held'[d].id)
  BY DEF NewTransaction
<1> QED
  BY <1>1, <1>2, <1>3 DEF RecordsAreSound, Looping

LEMMA NextPreservesRecords ==
  ASSUME Frame, RecordsAreSound, [Next]_vars
  PROVE  RecordsAreSound'
<1>0. SoundRecord(tx) /\ SoundRecord(None) /\ "idle" \notin Looping
  BY DEF RecordsAreSound, SoundRecord, Looping
<1>1. CASE BootEffect
  <2>1. /\ SoundRecord(tx)' /\ \A c \in Calls : SoundRecord(held[c])'
        /\ \A c \in Calls : call'[c] \notin Scheduling
    BY <1>0, <1>1, ConcernsDiffer DEF BootEffect, RecordsAreSound, SoundRecord
  <2>2. pc' \notin {"validating", "validate", "begin", "sync", "checkpoint"}
    BY <1>1 DEF BootEffect, Looping
  <2> QED
    BY <2>1, <2>2 DEF RecordsAreSound, Scheduling
<1>2. CASE Engine
  BY <1>2, EngineStepEffect
<1>3. ASSUME NEW c \in Calls, CallFrame(c), CallEffect(c) PROVE RecordsAreSound'
  <2>1. /\ SoundRecord(held[c])
        /\ call[c] \in Scheduling => held[c] = NewTransaction(held[c].id) /\ held[c].id \in TxIds
    <3>1. call[c] \in Scheduling => held[c] \in Transaction
      BY DEF Frame, TypeOK, CallsRun, Fits
    <3> QED
      BY <3>1 DEF RecordsAreSound, Transaction
  <2>2. /\ SoundRecord(held'[c])
        /\ call'[c] \in Scheduling => held'[c] = NewTransaction(held'[c].id)
    BY <1>0, <1>3, <2>1, ConcernsDiffer DEF CallFrame, SameConcern
  <2>3. SoundRecord(tx')
    <3>1. \/ tx' \in {tx, None, held[c]}
          \/ call[c] = "arm_record" /\ tx' = Transition(held[c], "Armed")
      BY <1>3 DEF CallEffect, RestEffect, RemoveEffect, CreateEffect, ArmEffect, OutcomeEffect,
                  LineageEffect, DeleteEffect, ArchiveEffect
    <3>2. CASE call[c] = "arm_record" /\ tx' = Transition(held[c], "Armed")
      <4>1. held[c] = NewTransaction(held[c].id) /\ held[c].id \in TxIds
        BY <2>1, <3>2 DEF Scheduling
      <4> QED
        BY <3>2, <4>1, NewTransactionSound
    <3> QED
      BY <1>0, <2>1, <3>1, <3>2
  <2>4. pc' = "idle" /\ \A d \in Calls \ {c} : call'[d] = call[d] /\ held'[d] = held[d]
    BY <1>3 DEF CallFrame
  <2> QED
    BY <1>0, <2>2, <2>3, <2>4, CallsKeepRecords
<1>4. ASSUME NEW c \in Calls, ScheduleEffect(c) \/ CancelEffect(c) \/ ReconcileEffect(c)
      PROVE  RecordsAreSound'
  <2>1. /\ pc' = "idle" /\ tx' = tx
        /\ \A d \in Calls \ {c} : call'[d] = call[d] /\ held'[d] = held[d]
    BY <1>4 DEF ScheduleEffect, CancelEffect, ReconcileEffect, StartFrame
  <2>2. CASE ScheduleEffect(c)
    <3>1. PICK i \in TxIds : held'[c] = NewTransaction(i)
      BY <2>2 DEF ScheduleEffect, StartFrame
    <3> QED
      BY <1>0, <2>1, <3>1, NewTransactionSound, CallsKeepRecords
  <2>3. CASE CancelEffect(c)
    <3>1. call'[c] = "cancel_clear" /\ held'[c] = held[c] /\ "cancel_clear" \notin Scheduling
      BY <2>3 DEF CancelEffect, StartFrame, Scheduling
    <3> QED
      BY <1>0, <2>1, <3>1, CallsKeepRecords DEF RecordsAreSound
  <2>4. CASE ReconcileEffect(c)
    <3>1. /\ call'[c] \in Settle
          /\ tx \in Transaction
          /\ \/ tx.phase = "Armed" /\ held'[c] = RecordFailure(tx)
             \/ tx.phase = "BootedUnconfirmed" /\ held'[c] = Transition(tx, "Confirmed")
             \/ held'[c] = tx
      BY <2>4 DEF ReconcileEffect, StartFrame, Settle, Finishing, Finish
    <3>2. SoundRecord(held'[c])
      BY <1>0, <3>1, FailureSound, ConfirmSound
    <3> QED
      BY <1>0, <2>1, <3>1, <3>2, ConcernsDiffer, CallsKeepRecords
  <2> QED
    BY <1>4, <2>2, <2>3, <2>4
<1>5. CASE AsideEffect
  <2>1. UNCHANGED <<tx, pc, owed>> /\ call' = call /\ held' = held
    BY <1>5 DEF AsideEffect
  <2> QED
    BY <2>1 DEF RecordsAreSound, SoundRecord
<1>6. CASE BootStep
  BY <1>1, <1>6, BootStepEffect
<1>7. CASE ~BootStep /\ ~Engine /\ [Next]_vars
  <2>1. \/ \E c \in Calls : CallStart(c) \/ CallStep(c)
        \/ ReconcileRefused \/ UpdateGrub \/ UNCHANGED vars
    BY <1>7 DEF Next
  <2>2. \/ \E c \in Calls : CallFrame(c) /\ CallEffect(c)
        \/ \E c \in Calls : ScheduleEffect(c) \/ CancelEffect(c) \/ ReconcileEffect(c)
        \/ AsideEffect
    BY <2>1, StartStepEffect, CallStepEffect
       DEF ReconcileRefused, UpdateGrub, vars, AsideEffect, recordVars, layoutVars, grubVars,
           bootVars, engineVars, callVars
  <2> QED
    BY <1>3, <1>4, <1>5, <2>2
<1> QED
  BY <1>2, <1>6, <1>7

\* No operation writes a record that validate() would refuse: whatever is interrupted
\* and whichever calls race, the pending record can be read back.
THEOREM RecordAlwaysReadable == Spec => []RecordReadable
<1>1. Init => Frame /\ RecordsAreSound
  BY InitFrame, InitRecords
<1>2. Frame /\ RecordsAreSound /\ [Next]_vars => (Frame /\ RecordsAreSound)'
  BY NextPreservesFrame, NextPreservesRecords
<1>3. RecordsAreSound => RecordReadable
  BY DEF RecordsAreSound, SoundRecord, RecordReadable
<1> QED
  BY <1>1, <1>2, <1>3, PTL DEF Spec

(***************************************************************************)
(* Ids.  Whatever bears one was drawn.                                     *)
(***************************************************************************)
LEMMA InitIds == Init => IdsAreIssued
BY StateAssumption, NoneIsNoValue DEF Init, IdsAreIssued, LayoutIssued, Layout

\* A move takes its subvolumes from the layout and from the rollback's id.
LEMMA MoveFields ==
  ASSUME NEW m \in Moves
  PROVE  {m.to.root, m.to.old, m.to.new} \subseteq {view.root, view.old, view.new, tx.id, None}
<1>1. CASE tx.phase = "Applying"
  <2>1. m \in ApplyMoves(view, tx.id)
    BY <1>1 DEF Moves
  <2> QED
    BY <2>1, ApplyMove DEF Move, Layout
<1>2. CASE tx.phase # "Applying"
  <2>1. m \in RevertMoves(view)
    BY <1>2 DEF Moves
  <2> QED
    BY <2>1, RevertMove DEF Move, Layout
<1> QED
  BY <1>1, <1>2

\* The subvolumes of a layout after an engine's step.
LEMMA EngineLayoutIssued ==
  ASSUME IdsAreIssued, EngineEffect, issued' = issued
  PROVE  LayoutIssued(view)' /\ LayoutIssued(disk)'
<1>1. LayoutIssued(view) /\ LayoutIssued(disk) /\ (tx # None => tx.id \in issued)
  BY DEF IdsAreIssued
<1>2. CASE EngineMoves
  <2>1. tx.id \in issued /\ None \notin TxIds
    BY <1>1, <1>2, NoneIsNoRecord, NoneIsNoValue DEF EngineMoves
  <2>2. PICK m \in Moves : view' \in {view, m.to} /\ disk' = disk
    BY <1>2 DEF EngineMoves
  <2>3. {m.to.root, m.to.old, m.to.new} \cap TxIds \subseteq issued
    BY <1>1, <2>1, MoveFields DEF LayoutIssued
  <2> QED
    BY <1>1, <2>2, <2>3 DEF LayoutIssued
<1>3. CASE ~EngineMoves
  <2>1. view' = view /\ disk' \in {disk, view}
    BY <1>3 DEF EngineEffect, EngineRests, EngineResumes, EngineEnters, EngineStarts, EngineSyncs,
                EngineNotes, EngineLands, BecomesRecord
  <2> QED
    BY <1>1, <2>1 DEF LayoutIssued
<1> QED
  BY <1>2, <1>3

LEMMA NextPreservesIds ==
  ASSUME Frame, RecordsAreSound, IdsAreIssued, StepEffect
  PROVE  IdsAreIssued'
<1>0. /\ tx # None => tx.id \in issued
      /\ \A c \in Calls : held[c] # None => held[c].id \in issued
      /\ menu \in issued \cup {None} /\ requested \in issued \cup {None}
      /\ \A i \in TxIds \ issued : history[i] = None /\ lineage[i] = None
      /\ LayoutIssued(view) /\ LayoutIssued(disk)
      /\ history \in [TxIds -> Terminal \cup {None}]
      /\ lineage \in [TxIds -> Outcomes \cup {None}]
      /\ MenuEntry(tx) \in issued \cup {None}
  BY DEF IdsAreIssued, Frame, TypeOK, MenuEntry
<1>1. CASE BootEffect
  BY <1>0, <1>1 DEF BootEffect, IdsAreIssued, LayoutIssued
<1>2. CASE EngineOnly /\ EngineEffect
  <2>1. tx' # None => tx # None /\ tx'.id = tx.id
    BY <1>2, NoneIsNoRecord
       DEF EngineEffect, EngineRests, EngineResumes, EngineEnters, EngineStarts, EngineMoves,
           EngineSyncs, EngineNotes, EngineLands, BecomesRecord
  <2>2. /\ issued' = issued /\ held' = held
        /\ UNCHANGED <<menu, requested, history, lineage>>
    BY <1>2 DEF EngineOnly
  <2> QED
    BY <1>0, <1>2, <2>1, <2>2, EngineLayoutIssued DEF IdsAreIssued
<1>3. ASSUME NEW c \in Calls, CallFrame(c), CallEffect(c) PROVE IdsAreIssued'
  <2>1. /\ issued' = issued /\ menu' \in {menu, MenuEntry(tx)} /\ requested' = requested
        /\ \A d \in Calls : held'[d] \in {held[d], None}
    BY <1>3 DEF CallFrame
  <2>2. /\ call[c] \in Settle => held[c] # None
        /\ call[c] \in Scheduling => held[c] # None /\ held[c] = NewTransaction(held[c].id)
    BY DEF Frame, CallsRun, Fits, Settle, RecordsAreSound
  <2>3. tx' # None => tx'.id \in issued
    <3>1. \/ tx' \in {tx, None, held[c]}
          \/ call[c] = "arm_record" /\ tx' = Transition(held[c], "Armed")
      BY <1>3 DEF CallEffect, RestEffect, RemoveEffect, CreateEffect, ArmEffect, OutcomeEffect,
                  LineageEffect, DeleteEffect, ArchiveEffect
    <3>2. CASE call[c] = "arm_record" /\ tx' = Transition(held[c], "Armed")
      <4>1. held[c] # None /\ held[c] = NewTransaction(held[c].id) /\ held[c].id \in TxIds
        BY <1>3, <2>2, <3>2 DEF Scheduling, Frame, TypeOK, Transaction
      <4> QED
        BY <1>0, <3>2, <4>1, NewTransactionSound
    <3> QED
      BY <1>0, <3>1, <3>2
  <2>4. LayoutIssued(view)' /\ LayoutIssued(disk)'
    <3>1. CASE call[c] = "create" /\ CreateEffect(c)
      BY <1>0, <2>1, <3>1, NoneIsNoValue DEF CreateEffect, LayoutIssued, Layout
    <3>2. CASE DeleteEffect(c)
      BY <1>0, <2>1, <3>2, NoneIsNoValue DEF DeleteEffect, LayoutIssued, Layout
    <3>3. CASE view' = view /\ disk' = disk
      BY <1>0, <2>1, <3>3 DEF LayoutIssued
    <3> QED
      BY <1>3, <3>1, <3>2, <3>3 DEF CallEffect, RestEffect, RemoveEffect, CreateEffect, ArmEffect,
                  OutcomeEffect, LineageEffect, ArchiveEffect
  <2>5. \A i \in TxIds \ issued : history'[i] = None /\ lineage'[i] = None
    <3>1. CASE LineageEffect(c)
      <4>1. held[c].id \in issued
        BY <1>0, <2>2, <3>1 DEF LineageEffect, Settle
      <4> QED
        BY <1>0, <3>1, <4>1 DEF LineageEffect
    <3>2. CASE ArchiveEffect(c)
      <4>1. held[c].id \in issued
        BY <1>0, <2>2, <3>2 DEF ArchiveEffect, Settle, Finishing
      <4> QED
        BY <1>0, <3>2, <4>1 DEF ArchiveEffect
    <3>3. CASE UNCHANGED <<history, lineage>>
      BY <1>0, <3>3
    <3> QED
      BY <1>3, <3>1, <3>2, <3>3 DEF CallEffect, RestEffect, RemoveEffect, CreateEffect, ArmEffect,
                  OutcomeEffect, DeleteEffect
  <2> QED
    BY <1>0, <2>1, <2>3, <2>4, <2>5 DEF IdsAreIssued
<1>4. ASSUME NEW c \in Calls, ScheduleEffect(c) \/ CancelEffect(c) \/ ReconcileEffect(c)
      PROVE  IdsAreIssued'
  <2>1. /\ UNCHANGED <<menu, requested, tx, history, lineage, view, disk>>
        /\ issued \subseteq issued'
        /\ \A d \in Calls \ {c} : held'[d] = held[d]
    BY <1>4 DEF ScheduleEffect, CancelEffect, ReconcileEffect, StartFrame
  <2>2. held'[c] # None => held'[c].id \in issued'
    <3>1. CASE ScheduleEffect(c)
      BY <3>1, NewTransactionSound DEF ScheduleEffect, StartFrame
    <3>2. CASE CancelEffect(c)
      BY <1>0, <2>1, <3>2 DEF CancelEffect, StartFrame
    <3>3. CASE ReconcileEffect(c)
      <4>1. tx \in Transaction /\ tx # None /\ SoundRecord(tx)
        BY <3>3, NoneIsNoRecord DEF ReconcileEffect, RecordsAreSound
      <4> QED
        BY <1>0, <2>1, <3>3, <4>1, FailureSound, ConfirmSound DEF ReconcileEffect, StartFrame
    <3> QED
      BY <1>4, <3>1, <3>2, <3>3
  <2>3. LayoutIssued(view)' /\ LayoutIssued(disk)'
    BY <1>0, <2>1 DEF LayoutIssued
  <2> QED
    BY <1>0, <2>1, <2>2, <2>3 DEF IdsAreIssued
<1>5. CASE AsideEffect
  BY <1>0, <1>5 DEF AsideEffect, IdsAreIssued, LayoutIssued
<1> QED
  BY <1>1, <1>2, <1>3, <1>4, <1>5 DEF StepEffect

(***************************************************************************)
(* Layouts.  Whatever layout the loops meet, the command they issue leads  *)
(* to one that fits the record, holds what the owed checkpoint says, and   *)
(* is one round nearer to the end.                                         *)
(***************************************************************************)
LEMMA ApplyMoveShape ==
  ASSUME NEW l, NEW i, NEW m \in ApplyMoves(l, i)
  PROVE
    \/ /\ l.root # None /\ l.old = None /\ l.new = None
       /\ m = Move(Layout(l.root, None, i), "WritableTargetCreated")
    \/ /\ l.root # None /\ l.old = None /\ l.new # None
       /\ m = Move(Layout(None, l.root, l.new), "CurrentRootProtected")
    \/ /\ l.root = None /\ l.old # None /\ l.new # None
       /\ m = Move(Layout(l.new, l.old, None), "TargetRootActivated")
BY Zenon DEF ApplyMoves, Present

LEMMA RevertMoveShape ==
  ASSUME NEW l, NEW m \in RevertMoves(l)
  PROVE
    \/ /\ l.root # None /\ l.old = None /\ l.new # None
       /\ m = Move(Layout(l.root, None, None), "DiscardedRootDeleted")
    \/ /\ l.root = None /\ l.old # None
       /\ m = Move(Layout(l.old, None, l.new), "FallbackRootActivated")
    \/ /\ l.root # None /\ l.old # None /\ l.new = None
       /\ m = Move(Layout(None, l.old, l.root), "RestoredRootMovedAside")
BY Zenon DEF RevertMoves, Present

\* The loops know a way on from every known layout that is not the end.
LEMMA ApplyKnows ==
  ASSUME NEW l, NEW i, Known(l), ~(l.root # None /\ l.old # None /\ l.new = None)
  PROVE  ApplyMoves(l, i) # {}
<1>1. \/ Present(l) = <<TRUE, FALSE, FALSE>> \/ Present(l) = <<TRUE, FALSE, TRUE>>
      \/ Present(l) = <<FALSE, TRUE, TRUE>>
  BY DEF Known, Present
<1>2. CASE Present(l) = <<TRUE, FALSE, FALSE>>
  <2>1. ApplyMoves(l, i) = {Move(Layout(l.root, None, i), "WritableTargetCreated")}
    BY <1>2, Zenon DEF ApplyMoves, Present
  <2> QED
    BY <2>1
<1>3. CASE Present(l) = <<TRUE, FALSE, TRUE>>
  <2>1. ApplyMoves(l, i) = {Move(Layout(None, l.root, l.new), "CurrentRootProtected")}
    BY <1>3, Zenon DEF ApplyMoves, Present
  <2> QED
    BY <2>1
<1>4. CASE Present(l) = <<FALSE, TRUE, TRUE>>
  <2>1. ApplyMoves(l, i) = {Move(Layout(l.new, l.old, None), "TargetRootActivated")}
    BY <1>4, Zenon DEF ApplyMoves, Present
  <2> QED
    BY <2>1
<1> QED
  BY <1>1, <1>2, <1>3, <1>4

LEMMA RevertKnows ==
  ASSUME NEW l, Known(l), ~Complete(l)
  PROVE  RevertMoves(l) # {}
<1>1. \/ Present(l) = <<TRUE, FALSE, TRUE>> /\ ~(l.root = None /\ l.old # None)
      \/ l.root = None /\ l.old # None
      \/ Present(l) = <<TRUE, TRUE, FALSE>>
  BY DEF Known, Present, Complete
<1>2. CASE Present(l) = <<TRUE, FALSE, TRUE>> /\ ~(l.root = None /\ l.old # None)
  <2>1. RevertMoves(l) = {Move(Layout(l.root, None, None), "DiscardedRootDeleted")}
    BY <1>2, Zenon DEF RevertMoves, Present
  <2> QED
    BY <2>1
<1>3. CASE l.root = None /\ l.old # None
  <2>1. RevertMoves(l) = {Move(Layout(l.old, None, l.new), "FallbackRootActivated")}
    BY <1>3, Zenon DEF RevertMoves, Present
  <2> QED
    BY <2>1
<1>4. CASE Present(l) = <<TRUE, TRUE, FALSE>>
  <2>1. RevertMoves(l) = {Move(Layout(None, l.old, l.root), "RestoredRootMovedAside")}
    BY <1>4, Zenon DEF RevertMoves, Present
  <2> QED
    BY <2>1
<1> QED
  BY <1>1, <1>2, <1>3, <1>4

LEMMA ApplyMoveFits ==
  ASSUME NEW t \in Transaction, NEW l, t.phase = "Applying", AtPhase(t), LayoutFits(l, t),
         NEW m \in ApplyMoves(l, t.id)
  PROVE  /\ LayoutFits(m.to, t)
         /\ DurableIn(m.to, m.checkpoint, t)
         /\ Ahead(m.to, t.phase) = Ahead(l, t.phase) - 1
<1>1. /\ t # None /\ t.id # None /\ NamedFor(l, t.id) /\ DurableIn(l, t.checkpoint, t)
      /\ t.checkpoint \in EntryCheckpoints \cup {"ApplyStarted"} \cup ApplyCheckpoints
  BY NoneIsNoRecord, NoneIsNoValue DEF Transaction, LayoutFits, InFlight, AtPhase
<1>2. PICK to, k : /\ m.to = to /\ m.checkpoint = k
                   /\ \/ /\ l.root # None /\ l.old = None /\ l.new = None
                         /\ to = Layout(l.root, None, t.id) /\ k = "WritableTargetCreated"
                      \/ /\ l.root # None /\ l.old = None /\ l.new # None
                         /\ to = Layout(None, l.root, l.new) /\ k = "CurrentRootProtected"
                      \/ /\ l.root = None /\ l.old # None /\ l.new # None
                         /\ to = Layout(l.new, l.old, None) /\ k = "TargetRootActivated"
  BY ApplyMoveShape DEF Move
<1>3. Known(to) /\ NamedFor(to, t.id)
  BY <1>1, <1>2 DEF Known, NamedFor, Layout
<1>4. DurableIn(to, t.checkpoint, t)
  BY <1>1, <1>2 DEF DurableIn, NamedFor, Layout, EntryCheckpoints, ApplyCheckpoints
<1>5. DurableIn(to, k, t)
  BY <1>1, <1>2 DEF DurableIn, NamedFor, Layout
<1>6. LayoutFits(to, t)
  BY <1>1, <1>3, <1>4 DEF LayoutFits, InFlight
<1>7. Ahead(to, t.phase) = Ahead(l, t.phase) - 1
  BY <1>1, <1>2 DEF Ahead, Layout
<1> QED
  BY <1>2, <1>5, <1>6, <1>7

LEMMA RevertMoveFits ==
  ASSUME NEW t \in Transaction, NEW l, t.phase = "Reverting", AtPhase(t), LayoutFits(l, t),
         NEW m \in RevertMoves(l)
  PROVE  /\ LayoutFits(m.to, t)
         /\ DurableIn(m.to, m.checkpoint, t)
         /\ Ahead(m.to, t.phase) = Ahead(l, t.phase) - 1
<1>1. /\ t # None /\ t.id # None /\ NamedFor(l, t.id) /\ DurableIn(l, t.checkpoint, t)
      /\ t.checkpoint \in {"RevertStarted"} \cup RevertCheckpoints /\ Known(l)
  BY NoneIsNoRecord, NoneIsNoValue DEF Transaction, LayoutFits, InFlight, AtPhase
<1>2. PICK to, k : /\ m.to = to /\ m.checkpoint = k
                   /\ \/ /\ l.root # None /\ l.old = None /\ l.new # None
                         /\ to = Layout(l.root, None, None) /\ k = "DiscardedRootDeleted"
                      \/ /\ l.root = None /\ l.old # None /\ l.new # None
                         /\ to = Layout(l.old, None, l.new) /\ k = "FallbackRootActivated"
                      \/ /\ l.root # None /\ l.old # None /\ l.new = None
                         /\ to = Layout(None, l.old, l.root) /\ k = "RestoredRootMovedAside"
  BY <1>1, RevertMoveShape DEF Move, Known
<1>3. Known(to) /\ NamedFor(to, t.id)
  BY <1>1, <1>2 DEF Known, NamedFor, Layout
<1>4. DurableIn(to, t.checkpoint, t)
  BY <1>1, <1>2 DEF DurableIn, NamedFor, Layout, RevertCheckpoints, Complete
<1>5. DurableIn(to, k, t)
  BY <1>1, <1>2 DEF DurableIn, NamedFor, Layout, Complete
<1>6. LayoutFits(to, t)
  BY <1>1, <1>3, <1>4 DEF LayoutFits, InFlight
<1>7. Ahead(to, t.phase) = Ahead(l, t.phase) - 1
  BY <1>1, <1>2 DEF Ahead, Layout
<1> QED
  BY <1>2, <1>5, <1>6, <1>7

LEMMA AheadBound ==
  ASSUME NEW l, NEW p
  PROVE  Ahead(l, p) \in 1..4
BY DEF Ahead

LEMMA InitLayouts == Init => LayoutsAreSound
BY StateAssumption
   DEF Init, LayoutsAreSound, LayoutFits, Known, Layout, NotInFlight, Scheduling, Settle, Finishing

(***************************************************************************)
(* The engine keeps them.                                                  *)
(***************************************************************************)
\* All that is left to show of a step that no call takes.
LEMMA LayoutsLand ==
  ASSUME LayoutFits(view', tx'), LayoutFits(disk', tx'),
         pc' \in Looping => rounds' >= Ahead(view', tx'.phase),
         pc' \in {"sync", "checkpoint"} => DurableIn(view', owed', tx'),
         power' = "user" => view'.root # None,
         tx' = None \/ tx'.phase \notin InFlight => view'.old = None \/ disk'.old # None,
         \A c \in Calls : call'[c] = "idle"
  PROVE  LayoutsAreSound'
<1>1. /\ LayoutFits(view, tx)' /\ LayoutFits(disk, tx)'
      /\ NotInFlight' <=> (tx' = None \/ tx'.phase \notin InFlight)
      /\ Ahead(view, tx.phase)' = Ahead(view', tx'.phase)
      /\ DurableIn(view, owed, tx)' <=> DurableIn(view', owed', tx')
  BY DEF LayoutFits, NotInFlight, Known, NamedFor, DurableIn, Complete, InFlight, Ahead
<1> QED
  BY <1>1, ConcernsDiffer DEF LayoutsAreSound, Looping, Scheduling, Settle, Finishing

\* Entering the initramfs, or failing there, says nothing of the layout.
LEMMA FitsPlainRecord ==
  ASSUME NEW l, NEW t \in Transaction, NEW u \in Transaction, LayoutFits(l, t), AtPhase(t),
         u.id = t.id,
         \/ u.phase = t.phase /\ u.checkpoint \in EntryCheckpoints
            /\ t.phase \in {"Armed", "Applying"}
         \/ t.phase = "Armed" /\ u.phase = "Failed" /\ u.checkpoint = t.checkpoint
         \/ u.phase = "Applying" /\ t.phase \in {"Armed", "Applying"}
            /\ u.checkpoint = "ApplyStarted" /\ (t.phase = "Armed" => l.old = None)
         \/ u.phase = "Reverting" /\ t.phase \in {"Applying", "BootedUnconfirmed"}
            /\ u.checkpoint = "RevertStarted"
  PROVE  LayoutFits(l, u)
<1>1. t # None /\ u # None /\ t.id # None
  BY NoneIsNoRecord, NoneIsNoValue DEF Transaction
<1>2. DurableIn(l, u.checkpoint, u)
  BY NoneIsNoValue DEF DurableIn, AtPhase, EntryCheckpoints, Checkpoints
<1> QED
  BY <1>1, <1>2 DEF LayoutFits, InFlight, NamedFor

LEMMA EnginePreservesLayouts ==
  ASSUME Frame, Layered, RecordsAreSound, LayoutsAreSound, EngineOnly, EngineEffect
  PROVE  LayoutsAreSound'
<1>0. /\ power' = "initramfs" /\ \A c \in Calls : call'[c] = "idle"
      /\ LayoutFits(view, tx) /\ LayoutFits(disk, tx)
      /\ NotInFlight /\ view.old # None => disk.old # None
      /\ tx # None => AtPhase(tx)
      /\ pc \in Looping => rounds >= Ahead(view, tx.phase)
      /\ rounds \in 0..RevertRounds
  BY DEF EngineOnly, LayoutsAreSound, RecordsAreSound, SoundRecord, Looping, Frame, TypeOK
<1>1. CASE EngineRests
  <2>1. view' = view /\ disk' = disk /\ tx' = tx /\ pc' \notin Looping
    BY <1>1 DEF EngineRests
  <2> QED
    BY <1>0, <2>1, LayoutsLand DEF NotInFlight, Looping
<1>2. CASE EngineResumes
  <2>1. /\ view' = view /\ disk' = disk /\ tx' = tx /\ pc' = "loop" /\ rounds' = RevertRounds
        /\ tx # None /\ tx.phase = "Reverting"
    BY <1>2 DEF EngineResumes
  <2>2. rounds' >= Ahead(view, tx.phase)
    BY <2>1, AheadBound DEF RevertRounds
  <2> QED
    BY <1>0, <2>1, <2>2, LayoutsLand DEF InFlight
<1>3. CASE EngineEnters
  <2>1. /\ tx \in Transaction /\ tx' \in Transaction /\ tx'.id = tx.id /\ tx # None
        /\ view' = view /\ disk' = disk /\ pc' \notin Looping
        /\ \/ /\ tx'.phase = tx.phase /\ tx'.checkpoint \in EntryCheckpoints
              /\ tx.phase \in {"Armed", "Applying"}
           \/ /\ tx.phase = "Armed" /\ tx'.phase = "Failed"
              /\ tx'.checkpoint = tx.checkpoint
    BY <1>3, NoneIsNoRecord DEF EngineEnters, BecomesRecord
  <2>2. LayoutFits(view', tx') /\ LayoutFits(disk', tx')
    BY <1>0, <2>1, FitsPlainRecord
  <2>3. tx'.phase \notin InFlight => view'.old = None \/ disk'.old # None
    BY <1>0, <2>1 DEF NotInFlight, InFlight
  <2> QED
    BY <1>0, <2>1, <2>2, <2>3, NoneIsNoRecord, LayoutsLand DEF Looping
<1>4. CASE EngineStarts
  <2>1. /\ tx \in Transaction /\ tx' \in Transaction /\ tx'.id = tx.id /\ tx # None
        /\ view' = view /\ disk' = disk /\ pc' \in {"loop", "done"}
        /\ \/ /\ tx'.phase = "Applying" /\ tx.phase \in {"Armed", "Applying"}
              /\ tx'.checkpoint = "ApplyStarted" /\ rounds' = ApplyRounds
           \/ /\ tx'.phase = "Reverting" /\ tx.phase \in {"Applying", "BootedUnconfirmed"}
              /\ tx'.checkpoint = "RevertStarted" /\ rounds' = RevertRounds
    BY <1>4, NoneIsNoRecord DEF EngineStarts, BecomesRecord
  <2>2. tx.phase = "Armed" => view.old = None /\ disk.old = None
    BY <2>1 DEF Layered, NothingProtectedYet
  <2>3. LayoutFits(view', tx') /\ LayoutFits(disk', tx')
    BY <1>0, <2>1, <2>2, FitsPlainRecord
  <2>4. rounds' >= Ahead(view', tx'.phase)
    BY <2>1, AheadBound DEF ApplyRounds, RevertRounds
  <2> QED
    BY <1>0, <2>1, <2>3, <2>4, NoneIsNoRecord, LayoutsLand DEF InFlight
<1>5. CASE EngineMoves
  <2>1. /\ tx \in Transaction /\ tx # None /\ tx' = tx /\ disk' = disk
        /\ tx.phase \in {"Applying", "Reverting"} /\ rounds' = rounds - 1 /\ rounds > 0
        /\ pc = "loop"
    BY <1>5, NoneIsNoRecord DEF EngineMoves
  <2>2. PICK m \in Moves :
          /\ owed' = m.checkpoint
          /\ (view' = m.to /\ pc' = "sync") \/ (view' \in {view, m.to} /\ pc' = "done")
    BY <1>5 DEF EngineMoves
  <2>3. /\ LayoutFits(m.to, tx) /\ DurableIn(m.to, m.checkpoint, tx)
        /\ Ahead(m.to, tx.phase) = Ahead(view, tx.phase) - 1
    <3>1. CASE tx.phase = "Applying"
      <4>1. m \in ApplyMoves(view, tx.id)
        BY <3>1 DEF Moves
      <4> QED
        BY <1>0, <2>1, <3>1, <4>1, ApplyMoveFits
    <3>2. CASE tx.phase = "Reverting"
      <4>1. m \in RevertMoves(view)
        BY <3>2 DEF Moves
      <4> QED
        BY <1>0, <2>1, <3>2, <4>1, RevertMoveFits
    <3> QED
      BY <2>1, <3>1, <3>2
  <2>4. pc' \in Looping => rounds' >= Ahead(view', tx'.phase)
    <3>1. rounds >= Ahead(view, tx.phase) /\ Ahead(view, tx.phase) \in 1..4 /\ rounds \in Nat
      BY <1>0, <2>1, AheadBound DEF Looping
    <3>2. pc' \in Looping => view' = m.to
      BY <2>2 DEF Looping
    <3> QED
      BY <2>1, <2>3, <3>1, <3>2
  <2>5. LayoutFits(view', tx') /\ LayoutFits(disk', tx')
    BY <1>0, <2>1, <2>2, <2>3
  <2>6. pc' \in {"sync", "checkpoint"} => DurableIn(view', owed', tx')
    BY <2>1, <2>2, <2>3
  <2> QED
    BY <1>0, <2>1, <2>4, <2>5, <2>6, LayoutsLand DEF InFlight
<1>6. CASE EngineSyncs
  <2>1. /\ tx \in Transaction /\ tx # None /\ UNCHANGED <<tx, view, rounds, owed>>
        /\ tx.phase \in {"Applying", "Reverting"} /\ pc = "sync"
        /\ disk' \in {disk, view} /\ pc' \in {"checkpoint", "done"}
    BY <1>6, NoneIsNoRecord DEF EngineSyncs
  <2>2. DurableIn(view, owed, tx) /\ rounds >= Ahead(view, tx.phase)
    BY <2>1 DEF LayoutsAreSound
  <2> QED
    BY <1>0, <2>1, <2>2, LayoutsLand DEF InFlight
<1>7. CASE EngineNotes
  <2>1. /\ tx \in Transaction /\ tx' \in Transaction /\ tx'.id = tx.id /\ tx # None
        /\ tx.phase \in {"Applying", "Reverting"} /\ tx'.phase = tx.phase
        /\ tx'.checkpoint = owed /\ UNCHANGED <<view, disk, rounds>>
        /\ pc = "checkpoint" /\ pc' \in {"loop", "done"}
    BY <1>7, NoneIsNoRecord DEF EngineNotes, BecomesRecord
  <2>2. /\ view = disk /\ DurableIn(view, owed, tx) /\ rounds >= Ahead(view, tx.phase)
    BY <2>1 DEF Layered, SyncedBeforeDecision, EnginePcs, LayoutsAreSound
  <2>3. DurableIn(view, owed, tx')
    BY <2>1, <2>2 DEF DurableIn
  <2>4. LayoutFits(view, tx')
    BY <1>0, <2>1, <2>3, NoneIsNoRecord DEF LayoutFits, InFlight
  <2> QED
    BY <1>0, <2>1, <2>2, <2>4, NoneIsNoRecord, LayoutsLand DEF InFlight
<1>8. CASE EngineLands
  <2>1. /\ tx \in Transaction /\ tx' \in Transaction /\ tx'.id = tx.id /\ tx # None
        /\ tx' # None /\ UNCHANGED <<view, disk>> /\ pc = "loop" /\ pc' = "done" /\ Converged
        /\ \/ /\ tx.phase = "Applying" /\ tx'.phase = "BootedUnconfirmed"
              /\ tx'.checkpoint = "BootedUnconfirmedRecorded"
           \/ /\ tx.phase = "Reverting" /\ tx'.phase = "Reverted"
              /\ tx'.checkpoint = "RevertedRecorded"
    BY <1>8, NoneIsNoRecord DEF EngineLands, BecomesRecord
  <2>2. view = disk /\ NamedFor(view, tx.id) /\ Known(view)
    BY <1>0, <2>1 DEF Layered, SyncedBeforeDecision, EnginePcs, LayoutFits, InFlight
  <2>3. view.root # None /\ view.new = None /\ (view.old # None <=> tx.phase = "Applying")
    <3>1. CASE tx.phase = "Applying"
      <4>1. Present(view) = <<TRUE, TRUE, FALSE>>
        BY <2>1, <3>1, Zenon DEF Converged
      <4> QED
        BY <3>1, <4>1 DEF Present
    <3>2. CASE tx.phase = "Reverting"
      <4>1. (tx.phase = "Applying") = FALSE
        BY <3>2
      <4>2. Present(view) = <<TRUE, FALSE, FALSE>>
        BY <2>1, <4>1 DEF Converged
      <4> QED
        BY <3>2, <4>2 DEF Present
    <3> QED
      BY <2>1, <3>1, <3>2
  <2>4. LayoutFits(view, tx')
    BY <2>1, <2>2, <2>3 DEF LayoutFits, InFlight, NamedFor, DurableIn, Complete
  <2> QED
    BY <1>0, <2>1, <2>2, <2>4, LayoutsLand DEF Looping
<1> QED
  BY <1>1, <1>2, <1>3, <1>4, <1>5, <1>6, <1>7, <1>8 DEF EngineEffect

(***************************************************************************)
(* The calls keep them.                                                    *)
(***************************************************************************)
\* What a call at step s with record h knows of the running system.
CallFits(h, s) ==
  /\ s \in Scheduling => h.id # view.root
  /\ s \in Settle /\ h.phase = "Confirmed" => h.id = view.root
  /\ s = "record" => h.phase # "Reverted"

\* All that is left to show of a step of call c.
LEMMA LayoutsKept ==
  ASSUME LayoutsAreSound, NEW c \in Calls, pc' = "idle",
         LayoutFits(view', tx'), LayoutFits(disk', tx'),
         view'.root # None, view'.root = view.root,
         tx' = None \/ tx'.phase \notin InFlight => view'.old = None \/ disk'.old # None,
         \A d \in Calls \ {c} : call'[d] = call[d] /\ held'[d] = held[d],
         CallFits(held'[c], call'[c])
  PROVE  LayoutsAreSound'
<1>1. /\ LayoutFits(view, tx)' /\ LayoutFits(disk, tx)'
      /\ NotInFlight' <=> (tx' = None \/ tx'.phase \notin InFlight)
      /\ Scheduling' = Scheduling /\ Settle' = Settle
  BY DEF LayoutFits, NotInFlight, Known, NamedFor, DurableIn, Complete, InFlight, Scheduling,
         Settle, Finishing
<1>2. ASSUME NEW d \in Calls
      PROVE  /\ call'[d] \in Scheduling => held'[d].id # view'.root
             /\ call'[d] \in Settle /\ held'[d].phase = "Confirmed" => held'[d].id = view'.root
             /\ call'[d] = "record" => held'[d].phase # "Reverted"
  <2>1. CASE d = c
    BY <2>1 DEF CallFits
  <2>2. CASE d # c
    BY <2>2 DEF LayoutsAreSound
  <2> QED
    BY <2>1, <2>2
<1> QED
  BY <1>1, <1>2 DEF LayoutsAreSound

\* A pending record that is not in flight, seen from userspace.
LEMMA NotInFlightSays ==
  ASSUME Layered, LayoutsAreSound, NotInFlight, power = "user"
  PROVE  /\ view.root # None /\ disk.root = view.root /\ view.new = None /\ disk.new = None
         /\ view.old # None => disk.old # None
BY DEF Layered, LayoutsAreSound, LayoutFits, NotInFlight, CommittedSystemSurvives, Committed

\* A record that is not in flight and promises nothing of the layout fits any
\* at rest that does not bear its name.
LEMMA FitsAtRest ==
  ASSUME NEW l, NEW t \in Transaction, l.root # None, l.new = None, t.phase \notin InFlight,
         t.phase \in {"Preparing", "Armed"} => l.root # t.id,
         t.phase = "Confirmed" => l.root = t.id,
         t.phase = "Reverted" => l.old = None,
         AtPhase(t)
  PROVE  LayoutFits(l, t)
<1>1. t # None /\ t.id # None /\ None \notin Checkpoints
  BY NoneIsNoRecord, NoneIsNoValue DEF Transaction
<1>2. DurableIn(l, t.checkpoint, t)
  <2>1. CASE t.phase = "Confirmed"
    BY <2>1 DEF AtPhase, DurableIn
  <2>2. CASE t.phase = "Reverted"
    BY <2>2 DEF AtPhase, DurableIn, Complete
  <2>3. CASE t.phase \in {"Preparing", "Armed", "Failed"}
    BY <1>1, <2>3 DEF AtPhase, DurableIn, EntryCheckpoints, Checkpoints
  <2> QED
    BY <2>1, <2>2, <2>3, PhaseTypes DEF Transaction, Phases, InFlight
<1>3. Known(l)
  BY DEF Known
<1> QED
  BY <1>1, <1>2, <1>3, Zenon DEF LayoutFits, InFlight

\* A rollback that was booted but not confirmed is wholly in place.
LEMMA BootedInPlace ==
  ASSUME NEW l, NEW t \in Transaction, t.phase = "BootedUnconfirmed", AtPhase(t),
         LayoutFits(l, t)
  PROVE  l.root = t.id /\ l.root # None /\ l.old # None /\ l.new = None
<1>1. t # None /\ t.id # None
  BY NoneIsNoRecord, NoneIsNoValue DEF Transaction
<1>2. l.root = t.id /\ l.old # None
  BY <1>1 DEF AtPhase, LayoutFits, DurableIn
<1> QED
  BY <1>1, <1>2 DEF LayoutFits, Known

LEMMA CallPreservesLayouts ==
  ASSUME Frame, Layered, RecordsAreSound, LayoutsAreSound, NEW c \in Calls,
         CallFrame(c), CallEffect(c)
  PROVE  LayoutsAreSound'
<1>0. /\ power = "user" /\ pc' = "idle" /\ call[c] # "idle"
      /\ \A d \in Calls \ {c} : call'[d] = call[d] /\ held'[d] = held[d]
      /\ LayoutFits(view, tx) /\ LayoutFits(disk, tx) /\ SoundRecord(tx)
      /\ tx \in Transaction \cup {None}
      /\ call[c] = "record" \/ NotInFlight
      /\ CallFits(held[c], call[c]) /\ view.root # None
  BY DEF CallFrame, LayoutsAreSound, RecordsAreSound, Layered, CallsMeetNoFlight, CallFits,
         Frame, TypeOK
<1>1. CallFits(held'[c], call'[c])
  <2>1. call'[c] # "record"
    BY <1>0 DEF CallEffect, RestEffect, RemoveEffect, CreateEffect, ArmEffect, OutcomeEffect,
                LineageEffect, DeleteEffect, ArchiveEffect, Scheduling, Settle, Finish
  <2> QED
    BY <1>0, <2>1, ConcernsDiffer DEF CallFrame, SameConcern, CallFits
<1>2. /\ call[c] \in Scheduling => /\ held[c] = NewTransaction(held[c].id)
                                   /\ held[c] \in Transaction /\ held[c].id \in TxIds
      /\ call[c] \in Settle => held[c] \in Transaction /\ SoundRecord(held[c])
  BY DEF RecordsAreSound, Frame, TypeOK, CallsRun, Fits, Transaction, Settle
<1>3. CASE view' = view /\ disk' = disk /\ tx' = tx
  <2>1. tx = None \/ tx.phase \notin InFlight => view.old = None \/ disk.old # None
    BY DEF LayoutsAreSound, NotInFlight
  <2> QED
    BY <1>0, <1>1, <1>3, <2>1, LayoutsKept
<1>4. CASE RemoveEffect(c)
  <2>1. /\ tx' = None /\ view' = view /\ disk' = disk /\ NotInFlight
    BY <1>0, <1>4 DEF RemoveEffect
  <2>2. LayoutFits(view', tx') /\ LayoutFits(disk', tx')
    BY <1>0, <2>1, NotInFlightSays DEF LayoutFits
  <2> QED
    BY <1>0, <1>1, <2>1, <2>2, NotInFlightSays, LayoutsKept
<1>5. CASE CreateEffect(c)
  <2>1. /\ call[c] = "create" /\ call[c] \in Scheduling /\ tx' = held[c] /\ NotInFlight
        /\ view' = Layout(view.root, None, None) /\ disk' = Layout(disk.root, None, None)
    BY <1>0, <1>5 DEF CreateEffect, Scheduling
  <2>2. /\ held[c].phase = "Preparing" /\ AtPhase(held[c]) /\ held[c].id # view.root
    BY <1>0, <1>2, <2>1, NoneIsNoRecord DEF RecordsAreSound, SoundRecord, CallFits, NewTransaction
  <2>3. view.root # None /\ disk.root = view.root
    BY <1>0, <2>1, NotInFlightSays
  <2>4. LayoutFits(view', tx') /\ LayoutFits(disk', tx')
    BY <1>2, <2>1, <2>2, <2>3, FitsAtRest DEF Layout, InFlight
  <2> QED
    BY <1>0, <1>1, <2>1, <2>3, <2>4, LayoutsKept DEF Layout
<1>6. CASE ArmEffect(c)
  <2>1. /\ call[c] = "arm_record" /\ call[c] \in Scheduling /\ NotInFlight
        /\ tx' = Transition(held[c], "Armed") /\ view' = view /\ disk' = disk
    BY <1>0, <1>6 DEF ArmEffect, Scheduling
  <2>2. /\ tx' \in Transaction /\ tx'.phase = "Armed" /\ AtPhase(tx') /\ tx'.id # view.root
    BY <1>0, <1>2, <2>1, NewTransactionSound, NewTransactionType, TransitionType, PhaseTypes, NoneIsNoRecord
       DEF SoundRecord, CallFits
  <2>3. /\ view.root # None /\ disk.root = view.root /\ view.new = None /\ disk.new = None
        /\ view.old # None => disk.old # None
    BY <1>0, <2>1, NotInFlightSays
  <2>4. LayoutFits(view', tx') /\ LayoutFits(disk', tx')
    BY <2>1, <2>2, <2>3, FitsAtRest DEF InFlight
  <2> QED
    BY <1>0, <1>1, <2>1, <2>3, <2>4, LayoutsKept
<1>7. CASE OutcomeEffect(c)
  <2>1. /\ call[c] = "record" /\ call[c] \in Settle /\ tx # None /\ tx' = held[c]
        /\ view' = view /\ disk' = disk
    BY <1>7 DEF OutcomeEffect, Settle
  <2>2. /\ held[c] \in Transaction /\ AtPhase(held[c]) /\ held[c].phase \in {"Confirmed", "Failed"}
        /\ held[c].phase = "Confirmed" => held[c].id = view.root
    BY <1>0, <1>2, <2>1, NoneIsNoRecord
       DEF SoundRecord, CallFits, Frame, CallsRun, Fits, Terminal
  <2>3. /\ disk.root = view.root /\ view.new = None /\ disk.new = None
        /\ view.old # None => disk.old # None
    <3>1. CASE NotInFlight
      BY <1>0, <3>1, NotInFlightSays
    <3>2. CASE ~NotInFlight
      <4>1. tx \in Transaction /\ tx.phase = "BootedUnconfirmed" /\ AtPhase(tx)
        BY <1>0, <2>1, <3>2 DEF Layered, CallsMeetNoFlight, SoundRecord
      <4> QED
        BY <1>0, <4>1, BootedInPlace
    <3> QED
      BY <3>1, <3>2
  <2>4. LayoutFits(view', tx') /\ LayoutFits(disk', tx')
    BY <1>0, <2>1, <2>2, <2>3, FitsAtRest DEF InFlight
  <2> QED
    BY <1>0, <1>1, <2>1, <2>3, <2>4, LayoutsKept
<1>8. CASE DeleteEffect(c)
  <2> DEFINE without == Layout(view.root, None, view.new)
  <2>1. /\ tx' = tx /\ NotInFlight /\ view' \in {view, without} /\ disk' \in {disk, view'}
    BY <1>0, <1>8 DEF DeleteEffect
  <2>2. /\ view.root # None /\ disk.root = view.root /\ view.new = None /\ disk.new = None
        /\ view.old # None => disk.old # None
    BY <1>0, <2>1, NotInFlightSays
  <2>3. LayoutFits(without, tx)
    <3>1. CASE tx = None
      BY <2>2, <3>1 DEF LayoutFits, Known, Layout
    <3>2. CASE tx # None
      <4>1. /\ tx \in Transaction /\ AtPhase(tx) /\ tx.phase \notin InFlight
            /\ tx.phase \in {"Preparing", "Armed"} => view.root # tx.id
            /\ tx.phase = "Confirmed" => view.root = tx.id
        BY <1>0, <2>1, <3>2 DEF SoundRecord, NotInFlight, LayoutFits
      <4> QED
        BY <2>2, <4>1, FitsAtRest DEF Layout
    <3> QED
      BY <3>1, <3>2
  <2>4. LayoutFits(view', tx') /\ LayoutFits(disk', tx')
    BY <1>0, <2>1, <2>3
  <2>5. view'.root = view.root /\ (view'.old = None \/ disk'.old # None)
    BY <2>1, <2>2 DEF Layout
  <2> QED
    BY <1>0, <1>1, <2>4, <2>5, LayoutsKept
<1> QED
  BY <1>3, <1>4, <1>5, <1>6, <1>7, <1>8
     DEF CallEffect, RestEffect, LineageEffect, ArchiveEffect

LEMMA StartPreservesLayouts ==
  ASSUME Frame, RecordsAreSound, IdsAreIssued, LayoutsAreSound, NEW c \in Calls,
         ScheduleEffect(c) \/ CancelEffect(c) \/ ReconcileEffect(c)
  PROVE  LayoutsAreSound'
<1>0. /\ pc' = "idle" /\ UNCHANGED <<tx, view, disk>> /\ power = "user"
      /\ \A d \in Calls \ {c} : call'[d] = call[d] /\ held'[d] = held[d]
  BY DEF ScheduleEffect, CancelEffect, ReconcileEffect, StartFrame
<1>1. /\ LayoutFits(view, tx) /\ LayoutFits(disk, tx) /\ view.root # None
      /\ tx = None \/ tx.phase \notin InFlight => view.old = None \/ disk.old # None
  BY <1>0 DEF LayoutsAreSound, NotInFlight
<1>2. CallFits(held'[c], call'[c])
  <2>1. CASE ScheduleEffect(c)
    <3>1. PICK i \in TxIds \ issued : held'[c] = NewTransaction(i) /\ call'[c] = "create"
      BY <2>1 DEF ScheduleEffect, StartFrame
    <3>2. i # view.root
      BY DEF IdsAreIssued, LayoutIssued
    <3> QED
      BY <3>1, <3>2, NewTransactionSound DEF CallFits, Settle, Finishing
  <2>2. CASE CancelEffect(c)
    BY <2>2 DEF CancelEffect, StartFrame, CallFits, Scheduling, Settle, Finishing
  <2>3. CASE ReconcileEffect(c)
    <3>0. tx \in Transaction /\ tx # None /\ AtPhase(tx)
      BY <2>3, NoneIsNoRecord DEF ReconcileEffect, RecordsAreSound, SoundRecord
    <3>1. call'[c] \in Settle /\ call'[c] \notin Scheduling
      BY <2>3 DEF ReconcileEffect, StartFrame, Settle, Finishing, Finish, Scheduling
    <3>2. CASE tx.phase = "Armed" /\ held'[c] = RecordFailure(tx)
      <4>1. held'[c].phase = "Failed"
        BY <3>0, <3>2, FailureType
      <4> QED
        BY <3>1, <4>1 DEF CallFits
    <3>3. CASE tx.phase = "BootedUnconfirmed" /\ held'[c] = Transition(tx, "Confirmed")
      <4>1. held'[c].phase = "Confirmed" /\ held'[c].id = tx.id
        BY <3>0, <3>3, PhaseTypes, TransitionType DEF Transition, Transaction
      <4>2. view.root = tx.id
        BY <1>1, <3>0, <3>3, BootedInPlace
      <4> QED
        BY <3>1, <4>1, <4>2 DEF CallFits
    <3>4. CASE held'[c] = tx /\ call'[c] = Finish(tx)
      <4>1. tx.phase = "Confirmed" => tx.id = view.root
        BY <1>1, <3>0 DEF LayoutFits
      <4> QED
        BY <3>1, <3>4, <4>1 DEF CallFits, Finish
    <3> QED
      BY <2>3, <3>2, <3>3, <3>4 DEF ReconcileEffect, StartFrame
  <2> QED
    BY <2>1, <2>2, <2>3
<1> QED
  BY <1>0, <1>1, <1>2, LayoutsKept

LEMMA NextPreservesLayouts ==
  ASSUME Frame, Layered, RecordsAreSound, IdsAreIssued, LayoutsAreSound, StepEffect
  PROVE  LayoutsAreSound'
<1>1. CASE BootEffect
  <2>1. /\ LayoutFits(view, tx) /\ LayoutFits(disk, tx) /\ tx' = tx
        /\ NotInFlight /\ view.old # None => disk.old # None
        /\ \A c \in Calls : call'[c] = "idle"
        /\ pc' \notin Looping
        /\ \/ view' = view /\ disk' = disk
           \/ view' \in {view, disk} /\ disk' = view'
        /\ power' = "user" => view'.root # None
    BY <1>1 DEF BootEffect, LayoutsAreSound
  <2>2. LayoutFits(view', tx') /\ LayoutFits(disk', tx')
    BY <2>1
  <2>3. tx' = None \/ tx'.phase \notin InFlight => view'.old = None \/ disk'.old # None
    BY <2>1 DEF NotInFlight
  <2> QED
    BY <2>1, <2>2, <2>3, LayoutsLand DEF Looping
<1>2. CASE EngineOnly /\ EngineEffect
  BY <1>2, EnginePreservesLayouts
<1>3. CASE \E c \in Calls : CallFrame(c) /\ CallEffect(c)
  BY <1>3, CallPreservesLayouts
<1>4. CASE \E c \in Calls : ScheduleEffect(c) \/ CancelEffect(c) \/ ReconcileEffect(c)
  BY <1>4, StartPreservesLayouts
<1>5. CASE AsideEffect
  BY <1>5 DEF AsideEffect, LayoutsAreSound, LayoutFits, Known, NamedFor, DurableIn, Complete,
              InFlight, NotInFlight, Ahead, Scheduling, Settle, Finishing
<1> QED
  BY <1>1, <1>2, <1>3, <1>4, <1>5 DEF StepEffect

(***************************************************************************)
(* The theorems.                                                           *)
(***************************************************************************)
Grounded == Frame /\ Layered /\ RecordsAreSound /\ IdsAreIssued /\ LayoutsAreSound

LEMMA InitGrounded == Init => Grounded
BY InitFrame, InitLayered, InitRecords, InitIds, InitLayouts DEF Grounded

LEMMA NextPreservesGrounded == Grounded /\ [Next]_vars => Grounded'
<1> SUFFICES ASSUME Grounded, [Next]_vars PROVE Grounded'
  OBVIOUS
<1> USE DEF Grounded
<1>1. StepEffect
  BY NextEffect
<1> QED
  BY <1>1, NextPreservesFrame, NextPreservesLayered, NextPreservesRecords, NextPreservesIds,
     NextPreservesLayouts

\* A layout that the running loop knows, with the rounds it needs, is never unsafe.
LEMMA LayoutsAreKnown == Grounded => LayoutAlwaysKnown
<1> SUFFICES ASSUME Grounded, pc = "loop", ~Converged
             PROVE  rounds # 0 /\ Moves # {}
  BY DEF LayoutAlwaysKnown, UnsafeLayout
<1>1. /\ tx.phase \in {"Applying", "Reverting"} /\ Known(view) /\ rounds \in Nat
      /\ rounds >= Ahead(view, tx.phase)
  BY DEF Grounded, Frame, EngineRuns, LayoutsAreSound, LayoutFits, TypeOK
<1>2. rounds > 0
  BY <1>1, AheadBound
<1>3. CASE tx.phase = "Applying"
  <2>1. (tx.phase = "Applying") = TRUE
    BY <1>3
  <2>2. Present(view) # <<TRUE, TRUE, FALSE>>
    BY <1>2, <2>1 DEF Converged
  <2>3. ~(view.root # None /\ view.old # None /\ view.new = None)
    BY <2>2 DEF Present
  <2> QED
    BY <1>1, <1>2, <1>3, <2>3, ApplyKnows DEF Moves
<1>4. CASE tx.phase = "Reverting"
  <2>1. (tx.phase = "Applying") = FALSE
    BY <1>4
  <2>2. Present(view) # <<TRUE, FALSE, FALSE>>
    BY <1>2, <2>1 DEF Converged
  <2>3. ~Complete(view)
    BY <2>2 DEF Present, Complete
  <2> QED
    BY <1>1, <1>2, <1>4, <2>3, RevertKnows DEF Moves
<1> QED
  BY <1>1, <1>3, <1>4

LEMMA RecordsStayGrounded == Spec => []Grounded
BY InitGrounded, NextPreservesGrounded, PTL DEF Spec

\* Whatever was interrupted before, apply and revert never meet a layout that
\* unsafe_state() refuses and never run out of rounds.
THEOREM LayoutsAlwaysKnown == Spec => []LayoutAlwaysKnown
BY RecordsStayGrounded, LayoutsAreKnown, PTL

\* The checkpoint in the record never promises more than the last Btrfs commit
\* holds, so it bounds what a power cut can undo.
THEOREM CheckpointsAlwaysDurable == Spec => []CheckpointsAreDurable
<1>1. Grounded => CheckpointsAreDurable
  BY DEF Grounded, LayoutsAreSound, LayoutFits, CheckpointsAreDurable
<1> QED
  BY <1>1, RecordsStayGrounded, PTL

(***************************************************************************)
(* The story of a rollback.                                                *)
(***************************************************************************)
LEMMA NoneIsNoOutcome ==
  None \notin Terminal /\ None \notin Outcomes /\ Outcomes \subseteq Terminal
BY NoneIsNoValue DEF Terminal, Outcomes, Phases

LEMMA InitStory == Init => OneStory
<1> SUFFICES ASSUME Init PROVE OneStory
  OBVIOUS
<1>1. /\ \A c \in Calls : call[c] = "idle"
      /\ tx = None /\ \A i \in TxIds : history[i] = None
      /\ view = Layout(Installed, None, None) /\ disk = view
  BY DEF Init
<1>2. RootsAccounted(view) /\ RootsAccounted(disk)
  BY <1>1, StateAssumption, NoneIsNoValue DEF RootsAccounted, Settled, Layout
<1>3. StoresAgree
  BY <1>1, NoneIsNoOutcome DEF StoresAgree
<1> QED
  BY <1>1, <1>2, <1>3, ConcernsDiffer DEF OneStory, Tells, Draws

(***************************************************************************)
(* Steps that no call survives or takes: the engine and the boot.          *)
(***************************************************************************)
LEMMA StoryLands ==
  ASSUME \A c \in Calls : call'[c] = "idle",
         (tx # None => NothingElseTold(tx))',
         RootsAccounted(view)', RootsAccounted(disk)', StoresAgree'
  PROVE  OneStory'
<1>1. ~Drawing'
  BY ConcernsDiffer DEF Drawing, Scheduling, Cancelling
<1>2. Scheduling' = Scheduling /\ Settle' = Settle
  BY DEF Scheduling, Settle, Finishing
<1> QED
  BY <1>1, <1>2, ConcernsDiffer DEF OneStory, Tells, Draws

\* A record that is not terminal has no outcome yet.
LEMMA NothingTold ==
  ASSUME Frame, NEW t \in Transaction, NothingElseTold(t), t.phase \notin Terminal
  PROVE  history[t.id] = None /\ lineage[t.id] = None
BY NoneIsNoOutcome DEF Frame, TypeOK, NothingElseTold, Transaction

\* An engine's step neither retells nor tells anything of a rollback.
LEMMA EngineTells ==
  ASSUME Frame, tx # None => NothingElseTold(tx), EngineOnly, EngineEffect
  PROVE  (tx # None => NothingElseTold(tx))'
<1>1. UNCHANGED <<history, lineage>>
  BY DEF EngineOnly
<1>2. CASE tx' = tx
  BY <1>1, <1>2 DEF NothingElseTold
<1>3. CASE tx' # tx
  <2>1. tx \in Transaction /\ tx # None /\ tx.phase \notin Terminal /\ tx'.id = tx.id
    BY <1>3, NoneIsNoRecord
       DEF EngineEffect, EngineRests, EngineResumes, EngineEnters, EngineStarts, EngineMoves,
           EngineSyncs, EngineNotes, EngineLands, BecomesRecord, Terminal
  <2>2. history[tx.id] = None /\ lineage[tx.id] = None
    BY <2>1, NothingTold
  <2> QED
    BY <1>1, <2>1, <2>2 DEF NothingElseTold
<1> QED
  BY <1>2, <1>3

\* The root a layout of record t may have without its outcome being told.
Claims(t, s) == t # None /\ t.id = s /\ t.phase \in InFlight \cup {"Confirmed"}

\* A move of the engine brings in no root but the pending one.
LEMMA MoveAccounted ==
  ASSUME NEW t \in Transaction, NEW l, t.phase \in {"Applying", "Reverting"}, LayoutFits(l, t),
         Settled(l.old), Settled(l.root) \/ Claims(t, l.root),
         NEW m, t.phase = "Applying" => m \in ApplyMoves(l, t.id),
         t.phase = "Reverting" => m \in RevertMoves(l)
  PROVE  Settled(m.to.old) /\ (Settled(m.to.root) \/ Claims(t, m.to.root))
<1>1. t # None /\ None \notin TxIds /\ NamedFor(l, t.id)
  BY NoneIsNoRecord, NoneIsNoValue DEF LayoutFits, InFlight
<1>2. Settled(None) /\ (l.old = None => Settled(l.root))
  BY <1>1 DEF Settled, Claims, NamedFor
<1>3. PICK to : /\ m.to = to
                /\ \/ to = Layout(l.root, None, t.id)
                   \/ l.old = None /\ to = Layout(None, l.root, l.new)
                   \/ l.new # None /\ to = Layout(l.new, l.old, None)
                   \/ to = Layout(l.root, None, None)
                   \/ to = Layout(l.old, None, l.new)
                   \/ to = Layout(None, l.old, l.root)
  <2>1. CASE t.phase = "Applying"
    BY <2>1, ApplyMoveShape DEF Move
  <2>2. CASE t.phase = "Reverting"
    BY <2>2, RevertMoveShape DEF Move
  <2> QED
    BY <2>1, <2>2
<1>4. l.new # None => Claims(t, l.new)
  BY <1>1 DEF Claims, NamedFor, InFlight
<1> QED
  BY <1>2, <1>3, <1>4 DEF Layout

LEMMA EngineAccounts ==
  ASSUME Frame, Layered, LayoutsAreSound, RootsAccounted(view), RootsAccounted(disk),
         EngineOnly, EngineEffect
  PROVE  RootsAccounted(view)' /\ RootsAccounted(disk)'
<1>0. /\ UNCHANGED history /\ LayoutFits(view, tx) /\ LayoutFits(disk, tx)
      /\ Settled(view.old) /\ Settled(disk.old)
      /\ Settled(view.root) \/ Claims(tx, view.root)
      /\ Settled(disk.root) \/ Claims(tx, disk.root)
  BY DEF EngineOnly, LayoutsAreSound, RootsAccounted, Claims
<1>2. CASE EngineRests \/ EngineResumes \/ EngineSyncs
  <2>1. tx' = tx /\ view' = view /\ disk' \in {disk, view}
    BY <1>2 DEF EngineRests, EngineResumes, EngineSyncs
  <2>2. RootsAccounted(view)'
    BY <1>0, <2>1 DEF RootsAccounted, Settled, Claims
  <2>3. RootsAccounted(disk)'
    BY <1>0, <2>1 DEF RootsAccounted, Settled, Claims
  <2> QED
    BY <2>2, <2>3
<1>3. CASE EngineMoves
  <2>1. /\ tx \in Transaction /\ tx.phase \in {"Applying", "Reverting"} /\ tx' = tx
        /\ disk' = disk
    BY <1>3 DEF EngineMoves
  <2>2. PICK m \in Moves : view' \in {view, m.to}
    BY <1>3 DEF EngineMoves
  <2>3. Settled(m.to.old) /\ (Settled(m.to.root) \/ Claims(tx, m.to.root))
    BY <1>0, <2>1, MoveAccounted DEF Moves
  <2>4. RootsAccounted(view)'
    BY <1>0, <2>1, <2>2, <2>3 DEF RootsAccounted, Settled, Claims
  <2>5. RootsAccounted(disk)'
    BY <1>0, <2>1 DEF RootsAccounted, Settled, Claims
  <2> QED
    BY <2>4, <2>5
<1>4. CASE EngineEnters \/ EngineStarts \/ EngineNotes
  <2>1. /\ UNCHANGED <<view, disk>> /\ tx' # None /\ tx'.id = tx.id
        /\ tx.phase \in InFlight => tx'.phase \in InFlight
        /\ tx.phase # "Confirmed"
    BY <1>4, NoneIsNoRecord
       DEF EngineEnters, EngineStarts, EngineNotes, BecomesRecord, InFlight
  <2>2. RootsAccounted(view)' /\ RootsAccounted(disk)'
    BY <1>0, <2>1 DEF RootsAccounted, Settled, Claims
  <2> QED
    BY <2>2
<1>5. CASE EngineLands
  <2>1. /\ UNCHANGED <<view, disk>> /\ tx' # None /\ tx'.id = tx.id /\ tx \in Transaction
        /\ tx # None /\ pc = "loop" /\ Converged /\ tx.phase \in InFlight
        /\ tx'.phase \in InFlight \/ tx.phase = "Reverting"
    BY <1>5, NoneIsNoRecord DEF EngineLands, BecomesRecord, InFlight
  <2>2. view = disk /\ NamedFor(view, tx.id)
    BY <1>0, <2>1 DEF Layered, SyncedBeforeDecision, EnginePcs, LayoutFits
  <2>3. CASE tx'.phase \in InFlight
    BY <1>0, <2>1, <2>3 DEF RootsAccounted, Settled, Claims
  <2>4. CASE tx.phase = "Reverting"
    <3>1. (tx.phase = "Applying") = FALSE
      BY <2>4
    <3>2. Present(view) = <<TRUE, FALSE, FALSE>>
      BY <2>1, <3>1 DEF Converged
    <3>3. view.old = None
      BY <3>2 DEF Present
    <3>4. Settled(view.root)
      BY <1>0, <2>2, <3>3 DEF Claims, NamedFor
    <3> QED
      BY <1>0, <2>1, <2>2, <3>4 DEF RootsAccounted, Settled
  <2> QED
    BY <2>1, <2>3, <2>4
<1> QED
  BY <1>2, <1>3, <1>4, <1>5 DEF EngineEffect

LEMMA EnginePreservesStory ==
  ASSUME Frame, Layered, LayoutsAreSound, OneStory, EngineOnly, EngineEffect
  PROVE  OneStory'
<1>1. /\ tx # None => NothingElseTold(tx)
      /\ RootsAccounted(view) /\ RootsAccounted(disk) /\ StoresAgree
  BY DEF OneStory
<1>2. \A c \in Calls : call'[c] = "idle"
  BY DEF EngineOnly
<1>3. StoresAgree'
  BY <1>1 DEF EngineOnly, StoresAgree
<1> QED
  BY <1>1, <1>2, <1>3, EngineTells, EngineAccounts, StoryLands

LEMMA BootPreservesStory ==
  ASSUME OneStory, BootEffect
  PROVE  OneStory'
<1>1. /\ tx # None => NothingElseTold(tx)
      /\ RootsAccounted(view) /\ RootsAccounted(disk) /\ StoresAgree
  BY DEF OneStory
<1>2. /\ UNCHANGED <<tx, history, lineage>> /\ \A c \in Calls : call'[c] = "idle"
      /\ view' \in {view, disk} /\ disk' \in {disk, view}
  BY DEF BootEffect
<1>3. (tx # None => NothingElseTold(tx))'
  BY <1>1, <1>2 DEF NothingElseTold
<1>4. RootsAccounted(view)' /\ RootsAccounted(disk)'
  BY <1>1, <1>2 DEF RootsAccounted, Settled
<1>5. StoresAgree'
  BY <1>1, <1>2 DEF StoresAgree
<1> QED
  BY <1>2, <1>3, <1>4, <1>5, StoryLands

LEMMA AsidePreservesStory ==
  ASSUME OneStory, AsideEffect
  PROVE  OneStory'
BY DEF AsideEffect, OneStory, Tells, Draws, Belongs, Archived, NothingElseTold, Drawing,
       RootsAccounted, Settled, StoresAgree, Settle, Finishing, Scheduling, Cancelling

(***************************************************************************)
(* Steps of a call.  The call stays with what it is about, or ends.        *)
(***************************************************************************)
LEMMA StaysInConcern ==
  ASSUME NEW c \in Calls, CallFrame(c), NEW d \in Calls
  PROVE  /\ call'[d] \in Settle => call[d] \in Settle /\ held'[d] = held[d]
         /\ call'[d] \in Scheduling => call[d] \in Scheduling /\ held'[d] = held[d]
         /\ Drawing' => Drawing
<1>1. \A e \in Calls :
        /\ call'[e] \in Settle => call[e] \in Settle /\ held'[e] = held[e]
        /\ call'[e] \in Scheduling => call[e] \in Scheduling /\ held'[e] = held[e]
        /\ call'[e] \in Scheduling \cup Cancelling => call[e] \in Scheduling \cup Cancelling
  <2> SUFFICES ASSUME NEW e \in Calls
               PROVE  /\ call'[e] \in Settle => call[e] \in Settle /\ held'[e] = held[e]
                      /\ call'[e] \in Scheduling => call[e] \in Scheduling /\ held'[e] = held[e]
                      /\ call'[e] \in Scheduling \cup Cancelling =>
                           call[e] \in Scheduling \cup Cancelling
    OBVIOUS
  <2>1. CASE e = c
    BY <2>1, ConcernsDiffer DEF CallFrame, SameConcern
  <2>2. CASE e # c
    BY <2>2 DEF CallFrame
  <2> QED
    BY <2>1, <2>2
<1>2. Scheduling' = Scheduling /\ Cancelling' = Cancelling
  BY DEF Scheduling, Cancelling
<1> QED
  BY <1>1, <1>2 DEF Drawing

\* All that is left to show of a step of call c.
LEMMA StoryKept ==
  ASSUME OneStory, NEW c \in Calls, CallFrame(c),
         \A d \in Calls : call'[d] \in Settle => Tells(held[d], call[d])',
         \A d \in Calls : call'[d] \in Scheduling => Draws(held[d], call[d])',
         (tx # None => NothingElseTold(tx) /\ (Drawing => Archived(tx)))',
         RootsAccounted(view)', RootsAccounted(disk)', StoresAgree'
  PROVE  OneStory'
<1>1. Scheduling' = Scheduling /\ Settle' = Settle
  BY DEF Scheduling, Settle, Finishing
<1>2. \A d \in Calls : Tells(held[d], call[d])' /\ Draws(held[d], call[d])'
  BY <1>1 DEF Tells, Draws
<1>3. \A d, e \in Calls :
        /\ call'[d] \in Settle /\ call'[e] \in Settle => held'[d] = held'[e]
        /\ call'[d] \in Settle /\ call'[e] \in Scheduling => held'[d].id # held'[e].id
  BY StaysInConcern DEF OneStory
<1> QED
  BY <1>1, <1>2, <1>3 DEF OneStory

\* What OneStory says of a call that settles or schedules.
LEMMA SettlesSo ==
  ASSUME Frame, OneStory, NEW d \in Calls, call[d] \in Settle
  PROVE  /\ held[d] \in Transaction /\ held[d] # None /\ held[d].id \in TxIds
         /\ held[d].phase \in Terminal
         /\ NothingElseTold(held[d]) /\ Belongs(held[d], call[d])
         /\ tx = None \/ tx.id # held[d].id \/ Drawing => Archived(held[d])
         /\ call[d] \in {"remove", "finish"} => history[held[d].id] = held[d].phase
         /\ call[d] \notin {"record", "lineage"} /\ held[d].phase \in Outcomes =>
              lineage[held[d].id] = held[d].phase
         /\ call[d] = "delete_old" => held[d].phase = "Confirmed"
<1>1. held[d] \in Transaction /\ held[d] # None /\ held[d].phase \in Terminal
  BY NoneIsNoRecord DEF Frame, TypeOK, CallsRun, Fits, Settle, Outcomes, Terminal
<1>2. held[d].id \in TxIds
  BY <1>1 DEF Transaction
<1> QED
  BY <1>1, <1>2 DEF OneStory, Tells

LEMMA DrawsSo ==
  ASSUME Frame, OneStory, NEW d \in Calls, call[d] \in Scheduling
  PROVE  /\ held[d] \in Transaction /\ held[d] # None /\ held[d].id \in TxIds
         /\ held[d].phase = "Preparing"
         /\ held[d].id # requested
         /\ history[held[d].id] = None /\ lineage[held[d].id] = None
         /\ tx # None /\ tx.id = held[d].id => tx.phase \in {"Preparing", "Armed"}
         /\ Drawing
<1>1. held[d] \in Transaction /\ held[d] # None /\ held[d].phase = "Preparing"
  BY NoneIsNoRecord DEF Frame, TypeOK, CallsRun, Fits
<1>2. held[d].id \in TxIds
  BY <1>1 DEF Transaction
<1> QED
  BY <1>1, <1>2 DEF OneStory, Draws, Drawing

\* Who still tells the story of a record after the step of a call that wrote none.
LEMMA BelongsKept ==
  ASSUME UNCHANGED <<tx, requested>>, NEW h, NEW s, NEW n, Belongs(h, s), n = s \/ s # "record"
  PROVE  Belongs(h, n)'
BY DEF Belongs

\* A step that tells nothing and leaves the pending record.
LEMMA RestPreservesStory ==
  ASSUME Frame, OneStory, NEW c \in Calls, CallFrame(c), RestEffect(c)
  PROVE  OneStory'
<1>0. /\ UNCHANGED <<tx, history, lineage, view, disk, requested>>
      /\ \A d \in Calls : call'[d] \in Settle =>
           call'[d] = call[d] \/ (call[d] = "clear" /\ call'[d] = "archive")
  BY DEF CallFrame, RestEffect
<1>1. ASSUME NEW d \in Calls, call'[d] \in Settle PROVE Tells(held[d], call[d])'
  <2>1. call[d] \in Settle /\ held'[d] = held[d] /\ (Drawing' => Drawing)
    BY <1>1, StaysInConcern
  <2>2. Belongs(held[d], call[d])'
    BY <1>0, <1>1, <2>1, SettlesSo, BelongsKept
  <2>3. NothingElseTold(held[d])' /\ (Archived(held[d]) => Archived(held[d])')
    BY <1>0, <2>1, SettlesSo DEF NothingElseTold, Archived, Outcomes
  <2>4. call'[d] \in {"remove", "finish"} => call[d] = call'[d]
    BY <1>0, <1>1
  <2>5. call'[d] \notin {"record", "lineage"} => call[d] \notin {"record", "lineage"}
    BY <1>0, <1>1
  <2>6. call'[d] = "delete_old" => call[d] = "delete_old"
    BY <1>0, <1>1
  <2> QED
    BY <1>0, <2>1, <2>2, <2>3, <2>4, <2>5, <2>6, SettlesSo DEF Tells, Outcomes
<1>2. ASSUME NEW d \in Calls, call'[d] \in Scheduling PROVE Draws(held[d], call[d])'
  <2>1. call[d] \in Scheduling /\ held'[d] = held[d]
    BY <1>2, StaysInConcern
  <2> QED
    BY <1>0, <2>1, DrawsSo DEF Draws
<1>3. (tx # None => NothingElseTold(tx) /\ (Drawing => Archived(tx)))'
  BY <1>0, StaysInConcern DEF OneStory, NothingElseTold, Archived, Outcomes
<1>4. RootsAccounted(view)' /\ RootsAccounted(disk)'
  BY <1>0 DEF OneStory, RootsAccounted, Settled
<1>5. StoresAgree'
  BY <1>0 DEF OneStory, StoresAgree, Outcomes
<1> QED
  BY <1>1, <1>2, <1>3, <1>4, <1>5, StoryKept

\* A call that settles after a step that wrote the pending record.
LEMMA TellsKept ==
  ASSUME Frame, OneStory, NEW c \in Calls, CallFrame(c), UNCHANGED <<history, lineage>>,
         NEW d \in Calls, call'[d] \in Settle,
         Belongs(held[d], call[d])',
         tx' = None \/ tx'.id # held[d].id \/ Drawing => Archived(held[d]),
         \/ call'[d] = call[d]
         \/ call[d] = "remove" /\ call'[d] = "finish"
         \/ call[d] = "record" /\ call'[d] = Finish(held[d])
  PROVE  Tells(held[d], call[d])'
<1>1. call[d] \in Settle /\ held'[d] = held[d] /\ (Drawing' => Drawing)
  BY StaysInConcern
<1>2. NothingElseTold(held[d])'
  BY <1>1, SettlesSo DEF NothingElseTold
<1>3. (tx = None \/ tx.id # held[d].id \/ Drawing => Archived(held[d]))'
  BY <1>1 DEF Archived, Outcomes
<1>4. call'[d] \in {"remove", "finish"} => history[held[d].id] = held[d].phase
  BY <1>1, SettlesSo DEF Finish
<1>5. call'[d] \notin {"record", "lineage"} /\ held[d].phase \in Outcomes =>
        lineage[held[d].id] = held[d].phase
  BY <1>1, SettlesSo DEF Finish, Outcomes
<1>6. call'[d] = "delete_old" => held[d].phase = "Confirmed"
  BY <1>1, SettlesSo DEF Finish
<1> QED
  BY <1>1, <1>2, <1>3, <1>4, <1>5, <1>6 DEF Tells, Outcomes

\* A confirmed record whose outcome is archived no longer answers for the root.
LEMMA RootsTold ==
  ASSUME OneStory, NotInFlight, tx # None => Archived(tx)
  PROVE  /\ Settled(view.root) /\ Settled(view.old)
         /\ Settled(disk.root) /\ Settled(disk.old)
<1>1. ASSUME NEW l, RootsAccounted(l) PROVE Settled(l.root) /\ Settled(l.old)
  BY <1>1 DEF RootsAccounted, Settled, NotInFlight, Archived, Outcomes
<1> QED
  BY <1>1 DEF OneStory

\* Outside the engine only a call that confirms meets a rollback in flight.
LEMMA MeetsNoFlight ==
  ASSUME Layered, NEW c \in Calls, call[c] # "idle", call[c] # "record"
  PROVE  NotInFlight
BY DEF Layered, CallsMeetNoFlight

LEMMA RemovePreservesStory ==
  ASSUME Frame, Layered, OneStory, NEW c \in Calls, CallFrame(c), RemoveEffect(c)
  PROVE  OneStory'
<1>0. /\ tx' = None /\ UNCHANGED <<history, lineage, view, disk, requested>>
      /\ call[c] \in {"clean_remove", "cancel_remove", "remove"}
      /\ call'[c] = "finish" => call[c] = "remove"
      /\ call'[c] \in {"clean_regenerate", "cancel_regenerate", "finish", "idle"}
      /\ \A d \in Calls \ {c} : call'[d] = call[d]
  BY DEF CallFrame, RemoveEffect
<1>1. NotInFlight
  BY <1>0, MeetsNoFlight
<1>4. /\ \A d \in Calls : call[d] \in Settle => Archived(held[d])
      /\ tx # None => Archived(tx)
  <2>1. CASE call[c] = "remove"
    <3>1. call[c] \in Settle /\ history[held[c].id] = held[c].phase /\ Belongs(held[c], call[c])
      BY <2>1, SettlesSo DEF Settle, Finishing
    <3>2. \A d \in Calls : call[d] \in Settle => held[d] = held[c]
      BY <3>1 DEF OneStory
    <3> QED
      BY <2>1, <3>1, <3>2 DEF Belongs, Archived, Outcomes
  <2>2. CASE call[c] # "remove"
    <3>1. Drawing
      BY <1>0, <2>2 DEF Drawing, Scheduling, Cancelling
    <3> QED
      BY <3>1, SettlesSo DEF OneStory
  <2> QED
    BY <2>1, <2>2
<1>5. ASSUME NEW d \in Calls, call'[d] \in Settle PROVE Tells(held[d], call[d])'
  <2>1. call[d] \in Settle
    BY <1>5, StaysInConcern
  <2>2. Belongs(held[d], call[d])'
    BY <1>0 DEF Belongs
  <2>3. call'[d] = call[d] \/ (call[d] = "remove" /\ call'[d] = "finish")
    BY <1>0, <1>5 DEF Settle, Finishing
  <2> QED
    BY <1>0, <1>4, <1>5, <2>1, <2>2, <2>3, TellsKept
<1>6. ASSUME NEW d \in Calls, call'[d] \in Scheduling PROVE Draws(held[d], call[d])'
  BY <1>0, <1>6, StaysInConcern, DrawsSo DEF Draws
<1>7. RootsAccounted(view)' /\ RootsAccounted(disk)'
  BY <1>0, <1>1, <1>4, RootsTold DEF RootsAccounted, Settled
<1>8. StoresAgree'
  BY <1>0 DEF OneStory, StoresAgree, Outcomes
<1> QED
  BY <1>0, <1>5, <1>6, <1>7, <1>8, StoryKept

LEMMA CreatePreservesStory ==
  ASSUME Frame, Layered, OneStory, RecordsAreSound, NEW c \in Calls, CallFrame(c),
         CreateEffect(c)
  PROVE  OneStory'
<1>0. /\ call[c] \in Scheduling /\ tx = None /\ tx' = held[c]
      /\ UNCHANGED <<history, lineage, requested>>
      /\ view' = Layout(view.root, None, None) /\ disk' = Layout(disk.root, None, None)
      /\ call'[c] \in Scheduling \cup {"idle"}
      /\ \A d \in Calls \ {c} : call'[d] = call[d]
  BY DEF CallFrame, CreateEffect, Scheduling
<1>1. /\ held[c].phase = "Preparing" /\ held[c].id # requested /\ held[c] # None
      /\ history[held[c].id] = None /\ lineage[held[c].id] = None /\ Drawing
  BY <1>0, DrawsSo
<1>2. ASSUME NEW d \in Calls, call'[d] \in Settle PROVE Tells(held[d], call[d])'
  <2>1. call[d] \in Settle /\ held'[d] = held[d] /\ call'[d] = call[d]
    BY <1>0, <1>2, StaysInConcern, ConcernsDiffer
  <2>2. held[d].id # held[c].id
    BY <1>0, <2>1 DEF OneStory
  <2>3. Belongs(held[d], call[d])'
    BY <1>0, <1>1, <2>1, <2>2 DEF Belongs
  <2> QED
    BY <1>0, <1>1, <1>2, <2>1, <2>3, SettlesSo, TellsKept
<1>3. ASSUME NEW d \in Calls, call'[d] \in Scheduling PROVE Draws(held[d], call[d])'
  BY <1>0, <1>1, <1>3, StaysInConcern, DrawsSo DEF Draws
<1>4. (tx # None => NothingElseTold(tx) /\ (Drawing => Archived(tx)))'
  BY <1>0, <1>1 DEF NothingElseTold, Archived, Outcomes
<1>5. RootsAccounted(view)' /\ RootsAccounted(disk)'
  <2>1. Settled(view.root) /\ Settled(disk.root) /\ Settled(None)
    BY <1>0, NoneIsNoValue, RootsTold DEF NotInFlight, Settled
  <2> QED
    BY <1>0, <2>1 DEF RootsAccounted, Settled, Layout
<1>6. StoresAgree'
  BY <1>0 DEF OneStory, StoresAgree, Outcomes
<1> QED
  BY <1>2, <1>3, <1>4, <1>5, <1>6, StoryKept

LEMMA ArmPreservesStory ==
  ASSUME Frame, Layered, OneStory, RecordsAreSound, NEW c \in Calls, CallFrame(c), ArmEffect(c)
  PROVE  OneStory'
<1>0. /\ call[c] \in Scheduling /\ call[c] \notin {"idle", "record"}
      /\ tx' = Transition(held[c], "Armed")
      /\ UNCHANGED <<history, lineage, requested, view, disk>>
      /\ call'[c] \in Scheduling \cup {"idle"}
      /\ \A d \in Calls \ {c} : call'[d] = call[d]
  BY DEF CallFrame, ArmEffect, Scheduling
<1>1. /\ held[c].id # requested /\ held[c].id \in TxIds
      /\ history[held[c].id] = None /\ lineage[held[c].id] = None /\ Drawing
  BY <1>0, DrawsSo
<1>2. tx'.phase = "Armed" /\ tx'.id = held[c].id /\ tx' # None
  <2>1. held[c] = NewTransaction(held[c].id) /\ held[c] \in Transaction
    BY <1>0, DrawsSo DEF RecordsAreSound
  <2> QED
    BY <1>0, <2>1, TransitionType, PhaseTypes, NoneIsNoRecord DEF Transition, Transaction
<1>3. ASSUME NEW d \in Calls, call'[d] \in Settle PROVE Tells(held[d], call[d])'
  <2>1. call[d] \in Settle /\ held'[d] = held[d] /\ call'[d] = call[d]
    BY <1>0, <1>3, StaysInConcern, ConcernsDiffer
  <2>2. held[d].id # held[c].id
    BY <1>0, <2>1 DEF OneStory
  <2>3. Belongs(held[d], call[d])'
    BY <1>0, <1>1, <1>2, <2>1, <2>2 DEF Belongs
  <2> QED
    BY <1>0, <1>1, <1>3, <2>1, <2>3, SettlesSo, TellsKept
<1>4. ASSUME NEW d \in Calls, call'[d] \in Scheduling PROVE Draws(held[d], call[d])'
  BY <1>0, <1>2, <1>4, StaysInConcern, DrawsSo DEF Draws
<1>5. (tx # None => NothingElseTold(tx) /\ (Drawing => Archived(tx)))'
  BY <1>0, <1>1, <1>2 DEF NothingElseTold, Archived, Outcomes
<1>6. RootsAccounted(view)' /\ RootsAccounted(disk)'
  <2>1. NotInFlight /\ (tx # None => Archived(tx))
    BY <1>0, <1>1, MeetsNoFlight DEF OneStory
  <2> QED
    BY <1>0, <2>1, RootsTold DEF RootsAccounted, Settled
<1>7. StoresAgree'
  BY <1>0 DEF OneStory, StoresAgree, Outcomes
<1> QED
  BY <1>3, <1>4, <1>5, <1>6, <1>7, StoryKept

LEMMA OutcomePreservesStory ==
  ASSUME Frame, Layered, OneStory, NEW c \in Calls, CallFrame(c), OutcomeEffect(c)
  PROVE  OneStory'
<1>0. /\ call[c] = "record" /\ call[c] \in Settle /\ tx # None /\ tx' = held[c]
      /\ UNCHANGED <<history, lineage, requested, view, disk>>
      /\ call'[c] \in {"idle", Finish(held[c])}
      /\ \A d \in Calls \ {c} : call'[d] = call[d]
  BY DEF CallFrame, OutcomeEffect, Settle
<1>1. /\ NothingElseTold(held[c]) /\ Belongs(held[c], "record") /\ held[c] # None
      /\ tx = None \/ tx.id # held[c].id \/ Drawing => Archived(held[c])
      /\ held[c].phase \in Terminal /\ held[c].id \in TxIds
  BY <1>0, SettlesSo
<1>2. /\ \A d \in Calls : call[d] \in Settle => held[d] = held[c]
      /\ \A d \in Calls : call[d] \in Scheduling => held[d].id # held[c].id
  BY <1>0 DEF OneStory
<1>3. ASSUME NEW d \in Calls, call'[d] \in Settle PROVE Tells(held[d], call[d])'
  <2>1. /\ call[d] \in Settle /\ held'[d] = held[d] /\ held[d] = held[c]
        /\ call'[d] = call[d] \/ (call[d] = "record" /\ call'[d] = Finish(held[d]))
    BY <1>0, <1>2, <1>3, StaysInConcern, ConcernsDiffer
  <2>2. Belongs(held[d], call[d])'
    BY <1>0, <2>1 DEF Belongs
  <2> QED
    BY <1>0, <1>1, <1>3, <2>1, <2>2, TellsKept
<1>4. ASSUME NEW d \in Calls, call'[d] \in Scheduling PROVE Draws(held[d], call[d])'
  BY <1>0, <1>2, <1>4, StaysInConcern, DrawsSo DEF Draws
<1>5. (tx # None => NothingElseTold(tx) /\ (Drawing => Archived(tx)))'
  BY <1>0, <1>1, StaysInConcern DEF NothingElseTold, Archived, Outcomes
<1>6. ASSUME NEW l, RootsAccounted(l)
      PROVE  /\ Settled(l.old)
             /\ Settled(l.root) \/ (held[c].id = l.root /\ held[c].phase = "Confirmed")
  <2>1. CASE Settled(l.root)
    BY <1>6, <2>1 DEF RootsAccounted
  <2>2. CASE tx.id = l.root /\ tx.phase \in InFlight \cup {"Confirmed"}
    <3>1. \/ tx = held[c]
          \/ tx.phase = "BootedUnconfirmed" /\ held[c] = Transition(tx, "Confirmed")
      BY <1>0, <1>1, <2>2 DEF Belongs, InFlight
    <3>2. CASE tx = held[c]
      BY <1>1, <1>6, <2>2, <3>2 DEF RootsAccounted, InFlight, Terminal
    <3>3. CASE held[c] = Transition(tx, "Confirmed")
      <4>1. tx \in Transaction
        BY <1>0 DEF Frame, TypeOK
      <4>2. held[c].id = tx.id /\ held[c].phase = "Confirmed"
        BY <3>3, <4>1, PhaseTypes, TransitionType DEF Transition, Transaction
      <4> QED
        BY <1>6, <2>2, <4>2 DEF RootsAccounted
    <3> QED
      BY <3>1, <3>2, <3>3
  <2> QED
    BY <1>6, <2>1, <2>2 DEF RootsAccounted
<1>7. RootsAccounted(view)' /\ RootsAccounted(disk)'
  BY <1>0, <1>1, <1>6 DEF OneStory, RootsAccounted, Settled
<1>8. StoresAgree'
  BY <1>0 DEF OneStory, StoresAgree, Outcomes
<1> QED
  BY <1>3, <1>4, <1>5, <1>7, <1>8, StoryKept

\* The record of a call that tells its story, if it is the pending one's rollback.
LEMMA TellsOfPending ==
  ASSUME Frame, OneStory, NEW c \in Calls, call[c] \in Settle, call[c] # "record",
         tx # None, tx.id = held[c].id
  PROVE  tx = held[c]
BY SettlesSo DEF Belongs

LEMMA LineagePreservesStory ==
  ASSUME Frame, OneStory, NEW c \in Calls, CallFrame(c), LineageEffect(c)
  PROVE  OneStory'
<1> DEFINE h == held[c]
<1>0. /\ call[c] = "lineage" /\ call[c] \in Settle /\ lineage[h.id] \in {None, h.phase}
      /\ lineage' = [lineage EXCEPT ![h.id] = h.phase]
      /\ call'[c] \in {"idle", IF h.phase = "Confirmed" THEN "delete_old" ELSE "clear"}
      /\ UNCHANGED <<tx, history, view, disk, requested>>
      /\ \A d \in Calls \ {c} : call'[d] = call[d]
  BY DEF CallFrame, LineageEffect, Settle
<1>1. /\ \A d \in Calls : call[d] \in Settle => held[d] = h
      /\ \A d \in Calls : call[d] \in Scheduling => held[d].id # h.id
  BY <1>0 DEF OneStory
<1>2. /\ lineage'[h.id] = h.phase /\ \A i \in TxIds \ {h.id} : lineage'[i] = lineage[i]
      /\ h.id \in TxIds /\ h.phase \in Outcomes
  BY <1>0, SettlesSo DEF Frame, TypeOK, CallsRun, Fits
<1>3. ASSUME NEW d \in Calls, call'[d] \in Settle PROVE Tells(held[d], call[d])'
  <2>1. /\ call[d] \in Settle /\ held'[d] = h /\ held[d] = h /\ (Drawing' => Drawing)
        /\ call'[d] = call[d] \/ (call[d] = "lineage" /\ call'[d] \in {"delete_old", "clear"})
        /\ call'[d] = call[d] \/ call'[d] # "delete_old" \/ h.phase = "Confirmed"
    BY <1>0, <1>1, <1>3, StaysInConcern, ConcernsDiffer
  <2>2. Belongs(held[d], call[d])'
    <3>1. Belongs(held[d], call[d]) /\ (call'[d] = call[d] \/ call[d] # "record")
      BY <2>1, SettlesSo
    <3> QED
      BY <1>0, <2>1, <3>1, BelongsKept
  <2>3. NothingElseTold(held[d])'
    BY <1>0, <1>2, <2>1, SettlesSo DEF NothingElseTold
  <2>4. (tx = None \/ tx.id # held[d].id \/ Drawing => Archived(held[d]))'
    BY <1>0, <2>1, SettlesSo DEF Archived, Outcomes
  <2>5. /\ call'[d] \in {"remove", "finish"} => history[h.id] = h.phase
        /\ call'[d] = "delete_old" => h.phase = "Confirmed"
    BY <2>1, SettlesSo
  <2> QED
    BY <1>0, <1>2, <2>1, <2>2, <2>3, <2>4, <2>5 DEF Tells, Outcomes
<1>4. ASSUME NEW d \in Calls, call'[d] \in Scheduling PROVE Draws(held[d], call[d])'
  <2>1. call[d] \in Scheduling /\ held'[d] = held[d] /\ held[d].id # h.id
    BY <1>1, <1>4, StaysInConcern
  <2> QED
    BY <1>0, <1>2, <2>1, DrawsSo DEF Draws
<1>5. (tx # None => NothingElseTold(tx) /\ (Drawing => Archived(tx)))'
  <2> SUFFICES ASSUME tx # None
               PROVE  NothingElseTold(tx)' /\ (Drawing => Archived(tx))'
    BY <1>0
  <2>1. NothingElseTold(tx) /\ (Drawing => Archived(tx)) /\ (Drawing' => Drawing)
    BY StaysInConcern DEF OneStory
  <2>2. tx.id \in TxIds /\ (tx.id = h.id => tx.phase = h.phase)
    BY <1>0, TellsOfPending DEF Frame, TypeOK, Transaction
  <2> QED
    BY <1>0, <1>2, <2>1, <2>2 DEF NothingElseTold, Archived, Outcomes
<1>6. RootsAccounted(view)' /\ RootsAccounted(disk)'
  BY <1>0 DEF OneStory, RootsAccounted, Settled
<1>7. StoresAgree'
  <2>1. history[h.id] \in {None, h.phase}
    BY <1>0, SettlesSo DEF NothingElseTold
  <2> QED
    BY <1>0, <1>2, <2>1, NoneIsNoOutcome DEF OneStory, StoresAgree, Outcomes
<1> QED
  BY <1>3, <1>4, <1>5, <1>6, <1>7, StoryKept

LEMMA DeletePreservesStory ==
  ASSUME Frame, Layered, OneStory, NEW c \in Calls, CallFrame(c), DeleteEffect(c)
  PROVE  OneStory'
<1>0. /\ call[c] = "delete_old" /\ call[c] \in Settle /\ call'[c] \in {"idle", "clear"}
      /\ UNCHANGED <<tx, history, lineage, requested>>
      /\ view' \in {view, Layout(view.root, None, view.new)} /\ disk' \in {disk, view'}
      /\ \A d \in Calls \ {c} : call'[d] = call[d]
  BY DEF CallFrame, DeleteEffect, Settle
<1>1. ASSUME NEW d \in Calls, call'[d] \in Settle PROVE Tells(held[d], call[d])'
  <2>1. /\ call[d] \in Settle /\ held'[d] = held[d] /\ (Drawing' => Drawing)
        /\ call'[d] = call[d] \/ (call[d] = "delete_old" /\ call'[d] = "clear")
    BY <1>0, <1>1, StaysInConcern, ConcernsDiffer
  <2>2. Belongs(held[d], call[d])'
    <3>1. Belongs(held[d], call[d]) /\ (call'[d] = call[d] \/ call[d] # "record")
      BY <2>1, SettlesSo
    <3> QED
      BY <1>0, <2>1, <3>1, BelongsKept
  <2>3. NothingElseTold(held[d])'
    BY <1>0, <2>1, SettlesSo DEF NothingElseTold
  <2>4. (tx = None \/ tx.id # held[d].id \/ Drawing => Archived(held[d]))'
    BY <1>0, <2>1, SettlesSo DEF Archived, Outcomes
  <2>5. /\ call'[d] \in {"remove", "finish"} => history[held[d].id] = held[d].phase
        /\ call'[d] = "delete_old" => held[d].phase = "Confirmed"
        /\ call'[d] \notin {"record", "lineage"} /\ held[d].phase \in Outcomes =>
             lineage[held[d].id] = held[d].phase
    BY <2>1, SettlesSo
  <2> QED
    BY <1>0, <2>1, <2>2, <2>3, <2>4, <2>5 DEF Tells, Outcomes
<1>2. ASSUME NEW d \in Calls, call'[d] \in Scheduling PROVE Draws(held[d], call[d])'
  BY <1>0, <1>2, StaysInConcern, DrawsSo DEF Draws
<1>3. (tx # None => NothingElseTold(tx) /\ (Drawing => Archived(tx)))'
  BY <1>0, StaysInConcern DEF OneStory, NothingElseTold, Archived, Outcomes
<1>4. RootsAccounted(view)' /\ RootsAccounted(disk)'
  <2>1. RootsAccounted(view) /\ RootsAccounted(disk) /\ Settled(None)
    BY NoneIsNoValue DEF OneStory, Settled
  <2>2. RootsAccounted(view)'
    BY <1>0, <2>1 DEF RootsAccounted, Settled, Layout
  <2>3. CASE disk' = view'
    BY <2>2, <2>3 DEF RootsAccounted, Settled
  <2>4. CASE disk' = disk
    <3>1. UNCHANGED <<tx, history>>
      BY <1>0
    <3> QED
      BY <2>1, <2>2, <2>4, <3>1 DEF RootsAccounted, Settled
  <2> QED
    BY <1>0, <2>2, <2>3, <2>4
<1>5. StoresAgree'
  BY <1>0 DEF OneStory, StoresAgree, Outcomes
<1> QED
  BY <1>1, <1>2, <1>3, <1>4, <1>5, StoryKept

LEMMA ArchivePreservesStory ==
  ASSUME Frame, OneStory, NEW c \in Calls, CallFrame(c), ArchiveEffect(c)
  PROVE  OneStory'
<1> DEFINE h == held[c]
<1>0. /\ call[c] = "archive" /\ call[c] \in Settle /\ call'[c] \in {"idle", "remove"}
      /\ history' = [history EXCEPT ![h.id] = h.phase]
      /\ UNCHANGED <<tx, lineage, view, disk, requested>>
      /\ \A d \in Calls \ {c} : call'[d] = call[d]
  BY DEF CallFrame, ArchiveEffect, Settle, Finishing
<1>1. /\ \A d \in Calls : call[d] \in Settle => held[d] = h
      /\ \A d \in Calls : call[d] \in Scheduling => held[d].id # h.id
  BY <1>0 DEF OneStory
<1>2. /\ history'[h.id] = h.phase /\ \A i \in TxIds \ {h.id} : history'[i] = history[i]
      /\ h.id \in TxIds /\ h.phase \in Terminal /\ history[h.id] \in {None, h.phase}
      /\ h.phase \in Outcomes => lineage[h.id] = h.phase
  BY <1>0, SettlesSo DEF Frame, TypeOK, NothingElseTold
<1>3. ASSUME NEW d \in Calls, call'[d] \in Settle PROVE Tells(held[d], call[d])'
  <2>1. /\ call[d] \in Settle /\ held'[d] = h /\ held[d] = h
        /\ call'[d] = call[d] \/ (call[d] = "archive" /\ call'[d] = "remove")
    BY <1>0, <1>1, <1>3, StaysInConcern, ConcernsDiffer
  <2>2. Belongs(held[d], call[d])'
    <3>1. Belongs(held[d], call[d]) /\ (call'[d] = call[d] \/ call[d] # "record")
      BY <2>1, SettlesSo
    <3> QED
      BY <1>0, <2>1, <3>1, BelongsKept
  <2>3. NothingElseTold(held[d])'
    BY <1>0, <1>2, <2>1, SettlesSo DEF NothingElseTold
  <2>4. Archived(held[d])'
    BY <1>2, <2>1 DEF Archived
  <2>5. /\ call'[d] \notin {"record", "lineage"} /\ h.phase \in Outcomes => lineage[h.id] = h.phase
        /\ call'[d] = "delete_old" => h.phase = "Confirmed"
    BY <2>1, SettlesSo
  <2> QED
    BY <1>0, <1>2, <2>1, <2>2, <2>3, <2>4, <2>5 DEF Tells, Outcomes
<1>4. ASSUME NEW d \in Calls, call'[d] \in Scheduling PROVE Draws(held[d], call[d])'
  <2>1. call[d] \in Scheduling /\ held'[d] = held[d] /\ held[d].id # h.id
    BY <1>1, <1>4, StaysInConcern
  <2> QED
    BY <1>0, <1>2, <2>1, DrawsSo DEF Draws
<1>5. (tx # None => NothingElseTold(tx) /\ (Drawing => Archived(tx)))'
  <2> SUFFICES ASSUME tx # None
               PROVE  NothingElseTold(tx)' /\ (Drawing => Archived(tx))'
    BY <1>0
  <2>1. NothingElseTold(tx) /\ (Drawing => Archived(tx)) /\ (Drawing' => Drawing)
    BY StaysInConcern DEF OneStory
  <2>2. tx.id \in TxIds /\ (tx.id = h.id => tx.phase = h.phase)
    BY <1>0, TellsOfPending DEF Frame, TypeOK, Transaction
  <2> QED
    BY <1>0, <1>2, <2>1, <2>2 DEF NothingElseTold, Archived, Outcomes
<1>6. ASSUME NEW s, Settled(s) PROVE Settled(s)'
  BY <1>2, <1>6, NoneIsNoOutcome DEF Settled, Terminal
<1>7. RootsAccounted(view)' /\ RootsAccounted(disk)'
  BY <1>0, <1>6 DEF OneStory, RootsAccounted
<1>8. StoresAgree'
  BY <1>0, <1>2 DEF OneStory, StoresAgree, Outcomes
<1> QED
  BY <1>3, <1>4, <1>5, <1>7, <1>8, StoryKept

LEMMA CallPreservesStory ==
  ASSUME Frame, Layered, RecordsAreSound, OneStory, NEW c \in Calls, CallFrame(c), CallEffect(c)
  PROVE  OneStory'
BY RestPreservesStory, RemovePreservesStory, CreatePreservesStory, ArmPreservesStory,
   OutcomePreservesStory, LineagePreservesStory, DeletePreservesStory, ArchivePreservesStory
   DEF CallEffect

(***************************************************************************)
(* Calls that start.                                                       *)
(***************************************************************************)
\* All that is left to show of a call c that starts.
LEMMA StoryStarts ==
  ASSUME OneStory, NEW c \in Calls, UNCHANGED <<tx, history, lineage, view, disk, requested>>,
         \A d \in Calls \ {c} : call'[d] = call[d] /\ held'[d] = held[d],
         call[c] = "idle",
         Drawing' => Drawing \/ call'[c] \in Scheduling \cup Cancelling,
         Drawing' => \A d \in Calls : call[d] \in Settle => Archived(held[d]),
         tx # None /\ Drawing' => Archived(tx),
         Tells(held[c], call[c])', Draws(held[c], call[c])',
         call'[c] \in Settle => \A d \in Calls \ {c} : call[d] \in Settle => held[d] = held'[c],
         call'[c] \in Settle =>
           \A d \in Calls \ {c} : call[d] \in Scheduling => held[d].id # held'[c].id,
         call'[c] \in Scheduling =>
           \A d \in Calls \ {c} : call[d] \in Settle => held[d].id # held'[c].id
  PROVE  OneStory'
<1>1. Scheduling' = Scheduling /\ Settle' = Settle
  BY DEF Scheduling, Settle, Finishing
<1>2. ASSUME NEW d \in Calls PROVE Tells(held[d], call[d])' /\ Draws(held[d], call[d])'
  <2>1. CASE d = c
    BY <2>1
  <2>2. CASE d # c
    <3>1. /\ held'[d] = held[d] /\ call'[d] = call[d]
          /\ Tells(held[d], call[d]) /\ Draws(held[d], call[d])
      BY <2>2 DEF OneStory
    <3>2. Draws(held[d], call[d])'
      BY <1>1, <3>1 DEF Draws
    <3>3. CASE call[d] \notin Settle
      BY <1>1, <3>1, <3>2, <3>3 DEF Tells
    <3>4. CASE call[d] \in Settle
      <4>1. Belongs(held[d], call[d]) /\ NothingElseTold(held[d])
        BY <3>1, <3>4 DEF Tells
      <4>2. Belongs(held[d], call[d])' /\ NothingElseTold(held[d])'
        BY <3>1, <4>1 DEF Belongs, NothingElseTold
      <4>3. (tx = None \/ tx.id # held[d].id \/ Drawing => Archived(held[d]))'
        BY <3>1, <3>4 DEF Tells, Archived, Outcomes
      <4> QED
        BY <3>1, <3>2, <3>4, <4>2, <4>3 DEF Tells, Outcomes
    <3> QED
      BY <3>3, <3>4
  <2> QED
    BY <2>1, <2>2
<1>3. \A d, e \in Calls :
        /\ call'[d] \in Settle /\ call'[e] \in Settle => held'[d] = held'[e]
        /\ call'[d] \in Settle /\ call'[e] \in Scheduling => held'[d].id # held'[e].id
  <2> SUFFICES ASSUME NEW d \in Calls, NEW e \in Calls
               PROVE  /\ call'[d] \in Settle /\ call'[e] \in Settle => held'[d] = held'[e]
                      /\ call'[d] \in Settle /\ call'[e] \in Scheduling =>
                           held'[d].id # held'[e].id
    OBVIOUS
  <2>1. CASE d = c /\ e = c
    BY <2>1, ConcernsDiffer
  <2>2. CASE d = c /\ e # c
    BY <2>2
  <2>3. CASE d # c /\ e = c
    BY <2>3
  <2>4. CASE d # c /\ e # c
    BY <2>4 DEF OneStory
  <2> QED
    BY <2>1, <2>2, <2>3, <2>4
<1>4. (tx # None => NothingElseTold(tx) /\ (Drawing => Archived(tx)))'
  BY DEF OneStory, NothingElseTold, Archived, Outcomes
<1>5. RootsAccounted(view)' /\ RootsAccounted(disk)' /\ StoresAgree'
  BY DEF OneStory, RootsAccounted, Settled, StoresAgree, Outcomes
<1> QED
  BY <1>1, <1>2, <1>3, <1>4, <1>5 DEF OneStory

\* Whether a call draws can change only with the call that starts.
LEMMA DrawingStarts ==
  ASSUME NEW c \in Calls, \A d \in Calls \ {c} : call'[d] = call[d]
  PROVE  Drawing' => Drawing \/ call'[c] \in Scheduling \cup Cancelling
BY DEF Drawing, Scheduling, Cancelling

LEMMA SchedulePreservesStory ==
  ASSUME Frame, IdsAreIssued, OneStory, NEW c \in Calls, ScheduleEffect(c)
  PROVE  OneStory'
<1>1. PICK i \in TxIds \ issued : tx = None /\ StartFrame(c, NewTransaction(i), "create")
  BY DEF ScheduleEffect
<1>2. /\ UNCHANGED <<tx, history, lineage, view, disk, requested>> /\ call[c] = "idle"
      /\ call'[c] = "create" /\ held'[c] = NewTransaction(i)
      /\ \A d \in Calls \ {c} : call'[d] = call[d] /\ held'[d] = held[d]
  BY <1>1 DEF StartFrame
<1>3. held'[c].id = i /\ "create" \in Scheduling /\ "create" \notin Settle
  BY <1>2, NewTransactionSound DEF Scheduling, Settle, Finishing
<1>4. i # requested /\ history[i] = None /\ lineage[i] = None
  BY NoneIsNoValue DEF IdsAreIssued
<1>5. Tells(held[c], call[c])' /\ Draws(held[c], call[c])'
  <2>1. Settle' = Settle
    BY DEF Settle, Finishing
  <2> QED
    BY <1>1, <1>2, <1>3, <1>4, <2>1 DEF Tells, Draws
<1>6. \A d \in Calls : call[d] \in Settle => Archived(held[d]) /\ held[d].id # i
  BY <1>1, SettlesSo DEF IdsAreIssued
<1> QED
  BY <1>1, <1>2, <1>3, <1>5, <1>6, DrawingStarts, StoryStarts

LEMMA CancelPreservesStory ==
  ASSUME Frame, OneStory, NEW c \in Calls, CancelEffect(c)
  PROVE  OneStory'
<1>1. /\ tx \in Transaction /\ tx.phase \in {"Preparing", "Armed"} /\ tx # None
      /\ StartFrame(c, held[c], "cancel_clear")
  BY NoneIsNoRecord DEF CancelEffect
<1>2. /\ UNCHANGED <<tx, history, lineage, view, disk, requested>> /\ call[c] = "idle"
      /\ call'[c] = "cancel_clear"
      /\ \A d \in Calls \ {c} : call'[d] = call[d] /\ held'[d] = held[d]
  BY <1>1 DEF StartFrame
<1>3. "cancel_clear" \notin Scheduling /\ "cancel_clear" \notin Settle
  BY DEF Scheduling, Settle, Finishing
<1>4. Tells(held[c], call[c])' /\ Draws(held[c], call[c])'
  <2>1. Settle' = Settle /\ Scheduling' = Scheduling
    BY DEF Settle, Finishing, Scheduling
  <2> QED
    BY <1>2, <1>3, <2>1 DEF Tells, Draws
<1>5. Archived(tx)
  BY <1>1 DEF Archived, Outcomes
<1>6. ASSUME NEW d \in Calls, call[d] \in Settle PROVE Archived(held[d])
  <2>1. /\ Belongs(held[d], call[d]) /\ held[d].phase \in Terminal
        /\ tx.id # held[d].id => Archived(held[d])
    BY <1>6, SettlesSo
  <2>2. RecordFailure(tx).phase = "Failed"
    BY <1>1, FailureType
  <2> QED
    BY <1>1, <2>1, <2>2 DEF Belongs, Archived, Outcomes, Terminal
<1> QED
  BY <1>1, <1>2, <1>3, <1>4, <1>5, <1>6, DrawingStarts, StoryStarts

LEMMA ReconcilePreservesStory ==
  ASSUME Frame, Layered, OneStory, NEW c \in Calls, ReconcileEffect(c)
  PROVE  OneStory'
<1>0. tx \in Transaction /\ tx # None /\ tx.id \in TxIds
  BY NoneIsNoRecord DEF ReconcileEffect, Transaction
<1>1. /\ UNCHANGED <<tx, history, lineage, view, disk, requested>> /\ call[c] = "idle"
      /\ call'[c] \in Settle \ (Scheduling \cup Cancelling)
      /\ \A d \in Calls \ {c} : call'[d] = call[d] /\ held'[d] = held[d]
  BY ConcernsDiffer DEF ReconcileEffect, StartFrame, Settle, Finishing, Finish
<1>2. Drawing' => Drawing
  BY <1>1, DrawingStarts
<1>3. Scheduling' = Scheduling /\ Settle' = Settle
  BY DEF Scheduling, Settle, Finishing
<1>4. NothingElseTold(tx) /\ (Drawing => Archived(tx))
  BY <1>0 DEF OneStory
<1>5. \A d \in Calls : call[d] \in Settle =>
        Belongs(held[d], call[d]) /\ held[d].phase \in Terminal /\ (Drawing => Archived(held[d]))
  BY SettlesSo
<1>6. \A d \in Calls : call[d] \in Scheduling =>
        /\ held[d].id # requested
        /\ tx.id = held[d].id => tx.phase \in {"Preparing", "Armed"}
  BY <1>0, DrawsSo
<1>7. Draws(held[c], call[c])'
  BY <1>1, <1>3 DEF Draws
<1>8. \/ /\ tx.phase = "Armed" /\ requested = tx.id
         /\ held'[c] = RecordFailure(tx) /\ call'[c] = "record"
      \/ /\ tx.phase = "BootedUnconfirmed"
         /\ held'[c] = Transition(tx, "Confirmed") /\ call'[c] = "record"
      \/ /\ tx.phase \in Terminal /\ held'[c] = tx /\ call'[c] = Finish(tx)
  BY DEF ReconcileEffect, StartFrame
<1>9. /\ RecordFailure(tx).phase = "Failed" /\ RecordFailure(tx).id = tx.id
      /\ Transition(tx, "Confirmed").phase = "Confirmed"
      /\ Transition(tx, "Confirmed").id = tx.id
  BY <1>0, FailureType, TransitionType, PhaseTypes DEF RecordFailure, Transition, Transaction
<1>10. /\ held'[c].id = tx.id
       /\ \A d \in Calls \ {c} : call[d] \in Settle => held[d] = held'[c]
       /\ \A d \in Calls \ {c} : call[d] \in Scheduling => held[d].id # held'[c].id
       /\ NothingElseTold(held'[c])
       /\ Drawing => Archived(held'[c])
       /\ Belongs(held[c], call[c])'
       /\ call'[c] = "record" \/ call'[c] = "lineage" \/ held'[c].phase = "Failed"
       /\ call'[c] \in {"record", "lineage", "clear"}
  <2>1. CASE /\ tx.phase = "Armed" /\ requested = tx.id
             /\ held'[c] = RecordFailure(tx) /\ call'[c] = "record"
    <3>1. history[tx.id] = None /\ lineage[tx.id] = None
      BY <1>0, <1>4, <2>1, NothingTold DEF Terminal
    <3>2. \A d \in Calls \ {c} : call[d] \in Settle => held[d] = held'[c]
      BY <1>0, <1>5, <2>1 DEF Belongs, Terminal
    <3>3. Belongs(held[c], call[c])'
      BY <1>1, <2>1 DEF Belongs
    <3> QED
      BY <1>6, <1>9, <2>1, <3>1, <3>2, <3>3 DEF NothingElseTold, Archived, Outcomes
  <2>2. CASE /\ tx.phase = "BootedUnconfirmed"
             /\ held'[c] = Transition(tx, "Confirmed") /\ call'[c] = "record"
    <3>1. history[tx.id] = None /\ lineage[tx.id] = None
      BY <1>0, <1>4, <2>2, NothingTold DEF Terminal
    <3>2. \A d \in Calls \ {c} : call[d] \in Settle => held[d] = held'[c]
      BY <1>0, <1>5, <2>2 DEF Belongs, Terminal
    <3>3. Belongs(held[c], call[c])'
      BY <1>1, <2>2 DEF Belongs
    <3>4. ~Drawing
      BY <1>0, <2>2, ConcernsDiffer
         DEF Layered, CallsMeetNoFlight, NotInFlight, InFlight, Drawing, Scheduling, Cancelling
    <3> QED
      BY <1>6, <1>9, <2>2, <3>1, <3>2, <3>3, <3>4 DEF NothingElseTold
  <2>3. CASE tx.phase \in Terminal /\ held'[c] = tx /\ call'[c] = Finish(tx)
    <3>1. \A d \in Calls \ {c} : call[d] \in Settle => held[d] = held'[c]
      BY <1>0, <1>5, <2>3 DEF Belongs, Terminal
    <3>2. Belongs(held[c], call[c])'
      BY <1>1, <2>3 DEF Belongs
    <3> QED
      BY <1>4, <1>6, <2>3, <3>1, <3>2 DEF Terminal, Finish
  <2> QED
    BY <1>8, <2>1, <2>2, <2>3
<1>11. Tells(held[c], call[c])'
  <2>1. NothingElseTold(held[c])'
    BY <1>1, <1>10 DEF NothingElseTold
  <2>2. (tx = None \/ tx.id # held[c].id \/ Drawing => Archived(held[c]))'
    BY <1>0, <1>1, <1>2, <1>10 DEF Archived, Outcomes
  <2> QED
    BY <1>10, <2>1, <2>2 DEF Tells, Outcomes
<1> QED
  BY <1>1, <1>2, <1>4, <1>5, <1>7, <1>10, <1>11, StoryStarts

LEMMA NextPreservesStory ==
  ASSUME Grounded, OneStory, StepEffect
  PROVE  OneStory'
BY BootPreservesStory, EnginePreservesStory, CallPreservesStory, SchedulePreservesStory,
   CancelPreservesStory, ReconcilePreservesStory, AsidePreservesStory
   DEF StepEffect, Grounded

\* The whole invariant is inductive: what the interleaved steps of the engine, of
\* any number of calls and of power cuts keep true together.
THEOREM InvariantHolds == Spec => []IInv
<1>1. Init => Grounded /\ OneStory
  BY InitGrounded, InitStory
<1>2. Grounded /\ OneStory /\ [Next]_vars => (Grounded /\ OneStory)'
  <2> SUFFICES ASSUME Grounded, OneStory, [Next]_vars PROVE Grounded' /\ OneStory'
    OBVIOUS
  <2>1. StepEffect
    BY NextEffect DEF Grounded
  <2> QED
    BY <2>1, NextPreservesGrounded, NextPreservesStory
<1>3. Grounded /\ OneStory => IInv
  BY DEF Grounded, Frame, Layered, CoreInv, IInv
<1> QED
  BY <1>1, <1>2, <1>3, PTL DEF Spec

(***************************************************************************)
(* What follows.                                                           *)
(***************************************************************************)
\* Whatever crash repeats whichever step of the confirmation, a rollback archived as
\* confirmed or reverted has that outcome in the lineage store as well.
THEOREM StoresAlwaysAgree == Spec => []StoresAgree
<1>1. IInv => StoresAgree
  BY DEF IInv, OneStory
<1> QED
  BY <1>1, InvariantHolds, PTL

\* With no rollback pending, the running system is the installed one or a target
\* archived as confirmed, and nothing half-made lies beside it.
THEOREM OutcomeAlwaysMatchesRoot == Spec => []OutcomeMatchesRoot
<1>1. IInv => OutcomeMatchesRoot
  BY DEF IInv, LayoutsAreSound, LayoutFits, OneStory, RootsAccounted, Settled,
         OutcomeMatchesRoot
<1> QED
  BY <1>1, InvariantHolds, PTL

\* An action property need only be shown of a step's effect.
LEMMA InvariantGrounds == IInv => Grounded /\ OneStory
BY DEF IInv, CoreInv, Grounded, Frame, Layered

LEMMA StepsHaveEffect ==
  ASSUME Grounded, [Next]_vars
  PROVE  StepEffect
BY NextEffect DEF Grounded

LEMMA SuccessorsAre ==
  /\ "Armed" \in Successors("Preparing")
  /\ {"Applying", "Failed"} \subseteq Successors("Armed")
  /\ {"BootedUnconfirmed", "Reverting"} \subseteq Successors("Applying")
  /\ {"Confirmed", "Reverting"} \subseteq Successors("BootedUnconfirmed")
  /\ "Reverted" \in Successors("Reverting")
<1>1. Successors("Preparing") = {"Armed", "Failed"}
  BY Zenon DEF Successors
<1>2. Successors("Armed") = {"Applying", "Failed"}
  BY Zenon DEF Successors
<1>3. Successors("Applying") = {"BootedUnconfirmed", "Reverting", "Failed"}
  BY Zenon DEF Successors
<1>4. Successors("BootedUnconfirmed") = {"Confirmed", "Reverting"}
  BY Zenon DEF Successors
<1>5. Successors("Reverting") = {"Reverted", "Failed"}
  BY Zenon DEF Successors
<1> QED
  BY <1>1, <1>2, <1>3, <1>4, <1>5

\* A record that replaces the pending one of the same rollback is in a phase that
\* follows its own.
LEMMA StepFollowsTable ==
  ASSUME Grounded, OneStory, StepEffect, tx # None, tx' # None, tx'.id = tx.id,
         tx'.phase # tx.phase
  PROVE  CanTransition(tx, tx'.phase)
<1> USE SuccessorsAre DEF CanTransition
<1>0. Frame /\ tx \in Transaction
  BY DEF Grounded, Frame, TypeOK
<1>1. CASE BootEffect \/ AsideEffect
  BY <1>1 DEF BootEffect, AsideEffect
<1>2. CASE EngineOnly /\ EngineEffect
  BY <1>2 DEF EngineEffect, EngineRests, EngineResumes, EngineEnters, EngineStarts, EngineMoves,
              EngineSyncs, EngineNotes, EngineLands, BecomesRecord
<1>3. ASSUME NEW c \in Calls, CallFrame(c), CallEffect(c) PROVE CanTransition(tx, tx'.phase)
  <2>1. CASE ArmEffect(c)
    <3>1. call[c] \in Scheduling /\ tx' = Transition(held[c], "Armed")
      BY <2>1 DEF ArmEffect, Scheduling
    <3>2. tx'.phase = "Armed" /\ tx'.id = held[c].id
      BY <1>0, <3>1, DrawsSo, TransitionType, PhaseTypes DEF Transition, Transaction
    <3>3. tx.phase \in {"Preparing", "Armed"}
      BY <1>0, <3>1, <3>2, DrawsSo
    <3> QED
      BY <3>2, <3>3
  <2>2. CASE OutcomeEffect(c)
    <3>1. call[c] \in Settle /\ tx' = held[c]
      BY <2>2 DEF OutcomeEffect, Settle
    <3>2. \/ tx.phase = "Armed" /\ tx' = RecordFailure(tx)
          \/ tx.phase = "BootedUnconfirmed" /\ tx' = Transition(tx, "Confirmed")
      BY <1>0, <3>1, SettlesSo DEF Belongs
    <3>3. /\ RecordFailure(tx).phase = "Failed"
          /\ Transition(tx, "Confirmed").phase = "Confirmed"
      BY <1>0, FailureType, TransitionType, PhaseTypes
    <3> QED
      BY <3>2, <3>3
  <2> QED
    BY <1>3, <2>1, <2>2
       DEF CallEffect, RestEffect, RemoveEffect, CreateEffect, LineageEffect, DeleteEffect,
           ArchiveEffect
<1>4. CASE \E c \in Calls : ScheduleEffect(c) \/ CancelEffect(c) \/ ReconcileEffect(c)
  BY <1>4 DEF ScheduleEffect, CancelEffect, ReconcileEffect, StartFrame
<1> QED
  BY <1>1, <1>2, <1>3, <1>4 DEF StepEffect

\* Although the engine, the confirmation and any number of calls write the pending
\* file from copies in memory, a rollback only ever moves along can_transition_to.
THEOREM PhasesAlwaysFollowTable == Spec => PhasesFollowTable
<1>1. IInv /\ [Next]_vars =>
        [tx # None /\ tx' # None /\ tx'.id = tx.id /\ tx'.phase # tx.phase
           => CanTransition(tx, tx'.phase)]_vars
  BY InvariantGrounds, StepsHaveEffect, StepFollowsTable
<1> QED
  BY <1>1, InvariantHolds, PTL DEF Spec, PhasesFollowTable

\* An outcome that is told is told again the same way or not at all.
LEMMA StepRetellsNothing ==
  ASSUME Grounded, OneStory, StepEffect, NEW i \in TxIds
  PROVE  /\ history[i] # None => history'[i] = history[i]
         /\ lineage[i] # None => lineage'[i] = lineage[i]
<1>0. Frame /\ history \in [TxIds -> Terminal \cup {None}]
            /\ lineage \in [TxIds -> Outcomes \cup {None}]
  BY DEF Grounded, Frame, TypeOK
<1>1. CASE UNCHANGED <<history, lineage>>
  BY <1>1
<1>2. ASSUME NEW c \in Calls, LineageEffect(c)
      PROVE  /\ history[i] # None => history'[i] = history[i]
             /\ lineage[i] # None => lineage'[i] = lineage[i]
  BY <1>0, <1>2 DEF LineageEffect
<1>3. ASSUME NEW c \in Calls, ArchiveEffect(c)
      PROVE  /\ history[i] # None => history'[i] = history[i]
             /\ lineage[i] # None => lineage'[i] = lineage[i]
  <2>1. history[held[c].id] \in {None, held[c].phase}
    BY <1>0, <1>3, SettlesSo DEF ArchiveEffect, Settle, Finishing, NothingElseTold
  <2> QED
    BY <1>0, <1>3, <2>1 DEF ArchiveEffect
<1>4. \/ UNCHANGED <<history, lineage>>
      \/ \E c \in Calls : LineageEffect(c) \/ ArchiveEffect(c)
  BY DEF StepEffect, BootEffect, EngineOnly, CallEffect, RestEffect, RemoveEffect, CreateEffect,
         ArmEffect, OutcomeEffect, DeleteEffect, ScheduleEffect, CancelEffect, ReconcileEffect,
         StartFrame, AsideEffect
<1> QED
  BY <1>1, <1>2, <1>3, <1>4

\* However often a crash or a second call makes reconcile start over, what history
\* and lineage say of a rollback is never rewritten.
THEOREM OutcomesAlwaysFinal == Spec => OutcomesAreFinal
<1>1. IInv /\ [Next]_vars =>
        [\A i \in TxIds : /\ history[i] # None => history'[i] = history[i]
                          /\ lineage[i] # None => lineage'[i] = lineage[i]]_vars
  BY InvariantGrounds, StepsHaveEffect, StepRetellsNothing
<1> QED
  BY <1>1, InvariantHolds, PTL DEF Spec, OutcomesAreFinal

LEMMA StepKeepsOldRoot ==
  ASSUME Grounded, OneStory, StepEffect,
         view.old # None, view'.old = None, view'.root # view.old, power = "user"
  PROVE  tx = None \/ (tx.phase = "Confirmed" /\ lineage[tx.id] = "Confirmed")
<1>0. Frame /\ Layered /\ LayoutsAreSound
  BY DEF Grounded
<1>1. CASE BootEffect
  <2>1. view' \in {view, disk} /\ disk.old = None /\ view'.root = disk.root
    BY <1>1 DEF BootEffect
  <2>2. ~NotInFlight
    BY <1>0, <2>1 DEF LayoutsAreSound
  <2>3. Committed(view) = view.old /\ Committed(disk) = disk.root
    BY <2>1, <2>2 DEF NotInFlight, Committed
  <2> QED
    BY <1>0, <2>1, <2>3 DEF Layered, CommittedSystemSurvives
<1>2. ASSUME NEW c \in Calls, CallFrame(c), DeleteEffect(c), tx # None
      PROVE  tx.phase = "Confirmed" /\ lineage[tx.id] = "Confirmed"
  <2>1. call[c] = "delete_old" /\ call[c] \in Settle
    BY <1>2 DEF DeleteEffect, Settle
  <2>2. /\ Belongs(held[c], call[c]) /\ held[c].phase = "Confirmed"
        /\ lineage[held[c].id] = "Confirmed"
    BY <1>0, <2>1, SettlesSo DEF Outcomes
  <2>3. tx.phase \notin {"Preparing", "Armed"}
    BY <1>0, <1>2 DEF Layered, NothingProtectedYet
  <2> QED
    BY <1>2, <2>1, <2>2, <2>3 DEF Belongs
<1>3. ASSUME NEW c \in Calls, CallFrame(c), CallEffect(c), ~DeleteEffect(c) PROVE tx = None
  BY <1>3 DEF CallEffect, RestEffect, RemoveEffect, CreateEffect, ArmEffect, OutcomeEffect,
              LineageEffect, ArchiveEffect
<1>4. CASE \/ \E c \in Calls : ScheduleEffect(c) \/ CancelEffect(c) \/ ReconcileEffect(c)
           \/ AsideEffect \/ EngineOnly
  BY <1>4 DEF ScheduleEffect, CancelEffect, ReconcileEffect, StartFrame, AsideEffect, EngineOnly
<1> QED
  BY <1>1, <1>2, <1>3, <1>4 DEF StepEffect

\* The confirmation deletes the protected old root only once the outcome is durable
\* in the record and in the lineage, and nothing else ever does in userspace.
THEOREM OldRootAlwaysOutlivesDoubt == Spec => OldRootOutlivesDoubt
<1>1. IInv /\ [Next]_vars =>
        [view.old # None /\ view'.old = None /\ view'.root # view.old /\ power = "user"
           => tx = None \/ (tx.phase = "Confirmed" /\ lineage[tx.id] = "Confirmed")]_vars
  BY InvariantGrounds, StepsHaveEffect, StepKeepsOldRoot
<1> QED
  BY <1>1, InvariantHolds, PTL DEF Spec, OldRootOutlivesDoubt

(***************************************************************************)
(* One call at a time.  What follows fails when calls race, and TLC shows  *)
(* how: a call replaces or removes the record of another.                  *)
(***************************************************************************)
OneCall == \A c, d \in Calls : c = d

\* The pending record a lone call at step s, with record h, finds.
Finds(h, s) ==
  /\ s \in Scheduling => tx = None \/ tx.id = h.id
  /\ s \in Cancelling => tx = None \/ tx.phase \in {"Preparing", "Armed"}
  /\ s \in Settle \ {"finish"} => tx # None /\ tx.id = h.id
  /\ s = "record" /\ h.phase = "Confirmed" => h.applying_boot_id = boot

Alone == \A c \in Calls : Finds(held[c], call[c])

LEMMA InitAlone == Init => Alone
BY ConcernsDiffer DEF Init, Alone, Finds, Settle

LEMMA NextPreservesAlone ==
  ASSUME OneCall, Grounded, OneStory, Alone, StepEffect
  PROVE  Alone'
<1>0. /\ Frame /\ RecordsAreSound
      /\ Scheduling' = Scheduling /\ Cancelling' = Cancelling /\ Settle' = Settle
  BY DEF Grounded, Scheduling, Cancelling, Settle, Finishing
<1>1. CASE \A c \in Calls : call'[c] = "idle"
  BY <1>0, <1>1, ConcernsDiffer DEF Alone, Finds, Settle
<1>2. CASE AsideEffect
  BY <1>0, <1>2 DEF AsideEffect, Alone, Finds
<1>3. ASSUME NEW c \in Calls, CallFrame(c), CallEffect(c) PROVE Alone'
  <2>0. /\ Finds(held[c], call[c]) /\ boot' = boot
        /\ \/ call'[c] = "idle"
           \/ SameConcern(call[c], call'[c]) /\ held'[c] = held[c]
    BY <1>3 DEF Alone, CallFrame
  <2>1. call'[c] # "record"
    BY <1>3, <2>0 DEF CallFrame, CallEffect, RestEffect, RemoveEffect, CreateEffect, ArmEffect,
                      OutcomeEffect, LineageEffect, DeleteEffect, ArchiveEffect, Scheduling,
                      Settle, Finish
  <2>2. \/ tx' = tx /\ (call'[c] \in Settle => call[c] # "finish")
        \/ tx' = None /\ (call'[c] \in Settle => call'[c] = "finish")
        \/ tx' # None /\ tx'.id = held[c].id /\ call[c] \notin Cancelling
    <3>1. CASE RestEffect(c) \/ LineageEffect(c) \/ DeleteEffect(c) \/ ArchiveEffect(c)
      BY <3>1 DEF RestEffect, LineageEffect, DeleteEffect, ArchiveEffect
    <3>2. CASE RemoveEffect(c)
      BY <3>2 DEF RemoveEffect, Settle, Finishing
    <3>3. CASE CreateEffect(c) \/ OutcomeEffect(c)
      <4>1. tx' = held[c] /\ call[c] \in {"create", "record"}
        BY <3>3 DEF CreateEffect, OutcomeEffect
      <4> QED
        BY <1>0, <4>1, DrawsSo, SettlesSo DEF Scheduling, Settle, Cancelling
    <3>4. CASE ArmEffect(c)
      <4>1. call[c] \in Scheduling /\ tx' = Transition(held[c], "Armed")
        BY <3>4 DEF ArmEffect, Scheduling
      <4> QED
        BY <1>0, <4>1, DrawsSo, TransitionType, PhaseTypes, NoneIsNoRecord, ConcernsDiffer
           DEF Transition, Transaction
    <3> QED
      BY <1>3, <3>1, <3>2, <3>3, <3>4 DEF CallEffect
  <2>3. Finds(held[c], call[c])'
    BY <1>0, <2>0, <2>1, <2>2, ConcernsDiffer DEF Finds, SameConcern
  <2> QED
    BY <2>3 DEF OneCall, Alone
<1>4. ASSUME NEW c \in Calls, ScheduleEffect(c) \/ CancelEffect(c) \/ ReconcileEffect(c)
      PROVE  Alone'
  <2>1. CASE ScheduleEffect(c)
    <3>1. tx' = None /\ call'[c] = "create"
      BY <2>1 DEF ScheduleEffect, StartFrame
    <3>2. Finds(held[c], call[c])'
      BY <1>0, <3>1 DEF Finds, Settle, Finishing
    <3> QED
      BY <3>2 DEF OneCall, Alone
  <2>2. CASE CancelEffect(c)
    <3>1. tx' = tx /\ tx.phase \in {"Preparing", "Armed"} /\ call'[c] = "cancel_clear"
      BY <2>2 DEF CancelEffect, StartFrame
    <3>2. Finds(held[c], call[c])'
      BY <1>0, <3>1 DEF Finds, Settle, Finishing, Scheduling
    <3> QED
      BY <3>2 DEF OneCall, Alone
  <2>3. CASE ReconcileEffect(c)
    <3>0. tx \in Transaction /\ tx # None
      BY <2>3, NoneIsNoRecord DEF ReconcileEffect
    <3>1. /\ tx' = tx /\ boot' = boot /\ call'[c] \in Settle /\ held'[c].id = tx.id
          /\ call'[c] = "record" /\ held'[c].phase = "Confirmed" =>
               held'[c].applying_boot_id = boot
      <4>1. /\ RecordFailure(tx).phase = "Failed" /\ RecordFailure(tx).id = tx.id
            /\ Transition(tx, "Confirmed").id = tx.id
            /\ Transition(tx, "Confirmed").applying_boot_id = tx.applying_boot_id
        BY <3>0, FailureType, TransitionType, PhaseTypes
           DEF RecordFailure, Transition, Transaction
      <4> QED
        BY <2>3, <4>1 DEF ReconcileEffect, StartFrame, Settle, Finishing, Finish
    <3>2. Finds(held[c], call[c])'
      BY <1>0, <3>0, <3>1, ConcernsDiffer DEF Finds
    <3> QED
      BY <3>2 DEF OneCall, Alone
  <2> QED
    BY <1>4, <2>1, <2>2, <2>3
<1> QED
  BY <1>1, <1>2, <1>3, <1>4 DEF StepEffect, BootEffect, EngineOnly

LEMMA LoneCallFinds ==
  ASSUME OneCall
  PROVE  Spec => [](IInv /\ Alone)
<1>1. Init => Alone
  BY InitAlone
<1>2. IInv /\ Alone /\ [Next]_vars => Alone'
  BY InvariantGrounds, StepsHaveEffect, NextPreservesAlone
<1> QED
  BY <1>1, <1>2, InvariantHolds, PTL DEF Spec

LEMMA StepConfirms ==
  ASSUME Grounded, OneStory, Alone, StepEffect,
         tx' # None, tx'.phase = "Confirmed", tx = None \/ tx.phase # "Confirmed"
  PROVE  /\ tx # None /\ tx.id = tx'.id
         /\ power = "user" /\ boot = tx.applying_boot_id /\ view.root = tx.id
<1>0. Frame /\ tx \in Transaction \cup {None}
  BY DEF Grounded, Frame, TypeOK
<1>1. PICK c \in Calls : CallFrame(c) /\ OutcomeEffect(c)
  <2>1. ASSUME NEW c \in Calls, CreateEffect(c) \/ ArmEffect(c) PROVE tx'.phase # "Confirmed"
    BY <1>0, <2>1, DrawsSo, TransitionType, PhaseTypes DEF CreateEffect, ArmEffect, Scheduling
  <2> QED
    BY <1>0, <2>1
       DEF StepEffect, BootEffect, EngineOnly, EngineEffect, EngineRests, EngineResumes,
           EngineEnters, EngineStarts, EngineMoves, EngineSyncs, EngineNotes, EngineLands,
           BecomesRecord, CallEffect, RestEffect, RemoveEffect, LineageEffect, DeleteEffect,
           ArchiveEffect, ScheduleEffect, CancelEffect, ReconcileEffect, StartFrame, AsideEffect
<1>2. call[c] = "record" /\ call[c] \in Settle /\ tx' = held[c] /\ tx # None /\ power = "user"
  BY <1>1 DEF OutcomeEffect, CallFrame, Settle
<1>3. tx.id = held[c].id /\ held[c].applying_boot_id = boot /\ held[c].id = view.root
  BY <1>2 DEF Alone, Finds, Grounded, LayoutsAreSound
<1>4. RecordFailure(tx).phase = "Failed"
  BY <1>0, <1>2, FailureType
<1>5. held[c] = Transition(tx, "Confirmed")
  BY <1>0, <1>2, <1>3, <1>4, SettlesSo DEF Belongs
<1>6. held[c].applying_boot_id = tx.applying_boot_id
  BY <1>0, <1>2, <1>5 DEF Transition, Transaction
<1> QED
  BY <1>2, <1>3, <1>6

\* One call at a time, only the boot that applied a rollback confirms it, with its
\* target mounted as @root.
THEOREM OnlyRunningConfirmed ==
  ASSUME OneCall
  PROVE  Spec => ConfirmedOnlyWhenRunning
<1>1. IInv /\ Alone /\ [Next]_vars =>
        [tx' # None /\ tx'.phase = "Confirmed" /\ (tx = None \/ tx.phase # "Confirmed")
         => /\ tx # None /\ tx.id = tx'.id
            /\ power = "user" /\ boot = tx.applying_boot_id
            /\ view.root = tx.id]_vars
  BY InvariantGrounds, StepsHaveEffect, StepConfirms
<1> QED
  BY <1>1, LoneCallFinds, PTL DEF Spec, ConfirmedOnlyWhenRunning

\* What a lone call that removes the pending record finds.
LEMMA RemovesSettled ==
  ASSUME Grounded, OneStory, Alone, NEW c \in Calls, RemoveEffect(c), tx # None
  PROVE  \/ tx.phase \in {"Preparing", "Armed"}
         \/ /\ history[tx.id] = tx.phase /\ tx.phase \in Terminal
            /\ tx.phase \in Outcomes => lineage[tx.id] = tx.phase
<1>0. Frame /\ Finds(held[c], call[c])
  BY DEF Grounded, Alone
<1>1. CASE call[c] = "clean_remove"
  <2>1. call[c] \in Scheduling
    BY <1>1 DEF Scheduling
  <2> QED
    BY <1>0, <2>1, DrawsSo DEF Finds
<1>2. CASE call[c] = "cancel_remove"
  BY <1>0, <1>2 DEF Finds, Cancelling
<1>3. CASE call[c] = "remove"
  <2>1. call[c] \in Settle \ {"finish", "record", "lineage"}
    BY <1>3 DEF Settle, Finishing
  <2>2. tx = held[c]
    BY <1>0, <2>1, TellsOfPending DEF Finds
  <2> QED
    BY <1>0, <1>3, <2>1, <2>2, SettlesSo
<1> QED
  BY <1>1, <1>2, <1>3 DEF RemoveEffect

LEMMA StepArchives ==
  ASSUME Grounded, OneStory, Alone, StepEffect, tx # None, tx' = None \/ tx'.id # tx.id
  PROVE  tx.phase \in {"Preparing", "Armed"} \/ history[tx.id] = tx.phase
<1>0. Frame
  BY DEF Grounded
<1>1. ASSUME NEW c \in Calls, ArmEffect(c) \/ OutcomeEffect(c) PROVE tx' # None /\ tx'.id = tx.id
  <2>1. CASE ArmEffect(c)
    <3>1. call[c] \in Scheduling /\ tx' = Transition(held[c], "Armed")
      BY <2>1 DEF ArmEffect, Scheduling
    <3> QED
      BY <1>0, <3>1, DrawsSo, TransitionType, PhaseTypes, NoneIsNoRecord
         DEF Transition, Transaction, Alone, Finds
  <2>2. CASE OutcomeEffect(c)
    <3>1. call[c] \in Settle \ {"finish"} /\ tx' = held[c]
      BY <2>2 DEF OutcomeEffect, Settle
    <3> QED
      BY <1>0, <3>1, SettlesSo DEF Alone, Finds
  <2> QED
    BY <1>1, <2>1, <2>2
<1>2. PICK c \in Calls : RemoveEffect(c)
  BY <1>1, NoneIsNoRecord
     DEF StepEffect, BootEffect, EngineOnly, EngineEffect, EngineRests, EngineResumes,
         EngineEnters, EngineStarts, EngineMoves, EngineSyncs, EngineNotes, EngineLands,
         BecomesRecord, CallEffect, RestEffect, CreateEffect, LineageEffect, DeleteEffect,
         ArchiveEffect, ScheduleEffect, CancelEffect, ReconcileEffect, StartFrame, AsideEffect
<1> QED
  BY <1>2, RemovesSettled

\* One call at a time, a record that leaves the pending file has touched no root or
\* is in the history with its outcome.
THEOREM AlwaysArchivedFirst ==
  ASSUME OneCall
  PROVE  Spec => ArchivedBeforeRemoved
<1>1. IInv /\ Alone /\ [Next]_vars =>
        [tx # None /\ (tx' = None \/ tx'.id # tx.id) =>
           \/ tx.phase \in {"Preparing", "Armed"}
           \/ history[tx.id] = tx.phase]_vars
  BY InvariantGrounds, StepsHaveEffect, StepArchives
<1> QED
  BY <1>1, LoneCallFinds, PTL DEF Spec, ArchivedBeforeRemoved

(***************************************************************************)
(* The abstract switch.                                                    *)
(***************************************************************************)
Same ==
  /\ Committed(view)' = Committed(view) /\ Pending' = Pending /\ Switched' = Switched

\* What the pending record and the lineage say of the switch.
LEMMA SameRecord ==
  ASSUME UNCHANGED lineage, tx' # None, tx # None, tx'.id = tx.id,
         tx'.phase # "Confirmed" /\ tx.phase # "Confirmed"
  PROVE  /\ Switched' = Switched
         /\ tx.phase \notin Terminal => Pending = tx.id
         /\ tx'.phase \notin Terminal => Pending' = tx.id
         /\ tx'.phase \in Terminal => Pending' = None
BY DEF Switched, Pending, Terminal

LEMMA MoveCommits ==
  ASSUME NEW l, NEW i, NEW m, m \in ApplyMoves(l, i) \/ m \in RevertMoves(l)
  PROVE  (IF m.to.old # None THEN m.to.old ELSE m.to.root) =
           (IF l.old # None THEN l.old ELSE l.root)
<1>1. CASE m \in ApplyMoves(l, i)
  BY <1>1, ApplyMoveShape DEF Move, Layout
<1>2. CASE m \in RevertMoves(l)
  BY <1>2, RevertMoveShape DEF Move, Layout
<1> QED
  BY <1>1, <1>2

LEMMA EngineSwitches ==
  ASSUME Grounded, EngineOnly, EngineEffect
  PROVE  Same \/ (Committed(view)' = Committed(view) /\ Switched' = Switched
                  /\ Pending # None /\ Pending' = None)
<1> USE DEF Same
<1>0. /\ Frame /\ Layered /\ LayoutsAreSound /\ UNCHANGED lineage
      /\ tx \in Transaction => tx # None /\ tx.id # None
  BY NoneIsNoRecord, NoneIsNoValue DEF Grounded, EngineOnly, Transaction
<1>1. CASE EngineRests \/ EngineResumes \/ EngineSyncs
  <2>1. tx' = tx /\ view' = view
    BY <1>1 DEF EngineRests, EngineResumes, EngineSyncs
  <2> QED
    BY <1>0, <2>1 DEF Committed, Pending, Switched
<1>2. CASE EngineMoves
  <2>1. /\ tx' = tx /\ tx # None /\ tx.phase \in InFlight
    BY <1>0, <1>2 DEF EngineMoves, InFlight
  <2>2. PICK m \in Moves : view' \in {view, m.to}
    BY <1>2 DEF EngineMoves
  <2>3. Committed(view)' = Committed(view)
    <3>1. m \in ApplyMoves(view, tx.id) \/ m \in RevertMoves(view)
      BY <2>2 DEF Moves
    <3> QED
      BY <2>1, <2>2, <3>1, MoveCommits DEF Committed
  <2> QED
    BY <1>0, <2>1, <2>3 DEF Pending, Switched
<1>3. CASE EngineEnters \/ EngineStarts \/ EngineNotes \/ EngineLands
  <2>1. /\ tx \in Transaction /\ tx' # None /\ tx'.id = tx.id /\ view' = view
        /\ tx.phase \in {"Armed", "Applying", "BootedUnconfirmed", "Reverting"}
        /\ \/ tx'.phase \in InFlight
           \/ tx'.phase = "Armed" /\ tx.phase = "Armed"
           \/ tx'.phase = "Failed" /\ tx.phase = "Armed"
           \/ tx'.phase = "Reverted" /\ tx.phase = "Reverting" /\ pc = "loop" /\ Converged
    BY <1>3, NoneIsNoRecord
       DEF EngineEnters, EngineStarts, EngineNotes, EngineLands, BecomesRecord, InFlight
  <2>2. Committed(view)' = Committed(view)
    <3>1. CASE tx.phase = "Armed"
      BY <1>0, <2>1, <3>1 DEF Layered, NothingProtectedYet, Committed, InFlight
    <3>2. CASE tx.phase # "Armed" /\ tx'.phase \in InFlight
      BY <1>0, <2>1, <3>2 DEF Committed, InFlight
    <3>3. CASE tx'.phase = "Reverted" /\ tx.phase = "Reverting" /\ Converged
      <4>1. (tx.phase = "Applying") = FALSE
        BY <3>3
      <4>2. Present(view) = <<TRUE, FALSE, FALSE>>
        BY <3>3, <4>1 DEF Converged
      <4>3. view.old = None
        BY <4>2 DEF Present
      <4> QED
        BY <1>0, <2>1, <4>3 DEF Committed
    <3> QED
      BY <2>1, <3>1, <3>2, <3>3
  <2> QED
    BY <1>0, <2>1, <2>2, SameRecord DEF InFlight, Terminal
<1> QED
  BY <1>1, <1>2, <1>3 DEF EngineEffect

\* Outside a rollback in flight the committed system is the mounted one.
LEMMA RecordAtRest ==
  ASSUME view'.root = view.root, NotInFlight, NotInFlight'
  PROVE  Committed(view)' = Committed(view)
BY DEF NotInFlight, Committed

LEMMA CreateSwitches ==
  ASSUME Grounded, OneStory, NEW c \in Calls, CallFrame(c), CreateEffect(c)
  PROVE  Switch!Begin
<1>0. Frame /\ call[c] \in Scheduling
  BY DEF Grounded, CreateEffect, Scheduling
<1>1. /\ tx = None /\ tx' # None /\ tx'.phase = "Preparing" /\ tx'.id \in TxIds
      /\ lineage[tx'.id] = None /\ lineage' = lineage
  BY <1>0, DrawsSo DEF CreateEffect
<1>2. view'.root = view.root
  BY DEF CreateEffect, Layout
<1>3. Committed(view)' = Committed(view)
  BY <1>1, <1>2, RecordAtRest DEF NotInFlight, InFlight
<1>4. Switched' = Switched /\ tx'.id \notin Switched
  BY <1>1, NoneIsNoOutcome DEF Switched, Outcomes
<1>5. Pending = None /\ Pending' = tx'.id
  BY <1>1 DEF Pending, Terminal
<1> QED
  BY <1>1, <1>3, <1>4, <1>5 DEF Switch!Begin

LEMMA RemoveSwitches ==
  ASSUME Grounded, OneStory, Alone, NEW c \in Calls, CallFrame(c), RemoveEffect(c)
  PROVE  Same \/ Switch!Abandon
<1>1. /\ tx' = None /\ lineage' = lineage /\ view' = view
      /\ call[c] # "idle" /\ call[c] # "record"
  BY DEF RemoveEffect
<1>2. Committed(view)' = Committed(view)
  BY <1>1, MeetsNoFlight, RecordAtRest DEF NotInFlight, Grounded
<1>3. CASE tx = None
  BY <1>1, <1>2, <1>3 DEF Same, Pending, Switched
<1>4. CASE tx # None /\ tx.phase \in {"Preparing", "Armed"}
  <2>1. tx.id # None
    BY <1>4, NoneIsNoValue DEF Grounded, Frame, TypeOK, Transaction
  <2> QED
    BY <1>1, <1>2, <1>4, <2>1 DEF Switch!Abandon, Pending, Switched, Terminal
<1>5. CASE tx # None /\ tx.phase \in Terminal /\ (tx.phase \in Outcomes => lineage[tx.id] = tx.phase)
  <2>1. Pending' = Pending
    BY <1>1, <1>5 DEF Pending
  <2>2. Switched' = Switched
    BY <1>1, <1>5 DEF Switched, Outcomes
  <2> QED
    BY <1>2, <2>1, <2>2 DEF Same
<1> QED
  BY <1>3, <1>4, <1>5, RemovesSettled

LEMMA ArmSwitches ==
  ASSUME Grounded, OneStory, Alone, NEW c \in Calls, CallFrame(c), ArmEffect(c)
  PROVE  Same
<1>0. Frame /\ call[c] \in Scheduling
  BY DEF Grounded, ArmEffect, Scheduling
<1>1. /\ tx # None /\ tx' = Transition(held[c], "Armed") /\ view' = view /\ lineage' = lineage
      /\ call[c] # "idle" /\ call[c] # "record"
  BY DEF ArmEffect
<1>2. tx' # None /\ tx'.id = held[c].id /\ tx'.phase = "Armed"
  BY <1>0, <1>1, DrawsSo, TransitionType, PhaseTypes, NoneIsNoRecord DEF Transition, Transaction
<1>3. tx.id = tx'.id /\ tx.phase \in {"Preparing", "Armed"}
  BY <1>0, <1>1, <1>2, DrawsSo DEF Alone, Finds
<1>4. Committed(view)' = Committed(view)
  BY <1>1, <1>2, <1>3, RecordAtRest DEF NotInFlight, InFlight
<1> QED
  BY <1>1, <1>2, <1>3, <1>4, SameRecord DEF Same, Terminal

\* The write that records the outcome of a confirmation is the commit.
LEMMA OutcomeSwitches ==
  ASSUME Grounded, OneStory, Alone, NEW c \in Calls, CallFrame(c), OutcomeEffect(c)
  PROVE  Same \/ Switch!Commit \/ Switch!Abandon
<1>0. Frame /\ call[c] \in Settle \ {"finish"} /\ LayoutsAreSound /\ RecordsAreSound
  BY DEF Grounded, OutcomeEffect, Settle
<1>1. /\ tx # None /\ tx' = held[c] /\ view' = view /\ lineage' = lineage /\ call[c] = "record"
      /\ tx \in Transaction
  BY <1>0 DEF OutcomeEffect, Frame, TypeOK
<1>2. tx.id = tx'.id /\ tx' # None /\ tx.id # None /\ tx.id \in TxIds
  BY <1>0, <1>1, SettlesSo, NoneIsNoValue DEF Alone, Finds, Transaction
<1>3. \/ tx' = tx
      \/ tx.phase = "Armed" /\ tx' = RecordFailure(tx)
      \/ tx.phase = "BootedUnconfirmed" /\ tx' = Transition(tx, "Confirmed")
  BY <1>0, <1>1, <1>2, SettlesSo DEF Belongs
<1>4. CASE tx' = tx
  BY <1>1, <1>4 DEF Same, Committed, Pending, Switched
<1>5. CASE tx.phase = "Armed" /\ tx' = RecordFailure(tx)
  <2>1. tx'.phase = "Failed"
    BY <1>1, <1>5, FailureType
  <2>2. Committed(view)' = Committed(view)
    BY <1>1, <1>5, <2>1, RecordAtRest DEF NotInFlight, InFlight
  <2> QED
    BY <1>1, <1>2, <1>5, <2>1, <2>2, SameRecord DEF Switch!Abandon, Terminal
<1>6. CASE tx.phase = "BootedUnconfirmed" /\ tx' = Transition(tx, "Confirmed")
  <2>1. tx'.phase = "Confirmed"
    BY <1>1, <1>6, TransitionType, PhaseTypes
  <2>2. Pending = tx.id /\ Pending' = None
    BY <1>1, <1>2, <1>6, <2>1 DEF Pending, Terminal
  <2>3. Switched' = Switched \cup {tx.id}
    BY <1>1, <1>2, <1>6, <2>1 DEF Switched
  <2>4. AtPhase(tx) /\ LayoutFits(view, tx)
    BY <1>0, <1>1 DEF RecordsAreSound, SoundRecord, LayoutsAreSound
  <2>5. view.root = tx.id
    BY <1>1, <1>6, <2>4, BootedInPlace
  <2>6. Committed(view)' = tx.id
    BY <1>1, <2>1, <2>5 DEF Committed, InFlight
  <2> QED
    BY <1>2, <2>2, <2>3, <2>6 DEF Switch!Commit
<1> QED
  BY <1>3, <1>4, <1>5, <1>6

LEMMA TellingSwitches ==
  ASSUME Grounded, OneStory, Alone, NEW c \in Calls, CallFrame(c), LineageEffect(c)
  PROVE  Same
<1>0. Frame /\ call[c] \in Settle \ {"finish", "record"}
  BY DEF Grounded, LineageEffect, Settle
<1>1. tx' = tx /\ view' = view /\ lineage' = [lineage EXCEPT ![held[c].id] = held[c].phase]
  BY DEF LineageEffect
<1>2. tx # None /\ tx = held[c]
  BY <1>0, TellsOfPending DEF Alone, Finds
<1>3. Switched' = Switched
  <2>1. lineage \in [TxIds -> Outcomes \cup {None}]
    BY <1>0 DEF Frame, TypeOK
  <2>2. lineage[tx.id] \in {None, tx.phase}
    BY <1>2 DEF LineageEffect
  <2> QED
    BY <1>1, <1>2, <2>1, <2>2, NoneIsNoOutcome DEF Switched, Outcomes
<1> QED
  BY <1>1, <1>3 DEF Same, Committed, Pending

LEMMA StepSwitches ==
  ASSUME Grounded, OneStory, Alone, StepEffect
  PROVE  Same \/ Switch!Next
<1> USE DEF Switch!Next
<1>1. CASE BootEffect
  <2>1. view' \in {view, disk} /\ tx' = tx /\ lineage' = lineage
    BY <1>1 DEF BootEffect
  <2>2. Committed(view) = Committed(disk)
    BY DEF Grounded, Layered, CommittedSystemSurvives
  <2> QED
    BY <2>1, <2>2 DEF Same, Committed, Pending, Switched
<1>2. CASE EngineOnly /\ EngineEffect
  BY <1>2, EngineSwitches DEF Switch!Abandon
<1>3. ASSUME NEW c \in Calls, CallFrame(c), CallEffect(c) PROVE Same \/ Switch!Next
  <2>1. CASE RestEffect(c) \/ ArchiveEffect(c)
    BY <2>1 DEF RestEffect, ArchiveEffect, Same, Committed, Pending, Switched
  <2>2. CASE DeleteEffect(c)
    <3>1. view'.root = view.root /\ tx' = tx /\ lineage' = lineage
      BY <2>2 DEF DeleteEffect, Layout
    <3>2. NotInFlight
      BY <1>3, <2>2, MeetsNoFlight DEF Grounded, DeleteEffect
    <3>3. Committed(view)' = Committed(view)
      BY <3>1, <3>2, RecordAtRest DEF NotInFlight
    <3> QED
      BY <3>1, <3>3 DEF Same, Pending, Switched
  <2> QED
    BY <1>3, <2>1, <2>2, CreateSwitches, RemoveSwitches, ArmSwitches, OutcomeSwitches,
       TellingSwitches DEF CallEffect
<1>4. CASE (\E c \in Calls : ScheduleEffect(c) \/ CancelEffect(c) \/ ReconcileEffect(c))
           \/ AsideEffect
  BY <1>4 DEF ScheduleEffect, CancelEffect, ReconcileEffect, StartFrame, AsideEffect,
              Same, Committed, Pending, Switched
<1> QED
  BY <1>1, <1>2, <1>3, <1>4 DEF StepEffect

LEMMA InitSwitches == Init => Switch!Init
BY NoneIsNoOutcome DEF Init, Switch!Init, Committed, Pending, Switched, Layout, Outcomes

\* One call at a time, the machine implements AtomicSwitch: whatever is interrupted,
\* the committed system changes only when the pending rollback is confirmed, in that
\* one step, to the target of that rollback, and for each rollback once.
THEOREM SwitchAlwaysAtomic ==
  ASSUME OneCall
  PROVE  Spec => SwitchIsAtomic
<1>1. IInv /\ Alone /\ [Next]_vars => [Switch!Next]_<<Committed(view), Pending, Switched>>
  <2> SUFFICES ASSUME IInv, Alone, [Next]_vars
               PROVE  Same \/ Switch!Next
    BY DEF Same
  <2> QED
    BY InvariantGrounds, StepsHaveEffect, StepSwitches
<1> QED
  BY <1>1, InitSwitches, LoneCallFinds, PTL DEF Spec, SwitchIsAtomic, Switch!Spec
=============================================================================
