------------------------------ MODULE WindowProofs -----------------------------
(*****************************************************************************)
(* What the windows of the snapshot manager show and recover, proved of      *)
(* Programs for all values of the constants: what is recovered is whole      *)
(* (FileRecovery), what a page shows is current and its restart is asked for *)
(* once (SnapshotPage), and the window of a long task presents its own run   *)
(* (TaskDialog). For each there is an inductive invariant, a lemma for each  *)
(* action, and one that what it promises follows.                            *)
(*****************************************************************************)
EXTENDS Programs, FiniteSetTheorems, SequenceTheorems, TLAPS

(*****************************************************************************)
(* The browser of the past and its recoveries (FileRecovery).                *)
(*****************************************************************************)
RunSteps == {"idle", "choosing", "authorizing", "exporting", "writing", "creating", "filling", "cleaning"}
RecoveryRun == [at : RunSteps, kind : {"none", "file", "folder"}, from : Recovery!Folders, to : Recovery!Copies]
FolderContent == [by : Viewers \cup {"user", "none"}, of : Recovery!Folders \cup {"none"}, whole : BOOLEAN]

ViewType ==
  /\ view \in [Viewers -> {"new", "asking", "open", "closed"}] /\ lease \subseteq Viewers /\ parent \in BOOLEAN
  /\ release \in [Viewers -> {"none", "calling", "failed"}]

WindowType ==
  /\ position \in [Viewers -> Recovery!Folders]
  /\ rows \in [Viewers -> Recovery!Folders \cup {"loading", "failed"}]
  /\ generation \in [Viewers -> Nat] /\ listing \subseteq Viewers \X Nat \X Recovery!Folders
  /\ ViewType

\* Only the last listing that was asked for can answer, and it is of the folder the window is in.
RowsFit ==
  /\ \A v \in Viewers : rows[v] \in Recovery!Folders => rows[v] = position[v]
  /\ \A v \in Viewers, n \in Nat, f \in Recovery!Folders : <<v, n, f>> \in listing =>
       n <= generation[v] /\ (n = generation[v] => f = position[v])

\* Only windows that need a token ask for one; the token of a window that is closed is being released.
LeaseFits ==
  /\ \A v \in lease : view[v] = "open" \/ release[v] # "none" \/ ~parent
  /\ lease \subseteq Secured /\ \A v \in Viewers : view[v] = "asking" => v \in Secured

WorkType ==
  /\ recovery \in [Viewers -> RecoveryRun] /\ outcome \in [Viewers -> {"none", "failed", "recovered"}]
  /\ destination \in FolderContent /\ folders \in [Recovery!Copies -> FolderContent] /\ killed \in BOOLEAN

Incomplete == {"filling", "cleaning"}

\* A run works on a folder of its own until it has told what became of it.
RunFitsIn(v) ==
  LET r == recovery[v] IN
  /\ r.at # "idle" => outcome[v] = "none"
  /\ r.at \in {"exporting", "writing"} => r.kind = "file"
  /\ r.at \in Incomplete => folders[r.to] = Recovery!Of(v, r.from, FALSE)
  /\ outcome[v] = "recovered" =>
       \/ r.kind = "file" /\ destination.by \in Viewers
       \/ folders[r.to] = Recovery!Of(v, r.from, TRUE)
       \/ killed

\* An incomplete folder has somebody who works on it, or says that it is there.
FolderFits(n) ==
  ~folders[n].whole =>
    \/ killed \/ n \in admitted
    \/ /\ folders[n].by \in Viewers
       /\ recovery[folders[n].by].at \in Incomplete /\ recovery[folders[n].by].to = n

WindowInv == WindowType /\ RowsFit /\ LeaseFits
WorkInv == WorkType /\ destination.whole /\ (\A v \in Viewers : RunFitsIn(v)) /\ \A n \in Recovery!Copies : FolderFits(n)
FileInv == WindowInv /\ WorkInv

LEMMA RecoveryBounds == MostRecoveries \in Nat /\ Recovery!Copies = 0 .. MostRecoveries
BY ProgramsConstants DEF Recovery!RecoveryConstants, Recovery!Copies

LEMMA WindowRests == WindowInv /\ UNCHANGED <<Recovery!Outside, parent>> => WindowInv'
BY DEF Recovery!Outside, WindowInv, WindowType, ViewType, RowsFit, LeaseFits

LEMMA WorkRests == WorkInv /\ UNCHANGED <<recovery, outcome, destination, folders, admitted, killed>> => WorkInv'
<1> SUFFICES ASSUME WorkInv, UNCHANGED <<recovery, outcome, destination, folders, admitted, killed>> PROVE WorkInv'
  OBVIOUS
<1>1. WorkType' /\ destination'.whole
  BY DEF WorkInv, WorkType
<1>2. \A v \in Viewers : RunFitsIn(v)'
  BY DEF WorkInv, RunFitsIn
<1>3. \A n \in Recovery!Copies : FolderFits(n)'
  BY DEF WorkInv, FolderFits
<1> QED
  BY <1>1, <1>2, <1>3 DEF WorkInv, Recovery!Copies

LEMMA WindowLeavesWork == Recovery!Window => UNCHANGED <<recovery, outcome, destination, folders, admitted, killed, parent>>
BY DEF Recovery!Window, Recovery!Disk, Recovery!Rest

(*****************************************************************************)
(* The window.                                                               *)
(*****************************************************************************)
RowsType ==
  /\ position \in [Viewers -> Recovery!Folders]
  /\ rows \in [Viewers -> Recovery!Folders \cup {"loading", "failed"}]
  /\ generation \in [Viewers -> Nat] /\ listing \subseteq Viewers \X Nat \X Recovery!Folders

LEMMA RowsRest == WindowInv /\ Recovery!NoLoading => RowsType' /\ RowsFit'
BY DEF WindowInv, WindowType, RowsType, RowsFit, Recovery!NoLoading

LEMMA LoadingKeeps ==
  ASSUME WindowInv, NEW v \in Viewers, NEW f \in Recovery!Folders, Recovery!LoadDirectory(v, f)
  PROVE  RowsType' /\ RowsFit'
<1> DEFINE number == generation[v] + 1
<1>1. number \in Nat
  BY DEF WindowInv, WindowType
<1>2. generation' = [generation EXCEPT ![v] = number] /\ position' = [position EXCEPT ![v] = f]
      /\ rows' = [rows EXCEPT ![v] = "loading"] /\ listing' = listing \cup {<<v, generation'[v], f>>}
  BY DEF Recovery!LoadDirectory
<1>3. generation'[v] = number
  BY <1>2 DEF WindowInv, WindowType
<1> HIDE DEF number
<1>4. RowsType'
  BY <1>1, <1>2, <1>3 DEF WindowInv, WindowType, RowsType
<1>5. ASSUME NEW u \in Viewers, rows'[u] \in Recovery!Folders PROVE rows'[u] = position'[u]
  BY <1>2, <1>5 DEF WindowInv, WindowType, RowsFit, Recovery!Folders
<1>6. ASSUME NEW u \in Viewers, NEW n \in Nat, NEW g \in Recovery!Folders, <<u, n, g>> \in listing'
      PROVE  n <= generation'[u] /\ (n = generation'[u] => g = position'[u])
  <2>1. CASE <<u, n, g>> = <<v, number, f>>
    <3>1. u = v /\ n = number /\ g = f
      BY <2>1
    <3> QED
      BY <1>1, <1>2, <1>3, <3>1 DEF WindowInv, WindowType
  <2>2. CASE <<u, n, g>> \in listing
    <3>1. n <= generation[u] /\ (n = generation[u] => g = position[u])
      BY <2>2 DEF WindowInv, RowsFit
    <3>2. CASE u = v
      <4>1. number > generation[u] /\ generation[u] \in Nat
        BY <3>2 DEF number, WindowInv, WindowType
      <4> QED
        BY <1>1, <1>3, <3>1, <3>2, <4>1
    <3>3. CASE u # v
      BY <1>2, <3>1, <3>3 DEF WindowInv, WindowType
    <3> QED
      BY <3>2, <3>3
  <2> QED
    BY <1>2, <1>3, <1>6, <2>1, <2>2
<1>7. RowsFit'
  BY <1>5, <1>6 DEF RowsFit
<1> QED
  BY <1>4, <1>7

\* The window's rows fit, and its leases with it.
LEMMA WindowBecomes ==
  ASSUME RowsType', RowsFit', LeaseFits', ViewType'
  PROVE  WindowInv'
BY DEF WindowInv, WindowType, RowsType

LEMMA ShowKeeps == ASSUME FileInv, NEW v \in Viewers, Recovery!Show(v) PROVE FileInv'
<1>1. UNCHANGED <<recovery, outcome, destination, folders, admitted, killed, parent>> /\ parent /\ view[v] = "new"
      /\ UNCHANGED <<lease, release>>
  BY WindowLeavesWork DEF Recovery!Show
<1>2. WorkInv'
  BY <1>1, WorkRests DEF FileInv
<1>3. RowsType' /\ RowsFit'
  BY RowsRest, LoadingKeeps DEF Recovery!Show, FileInv, Recovery!Folders
<1>4. view' = [view EXCEPT ![v] = "open"] \/ (v \in Secured /\ view' = [view EXCEPT ![v] = "asking"])
  BY DEF Recovery!Show
<1>5. /\ \A u \in Viewers : u # v => view'[u] = view[u]
      /\ view'[v] = "asking" => v \in Secured
  BY <1>4 DEF FileInv, WindowInv, WindowType, ViewType
<1>6. ViewType'
  BY <1>1, <1>4 DEF FileInv, WindowInv, WindowType, ViewType
<1>7. LeaseFits'
  BY <1>1, <1>5 DEF FileInv, WindowInv, WindowType, ViewType, LeaseFits
<1> QED
  BY <1>2, <1>3, <1>6, <1>7, WindowBecomes DEF FileInv

LEMMA AuthorizedKeeps == ASSUME FileInv, NEW v \in Viewers, Recovery!Authorized(v) PROVE FileInv'
<1>1. UNCHANGED <<recovery, outcome, destination, folders, admitted, killed, parent, release>> /\ view[v] = "asking"
  BY WindowLeavesWork DEF Recovery!Authorized
<1>2. WorkInv'
  BY <1>1, WorkRests DEF FileInv
<1>3. /\ RowsType' /\ RowsFit'
      /\ \/ lease' = lease \cup {v} /\ parent /\ view' = [view EXCEPT ![v] = "open"]
         \/ lease' = lease \cup {v} /\ ~parent /\ view' = [view EXCEPT ![v] = "closed"]
         \/ lease' = lease /\ view' = [view EXCEPT ![v] = "closed"]
  BY RowsRest, LoadingKeeps DEF Recovery!Authorized, FileInv, Recovery!Folders
<1>4. v \in Secured /\ (v \in lease => release[v] # "none" \/ ~parent)
  BY <1>1 DEF FileInv, WindowInv, WindowType, ViewType, LeaseFits
<1>5. /\ \A u \in Viewers : u # v => view'[u] = view[u] /\ (u \in lease' => u \in lease)
      /\ v \in lease' => view'[v] = "open" \/ ~parent \/ v \in lease
      /\ view'[v] # "asking"
  BY <1>3 DEF FileInv, WindowInv, WindowType, ViewType
<1>6. ViewType' /\ lease' \subseteq Secured
  BY <1>1, <1>3, <1>4 DEF FileInv, WindowInv, WindowType, ViewType, LeaseFits
<1>7. LeaseFits'
  BY <1>1, <1>4, <1>5, <1>6 DEF FileInv, WindowInv, WindowType, ViewType, LeaseFits
<1> QED
  BY <1>2, <1>3, <1>6, <1>7, WindowBecomes DEF FileInv

LEMMA CloseRequestKeeps == ASSUME FileInv, NEW v \in Viewers, Recovery!CloseRequest(v) PROVE FileInv'
<1>1. /\ UNCHANGED <<recovery, outcome, destination, folders, admitted, killed, parent, generation, lease>>
      /\ view' = [view EXCEPT ![v] = "closed"]
      /\ listing' = {c \in listing : c[1] # v} /\ position' = [position EXCEPT ![v] = "top"]
      /\ rows' = [rows EXCEPT ![v] = "loading"]
  BY WindowLeavesWork DEF Recovery!CloseRequest
<1>2. WorkInv'
  BY <1>1, WorkRests DEF FileInv
<1>3. RowsType'
  BY <1>1 DEF FileInv, WindowInv, WindowType, RowsType, Recovery!Folders
<1>9. \/ \E to \in {"calling", "failed"} : release' = [release EXCEPT ![v] = to]
      \/ v \notin Secured /\ release' = release
  BY DEF Recovery!CloseRequest
<1>4. \A u \in Viewers : u # v => rows'[u] = rows[u] /\ position'[u] = position[u] /\ view'[u] = view[u]
  BY <1>1 DEF FileInv, WindowInv, WindowType, ViewType
<1>5. rows'[v] \notin Recovery!Folders
  BY <1>1 DEF FileInv, WindowInv, WindowType, Recovery!Folders
<1>6. ASSUME NEW u \in Viewers, NEW n \in Nat, NEW f \in Recovery!Folders, <<u, n, f>> \in listing'
      PROVE  u # v /\ <<u, n, f>> \in listing
  BY <1>1, <1>6
<1>7. RowsFit'
  BY <1>1, <1>4, <1>5, <1>6 DEF FileInv, WindowInv, RowsFit
<1>8. ViewType'
  BY <1>1, <1>9 DEF FileInv, WindowInv, WindowType, ViewType
<1>10. /\ \A u \in Viewers : u # v => release'[u] = release[u]
       /\ view'[v] = "closed" /\ (v \in Secured => release'[v] # "none")
  BY <1>1, <1>9 DEF FileInv, WindowInv, WindowType, ViewType
<1>11. LeaseFits'
  BY <1>1, <1>4, <1>10 DEF FileInv, WindowInv, WindowType, ViewType, LeaseFits
<1> QED
  BY <1>2, <1>3, <1>7, <1>8, <1>11, WindowBecomes DEF FileInv

LEMMA EndBrowseKeeps == ASSUME FileInv, NEW v \in Viewers, Recovery!EndBrowse(v) PROVE FileInv'
<1>1. UNCHANGED <<recovery, outcome, destination, folders, admitted, killed, parent, view>>
  BY WindowLeavesWork DEF Recovery!EndBrowse
<1>2. WorkInv'
  BY <1>1, WorkRests DEF FileInv
<1>3. RowsType' /\ RowsFit'
  BY RowsRest DEF Recovery!EndBrowse, FileInv
<1>4. \/ lease' = lease \ {v} /\ release' = [release EXCEPT ![v] = "none"]
      \/ lease' = lease /\ release' = [release EXCEPT ![v] = "failed"]
  BY DEF Recovery!EndBrowse
<1>5. ViewType'
  BY <1>1, <1>4 DEF FileInv, WindowInv, WindowType, ViewType
<1>6. /\ \A u \in Viewers : u # v => release'[u] = release[u] /\ (u \in lease' => u \in lease)
      /\ v \in lease' => v \in lease /\ release'[v] # "none"
  BY <1>4 DEF FileInv, WindowInv, WindowType, ViewType
<1>7. LeaseFits'
  BY <1>1, <1>4, <1>6 DEF FileInv, WindowInv, WindowType, ViewType, LeaseFits
<1> QED
  BY <1>2, <1>3, <1>5, <1>7, WindowBecomes DEF FileInv

LEMMA NavigateKeeps == ASSUME FileInv, NEW v \in Viewers, Recovery!Navigate(v) PROVE FileInv'
<1>1. UNCHANGED <<recovery, outcome, destination, folders, admitted, killed, parent, view, lease, release>>
  BY WindowLeavesWork DEF Recovery!Navigate
<1>2. WorkInv'
  BY <1>1, WorkRests DEF FileInv
<1>3. RowsType' /\ RowsFit'
  BY LoadingKeeps DEF Recovery!Navigate, FileInv, Recovery!Folders
<1>4. LeaseFits' /\ ViewType'
  BY <1>1 DEF FileInv, WindowInv, WindowType, ViewType, LeaseFits
<1> QED
  BY <1>2, <1>3, <1>4, WindowBecomes DEF FileInv

LEMMA ListedKeeps == ASSUME FileInv, NEW v \in Viewers, NEW n, NEW f, Recovery!Listed(v, n, f) PROVE FileInv'
<1>1. UNCHANGED <<recovery, outcome, destination, folders, admitted, killed, parent, view, lease, release, position, generation>>
      /\ <<v, n, f>> \in listing /\ listing' = listing \ {<<v, n, f>>}
  BY WindowLeavesWork DEF Recovery!Listed
<1>2. WorkInv'
  BY <1>1, WorkRests DEF FileInv
<1>3. n \in Nat /\ f \in Recovery!Folders
  BY <1>1 DEF FileInv, WindowInv, WindowType
<1>4. PICK said \in Recovery!Answers(v, f) : rows' = IF Recovery!Accepts(v, n) THEN [rows EXCEPT ![v] = said] ELSE rows
  BY DEF Recovery!Listed
<1>5. said \in {f, "failed"}
  BY <1>4 DEF Recovery!Answers
<1>6. n = generation[v] => f = position[v]
  BY <1>1, <1>3 DEF FileInv, WindowInv, RowsFit
<1>7. rows' = rows \/ (n = generation[v] /\ rows' = [rows EXCEPT ![v] = said])
  BY <1>4 DEF Recovery!Accepts
<1>8. RowsType'
  BY <1>1, <1>3, <1>5, <1>7 DEF FileInv, WindowInv, WindowType, RowsType
<1>9. \A u \in Viewers : rows'[u] \in Recovery!Folders => rows'[u] = position'[u]
  BY <1>1, <1>5, <1>6, <1>7 DEF FileInv, WindowInv, WindowType, RowsFit, Recovery!Folders
<1>10. RowsFit'
  BY <1>1, <1>9 DEF FileInv, WindowInv, RowsFit
<1>11. LeaseFits' /\ ViewType'
  BY <1>1 DEF FileInv, WindowInv, WindowType, ViewType, LeaseFits
<1> QED
  BY <1>2, <1>8, <1>10, <1>11, WindowBecomes DEF FileInv

LEMMA ExpireKeeps == ASSUME FileInv, NEW v \in Viewers, Recovery!Expire(v) PROVE FileInv'
<1>1. UNCHANGED <<recovery, outcome, destination, folders, admitted, killed, parent, view, release>> /\ lease' = lease \ {v}
  BY WindowLeavesWork DEF Recovery!Expire
<1>2. WorkInv'
  BY <1>1, WorkRests DEF FileInv
<1>3. RowsType' /\ RowsFit'
  BY RowsRest DEF Recovery!Expire, FileInv
<1>4. LeaseFits' /\ ViewType'
  BY <1>1 DEF FileInv, WindowInv, WindowType, ViewType, LeaseFits
<1> QED
  BY <1>2, <1>3, <1>4, WindowBecomes DEF FileInv

LEMMA CloseMainKeeps == FileInv /\ Recovery!CloseMain => FileInv'
<1> SUFFICES ASSUME FileInv, Recovery!CloseMain PROVE FileInv'
  OBVIOUS
<1>1. UNCHANGED <<recovery, outcome, destination, folders, admitted, killed, view, lease, release, position, rows, generation, listing>>
      /\ parent' = FALSE
  BY DEF Recovery!CloseMain, Recovery!Outside, Recovery!Disk
<1>2. WorkInv'
  BY <1>1, WorkRests DEF FileInv
<1>3. RowsType' /\ RowsFit'
  BY <1>1 DEF FileInv, WindowInv, WindowType, RowsType, RowsFit
<1>4. LeaseFits' /\ ViewType'
  BY <1>1 DEF FileInv, WindowInv, WindowType, ViewType, LeaseFits
<1> QED
  BY <1>2, <1>3, <1>4, WindowBecomes DEF FileInv

(*****************************************************************************)
(* The recoveries.                                                           *)
(*****************************************************************************)
LEMMA FolderContents ==
  /\ Recovery!Nothing \in FolderContent /\ Recovery!Nothing.whole = TRUE /\ Recovery!Nothing.of = "none"
  /\ \A v \in Viewers, f \in Recovery!Folders, whole \in BOOLEAN :
       /\ Recovery!Of(v, f, whole) \in FolderContent /\ Recovery!Of(v, f, whole).by = v
       /\ Recovery!Of(v, f, whole).whole = whole /\ Recovery!Of(v, f, whole) # Recovery!Nothing
BY DEF Recovery!Nothing, Recovery!Of, Recovery!None, FolderContent, Recovery!Folders

\* A step of one recovery, which touches at most a free name or its own unfinished folder.
LEMMA WorkBecomes ==
  ASSUME WorkInv, NEW v \in Viewers, WorkType', killed' = killed, destination'.whole, admitted \subseteq admitted',
         \A u \in Viewers : u # v => recovery'[u] = recovery[u] /\ outcome'[u] = outcome[u],
         destination' = destination \/ destination'.by \in Viewers,
         \A n \in Recovery!Copies : folders'[n] = folders[n] \/ folders[n] = Recovery!Nothing
                                    \/ folders[n] = Recovery!Of(v, recovery[v].from, FALSE),
         RunFitsIn(v)',
         \A n \in Recovery!Copies : folders'[n] # folders[n] \/ folders[n].by = v => FolderFits(n)'
  PROVE  WorkInv'
<1>1. ASSUME NEW u \in Viewers, u # v PROVE RunFitsIn(u)'
  <2>1. recovery[u] \in RecoveryRun /\ recovery[v] \in RecoveryRun /\ recovery'[u] = recovery[u] /\ outcome'[u] = outcome[u]
    BY <1>1 DEF WorkInv, WorkType
  <2>2. ASSUME NEW whole \in BOOLEAN, folders[recovery[u].to] = Recovery!Of(u, recovery[u].from, whole)
        PROVE  folders'[recovery[u].to] = folders[recovery[u].to]
    <3>1. recovery[u].to \in Recovery!Copies /\ recovery[u].from \in Recovery!Folders /\ recovery[v].from \in Recovery!Folders
      BY <2>1 DEF RecoveryRun
    <3>2. folders[recovery[u].to] # Recovery!Nothing /\ folders[recovery[u].to].by = u
      BY <2>2, <3>1, FolderContents
    <3>3. Recovery!Of(v, recovery[v].from, FALSE).by = v
      BY <3>1, FolderContents
    <3> QED
      BY <1>1, <3>1, <3>2, <3>3
  <2>3. RunFitsIn(u)
    BY DEF WorkInv
  <2> QED
    BY <2>1, <2>2, <2>3 DEF RunFitsIn
<1>2. ASSUME NEW n \in Recovery!Copies, folders'[n] = folders[n], folders[n].by # v PROVE FolderFits(n)'
  <2>1. FolderFits(n)
    BY DEF WorkInv
  <2> QED
    BY <1>2, <2>1 DEF FolderFits
<1>3. \A n \in Recovery!Copies : FolderFits(n)'
  BY <1>2
<1>4. \A u \in Viewers : RunFitsIn(u)'
  BY <1>1
<1> QED
  BY <1>3, <1>4 DEF WorkInv, Recovery!Copies

\* A step of one recovery that has no folder yet, and makes none.
LEMMA QuietWork ==
  ASSUME WorkInv, NEW v \in Viewers, UNCHANGED <<folders, admitted, killed>>, recovery[v].at \notin Incomplete,
         NEW run \in RecoveryRun, recovery' = [recovery EXCEPT ![v] = run],
         NEW word \in {"none", "failed", "recovered"}, outcome' = [outcome EXCEPT ![v] = word],
         destination' \in FolderContent, destination'.whole, destination' = destination \/ destination'.by \in Viewers,
         run.at # "idle" => word = "none",
         run.at \in {"exporting", "writing"} => run.kind = "file",
         run.at \notin Incomplete,
         word = "recovered" => run.kind = "file" /\ destination'.by \in Viewers
  PROVE  WorkInv'
<1>1. WorkType' /\ \A u \in Viewers : u # v => recovery'[u] = recovery[u] /\ outcome'[u] = outcome[u]
  BY DEF WorkInv, WorkType, Recovery!Copies
<1>2. recovery'[v] = run /\ outcome'[v] = word
  BY DEF WorkInv, WorkType
<1>3. RunFitsIn(v)'
  BY <1>2 DEF RunFitsIn
<1>4. ASSUME NEW n \in Recovery!Copies, folders[n].by = v PROVE FolderFits(n)'
  <2>1. FolderFits(n)
    BY DEF WorkInv
  <2>2. ~folders[n].whole => killed \/ n \in admitted
    BY <1>4, <2>1 DEF FolderFits
  <2> QED
    BY <2>2 DEF FolderFits
<1> QED
  BY <1>1, <1>3, <1>4, WorkBecomes

LEMMA WorkingLeavesWindow ==
  FileInv /\ Recovery!Working => WindowInv' /\ UNCHANGED killed
BY WindowRests DEF FileInv, Recovery!Working, Recovery!Rest

LEMMA ChooseKeeps == ASSUME FileInv, NEW v \in Viewers, Recovery!Choose(v) PROVE FileInv'
<1>1. UNCHANGED <<Recovery!Outside, parent, killed>> /\ UNCHANGED <<destination, folders, admitted>> /\ recovery[v].at = "idle"
      /\ outcome' = [outcome EXCEPT ![v] = "none"]
  BY DEF Recovery!Choose, Recovery!Disk, Recovery!At, Recovery!None
<1>2. WindowInv'
  BY <1>1, WindowRests DEF FileInv
<1>3. PICK form \in {"file", "folder"}, f \in Recovery!Folders :
        recovery' = [recovery EXCEPT ![v] = [Recovery!Idle EXCEPT !.at = "choosing", !.kind = form, !.from = f]]
  <2>1. position[v] \in Recovery!Folders
    BY DEF FileInv, WindowInv, WindowType
  <2> QED
    BY <2>1 DEF Recovery!Choose
<1> DEFINE run == [Recovery!Idle EXCEPT !.at = "choosing", !.kind = form, !.from = f]
<1>4. run \in RecoveryRun /\ run.at = "choosing"
  <2>1. Recovery!Idle \in RecoveryRun
    BY RecoveryBounds DEF Recovery!Idle, Recovery!None, RecoveryRun, RunSteps, Recovery!Folders
  <2> DEFINE opened == [Recovery!Idle EXCEPT !.at = "choosing"]
             formed == [opened EXCEPT !.kind = form]
  <2>2. opened \in RecoveryRun /\ opened.at = "choosing"
    BY <2>1 DEF RecoveryRun, RunSteps
  <2>3. run = [formed EXCEPT !.from = f]
    OBVIOUS
  <2> HIDE DEF opened, run
  <2>4. formed \in RecoveryRun /\ formed.at = "choosing"
    BY <2>2 DEF RecoveryRun
  <2> HIDE DEF formed
  <2> QED
    BY <2>3, <2>4 DEF RecoveryRun
<1>5. recovery' = [recovery EXCEPT ![v] = run]
  BY <1>3
<1> HIDE DEF run
<1>6. destination \in FolderContent /\ destination.whole /\ recovery[v].at \notin Incomplete /\ run.at \notin Incomplete
  BY <1>1, <1>4 DEF FileInv, WorkInv, WorkType, Incomplete
<1>7. WorkInv'
  BY <1>1, <1>4, <1>5, <1>6, QuietWork DEF FileInv
<1> QED
  BY <1>2, <1>7 DEF FileInv

\* A run goes on to another step of its own.
LEMMA Moved ==
  ASSUME WorkInv, NEW v \in Viewers, NEW step \in RunSteps, Recovery!Move(v, step)
  PROVE  \E run \in RecoveryRun :
           /\ recovery' = [recovery EXCEPT ![v] = run] /\ run.at = step /\ run.kind = recovery[v].kind
           /\ run.from = recovery[v].from /\ run.to = recovery[v].to
<1> DEFINE run == [recovery[v] EXCEPT !.at = step]
<1>1. recovery[v] \in RecoveryRun
  BY DEF WorkInv, WorkType
<1>2. run \in RecoveryRun /\ run.at = step /\ run.kind = recovery[v].kind /\ run.from = recovery[v].from
      /\ run.to = recovery[v].to
  BY <1>1 DEF RecoveryRun
<1>3. recovery' = [recovery EXCEPT ![v] = run]
  BY DEF Recovery!Move
<1> HIDE DEF run
<1> QED
  BY <1>2, <1>3

LEMMA ToldNothing ==
  ASSUME WorkInv, NEW v \in Viewers, recovery[v].at # "idle"
  PROVE  outcome[v] = "none" /\ (outcome' = outcome => outcome' = [outcome EXCEPT ![v] = "none"])
<1>1. outcome[v] = "none"
  BY DEF WorkInv, RunFitsIn
<1> QED
  BY <1>1 DEF WorkInv, WorkType

\* A run that is not at its folder: it goes on, or it fails.
LEMMA GoesOnOrFails ==
  ASSUME WorkInv, NEW v \in Viewers, recovery[v].at \notin Incomplete \cup {"idle"}, NEW step \in RunSteps,
         UNCHANGED <<destination, folders, admitted, killed>>, step \notin Incomplete,
         step \in {"exporting", "writing"} => recovery[v].kind = "file",
         \/ Recovery!Move(v, step) /\ outcome' = outcome
         \/ Recovery!End(v, "failed")
  PROVE  WorkInv'
<1>1. destination \in FolderContent /\ destination.whole
  BY DEF WorkInv, WorkType
<1>2. CASE Recovery!Move(v, step) /\ outcome' = outcome
  <2>1. PICK run \in RecoveryRun : recovery' = [recovery EXCEPT ![v] = run] /\ run.at = step /\ run.kind = recovery[v].kind
    BY <1>2, Moved
  <2>2. outcome' = [outcome EXCEPT ![v] = "none"]
    BY <1>2, ToldNothing
  <2> QED
    BY <1>1, <2>1, <2>2, QuietWork
<1>3. CASE Recovery!End(v, "failed")
  <2>1. Recovery!Move(v, "idle") /\ outcome' = [outcome EXCEPT ![v] = "failed"] /\ "idle" \in RunSteps
    BY <1>3 DEF Recovery!End, RunSteps
  <2>2. PICK run \in RecoveryRun : recovery' = [recovery EXCEPT ![v] = run] /\ run.at = "idle"
    BY <2>1, Moved
  <2> QED
    BY <1>1, <2>1, <2>2, QuietWork DEF Incomplete
<1> QED
  BY <1>2, <1>3

LEMMA ChosenKeeps == ASSUME FileInv, NEW v \in Viewers, Recovery!Chosen(v) PROVE FileInv'
<1>1. WindowInv' /\ UNCHANGED <<destination, folders, admitted, killed, outcome>> /\ recovery[v].at = "choosing"
  BY WorkingLeavesWindow DEF Recovery!Chosen, Recovery!Disk, Recovery!At
<1>2. destination \in FolderContent /\ destination.whole /\ recovery[v] \in RecoveryRun
  BY DEF FileInv, WorkInv, WorkType
<1>3. outcome' = [outcome EXCEPT ![v] = "none"]
  BY <1>1, ToldNothing DEF FileInv
<1>4. CASE Recovery!Move(v, "idle")
  <2>1. PICK run \in RecoveryRun : recovery' = [recovery EXCEPT ![v] = run] /\ run.at = "idle"
    BY <1>4, Moved DEF FileInv, RunSteps
  <2>2. WorkInv'
    BY <1>1, <1>2, <1>3, <2>1, QuietWork DEF FileInv, Incomplete
  <2> QED
    BY <1>1, <2>2 DEF FileInv
<1>5. ASSUME NEW n \in Recovery!Copies, recovery' = [recovery EXCEPT ![v].at = "authorizing", ![v].to = n] PROVE FileInv'
  <2> DEFINE allowed == [recovery[v] EXCEPT !.at = "authorizing"]
             run == [allowed EXCEPT !.to = n]
  <2>1. allowed \in RecoveryRun /\ allowed.at = "authorizing"
    BY <1>2 DEF RecoveryRun, RunSteps
  <2>2. recovery' = [recovery EXCEPT ![v] = run]
    BY <1>5 DEF FileInv, WorkInv, WorkType
  <2> HIDE DEF allowed
  <2>3. run \in RecoveryRun /\ run.at = "authorizing"
    BY <2>1 DEF RecoveryRun
  <2> HIDE DEF run
  <2>4. WorkInv'
    BY <1>1, <1>2, <1>3, <2>2, <2>3, QuietWork DEF FileInv, Incomplete
  <2> QED
    BY <1>1, <2>4 DEF FileInv
<1> QED
  BY <1>4, <1>5 DEF Recovery!Chosen

LEMMA AuthorizeKeeps == ASSUME FileInv, NEW v \in Viewers, Recovery!AuthorizeExport(v) PROVE FileInv'
<1>1. WindowInv' /\ UNCHANGED <<destination, folders, admitted, killed>> /\ recovery[v].at = "authorizing"
  BY WorkingLeavesWindow DEF Recovery!AuthorizeExport, Recovery!Disk, Recovery!At
<1> DEFINE step == IF recovery[v].kind = "file" THEN "exporting" ELSE "creating"
<1>2. (Recovery!Move(v, step) /\ outcome' = outcome) \/ Recovery!End(v, "failed")
  BY DEF Recovery!AuthorizeExport
<1>3. step \in RunSteps /\ step \notin Incomplete /\ (step \in {"exporting", "writing"} => recovery[v].kind = "file")
  BY DEF RunSteps, Incomplete
<1> HIDE DEF step
<1>4. WorkInv'
  BY <1>1, <1>2, <1>3, GoesOnOrFails DEF FileInv, Incomplete
<1> QED
  BY <1>1, <1>4 DEF FileInv

LEMMA ExportKeeps == ASSUME FileInv, NEW v \in Viewers, Recovery!Export(v) PROVE FileInv'
<1>1. WindowInv' /\ UNCHANGED <<destination, folders, admitted, killed>> /\ recovery[v].at = "exporting"
      /\ ((Recovery!Move(v, "writing") /\ outcome' = outcome) \/ Recovery!End(v, "failed"))
  BY WorkingLeavesWindow DEF Recovery!Export, Recovery!At
<1>2. recovery[v].kind = "file"
  BY <1>1 DEF FileInv, WorkInv, RunFitsIn
<1>3. WorkInv'
  BY <1>1, <1>2, GoesOnOrFails DEF FileInv, Incomplete, RunSteps
<1> QED
  BY <1>1, <1>3 DEF FileInv

LEMMA ReplaceKeeps == ASSUME FileInv, NEW v \in Viewers, Recovery!Replace(v) PROVE FileInv'
<1>1. WindowInv' /\ UNCHANGED <<folders, admitted, killed>> /\ recovery[v].at = "writing"
  BY WorkingLeavesWindow DEF Recovery!Replace, Recovery!At
<1>2. recovery[v].kind = "file" /\ recovery[v] \in RecoveryRun /\ destination \in FolderContent /\ destination.whole
  BY <1>1 DEF FileInv, WorkInv, RunFitsIn, WorkType
<1>3. PICK word \in {"recovered", "failed"} :
        /\ Recovery!End(v, word)
        /\ \/ destination' = Recovery!Of(v, recovery[v].from, TRUE)
           \/ word = "failed" /\ destination' = destination
  BY DEF Recovery!Replace
<1>4. destination' \in FolderContent /\ destination'.whole
      /\ (destination'.by \in Viewers \/ (word = "failed" /\ destination' = destination))
  <2>1. recovery[v].from \in Recovery!Folders
    BY <1>2 DEF RecoveryRun
  <2>2. Recovery!Of(v, recovery[v].from, TRUE) \in FolderContent /\ Recovery!Of(v, recovery[v].from, TRUE).by = v
        /\ Recovery!Of(v, recovery[v].from, TRUE).whole
    BY <2>1, FolderContents
  <2> QED
    BY <1>2, <1>3, <2>2
<1>5. PICK run \in RecoveryRun : recovery' = [recovery EXCEPT ![v] = run] /\ run.at = "idle" /\ run.kind = "file"
  BY <1>2, <1>3, Moved DEF Recovery!End, FileInv, RunSteps
<1>6. WorkInv'
  BY <1>1, <1>3, <1>4, <1>5, QuietWork DEF FileInv, Incomplete, Recovery!End
<1> QED
  BY <1>1, <1>6 DEF FileInv

LEMMA CreateKeeps == ASSUME FileInv, NEW v \in Viewers, Recovery!CreateDirectory(v) PROVE FileInv'
<1>1. WindowInv' /\ UNCHANGED <<destination, admitted, killed>> /\ recovery[v].at = "creating"
  BY WorkingLeavesWindow DEF Recovery!CreateDirectory, Recovery!At
<1>2. destination.whole /\ recovery[v] \in RecoveryRun /\ folders \in [Recovery!Copies -> FolderContent]
  BY DEF FileInv, WorkInv, WorkType
<1>3. PICK n \in Recovery!Copies, f \in Recovery!Folders : n = recovery[v].to /\ f = recovery[v].from
  BY <1>2 DEF RecoveryRun
<1>4. CASE /\ folders[n] = Recovery!Nothing /\ folders' = [folders EXCEPT ![n] = Recovery!Of(v, f, FALSE)]
           /\ Recovery!Move(v, "filling") /\ outcome' = outcome
  <2>1. PICK run \in RecoveryRun : recovery' = [recovery EXCEPT ![v] = run] /\ run.at = "filling" /\ run.from = f /\ run.to = n
    BY <1>3, <1>4, Moved DEF FileInv, RunSteps
  <2>2. outcome[v] = "none"
    BY <1>1, ToldNothing DEF FileInv
  <2>3. folders'[n] = Recovery!Of(v, f, FALSE) /\ Recovery!Of(v, f, FALSE) \in FolderContent /\ Recovery!Of(v, f, FALSE).by = v
        /\ \A m \in Recovery!Copies : m # n => folders'[m] = folders[m]
    BY <1>2, <1>3, <1>4, FolderContents
  <2>4. recovery'[v] = run /\ \A u \in Viewers : u # v => recovery'[u] = recovery[u]
    BY <2>1 DEF FileInv, WorkInv, WorkType
  <2>5. WorkType'
    BY <1>1, <1>2, <1>3, <1>4, <2>1, <2>3 DEF FileInv, WorkInv, WorkType, Recovery!Copies
  <2>6. RunFitsIn(v)'
    BY <1>4, <2>1, <2>2, <2>3, <2>4 DEF RunFitsIn
  <2>7. FolderFits(n)'
    BY <2>1, <2>3, <2>4 DEF FolderFits, Incomplete
  <2>8. ASSUME NEW m \in Recovery!Copies, m # n, folders[m].by = v PROVE FolderFits(m)'
    <3>1. FolderFits(m) /\ folders'[m] = folders[m]
      BY <2>3, <2>8 DEF FileInv, WorkInv
    <3>2. ~folders[m].whole => killed \/ m \in admitted
      BY <1>1, <2>8, <3>1 DEF FolderFits, Incomplete
    <3> QED
      BY <1>1, <3>1, <3>2 DEF FolderFits
  <2>9. \A m \in Recovery!Copies : folders'[m] # folders[m] \/ folders[m].by = v => FolderFits(m)'
    BY <2>3, <2>7, <2>8
  <2>10. \A m \in Recovery!Copies : folders'[m] = folders[m] \/ folders[m] = Recovery!Nothing
                                     \/ folders[m] = Recovery!Of(v, recovery[v].from, FALSE)
    BY <1>3, <1>4, <2>3
  <2>11. WorkInv'
    BY <1>1, <1>2, <1>4, <2>4, <2>5, <2>6, <2>9, <2>10, WorkBecomes DEF FileInv
  <2> QED
    BY <1>1, <2>11 DEF FileInv
<1>5. CASE folders' = folders /\ Recovery!End(v, "failed")
  <2>1. WorkInv'
    BY <1>1, <1>5, GoesOnOrFails DEF FileInv, RunSteps, Incomplete
  <2> QED
    BY <1>1, <2>1 DEF FileInv
<1> QED
  BY <1>3, <1>4, <1>5 DEF Recovery!CreateDirectory, Recovery!CreateFails

\* The run that fills a folder ends, or cleans it up: what becomes of the folder.
LEMMA FolderEnds ==
  ASSUME FileInv, NEW v \in Viewers, WindowInv', UNCHANGED <<destination, killed>>, recovery[v].at \in Incomplete,
         NEW step \in {"cleaning", "idle"}, Recovery!Move(v, step),
         NEW word \in {"none", "failed", "recovered"}, outcome' = [outcome EXCEPT ![v] = word],
         step = "cleaning" => word = "none", admitted \subseteq admitted', NEW left \in FolderContent,
         folders' = [folders EXCEPT ![recovery[v].to] = left],
         step = "cleaning" => left = folders[recovery[v].to],
         word = "recovered" => left = Recovery!Of(v, recovery[v].from, TRUE),
         left.whole \/ recovery[v].to \in admitted' \/ step = "cleaning"
  PROVE  FileInv'
<1>1. destination.whole /\ recovery[v] \in RecoveryRun /\ folders \in [Recovery!Copies -> FolderContent]
  BY DEF FileInv, WorkInv, WorkType
<1>2. PICK n \in Recovery!Copies, f \in Recovery!Folders : n = recovery[v].to /\ f = recovery[v].from
  BY <1>1 DEF RecoveryRun
<1>3. folders[n] = Recovery!Of(v, f, FALSE)
  BY <1>2 DEF FileInv, WorkInv, RunFitsIn
<1>4. PICK run \in RecoveryRun : recovery' = [recovery EXCEPT ![v] = run] /\ run.at = step /\ run.from = f /\ run.to = n
  BY <1>2, Moved DEF FileInv, RunSteps
<1>5. folders' = [folders EXCEPT ![n] = left] /\ (step = "cleaning" => left = folders[n])
      /\ (word = "recovered" => left = Recovery!Of(v, f, TRUE)) /\ (left.whole \/ n \in admitted' \/ step = "cleaning")
  BY <1>2
<1>6. folders'[n] = left /\ \A m \in Recovery!Copies : m # n => folders'[m] = folders[m]
  BY <1>1, <1>2, <1>5
<1>7. Recovery!Of(v, f, FALSE).by = v
  BY <1>2, FolderContents
<1>8. recovery'[v] = run /\ outcome'[v] = word
      /\ \A u \in Viewers : u # v => recovery'[u] = recovery[u] /\ outcome'[u] = outcome[u]
  BY <1>4 DEF FileInv, WorkInv, WorkType
<1>9. WorkType'
  BY <1>1, <1>2, <1>4, <1>5 DEF FileInv, WorkInv, WorkType, Recovery!Copies
<1>10. RunFitsIn(v)'
  <2>1. run.at \notin {"exporting", "writing"} /\ (run.at # "idle" => word = "none")
    BY <1>4
  <2>2. run.at \in Incomplete => folders'[n] = Recovery!Of(v, f, FALSE)
    BY <1>3, <1>4, <1>5, <1>6 DEF Incomplete
  <2>3. word = "recovered" => folders'[n] = Recovery!Of(v, f, TRUE)
    BY <1>5, <1>6
  <2> QED
    BY <1>4, <1>8, <2>1, <2>2, <2>3 DEF RunFitsIn
<1>11. FolderFits(n)'
  <2>1. CASE left.whole
    BY <1>6, <2>1 DEF FolderFits
  <2>2. CASE n \in admitted'
    BY <2>2 DEF FolderFits
  <2>3. CASE step = "cleaning"
    <3>1. folders'[n].by = v /\ recovery'[v].at \in Incomplete /\ recovery'[v].to = n
      BY <1>3, <1>4, <1>5, <1>6, <1>7, <1>8, <2>3 DEF Incomplete
    <3> QED
      BY <3>1 DEF FolderFits
  <2> QED
    BY <1>5, <2>1, <2>2, <2>3
<1>12. ASSUME NEW m \in Recovery!Copies, m # n, folders[m].by = v PROVE FolderFits(m)'
  <2>1. FolderFits(m) /\ folders'[m] = folders[m]
    BY <1>6, <1>12 DEF FileInv, WorkInv
  <2>2. ~folders[m].whole => killed \/ m \in admitted
    BY <1>2, <1>12, <2>1 DEF FolderFits
  <2> QED
    BY <2>1, <2>2 DEF FolderFits
<1>13. \A m \in Recovery!Copies : folders'[m] # folders[m] \/ folders[m].by = v => FolderFits(m)'
  BY <1>6, <1>11, <1>12
<1>14. \A m \in Recovery!Copies : folders'[m] = folders[m] \/ folders[m] = Recovery!Nothing
                                   \/ folders[m] = Recovery!Of(v, recovery[v].from, FALSE)
  BY <1>2, <1>3, <1>6
<1>15. WorkInv'
  BY <1>1, <1>8, <1>9, <1>10, <1>13, <1>14, WorkBecomes DEF FileInv
<1> QED
  BY <1>15 DEF FileInv

LEMMA RestoreKeeps == ASSUME FileInv, NEW v \in Viewers, Recovery!RestoreEntries(v) PROVE FileInv'
<1>1. WindowInv' /\ UNCHANGED <<destination, admitted, killed>> /\ recovery[v].at \in Incomplete
  BY WorkingLeavesWindow DEF Recovery!RestoreEntries, Recovery!At, Incomplete
<1>2. recovery[v] \in RecoveryRun /\ folders \in [Recovery!Copies -> FolderContent]
  BY DEF FileInv, WorkInv, WorkType
<1>3. recovery[v].to \in Recovery!Copies /\ recovery[v].from \in Recovery!Folders
  BY <1>2 DEF RecoveryRun
<1>4. folders[recovery[v].to] = Recovery!Of(v, recovery[v].from, FALSE)
  BY <1>1 DEF FileInv, WorkInv, RunFitsIn
<1>5. CASE folders' = [folders EXCEPT ![recovery[v].to].whole = TRUE] /\ Recovery!End(v, "recovered")
  <2> DEFINE left == Recovery!Of(v, recovery[v].from, TRUE)
  <2>1. left \in FolderContent /\ left.whole
    BY <1>3, FolderContents
  <2>5. [Recovery!Of(v, recovery[v].from, FALSE) EXCEPT !.whole = TRUE] = left
    <3> DEFINE one == Recovery!Of(v, recovery[v].from, FALSE)
               two == [one EXCEPT !.whole = TRUE]
    <3>1. one \in FolderContent
      BY <1>3, FolderContents
    <3>2. one.by = v /\ one.of = recovery[v].from /\ left.by = v /\ left.of = recovery[v].from /\ left.whole = TRUE
      BY DEF Recovery!Of
    <3> HIDE DEF one, left
    <3>3. two \in FolderContent /\ two.by = v /\ two.of = recovery[v].from /\ two.whole = TRUE
      BY <3>1, <3>2 DEF FolderContent
    <3> HIDE DEF two
    <3>4. two = left
      BY <2>1, <3>2, <3>3 DEF FolderContent
    <3> QED
      BY <3>4 DEF two, one
  <2>2. [folders[recovery[v].to] EXCEPT !.whole = TRUE] = left
    BY <1>4, <2>5
  <2>3. folders' = [folders EXCEPT ![recovery[v].to] = left]
    BY <1>2, <1>3, <1>5, <2>2
  <2>4. Recovery!Move(v, "idle") /\ outcome' = [outcome EXCEPT ![v] = "recovered"]
    BY <1>5 DEF Recovery!End
  <2> HIDE DEF left
  <2> QED
    BY <1>1, <2>1, <2>3, <2>4, FolderEnds DEF left
<1>6. CASE Recovery!Move(v, "cleaning") /\ UNCHANGED <<folders, outcome>>
  <2>1. outcome' = [outcome EXCEPT ![v] = "none"]
    BY <1>1, <1>6, ToldNothing DEF FileInv, Incomplete
  <2> DEFINE left == folders[recovery[v].to]
  <2>2. left \in FolderContent /\ folders' = [folders EXCEPT ![recovery[v].to] = left]
    BY <1>2, <1>3, <1>6
  <2> QED
    BY <1>1, <1>6, <2>1, <2>2, FolderEnds
<1> QED
  BY <1>5, <1>6 DEF Recovery!RestoreEntries

LEMMA RemoveKeeps == ASSUME FileInv, NEW v \in Viewers, Recovery!RemoveIncomplete(v) PROVE FileInv'
<1>1. /\ WindowInv' /\ UNCHANGED <<destination, killed>> /\ recovery[v].at \in Incomplete
      /\ Recovery!Move(v, "idle") /\ outcome' = [outcome EXCEPT ![v] = "failed"]
  BY WorkingLeavesWindow DEF Recovery!RemoveIncomplete, Recovery!At, Incomplete, Recovery!End
<1>2. recovery[v] \in RecoveryRun /\ folders \in [Recovery!Copies -> FolderContent]
  BY DEF FileInv, WorkInv, WorkType
<1>3. recovery[v].to \in Recovery!Copies
  BY <1>2 DEF RecoveryRun
<1>4. CASE folders' = [folders EXCEPT ![recovery[v].to] = Recovery!Nothing] /\ admitted' = admitted
  BY <1>1, <1>4, FolderContents, FolderEnds
<1>5. CASE admitted' = admitted \cup {recovery[v].to} /\ folders' = folders
  <2> DEFINE left == folders[recovery[v].to]
  <2>1. left \in FolderContent /\ folders' = [folders EXCEPT ![recovery[v].to] = left]
    BY <1>2, <1>3, <1>5
  <2> QED
    BY <1>1, <1>5, <2>1, FolderEnds
<1> QED
  BY <1>4, <1>5 DEF Recovery!RemoveIncomplete

LEMMA IdleRun == Recovery!Idle \in RecoveryRun /\ Recovery!Idle.at = "idle"
BY RecoveryBounds DEF Recovery!Idle, Recovery!None, RecoveryRun, RunSteps, Recovery!Folders

LEMMA KillKeeps == FileInv /\ Recovery!Kill => FileInv'
<1> SUFFICES ASSUME FileInv, Recovery!Kill PROVE FileInv'
  OBVIOUS
<1>1. /\ killed' = TRUE /\ parent' = FALSE /\ view' = [v \in Viewers |-> "closed"]
      /\ recovery' = [v \in Viewers |-> Recovery!Idle] /\ listing' = {}
      /\ position' = [v \in Viewers |-> "top"] /\ rows' = [v \in Viewers |-> "loading"]
      /\ release' = [v \in Viewers |-> "none"]
      /\ UNCHANGED <<generation, lease, outcome, destination, folders>>
  BY DEF Recovery!Kill, Recovery!Disk
<1>2. WindowType'
  BY <1>1 DEF FileInv, WindowInv, WindowType, ViewType, Recovery!Folders
<1>3. RowsFit' /\ LeaseFits'
  BY <1>1 DEF FileInv, WindowInv, RowsFit, LeaseFits, Recovery!Folders
<1>4. WorkType' /\ destination'.whole
  BY <1>1, IdleRun DEF FileInv, WorkInv, WorkType
<1>5. \A v \in Viewers : RunFitsIn(v)'
  BY <1>1, IdleRun DEF RunFitsIn, Incomplete
<1>6. \A n \in Recovery!Copies : FolderFits(n)'
  BY <1>1 DEF FolderFits
<1> QED
  BY <1>2, <1>3, <1>4, <1>5, <1>6 DEF FileInv, WindowInv, WorkInv, Recovery!Copies

LEMMA FileStarts == Recovery!Init => FileInv
<1> SUFFICES ASSUME Recovery!Init PROVE FileInv
  OBVIOUS
<1>1. /\ parent = TRUE /\ view = [v \in Viewers |-> "new"] /\ position = [v \in Viewers |-> "top"]
      /\ rows = [v \in Viewers |-> "loading"] /\ generation = [v \in Viewers |-> 0] /\ listing = {} /\ lease = {}
      /\ release = [v \in Viewers |-> "none"]
  BY DEF Recovery!Init
<1>2. /\ recovery = [v \in Viewers |-> Recovery!Idle] /\ outcome = [v \in Viewers |-> "none"]
      /\ destination = Recovery!Users /\ killed = FALSE
      /\ folders = [n \in Recovery!Copies |-> IF n = 0 THEN Recovery!Users ELSE Recovery!Nothing]
  BY DEF Recovery!Init, Recovery!None
<1>3. WindowType
  BY <1>1 DEF WindowType, ViewType, Recovery!Folders
<1>4. RowsFit /\ LeaseFits
  BY <1>1 DEF RowsFit, LeaseFits, Recovery!Folders
<1>5. Recovery!Users \in FolderContent /\ Recovery!Users.whole
  BY DEF Recovery!Users, Recovery!Of, FolderContent, Recovery!Folders
<1>6. WorkType /\ destination.whole
  BY <1>2, <1>5, IdleRun, FolderContents DEF WorkType
<1>7. \A v \in Viewers : RunFitsIn(v)
  BY <1>2, IdleRun DEF RunFitsIn, Incomplete
<1>8. \A n \in Recovery!Copies : FolderFits(n)
  BY <1>2, <1>5, FolderContents DEF FolderFits
<1> QED
  BY <1>3, <1>4, <1>6, <1>7, <1>8 DEF FileInv, WindowInv, WorkInv

LEMMA FileKeeps == FileInv /\ Recovery!Next => FileInv'
BY KillKeeps, CloseMainKeeps, ShowKeeps, AuthorizedKeeps, CloseRequestKeeps, EndBrowseKeeps, NavigateKeeps, ExpireKeeps, ListedKeeps,
   ChooseKeeps, ChosenKeeps, AuthorizeKeeps, ExportKeeps, ReplaceKeeps, CreateKeeps, RestoreKeeps, RemoveKeeps
   DEF Recovery!Next

LEMMA FileThen == FileInv => Recovery!RecoveredIsWhole
<1> SUFFICES ASSUME FileInv PROVE Recovery!RecoveredIsWhole
  OBVIOUS
<1>1. (\A v \in Viewers : rows[v] \in Recovery!Folders => rows[v] = position[v]) /\ destination.whole
  BY DEF FileInv, WindowInv, RowsFit, WorkInv
<1>2. ASSUME NEW v \in Viewers, outcome[v] = "recovered"
      PROVE  \/ recovery[v].kind = "file" /\ destination.by \in Viewers
             \/ \E n \in Recovery!Copies : folders[n] = Recovery!Of(v, recovery[v].from, TRUE) /\ n = recovery[v].to
             \/ killed
  <2>1. RunFitsIn(v) /\ recovery[v].to \in Recovery!Copies
    BY DEF FileInv, WorkInv, WorkType, RecoveryRun
  <2> QED
    BY <1>2, <2>1 DEF RunFitsIn
<1>3. ASSUME NEW n \in Recovery!Copies, ~folders[n].whole
      PROVE  \/ killed \/ n \in admitted
             \/ recovery[folders[n].by].at \in {"filling", "cleaning"} /\ recovery[folders[n].by].to = n
  BY <1>3 DEF FileInv, WorkInv, FolderFits, Incomplete
<1>4. \A v \in lease : view[v] = "open" \/ release[v] # "none" \/ ~parent
  BY DEF FileInv, WindowInv, LeaseFits
<1> QED
  BY <1>1, <1>2, <1>3, <1>4 DEF Recovery!RecoveredIsWhole

LEMMA FileRests == FileInv /\ UNCHANGED ofRecovery => FileInv'
BY WindowRests, WorkRests DEF ofRecovery, FileInv, Recovery!Outside

\* While the browser of the past is not the program that runs, nothing of it changes.
FileBeside == program = "file recovery" => FileInv

LEMMA FileBesideHolds == ProgramSpec => []FileBeside
<1>1. ProgramInit => FileBeside
  BY FileStarts DEF ProgramInit, FileBeside
<1>2. FileBeside /\ [ProgramNext]_programVars => FileBeside'
  <2> SUFFICES ASSUME FileBeside, [ProgramNext]_programVars PROVE FileBeside'
    OBVIOUS
  <2>1. CASE ProgramNext
    <3>1. program' = program /\ (program = "file recovery" => Recovery!Next)
      BY <2>1 DEF ProgramNext
    <3> QED
      BY <3>1, FileKeeps DEF FileBeside
  <2>2. CASE UNCHANGED programVars
    <3>1. program' = program /\ UNCHANGED ofRecovery
      BY <2>2 DEF programVars
    <3> QED
      BY <3>1, FileRests DEF FileBeside
  <2> QED
    BY <2>1, <2>2
<1> QED
  BY <1>1, <1>2, PTL DEF ProgramSpec

(*****************************************************************************)
(* The page of the snapshot manager (SnapshotPage).                          *)
(*****************************************************************************)
PageType ==
  /\ version \in Nat /\ due \in Nat /\ due <= version /\ readAt \in Nat
  /\ refreshing \in {"idle", "asked", "answered"} /\ again \in BOOLEAN /\ main \in BOOLEAN
  /\ reply.kind \in {"none", "status", "unavailable", "error"} /\ reply.version \in Nat

\* A reply that comes too late for what is due is read again, and one that is not shown as a
\* list leaves no list.
ListFits ==
  /\ refreshing = "answered" => reply.kind # "none" /\ (reply.kind = "status" /\ ~again => reply.version >= due)
  /\ refreshing = "idle" /\ stack \in {"content", "empty"} => readAt >= due

SelectionFits == picked \subseteq Page!Deletable(items)

\* The restart was asked for when the dialog was answered, unless the window had gone.
RestartFits ==
  /\ warned \in BOOLEAN /\ requested \in BOOLEAN
  /\ ~requested => restarts = 0
  /\ requested => restarts = 1 \/ (restarts = 0 /\ ~main)
  /\ warned => ~requested

PageInv == PageType /\ ListFits /\ SelectionFits /\ RestartFits

LEMMA PageStarts == Page!Init => PageInv
<1> SUFFICES ASSUME Page!Init PROVE PageInv
  OBVIOUS
<1>1. reply.kind = "none" /\ reply.version = 0
  BY DEF Page!Init, Page!NoReply
<1>2. version = 0 /\ due = 0 /\ readAt = 0 /\ refreshing = "asked" /\ again = FALSE /\ main = TRUE /\ stack = "loading"
  BY DEF Page!Init
<1>4. PageType
  <2>1. again \in BOOLEAN /\ main \in BOOLEAN
    BY <1>2, Zenon
  <2> QED
    BY <1>1, <1>2, <2>1 DEF PageType
<1>5. ListFits
  BY <1>1, <1>2 DEF ListFits
<1>3. SelectionFits /\ RestartFits
  BY DEF Page!Init, SelectionFits, RestartFits
<1> QED
  BY <1>3, <1>4, <1>5 DEF PageInv

\* The service moves on; what the page holds stays.
ServiceMoves == version' \in Nat /\ version' >= version

LEMMA ServiceRests == PageInv /\ UNCHANGED Page!served => ServiceMoves
BY DEF Page!served, ServiceMoves, PageInv, PageType

LEMMA Changes ==
  ASSUME PageInv, NEW some, NEW p, Page!Change(some, p)
  PROVE  ServiceMoves
BY DEF Page!Change, ServiceMoves, PageInv, PageType

LEMMA RestartRests ==
  PageInv /\ UNCHANGED <<warned, requested, restarts>> /\ main' \in {main, FALSE} => RestartFits'
<1> SUFFICES ASSUME PageInv, UNCHANGED <<warned, requested, restarts>>, main' \in {main, FALSE} PROVE RestartFits'
  OBVIOUS
<1>1. ~main => ~main'
  BY Zenon
<1> QED
  BY <1>1 DEF PageInv, RestartFits

LEMMA SelectionRests == PageInv /\ UNCHANGED <<items, picked>> => SelectionFits'
BY DEF PageInv, SelectionFits, Page!Deletable

LEMMA ListRests ==
  PageInv /\ UNCHANGED <<stack, readAt, refreshing, reply, again, due, main>> /\ ServiceMoves => PageType' /\ ListFits'
BY DEF PageInv, PageType, ListFits, ServiceMoves

\* A refresh, and what it is for: the version up to which the list must be read.
LEMMA Refreshes ==
  ASSUME PageInv, NEW pane, Page!Refresh(pane), pane = stack, UNCHANGED <<readAt, main, version>>, due' \in {due, version}
  PROVE  PageType' /\ ListFits'
<1>1. version \in Nat /\ due \in Nat /\ due <= version /\ due' \in Nat /\ due' <= version
  BY DEF PageInv, PageType
<1>2. CASE refreshing # "idle"
  <2>1. again' = TRUE /\ UNCHANGED <<refreshing, reply, stack>>
    BY <1>2 DEF Page!Refresh
  <2> QED
    BY <1>1, <1>2, <2>1 DEF PageInv, PageType, ListFits
<1>3. CASE refreshing = "idle"
  <2>1. refreshing' = "asked" /\ UNCHANGED <<reply, again>>
    BY <1>3 DEF Page!Refresh
  <2> QED
    BY <1>1, <2>1 DEF PageInv, PageType, ListFits
<1> QED
  BY <1>2, <1>3

LEMMA DemandKeeps == PageInv /\ Page!Demand => PageInv'
<1> SUFFICES ASSUME PageInv, Page!Demand PROVE PageInv'
  OBVIOUS
<1>1. Page!Refresh(stack) /\ UNCHANGED <<version, main, items, readAt, picked, due, warned, requested, restarts>>
  BY DEF Page!Demand, Page!served, Page!restart
<1> QED
  BY <1>1, Refreshes, SelectionRests, RestartRests DEF PageInv

LEMMA QueryKeeps == PageInv /\ Page!Query => PageInv'
<1> SUFFICES ASSUME PageInv, Page!Query PROVE PageInv'
  OBVIOUS
<1>1. /\ refreshing = "asked" /\ refreshing' = "answered"
      /\ UNCHANGED <<version, main, again, stack, items, readAt, picked, due, warned, requested, restarts>>
  BY DEF Page!Query, Page!served, Page!list, Page!restart
<1>2. PICK form \in {"status", "unavailable", "error"} :
        reply' = [kind |-> form, items |-> stock, phase |-> phase, version |-> version]
  BY DEF Page!Query
<1>3. reply'.kind = form /\ reply'.version = version
  BY <1>2
<1>4. PageType' /\ ListFits'
  BY <1>1, <1>2, <1>3 DEF PageInv, PageType, ListFits
<1> QED
  BY <1>1, <1>4, SelectionRests, RestartRests DEF PageInv

LEMMA DeliverKeeps == PageInv /\ Page!Deliver => PageInv'
<1> SUFFICES ASSUME PageInv, Page!Deliver PROVE PageInv'
  OBVIOUS
<1>1. /\ refreshing = "answered" /\ again' = FALSE /\ reply' = Page!NoReply
      /\ refreshing' = IF again THEN "asked" ELSE "idle"
      /\ UNCHANGED <<version, main, due, warned, requested, restarts>>
  BY DEF Page!Deliver, Page!AskedMeanwhile, Page!served, Page!restart
<1>2. reply'.kind = "none" /\ reply'.version = 0
  BY <1>1 DEF Page!NoReply
<1>3. again \in BOOLEAN /\ reply.kind \in {"status", "unavailable", "error"} /\ reply.version \in Nat /\ readAt \in Nat
  BY <1>1 DEF PageInv, PageType, ListFits
<1>4. refreshing' \in {"idle", "asked"} /\ (refreshing' = "idle" => ~again)
  BY <1>1, <1>3
<1>5. CASE reply.kind = "status"
  <2>1. items' = reply.items /\ readAt' = reply.version /\ picked' = {}
    BY <1>5 DEF Page!Deliver
  <2>4. PageType'
    <3>1. again' \in BOOLEAN /\ main' \in BOOLEAN
      BY <1>1, Zenon DEF PageInv, PageType
    <3> QED
      BY <1>1, <1>2, <1>3, <1>4, <2>1, <3>1 DEF PageInv, PageType
  <2>5. ~again => reply.version >= due
    BY <1>1, <1>5 DEF PageInv, ListFits
  <2>2. PageType' /\ ListFits'
    BY <1>1, <1>4, <2>1, <2>4, <2>5 DEF ListFits
  <2>3. SelectionFits'
    BY <2>1 DEF SelectionFits
  <2> QED
    BY <1>1, <2>2, <2>3, RestartRests DEF PageInv
<1>6. CASE reply.kind # "status"
  <2>1. UNCHANGED <<items, readAt, picked>>
    BY <1>6 DEF Page!Deliver
  <2>2. ~again => stack' \in {"error", "unsupported"}
    BY <1>3, <1>6 DEF Page!Deliver, Page!AskedMeanwhile
  <2>4. PageType'
    <3>1. again' \in BOOLEAN /\ main' \in BOOLEAN
      BY <1>1, Zenon DEF PageInv, PageType
    <3> QED
      BY <1>1, <1>2, <1>3, <1>4, <2>1, <3>1 DEF PageInv, PageType
  <2>3. PageType' /\ ListFits'
    BY <1>1, <1>4, <2>2, <2>4 DEF ListFits
  <2> QED
    BY <1>1, <2>1, <2>3, SelectionRests, RestartRests DEF PageInv
<1> QED
  BY <1>5, <1>6

LEMMA SelectKeeps == PageInv /\ Page!Select => PageInv'
<1> SUFFICES ASSUME PageInv, Page!Select PROVE PageInv'
  OBVIOUS
<1>1. UNCHANGED <<version, main, refreshing, reply, again, stack, items, readAt, due, warned, requested, restarts>>
      /\ UNCHANGED Page!served
  BY DEF Page!Select, Page!served, Page!query, Page!restart
<1>2. PageType' /\ ListFits' /\ RestartFits'
  BY <1>1, ServiceRests, ListRests, RestartRests
<1>3. CASE picked' = {}
  BY <1>2, <1>3 DEF PageInv, SelectionFits
<1>4. CASE \E e \in Page!Deletable(items) : picked' = IF e \in picked THEN picked \ {e} ELSE picked \cup {e}
  <2>1. Page!Deletable(items)' = Page!Deletable(items)
    BY <1>1 DEF Page!Deletable
  <2>2. picked' \subseteq Page!Deletable(items)
    BY <1>4 DEF PageInv, SelectionFits
  <2> QED
    BY <1>2, <2>1, <2>2 DEF PageInv, SelectionFits
<1> QED
  BY <1>3, <1>4 DEF Page!Select

LEMMA DialogsKeep == PageInv /\ (Page!Ask \/ Page!Answer) => PageInv'
<1> SUFFICES ASSUME PageInv, Page!Ask \/ Page!Answer PROVE PageInv'
  OBVIOUS
<1>1. UNCHANGED <<Page!served, main, Page!query, Page!list, due, Page!restart>>
  BY DEF Page!Ask, Page!Answer, Page!Open
<1>2. UNCHANGED <<main, refreshing, reply, again, stack, items, readAt, picked, due, warned, requested, restarts>>
  BY <1>1 DEF Page!query, Page!list, Page!restart
<1> QED
  BY <1>1, <1>2, ServiceRests, ListRests, SelectionRests, RestartRests DEF PageInv

LEMMA ServiceAnswers == PageInv /\ (Page!Grant \/ Page!Deny) => ServiceMoves
<1>1. PageInv /\ Page!Same => ServiceMoves
  BY ServiceRests DEF Page!Same, Page!served
<1>2. ASSUME PageInv, NEW gone, Page!Removed(gone) PROVE ServiceMoves
  BY <1>2, Changes DEF Page!Removed
<1>3. ASSUME PageInv, NEW e \in Entries, Page!Created(e) PROVE ServiceMoves
  BY <1>3, Changes DEF Page!Created
<1> QED
  BY <1>1, <1>2, <1>3, Changes DEF Page!Grant, Page!Deny

LEMMA PerformKeeps == PageInv /\ Page!Perform => PageInv'
<1> SUFFICES ASSUME PageInv, Page!Perform PROVE PageInv'
  OBVIOUS
<1>1. UNCHANGED <<main, refreshing, reply, again, stack, items, readAt, picked, due, warned, requested, restarts>>
  BY DEF Page!Perform, Page!query, Page!list
<1>2. ServiceMoves
  BY ServiceAnswers DEF Page!Perform
<1> QED
  BY <1>1, <1>2, ListRests, SelectionRests, RestartRests DEF PageInv

LEMMA CompleteKeeps == PageInv /\ Page!Complete => PageInv'
<1> SUFFICES ASSUME PageInv, Page!Complete PROVE PageInv'
  OBVIOUS
<1>1. UNCHANGED <<Page!served, version, main, items, readAt, picked>>
  BY DEF Page!Complete, Page!served
<1>2. SelectionFits' /\ ServiceMoves
  BY <1>1, ServiceRests, SelectionRests
<1>3. CASE UNCHANGED <<Page!query, stack, due, Page!restart>>
  <2>1. UNCHANGED <<refreshing, reply, again, stack, due, warned, requested, restarts>>
    BY <1>3 DEF Page!query, Page!restart
  <2> QED
    BY <1>1, <1>2, <2>1, ListRests, RestartRests DEF PageInv
<1>4. CASE /\ Page!Refresh(stack) /\ due' = version
           /\ \/ UNCHANGED Page!restart
              \/ warned' = TRUE /\ requested' = FALSE /\ restarts' = 0
  <2>1. PageType' /\ ListFits'
    BY <1>1, <1>4, Refreshes
  <2>2. CASE UNCHANGED Page!restart
    BY <1>1, <1>2, <2>1, <2>2, RestartRests DEF PageInv, Page!restart
  <2>3. CASE warned' = TRUE /\ requested' = FALSE /\ restarts' = 0
    BY <1>2, <2>1, <2>3 DEF PageInv, RestartFits
  <2> QED
    BY <1>4, <2>2, <2>3
<1> QED
  BY <1>3, <1>4, Zenon DEF Page!Complete

LEMMA CountdownKeeps == PageInv /\ (Page!Respond \/ Page!Tick) => PageInv'
<1> SUFFICES ASSUME PageInv, Page!Respond \/ Page!Tick PROVE PageInv'
  OBVIOUS
<1>1. UNCHANGED <<Page!served, main, Page!query, Page!list, due>> /\ ~requested
  BY DEF Page!Respond, Page!Tick
<1>2. UNCHANGED <<main, refreshing, reply, again, stack, items, readAt, picked, due>>
  BY <1>1 DEF Page!query, Page!list
<1>3. PageType' /\ ListFits' /\ SelectionFits'
  BY <1>1, <1>2, ServiceRests, ListRests, SelectionRests
<1>4. restarts = 0 /\ main \in BOOLEAN
  BY <1>1 DEF PageInv, PageType, RestartFits
<1>5. CASE Page!Respond
  <2>1. warned' = FALSE /\ requested' = TRUE /\ restarts' = restarts + (IF main THEN 1 ELSE 0)
    BY <1>5 DEF Page!Respond, Page!RequestRestart
  <2>2. RestartFits'
    <3>1. warned' \in BOOLEAN /\ requested' \in BOOLEAN /\ ~warned' /\ requested'
      BY <2>1, Zenon
    <3>2. restarts' = 1 \/ (restarts' = 0 /\ ~main')
      BY <1>2, <1>4, <2>1
    <3> QED
      BY <3>1, <3>2, Zenon DEF RestartFits
  <2> QED
    BY <1>3, <2>2 DEF PageInv
<1>6. CASE Page!Tick
  <2>1. CASE remaining = 1
    <3>1. warned' = FALSE /\ requested' = TRUE /\ restarts' = restarts + 1
      BY <1>6, <2>1 DEF Page!Tick, Page!RequestRestart
    <3>2. RestartFits'
      <4>1. warned' \in BOOLEAN /\ requested' \in BOOLEAN /\ ~warned' /\ requested'
        BY <3>1, Zenon
      <4>2. restarts' = 1
        BY <1>4, <3>1
      <4> QED
        BY <4>1, <4>2, Zenon DEF RestartFits
    <3> QED
      BY <1>3, <3>2 DEF PageInv
  <2>2. CASE remaining # 1
    <3>1. UNCHANGED <<warned, requested, restarts>>
      BY <1>6, <2>2 DEF Page!Tick
    <3> QED
      BY <1>2, <1>3, <3>1, RestartRests DEF PageInv
  <2> QED
    BY <2>1, <2>2
<1> QED
  BY <1>5, <1>6

LEMMA OthersKeep == PageInv /\ Page!Elsewhere => PageInv'
<1> SUFFICES ASSUME PageInv, Page!Elsewhere PROVE PageInv'
  OBVIOUS
<1>1. UNCHANGED <<main, refreshing, reply, again, stack, items, readAt, picked, due, warned, requested, restarts>>
  BY DEF Page!Elsewhere, Page!query, Page!list, Page!restart
<1>2. ServiceMoves
  <2>1. ASSUME NEW gone, Page!Removed(gone) PROVE ServiceMoves
    BY <2>1, Changes DEF Page!Removed
  <2>2. ASSUME NEW e \in Entries, Page!Created(e) PROVE ServiceMoves
    BY <2>2, Changes DEF Page!Created
  <2> QED
    BY <2>1, <2>2, Changes DEF Page!Elsewhere
<1> QED
  BY <1>1, <1>2, ListRests, SelectionRests, RestartRests DEF PageInv

LEMMA PollKeeps == PageInv /\ Page!Poll => PageInv'
<1> SUFFICES ASSUME PageInv, Page!Poll PROVE PageInv'
  OBVIOUS
<1>1. Page!Refresh(stack) /\ due' = version /\ UNCHANGED <<version, main, items, readAt, picked, warned, requested, restarts>>
  BY DEF Page!Poll, Page!restart
<1> QED
  BY <1>1, Refreshes, SelectionRests, RestartRests DEF PageInv

LEMMA CloseKeeps == PageInv /\ Page!CloseMain => PageInv'
<1> SUFFICES ASSUME PageInv, Page!CloseMain PROVE PageInv'
  OBVIOUS
<1>1. /\ main' = FALSE /\ refreshing' = "idle" /\ reply' = Page!NoReply /\ again' = FALSE /\ due' = 0
      /\ readAt' = 0 /\ stack' = "loading" /\ picked' = {} /\ UNCHANGED <<version, warned, requested, restarts>>
  BY DEF Page!CloseMain, Page!served, Page!restart
<1>2. reply'.kind = "none" /\ reply'.version = 0
  BY <1>1 DEF Page!NoReply
<1>4. PageType'
  <2>1. again' \in BOOLEAN /\ main' \in BOOLEAN
    BY <1>1, Zenon
  <2> QED
    BY <1>1, <1>2, <2>1 DEF PageInv, PageType
<1>5. ListFits' /\ SelectionFits'
  BY <1>1, <1>2 DEF ListFits, SelectionFits
<1>3. PageType' /\ ListFits' /\ SelectionFits'
  BY <1>4, <1>5
<1> QED
  BY <1>1, <1>3, RestartRests DEF PageInv

LEMMA PageKeeps == PageInv /\ Page!Next => PageInv'
BY DemandKeeps, QueryKeeps, DeliverKeeps, SelectKeeps, DialogsKeep, PerformKeeps, CompleteKeeps, CountdownKeeps,
   OthersKeep, PollKeeps, CloseKeeps DEF Page!Next

LEMMA PageThen == PageInv => Page!PageIsCurrent
BY DEF PageInv, PageType, ListFits, SelectionFits, RestartFits, Page!PageIsCurrent

LEMMA PageRests == PageInv /\ UNCHANGED ofPage => PageInv'
BY DEF ofPage, PageInv, PageType, ListFits, SelectionFits, RestartFits, Page!Deletable

\* While the snapshot page is not the program that runs, nothing of it changes.
PageBeside == program = "snapshot page" => PageInv

LEMMA PageBesideHolds == ProgramSpec => []PageBeside
<1>1. ProgramInit => PageBeside
  BY PageStarts DEF ProgramInit, PageBeside
<1>2. PageBeside /\ [ProgramNext]_programVars => PageBeside'
  <2> SUFFICES ASSUME PageBeside, [ProgramNext]_programVars PROVE PageBeside'
    OBVIOUS
  <2>1. CASE ProgramNext
    <3>1. program' = program /\ (program = "snapshot page" => Page!Next)
      BY <2>1 DEF ProgramNext
    <3> QED
      BY <3>1, PageKeeps DEF PageBeside
  <2>2. CASE UNCHANGED programVars
    <3>1. program' = program /\ UNCHANGED ofPage
      BY <2>2 DEF programVars
    <3> QED
      BY <3>1, PageRests DEF PageBeside
  <2> QED
    BY <2>1, <2>2
<1> QED
  BY <1>1, <1>2, PTL DEF ProgramSpec

(*****************************************************************************)
(* The window of a long task (TaskDialog).                                   *)
(*****************************************************************************)
PollAnswer == [at : {"none", "read", "failed"}, run : Nat, marker : Int, active : BOOLEAN]
Monitoring == [on : BOOLEAN, baseline : Int, awaited : BOOLEAN, seen : BOOLEAN, startups : Nat, failures : Nat,
               poll : PollAnswer, old : Int, blind : BOOLEAN]
Buttons == {"start", "view", "busy", "unavailable"}

DialogType ==
  /\ kind \in {"task", "scrub"} /\ started \in Nat /\ uncounted \in Nat /\ uncounted <= started
  /\ busy \in BOOLEAN /\ control \in Buttons /\ monitor \in Monitoring /\ late \in Monitoring

\* What a loop has seen begin is newer than what had ended when its window was opened; until then
\* the marker of that, or a life of the service that has run nothing, tells the old run, unless the
\* window was opened without a status.
MonitorFits(m) ==
  m.on =>
    /\ m.old < started \/ (m.old = started /\ ~busy)
    /\ m.seen => m.old < started
    /\ ~m.awaited => m.seen
    /\ m.awaited => m.blind \/ m.old < started \/ m.baseline = Dialog!Marker \/ (kind = "task" /\ uncounted = started)

\* An answer that a loop has not handled yet.
AnswerFits(m, said) ==
  /\ said.at = "none" => said = Dialog!Unread
  /\ said.at = "read" =>
       /\ said.active => m.old < started
       /\ m.seen \/ (m.awaited /\ said.marker # m.baseline) => m.blind \/ said.run = 0 \/ said.run > m.old

ButtonFits == control = "busy" => starting = "asking" \/ ~preferences

ResultFits == reported.run # 0 /\ ~reported.blind => reported.run > reported.old

DialogInv ==
  /\ DialogType /\ ButtonFits /\ ResultFits
  /\ MonitorFits(monitor) /\ MonitorFits(late)
  /\ monitor.on => AnswerFits(monitor, monitor.poll)

\* The runs go on: one begins or ends, or the service loses what it ran.
SystemMoves ==
  /\ kind' = kind /\ started' \in Nat /\ uncounted' \in Nat
  /\ \/ started' = started + 1 /\ busy' = TRUE /\ uncounted' = uncounted
     \/ started' = started /\ busy' \in {busy, FALSE} /\ uncounted' \in {uncounted, started}

LEMMA SystemRests == DialogType /\ UNCHANGED <<kind, started, uncounted, busy>> => SystemMoves
BY DEF DialogType, SystemMoves

LEMMA RunMoves == DialogType /\ Dialog!Run /\ UNCHANGED <<kind, uncounted>> => SystemMoves
BY DEF DialogType, SystemMoves, Dialog!Run

LEMMA SystemType ==
  DialogType /\ SystemMoves =>
    /\ kind' \in {"task", "scrub"} /\ started' \in Nat /\ uncounted' \in Nat /\ uncounted' <= started'
    /\ busy' \in BOOLEAN /\ started' >= started
<1> SUFFICES ASSUME DialogType, SystemMoves
    PROVE  /\ kind' \in {"task", "scrub"} /\ started' \in Nat /\ uncounted' \in Nat /\ uncounted' <= started'
           /\ busy' \in BOOLEAN /\ started' >= started
  OBVIOUS
<1>1. kind' \in {"task", "scrub"} /\ started' \in Nat /\ uncounted' \in Nat
  BY DEF DialogType, SystemMoves
<1>2. busy' \in BOOLEAN
  BY Zenon DEF DialogType, SystemMoves
<1>3. started \in Nat /\ uncounted \in Nat /\ uncounted <= started
  BY DEF DialogType
<1>4. (started' = started + 1 /\ uncounted' = uncounted) \/ (started' = started /\ uncounted' \in {uncounted, started})
  BY DEF SystemMoves
<1> QED
  BY <1>1, <1>2, <1>3, <1>4

LEMMA WatchKept ==
  ASSUME DialogType, SystemMoves, NEW m \in Monitoring, MonitorFits(m)
  PROVE  m.on =>
           /\ m.old < started' \/ (m.old = started' /\ ~busy')
           /\ m.seen => m.old < started'
           /\ ~m.awaited => m.seen
           /\ m.awaited => m.blind \/ m.old < started' \/ m.baseline = Dialog!Marker' \/ (kind' = "task" /\ uncounted' = started')
<1> SUFFICES ASSUME m.on
    PROVE /\ m.old < started' \/ (m.old = started' /\ ~busy')
          /\ m.seen => m.old < started'
          /\ ~m.awaited => m.seen
          /\ m.awaited => m.blind \/ m.old < started' \/ m.baseline = Dialog!Marker' \/ (kind' = "task" /\ uncounted' = started')
  OBVIOUS
<1>1. m.old \in Int /\ m.baseline \in Int /\ started \in Nat /\ uncounted \in Nat /\ m.awaited \in BOOLEAN
      /\ m.seen \in BOOLEAN
  BY DEF Monitoring, DialogType
<1>2. CASE started' = started + 1
  BY <1>1, <1>2 DEF MonitorFits
<1>4. busy' \in {busy, FALSE} => (~busy => ~busy')
  BY Zenon
<1>3. CASE started' = started /\ busy' \in {busy, FALSE} /\ uncounted' \in {uncounted, started}
  <2>1. kind \in {"task", "scrub"} /\ kind' = kind
    BY DEF SystemMoves, DialogType
  <2>2. CASE kind = "task"
    <3>1. Dialog!Marker = started - uncounted /\ Dialog!Marker' = started' - uncounted'
      BY <2>1, <2>2 DEF Dialog!Marker
    <3> QED
      BY <1>1, <1>3, <1>4, <2>1, <2>2, <3>1 DEF MonitorFits
  <2>3. CASE kind = "scrub"
    <3>1. Dialog!Marker = started /\ Dialog!Marker' = started'
      BY <2>1, <2>3 DEF Dialog!Marker
    <3> QED
      BY <1>1, <1>3, <1>4, <2>1, <2>3, <3>1 DEF MonitorFits
  <2> QED
    BY <2>1, <2>2, <2>3
<1> QED
  BY <1>2, <1>3 DEF SystemMoves

LEMMA AnswerKept ==
  ASSUME DialogType, SystemMoves, NEW m \in Monitoring, NEW said \in PollAnswer, AnswerFits(m, said)
  PROVE  said.at = "read" =>
           /\ said.active => m.old < started'
           /\ m.seen \/ (m.awaited /\ said.marker # m.baseline) => m.blind \/ said.run = 0 \/ said.run > m.old
<1>1. m.old \in Int /\ started \in Nat /\ started' \in Nat /\ started' >= started
  BY SystemType DEF Monitoring, DialogType
<1> QED
  BY <1>1 DEF AnswerFits

LEMMA NoMonitorFits == Dialog!NoMonitor \in Monitoring /\ ~Dialog!NoMonitor.on /\ Dialog!Unread \in PollAnswer
                       /\ Dialog!Unread.at = "none" /\ Dialog!Defaults \in PollAnswer /\ Dialog!Defaults.run = 0
                       /\ Dialog!Defaults.at = "read" /\ ~Dialog!Defaults.active
<1>1. Dialog!Unread \in PollAnswer /\ Dialog!Unread.at = "none"
  BY DEF Dialog!Unread, PollAnswer
<1>2. PICK said \in PollAnswer : said = Dialog!Unread
  BY <1>1
<1>3. Dialog!NoMonitor \in Monitoring /\ ~Dialog!NoMonitor.on
  BY <1>2 DEF Dialog!NoMonitor, Monitoring
<1>4. /\ Dialog!Defaults \in PollAnswer /\ Dialog!Defaults.run = 0
      /\ Dialog!Defaults.at = "read" /\ ~Dialog!Defaults.active
  <2>1. Dialog!Defaults = [said EXCEPT !.at = "read"]
    BY <1>2 DEF Dialog!Defaults
  <2>2. said.run = 0 /\ ~said.active
    BY <1>2, Zenon DEF Dialog!Unread
  <2> QED
    BY <2>1, <2>2 DEF PollAnswer
<1> QED
  BY <1>1, <1>3, <1>4

\* The loops go on as they were.
LEMMA LoopsRest ==
  ASSUME DialogInv, SystemMoves, UNCHANGED <<monitor, late>>
  PROVE  /\ monitor' \in Monitoring /\ late' \in Monitoring /\ MonitorFits(monitor)' /\ MonitorFits(late)'
         /\ (monitor.on => AnswerFits(monitor, monitor.poll))'
<1>1. DialogType /\ monitor \in Monitoring /\ late \in Monitoring /\ monitor.poll \in PollAnswer
  BY DEF DialogInv, DialogType, Monitoring
<1>2. MonitorFits(monitor)'
  BY <1>1, WatchKept DEF DialogInv, MonitorFits
<1>3. MonitorFits(late)'
  BY <1>1, WatchKept DEF DialogInv, MonitorFits
<1>4. (monitor.on => AnswerFits(monitor, monitor.poll))'
  BY <1>1, AnswerKept DEF DialogInv, AnswerFits
<1> QED
  BY <1>1, <1>2, <1>3, <1>4

LEMMA DialogBecomes ==
  ASSUME DialogInv, SystemMoves, control' \in Buttons, ButtonFits', ResultFits',
         monitor' \in Monitoring, late' \in Monitoring, MonitorFits(monitor)', MonitorFits(late)',
         (monitor.on => AnswerFits(monitor, monitor.poll))'
  PROVE  DialogInv'
<1>1. DialogType'
  BY SystemType DEF DialogInv, DialogType
<1> QED
  BY <1>1 DEF DialogInv

LEMMA StatusFits == DialogType => Dialog!Status \in PollAnswer
<1> SUFFICES ASSUME DialogType PROVE Dialog!Status \in PollAnswer
  OBVIOUS
<1>1. Dialog!Known \in Nat /\ Dialog!Marker \in Int /\ busy \in BOOLEAN
  BY DEF DialogType, Dialog!Known, Dialog!Marker
<1> QED
  BY <1>1 DEF Dialog!Status, PollAnswer

\* The window of a run, just opened.
LEMMA OpenedFits ==
  ASSUME DialogInv, NEW wait \in BOOLEAN, NEW said \in PollAnswer, Dialog!Opened(wait, said),
         wait \/ said = Dialog!Unread, UNCHANGED <<kind, started, uncounted, busy>>
  PROVE  /\ monitor' \in Monitoring /\ MonitorFits(monitor)' /\ ResultFits'
         /\ (monitor.on => AnswerFits(monitor, monitor.poll))'
<1>1. started \in Nat /\ uncounted \in Nat /\ said.marker \in Int /\ busy \in BOOLEAN
  BY DEF DialogInv, DialogType, PollAnswer
<1>2. reported'.run = 0
  BY DEF Dialog!Opened, Dialog!NoResult
<1> DEFINE ended == IF busy \/ ~wait THEN started - 1 ELSE started
           unknown == (wait /\ said # Dialog!Status)
<1>3. monitor' = [on |-> TRUE, baseline |-> said.marker, awaited |-> wait, seen |-> ~wait, startups |-> 0,
                  failures |-> 0, poll |-> Dialog!Unread, old |-> ended, blind |-> unknown]
  BY DEF Dialog!Opened, Dialog!NoMonitor
<1>4. ended \in Int /\ unknown \in BOOLEAN
  BY <1>1
<1>5. ended < started \/ (ended = started /\ ~busy /\ wait)
  BY <1>1
<1>6. wait /\ ~unknown => said.marker = Dialog!Marker
  BY DEF Dialog!Status
<1> HIDE DEF ended, unknown
<1>7. monitor' \in Monitoring
  BY <1>1, <1>3, <1>4, NoMonitorFits DEF Monitoring
<1>8. MonitorFits(monitor)'
  <2>1. Dialog!Marker' = Dialog!Marker
    BY DEF Dialog!Marker
  <2>2. monitor'.awaited = wait /\ monitor'.seen = ~wait /\ monitor'.baseline = said.marker
        /\ monitor'.old = ended /\ monitor'.blind = unknown
    BY <1>3
  <2> QED
    BY <1>1, <1>5, <1>6, <2>1, <2>2 DEF MonitorFits
<1>9. (monitor.on => AnswerFits(monitor, monitor.poll))'
  BY <1>3, NoMonitorFits DEF AnswerFits
<1> QED
  BY <1>2, <1>7, <1>8, <1>9 DEF ResultFits

LEMMA DialogStarts == Dialog!Init => DialogInv
<1> SUFFICES ASSUME Dialog!Init PROVE DialogInv
  OBVIOUS
<1>1. DialogType
  <2>1. busy \in BOOLEAN
    BY Zenon DEF Dialog!Init
  <2>2. kind \in {"task", "scrub"} /\ started \in Nat /\ uncounted = 0 /\ monitor \in Monitoring /\ late \in Monitoring
    BY NoMonitorFits DEF Dialog!Init
  <2>3. control \in Buttons
    BY <2>1 DEF Dialog!Init, Dialog!Shows, Buttons
  <2> QED
    BY <2>1, <2>2, <2>3 DEF DialogType
<1>2. monitor = Dialog!NoMonitor /\ late = Dialog!NoMonitor /\ reported.run = 0 /\ control # "busy"
  BY DEF Dialog!Init, Dialog!NoResult, Dialog!Shows
<1> QED
  BY <1>1, <1>2, NoMonitorFits DEF DialogInv, MonitorFits, ButtonFits, ResultFits

LEMMA ClickKeeps == DialogInv /\ Dialog!Click => DialogInv'
<1> SUFFICES ASSUME DialogInv, Dialog!Click PROVE DialogInv'
  OBVIOUS
<1>1. UNCHANGED <<kind, started, uncounted, busy, preferences, late>>
  BY DEF Dialog!Click, Dialog!system
<1>2. SystemMoves
  BY <1>1, SystemRests DEF DialogInv
<1>3. CASE control = "view" /\ Dialog!Opened(FALSE, Dialog!Unread) /\ control' = control
  <2>1. control' \in Buttons /\ ButtonFits'
    BY <1>3 DEF Buttons, ButtonFits
  <2>2. monitor' \in Monitoring /\ MonitorFits(monitor)' /\ ResultFits'
        /\ (monitor.on => AnswerFits(monitor, monitor.poll))'
    BY <1>1, <1>3, OpenedFits, NoMonitorFits
  <2>3. late' \in Monitoring /\ MonitorFits(late)'
    BY <1>1, <1>2, WatchKept DEF DialogInv, DialogType, MonitorFits
  <2> QED
    BY <1>2, <2>1, <2>2, <2>3, DialogBecomes
<1>4. CASE control' = "busy" /\ starting' = "asking" /\ Dialog!NotOpened
  <2>1. control' \in Buttons /\ ButtonFits' /\ ResultFits' /\ UNCHANGED monitor
    BY <1>4 DEF Buttons, ButtonFits, Dialog!NotOpened, DialogInv, ResultFits
  <2> QED
    BY <1>1, <1>2, <2>1, LoopsRest, DialogBecomes
<1> QED
  BY <1>3, <1>4 DEF Dialog!Click

LEMMA BaselineKeeps == DialogInv /\ Dialog!Baseline => DialogInv'
<1> SUFFICES ASSUME DialogInv, Dialog!Baseline PROVE DialogInv'
  OBVIOUS
<1>1. UNCHANGED <<kind, started, uncounted, busy, preferences, late>>
  BY DEF Dialog!Baseline, Dialog!system
<1>2. SystemMoves
  BY <1>1, SystemRests DEF DialogInv
<1>5. Dialog!Status \in PollAnswer
  BY StatusFits DEF DialogInv
<1>3. CASE control' = "view" /\ \E said \in {Dialog!Status, Dialog!Defaults} : Dialog!Opened(TRUE, said)
  <2>1. control' \in Buttons /\ ButtonFits'
    BY <1>3 DEF Buttons, ButtonFits
  <2>2. monitor' \in Monitoring /\ MonitorFits(monitor)' /\ ResultFits'
        /\ (monitor.on => AnswerFits(monitor, monitor.poll))'
    <3>1. PICK said \in PollAnswer : Dialog!Opened(TRUE, said)
      BY <1>3, <1>5, NoMonitorFits
    <3> QED
      BY <1>1, <3>1, OpenedFits
  <2>3. late' \in Monitoring /\ MonitorFits(late)'
    BY <1>1, <1>2, WatchKept DEF DialogInv, DialogType, MonitorFits
  <2> QED
    BY <1>2, <2>1, <2>2, <2>3, DialogBecomes
<1>4. CASE Dialog!NotOpened /\ (control' = "unavailable" \/ (~preferences /\ control' = control))
  <2>1. control' \in Buttons /\ ButtonFits' /\ ResultFits' /\ UNCHANGED monitor
    BY <1>1, <1>4 DEF Buttons, ButtonFits, Dialog!NotOpened, DialogInv, DialogType, ResultFits
  <2> QED
    BY <1>1, <1>2, <2>1, LoopsRest, DialogBecomes
<1> QED
  BY <1>3, <1>4, Zenon DEF Dialog!Baseline

LEMMA StartedKeeps == DialogInv /\ Dialog!Started => DialogInv'
<1> SUFFICES ASSUME DialogInv, Dialog!Started PROVE DialogInv'
  OBVIOUS
<1>1. starting = "calling" /\ UNCHANGED <<kind, uncounted, preferences, reported>> /\ ResultFits'
  BY DEF Dialog!Started, DialogInv, ResultFits
<1>2. CASE Dialog!Run /\ UNCHANGED <<control, monitor, late>>
  <2>1. SystemMoves
    BY <1>1, <1>2, RunMoves DEF DialogInv
  <2>2. control' \in Buttons /\ ButtonFits'
    BY <1>1, <1>2 DEF ButtonFits, DialogInv, DialogType
  <2> QED
    BY <1>1, <1>2, <2>1, <2>2, LoopsRest, DialogBecomes
<1>3. CASE /\ control' = "start" /\ monitor' = Dialog!NoMonitor /\ UNCHANGED <<started, busy>>
           /\ late' = IF monitor.on THEN [monitor EXCEPT !.poll = Dialog!Unread] ELSE late
  <2>1. SystemMoves
    BY <1>1, <1>3, SystemRests DEF DialogInv
  <2>2. monitor \in Monitoring /\ late \in Monitoring /\ Dialog!Unread \in PollAnswer
    BY NoMonitorFits DEF DialogInv, DialogType
  <2> DEFINE handed == [monitor EXCEPT !.poll = Dialog!Unread]
  <2>3. handed \in Monitoring
    BY <2>2 DEF Monitoring
  <2>4. handed.on = monitor.on /\ handed.old = monitor.old /\ handed.seen = monitor.seen
        /\ handed.awaited = monitor.awaited /\ handed.baseline = monitor.baseline /\ handed.blind = monitor.blind
    BY <2>2 DEF Monitoring
  <2>5. MonitorFits(handed)
    BY <2>4 DEF MonitorFits, DialogInv
  <2>6. late' \in {handed, late}
    BY <1>3
  <2> HIDE DEF handed
  <2>7. late' \in Monitoring /\ MonitorFits(late')
    BY <2>2, <2>3, <2>5, <2>6 DEF DialogInv
  <2>8. MonitorFits(late)'
    BY <2>1, <2>7, WatchKept DEF MonitorFits, DialogInv
  <2>9. monitor' \in Monitoring /\ ~monitor'.on /\ control' \in Buttons /\ ButtonFits'
    BY <1>3, NoMonitorFits DEF Buttons, ButtonFits
  <2> QED
    BY <1>1, <2>1, <2>7, <2>8, <2>9, DialogBecomes DEF MonitorFits
<1> QED
  BY <1>2, <1>3 DEF Dialog!Started

LEMMA StartedEarlierKeeps == DialogInv /\ Dialog!StartedEarlier => DialogInv'
<1> SUFFICES ASSUME DialogInv, Dialog!StartedEarlier PROVE DialogInv'
  OBVIOUS
<1>1. UNCHANGED <<kind, uncounted, preferences, starting, monitor, late, reported>>
      /\ ((Dialog!Run /\ control' = control) \/ (control' = "start" /\ UNCHANGED <<started, busy>>))
  <2>1. UNCHANGED <<kind, uncounted, preferences, starting, late>> /\ Dialog!NotOpened
        /\ ((Dialog!Run /\ control' = control) \/ (control' = "start" /\ UNCHANGED <<started, busy>>))
    BY Zenon DEF Dialog!StartedEarlier
  <2> QED
    BY <2>1 DEF Dialog!NotOpened
<1>2. SystemMoves
  BY <1>1, RunMoves, SystemRests DEF DialogInv
<1>3. control' \in Buttons /\ ButtonFits' /\ ResultFits'
  BY <1>1 DEF Buttons, ButtonFits, ResultFits, DialogInv, DialogType
<1> QED
  BY <1>1, <1>2, <1>3, LoopsRest, DialogBecomes

\* What a poll may find.
LEMMA WhatIsRead ==
  ASSUME DialogType, NEW m \in Monitoring, MonitorFits(m), m.on, NEW said \in Dialog!Answers
  PROVE  said \in PollAnswer /\ AnswerFits(m, said)
<1>1. started \in Nat /\ uncounted \in Nat /\ Dialog!Marker \in Int /\ Dialog!Known \in {0, started} /\ m.old \in Int
  BY DEF DialogType, Dialog!Marker, Dialog!Known, Monitoring
<1>2. CASE said = [Dialog!Unread EXCEPT !.at = "failed"]
  <2>1. said \in PollAnswer /\ said.at = "failed"
    BY <1>2, NoMonitorFits DEF PollAnswer
  <2> QED
    BY <2>1 DEF AnswerFits
<1>3. CASE said = Dialog!Status
  <2>1. said \in PollAnswer
    BY <1>3, StatusFits
  <2>2. said.run = Dialog!Known /\ said.marker = Dialog!Marker /\ (said.active <=> busy) /\ said.at = "read"
    BY <1>3 DEF Dialog!Status
  <2>3. said.active => m.old < started
    BY <2>2 DEF MonitorFits
  <2>4. m.seen => said.run = 0 \/ said.run > m.old
    BY <1>1, <2>2 DEF MonitorFits
  <2>5. m.awaited /\ said.marker # m.baseline => m.blind \/ said.run = 0 \/ said.run > m.old
    BY <1>1, <2>2 DEF MonitorFits, Dialog!Known
  <2> QED
    BY <2>1, <2>2, <2>3, <2>4, <2>5 DEF AnswerFits
<1>4. CASE said = Dialog!Defaults
  BY <1>4, NoMonitorFits DEF AnswerFits
<1> QED
  BY <1>2, <1>3, <1>4 DEF Dialog!Answers

LEMMA ReadKeeps == DialogInv /\ Dialog!Read => DialogInv'
<1> SUFFICES ASSUME DialogInv, Dialog!Read PROVE DialogInv'
  OBVIOUS
<1>1. UNCHANGED <<kind, started, uncounted, busy, preferences, control, starting, late, reported>> /\ monitor.on
  BY DEF Dialog!Read, Dialog!system
<1>2. SystemMoves /\ DialogType /\ monitor \in Monitoring /\ MonitorFits(monitor)
  BY <1>1, SystemRests DEF DialogInv, DialogType
<1>3. PICK said \in Dialog!Answers : monitor' = [monitor EXCEPT !.poll = said]
  BY DEF Dialog!Read
<1>4. said \in PollAnswer /\ AnswerFits(monitor, said)
  BY <1>1, <1>2, <1>3, WhatIsRead
<1>5. /\ monitor' \in Monitoring /\ monitor'.poll = said /\ monitor'.on /\ monitor'.old = monitor.old
      /\ monitor'.seen = monitor.seen /\ monitor'.awaited = monitor.awaited /\ monitor'.baseline = monitor.baseline
      /\ monitor'.blind = monitor.blind
  BY <1>1, <1>2, <1>3, <1>4 DEF Monitoring
<1>6. MonitorFits(monitor)'
  BY <1>1, <1>2, <1>5, WatchKept DEF MonitorFits
<1>7. (monitor.on => AnswerFits(monitor, monitor.poll))'
  BY <1>1, <1>4, <1>5 DEF AnswerFits
<1>8. late' \in Monitoring /\ MonitorFits(late)'
  BY <1>1, <1>2, WatchKept DEF DialogInv, DialogType, MonitorFits
<1>9. control' \in Buttons /\ ButtonFits' /\ ResultFits'
  BY <1>1 DEF ButtonFits, ResultFits, DialogInv, DialogType
<1> QED
  BY <1>2, <1>5, <1>6, <1>7, <1>8, <1>9, DialogBecomes

LEMMA WhatIsPresented ==
  ASSUME DialogInv, NEW m \in Monitoring, MonitorFits(m), m.on, AnswerFits(m, m.poll), Dialog!Presents(m)
  PROVE  control' \in {"start", "view", "unavailable", control} /\ ResultFits'
<1>1. control' \in {"start", "view", "unavailable", control}
  BY DEF Dialog!Presents
<1>2. CASE reported' = reported
  BY <1>1, <1>2 DEF DialogInv, ResultFits
<1>3. CASE Dialog!Over(m) /\ reported' = [run |-> m.poll.run, old |-> m.old, blind |-> m.blind]
  <2>1. reported'.run = m.poll.run /\ reported'.old = m.old /\ reported'.blind = m.blind
    BY <1>3
  <2>2. m.poll.at = "read" /\ (m.seen \/ (m.awaited /\ m.poll.marker # m.baseline))
    BY <1>3 DEF Dialog!Over, Dialog!Seen
  <2> QED
    BY <1>1, <2>1, <2>2 DEF AnswerFits, ResultFits
<1>4. reported' = reported \/ (Dialog!Over(m) /\ reported' = [run |-> m.poll.run, old |-> m.old, blind |-> m.blind])
  <2>1. reported' = IF Dialog!Over(m) /\ preferences THEN [run |-> m.poll.run, old |-> m.old, blind |-> m.blind] ELSE reported
    BY DEF Dialog!Presents
  <2> QED
    BY <2>1, Zenon
<1> QED
  BY <1>2, <1>3, <1>4

\* A poll that does not end the loop.
LEMMA GoesOnWatching ==
  ASSUME DialogType, NEW m \in Monitoring, MonitorFits(m), m.on, AnswerFits(m, m.poll), m.poll # Dialog!Unread,
         ~Dialog!Over(m)
  PROVE  Dialog!Judged(m) \in Monitoring /\ MonitorFits(Dialog!Judged(m)) /\ Dialog!Judged(m).poll = Dialog!Unread
<1> DEFINE after == Dialog!Judged(m)
<1>0. m.old \in Int /\ m.failures \in Nat /\ m.startups \in Nat
  BY DEF Monitoring
<1> SUFFICES after \in Monitoring /\ MonitorFits(after) /\ after.poll = Dialog!Unread
  OBVIOUS
<1>1. CASE m.poll.at = "failed"
  <2>1. after = [m EXCEPT !.failures = m.failures + 1, !.poll = Dialog!Unread]
    BY <1>1 DEF Dialog!Judged
  <2> DEFINE one == [m EXCEPT !.failures = m.failures + 1]
  <2>3. one \in Monitoring /\ one.on = m.on /\ one.old = m.old /\ one.seen = m.seen
        /\ one.awaited = m.awaited /\ one.baseline = m.baseline /\ one.blind = m.blind
    <3>1. m.failures + 1 \in Nat
      BY <1>0
    <3>2. one \in Monitoring
      BY <3>1 DEF Monitoring
    <3> QED
      BY <3>2 DEF Monitoring
  <2>4. after = [one EXCEPT !.poll = Dialog!Unread]
    BY <2>1
  <2> HIDE DEF one, after
  <2>2. /\ after \in Monitoring /\ after.poll = Dialog!Unread /\ after.on = m.on /\ after.old = m.old
        /\ after.seen = m.seen /\ after.awaited = m.awaited /\ after.baseline = m.baseline /\ after.blind = m.blind
    BY <2>3, <2>4, NoMonitorFits DEF Monitoring
  <2> QED
    BY <2>2 DEF MonitorFits
<1>2. CASE m.poll.at # "failed"
  <2>1. Dialog!Seen(m) \in BOOLEAN /\ m.startups \in Nat
    BY DEF Dialog!Seen, Monitoring, PollAnswer
  <2>2. after = [m EXCEPT !.failures = 0, !.seen = Dialog!Seen(m),
                          !.startups = IF Dialog!Seen(m) THEN m.startups ELSE m.startups + 1, !.poll = Dialog!Unread]
    BY <1>2 DEF Dialog!Judged
  <2>3. /\ after \in Monitoring /\ after.poll = Dialog!Unread /\ after.on = m.on /\ after.old = m.old
        /\ after.seen = Dialog!Seen(m) /\ after.awaited = m.awaited /\ after.baseline = m.baseline /\ after.blind = m.blind
    <3> HIDE DEF after
    <3> DEFINE one == [[m EXCEPT !.failures = 0] EXCEPT !.seen = Dialog!Seen(m)]
               two == [one EXCEPT !.startups = IF Dialog!Seen(m) THEN m.startups ELSE m.startups + 1]
    <3>1. one \in Monitoring /\ one.on = m.on /\ one.old = m.old /\ one.seen = Dialog!Seen(m)
          /\ one.awaited = m.awaited /\ one.baseline = m.baseline /\ one.blind = m.blind
      <4>1. [m EXCEPT !.failures = 0] \in Monitoring
        BY DEF Monitoring
      <4> QED
        BY <2>1, <4>1 DEF Monitoring
    <3>2. after = [two EXCEPT !.poll = Dialog!Unread]
      BY <2>2
    <3>3. (IF Dialog!Seen(m) THEN m.startups ELSE m.startups + 1) \in Nat
      BY <2>1
    <3> HIDE DEF one
    <3>4. two \in Monitoring /\ two.on = one.on /\ two.old = one.old /\ two.seen = one.seen
          /\ two.awaited = one.awaited /\ two.baseline = one.baseline /\ two.blind = one.blind
      BY <3>1, <3>3 DEF Monitoring
    <3> HIDE DEF two
    <3> QED
      BY <3>1, <3>2, <3>4, NoMonitorFits DEF Monitoring
  <2> HIDE DEF after
  <2>4. m.poll.at = "read"
    BY <1>2 DEF AnswerFits, Monitoring, PollAnswer
  <2>5. Dialog!Seen(m) => m.old < started
    BY <2>4 DEF Dialog!Over, AnswerFits, Dialog!Seen
  <2>6. m.seen => Dialog!Seen(m)
    BY DEF Dialog!Seen
  <2> QED
    BY <2>3, <2>5, <2>6 DEF MonitorFits
<1> QED
  BY <1>1, <1>2

LEMMA HandleKeeps == DialogInv /\ Dialog!Handle => DialogInv'
<1> SUFFICES ASSUME DialogInv, Dialog!Handle PROVE DialogInv'
  OBVIOUS
<1>1. /\ UNCHANGED <<kind, started, uncounted, busy, preferences, starting, late>>
      /\ monitor.on /\ monitor.poll # Dialog!Unread /\ Dialog!Presents(monitor)
  BY DEF Dialog!Handle, Dialog!system
<1>2. SystemMoves /\ DialogType /\ monitor \in Monitoring /\ MonitorFits(monitor) /\ AnswerFits(monitor, monitor.poll)
  BY <1>1, SystemRests DEF DialogInv, DialogType
<1>3. control' \in {"start", "view", "unavailable", control} /\ ResultFits'
  BY <1>1, <1>2, WhatIsPresented
<1>4. control' \in Buttons /\ ButtonFits'
  BY <1>1, <1>3 DEF DialogInv, DialogType, Buttons, ButtonFits
<1>5. late' \in Monitoring /\ MonitorFits(late)'
  BY <1>1, <1>2, WatchKept DEF DialogInv, DialogType, MonitorFits
<1>6. CASE monitor' = Dialog!NoMonitor
  BY <1>2, <1>3, <1>4, <1>5, <1>6, NoMonitorFits, DialogBecomes DEF MonitorFits
<1>7. CASE ~Dialog!Over(monitor) /\ monitor' = Dialog!Judged(monitor)
  <2>1. monitor' \in Monitoring /\ MonitorFits(monitor') /\ monitor'.poll = Dialog!Unread
    BY <1>1, <1>2, <1>7, GoesOnWatching
  <2>2. MonitorFits(monitor)'
    BY <1>2, <2>1, WatchKept DEF MonitorFits
  <2>3. (monitor.on => AnswerFits(monitor, monitor.poll))'
    BY <2>1, NoMonitorFits DEF AnswerFits
  <2> QED
    BY <1>2, <1>3, <1>4, <1>5, <2>1, <2>2, <2>3, DialogBecomes
<1> QED
  BY <1>6, <1>7, Zenon DEF Dialog!Handle, Dialog!Ends

LEMMA HandleLateKeeps == DialogInv /\ Dialog!HandleLate => DialogInv'
<1> SUFFICES ASSUME DialogInv, Dialog!HandleLate PROVE DialogInv'
  OBVIOUS
<1>1. UNCHANGED <<kind, started, uncounted, busy, preferences, starting, monitor>> /\ late.on /\ late' = Dialog!NoMonitor
  BY DEF Dialog!HandleLate, Dialog!system
<1>2. SystemMoves /\ DialogType /\ late \in Monitoring /\ MonitorFits(late)
  BY <1>1, SystemRests DEF DialogInv, DialogType
<1>3. PICK said \in Dialog!Answers : Dialog!Presents([late EXCEPT !.poll = said])
  BY DEF Dialog!HandleLate
<1>4. said \in PollAnswer /\ AnswerFits(late, said)
  BY <1>1, <1>2, WhatIsRead
<1> DEFINE m == [late EXCEPT !.poll = said]
<1>5. /\ m \in Monitoring /\ m.poll = said /\ m.on /\ m.old = late.old
      /\ m.seen = late.seen /\ m.awaited = late.awaited /\ m.baseline = late.baseline
      /\ m.blind = late.blind
  BY <1>1, <1>2, <1>4 DEF Monitoring
<1>6. Dialog!Presents(m)
  BY <1>3
<1> HIDE DEF m
<1>7. MonitorFits(m) /\ AnswerFits(m, m.poll)
  <2>1. MonitorFits(m)
    <3>1. late.seen \in BOOLEAN /\ late.awaited \in BOOLEAN /\ late.old \in Int /\ started \in Nat
      BY <1>2 DEF Monitoring, DialogType
    <3>2. late.seen => m.old < started
      BY <1>1, <1>2, <1>5, <3>1 DEF MonitorFits
    <3>3. m.seen => m.old < started
      BY <1>5, <3>1, <3>2
    <3>4. ~m.awaited => m.seen
      BY <1>1, <1>2, <1>5, <3>1 DEF MonitorFits
    <3> QED
      BY <1>1, <1>2, <1>5, <3>1, <3>3, <3>4 DEF MonitorFits
  <2>2. AnswerFits(m, said)
    BY <1>4, <1>5 DEF AnswerFits
  <2> QED
    BY <1>5, <2>1, <2>2
<1>8. control' \in {"start", "view", "unavailable", control} /\ ResultFits'
  BY <1>5, <1>6, <1>7, WhatIsPresented
<1>9. control' \in Buttons /\ ButtonFits'
  BY <1>1, <1>8 DEF DialogInv, DialogType, Buttons, ButtonFits
<1>10. monitor' \in Monitoring /\ MonitorFits(monitor)'
  BY <1>1, <1>2, WatchKept DEF DialogInv, DialogType, MonitorFits
<1>11. (monitor.on => AnswerFits(monitor, monitor.poll))'
  <2>1. monitor \in Monitoring /\ monitor.poll \in PollAnswer
    BY DEF DialogInv, DialogType, Monitoring
  <2> QED
    BY <1>1, <1>2, <2>1, AnswerKept DEF DialogInv, AnswerFits
<1> QED
  BY <1>1, <1>2, <1>8, <1>9, <1>10, <1>11, NoMonitorFits, DialogBecomes DEF MonitorFits

LEMMA BesideKeeps == DialogInv /\ (Dialog!Elsewhere \/ Dialog!Restart \/ Dialog!Leave) => DialogInv'
<1> SUFFICES ASSUME DialogInv, Dialog!Elsewhere \/ Dialog!Restart \/ Dialog!Leave PROVE DialogInv'
  OBVIOUS
<1>1. UNCHANGED <<control, starting, monitor, late, reported>> /\ preferences' \in {preferences, FALSE}
  BY DEF Dialog!Elsewhere, Dialog!Restart, Dialog!Leave, Dialog!Window
<1>2. SystemMoves
  <2>1. CASE Dialog!Elsewhere
    <3>1. CASE Dialog!Run
      BY <2>1, <3>1, RunMoves DEF Dialog!Elsewhere, DialogInv
    <3>2. CASE Dialog!Cancel
      BY <2>1, <3>2 DEF Dialog!Elsewhere, Dialog!Cancel, SystemMoves, DialogInv, DialogType
    <3> QED
      BY <2>1, <3>1, <3>2 DEF Dialog!Elsewhere
  <2>2. CASE Dialog!Restart
    <3>1. busy' \in {busy, FALSE}
      BY <2>2, Zenon DEF Dialog!Restart, DialogInv, DialogType
    <3> QED
      BY <2>2, <3>1 DEF Dialog!Restart, SystemMoves, DialogInv, DialogType
  <2>3. CASE Dialog!Leave
    BY <2>3, SystemRests DEF Dialog!Leave, Dialog!system, DialogInv
  <2> QED
    BY <2>1, <2>2, <2>3
<1>4. ~preferences => ~preferences'
  BY <1>1, Zenon
<1>3. control' \in Buttons /\ ButtonFits' /\ ResultFits'
  BY <1>1, <1>4 DEF ButtonFits, ResultFits, DialogInv, DialogType
<1> QED
  BY <1>1, <1>2, <1>3, LoopsRest, DialogBecomes

LEMMA DialogKeeps == DialogInv /\ Dialog!Next => DialogInv'
BY ClickKeeps, BaselineKeeps, StartedKeeps, StartedEarlierKeeps, ReadKeeps, HandleKeeps, HandleLateKeeps, BesideKeeps
   DEF Dialog!Next

LEMMA DialogThen == DialogInv => Dialog!ResultIsOfItsRun
BY DEF DialogInv, DialogType, ResultFits, ButtonFits, Buttons, Dialog!ResultIsOfItsRun

LEMMA DialogRests == DialogInv /\ UNCHANGED ofDialog => DialogInv'
BY DEF ofDialog, DialogInv, DialogType, ResultFits, ButtonFits, MonitorFits, AnswerFits, Dialog!Marker

\* While the dialog of a long task is not the program that runs, nothing of it changes.
DialogBeside == program = "task dialog" => DialogInv

LEMMA DialogBesideHolds == ProgramSpec => []DialogBeside
<1>1. ProgramInit => DialogBeside
  BY DialogStarts DEF ProgramInit, DialogBeside
<1>2. DialogBeside /\ [ProgramNext]_programVars => DialogBeside'
  <2> SUFFICES ASSUME DialogBeside, [ProgramNext]_programVars PROVE DialogBeside'
    OBVIOUS
  <2>1. CASE ProgramNext
    <3>1. program' = program /\ (program = "task dialog" => Dialog!Next)
      BY <2>1 DEF ProgramNext
    <3> QED
      BY <3>1, DialogKeeps DEF DialogBeside
  <2>2. CASE UNCHANGED programVars
    <3>1. program' = program /\ UNCHANGED ofDialog
      BY <2>2 DEF programVars
    <3> QED
      BY <3>1, DialogRests DEF DialogBeside
  <2> QED
    BY <2>1, <2>2
<1> QED
  BY <1>1, <1>2, PTL DEF ProgramSpec

\* However many windows browse the past, and wherever a recovery fails or is killed: the rows are
\* of the folder the window is in, what is reported as recovered is whole, and what is incomplete is
\* being worked on or was admitted. However late queries, replies and signals come: an idle page
\* has read everything that was due, selects only what it may delete and asks for one restart. A
\* token is released with its window, or the release failed. And however often runs are started
\* elsewhere and counted afresh, and whatever polls fail, the window of a task that read a status
\* before the start never presents the result of a run that was over before it was opened.
THEOREM WindowsAlwaysHonest == ProgramSpec => []WindowsAreHonest
<1>1. FileBeside /\ PageBeside /\ DialogBeside => WindowsAreHonest
  BY FileThen, PageThen, DialogThen DEF FileBeside, PageBeside, DialogBeside, WindowsAreHonest, RecoveredIsWhole,
     PageIsCurrent, ResultIsOfItsRun
<1> QED
  BY <1>1, FileBesideHolds, PageBesideHolds, DialogBesideHolds, PTL
=============================================================================
