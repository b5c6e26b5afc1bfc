----------------------------- MODULE FileRecovery -----------------------------
(*****************************************************************************)
(* Recovering files out of a snapshot (personal_history.rs of the snapshot   *)
(* manager's window): windows that list the folders of the past in the       *)
(* background, the lease a system snapshot is browsed under, and recoveries  *)
(* of a file or of a folder that run beside each other and may fail at any   *)
(* step or be killed. A snapshot holds a folder, with a file and one folder  *)
(* in it, which holds a file. What a user puts into a folder while it is     *)
(* being recovered is not modelled.                                          *)
(*****************************************************************************)
EXTENDS Naturals, FiniteSets

CONSTANTS
  Viewers,        \* windows onto the past
  Secured,        \* those that show a system snapshot
  MostLoads,      \* bound: listings asked for
  MostRecoveries  \* bound: recoveries begun

Folders == {"top", "sub"}
None == "none"
Copies == 0 .. MostRecoveries        \* "Documents", "Documents (Recovered 1)", ...

RecoveryConstants == Secured \subseteq Viewers /\ {MostLoads, MostRecoveries} \subseteq Nat

VARIABLES
  parent,      \* the main window is there
  view,        \* per viewer: "new", "asking" (for a lease), "open" or "closed"
  position,    \* current_path
  rows,        \* the folder whose rows are in the list, "loading" or "failed"
  generation,  \* per viewer: the last listing that was asked for
  listing,     \* listings under way: viewer, generation and folder
  lease,       \* viewers whose window's token the helper still honours
  release,     \* per viewer: its token's release, "none", "calling" or "failed"
  recovery,    \* per viewer: what its recovery is at
  outcome,     \* per viewer: what the last dialog said
  destination, \* the destination file
  folders,     \* the destination folders
  temporary,   \* viewers whose temporary file is on the disk
  admitted,    \* incomplete folders that a dialog said could not be removed
  loads, recoveries, killed

recoveryVars == <<parent, view, position, rows, generation, listing, lease, release, recovery, outcome,
                  destination, folders, temporary, admitted, loads, recoveries, killed>>

Of(owner, folder, whole) == [by |-> owner, of |-> folder, whole |-> whole]
Users == Of("user", "top", TRUE)
Nothing == Of(None, None, TRUE)
Idle == [at |-> "idle", kind |-> None, from |-> "top", to |-> 0]
At(v, place) == recovery[v].at = place
Move(v, place) == recovery' = [recovery EXCEPT ![v].at = place]

Outside == <<view, position, rows, generation, listing, lease, release, loads>>
Disk == <<destination, folders, temporary, admitted>>
Rest == <<parent, recoveries, killed>>

(*****************************************************************************)
(* The window.                                                               *)
(*****************************************************************************)
\* load_directory and load_target_versions.
LoadDirectory(v, folder) ==
  /\ loads < MostLoads /\ loads' = loads + 1
  /\ generation' = [generation EXCEPT ![v] = @ + 1]
  /\ position' = [position EXCEPT ![v] = folder] /\ rows' = [rows EXCEPT ![v] = "loading"]
  /\ listing' = listing \cup {<<v, generation'[v], folder>>}

NoLoading == UNCHANGED <<position, rows, generation, listing, loads>>
Window == UNCHANGED <<recovery, outcome, Disk, Rest>>

Show(v) ==
  /\ parent /\ view[v] = "new"
  /\ \/ v \in Secured /\ view' = [view EXCEPT ![v] = "asking"] /\ NoLoading
     \/ v \notin Secured /\ view' = [view EXCEPT ![v] = "open"] /\ LoadDirectory(v, "top")
  /\ UNCHANGED <<lease, release>> /\ Window

\* The answer of the authorization: a token that arrives after the main window is gone is dropped
\* as a string, and nothing releases it.
Authorized(v) ==
  /\ view[v] = "asking"
  /\ \/ /\ lease' = lease \cup {v}
        /\ IF parent THEN view' = [view EXCEPT ![v] = "open"] /\ LoadDirectory(v, "top")
           ELSE view' = [view EXCEPT ![v] = "closed"] /\ NoLoading
     \/ view' = [view EXCEPT ![v] = "closed"] /\ NoLoading /\ UNCHANGED lease
  /\ UNCHANGED release /\ Window

\* SystemBrowserLease is released by a thread, which may not start.
CloseRequest(v) ==
  /\ view[v] = "open" /\ At(v, "idle")
  /\ view' = [view EXCEPT ![v] = "closed"]
  /\ \/ v \in Secured /\ \E begun \in {"calling", "failed"} : release' = [release EXCEPT ![v] = begun]
     \/ v \notin Secured /\ UNCHANGED release
  /\ listing' = {call \in listing : call[1] # v}     \* their answers find no window
  /\ position' = [position EXCEPT ![v] = "top"] /\ rows' = [rows EXCEPT ![v] = "loading"]
  /\ UNCHANGED <<generation, lease, loads>> /\ Window

\* The thread's call, whose failure is logged and not repeated.
EndBrowse(v) ==
  /\ release[v] = "calling"
  /\ \/ lease' = lease \ {v} /\ release' = [release EXCEPT ![v] = "none"]
     \/ release' = [release EXCEPT ![v] = "failed"] /\ UNCHANGED lease
  /\ UNCHANGED view /\ NoLoading /\ Window

CloseMain == parent /\ parent' = FALSE /\ UNCHANGED <<Outside, recovery, outcome, Disk, recoveries, killed>>

Navigate(v) ==
  /\ view[v] = "open" /\ At(v, "idle")
  /\ \/ LoadDirectory(v, "top")
     \/ rows[v] = "top" /\ LoadDirectory(v, "sub")
  /\ UNCHANGED <<view, lease, release>> /\ Window

Answers(v, folder) == (IF v \in Secured \ lease THEN {} ELSE {folder}) \cup {"failed"}

Accepts(v, number) == number = generation[v] /\ view[v] = "open"

Listed(v, number, folder) ==
  /\ <<v, number, folder>> \in listing /\ listing' = listing \ {<<v, number, folder>>}
  /\ \E answer \in Answers(v, folder) :
       rows' = IF Accepts(v, number) THEN [rows EXCEPT ![v] = answer] ELSE rows
  /\ UNCHANGED <<view, position, generation, lease, release, loads>> /\ Window

\* The helper lets a token run out.
Expire(v) ==
  /\ v \in lease /\ lease' = lease \ {v}
  /\ UNCHANGED <<view, release>> /\ NoLoading /\ Window

(*****************************************************************************)
(* Recovering.                                                               *)
(*****************************************************************************)
\* A row's button captures the path it was listed under; the folder button takes current_path.
Choose(v) ==
  /\ view[v] = "open" /\ At(v, "idle") /\ recoveries < MostRecoveries /\ recoveries' = recoveries + 1
  /\ outcome' = [outcome EXCEPT ![v] = None]
  /\ \/ /\ rows[v] \in Folders
        /\ recovery' = [recovery EXCEPT ![v] = [Idle EXCEPT !.at = "choosing", !.kind = "file", !.from = rows[v]]]
     \/ recovery' = [recovery EXCEPT ![v] = [Idle EXCEPT !.at = "choosing", !.kind = "folder", !.from = position[v]]]
  /\ UNCHANGED <<Outside, Disk, parent, killed>>

\* The first name that is free.
UniqueDestination(n) == folders[n] = Nothing /\ \A m \in 0 .. n - 1 : folders[m] # Nothing

Working == UNCHANGED <<Outside, Rest>>

Chosen(v) ==
  /\ At(v, "choosing")
  /\ \/ \E n \in Copies :
          /\ IF recovery[v].kind = "folder" THEN UniqueDestination(n) ELSE n = recovery[v].to
          /\ recovery' = [recovery EXCEPT ![v].at = "authorizing", ![v].to = n]
     \/ Move(v, "idle")
  /\ UNCHANGED <<outcome, Disk>> /\ Working

\* The end of the worker. The token it authorized for itself, which may run out like any other,
\* goes with the scope that holds it.
End(v, word) == Move(v, "idle") /\ outcome' = [outcome EXCEPT ![v] = word]

AuthorizeExport(v) ==
  /\ At(v, "authorizing")
  /\ \/ /\ Move(v, IF recovery[v].kind = "file" THEN "exporting" ELSE "creating")
        /\ UNCHANGED outcome
     \/ End(v, "failed")
  /\ UNCHANGED Disk /\ Working

\* export_file, then create_recovery_temp_file: exclusive, with a number no other recovery has.
Export(v) ==
  /\ At(v, "exporting")
  /\ \/ Move(v, "writing") /\ temporary' = temporary \cup {v} /\ UNCHANGED outcome
     \/ End(v, "failed") /\ UNCHANGED temporary
  /\ UNCHANGED <<destination, folders, admitted>> /\ Working

\* write_recovered_file: the copy, its sync and the rename; a failure removes the temporary file.
\* The directory is synced after the rename, and may say no then.
Replace(v) ==
  /\ At(v, "writing")
  /\ \/ /\ destination' = Of(v, recovery[v].from, TRUE) /\ temporary' = temporary \ {v}
        /\ \E word \in {"recovered", "failed"} : End(v, word)
     \/ End(v, "failed") /\ temporary' \in {temporary, temporary \ {v}} /\ UNCHANGED destination
  /\ UNCHANGED <<folders, admitted>> /\ Working

\* A mutant: what could not be made is cleaned up as well.
CleansAnyway(v) == Move(v, "cleaning") /\ UNCHANGED <<folders, outcome>>

\* restore_directory: the folder is made exclusively, and only what was made is removed.
CreateFails(v) == End(v, "failed") /\ UNCHANGED folders

CreateDirectory(v) ==
  LET r == recovery[v] IN
  /\ At(v, "creating")
  /\ \/ /\ folders[r.to] = Nothing
        /\ folders' = [folders EXCEPT ![r.to] = Of(v, r.from, FALSE)]
        /\ Move(v, "filling") /\ UNCHANGED outcome
     \/ CreateFails(v)
  /\ UNCHANGED <<destination, temporary, admitted>> /\ Working

\* restore_directory_bounded: an entry after the other, until one fails or a limit is passed.
RestoreEntries(v) ==
  /\ At(v, "filling")
  /\ \/ folders' = [folders EXCEPT ![recovery[v].to].whole = TRUE] /\ End(v, "recovered")
     \/ Move(v, "cleaning") /\ UNCHANGED <<folders, outcome>>
  /\ UNCHANGED <<destination, temporary, admitted>> /\ Working

RemoveIncomplete(v) ==
  /\ At(v, "cleaning") /\ End(v, "failed")
  /\ \/ folders' = [folders EXCEPT ![recovery[v].to] = Nothing] /\ UNCHANGED admitted
     \/ admitted' = admitted \cup {recovery[v].to} /\ UNCHANGED folders
  /\ UNCHANGED <<destination, temporary>> /\ Working

\* The process dies; its tokens run out later.
Kill ==
  /\ ~killed /\ killed' = TRUE /\ parent' = FALSE
  /\ view' = [v \in Viewers |-> "closed"] /\ recovery' = [v \in Viewers |-> Idle] /\ listing' = {}
  /\ position' = [v \in Viewers |-> "top"] /\ rows' = [v \in Viewers |-> "loading"]
  /\ release' = [v \in Viewers |-> "none"]
  /\ UNCHANGED <<generation, lease, outcome, Disk, loads, recoveries>>

Init ==
  /\ parent = TRUE /\ view = [v \in Viewers |-> "new"] /\ position = [v \in Viewers |-> "top"]
  /\ rows = [v \in Viewers |-> "loading"] /\ generation = [v \in Viewers |-> 0] /\ listing = {}
  /\ lease = {} /\ release = [v \in Viewers |-> "none"]
  /\ recovery = [v \in Viewers |-> Idle] /\ outcome = [v \in Viewers |-> None]
  /\ destination = Users
  /\ folders = [n \in Copies |-> IF n = 0 THEN Users ELSE Nothing]
  /\ temporary = {} /\ admitted = {} /\ loads = 0 /\ recoveries = 0 /\ killed = FALSE

Next ==
  \/ CloseMain \/ Kill
  \/ \E v \in Viewers :
       \/ Show(v) \/ Authorized(v) \/ CloseRequest(v) \/ EndBrowse(v) \/ Navigate(v) \/ Expire(v)
       \/ Choose(v) \/ Chosen(v) \/ AuthorizeExport(v) \/ Export(v) \/ Replace(v)
       \/ CreateDirectory(v) \/ RestoreEntries(v) \/ RemoveIncomplete(v)
       \/ \E call \in listing : call[1] = v /\ Listed(v, call[2], call[3])

Spec == Init /\ [][Next]_recoveryVars

(*****************************************************************************)
(* A window's rows are the folder it says it shows, although listings arrive *)
(* in any order. A file is replaced by the whole of a chosen version or not  *)
(* at all, whatever is killed. A folder reported as recovered is whole, from *)
(* the chosen place, and no other recovery that took the same name meanwhile *)
(* has touched it, nor the user's; an incomplete one is being worked on or   *)
(* a dialog said it is there. A token outlives its window only while it is   *)
(* being released or when that failed, unless the main window had gone before*)
(* it came, or the process.                                                  *)
(*****************************************************************************)
RecoveredIsWhole ==
  /\ \A v \in Viewers : rows[v] \in Folders => rows[v] = position[v]
  /\ destination.whole
  /\ \A v \in Viewers : outcome[v] = "recovered" =>
       \/ recovery[v].kind = "file" /\ destination.by \in Viewers
       \/ \E n \in Copies : folders[n] = Of(v, recovery[v].from, TRUE) /\ n = recovery[v].to
       \/ killed
  /\ \A n \in Copies : ~folders[n].whole =>
       \/ killed \/ n \in admitted
       \/ recovery[folders[n].by].at \in {"filling", "cleaning"} /\ recovery[folders[n].by].to = n
  /\ \A v \in lease : view[v] = "open" \/ release[v] # "none" \/ ~parent
================================================================================
