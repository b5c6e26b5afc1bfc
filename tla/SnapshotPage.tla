----------------------------- MODULE SnapshotPage -----------------------------
(*****************************************************************************)
(* A page of the snapshot manager's window (ui/snapshot_page.rs): the list it*)
(* reads in the background and refreshes after its own changes and after the *)
(* service's creation signals, the selection, the chain of modal dialogs and *)
(* calls, and the countdown to the restart after a rollback was armed. Other *)
(* clients of the service change what it shows meanwhile. The service checks *)
(* what it is asked for itself; here it grants or refuses.                   *)
(*****************************************************************************)
EXTENDS Naturals, FiniteSets

CONSTANTS
  Entries,      \* identities of snapshots
  MostVersions, \* bound: changes of what the service holds
  Seconds       \* ROLLBACK_RESTART_COUNTDOWN_SECONDS, in steps

PageConstants == MostVersions \in Nat /\ Seconds \in Nat \ {0}

VARIABLES
  stock,          \* what the service holds: "gone", "plain" or "pinned" per identity
  phase,          \* of its pending rollback: "none" (or one that offers nothing), "armed" or "unsettled"
  version,        \* how often it changed
  heard,          \* the generation differs from the last one polled
  main,           \* the window is there
  refreshing,     \* "idle", "asked" or "answered"
  reply,          \* the status that was read
  again,          \* refresh_pending
  stack,          \* the visible child: "loading", "content", "empty", "unsupported", "error"
  items, readAt,  \* the items of the last listing, and the version they were read at
  selecting, picked,
  banner,         \* pending_banner_action
  modal,          \* the dialog or progress window in front: where it is, its call, its identities
  due,            \* what the list must have seen: the version at the last own success or signal
  warned,         \* the dialog of the armed rollback is open
  remaining,      \* seconds it still counts
  requested,      \* reboot_requested
  restarts,       \* restart requests since the rollback was armed
  down            \* the machine restarts

pageVars == <<stock, phase, version, heard, main, refreshing, reply, again, stack, items, readAt,
              selecting, picked, banner, modal, due, warned, remaining, requested, restarts, down>>

served == <<stock, phase, version, heard>>
list == <<stack, items, readAt, selecting, picked, banner>>
query == <<refreshing, reply, again>>
restart == <<warned, remaining, requested, restarts, down>>

NoReply == [kind |-> "none", items |-> [e \in Entries |-> "gone"], phase |-> "none", version |-> 0]
Front(at, call, chosen) == [at |-> at, call |-> call, on |-> chosen]
Clear == Front("none", "none", {})
Free == main /\ modal.at = "none" /\ ~warned

Present(held) == {e \in Entries : held[e] # "gone"}
Deletable(held) == {e \in Entries : held[e] = "plain"}

\* pending_banner_presentation.
Banner(p) ==
  CASE p = "armed" -> "cancel"
    [] p = "unsettled" -> "reconcile"
    [] OTHER -> "none"

(*****************************************************************************)
(* The list.                                                                 *)
(*****************************************************************************)
\* refresh: one query at a time; a request meanwhile is remembered.
Refresh(shown) ==
  IF refreshing # "idle" THEN again' = TRUE /\ stack' = shown /\ UNCHANGED <<refreshing, reply>>
  ELSE /\ refreshing' = "asked" /\ UNCHANGED <<reply, again>>
       /\ stack' = IF Present(items) = {} THEN "loading" ELSE shown

Demand ==
  /\ Free /\ Refresh(stack)
  /\ UNCHANGED <<served, main, items, readAt, selecting, picked, banner, modal, due, restart>>

Query ==
  /\ refreshing = "asked" /\ refreshing' = "answered"
  /\ \E kind \in {"status", "unavailable", "error"} :
       reply' = [kind |-> kind, items |-> stock, phase |-> phase, version |-> version]
  /\ UNCHANGED <<served, main, again, list, modal, due, restart>>

\* A mutant: the request that came meanwhile is forgotten.
NotAgain == FALSE

AskedMeanwhile == again

\* apply_status, or show_load_error, and then the refresh that was asked for meanwhile.
Deliver ==
  /\ main /\ refreshing = "answered" /\ again' = FALSE /\ reply' = NoReply
  /\ refreshing' = IF AskedMeanwhile THEN "asked" ELSE "idle"
  /\ IF reply.kind = "status"
     THEN items' = reply.items /\ readAt' = reply.version /\ selecting' = FALSE /\ picked' = {}
     ELSE UNCHANGED <<items, readAt, selecting, picked>>
  /\ banner' = IF reply.kind = "error" THEN banner ELSE Banner(reply.phase)
  /\ stack' = IF AskedMeanwhile /\ Present(items') = {} THEN "loading"
              ELSE IF reply.kind = "error" THEN "error"
              ELSE IF reply.kind = "unavailable" THEN "unsupported"
              ELSE IF Present(reply.items) = {} THEN "empty" ELSE "content"
  /\ UNCHANGED <<served, main, modal, due, restart>>

\* set_selection_mode and a row's check button.
Select ==
  /\ Free
  /\ \/ selecting' = ~selecting /\ picked' = {}
     \/ /\ selecting /\ stack = "content" /\ UNCHANGED selecting
        /\ \E e \in Deletable(items) : picked' = IF e \in picked THEN picked \ {e} ELSE picked \cup {e}
  /\ UNCHANGED <<served, main, query, stack, items, readAt, banner, modal, due, restart>>

(*****************************************************************************)
(* Dialogs and calls: run_operation's window is modal and cannot be closed.  *)
(*****************************************************************************)
Open(front) == modal' = front /\ UNCHANGED <<served, main, query, list, due, restart>>

Ask ==
  /\ Free
  /\ \/ picked # {} /\ Open(Front("confirming", "delete", picked))
     \/ Open(Front("confirming", "create", {}))
     \/ banner # "none" /\ Open(Front("working", banner, {}))
     \/ /\ stack = "content"
        /\ \/ \E e \in Deletable(items) : Open(Front("confirming", "delete", {e}))
           \/ \E e \in Present(items), call \in {"pin", "verify"} : Open(Front("working", call, {e}))

Answer ==
  /\ modal.at = "confirming"
  /\ Open(Clear) \/ Open([modal EXCEPT !.at = "working"])

Change(held, newPhase) ==
  /\ version < MostVersions /\ version' = version + 1
  /\ stock' = held /\ phase' = newPhase

Created(e) ==
  /\ stock[e] = "gone" /\ Change([stock EXCEPT ![e] = "plain"], phase)
  /\ heard' \in {heard, TRUE}     \* the signal may be lost, while the listener has no bus for one

Removed(gone) == gone # {} /\ Change([e \in Entries |-> IF e \in gone THEN "gone" ELSE stock[e]], phase) /\ UNCHANGED heard

Same == UNCHANGED <<stock, phase, version, heard>>

\* What the service does when it grants the call ...
Grant ==
  LET chosen == modal.on IN
  \/ modal.call = "delete" /\ chosen \subseteq Deletable(stock) /\ Removed(chosen)
  \/ modal.call = "create" /\ \E e \in Entries : Created(e)
  \/ /\ modal.call = "pin" /\ chosen \subseteq Present(stock) /\ UNCHANGED heard
     /\ Change([e \in Entries |-> IF e \notin chosen THEN stock[e]
                                  ELSE IF items[e] = "pinned" THEN "plain" ELSE "pinned"], phase)
  \/ modal.call = "verify" /\ chosen \subseteq Present(stock) /\ Same
  \/ modal.call = "schedule" /\ chosen \subseteq Present(stock) /\ phase = "none" /\ Change(stock, "armed") /\ UNCHANGED heard
  \/ modal.call = "cancel" /\ phase = "armed" /\ Change(stock, "none") /\ UNCHANGED heard
  \/ modal.call = "reconcile" /\ phase = "unsettled" /\ Change(stock, "none") /\ UNCHANGED heard
  \/ modal.call = "reboot" /\ Same

\* ... and when it refuses, having deleted some of several perhaps.
Deny ==
  \/ Same
  \/ modal.call = "delete" /\ \E part \in SUBSET (modal.on \cap Deletable(stock)) : Removed(part)

Perform ==
  /\ modal.at = "working"
  /\ \/ Grant /\ modal' = [modal EXCEPT !.at = "granted"] /\ down' = (modal.call = "reboot")
     \/ Deny /\ modal' = [modal EXCEPT !.at = "refused"] /\ UNCHANGED down
  /\ UNCHANGED <<main, query, list, due, warned, remaining, requested, restarts>>

\* The completion of run_operation: nothing without the window, a message if it failed, and a
\* refresh if something was changed. An armed rollback shows show_rollback_ready.
Complete ==
  /\ modal.at \in {"granted", "refused"}
  /\ IF main /\ modal.at = "granted" /\ modal.call # "reboot"
     THEN IF modal.call = "verify"
          THEN modal' = Front("confirming", "schedule", modal.on) /\ UNCHANGED <<query, stack, due, restart>>
          ELSE /\ modal' = Clear /\ Refresh(stack) /\ due' = version
               /\ IF modal.call # "schedule" THEN UNCHANGED restart
                  ELSE /\ warned' = TRUE /\ remaining' = Seconds /\ requested' = FALSE /\ restarts' = 0
                       /\ UNCHANGED down
     ELSE modal' = Clear /\ UNCHANGED <<query, stack, due, restart>>
  /\ UNCHANGED <<served, main, items, readAt, selecting, picked, banner>>

(*****************************************************************************)
(* The countdown. Closing the dialog is its "restart" response.              *)
(*****************************************************************************)
\* request_system_reboot_from_ui, or a thread when the window is gone (whose refusal nobody sees).
RequestRestart(times) ==
  /\ restarts' = restarts + times
  /\ IF main /\ times > 0 THEN modal' = Front("working", "reboot", {}) /\ UNCHANGED down
     ELSE UNCHANGED modal /\ down' \in (IF times > 0 THEN BOOLEAN ELSE {down})

Respond ==
  /\ warned /\ ~requested /\ warned' = FALSE /\ requested' = TRUE
  /\ RequestRestart(IF main THEN 1 ELSE 0)
  /\ UNCHANGED <<served, main, query, list, due, remaining>>

\* At zero the flag is set before the dialog is closed, so that its response finds it set.
Tick ==
  /\ remaining > 0 /\ ~requested /\ remaining' = remaining - 1
  /\ IF remaining = 1 THEN requested' = TRUE /\ warned' = FALSE /\ RequestRestart(1)
     ELSE UNCHANGED <<requested, warned, restarts, modal, down>>
  /\ UNCHANGED <<served, main, query, list, due>>

(*****************************************************************************)
(* Everything else.                                                          *)
(*****************************************************************************)
\* Another client, a scheduled creation or the retention; only creations are signalled.
Elsewhere ==
  /\ \/ \E e \in Entries : Created(e) \/ Removed({e} \cap Deletable(stock))
     \/ phase = "armed" /\ Change(stock, "none") /\ UNCHANGED heard
  /\ UNCHANGED <<main, query, list, modal, due, restart>>

\* The poll every 250 ms.
Poll ==
  /\ main /\ heard /\ heard' = FALSE /\ Refresh(stack) /\ due' = version
  /\ UNCHANGED <<stock, phase, version, main, items, readAt, selecting, picked, banner, modal, restart>>

\* The page goes with the window, and with it what a query would have told it.
CloseMain ==
  /\ main /\ main' = FALSE
  /\ refreshing' = "idle" /\ reply' = NoReply /\ again' = FALSE /\ due' = 0
  /\ stack' = "loading" /\ items' = NoReply.items /\ readAt' = 0
  /\ selecting' = FALSE /\ picked' = {} /\ banner' = "none"
  /\ UNCHANGED <<served, modal, restart>>

Init ==
  /\ \E e \in Entries : stock = [NoReply.items EXCEPT ![e] = "plain"]
  /\ phase \in {"none", "unsettled"} /\ version = 0
  /\ heard = FALSE /\ main = TRUE
  /\ refreshing = "asked" /\ reply = NoReply /\ again = FALSE
  /\ stack = "loading" /\ items = NoReply.items /\ readAt = 0 /\ selecting = FALSE /\ picked = {} /\ banner = "none"
  /\ modal = Clear /\ due = 0
  /\ warned = FALSE /\ remaining = 0 /\ requested = FALSE /\ restarts = 0 /\ down = FALSE

Next ==
  /\ ~down
  /\ \/ Demand \/ Query \/ Deliver \/ Select \/ Ask \/ Answer \/ Perform \/ Complete
     \/ Respond \/ Tick \/ Elsewhere \/ Poll \/ CloseMain

Spec == Init /\ [][Next]_pageVars

(*****************************************************************************)
(* Once no refresh is under way a list that is shown is from after the last  *)
(* change this page made and after the last signal it polled, although each  *)
(* may have come while an older query ran. What is selected could be deleted *)
(* when it was listed. An armed rollback asks for the restart once, whether  *)
(* its dialog is answered, closed or left to run out; it cannot be put away  *)
(* without asking unless the window is gone.                                 *)
(*****************************************************************************)
PageIsCurrent ==
  /\ refreshing = "idle" /\ stack \in {"content", "empty"} => readAt >= due
  /\ picked \subseteq Deletable(items)
  /\ restarts <= 1
  /\ requested => restarts = 1 \/ ~main
  /\ warned => ~requested
================================================================================
