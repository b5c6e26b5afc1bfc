------------------------------ MODULE TaskDialog ------------------------------
(*****************************************************************************)
(* The window of a long Btrfs task (ui/btrfs_settings/maintenance): it asks  *)
(* what the last run was, starts a new one, and polls until that ends, while *)
(* other clients start and cancel runs, the service restarts and counts from *)
(* one again, and queries fail, or are answered with an error that the client*)
(* reads as a status full of defaults. The rebalance and the defragmentation *)
(* tell runs apart by a generation, the integrity check by its time of start,*)
(* which the file system keeps. A poll and a start outlive their window.     *)
(*****************************************************************************)
EXTENDS Naturals

CONSTANTS
  MostTaskRuns,    \* bound: runs
  MostServices,    \* bound: lives of the service
  StartupQueries,  \* polls it waits for a run to begin
  FailedQueries    \* failed polls in a row it stands

DialogConstants == {MostTaskRuns, MostServices, StartupQueries, FailedQueries} \subseteq Nat

VARIABLES
  kind,        \* "task" or "scrub"
  started,     \* runs started so far: the last one's identity
  uncounted,   \* those of earlier lives of the service, which its generation does not count
  busy,        \* whether the last one is under way
  service,     \* lives of the service
  preferences, \* the preferences window is there
  control,     \* the button: "start", "view", "busy" or "unavailable"
  starting,    \* the start under way: "none", "asking" or "calling"
  earlier,     \* the call of a start whose window has closed is still under way
  dialog,      \* the progress window is open
  monitor,     \* its polling loop
  late,        \* the loop of a closed window, which handles one more poll
  reported     \* what the last result dialog is about

dialogVars == <<kind, started, uncounted, busy, service, preferences, control, starting, earlier, dialog,
                monitor, late, reported>>

system == <<kind, started, uncounted, busy, service>>

\* generation, or started_at; a service that has run nothing knows of no run.
Marker == IF kind = "scrub" THEN started ELSE started - uncounted
Known == IF kind = "task" /\ started = uncounted THEN 0 ELSE started

Unread == [at |-> "none", run |-> 0, marker |-> 0, active |-> FALSE]
Status == [at |-> "read", run |-> Known, marker |-> Marker, active |-> busy]
\* The helper's own failure: no status, no generation, no time of start.
Defaults == [Unread EXCEPT !.at = "read"]

\* history: the last run that had ended, and whether the baseline is a default.
NoMonitor == [on |-> FALSE, baseline |-> 0, awaited |-> FALSE, seen |-> FALSE, startups |-> 0, failures |-> 0,
              poll |-> Unread, old |-> 0, blind |-> FALSE]
NoResult == [run |-> 0, old |-> 0, blind |-> FALSE]

\* update_control.
Shows(running) == IF running THEN "view" ELSE "start"

(*****************************************************************************)
(* Starting, or viewing.                                                     *)
(*****************************************************************************)
\* show, with the marker of the run before it.
Opened(wait, answer) ==
  /\ dialog' = TRUE /\ reported' = NoResult
  /\ monitor' = [NoMonitor EXCEPT !.on = TRUE, !.baseline = answer.marker, !.awaited = wait, !.seen = ~wait,
                                  !.old = IF busy \/ ~wait THEN started - 1 ELSE started,
                                  !.blind = wait /\ answer # Status]

NotOpened == UNCHANGED <<dialog, monitor, reported>>

Click ==
  /\ preferences /\ ~dialog /\ starting # "asking"
  /\ starting = "calling" => ~earlier
  /\ earlier' = (earlier \/ starting = "calling")
  /\ \/ control = "view" /\ Opened(FALSE, Unread) /\ starting' = "none" /\ UNCHANGED control
     \/ control = "start" /\ control' = "busy" /\ starting' = "asking" /\ NotOpened
  /\ UNCHANGED <<system, preferences, late>>

\* start: the status before the call marks what is old, if that is what it is.
Baseline ==
  /\ starting = "asking"
  /\ \/ control' = "unavailable" /\ starting' = "none" /\ NotOpened
     \/ preferences /\ control' = "view" /\ starting' = "calling" /\ (\E answer \in {Status, Defaults} : Opened(TRUE, answer))
     \/ ~preferences /\ starting' = "none" /\ UNCHANGED control /\ NotOpened
  /\ UNCHANGED <<system, preferences, earlier, late>>

Run == started < MostTaskRuns /\ ~busy /\ started' = started + 1 /\ busy' = TRUE

\* The service begins a run, or it refuses, is refused or is not reached.
Started ==
  /\ starting = "calling" /\ starting' = "none"
  /\ \/ Run /\ UNCHANGED <<control, dialog, monitor, late>>
     \/ /\ dialog' = FALSE /\ control' = "start" /\ monitor' = NoMonitor
        /\ late' = IF monitor.on THEN [monitor EXCEPT !.poll = Unread] ELSE late
        /\ UNCHANGED <<started, busy>>
  /\ UNCHANGED <<kind, uncounted, service, preferences, earlier, reported>>

StartedEarlier ==
  /\ earlier /\ earlier' = FALSE
  /\ \/ Run /\ UNCHANGED control
     \/ control' = "start" /\ UNCHANGED <<started, busy>>
  /\ UNCHANGED <<kind, uncounted, service, preferences, starting, late>> /\ NotOpened

(*****************************************************************************)
(* monitor.                                                                  *)
(*****************************************************************************)
Answers == {Status, Defaults, [Unread EXCEPT !.at = "failed"]}

Read ==
  /\ monitor.on /\ monitor.poll = Unread
  /\ \E answer \in Answers : monitor' = [monitor EXCEPT !.poll = answer]
  /\ UNCHANGED <<system, preferences, control, starting, earlier, dialog, late, reported>>

\* A mutant: whatever has ended is taken for what was started.
SeenAnyhow(m) == TRUE

\* status_is_current; no time of start is none that differs, generation 0 is one.
Seen(m) ==
  \/ m.seen \/ m.poll.active
  \/ m.awaited /\ m.poll.marker # m.baseline /\ (kind = "scrub" => m.poll.marker # 0)

Judged(m) ==
  IF m.poll.at = "failed" THEN [m EXCEPT !.failures = @ + 1, !.poll = Unread]
  ELSE [m EXCEPT !.failures = 0, !.seen = Seen(m), !.startups = IF Seen(m) THEN @ ELSE @ + 1, !.poll = Unread]

Lost(m) == m.failures = FailedQueries
NotBegun(m) == ~m.seen /\ m.startups = StartupQueries
Over(m) == m.poll.at = "read" /\ Seen(m) /\ ~m.poll.active

Ends(m) == Lost(Judged(m)) \/ NotBegun(Judged(m)) \/ Over(m)

\* What a poll makes of the button, and of the result dialog.
Presents(m) ==
  /\ control' = IF Lost(Judged(m)) THEN "unavailable"
                ELSE IF NotBegun(Judged(m)) THEN IF kind = "scrub" THEN "start" ELSE "unavailable"
                ELSE IF Over(m) THEN "start"
                ELSE IF m.poll.active THEN "view" ELSE control
  /\ reported' = IF Over(m) /\ preferences THEN [run |-> m.poll.run, old |-> m.old, blind |-> m.blind]
                 ELSE reported

Handle ==
  /\ monitor.on /\ monitor.poll # Unread /\ Presents(monitor)
  /\ dialog' = ~Ends(monitor) /\ monitor' = IF Ends(monitor) THEN NoMonitor ELSE Judged(monitor)
  /\ UNCHANGED <<system, preferences, starting, earlier, late>>

HandleLate ==
  /\ late.on /\ late' = NoMonitor
  /\ \E answer \in Answers : Presents([late EXCEPT !.poll = answer])
  /\ UNCHANGED <<system, preferences, starting, earlier, dialog, monitor>>

(*****************************************************************************)
(* Everything else.                                                          *)
(*****************************************************************************)
Window == UNCHANGED <<preferences, control, starting, earlier, dialog, monitor, late, reported>>

\* A cancellation, ours too, ends whatever runs when it arrives.
Cancel == busy /\ busy' = FALSE /\ UNCHANGED started

Elsewhere ==
  /\ Run \/ Cancel
  /\ UNCHANGED <<kind, uncounted, service>> /\ Window

Restart ==
  /\ service < MostServices /\ service' = service + 1
  /\ uncounted' = started /\ busy' = (busy /\ kind = "scrub") /\ UNCHANGED <<kind, started>> /\ Window

\* Only while no modal window stands before it.
Leave ==
  /\ preferences /\ ~dialog /\ preferences' = FALSE
  /\ UNCHANGED <<system, control, starting, earlier, dialog, monitor, late, reported>>

Init ==
  /\ kind \in {"task", "scrub"} /\ started \in {0, 1} /\ uncounted = 0 /\ busy \in {FALSE, started = 1}
  /\ service = 1 /\ preferences = TRUE /\ control \in {Shows(busy), "start", "unavailable"} /\ starting = "none"
  /\ earlier = FALSE /\ dialog = FALSE /\ monitor = NoMonitor /\ late = NoMonitor
  /\ reported = NoResult

Next ==
  \/ Click \/ Baseline \/ Started \/ StartedEarlier \/ Read \/ Handle \/ HandleLate \/ Elsewhere \/ Restart \/ Leave

Spec == Init /\ [][Next]_dialogVars

(*****************************************************************************)
(* A window that was opened to start a run, with a status read before it,    *)
(* never presents the outcome of one that was over before, however slow the  *)
(* call, whoever else starts runs, whichever polls fail and although         *)
(* generations are counted afresh. The button does not stay busy: without a  *)
(* window and a start under way it can be pressed, or says that the status is*)
(* unavailable.                                                              *)
(*****************************************************************************)
ResultIsOfItsRun ==
  /\ reported.run # 0 /\ ~reported.blind => reported.run > reported.old
  /\ ~dialog /\ starting = "none" /\ preferences => control \in {"start", "view", "unavailable"}
================================================================================
