------------------------------- MODULE GhostLine ------------------------------
(*****************************************************************************)
(* The front end of the ghost text inside Bash (native/andiora_ghost.c): what*)
(* it does at each redisplay, at Right and End, between two prompts, and how *)
(* it talks with its helper, which has 8 ms for an answer and is replaced if *)
(* it misses them. A suggestion is modelled by the line it was computed for. *)
(*****************************************************************************)
EXTENDS Naturals, Sequences, FiniteSets

CONSTANTS
  Texts,       \* lines of one row the user may type
  Several,     \* lines that hold a newline
  MostKeys,    \* bound: keys and commands of a behaviour
  MostHelpers  \* bound: helpers that are started

Empty == "empty"
None == "none"
Buffers == Texts \cup Several \cup {Empty}

GhostConstants ==
  /\ Texts \cap Several = {} /\ {Empty, None} \cap (Texts \cup Several) = {}
  /\ MostKeys \in Nat /\ MostHelpers \in Nat

VARIABLES
  screen,      \* rl_line_buffer
  atEnd,       \* whether the cursor is at its end
  cached, suggestion, visible, submitted,
  ghostEnabled,     \* what ANDIORA_GUESS_COMMAND says
  hooked,      \* whether redisplay, Right and End are ours
  place,       \* "editing", "running" (a command) or "reported" (PROMPT_COMMAND is done)
  waiting,     \* the request whose answer exchange waits for
  socket,      \* the helper daemon_fd leads to: its number, or 0
  processes,   \* helpers that have not been reaped
  wire, answers, \* what the socket holds in either direction
  keys, helpers,
  diagnosed    \* history: the suggestion is one that diagnose asked for

ghost == <<screen, atEnd, cached, suggestion, visible, submitted, ghostEnabled, hooked, place, waiting,
           socket, processes, wire, answers, keys, helpers, diagnosed>>

Query(line) == [kind |-> "query", line |-> line]
Diagnosis(line) == [kind |-> "diagnose", line |-> line]
Report(line) == [kind |-> "observe", line |-> line]
NoRequest == [kind |-> None, line |-> None]

(*****************************************************************************)
(* The helper's process: start_daemon, force_stop_daemon, graceful_stop.     *)
(*****************************************************************************)
NoHelper == socket' = 0 /\ processes' = processes \ {socket} /\ wire' = <<>> /\ answers' = <<>>

\* start_daemon with nothing running but `others`; fork or the socket pair may fail.
Start(others, first) ==
  \/ /\ helpers < MostHelpers
     /\ helpers' = helpers + 1
     /\ socket' = helpers + 1 /\ processes' = others \cup {helpers + 1}
     /\ wire' = first /\ answers' = <<>>
     /\ waiting' = IF first = <<>> THEN NoRequest ELSE Head(first)
  \/ socket' = 0 /\ processes' = others /\ wire' = <<>> /\ answers' = <<>> /\ waiting' = NoRequest
     /\ UNCHANGED helpers

\* exchange, up to the wait.
Ask(request) ==
  IF socket = 0 THEN Start(processes, <<request>>)
  ELSE /\ wire' = Append(wire, request) /\ waiting' = request
       /\ UNCHANGED <<socket, processes, answers, helpers>>

Silent == UNCHANGED <<socket, processes, wire, answers, helpers, waiting>>

\* suspend_predictions: the hooks go, the helper is told to quit and is killed if it does not.
Suspend ==
  /\ hooked' = FALSE /\ visible' = FALSE
  /\ suggestion' = None /\ cached' = None /\ submitted' = None /\ diagnosed' = FALSE
  /\ NoHelper /\ waiting' = NoRequest /\ UNCHANGED helpers

(*****************************************************************************)
(* Redisplay follows every key.                                              *)
(*****************************************************************************)
\* The suggestion is drawn only if it fits in the row.
Draw(hint) == visible' \in IF hint = None THEN {FALSE} ELSE BOOLEAN

Redisplay(line, end, known, hint) ==
  /\ screen' = line /\ atEnd' = end
  /\ submitted' = line
  /\ IF ~end \/ line \in Several \cup {Empty}
     THEN cached' = known /\ suggestion' = hint /\ visible' = FALSE /\ Silent
     ELSE IF known # line
     THEN cached' = line /\ suggestion' = None /\ visible' = FALSE /\ Ask(Query(line))
     ELSE cached' = known /\ suggestion' = hint /\ Draw(hint) /\ Silent
  /\ diagnosed' = (diagnosed /\ suggestion' # None)
  /\ UNCHANGED hooked

Editing == place = "editing" /\ waiting = NoRequest /\ keys < MostKeys /\ keys' = keys + 1

\* A key that edits the line or moves the cursor, a paste, a line from the history.
Type(line, end) ==
  /\ Editing
  /\ IF ~hooked THEN /\ screen' = line /\ atEnd' = end
                     /\ UNCHANGED <<cached, suggestion, visible, submitted, hooked, diagnosed>> /\ Silent
     ELSE Redisplay(line, end, cached, suggestion)
  /\ UNCHANGED <<ghostEnabled, place>>

\* Whether Right or End inserts the suggestion (accept_ghost, accept_ghost_end).
Acceptable == hooked /\ ghostEnabled /\ atEnd /\ suggestion # None
Accept(extended) ==
  /\ Editing /\ Acceptable
  /\ Redisplay(extended, TRUE, None, None)
  /\ UNCHANGED <<ghostEnabled, place>>

\* The answer, read as the first line the socket holds.
Receive ==
  /\ waiting # NoRequest /\ answers # <<>>
  /\ waiting' = NoRequest /\ answers' = Tail(answers)
  /\ IF waiting.kind \in {"query", "diagnose"} /\ Head(answers).hint
     THEN /\ suggestion' = Head(answers).line
          /\ diagnosed' = (waiting.kind = "diagnose")
          /\ IF waiting.kind = "query" THEN Draw(suggestion') ELSE UNCHANGED visible
     ELSE UNCHANGED <<suggestion, visible, diagnosed>>
  /\ UNCHANGED <<screen, atEnd, cached, submitted, ghostEnabled, hooked, place, socket, processes, wire, keys,
                 helpers>>

\* No answer in time, or the socket is closed: prewarm_fresh_daemon.
Replace ==
  /\ waiting # NoRequest
  /\ Start(processes \ {socket}, <<>>)
  /\ UNCHANGED <<screen, atEnd, cached, suggestion, visible, submitted, ghostEnabled, hooked, place, keys,
                 diagnosed>>

\* The helper answers in order; it may have nothing to suggest.
Serve(hint) ==
  /\ wire # <<>>
  /\ wire' = Tail(wire)
  /\ answers' = Append(answers, [line |-> Head(wire).line, hint |-> hint /\ Head(wire).kind # "observe"])
  /\ UNCHANGED <<screen, atEnd, cached, suggestion, visible, submitted, ghostEnabled, hooked, place, waiting,
                 socket, processes, keys, helpers, diagnosed>>

(*****************************************************************************)
(* Between two lines: Enter, the command, PROMPT_COMMAND, the startup hook.  *)
(*****************************************************************************)
\* The command may change the switch.
Enter(switch) ==
  /\ Editing
  /\ place' = "running" /\ visible' = FALSE /\ ghostEnabled' = switch
  /\ UNCHANGED <<screen, atEnd, cached, suggestion, submitted, hooked, socket, processes, wire, answers,
                 waiting, helpers, diagnosed>>

\* andiora_ghost observe; the builtin installs the hooks or suspends first.
Observe ==
  /\ place = "running" /\ waiting = NoRequest
  /\ place' = "reported"
  /\ IF ~ghostEnabled THEN Suspend
     ELSE /\ hooked' = TRUE /\ submitted' = None
          /\ IF submitted \in {None, Empty} THEN Silent ELSE Ask(Report(submitted))
          /\ UNCHANGED <<cached, suggestion, visible, diagnosed>>
  /\ UNCHANGED <<screen, atEnd, ghostEnabled, keys>>

\* andiora_ghost configure-history with another file: the helper read the old one.
Configure ==
  /\ place = "running" /\ waiting = NoRequest /\ ghostEnabled /\ keys < MostKeys /\ keys' = keys + 1
  /\ hooked' = TRUE
  /\ Start(processes \ {socket}, <<>>)
  /\ UNCHANGED <<screen, atEnd, cached, suggestion, visible, submitted, ghostEnabled, place, diagnosed>>

\* andiora_ghost diagnose asks about a line of its own: the suggestion goes for the answer to
\* it, which is printed and not drawn, while the cached line stays.
Diagnose(line) ==
  /\ place = "running" /\ waiting = NoRequest /\ keys < MostKeys /\ keys' = keys + 1
  /\ IF ~ghostEnabled THEN Suspend
     ELSE /\ hooked' = TRUE /\ suggestion' = None /\ diagnosed' = FALSE
          /\ Ask(Diagnosis(line))
          /\ UNCHANGED <<cached, visible, submitted>>
  /\ UNCHANGED <<screen, atEnd, ghostEnabled, place>>

\* The next prompt: ghost_startup, then the redisplay of an empty line.
Prompt ==
  /\ place = "reported" /\ waiting = NoRequest
  /\ place' = "editing" /\ screen' = Empty /\ atEnd' = TRUE
  /\ IF ~ghostEnabled THEN Suspend
     ELSE /\ hooked' = TRUE /\ submitted' = Empty /\ visible' = FALSE
          /\ UNCHANGED <<cached, suggestion, diagnosed>>
          /\ IF socket = 0 THEN Start(processes, <<>>) ELSE Silent
  /\ UNCHANGED <<ghostEnabled, keys>>

Init ==
  /\ screen = Empty /\ atEnd = TRUE /\ cached = None /\ suggestion = None /\ visible = FALSE
  /\ submitted = None /\ ghostEnabled = TRUE /\ hooked = TRUE /\ place = "reported" /\ waiting = NoRequest
  /\ socket = 0 /\ processes = {} /\ wire = <<>> /\ answers = <<>> /\ keys = 0 /\ helpers = 0
  /\ diagnosed = FALSE

Next ==
  \/ \E line \in Buffers, end \in BOOLEAN : Type(line, end)
  \/ \E extended \in Texts : Accept(extended)
  \/ Receive \/ Replace
  \/ \E hint \in BOOLEAN : Serve(hint)
  \/ \E switch \in BOOLEAN : Enter(switch)
  \/ Observe \/ Configure \/ (\E line \in Texts : Diagnose(line)) \/ Prompt
Spec == Init /\ [][Next]_ghost

\* However late a helper answers or dies: what is shown behind the line was computed for that
\* line, and so is what Right and End would insert into a line of one row, unless diagnose has
\* put another in its place since the line was asked about; the shell has at most one helper
\* (ARCHITECTURE-V2.md:185), and none once predictions are switched off.
GhostBelongsToLine ==
  /\ visible => atEnd /\ (suggestion = screen \/ diagnosed)
  /\ place = "editing" /\ waiting = NoRequest /\ Acceptable /\ screen \in Texts => suggestion = screen \/ diagnosed
  /\ processes \subseteq {socket}
  /\ place = "editing" /\ ~ghostEnabled => processes = {} /\ ~hooked

\* Right Arrow or End accepts the visible suggestion only (README.md:90).
AcceptsWhatIsVisible == place = "editing" /\ waiting = NoRequest /\ Acceptable => visible
================================================================================
