------------------------------ MODULE GuessArbiter ------------------------------
(*****************************************************************************)
(* How one query of the command guesser is answered (lib.rs evaluate): the   *)
(* place of the cursor fixes a slot (slot.rs), every source puts candidates  *)
(* in a pool (domains.rs generate), in a fixed order, and the arbiter shows  *)
(* at most one of them (arbiter.rs choose). A line is a sequence of letters, *)
(* a confidence is in thousandths.                                           *)
(*****************************************************************************)
EXTENDS Naturals, Integers, Sequences, SequencesExt, FiniteSets, FiniteSetsExt

CONSTANTS
  Lines,        \* lines that can be suggested, extensions of Typed
  Typed,        \* the line at the cursor
  Confidences,  \* of a candidate
  Quiet,        \* the most grammar candidates one of which is shown all the same
  MostCandidates \* bound on the pool

\* What each slot may be filled with; the slots of live entities admit nothing else.
Allowed == [
  Command         |-> {"Command"},                  Unknown      |-> {"Command"},
  Subcommand      |-> {"Subcommand"},               AptAction    |-> {"Subcommand", "Workflow"},
  DockerContainer |-> {"Container"},                Process      |-> {"Process"},
  Service         |-> {"Service"},                  GitRef       |-> {"GitRef"},
  Host            |-> {"Host"},                     GitCleanOption |-> {"Option", "Command"},
  Option          |-> {"Option", "Command"},        Path         |-> {"Path", "Command"},
  NamedPath       |-> {"Path"},                     AptPackage   |-> {"Package"}]
Slots == DOMAIN Allowed
EntitySlots == {"DockerContainer", "Process", "Service", "GitRef", "Host"}

Letters == UNION {Range(l) : l \in Lines \cup {Typed}}

ArbiterConstants ==
  /\ Lines \cup {Typed} \subseteq Seq(Letters)
  /\ \A l \in Lines : IsStrictPrefix(Typed, l)
  /\ Confidences \subseteq Nat
  /\ Quiet \in Nat \ {0} /\ MostCandidates \in Nat

VARIABLES
  slot, pool,
  answer   \* what is shown: its kind is "none" while the sources speak, or "silence"

arbiter == <<slot, pool, answer>>

NoAnswer == [line |-> Typed, kind |-> "none", source |-> "none"]
Silence == [line |-> Typed, kind |-> "silence", source |-> "none"]

Init == slot \in Slots /\ pool = <<>> /\ answer = NoAnswer

(*****************************************************************************)
(* The sources. A kind is the first of a list that the slot allows.          *)
(*****************************************************************************)
FirstAllowed(kinds) ==
  {kinds[i] : i \in {j \in DOMAIN kinds : /\ kinds[j] \in Allowed[slot]
                                         /\ \A k \in 1 .. j - 1 : kinds[k] \notin Allowed[slot]}}

\* The source of the slot's own kind of thing.
Domain == CASE slot = "DockerContainer" -> {<<"Container", "LiveEntity">>}
            [] slot = "Process" -> {<<"Process", "LiveEntity">>}
            [] slot = "Service" -> {<<"Service", "LiveEntity">>}
            [] slot = "GitRef" -> {<<"GitRef", "LiveEntity">>}
            [] slot = "Host" -> {<<"Host", "LiveEntity">>}
            [] slot \in {"Path", "NamedPath"} -> {<<"Path", "Workflow">>, <<"Path", "Filesystem">>}
            [] slot = "AptPackage" -> {<<"Package", "Recovery">>, <<"Package", "Popularity">>,
                                       <<"Package", "LiveEntity">>}
            [] slot = "AptAction" -> {<<"Subcommand", "Grammar">>, <<"Workflow", "Workflow">>}
            [] slot = "Subcommand" -> {<<"Subcommand", "Grammar">>}
            [] slot \in {"Option", "GitCleanOption"} -> {<<"Option", "Grammar">>}
            [] OTHER -> {}

CommandNames == IF "Command" \in Allowed[slot]
                THEN {<<"Command", "Executable">>, <<"Command", "Grammar">>} ELSE {}
Contextual == FirstAllowed(<<"Workflow", "Command", "Subcommand", "Container", "Service", "Process", "Path">>)
              \X {"Workflow"}
LearnedKind == FirstAllowed(<<"Command", "Subcommand", "Path", "Package">>)
Transitions == LearnedKind \X {"Transition"}
Personal == FirstAllowed(<<"Command", "Subcommand", "Package">>) \X {"Personal"}

\* generate: the order in which the sources speak.
Sources == <<CommandNames, Domain, Contextual, Transitions, Personal>>

\* Only facts of the snapshot depend on a generation or expire.
MayExpire(source) == source \in {"Executable", "LiveEntity", "Workflow", "Recovery", "Filesystem", "Popularity"}

\* None that has its turn before the last candidate's speaks again.
StillToSpeak ==
  UNION {Sources[i] : i \in {j \in DOMAIN Sources :
                                pool # <<>> => \E k \in 1 .. j : <<Last(pool).kind, Last(pool).source>> \in Sources[k]}}

Push(what, line, confidence, current) ==
  /\ current \/ MayExpire(what[2])
  /\ pool' = Append(pool, [line |-> line, kind |-> what[1], source |-> what[2],
                          confidence |-> confidence, current |-> current])
  /\ UNCHANGED <<slot, answer>>

(*****************************************************************************)
(* The arbiter.                                                              *)
(*****************************************************************************)
Bonus == [Executable |-> 20, LiveEntity |-> 80, Workflow |-> 60, Transition |-> 40, Grammar |-> 0,
          Popularity |-> 0, Personal |-> -30, Recovery |-> 20, Filesystem |-> -80]
Score(c) == c.confidence + Bonus[c.source]

Eligible(c) ==
  /\ c.kind \in Allowed[slot]
  /\ IsStrictPrefix(Typed, c.line)
  /\ c.current

EligibleAt == {i \in DOMAIN pool : Eligible(pool[i])}
TopAt == LET eligible == EligibleAt
             best == Max({Score(pool[i]) : i \in eligible})
         IN {i \in eligible : Score(pool[i]) = best}
Common == LongestCommonPrefix({pool[i].line : i \in TopAt})
QuietTie == /\ pool[Min(TopAt)].kind # "Command"
            /\ \A i \in TopAt : pool[i].source = "Grammar"
            /\ Cardinality(TopAt) <= Quiet
Shown(c, line) == [line |-> line, kind |-> c.kind, source |-> c.source]

Choice ==
  IF EligibleAt = {} THEN Silence
  ELSE LET first == pool[Min(TopAt)] IN
       IF Cardinality(TopAt) = 1 THEN Shown(first, first.line)
       ELSE IF Common # Typed THEN Shown(first, Common)
       ELSE IF QuietTie THEN Shown(first, first.line) ELSE Silence

Choose ==
  /\ answer = NoAnswer
  /\ answer' = Choice
  /\ UNCHANGED <<slot, pool>>

Next ==
  \/ /\ answer = NoAnswer /\ Len(pool) < MostCandidates
     /\ \E what \in StillToSpeak, line \in Lines, confidence \in Confidences, current \in BOOLEAN :
          Push(what, line, confidence, current)
  \/ Choose
Spec == Init /\ [][Next]_arbiter

\* What is shown extends the line; nothing with better evidence speaks against it, and nothing
\* with the same evidence either, unless a few grammar words tie (arbiter.rs:20); it holds of
\* the snapshot now; and where a live entity is expected neither a word of the grammar nor
\* anything remembered fills in for it, even when no entity is known.
AnswersAreJustified ==
  answer.kind \notin {"none", "silence"} =>
    /\ IsStrictPrefix(Typed, answer.line)
    /\ \A i \in DOMAIN pool : pool[i].current /\ ~IsPrefix(answer.line, pool[i].line) =>
         \E j \in DOMAIN pool :
           /\ pool[j].current /\ IsPrefix(answer.line, pool[j].line)
           /\ \/ Score(pool[j]) > Score(pool[i])
              \/ Score(pool[j]) = Score(pool[i]) /\ pool[i].source = "Grammar" /\ answer.source = "Grammar"
                 /\ answer.kind # "Command"
    /\ slot \in EntitySlots => answer.source \in {"LiveEntity", "Workflow"}
================================================================================
