------------------------------ MODULE GuessHistory ----------------------------
(*****************************************************************************)
(* The log of learned commands (history.rs): helpers of several shells append*)
(* to one file under a lock, and whoever finds it too long rewrites it in    *)
(* short: the newest lines, one for each command, of the commands used last. *)
(* A helper may be killed in the middle. The log of transitions is the same  *)
(* protocol over pairs of commands. Records are numbered; the count in a line*)
(* stands for the records it counts, its time for the last of them.          *)
(*****************************************************************************)
EXTENDS Naturals, Sequences, FiniteSets, SequencesExt, FiniteSetsExt, Functions

CONSTANTS
  Shells,       \* helpers that record
  Learned,      \* the commands they record
  MostLines,    \* what fits into MAX_FILE_BYTES
  LinesRead,    \* the lines a compaction reads of them: 8,000
  EntriesKept,  \* the commands it keeps: 2,000
  MostRecords,  \* bound: records begun
  MostKills     \* bound

HistoryConstants ==
  /\ {MostLines, LinesRead, EntriesKept} \subseteq Nat \ {0} /\ MostRecords \in Nat /\ MostKills \in Nat
  /\ "torn" \notin Learned /\ 0 \notin Shells

VARIABLES
  log,        \* the lines of the file
  lock,       \* the helper that holds flock on history-v1.lock, or 0
  writer,     \* of each helper: its step, its record, the short form of what it has read,
              \* and the records that are not in it (history)
  records, kills,
  appended,   \* of each command: the records in full in the file at some time
  spoiled,    \* of each command: those that went into a torn line
  forgotten   \* of each command: those that a compaction left out when it read

history == <<log, lock, writer, records, kills, appended, spoiled, forgotten>>

Torn == "torn"
Line(command, of) == [command |-> command, of |-> of]
Nothing == [c \in Learned |-> {}]
Resting == [step |-> "rest", command |-> Torn, id |-> 0, short |-> <<>>, dropped |-> Nothing]

IsTorn == log # <<>> /\ Last(log).command = Torn
\* The records of a command that some lines count.
Under(lines, command) == UNION {lines[i].of : i \in {j \in DOMAIN lines : lines[j].command = command}}

Init ==
  /\ log = <<>> /\ lock = 0
  /\ writer = [s \in Shells |-> Resting]
  /\ records = 0 /\ kills = 0
  /\ appended = Nothing /\ spoiled = Nothing /\ forgotten = Nothing

\* record: the lock is waited for.
Begin(s, command) ==
  /\ writer[s] = Resting /\ records < MostRecords
  /\ records' = records + 1
  /\ writer' = [writer EXCEPT ![s] = [Resting EXCEPT !.step = "lock", !.command = command, !.id = records']]
  /\ UNCHANGED <<log, lock, kills, appended, spoiled, forgotten>>

Lock(s) ==
  /\ writer[s].step = "lock" /\ lock = 0
  /\ lock' = s
  /\ writer' = [writer EXCEPT ![s].step = "append"]
  /\ UNCHANGED <<log, records, kills, appended, spoiled, forgotten>>

\* Behind a torn line without its end, the new record is part of that line.
AppendLine(s) ==
  LET c == writer[s].command IN
  /\ writer[s].step = "append"
  /\ IF IsTorn
     THEN /\ log' = Append(Front(log), Line("spoiled", {}))
          /\ spoiled' = [spoiled EXCEPT ![c] = @ \cup {writer[s].id}]
     ELSE /\ log' = Append(log, Line(c, {writer[s].id}))
          /\ UNCHANGED spoiled
  /\ appended' = [appended EXCEPT ![c] = @ \cup {writer[s].id}]
  /\ IF Len(log') <= MostLines
     THEN writer' = [writer EXCEPT ![s] = Resting] /\ lock' = 0
     ELSE writer' = [writer EXCEPT ![s].step = "load"] /\ UNCHANGED lock
  /\ UNCHANGED <<records, kills, forgotten>>

\* load reads the last MAX_FILE_BYTES, without the line that they cut, and of them so many
\* lines: those of one command become one, the latest first, and so many are kept.
Window == Min({MostLines, LinesRead, Len(log)})
Newest == SubSeq(log, Len(log) - Window + 1, Len(log))
Summaries(lines) == {Line(c, Under(lines, c)) : c \in {d \in Learned : Under(lines, d) # {}}}
IsMerged(short, lines) ==
  /\ Len(short) = Min({EntriesKept, Cardinality(Summaries(lines))})
  /\ \A i, j \in DOMAIN short : i < j => Max(short[i].of) > Max(short[j].of)
  /\ \A line \in Summaries(lines) \ Range(short), i \in DOMAIN short : Max(line.of) < Max(short[i].of)

\* A log that cannot be read counts as an empty one.
Load(s) ==
  /\ writer[s].step = "load"
  /\ \E n \in 0 .. MostLines : \E short \in [1 .. n -> Summaries(Newest)] :
       /\ n = 0 \/ IsMerged(short, Newest)
       /\ writer' = [writer EXCEPT ![s].step = "rename", ![s].short = short,
                                   ![s].dropped = [c \in Learned |-> Under(log, c) \ Under(short, c)]]
  /\ UNCHANGED <<log, lock, records, kills, appended, spoiled, forgotten>>

\* compact: a file of its own, synced, then renamed over the log; or an error before that.
Rename(s) ==
  /\ writer[s].step = "rename"
  /\ \/ /\ log' = writer[s].short
        /\ forgotten' = [c \in Learned |-> forgotten[c] \cup writer[s].dropped[c]]
     \/ UNCHANGED <<log, forgotten>>
  /\ writer' = [writer EXCEPT ![s] = Resting] /\ lock' = 0
  /\ UNCHANGED <<records, kills, appended, spoiled>>

\* A helper is killed (a missed deadline, the end of its shell), or its write fails: the lock
\* goes with it, and a record in the middle of its pieces leaves a line without an end.
Kill(s) ==
  /\ writer[s].step # "rest" /\ kills < MostKills
  /\ kills' = kills + 1
  /\ writer' = [writer EXCEPT ![s] = Resting]
  /\ lock' = IF lock = s THEN 0 ELSE lock
  /\ \/ UNCHANGED log
     \/ writer[s].step = "append" /\ ~IsTorn /\ log' = Append(log, Line(Torn, {}))
  /\ UNCHANGED <<records, appended, spoiled, forgotten>>

Next ==
  \E s \in Shells :
    \/ \E command \in Learned : Begin(s, command)
    \/ Lock(s) \/ AppendLine(s) \/ Load(s) \/ Rename(s) \/ Kill(s)
Spec == Init /\ [][Next]_history

\* However shells append, compact and are killed: a record that was made is in the log, counted
\* once, but for those glued to a torn line and those that a compaction had before it and left
\* out (past what it reads and keeps, or all of a log it could not read); what is appended
\* while another shell compacts is not lost, and a torn line costs at most the record behind it.
NothingElseIsLost ==
  /\ \A c \in Learned : /\ Under(log, c) \cup spoiled[c] \cup forgotten[c] = appended[c]
                        /\ Under(log, c) \cap (spoiled[c] \cup forgotten[c]) = {}
  /\ \A i, j \in DOMAIN log : i # j => log[i].of \cap log[j].of = {}
  /\ Cardinality(UNION Range(spoiled)) <= kills
===============================================================================
