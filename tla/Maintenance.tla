------------------------------- MODULE Maintenance -------------------------------
(***************************************************************************)
(* The long Btrfs tasks the service runs for the user (btrfs.rs of the     *)
(* helper): the space rebalance, which a transient systemd unit carries    *)
(* out and the kernel may outlive the service with, and the                *)
(* defragmentation of Home, a child process.  Each has a flag that lets    *)
(* one in, a task record behind a mutex, a thread, and cancellations that  *)
(* arrive at any moment.  The integrity check is the flag alone.           *)
(***************************************************************************)
EXTENDS Naturals, FiniteSets

CONSTANTS
  Requesters,     \* D-Bus calls that may be under way at the same time
  MostStarts      \* bound of each task's generation

\* What the constants must be.
MaintenanceConstants == MostStarts \in Nat

VARIABLES
  running,     \* BALANCE_TASK_RUNNING, DEFRAG_TASK_RUNNING, SCRUB_TASK_RUNNING
  task,        \* BALANCE_TASK, DEFRAG_TASK
  thread,      \* where the task's thread is
  kernel,      \* the generation the kernel balances for, the child that defragments
  asked,       \* what each call is doing
  used,        \* the task this behaviour uses: the two share nothing
  cancelled,   \* history: generations whose cancellation was answered with success
  done         \* history: generations whose work the kernel completed

maintVars == <<running, task, thread, kernel, asked, used, cancelled, done>>

Tasks == {"balance", "defrag"}
Active == {"Starting", "Running", "Cancelling"}

\* The kernel works for nobody, or for a generation of an earlier service.
Nobody == 0
Forgotten == MostStarts + 1

FreshTask(g) == [generation |-> g, phase |-> "Starting", cancel |-> FALSE, pid |-> FALSE]
NoThread == [at |-> "None"]
Free(c) == asked[c] = [at |-> "None"]
Asks(c, step) == asked' = [asked EXCEPT ![c] = step]
Answered(c) == Asks(c, [at |-> "None"])
ThreadAt(k, place) == thread' = [thread EXCEPT ![k].at = place]
SetPhase(k, phase) == task' = [task EXCEPT ![k].phase = phase]
Lower(k) == running' = [running EXCEPT ![k] = FALSE]

(***************************************************************************)
(* Starting.  Only the flag is claimed atomically.                         *)
(***************************************************************************)
Claim(c, k) ==
  /\ Free(c) /\ k = used /\ ~running[k] /\ task[k].generation < MostStarts
  /\ running' = [running EXCEPT ![k] = TRUE] /\ Asks(c, [at |-> "Claimed", task |-> k])
  /\ UNCHANGED <<task, thread, kernel, used, cancelled, done>>

ResetTask(c) ==
  /\ asked[c].at = "Claimed"
  /\ LET k == asked[c].task
     IN /\ task' = [task EXCEPT ![k] = FreshTask(@.generation + 1)]
        /\ Asks(c, [at |-> "Spawn", task |-> k])
  /\ UNCHANGED <<running, thread, kernel, used, cancelled, done>>

Spawn(c) ==
  /\ asked[c].at = "Spawn"
  /\ LET k == asked[c].task
     IN \/ thread' = [thread EXCEPT ![k] = [at |-> "Begin"]] /\ Answered(c) /\ UNCHANGED running
        \/ Lower(k) /\ Asks(c, [at |-> "Unspawned", task |-> k]) /\ UNCHANGED thread
  /\ UNCHANGED <<task, kernel, used, cancelled, done>>

\* By now the record may be that of the next task.
FailSpawn(c) ==
  /\ asked[c].at = "Unspawned" /\ SetPhase(asked[c].task, "Failed") /\ Answered(c)
  /\ UNCHANGED <<running, thread, kernel, used, cancelled, done>>

(***************************************************************************)
(* run_balance_task.                                                       *)
(***************************************************************************)
BeginBalance ==
  /\ thread["balance"].at = "Begin"
  /\ IF task["balance"].cancel
     THEN /\ SetPhase("balance", "Cancelled") /\ Lower("balance")
          /\ thread' = [thread EXCEPT !["balance"] = NoThread]
     ELSE SetPhase("balance", "Running") /\ ThreadAt("balance", "Command") /\ UNCHANGED running
  /\ UNCHANGED <<kernel, asked, used, cancelled, done>>

\* The unit starts the balance, or cannot: one is running already, or it fails.
CommandBalance ==
  /\ thread["balance"].at = "Command"
  /\ \/ /\ kernel["balance"] = Nobody
        /\ kernel' = [kernel EXCEPT !["balance"] = task["balance"].generation]
        /\ ThreadAt("balance", "Wait")
     \/ thread' = [thread EXCEPT !["balance"] = [at |-> "End", ok |-> FALSE]] /\ UNCHANGED kernel
  /\ UNCHANGED <<running, task, asked, used, cancelled, done>>

\* Completed, or stopped by the kernel.
KernelEnds(k) ==
  /\ kernel[k] # Nobody
  /\ kernel' = [kernel EXCEPT ![k] = Nobody]
  /\ \E ok \in BOOLEAN :
       /\ done' = IF ok THEN [done EXCEPT ![k] = @ \cup {kernel[k]}] ELSE done
       /\ thread' = IF thread[k].at = "Wait"
                    THEN [thread EXCEPT ![k] = [at |-> IF k = "balance" THEN "End" ELSE "Reap", ok |-> ok]]
                    ELSE thread
  /\ UNCHANGED <<running, task, asked, used, cancelled>>

EndBalance ==
  /\ thread["balance"].at = "End"
  /\ SetPhase("balance", IF task["balance"].cancel THEN "Cancelled"
                         ELSE IF thread["balance"].ok THEN "Finished" ELSE "Failed")
  /\ Lower("balance") /\ thread' = [thread EXCEPT !["balance"] = NoThread]
  /\ UNCHANGED <<kernel, asked, used, cancelled, done>>

(***************************************************************************)
(* cancel_balance: a note in the record, then the kernel is told.          *)
(***************************************************************************)
\* Mutant: a balance that has begun is taken for one that has not.
NotYetRunning(t) == t.phase \in {"Starting", "Running"}

WasStarting(t) == t.phase = "Starting"

CancelBalance(c) ==
  /\ Free(c) /\ used = "balance"
  /\ task' = [task EXCEPT !["balance"].cancel = TRUE,
                          !["balance"].phase = IF @ \in {"Starting", "Running"} THEN "Cancelling" ELSE @]
  /\ Asks(c, [at |-> "Cancel", early |-> WasStarting(task["balance"]),
              generation |-> task["balance"].generation])
  /\ UNCHANGED <<running, thread, kernel, used, cancelled, done>>

\* The kernel stops whatever balance it has; that there is none is only an
\* answer the user wants if the balance had not begun.
CommandCancel(c) ==
  /\ asked[c].at = "Cancel" /\ Answered(c)
  /\ \/ /\ kernel["balance"] # Nobody
        /\ kernel' = [kernel EXCEPT !["balance"] = Nobody]
        /\ thread' = IF thread["balance"].at = "Wait"
                     THEN [thread EXCEPT !["balance"] = [at |-> "End", ok |-> FALSE]] ELSE thread
        /\ cancelled' = [cancelled EXCEPT !["balance"] = @ \cup {kernel["balance"]}]
     \/ /\ kernel["balance"] = Nobody /\ asked[c].early
        /\ cancelled' = [cancelled EXCEPT !["balance"] = @ \cup {asked[c].generation}]
        /\ UNCHANGED <<kernel, thread>>
     \/ UNCHANGED <<kernel, thread, cancelled>>    \* reported as a failure
  /\ UNCHANGED <<running, task, used, done>>

(***************************************************************************)
(* run_defrag_task.                                                        *)
(***************************************************************************)
SpawnDefrag ==
  /\ thread["defrag"].at = "Begin"
  /\ \/ /\ kernel' = [kernel EXCEPT !["defrag"] = task["defrag"].generation]
        /\ ThreadAt("defrag", "Mark")
     \/ thread' = [thread EXCEPT !["defrag"] = [at |-> "End", phase |-> "Failed"]] /\ UNCHANGED kernel
  /\ UNCHANGED <<running, task, asked, used, cancelled, done>>

\* The pid is published; a cancellation that came before it kills the child here.
MarkDefrag ==
  /\ thread["defrag"].at = "Mark"
  /\ task' = [task EXCEPT !["defrag"].phase = IF task["defrag"].cancel THEN "Cancelling" ELSE "Running",
                          !["defrag"].pid = TRUE]
  /\ IF task["defrag"].cancel \/ kernel["defrag"] = Nobody
     THEN /\ kernel' = [kernel EXCEPT !["defrag"] = Nobody]
          /\ thread' = [thread EXCEPT !["defrag"] =
               [at |-> "Reap", ok |-> task["defrag"].generation \in done["defrag"]]]
     ELSE ThreadAt("defrag", "Wait") /\ UNCHANGED kernel
  /\ UNCHANGED <<running, asked, used, cancelled, done>>

\* wait has returned: the pid is no longer the child's, and a cancellation that
\* comes now is too late.
ReapDefrag ==
  /\ thread["defrag"].at = "Reap"
  /\ thread' = [thread EXCEPT !["defrag"] =
       [at |-> "End", phase |-> IF task["defrag"].cancel THEN "Cancelled"
                                ELSE IF thread["defrag"].ok THEN "Finished" ELSE "Failed"]]
  /\ UNCHANGED <<running, task, kernel, asked, used, cancelled, done>>

EndDefrag ==
  /\ thread["defrag"].at = "End"
  /\ task' = [task EXCEPT !["defrag"].phase = thread["defrag"].phase, !["defrag"].pid = FALSE]
  /\ Lower("defrag") /\ thread' = [thread EXCEPT !["defrag"] = NoThread]
  /\ UNCHANGED <<kernel, asked, used, cancelled, done>>

CancelDefrag(c) ==
  /\ Free(c) /\ task["defrag"].phase \in Active
  /\ task' = [task EXCEPT !["defrag"].cancel = TRUE, !["defrag"].phase = "Cancelling"]
  /\ IF task["defrag"].pid
     THEN Asks(c, [at |-> "Kill", generation |-> task["defrag"].generation]) /\ UNCHANGED cancelled
     ELSE /\ UNCHANGED asked
          /\ cancelled' = [cancelled EXCEPT !["defrag"] = @ \cup {task["defrag"].generation}]
  /\ UNCHANGED <<running, thread, kernel, used, done>>

\* The signal ends a living child and is lost on a zombie; once the child is
\* reaped it fails, if the pid has not been given to another process yet.
KillDefrag(c) ==
  /\ asked[c].at = "Kill" /\ Answered(c)
  /\ \/ /\ thread["defrag"].at \in {"Wait", "Reap"} /\ task["defrag"].generation = asked[c].generation
        /\ kernel' = [kernel EXCEPT !["defrag"] = Nobody]
        /\ thread' = IF thread["defrag"].at = "Wait"
                     THEN [thread EXCEPT !["defrag"] = [at |-> "Reap", ok |-> FALSE]] ELSE thread
        /\ cancelled' = [cancelled EXCEPT !["defrag"] = @ \cup {asked[c].generation}]
     \/ UNCHANGED <<kernel, thread, cancelled>>
  /\ UNCHANGED <<running, task, used, done>>

(***************************************************************************)
(* The service ends: threads, records and the child with it, the kernel's  *)
(* balance not.                                                            *)
(***************************************************************************)
ServiceEnds ==
  /\ \E k \in Tasks : running[k]
  /\ running' = [k \in Tasks |-> FALSE]
  /\ task' = [k \in Tasks |-> [FreshTask(0) EXCEPT !.phase = "Idle"]]
  /\ thread' = [k \in Tasks |-> NoThread] /\ asked' = [c \in Requesters |-> [at |-> "None"]]
  /\ kernel' = [balance |-> IF kernel["balance"] = Nobody THEN Nobody ELSE Forgotten,
                defrag |-> Nobody]
  /\ cancelled' = [k \in Tasks |-> {}] /\ done' = [k \in Tasks |-> {}] /\ UNCHANGED used

Init ==
  /\ running = [k \in Tasks |-> FALSE]
  /\ task = [k \in Tasks |-> [FreshTask(0) EXCEPT !.phase = "Idle"]]
  /\ thread = [k \in Tasks |-> NoThread] /\ asked = [c \in Requesters |-> [at |-> "None"]]
  /\ kernel = [k \in Tasks |-> Nobody]
  /\ cancelled = [k \in Tasks |-> {}] /\ done = [k \in Tasks |-> {}] /\ used \in Tasks

Next ==
  \/ \E c \in Requesters :
       \/ \E k \in Tasks : Claim(c, k)
       \/ ResetTask(c) \/ Spawn(c) \/ FailSpawn(c)
       \/ CancelBalance(c) \/ CommandCancel(c) \/ CancelDefrag(c) \/ KillDefrag(c)
  \/ BeginBalance \/ CommandBalance \/ EndBalance
  \/ SpawnDefrag \/ MarkDefrag \/ ReapDefrag \/ EndDefrag
  \/ \E k \in Tasks : KernelEnds(k)
  \/ ServiceEnds

Spec == Init /\ [][Next]_maintVars

(***************************************************************************)
(* What the tasks promise.                                                 *)
(***************************************************************************)
\* A cancellation that was answered with success leaves nothing at work, and what
\* is called finished was completed, no cancellation of it having succeeded. (Not
\* the converse: a balance that ends well while a cancellation of it is under way
\* is called cancelled, although that cancellation may then fail.)
CancelledStaysCancelled ==
  \A k \in Tasks :
    /\ \A g \in cancelled[k] : kernel[k] = g => thread[k].at = "Mark"
    /\ task[k].phase = "Finished" =>
         task[k].generation \in done[k] \ cancelled[k]

\* The flag is up exactly while someone is about to start the thread or it lives:
\* no failure leaves it up for ever, none lets a second task in.
FlagIsTrue ==
  \A k \in Tasks :
    LET starters == {c \in Requesters : asked[c].at \in {"Claimed", "Spawn"} /\ asked[c].task = k}
    IN /\ running[k] <=> (starters # {} \/ thread[k] # NoThread)
       /\ Cardinality(starters) <= 1 /\ (starters # {} => thread[k] = NoThread)

MaintenanceIsHonest == CancelledStaysCancelled /\ FlagIsTrue
=============================================================================
