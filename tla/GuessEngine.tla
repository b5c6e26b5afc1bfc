------------------------------ MODULE GuessEngine ------------------------------
(*****************************************************************************)
(* The helper behind the ghost text of one shell (runtime.rs, world.rs): one *)
(* thread answers the shell's requests from a snapshot of its surroundings,  *)
(* two workers take that snapshot and write what was learned. The snapshot   *)
(* has one part per kind of thing that can be suggested; the parts meet only *)
(* in the queue of the workers, so a behaviour follows one of them (domain)  *)
(* and the writing of what was learned.                                      *)
(*****************************************************************************)
EXTENDS Naturals, Sequences, FiniteSets

CONSTANTS
  Domains,      \* the parts of the snapshot that a run follows
  Places,       \* directories; the shell starts in one of them
  Capacity,     \* BACKGROUND_QUEUE_CAPACITY
  Lasting,      \* the parts that stay fresh for a tick, the others for less
  MostObserved, \* bound: commands the shell reports
  LastTick      \* bound on the clock

\* What the two kinds of invalidation do with the old list.
Cleared == {"docker", "apt", "git", "hosts", "files", "artifacts"}
Kept == {"processes", "services"}
Workers == 1 .. 2

EngineConstants ==
  /\ Domains \subseteq Cleared \cup Kept
  /\ Capacity \in Nat \ {0}
  /\ Lasting \subseteq Domains
  /\ MostObserved \in Nat /\ LastTick \in Nat

VARIABLES
  domain,    \* the part of the snapshot this behaviour follows
  tick,
  observed,  \* commands the shell has reported
  here,      \* current_cwd
  last,      \* whether last_event is a command that succeeded
  gen, at, where, content,  \* the part: generation, refreshed_at, cwd, list
  since,     \* the command that invalidated it last
  submits,   \* what the request at hand has yet to hand to the workers
  queue, workers, unfinished,
  stage      \* "serving", "draining" (Quit or end of input), "idle" or "overdue"

guess == <<domain, tick, observed, here, last, gen, at, where, content, since, submits,
           queue, workers, unfinished, stage>>

Nothing == "nothing"
\* A list remembers the directory and the command after which it was read.
Lists == [where : Places, read : 0 .. MostObserved]
NoList == [where |-> Nothing, read |-> 0]
Refresh(g, place) == [kind |-> "refresh", gen |-> g, where |-> place, list |-> NoList]
Record == [kind |-> "record", gen |-> 0, where |-> Nothing, list |-> NoList]
Rest == [kind |-> "rest", gen |-> 0, where |-> Nothing, list |-> NoList]
Fresh == tick - at <= IF domain \in Lasting THEN 1 ELSE 0

(* Runtime::new submits the prewarming refreshes of generation 0; the parts that only *)
(* a command fills start empty.                                              *)
Prewarmed == {"hosts", "files", "apt"}
Init ==
  /\ domain \in Domains
  /\ here \in Places
  /\ tick = 0 /\ observed = 0 /\ last = FALSE
  /\ gen = 0 /\ at = 0 /\ where = here /\ content = NoList /\ since = 0
  /\ submits = IF domain \in Prewarmed THEN <<Refresh(0, here)>> ELSE <<>>
  /\ queue = <<>> /\ workers = [w \in Workers |-> Rest] /\ unfinished = 0
  /\ stage = "serving"

(*****************************************************************************)
(* What a command is, as far as the snapshot cares (derive_event).           *)
(*****************************************************************************)
Commands == {"docker ps", "apt", "ps", "systemctl", "git commit", "git switch", "mkdir", "cd"}
GitCommands == {"git commit", "git switch"}

\* Whether the command makes the part invalid, and whether a refresh is due then.
Invalidates(what, ok, place) ==
  \/ domain = "docker" /\ what = "docker ps"
  \/ domain = "apt" /\ ok /\ what = "apt"
  \/ domain = "processes" /\ ok /\ what = "ps"
  \/ domain = "services" /\ ok /\ what = "systemctl"
  \/ domain = "git" /\ ok /\ what \in GitCommands
     /\ (where # place \/ what = "git switch" \/ ~Fresh)
  \/ domain = "hosts" /\ ~Fresh
  \/ domain = "files" /\ (where # place \/ ~Fresh \/ what = "mkdir")
  \/ domain = "artifacts" /\ ok /\ what = "mkdir"
Refreshes(what, ok, place) == Invalidates(what, ok, place) /\ (domain = "docker" => ok)

\* What observe_command_with_cwd learns: a command that succeeded and holds no secret, and
\* that it followed another one (differs) that succeeded.
Learns(ok, safe, differs) ==
  IF ~ok \/ ~safe THEN <<>>
  ELSE IF last /\ differs THEN <<Record, Record>> ELSE <<Record>>

Observe ==
  /\ stage = "serving" /\ submits = <<>> /\ observed < MostObserved
  /\ observed' = observed + 1
  /\ \E what \in Commands, ok \in BOOLEAN, place \in Places :
       LET invalid == Invalidates(what, ok, place) IN
       /\ here' = place
       /\ last' = ok
       /\ gen' = IF invalid THEN gen + 1 ELSE gen
       /\ at' = IF invalid THEN tick ELSE at
       /\ where' = IF invalid THEN place ELSE where
       /\ content' = IF invalid /\ domain \in Cleared THEN NoList ELSE content
       /\ since' = IF invalid THEN observed' ELSE since
       /\ \E safe, differs \in BOOLEAN :
            submits' = Learns(ok, safe, differs)
                       \o (IF Refreshes(what, ok, place) THEN <<Refresh(gen', place)>> ELSE <<>>)
  /\ UNCHANGED <<domain, tick, queue, workers, unfinished, stage>>

(*****************************************************************************)
(* BackgroundQueue: submit counts a job, then hands it over or drops it.     *)
(*****************************************************************************)
Finished(n) == IF n = 0 THEN 0 ELSE n - 1

Submit ==
  /\ submits # <<>>
  /\ submits' = Tail(submits)
  /\ IF Len(queue) < Capacity
     THEN queue' = Append(queue, Head(submits)) /\ unfinished' = unfinished + 1
     ELSE UNCHANGED <<queue, unfinished>>
  /\ UNCHANGED <<domain, tick, observed, here, last, gen, at, where, content, since, workers, stage>>

Alive == stage \in {"serving", "draining"}
Take(w) ==
  /\ Alive /\ workers[w] = Rest /\ queue # <<>>
  /\ workers' = [workers EXCEPT ![w] = Head(queue)]
  /\ queue' = Tail(queue)
  /\ UNCHANGED <<domain, tick, observed, here, last, gen, at, where, content, since, submits, unfinished, stage>>

\* The job runs the command or the scan; it may fail or be out of time.
ReadList(w) ==
  /\ Alive /\ workers[w].kind = "refresh" /\ workers[w].list = NoList
  /\ workers' = [workers EXCEPT ![w].list = [where |-> workers[w].where, read |-> observed]]
  /\ UNCHANGED <<domain, tick, observed, here, last, gen, at, where, content, since, submits, queue,
                 unfinished, stage>>

\* A refresh that overwrites what a newer one is about to fill.
AdmitsAny(job) == domain \in {"git", "files"} => job.where = where

\* An older refresh does not overwrite what a newer one is about to fill.
Admits(job) ==
  /\ job.gen = gen
  /\ domain \in {"git", "files"} => job.where = where

Publish(w) ==
  /\ Alive /\ workers[w].list # NoList
  /\ IF Admits(workers[w]) THEN content' = workers[w].list /\ at' = tick
                           ELSE UNCHANGED <<content, at>>
  /\ workers' = [workers EXCEPT ![w] = Rest]
  /\ unfinished' = Finished(unfinished)
  /\ UNCHANGED <<domain, tick, observed, here, last, gen, where, since, submits, queue, stage>>

\* A record is written, or fails, panics or finds nothing: the job is over in any case.
Finish(w) ==
  /\ Alive /\ workers[w].kind \in {"record", "refresh"} /\ workers[w].list = NoList
  /\ workers' = [workers EXCEPT ![w] = Rest]
  /\ unfinished' = Finished(unfinished)
  /\ UNCHANGED <<domain, tick, observed, here, last, gen, at, where, content, since, submits, queue, stage>>

(*****************************************************************************)
(* Quit and the end of the input wait until nothing is unfinished, or 150 ms.   *)
(*****************************************************************************)
Quit ==
  /\ stage = "serving" /\ submits = <<>>
  /\ stage' = "draining"
  /\ UNCHANGED <<domain, tick, observed, here, last, gen, at, where, content, since, submits, queue,
                 workers, unfinished>>
Drained ==
  /\ stage = "draining"
  /\ \/ unfinished = 0 /\ stage' = "idle"
     \/ unfinished # 0 /\ stage' = "overdue"
  /\ UNCHANGED <<domain, tick, observed, here, last, gen, at, where, content, since, submits, queue,
                 workers, unfinished>>

Pass ==
  /\ stage = "serving" /\ tick < LastTick
  /\ tick' = tick + 1
  /\ UNCHANGED <<domain, observed, here, last, gen, at, where, content, since, submits, queue, workers,
                 unfinished, stage>>

Next ==
  \/ Observe
  \/ Submit
  \/ \E w \in Workers : Take(w) \/ ReadList(w) \/ Publish(w) \/ Finish(w)
  \/ Quit \/ Drained \/ Pass
Spec == Init /\ [][Next]_guess

(*****************************************************************************)
(* What a query may suggest from this part of the snapshot (domains.rs,      *)
(* checked again by the arbiter). APT's packages do not age.                 *)
(*****************************************************************************)
Offers ==
  /\ stage = "serving" /\ submits = <<>>
  /\ content # NoList
  /\ domain # "apt" => Fresh
  /\ domain = "files" => where = here

\* Once a command has made a list invalid, no query sees that list again, whatever refreshes
\* are still under way from before (runtime.rs:284); files are those of the shell's own
\* directory; and a helper that ends as drained has no accepted record left to write.
GuessesAreCurrent ==
  /\ Offers /\ domain \in Cleared => content.read >= since
  /\ Offers /\ domain = "files" => content.where = here
  /\ stage = "idle" => queue = <<>> /\ \A w \in Workers : workers[w] = Rest

\* Branches come from the repository the shell is in (ARCHITECTURE-V2.md:60).
RefsStayInRepository == Offers /\ domain = "git" => content.where = here
================================================================================
