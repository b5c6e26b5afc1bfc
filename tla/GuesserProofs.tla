----------------------------- MODULE GuesserProofs -----------------------------
(*****************************************************************************)
(* What the command guesser keeps, proved of Programs for all values of the  *)
(* constants: the engine guesses from snapshots that are current             *)
(* (GuessEngine), the text behind the cursor belongs to the line             *)
(* (GhostLine), the arbiter shows what its evidence justifies                *)
(* (GuessArbiter), and the log of commands loses nothing but what it says    *)
(* (GuessHistory). Each part has an inductive invariant, a lemma for each    *)
(* action, and one that what it promises follows.                            *)
(*****************************************************************************)
EXTENDS Programs, FiniteSetTheorems, SequenceTheorems, WellFoundedInduction, TLAPS

(*****************************************************************************)
(* The snapshot of the surroundings and its workers (GuessEngine).           *)
(*****************************************************************************)
AnyList == [where : Places \cup {Engine!Nothing}, read : Nat]
GuessJob == [kind : {"refresh", "record"}, gen : Nat, where : Places \cup {Engine!Nothing}, list : AnyList]

\* Jobs nobody has begun, of generations up to g.
Pending(jobs, g) ==
  /\ jobs \in Seq(GuessJob)
  /\ \A i \in 1 .. Len(jobs) : jobs[i].gen <= g /\ jobs[i].list = Engine!NoList

EngineType ==
  /\ domain \in Domains /\ here \in Places /\ where \in Places /\ tick \in Nat /\ observed \in Nat
  /\ gen \in Nat /\ since \in Nat /\ since <= observed /\ content \in AnyList /\ unfinished \in Nat
  /\ Pending(submits, gen) /\ Pending(queue, gen)
  /\ workers \in [Engine!Workers -> GuessJob \cup {Engine!Rest}]

\* What a worker has read for the current generation was read after the last invalidation.
WorkerFits(w) ==
  /\ workers[w].gen <= gen
  /\ workers[w].list # Engine!NoList =>
       /\ workers[w] \in GuessJob /\ workers[w].list.where = workers[w].where
       /\ workers[w].gen = gen => workers[w].list.read >= since

ContentFits ==
  content # Engine!NoList =>
    /\ domain \in Engine!Cleared => content.read >= since
    /\ domain = "files" => content.where = where

\* Every job that was handed over and is not over is counted once.
Busy(work) == IF work = Engine!Rest THEN 0 ELSE 1
AllCounted == unfinished = Len(queue) + Busy(workers[1]) + Busy(workers[2])

StageFits ==
  /\ stage \in {"serving", "draining", "idle", "overdue"}
  /\ stage # "serving" => submits = <<>>
  /\ stage = "idle" => unfinished = 0

EngineInv ==
  /\ EngineType /\ (\A w \in Engine!Workers : WorkerFits(w)) /\ ContentFits /\ AllCounted /\ StageFits

LEMMA JobKinds ==
  /\ Engine!NoList \in AnyList /\ Engine!Rest \notin GuessJob /\ Engine!Rest.list = Engine!NoList /\ Engine!Rest.gen = 0
  /\ Engine!Rest.kind = "rest" /\ Engine!Record \in GuessJob /\ Engine!Record.gen = 0 /\ Engine!Record.list = Engine!NoList
  /\ \A g \in Nat, p \in Places :
       Engine!Refresh(g, p) \in GuessJob /\ Engine!Refresh(g, p).gen = g /\ Engine!Refresh(g, p).list = Engine!NoList
<1>1. Engine!NoList \in AnyList /\ Engine!Nothing \in Places \cup {Engine!Nothing}
  BY DEF Engine!NoList, AnyList
<1> QED
  BY <1>1 DEF Engine!Rest, Engine!Record, Engine!Refresh, GuessJob

LEMMA NonePending == \A g : Pending(<<>>, g)
BY DEF Pending

LEMMA OnePending ==
  ASSUME NEW g \in Nat, NEW j \in GuessJob, j.gen <= g, j.list = Engine!NoList PROVE Pending(<<j>>, g)
BY DEF Pending

LEMMA BothPending ==
  ASSUME NEW g, NEW s, NEW t, Pending(s, g), Pending(t, g) PROVE Pending(s \o t, g)
<1>1. s \in Seq(GuessJob) /\ t \in Seq(GuessJob)
  BY DEF Pending
<1>2. s \o t \in Seq(GuessJob) /\ Len(s \o t) = Len(s) + Len(t)
  BY <1>1, ConcatProperties
<1>3. ASSUME NEW i \in 1 .. Len(s \o t) PROVE (s \o t)[i].gen <= g /\ (s \o t)[i].list = Engine!NoList
  <2>1. Len(s) \in Nat /\ Len(t) \in Nat
    BY <1>1, LenProperties
  <2>2. CASE i <= Len(s)
    <3>1. (s \o t)[i] = s[i] /\ i \in 1 .. Len(s)
      BY <1>1, <1>2, <1>3, <2>1, <2>2, ConcatProperties
    <3> QED
      BY <3>1 DEF Pending
  <2>3. CASE i > Len(s)
    <3>1. (s \o t)[i] = t[i - Len(s)] /\ i - Len(s) \in 1 .. Len(t)
      BY <1>1, <1>2, <1>3, <2>1, <2>3, ConcatProperties
    <3> QED
      BY <3>1 DEF Pending
  <2> QED
    BY <1>2, <2>1, <2>2, <2>3
<1> QED
  BY <1>2, <1>3 DEF Pending

LEMMA StillPending ==
  ASSUME NEW g \in Nat, NEW h \in Nat, g <= h, NEW s, Pending(s, g) PROVE Pending(s, h)
<1>1. ASSUME NEW i \in 1 .. Len(s) PROVE s[i].gen <= h /\ s[i].list = Engine!NoList
  <2>1. s[i] \in GuessJob /\ s[i].gen <= g /\ s[i].list = Engine!NoList
    BY <1>1 DEF Pending
  <2> QED
    BY <2>1 DEF GuessJob
<1> QED
  BY <1>1 DEF Pending

LEMMA FirstPending ==
  ASSUME NEW g \in Nat, NEW s, Pending(s, g), s # <<>>
  PROVE  /\ Head(s) \in GuessJob /\ Head(s).gen <= g /\ Head(s).list = Engine!NoList
         /\ Pending(Tail(s), g) /\ Len(Tail(s)) = Len(s) - 1 /\ Len(s) \in Nat
<1>1. s \in Seq(GuessJob) /\ Len(s) \in Nat /\ Len(s) >= 1 /\ Head(s) = s[1]
  BY DEF Pending
<1>2. Tail(s) \in Seq(GuessJob) /\ Len(Tail(s)) = Len(s) - 1 /\ \A i \in 1 .. Len(Tail(s)) : Tail(s)[i] = s[i + 1]
  BY <1>1
<1>3. ASSUME NEW i \in 1 .. Len(Tail(s)) PROVE Tail(s)[i].gen <= g /\ Tail(s)[i].list = Engine!NoList
  <2>1. Tail(s)[i] = s[i + 1] /\ i + 1 \in 1 .. Len(s)
    BY <1>1, <1>2, <1>3
  <2> QED
    BY <2>1 DEF Pending
<1>4. s[1] \in GuessJob /\ s[1].gen <= g /\ s[1].list = Engine!NoList
  BY <1>1 DEF Pending
<1> QED
  BY <1>1, <1>2, <1>3, <1>4 DEF Pending

LEMMA EngineStarts == Engine!Init => EngineInv
<1> SUFFICES ASSUME Engine!Init PROVE EngineInv
  OBVIOUS
<1>1. /\ domain \in Domains /\ here \in Places /\ where = here /\ tick = 0 /\ observed = 0 /\ last = FALSE /\ gen = 0
      /\ content = Engine!NoList /\ since = 0 /\ queue = <<>> /\ unfinished = 0 /\ stage = "serving"
      /\ submits \in {<<>>, <<Engine!Refresh(0, here)>>} /\ workers = [w \in Engine!Workers |-> Engine!Rest]
  BY DEF Engine!Init
<1>2. Pending(submits, gen) /\ Pending(queue, gen)
  BY <1>1, JobKinds, NonePending, OnePending
<1>3. EngineType
  BY <1>1, <1>2, JobKinds DEF EngineType
<1>4. \A w \in Engine!Workers : WorkerFits(w)
  BY <1>1, JobKinds DEF WorkerFits
<1>5. AllCounted
  BY <1>1 DEF AllCounted, Busy, Engine!Workers
<1> QED
  BY <1>1, <1>3, <1>4, <1>5 DEF EngineInv, ContentFits, StageFits

LEMMA LearnsPending == \A ok, safe, differs : Pending(Engine!Learns(ok, safe, differs), 0)
<1>1. Pending(<<Engine!Record>>, 0)
  BY JobKinds, OnePending
<1>2. <<Engine!Record, Engine!Record>> = <<Engine!Record>> \o <<Engine!Record>>
  OBVIOUS
<1>3. Pending(<<Engine!Record, Engine!Record>>, 0)
  BY <1>1, <1>2, BothPending
<1> QED
  BY <1>1, <1>3, NonePending DEF Engine!Learns

LEMMA EngineObserveKeeps == EngineInv /\ Engine!Observe => EngineInv'
<1> SUFFICES ASSUME EngineInv, Engine!Observe PROVE EngineInv'
  OBVIOUS
<1>1. /\ stage = "serving" /\ observed' = observed + 1
      /\ UNCHANGED <<domain, tick, queue, workers, unfinished, stage>>
  BY DEF Engine!Observe
<1>2. PICK what \in Engine!Commands, ok \in BOOLEAN, p \in Places :
        /\ here' = p /\ last' = ok
        /\ gen' = IF Engine!Invalidates(what, ok, p) THEN gen + 1 ELSE gen
        /\ where' = IF Engine!Invalidates(what, ok, p) THEN p ELSE where
        /\ content' = IF Engine!Invalidates(what, ok, p) /\ domain \in Engine!Cleared THEN Engine!NoList ELSE content
        /\ since' = IF Engine!Invalidates(what, ok, p) THEN observed' ELSE since
        /\ \E safe, differs \in BOOLEAN :
             submits' = Engine!Learns(ok, safe, differs)
                        \o (IF Engine!Refreshes(what, ok, p) THEN <<Engine!Refresh(gen', p)>> ELSE <<>>)
  BY Zenon DEF Engine!Observe
<1>a. PICK safe \in BOOLEAN, differs \in BOOLEAN :
        submits' = Engine!Learns(ok, safe, differs)
                   \o (IF Engine!Refreshes(what, ok, p) THEN <<Engine!Refresh(gen', p)>> ELSE <<>>)
  BY <1>2, Zenon
<1>3. gen \in Nat /\ gen' \in Nat /\ gen <= gen' /\ since' \in Nat /\ since' <= observed' /\ observed' \in Nat
  BY <1>1, <1>2 DEF EngineInv, EngineType
<1>4. Pending(submits', gen')
  <2>1. Pending(Engine!Learns(ok, safe, differs), gen')
    BY <1>3, LearnsPending, StillPending
  <2>2. Pending(IF Engine!Refreshes(what, ok, p) THEN <<Engine!Refresh(gen', p)>> ELSE <<>>, gen')
    BY <1>3, JobKinds, NonePending, OnePending
  <2> QED
    BY <1>a, <2>1, <2>2, BothPending
<1>5. Pending(queue, gen')
  BY <1>3, StillPending DEF EngineInv, EngineType
<1>6. EngineType'
  BY <1>1, <1>2, <1>3, <1>4, <1>5, JobKinds DEF EngineInv, EngineType
<1>7. ASSUME NEW w \in Engine!Workers PROVE WorkerFits(w)'
  <2>1. workers[w].gen \in Nat /\ workers[w].gen <= gen /\ WorkerFits(w)
    BY JobKinds DEF EngineInv, EngineType, WorkerFits, GuessJob
  <2>2. CASE gen' = gen /\ since' = since
    BY <1>1, <2>1, <2>2 DEF WorkerFits
  <2>3. CASE gen' = gen + 1
    BY <1>1, <1>3, <2>1, <2>3 DEF WorkerFits
  <2> QED
    BY <1>2, <2>2, <2>3
<1>8. ContentFits'
  <2>1. CASE Engine!Invalidates(what, ok, p)
    BY <1>1, <1>2, <2>1 DEF ContentFits, Engine!Cleared
  <2>2. CASE ~Engine!Invalidates(what, ok, p)
    BY <1>1, <1>2, <2>2 DEF ContentFits, EngineInv
  <2> QED
    BY <2>1, <2>2
<1>9. AllCounted' /\ StageFits'
  BY <1>1 DEF EngineInv, AllCounted, Busy, StageFits
<1> QED
  BY <1>6, <1>7, <1>8, <1>9 DEF EngineInv

\* Handing over leaves the snapshot and the workers alone.
LEMMA SubmitKeeps == EngineInv /\ Engine!Submit => EngineInv'
<1> SUFFICES ASSUME EngineInv, Engine!Submit PROVE EngineInv'
  OBVIOUS
<1>1. submits # <<>> /\ submits' = Tail(submits)
      /\ UNCHANGED <<domain, tick, observed, here, last, gen, at, where, content, since, workers, stage>>
  BY DEF Engine!Submit
<1>2. gen \in Nat /\ Pending(submits, gen) /\ Pending(queue, gen)
  BY DEF EngineInv, EngineType
<1>3. Pending(submits', gen) /\ Head(submits) \in GuessJob /\ Pending(<<Head(submits)>>, gen)
  BY <1>1, <1>2, FirstPending, OnePending
<1>4. stage = "serving"
  BY <1>1 DEF EngineInv, StageFits
<1>5. \/ UNCHANGED <<queue, unfinished>>
      \/ queue' = Append(queue, Head(submits)) /\ unfinished' = unfinished + 1
  BY DEF Engine!Submit
<1>6. Pending(queue', gen) /\ unfinished' \in Nat /\ unfinished' - unfinished = Len(queue') - Len(queue)
  <2>1. CASE UNCHANGED <<queue, unfinished>>
    BY <1>2, <2>1 DEF EngineInv, EngineType, Pending
  <2>2. CASE queue' = Append(queue, Head(submits)) /\ unfinished' = unfinished + 1
    <3>1. queue \in Seq(GuessJob)
      BY <1>2 DEF Pending
    <3>2. queue' = queue \o <<Head(submits)>> /\ Len(queue') = Len(queue) + 1
      BY <1>3, <2>2, <3>1
    <3>3. Pending(queue', gen)
      BY <1>2, <1>3, <3>2, BothPending
    <3> QED
      BY <2>2, <3>1, <3>2, <3>3 DEF EngineInv, EngineType
  <2> QED
    BY <1>5, <2>1, <2>2
<1>7. EngineType'
  BY <1>1, <1>3, <1>6 DEF EngineInv, EngineType
<1>8. (\A w \in Engine!Workers : WorkerFits(w)') /\ ContentFits'
  BY <1>1 DEF EngineInv, WorkerFits, ContentFits
<1>9. AllCounted'
  <2>1. Len(queue) \in Nat /\ Len(queue') \in Nat /\ unfinished \in Nat
    BY <1>2, <1>6 DEF Pending, EngineInv, EngineType
  <2>2. Busy(workers'[1]) = Busy(workers[1]) /\ Busy(workers'[2]) = Busy(workers[2]) /\ Busy(workers[1]) \in Nat /\ Busy(workers[2]) \in Nat
    BY <1>1 DEF Busy
  <2>3. PICK q \in Nat, next \in Nat, u \in Nat, one \in Nat, two \in Nat :
          /\ q = Len(queue) /\ next = Len(queue') /\ u = unfinished /\ one = Busy(workers[1]) /\ two = Busy(workers[2])
    BY <2>1, <2>2
  <2>4. u = q + one + two
    BY <2>3 DEF EngineInv, AllCounted
  <2>5. PICK v \in Nat : v = unfinished'
    BY <1>6
  <2>6. v - u = next - q
    BY <1>6, <2>3, <2>5
  <2>7. v = next + one + two
    BY <2>4, <2>6
  <2> QED
    BY <2>2, <2>3, <2>5, <2>7 DEF AllCounted
<1> QED
  BY <1>1, <1>4, <1>7, <1>8, <1>9 DEF EngineInv, StageFits

\* A worker goes to another job, of this worker, and the others go on.
LEMMA WorkerBecomes ==
  ASSUME EngineInv, NEW w \in Engine!Workers, NEW next \in GuessJob \cup {Engine!Rest}, workers' = [workers EXCEPT ![w] = next],
         UNCHANGED <<domain, tick, observed, here, last, gen, where, since, submits, stage>>,
         content' \in AnyList, Pending(queue', gen), unfinished' \in Nat,
         WorkerFits(w)', ContentFits', Engine!Alive,
         unfinished' + Len(queue) + Busy(workers[w]) = unfinished + Len(queue') + Busy(workers'[w])
  PROVE  EngineInv'
<1>1. workers' \in [Engine!Workers -> GuessJob \cup {Engine!Rest}]
  BY DEF EngineInv, EngineType
<1>2. EngineType'
  BY <1>1 DEF EngineInv, EngineType
<1>3. ASSUME NEW u \in Engine!Workers PROVE WorkerFits(u)'
  <2>1. CASE u = w
    BY <2>1
  <2>2. CASE u # w
    <3>1. workers'[u] = workers[u] /\ WorkerFits(u)
      BY <2>2 DEF EngineInv, EngineType
    <3> QED
      BY <3>1 DEF WorkerFits
  <2> QED
    BY <2>1, <2>2
<1>4. AllCounted'
  <2>1. Len(queue) \in Nat /\ Len(queue') \in Nat /\ unfinished \in Nat
    BY DEF Pending, EngineInv, EngineType
  <2>2. \A u \in Engine!Workers : u # w => Busy(workers'[u]) = Busy(workers[u])
    BY DEF EngineInv, EngineType, Busy
  <2>3. \A u \in Engine!Workers : Busy(workers[u]) \in Nat /\ Busy(workers'[u]) \in Nat
    BY DEF Busy
  <2>4. Engine!Workers = {1, 2} /\ unfinished = Len(queue) + Busy(workers[1]) + Busy(workers[2])
    BY DEF EngineInv, AllCounted, Engine!Workers
  <2>5. PICK b \in Nat, c \in Nat, d \in Nat, e \in Nat :
          b = Busy(workers[1]) /\ c = Busy(workers[2]) /\ d = Busy(workers'[1]) /\ e = Busy(workers'[2])
    BY <2>3, <2>4
  <2>6. PICK l \in Nat, k \in Nat, n \in Nat, m \in Nat : l = Len(queue) /\ k = Len(queue') /\ n = unfinished /\ m = unfinished'
    BY <2>1
  <2>7. n = l + b + c
    BY <2>4, <2>5, <2>6
  <2>8. m = k + d + e
    <3>1. CASE w = 1
      <4>1. m + l + b = n + k + d /\ e = c
        BY <2>2, <2>4, <2>5, <2>6, <3>1
      <4> QED
        BY <2>7, <4>1
    <3>2. CASE w = 2
      <4>1. m + l + c = n + k + e /\ d = b
        BY <2>2, <2>4, <2>5, <2>6, <3>2
      <4> QED
        BY <2>7, <4>1
    <3> QED
      BY <2>4, <3>1, <3>2
  <2>9. unfinished' = Len(queue') + Busy(workers'[1]) + Busy(workers'[2])
    BY <2>5, <2>6, <2>8
  <2> QED
    BY <2>9 DEF AllCounted, Busy
<1>5. StageFits'
  BY DEF EngineInv, StageFits, Engine!Alive
<1> QED
  BY <1>2, <1>3, <1>4, <1>5 DEF EngineInv

LEMMA TakeKeeps == ASSUME EngineInv, NEW w \in Engine!Workers, Engine!Take(w) PROVE EngineInv'
<1>1. /\ Engine!Alive /\ workers[w] = Engine!Rest /\ queue # <<>> /\ workers' = [workers EXCEPT ![w] = Head(queue)]
      /\ queue' = Tail(queue)
      /\ UNCHANGED <<domain, tick, observed, here, last, gen, at, where, content, since, submits, unfinished, stage>>
  BY DEF Engine!Take
<1>2. gen \in Nat /\ Pending(queue, gen) /\ workers \in [Engine!Workers -> GuessJob \cup {Engine!Rest}] /\ unfinished \in Nat
      /\ content \in AnyList
  BY DEF EngineInv, EngineType
<1>3. /\ Head(queue) \in GuessJob /\ Head(queue).gen <= gen /\ Head(queue).list = Engine!NoList
      /\ Pending(queue', gen) /\ Len(queue') = Len(queue) - 1 /\ Len(queue) \in Nat
  BY <1>1, <1>2, FirstPending
<1>4. workers'[w] = Head(queue)
  BY <1>1, <1>2
<1>5. WorkerFits(w)'
  BY <1>1, <1>3, <1>4 DEF WorkerFits
<1>6. Busy(workers[w]) = 0 /\ Busy(workers'[w]) = 1
  BY <1>1, <1>3, <1>4, JobKinds DEF Busy
<1>7. ContentFits'
  BY <1>1 DEF EngineInv, ContentFits
<1>8. unfinished' + Len(queue) + Busy(workers[w]) = unfinished + Len(queue') + Busy(workers'[w])
  BY <1>1, <1>2, <1>3, <1>6
<1> QED
  BY <1>1, <1>2, <1>3, <1>5, <1>7, <1>8, WorkerBecomes

LEMMA ReadListKeeps == ASSUME EngineInv, NEW w \in Engine!Workers, Engine!ReadList(w) PROVE EngineInv'
<1>1. /\ Engine!Alive /\ workers[w].kind = "refresh"
      /\ UNCHANGED <<domain, tick, observed, here, last, gen, at, where, content, since, submits, queue, unfinished, stage>>
  BY DEF Engine!ReadList
<1>2. PICK next : next = [workers[w] EXCEPT !.list = [where |-> workers[w].where, read |-> observed]]
  OBVIOUS
<1>3. workers' = [workers EXCEPT ![w] = next]
  BY <1>2 DEF Engine!ReadList
<1>4. workers \in [Engine!Workers -> GuessJob \cup {Engine!Rest}] /\ workers[w] \in GuessJob
  BY <1>1, JobKinds DEF EngineInv, EngineType
<1>5. next \in GuessJob /\ next.gen = workers[w].gen /\ next.list.where = next.where /\ next.list.read = observed
  BY <1>2, <1>4 DEF GuessJob, AnyList, EngineInv, EngineType
<1>6. workers'[w] = next
  BY <1>3, <1>4
<1>7. WorkerFits(w)'
  BY <1>1, <1>5, <1>6 DEF WorkerFits, EngineInv, EngineType
<1>8. Busy(workers'[w]) = Busy(workers[w]) /\ ContentFits'
  BY <1>1, <1>4, <1>5, <1>6, JobKinds DEF Busy, EngineInv, ContentFits
<1>9. unfinished' + Len(queue) + Busy(workers[w]) = unfinished + Len(queue') + Busy(workers'[w])
  BY <1>1, <1>8
<1> QED
  BY <1>1, <1>3, <1>5, <1>7, <1>8, <1>9, WorkerBecomes DEF EngineInv, EngineType

\* A worker whose job is over rests, and the job is no longer counted.
LEMMA RestsKeep ==
  ASSUME EngineInv, NEW w \in Engine!Workers, workers[w] # Engine!Rest, workers' = [workers EXCEPT ![w] = Engine!Rest],
         unfinished' = Engine!Finished(unfinished), Engine!Alive, content' \in AnyList, ContentFits',
         UNCHANGED <<domain, tick, observed, here, last, gen, where, since, submits, queue, stage>>
  PROVE  EngineInv'
<1>1. workers'[w] = Engine!Rest /\ gen \in Nat
  BY DEF EngineInv, EngineType
<1>2. WorkerFits(w)'
  BY <1>1, JobKinds DEF WorkerFits
<1>3. Busy(workers[w]) = 1 /\ Busy(workers'[w]) = 0
  BY <1>1 DEF Busy
<1>4. \A u \in Engine!Workers : Busy(workers[u]) \in Nat
  BY DEF Busy
<1>5. Len(queue) \in Nat /\ Pending(queue', gen) /\ unfinished \in Nat
  BY DEF EngineInv, EngineType, Pending
<1>6. unfinished >= 1
  <2>1. unfinished = Len(queue) + Busy(workers[1]) + Busy(workers[2]) /\ 1 \in Engine!Workers /\ 2 \in Engine!Workers /\ (w = 1 \/ w = 2)
    BY DEF EngineInv, AllCounted, Engine!Workers
  <2> QED
    BY <1>3, <1>4, <1>5, <2>1
<1>7. unfinished' = unfinished - 1 /\ unfinished' \in Nat
  BY <1>5, <1>6 DEF Engine!Finished
<1>8. unfinished' + Len(queue) + Busy(workers[w]) = unfinished + Len(queue') + Busy(workers'[w])
  BY <1>3, <1>5, <1>7
<1> QED
  BY <1>2, <1>5, <1>7, <1>8, WorkerBecomes

LEMMA PublishKeeps == ASSUME EngineInv, NEW w \in Engine!Workers, Engine!Publish(w) PROVE EngineInv'
<1>1. /\ Engine!Alive /\ workers[w].list # Engine!NoList /\ workers' = [workers EXCEPT ![w] = Engine!Rest]
      /\ unfinished' = Engine!Finished(unfinished)
      /\ UNCHANGED <<domain, tick, observed, here, last, gen, where, since, submits, queue, stage>>
  BY DEF Engine!Publish
<1>2. workers[w] # Engine!Rest /\ workers[w] \in GuessJob
  BY <1>1, JobKinds DEF EngineInv, WorkerFits
<1>3. \/ content' = content
      \/ Engine!Admits(workers[w]) /\ content' = workers[w].list
  BY DEF Engine!Publish
<1>4. content' \in AnyList
  BY <1>2, <1>3 DEF EngineInv, EngineType, GuessJob
<1>5. ContentFits'
  <2>1. CASE content' = content
    BY <1>1, <2>1 DEF EngineInv, ContentFits
  <2>2. CASE Engine!Admits(workers[w]) /\ content' = workers[w].list
    <3>1. workers[w].gen = gen /\ (domain = "files" => workers[w].where = where)
      BY <2>2 DEF Engine!Admits
    <3>2. workers[w].list.where = workers[w].where /\ workers[w].list.read >= since
      BY <1>1, <3>1 DEF EngineInv, WorkerFits
    <3> QED
      BY <1>1, <2>2, <3>1, <3>2 DEF ContentFits
  <2> QED
    BY <1>3, <2>1, <2>2
<1> QED
  BY <1>1, <1>2, <1>4, <1>5, RestsKeep

LEMMA FinishKeeps == ASSUME EngineInv, NEW w \in Engine!Workers, Engine!Finish(w) PROVE EngineInv'
<1>1. /\ Engine!Alive /\ workers[w].kind \in {"record", "refresh"} /\ workers' = [workers EXCEPT ![w] = Engine!Rest]
      /\ unfinished' = Engine!Finished(unfinished)
      /\ UNCHANGED <<domain, tick, observed, here, last, gen, at, where, content, since, submits, queue, stage>>
  BY DEF Engine!Finish
<1>2. workers[w] # Engine!Rest
  BY <1>1, JobKinds
<1>3. content' \in AnyList /\ ContentFits'
  BY <1>1 DEF EngineInv, EngineType, ContentFits
<1> QED
  BY <1>1, <1>2, <1>3, RestsKeep

LEMMA EndingKeeps == EngineInv /\ (Engine!Quit \/ Engine!Drained \/ Engine!Pass) => EngineInv'
<1> SUFFICES ASSUME EngineInv, Engine!Quit \/ Engine!Drained \/ Engine!Pass PROVE EngineInv'
  OBVIOUS
<1>1. UNCHANGED <<domain, observed, here, last, gen, at, where, content, since, submits, queue, workers, unfinished>>
  BY DEF Engine!Quit, Engine!Drained, Engine!Pass
<1>2. tick' \in Nat
  BY DEF Engine!Quit, Engine!Drained, Engine!Pass, EngineInv, EngineType
<1>3. EngineType'
  BY <1>1, <1>2 DEF EngineInv, EngineType
<1>4. (\A w \in Engine!Workers : WorkerFits(w)') /\ ContentFits' /\ AllCounted'
  BY <1>1 DEF EngineInv, WorkerFits, ContentFits, AllCounted, Busy
<1>5. StageFits'
  BY <1>1 DEF EngineInv, StageFits, Engine!Quit, Engine!Drained, Engine!Pass
<1> QED
  BY <1>3, <1>4, <1>5 DEF EngineInv

LEMMA EngineKeeps == EngineInv /\ Engine!Next => EngineInv'
BY EngineObserveKeeps, SubmitKeeps, TakeKeeps, ReadListKeeps, PublishKeeps, FinishKeeps, EndingKeeps DEF Engine!Next

LEMMA EngineThen == EngineInv => Engine!GuessesAreCurrent
<1> SUFFICES ASSUME EngineInv PROVE Engine!GuessesAreCurrent
  OBVIOUS
<1>1. Engine!Offers /\ domain \in Engine!Cleared => content.read >= since
  BY DEF EngineInv, ContentFits, Engine!Offers
<1>2. Engine!Offers /\ domain = "files" => content.where = here
  BY DEF EngineInv, ContentFits, Engine!Offers
<1>3. ASSUME stage = "idle" PROVE queue = <<>> /\ \A w \in Engine!Workers : workers[w] = Engine!Rest
  <2>1. Len(queue) + Busy(workers[1]) + Busy(workers[2]) = 0 /\ Len(queue) \in Nat
    BY <1>3 DEF EngineInv, EngineType, StageFits, AllCounted, Pending
  <2>2. Busy(workers[1]) \in Nat /\ Busy(workers[2]) \in Nat
    BY DEF Busy
  <2>3. Len(queue) = 0 /\ Busy(workers[1]) = 0 /\ Busy(workers[2]) = 0
    BY <2>1, <2>2
  <2>4. queue = <<>>
    BY <2>3 DEF EngineInv, EngineType, Pending
  <2>5. workers[1] = Engine!Rest /\ workers[2] = Engine!Rest
    BY <2>3 DEF Busy
  <2>6. \A w \in Engine!Workers : w = 1 \/ w = 2
    BY DEF Engine!Workers
  <2> QED
    BY <2>4, <2>5, <2>6
<1> QED
  BY <1>1, <1>2, <1>3 DEF Engine!GuessesAreCurrent

LEMMA EngineRests == EngineInv /\ UNCHANGED ofEngine => EngineInv'
BY DEF ofEngine, EngineInv, EngineType, WorkerFits, ContentFits, AllCounted, Busy, StageFits

\* While the engine of the guesser is not the program that runs, nothing of it changes.
EngineBeside == program = "guess engine" => EngineInv

LEMMA EngineBesideHolds == ProgramSpec => []EngineBeside
<1>1. ProgramInit => EngineBeside
  BY EngineStarts DEF ProgramInit, EngineBeside
<1>2. EngineBeside /\ [ProgramNext]_programVars => EngineBeside'
  <2> SUFFICES ASSUME EngineBeside, [ProgramNext]_programVars PROVE EngineBeside'
    OBVIOUS
  <2>1. CASE ProgramNext
    <3>1. program' = program /\ (program = "guess engine" => Engine!Next)
      BY <2>1 DEF ProgramNext
    <3> QED
      BY <3>1, EngineKeeps DEF EngineBeside
  <2>2. CASE UNCHANGED programVars
    <3>1. program' = program /\ UNCHANGED ofEngine
      BY <2>2 DEF programVars
    <3> QED
      BY <3>1, EngineRests DEF EngineBeside
  <2> QED
    BY <2>1, <2>2
<1> QED
  BY <1>1, <1>2, PTL DEF ProgramSpec

(*****************************************************************************)
(* The ghost text behind the line (GhostLine).                               *)
(*****************************************************************************)
GhostType ==
  /\ screen \in Ghost!Buffers /\ atEnd \in BOOLEAN /\ visible \in BOOLEAN
  /\ ghostEnabled \in BOOLEAN /\ hooked \in BOOLEAN /\ place \in {"editing", "running", "reported"}
  /\ helpers \in Nat /\ socket \in Nat /\ processes \subseteq {socket} \ {0} /\ diagnosed \in BOOLEAN

\* A suggestion that was not asked for by diagnose is for the line it is cached for, which is the
\* one on the screen while one is drawn or could be accepted.
HintFits ==
  /\ suggestion \in {Ghost!None, cached} \/ diagnosed
  /\ visible => place = "editing" /\ hooked /\ atEnd /\ (suggestion = screen \/ diagnosed)
  /\ place = "editing" /\ hooked /\ atEnd /\ screen \in Texts => cached = screen

\* One request is under way at most, a query for the line on the screen while there is one; nothing
\* else is in the socket.
Exchanges ==
  \/ waiting = Ghost!NoRequest /\ wire = <<>> /\ answers = <<>>
  \/ /\ \/ waiting = Ghost!Query(screen) /\ cached = screen /\ place = "editing" /\ hooked /\ atEnd
        \/ place = "reported" /\ \E line \in Ghost!Buffers : waiting = Ghost!Report(line)
        \/ place = "running" /\ \E line \in Texts : waiting = Ghost!Diagnosis(line)
     /\ \/ wire = <<waiting>> /\ answers = <<>>
        \/ wire = <<>> /\ \E h \in BOOLEAN : answers = <<[line |-> waiting.line, hint |-> h]>>

\* Switched off, the shell has neither hooks nor a helper, from the next prompt on.
OffIsOff == place = "editing" /\ ~ghostEnabled => processes = {} /\ ~hooked /\ waiting = Ghost!NoRequest

SubmittedFits == submitted \in Ghost!Buffers \cup {Ghost!None}

GhostInv == GhostType /\ HintFits /\ Exchanges /\ OffIsOff /\ SubmittedFits

LEMMA GhostWords ==
  /\ Ghost!None \notin Ghost!Buffers /\ Ghost!Empty \in Ghost!Buffers /\ Texts \subseteq Ghost!Buffers
  /\ Several \subseteq Ghost!Buffers /\ Ghost!Empty \notin Texts /\ Texts \cap Several = {}
BY ProgramsConstants DEF Ghost!GhostConstants, Ghost!Buffers, Ghost!Empty, Ghost!None

LEMMA GhostStarts == Ghost!Init => GhostInv
<1> SUFFICES ASSUME Ghost!Init PROVE GhostInv
  OBVIOUS
<1>1. GhostType
  BY GhostWords DEF Ghost!Init, GhostType
<1>2. HintFits /\ SubmittedFits
  BY DEF Ghost!Init, HintFits, SubmittedFits
<1>3. Exchanges
  BY DEF Ghost!Init, Exchanges
<1>4. OffIsOff
  BY Zenon DEF Ghost!Init, OffIsOff
<1> QED
  BY <1>1, <1>2, <1>3, <1>4 DEF GhostInv

LEMMA RequestsApart ==
  /\ Ghost!NoRequest # Ghost!Query(screen) /\ \A line : Ghost!NoRequest # Ghost!Report(line)
  /\ \A line, other : Ghost!Query(line) # Ghost!Report(other)
  /\ \A line, other : Ghost!Diagnosis(line) # Ghost!Report(other) /\ Ghost!Query(line) # Ghost!Diagnosis(other)
  /\ \A line : /\ Ghost!Query(line).line = line /\ Ghost!Query(line).kind = "query" /\ Ghost!Report(line).kind = "observe"
              /\ Ghost!NoRequest # Ghost!Diagnosis(line) /\ Ghost!Diagnosis(line).kind = "diagnose"
BY DEF Ghost!NoRequest, Ghost!Query, Ghost!Report, Ghost!Diagnosis, Ghost!None

LEMMA Started ==
  ASSUME GhostType, NEW first, Ghost!Start({}, first)
  PROVE  /\ helpers' \in Nat /\ socket' \in Nat /\ processes' \subseteq {socket'} \ {0} /\ answers' = <<>>
         /\ \/ waiting' = Ghost!NoRequest /\ wire' = <<>>
            \/ first # <<>> /\ waiting' = Head(first) /\ wire' = first
<1>1. CASE /\ helpers < MostHelpers /\ helpers' = helpers + 1 /\ socket' = helpers + 1
           /\ processes' = {} \cup {helpers + 1} /\ wire' = first /\ answers' = <<>>
           /\ waiting' = IF first = <<>> THEN Ghost!NoRequest ELSE Head(first)
  BY <1>1 DEF GhostType
<1>2. CASE socket' = 0 /\ processes' = {} /\ wire' = <<>> /\ answers' = <<>> /\ waiting' = Ghost!NoRequest
           /\ UNCHANGED helpers
  BY <1>2 DEF GhostType
<1> QED
  BY <1>1, <1>2 DEF Ghost!Start

LEMMA Asked ==
  ASSUME GhostType, waiting = Ghost!NoRequest, wire = <<>>, answers = <<>>, NEW what, Ghost!Ask(what)
  PROVE  /\ helpers' \in Nat /\ socket' \in Nat /\ processes' \subseteq {socket'} \ {0} /\ answers' = <<>>
         /\ \/ waiting' = Ghost!NoRequest /\ wire' = <<>>
            \/ waiting' = what /\ wire' = <<what>>
<1>1. CASE socket = 0
  <2>1. processes = {} /\ Ghost!Start(processes, <<what>>)
    BY <1>1 DEF GhostType, Ghost!Ask
  <2>2. Ghost!Start({}, <<what>>) /\ <<what>> # <<>> /\ Head(<<what>>) = what
    BY <2>1
  <2> QED
    BY <2>2, Started
<1>2. CASE socket # 0
  <2>1. Append(wire, what) = <<what>>
    OBVIOUS
  <2>2. wire' = <<what>> /\ waiting' = what /\ UNCHANGED <<socket, processes, answers, helpers>>
    BY <1>2, <2>1 DEF Ghost!Ask
  <2> QED
    BY <1>2, <2>2 DEF GhostType
<1> QED
  BY <1>1, <1>2

LEMMA QuietWhenEditing ==
  GhostInv /\ Ghost!Editing => waiting = Ghost!NoRequest /\ wire = <<>> /\ answers = <<>> /\ place = "editing"
BY RequestsApart DEF GhostInv, Exchanges, Ghost!Editing

LEMMA RedisplayKeeps ==
  ASSUME GhostInv, NEW line \in Ghost!Buffers, NEW end \in BOOLEAN, NEW known, NEW hint,
         hint \in {Ghost!None, known} \/ diagnosed,
         Ghost!Editing, hooked, Ghost!Redisplay(line, end, known, hint), UNCHANGED <<ghostEnabled, place>>
  PROVE  GhostInv'
<1>1. waiting = Ghost!NoRequest /\ wire = <<>> /\ answers = <<>> /\ place = "editing"
  BY QuietWhenEditing
<1>2. /\ screen' = line /\ atEnd' = end /\ submitted' = line /\ hooked' = hooked
      /\ diagnosed' = (diagnosed /\ suggestion' # Ghost!None) /\ diagnosed' \in BOOLEAN
  BY Zenon DEF Ghost!Redisplay
<1>3. ghostEnabled' /\ place' = "editing" /\ ghostEnabled' \in BOOLEAN
  BY <1>1 DEF GhostInv, OffIsOff, GhostType
<1>4. SubmittedFits' /\ OffIsOff'
  BY <1>2, <1>3 DEF SubmittedFits, OffIsOff
<1>5. CASE ~end \/ line \in Several \cup {Ghost!Empty}
  <2>1. cached' = known /\ suggestion' = hint /\ visible' = FALSE /\ UNCHANGED <<socket, processes, wire, answers, helpers, waiting>>
    BY <1>5 DEF Ghost!Redisplay, Ghost!Silent
  <2>2. GhostType'
    BY <2>1, <1>2, <1>3 DEF GhostInv, GhostType
  <2>3. HintFits'
    BY <2>1, <1>2, <1>5, GhostWords DEF HintFits
  <2>4. Exchanges'
    BY <2>1, <1>1 DEF Exchanges
  <2> QED
    BY <1>4, <2>2, <2>3, <2>4 DEF GhostInv
<1>6. CASE end /\ line \notin Several \cup {Ghost!Empty} /\ known # line
  <2>1. cached' = line /\ suggestion' = Ghost!None /\ visible' = FALSE /\ Ghost!Ask(Ghost!Query(line))
    BY <1>6 DEF Ghost!Redisplay
  <2>2. /\ helpers' \in Nat /\ socket' \in Nat /\ processes' \subseteq {socket'} \ {0} /\ answers' = <<>>
        /\ \/ waiting' = Ghost!NoRequest /\ wire' = <<>>
           \/ waiting' = Ghost!Query(line) /\ wire' = <<Ghost!Query(line)>>
    BY <1>1, <2>1, Asked DEF GhostInv
  <2>3. GhostType'
    BY <2>1, <2>2, <1>2, <1>3 DEF GhostInv, GhostType
  <2>4. HintFits'
    BY <2>1, <1>2, <1>6 DEF HintFits
  <2>5. Exchanges'
    BY <2>1, <2>2, <1>2, <1>3, <1>6 DEF Exchanges
  <2> QED
    BY <1>4, <2>3, <2>4, <2>5 DEF GhostInv
<1>7. CASE end /\ line \notin Several \cup {Ghost!Empty} /\ known = line
  <2>1. cached' = known /\ suggestion' = hint /\ Ghost!Draw(hint) /\ UNCHANGED <<socket, processes, wire, answers, helpers, waiting>>
    BY <1>7 DEF Ghost!Redisplay, Ghost!Silent
  <2>2. visible' \in BOOLEAN /\ (visible' => hint # Ghost!None)
    BY <2>1 DEF Ghost!Draw
  <2>3. GhostType'
    BY <2>1, <2>2, <1>2, <1>3 DEF GhostInv, GhostType
  <2>4. HintFits'
    BY <2>1, <2>2, <1>2, <1>3, <1>7 DEF HintFits
  <2>5. Exchanges'
    BY <2>1, <1>1 DEF Exchanges
  <2> QED
    BY <1>4, <2>3, <2>4, <2>5 DEF GhostInv
<1> QED
  BY <1>5, <1>6, <1>7

LEMMA TypeKeeps == ASSUME GhostInv, NEW line \in Ghost!Buffers, NEW end \in BOOLEAN, Ghost!Type(line, end) PROVE GhostInv'
<1>1. Ghost!Editing /\ UNCHANGED <<ghostEnabled, place>>
  BY DEF Ghost!Type
<1>2. CASE hooked
  <2>1. Ghost!Redisplay(line, end, cached, suggestion) /\ (suggestion \in {Ghost!None, cached} \/ diagnosed)
    BY <1>2 DEF Ghost!Type, GhostInv, HintFits
  <2> QED
    BY <1>1, <1>2, <2>1, RedisplayKeeps
<1>3. CASE ~hooked
  <2>1. screen' = line /\ atEnd' = end /\ UNCHANGED <<cached, suggestion, visible, submitted, hooked, diagnosed>>
        /\ UNCHANGED <<socket, processes, wire, answers, helpers, waiting>>
    BY <1>3 DEF Ghost!Type, Ghost!Silent
  <2>2. GhostType' /\ SubmittedFits' /\ OffIsOff'
    BY <1>1, <2>1 DEF GhostInv, GhostType, SubmittedFits, OffIsOff
  <2>3. HintFits'
    BY <1>1, <1>3, <2>1 DEF GhostInv, HintFits
  <2>4. Exchanges'
    BY <1>1, <2>1, QuietWhenEditing DEF Exchanges
  <2> QED
    BY <2>2, <2>3, <2>4 DEF GhostInv
<1> QED
  BY <1>2, <1>3

LEMMA AcceptKeeps == ASSUME GhostInv, NEW extended \in Texts, Ghost!Accept(extended) PROVE GhostInv'
<1>1. Ghost!Editing /\ hooked /\ Ghost!Redisplay(extended, TRUE, Ghost!None, Ghost!None)
      /\ UNCHANGED <<ghostEnabled, place>> /\ extended \in Ghost!Buffers
  BY GhostWords DEF Ghost!Accept, Ghost!Acceptable
<1> QED
  BY <1>1, RedisplayKeeps

LEMMA ReceiveKeeps == GhostInv /\ Ghost!Receive => GhostInv'
<1> SUFFICES ASSUME GhostInv, Ghost!Receive PROVE GhostInv'
  OBVIOUS
<1>1. UNCHANGED <<screen, atEnd, cached, submitted, ghostEnabled, hooked, place, socket, processes, wire, keys, helpers>>
      /\ waiting' = Ghost!NoRequest /\ answers' = Tail(answers) /\ waiting # Ghost!NoRequest /\ answers # <<>>
  BY DEF Ghost!Receive
<1>2. PICK h \in BOOLEAN : answers = <<[line |-> waiting.line, hint |-> h]>>
  BY <1>1 DEF GhostInv, Exchanges
<1>3. wire' = <<>> /\ answers' = <<>>
  BY <1>1, <1>2 DEF GhostInv, Exchanges
<1>4. Head(answers).line = waiting.line
  BY <1>2
<1>5. CASE waiting = Ghost!Query(screen) /\ cached = screen /\ place = "editing" /\ hooked /\ atEnd
  <2>1. \/ suggestion' = screen /\ visible' \in BOOLEAN /\ diagnosed' = FALSE
        \/ UNCHANGED <<suggestion, visible, diagnosed>>
    <3>1. waiting.line = screen /\ waiting.kind = "query"
      BY <1>5, RequestsApart
    <3>2. CASE Head(answers).hint
      <4>1. suggestion' = screen /\ Ghost!Draw(suggestion') /\ diagnosed' = (waiting.kind = "diagnose")
        BY <1>4, <3>1, <3>2 DEF Ghost!Receive
      <4> QED
        BY <3>1, <4>1 DEF Ghost!Draw
    <3> QED
      BY <3>2 DEF Ghost!Receive
  <2>2. HintFits'
    BY <1>1, <1>5, <2>1 DEF GhostInv, HintFits
  <2> QED
    BY <1>1, <1>3, <2>1, <2>2 DEF GhostInv, GhostType, Exchanges, OffIsOff, SubmittedFits
<1>6. CASE place = "reported" /\ \E line \in Ghost!Buffers : waiting = Ghost!Report(line)
  <2>1. UNCHANGED <<suggestion, visible, diagnosed>>
    BY <1>6, RequestsApart DEF Ghost!Receive
  <2> QED
    BY <1>1, <1>3, <2>1 DEF GhostInv, GhostType, Exchanges, OffIsOff, SubmittedFits, HintFits
\* What diagnose was told is not drawn, but stays.
<1>7. CASE place = "running" /\ \E line \in Texts : waiting = Ghost!Diagnosis(line)
  <2>1. ~visible /\ waiting.kind = "diagnose"
    BY <1>7, RequestsApart DEF GhostInv, HintFits
  <2>2. visible' = visible /\ (diagnosed' = TRUE \/ UNCHANGED <<suggestion, diagnosed>>)
    BY <2>1 DEF Ghost!Receive
  <2> QED
    BY <1>1, <1>3, <1>7, <2>1, <2>2 DEF GhostInv, GhostType, Exchanges, OffIsOff, SubmittedFits, HintFits
<1> QED
  BY <1>1, <1>5, <1>6, <1>7 DEF GhostInv, Exchanges

\* A helper that starts with nothing to do ends whatever the old one was asked.
LEMMA FreshHelper ==
  ASSUME GhostInv, Ghost!Start({}, <<>>), UNCHANGED <<screen, atEnd, cached, suggestion, visible, submitted, ghostEnabled, diagnosed>>,
         hooked' \in BOOLEAN, place' \in {"editing", "running", "reported"},
         place' # place \/ hooked' # hooked => place' # "editing" /\ ~visible,
         place' = "editing" => ghostEnabled
  PROVE  GhostInv'
<1>1. /\ helpers' \in Nat /\ socket' \in Nat /\ processes' \subseteq {socket'} \ {0} /\ answers' = <<>>
      /\ waiting' = Ghost!NoRequest /\ wire' = <<>>
  BY Started DEF GhostInv
<1>2. GhostType'
  BY <1>1 DEF GhostInv, GhostType
<1>3. HintFits'
  BY DEF GhostInv, HintFits
<1>4. Exchanges' /\ OffIsOff' /\ SubmittedFits'
  BY <1>1 DEF GhostInv, Exchanges, OffIsOff, SubmittedFits
<1> QED
  BY <1>2, <1>3, <1>4 DEF GhostInv

LEMMA ReplaceKeeps == GhostInv /\ Ghost!Replace => GhostInv'
<1> SUFFICES ASSUME GhostInv, Ghost!Replace PROVE GhostInv'
  OBVIOUS
<1>1. processes \ {socket} = {} /\ hooked \in BOOLEAN /\ place \in {"editing", "running", "reported"}
  BY DEF GhostInv, GhostType
<1>2. place = "editing" => ghostEnabled
  BY DEF GhostInv, OffIsOff, Ghost!Replace
<1>3. Ghost!Start({}, <<>>)
  BY <1>1 DEF Ghost!Replace
<1> QED
  BY <1>1, <1>2, <1>3, FreshHelper DEF Ghost!Replace

LEMMA ServeKeeps == ASSUME GhostInv, NEW hint \in BOOLEAN, Ghost!Serve(hint) PROVE GhostInv'
<1>1. wire = <<waiting>> /\ answers = <<>> /\ wire # <<>>
  BY DEF GhostInv, Exchanges, Ghost!Serve
<1>2. PICK h \in BOOLEAN : h = (hint /\ waiting.kind # "observe")
  OBVIOUS
<1>3. wire' = <<>> /\ answers' = <<[line |-> waiting.line, hint |-> h]>>
  BY <1>1, <1>2 DEF Ghost!Serve
<1>4. UNCHANGED <<screen, atEnd, cached, suggestion, visible, submitted, ghostEnabled, hooked, place, waiting, socket, processes,
                  keys, helpers, diagnosed>>
  BY DEF Ghost!Serve
<1>5. Exchanges'
  BY <1>1, <1>3, <1>4 DEF GhostInv, Exchanges
<1> QED
  BY <1>4, <1>5 DEF GhostInv, GhostType, HintFits, OffIsOff, SubmittedFits

LEMMA EnterKeeps == ASSUME GhostInv, NEW switch \in BOOLEAN, Ghost!Enter(switch) PROVE GhostInv'
<1>1. Ghost!Editing /\ place' = "running" /\ visible' = FALSE /\ ghostEnabled' = switch
      /\ UNCHANGED <<screen, atEnd, cached, suggestion, submitted, hooked, socket, processes, wire, answers, waiting, helpers, diagnosed>>
  BY DEF Ghost!Enter
<1> QED
  BY <1>1, QuietWhenEditing DEF GhostInv, GhostType, HintFits, Exchanges, OffIsOff, SubmittedFits

LEMMA SuspendKeeps ==
  ASSUME GhostInv, Ghost!Suspend, screen' \in Ghost!Buffers, atEnd' \in BOOLEAN, ghostEnabled' = ghostEnabled,
         place' \in {"editing", "running", "reported"}
  PROVE  GhostInv'
<1>1. /\ hooked' = FALSE /\ visible' = FALSE /\ suggestion' = Ghost!None /\ cached' = Ghost!None /\ submitted' = Ghost!None
      /\ socket' = 0 /\ processes' = {} /\ wire' = <<>> /\ answers' = <<>> /\ waiting' = Ghost!NoRequest /\ helpers' = helpers
      /\ diagnosed' = FALSE
  BY DEF Ghost!Suspend, Ghost!NoHelper, GhostInv, GhostType
<1> QED
  BY <1>1 DEF GhostInv, GhostType, HintFits, Exchanges, OffIsOff, SubmittedFits

LEMMA ObserveKeeps == GhostInv /\ Ghost!Observe => GhostInv'
<1> SUFFICES ASSUME GhostInv, Ghost!Observe PROVE GhostInv'
  OBVIOUS
<1>1. place = "running" /\ waiting = Ghost!NoRequest /\ place' = "reported" /\ UNCHANGED <<screen, atEnd, ghostEnabled, keys>>
  BY DEF Ghost!Observe
<1>2. wire = <<>> /\ answers = <<>> /\ ~visible
  BY <1>1, RequestsApart DEF GhostInv, Exchanges, HintFits
<1>3. CASE ~ghostEnabled
  BY <1>1, <1>3, SuspendKeeps DEF Ghost!Observe, GhostInv, GhostType
<1>4. CASE ghostEnabled
  <2>1. hooked' = TRUE /\ submitted' = Ghost!None /\ UNCHANGED <<cached, suggestion, visible, diagnosed>>
    BY <1>4 DEF Ghost!Observe
  <2>2. HintFits' /\ SubmittedFits' /\ OffIsOff'
    BY <1>1, <1>2, <2>1 DEF GhostInv, HintFits, SubmittedFits, OffIsOff
  <2>3. CASE submitted \in {Ghost!None, Ghost!Empty}
    <3>1. UNCHANGED <<socket, processes, wire, answers, helpers, waiting>>
      BY <1>4, <2>3 DEF Ghost!Observe, Ghost!Silent
    <3> QED
      BY <1>1, <1>2, <2>1, <2>2, <3>1 DEF GhostInv, GhostType, Exchanges
  <2>4. CASE submitted \notin {Ghost!None, Ghost!Empty}
    <3>1. submitted \in Ghost!Buffers /\ Ghost!Ask(Ghost!Report(submitted))
      BY <1>4, <2>4 DEF Ghost!Observe, GhostInv, SubmittedFits
    <3>2. /\ helpers' \in Nat /\ socket' \in Nat /\ processes' \subseteq {socket'} \ {0} /\ answers' = <<>>
          /\ \/ waiting' = Ghost!NoRequest /\ wire' = <<>>
             \/ waiting' = Ghost!Report(submitted) /\ wire' = <<Ghost!Report(submitted)>>
      BY <1>1, <1>2, <3>1, Asked DEF GhostInv
    <3>3. GhostType'
      BY <1>1, <1>2, <2>1, <3>2 DEF GhostInv, GhostType
    <3>4. Exchanges'
      BY <1>1, <3>1, <3>2 DEF Exchanges
    <3> QED
      BY <2>2, <3>3, <3>4 DEF GhostInv
  <2> QED
    BY <2>3, <2>4
<1> QED
  BY <1>3, <1>4

LEMMA ConfigureKeeps == GhostInv /\ Ghost!Configure => GhostInv'
<1> SUFFICES ASSUME GhostInv, Ghost!Configure PROVE GhostInv'
  OBVIOUS
<1>1. place = "running" /\ place' = place /\ hooked' = TRUE
      /\ UNCHANGED <<screen, atEnd, cached, suggestion, visible, submitted, ghostEnabled, diagnosed>>
  BY DEF Ghost!Configure
<1>2. processes \ {socket} = {} /\ ~visible
  BY <1>1 DEF GhostInv, GhostType, HintFits
<1>3. Ghost!Start({}, <<>>)
  BY <1>2 DEF Ghost!Configure
<1> QED
  BY <1>1, <1>2, <1>3, FreshHelper

LEMMA DiagnoseKeeps == ASSUME GhostInv, NEW line \in Texts, Ghost!Diagnose(line) PROVE GhostInv'
<1>1. place = "running" /\ waiting = Ghost!NoRequest /\ place' = place /\ UNCHANGED <<screen, atEnd, ghostEnabled>>
  BY DEF Ghost!Diagnose
<1>2. wire = <<>> /\ answers = <<>> /\ ~visible
  BY <1>1, RequestsApart DEF GhostInv, Exchanges, HintFits
<1>3. CASE ~ghostEnabled
  BY <1>1, <1>3, SuspendKeeps DEF Ghost!Diagnose, GhostInv, GhostType
<1>4. CASE ghostEnabled
  <2>1. /\ hooked' = TRUE /\ suggestion' = Ghost!None /\ diagnosed' = FALSE /\ Ghost!Ask(Ghost!Diagnosis(line))
        /\ UNCHANGED <<cached, visible, submitted>>
    BY <1>4 DEF Ghost!Diagnose
  <2>2. /\ helpers' \in Nat /\ socket' \in Nat /\ processes' \subseteq {socket'} \ {0} /\ answers' = <<>>
        /\ \/ waiting' = Ghost!NoRequest /\ wire' = <<>>
           \/ waiting' = Ghost!Diagnosis(line) /\ wire' = <<Ghost!Diagnosis(line)>>
    BY <1>1, <1>2, <2>1, Asked DEF GhostInv
  <2>3. GhostType' /\ HintFits' /\ SubmittedFits' /\ OffIsOff'
    BY <1>1, <1>2, <2>1, <2>2 DEF GhostInv, GhostType, HintFits, SubmittedFits, OffIsOff
  <2>4. Exchanges'
    BY <1>1, <2>2 DEF Exchanges
  <2> QED
    BY <2>3, <2>4 DEF GhostInv
<1> QED
  BY <1>3, <1>4

LEMMA PromptKeeps == GhostInv /\ Ghost!Prompt => GhostInv'
<1> SUFFICES ASSUME GhostInv, Ghost!Prompt PROVE GhostInv'
  OBVIOUS
<1>1. place = "reported" /\ waiting = Ghost!NoRequest /\ place' = "editing" /\ screen' = Ghost!Empty /\ atEnd' = TRUE
      /\ ghostEnabled' = ghostEnabled
  BY DEF Ghost!Prompt
<1>2. wire = <<>> /\ answers = <<>>
  BY <1>1, RequestsApart DEF GhostInv, Exchanges
<1>3. CASE ~ghostEnabled
  BY <1>1, <1>3, GhostWords, SuspendKeeps DEF Ghost!Prompt
<1>4. CASE ghostEnabled
  <2>1. hooked' = TRUE /\ submitted' = Ghost!Empty /\ visible' = FALSE /\ UNCHANGED <<cached, suggestion, diagnosed>>
    BY <1>4 DEF Ghost!Prompt
  <2>2. HintFits' /\ SubmittedFits' /\ OffIsOff'
    BY <1>1, <1>4, <2>1, GhostWords DEF GhostInv, HintFits, SubmittedFits, OffIsOff
  <2>3. /\ helpers' \in Nat /\ socket' \in Nat /\ processes' \subseteq {socket'} \ {0} /\ answers' = <<>>
        /\ waiting' = Ghost!NoRequest /\ wire' = <<>>
    <3>1. CASE socket = 0
      <4>1. processes = {} /\ Ghost!Start(processes, <<>>)
        BY <1>4, <3>1 DEF Ghost!Prompt, GhostInv, GhostType
      <4>2. Ghost!Start({}, <<>>)
        BY <4>1
      <4> QED
        BY <4>2, Started DEF GhostInv
    <3>2. CASE socket # 0
      BY <1>1, <1>2, <1>4, <3>2 DEF Ghost!Prompt, Ghost!Silent, GhostInv, GhostType
    <3> QED
      BY <3>1, <3>2
  <2> QED
    BY <1>1, <2>1, <2>2, <2>3, GhostWords DEF GhostInv, GhostType, Exchanges
<1> QED
  BY <1>3, <1>4

LEMMA GhostKeeps == GhostInv /\ Ghost!Next => GhostInv'
BY TypeKeeps, AcceptKeeps, ReceiveKeeps, ReplaceKeeps, ServeKeeps, EnterKeeps, ObserveKeeps, ConfigureKeeps, DiagnoseKeeps, PromptKeeps
   DEF Ghost!Next

LEMMA GhostThen == GhostInv => Ghost!GhostBelongsToLine
<1> SUFFICES ASSUME GhostInv PROVE Ghost!GhostBelongsToLine
  OBVIOUS
<1>1. visible => atEnd /\ (suggestion = screen \/ diagnosed)
  BY DEF GhostInv, HintFits
<1>2. place = "editing" /\ Ghost!Acceptable /\ screen \in Texts => suggestion = screen \/ diagnosed
  BY DEF GhostInv, HintFits, Ghost!Acceptable
<1>3. processes \subseteq {socket} /\ (place = "editing" /\ ~ghostEnabled => processes = {} /\ ~hooked)
  BY DEF GhostInv, GhostType, OffIsOff
<1> QED
  BY <1>1, <1>2, <1>3 DEF Ghost!GhostBelongsToLine

LEMMA GhostRests == GhostInv /\ UNCHANGED ofGhost => GhostInv'
BY DEF ofGhost, GhostInv, GhostType, HintFits, Exchanges, OffIsOff, SubmittedFits

\* While the line editor is not the program that runs, nothing of it changes.
GhostBeside == program = "ghost line" => GhostInv

LEMMA GhostBesideHolds == ProgramSpec => []GhostBeside
<1>1. ProgramInit => GhostBeside
  BY GhostStarts DEF ProgramInit, GhostBeside
<1>2. GhostBeside /\ [ProgramNext]_programVars => GhostBeside'
  <2> SUFFICES ASSUME GhostBeside, [ProgramNext]_programVars PROVE GhostBeside'
    OBVIOUS
  <2>1. CASE ProgramNext
    <3>1. program' = program /\ (program = "ghost line" => Ghost!Next)
      BY <2>1 DEF ProgramNext
    <3> QED
      BY <3>1, GhostKeeps DEF GhostBeside
  <2>2. CASE UNCHANGED programVars
    <3>1. program' = program /\ UNCHANGED ofGhost
      BY <2>2 DEF programVars
    <3> QED
      BY <3>1, GhostRests DEF GhostBeside
  <2> QED
    BY <2>1, <2>2
<1> QED
  BY <1>1, <1>2, PTL DEF ProgramSpec

(*****************************************************************************)
(* The choice of a suggestion (GuessArbiter).                                *)
(*****************************************************************************)
\* What may vouch for a candidate where the slot expects a live entity, and elsewhere.
Evidence == IF slot \in Arbiter!EntitySlots THEN {"LiveEntity", "Workflow"} ELSE DOMAIN Arbiter!Bonus
Candidate == [line : Lines, kind : Arbiter!Allowed[slot], source : Evidence, confidence : Confidences, current : BOOLEAN]

ArbiterInv == slot \in Arbiter!Slots /\ pool \in Seq(Candidate) /\ Arbiter!AnswersAreJustified

(*****************************************************************************)
(* Greatest and least elements.                                              *)
(*****************************************************************************)
LEMMA LeastExists == ASSUME NEW S \in SUBSET Nat, S # {} PROVE \E m \in S : \A s \in S : m <= s
<1>1. PICK m \in S : \A s \in S : ~(<<s, m>> \in OpToRel(<, Nat))
  BY NatLessThanWellFounded, WFMin
<1>2. \A s \in S : ~(s < m)
  BY <1>1 DEF OpToRel
<1> QED
  BY <1>2

LEMMA HighestExists ==
  ASSUME NEW n \in Nat, NEW f, NEW S \in SUBSET (1 .. n), S # {}, \A i \in S : f[i] \in Int
  PROVE  \E m \in S : \A i \in S : f[i] <= f[m]
<1> DEFINE Without == {k \in Nat : \E T \in SUBSET S : /\ T \subseteq 1 .. k /\ T # {}
                                                     /\ \A m \in T : \E i \in T : ~(f[i] <= f[m])}
<1>1. SUFFICES ASSUME Without # {} PROVE FALSE
  <2>1. n \notin Without => \E m \in S : \A i \in S : f[i] <= f[m]
    OBVIOUS
  <2> QED
    BY <1>1, <2>1
<1>2. PICK k \in Without : \A j \in Without : k <= j
  BY <1>1, LeastExists
<1>3. PICK T \in SUBSET S : T \subseteq 1 .. k /\ T # {} /\ \A m \in T : \E i \in T : ~(f[i] <= f[m])
  BY <1>2
<1>4. k \in Nat /\ k # 0 /\ k - 1 \in Nat /\ k - 1 \notin Without
  <2>1. k \in Nat /\ k # 0
    <3>1. k \in Nat
      BY <1>2
    <3>2. ASSUME k = 0 PROVE FALSE
      <4>1. 1 .. k = {}
        BY <3>2
      <4> QED
        BY <1>3, <4>1
    <3> QED
      BY <3>1, <3>2
  <2>2. k - 1 \in Nat /\ ~(k <= k - 1)
    BY <2>1
  <2> QED
    BY <1>2, <2>1, <2>2
<1>5. T \ {k} \subseteq 1 .. k - 1
  BY <1>3, <1>4
<1>6. CASE T \ {k} = {}
  <2>1. T = {k} /\ f[k] \in Int
    BY <1>3, <1>6
  <2>2. f[k] <= f[k]
    BY <2>1
  <2> QED
    BY <1>3, <2>1, <2>2
<1>7. CASE T \ {k} # {}
  <2>1. PICK m \in T \ {k} : \A i \in T \ {k} : f[i] <= f[m]
    BY <1>4, <1>5, <1>7
  <2>2. k \in T
    BY <1>3, <2>1
  <2>3. f[k] \in Int /\ f[m] \in Int
    BY <2>1, <2>2
  <2>4. CASE f[k] <= f[m]
    BY <1>3, <2>1, <2>4
  <2>5. CASE ~(f[k] <= f[m])
    <3>1. ASSUME NEW i \in T PROVE f[i] <= f[k]
      <4>1. f[i] \in Int
        BY <3>1
      <4>2. CASE i = k
        BY <2>3, <4>2
      <4>3. CASE i # k
        <5>1. f[i] <= f[m]
          BY <2>1, <3>1, <4>3
        <5>2. PICK x \in Int, y \in Int, z \in Int : x = f[i] /\ y = f[m] /\ z = f[k]
          BY <2>3, <4>1
        <5>3. x <= y /\ ~(z <= y)
          BY <2>5, <5>1, <5>2
        <5>4. x <= z
          BY <5>3
        <5> QED
          BY <5>2, <5>4
      <4> QED
        BY <4>2, <4>3
    <3> QED
      BY <1>3, <2>2, <3>1
  <2> QED
    BY <2>4, <2>5
<1> QED
  BY <1>6, <1>7

(*****************************************************************************)
(* Prefixes of lines.                                                        *)
(*****************************************************************************)
LEMMA LinesAreSequences ==
  /\ Typed \in Seq(Arbiter!Letters) /\ Lines \subseteq Seq(Arbiter!Letters)
  /\ \A line \in Lines : Arbiter!IsStrictPrefix(Typed, line)
  /\ Confidences \subseteq Nat
BY ProgramsConstants DEF Arbiter!ArbiterConstants

LEMMA PrefixIs ==
  ASSUME NEW L, NEW s \in Seq(L), NEW t \in Seq(L)
  PROVE  Arbiter!IsPrefix(s, t) <=> Len(s) <= Len(t) /\ \A i \in 1 .. Len(s) : s[i] = t[i]
<1>1. SubSeq(s, 1, Len(s)) = s /\ Len(s) \in Nat /\ Len(t) \in Nat
  OBVIOUS
<1>2. ASSUME Len(s) <= Len(t)
      PROVE  /\ SubSeq(t, 1, Len(s)) \in Seq(L) /\ Len(SubSeq(t, 1, Len(s))) = Len(s)
             /\ \A i \in 1 .. Len(s) : SubSeq(t, 1, Len(s))[i] = t[i]
  BY <1>1, <1>2, SubSeqProperties
<1>3. ASSUME Len(s) <= Len(t), \A i \in 1 .. Len(s) : s[i] = t[i] PROVE s = SubSeq(t, 1, Len(s))
  BY <1>1, <1>2, <1>3, SeqEqual
<1> QED
  BY <1>1, <1>2, <1>3 DEF Arbiter!IsPrefix

LEMMA CommonIsCommon ==
  ASSUME NEW T \in SUBSET Lines, T # {}
  PROVE  /\ Arbiter!LongestCommonPrefix(T) \in Seq(Arbiter!Letters)
         /\ \A t \in T : Arbiter!IsPrefix(Arbiter!LongestCommonPrefix(T), t)
         /\ Arbiter!IsPrefix(Typed, Arbiter!LongestCommonPrefix(T))
<1> DEFINE C == Arbiter!CommonPrefixes(T)
           L == Arbiter!Letters
<1>1. PICK line \in T : TRUE
  OBVIOUS
<1>2. line \in Seq(L) /\ Typed \in Seq(L) /\ \A t \in T : t \in Seq(L) /\ Arbiter!IsPrefix(Typed, t)
  BY <1>1, LinesAreSequences DEF Arbiter!IsStrictPrefix
<1>3. ASSUME NEW p \in C PROVE p \in Seq(L) /\ \A t \in T : Arbiter!IsPrefix(p, t)
  <2>1. PICK t \in T : \E l \in 0 .. Len(t) : p = SubSeq(t, 1, l)
    BY <1>3 DEF Arbiter!CommonPrefixes, Arbiter!Prefixes
  <2>2. t \in Seq(L) /\ Len(t) \in Nat
    BY <1>2
  <2>3. p \in Seq(L)
    BY <2>1, <2>2, SubSeqProperties
  <2> QED
    BY <1>3, <2>3 DEF Arbiter!CommonPrefixes
<1>4. Typed \in C
  <2>1. Typed = SubSeq(line, 1, Len(Typed)) /\ Len(Typed) \in 0 .. Len(line)
    <3>1. Len(Typed) <= Len(line) /\ SubSeq(Typed, 1, Len(Typed)) = SubSeq(line, 1, Len(Typed))
      BY <1>1, <1>2 DEF Arbiter!IsPrefix
    <3>2. SubSeq(Typed, 1, Len(Typed)) = Typed /\ Len(Typed) \in Nat /\ Len(line) \in Nat
      BY <1>2
    <3> QED
      BY <3>1, <3>2
  <2>2. Typed \in Arbiter!Prefixes(line)
    BY <2>1 DEF Arbiter!Prefixes
  <2> QED
    BY <1>1, <1>2, <2>2 DEF Arbiter!CommonPrefixes
<1>5. \E longest \in C : \A other \in C : Len(other) <= Len(longest)
  <2> DEFINE Short == {Len(line) - Len(p) : p \in C}
  <2>1. \A p \in C : Len(p) \in Nat /\ Len(p) <= Len(line) /\ Len(line) \in Nat
    BY <1>1, <1>2, <1>3 DEF Arbiter!IsPrefix
  <2>2. Short \subseteq Nat /\ Short # {}
    BY <1>4, <2>1
  <2>3. PICK m \in Short : \A s \in Short : m <= s
    BY <2>2, LeastExists
  <2>4. PICK longest \in C : m = Len(line) - Len(longest)
    BY <2>3
  <2>5. ASSUME NEW other \in C PROVE Len(other) <= Len(longest)
    <3>1. Len(line) - Len(longest) <= Len(line) - Len(other)
      BY <2>3, <2>4
    <3> QED
      BY <2>1, <3>1
  <2> QED
    BY <2>4, <2>5
<1>6. PICK p \in C : p = Arbiter!LongestCommonPrefix(T) /\ \A other \in C : Len(other) <= Len(p)
  BY <1>5 DEF Arbiter!LongestCommonPrefix
<1>7. Arbiter!IsPrefix(Typed, p)
  <2>1. p \in Seq(L) /\ Arbiter!IsPrefix(p, line) /\ Len(Typed) <= Len(p)
    BY <1>1, <1>3, <1>4, <1>6
  <2>2. Len(p) \in Nat /\ Len(Typed) \in Nat
    BY <1>2, <2>1
  <2>3. \A i \in 1 .. Len(p) : p[i] = line[i]
    BY <1>2, <2>1, PrefixIs
  <2>4. \A i \in 1 .. Len(Typed) : Typed[i] = line[i]
    BY <1>1, <1>2, PrefixIs
  <2>5. \A i \in 1 .. Len(Typed) : Typed[i] = p[i]
    BY <2>1, <2>2, <2>3, <2>4
  <2> QED
    BY <1>2, <2>1, <2>5, PrefixIs
<1> QED
  BY <1>3, <1>6, <1>7

(*****************************************************************************)
(* What the sources may say.                                                 *)
(*****************************************************************************)
Names == {"Command", "Unknown", "Subcommand", "AptAction", "DockerContainer", "Process", "Service", "GitRef", "Host",
          "GitCleanOption", "Option", "Path", "NamedPath", "AptPackage"}

LEMMA SlotNames == Arbiter!Slots = Names
BY DEF Arbiter!Slots, Arbiter!Allowed, Names

LEMMA SourceNames ==
  DOMAIN Arbiter!Bonus = {"Executable", "LiveEntity", "Workflow", "Transition", "Grammar", "Popularity", "Personal",
                          "Recovery", "Filesystem"}
BY DEF Arbiter!Bonus

LEMMA EntitiesOnly ==
  ASSUME slot \in Arbiter!EntitySlots
  PROVE  Arbiter!Allowed[slot] \cap {"Command", "Subcommand", "Path", "Package", "Option"} = {}
BY DEF Arbiter!EntitySlots, Arbiter!Allowed

LEMMA FirstIsAllowed == ASSUME NEW kinds, NEW k \in Arbiter!FirstAllowed(kinds)
                        PROVE k \in Arbiter!Allowed[slot] /\ \E i \in DOMAIN kinds : k = kinds[i]
BY DEF Arbiter!FirstAllowed

PairFits(p) == p[1] \in Arbiter!Allowed[slot] /\ p[2] \in Evidence

LEMMA DomainFits == ASSUME slot \in Arbiter!Slots, NEW p \in Arbiter!Domain PROVE PairFits(p)
BY SlotNames, SourceNames DEF Names, Arbiter!Domain, PairFits, Evidence, Arbiter!EntitySlots, Arbiter!Allowed

LEMMA CommandNamesFit == ASSUME slot \in Arbiter!Slots, NEW p \in Arbiter!CommandNames PROVE PairFits(p)
BY EntitiesOnly, SourceNames DEF Arbiter!CommandNames, PairFits, Evidence

LEMMA ContextualFits == ASSUME slot \in Arbiter!Slots, NEW p \in Arbiter!Contextual PROVE PairFits(p)
BY FirstIsAllowed, SourceNames DEF Arbiter!Contextual, PairFits, Evidence

LEMMA LearnedFits == ASSUME slot \in Arbiter!Slots, NEW p \in Arbiter!Transitions \cup Arbiter!Personal PROVE PairFits(p)
<1>1. p[1] \in Arbiter!Allowed[slot] /\ p[1] \in {"Command", "Subcommand", "Path", "Package"} /\ p[2] \in {"Transition", "Personal"}
  BY FirstIsAllowed DEF Arbiter!Transitions, Arbiter!LearnedKind, Arbiter!Personal
<1>2. slot \notin Arbiter!EntitySlots
  BY <1>1, EntitiesOnly
<1> QED
  BY <1>1, <1>2, SourceNames DEF PairFits, Evidence

LEMMA SourcesFit == ASSUME slot \in Arbiter!Slots, NEW p \in Arbiter!StillToSpeak PROVE PairFits(p)
<1>1. PICK i \in 1 .. 5 : p \in Arbiter!Sources[i]
  BY DEF Arbiter!StillToSpeak, Arbiter!Sources
<1>2. p \in Arbiter!CommandNames \/ p \in Arbiter!Domain \/ p \in Arbiter!Contextual
      \/ p \in Arbiter!Transitions \cup Arbiter!Personal
  BY <1>1 DEF Arbiter!Sources
<1> QED
  BY <1>2, CommandNamesFit, DomainFits, ContextualFits, LearnedFits

(*****************************************************************************)
(* The choice.                                                               *)
(*****************************************************************************)
LEMMA Scores == ASSUME slot \in Arbiter!Slots, NEW c \in Candidate PROVE Arbiter!Score(c) \in Int
<1>1. c.confidence \in Nat /\ c.source \in DOMAIN Arbiter!Bonus
  BY LinesAreSequences, SourceNames DEF Candidate, Evidence
<1>2. Arbiter!Bonus[c.source] \in Int
  BY <1>1, SourceNames DEF Arbiter!Bonus
<1> QED
  BY <1>1, <1>2 DEF Arbiter!Score

LEMMA EligibleAre ==
  ASSUME slot \in Arbiter!Slots, pool \in Seq(Candidate)
  PROVE  Arbiter!EligibleAt = {i \in 1 .. Len(pool) : pool[i].current}
<1>1. ASSUME NEW i \in 1 .. Len(pool) PROVE Arbiter!Eligible(pool[i]) <=> pool[i].current
  <2>1. pool[i] \in Candidate
    BY <1>1
  <2> QED
    BY <2>1, LinesAreSequences DEF Candidate, Arbiter!Eligible
<1>2. DOMAIN pool = 1 .. Len(pool)
  OBVIOUS
<1> QED
  BY <1>1, <1>2 DEF Arbiter!EligibleAt

LEMMA TopIs ==
  ASSUME slot \in Arbiter!Slots, pool \in Seq(Candidate), Arbiter!EligibleAt # {}
  PROVE  /\ Arbiter!TopAt # {} /\ Arbiter!TopAt \subseteq Arbiter!EligibleAt
         /\ \A i \in Arbiter!TopAt, j \in Arbiter!EligibleAt :
              IF j \in Arbiter!TopAt THEN Arbiter!Score(pool[j]) = Arbiter!Score(pool[i])
              ELSE Arbiter!Score(pool[i]) > Arbiter!Score(pool[j])
<1> DEFINE E == Arbiter!EligibleAt
           V == {Arbiter!Score(pool[i]) : i \in E}
<1>1. E \subseteq 1 .. Len(pool) /\ Len(pool) \in Nat
  BY EligibleAre
<1>2. \A i \in E : Arbiter!Score(pool[i]) \in Int
  BY <1>1, Scores
<1>3. PICK f : f = [i \in E |-> Arbiter!Score(pool[i])]
  OBVIOUS
<1>4. PICK m \in E : \A i \in E : f[i] <= f[m]
  BY <1>1, <1>2, <1>3, HighestExists
<1>5. f[m] \in V /\ \A y \in V : f[m] >= y
  BY <1>2, <1>3, <1>4
<1>6. PICK best \in V : best = Arbiter!Max(V) /\ \A y \in V : best >= y
  BY <1>5 DEF Arbiter!Max
<1>7. Arbiter!TopAt = {i \in E : Arbiter!Score(pool[i]) = best}
  BY <1>6 DEF Arbiter!TopAt
<1>8. ASSUME NEW i \in Arbiter!TopAt, NEW j \in E, j \notin Arbiter!TopAt
      PROVE  Arbiter!Score(pool[i]) > Arbiter!Score(pool[j])
  <2>1. PICK y \in Int : y = Arbiter!Score(pool[j])
    BY <1>2
  <2>2. best \in Int /\ best >= y /\ best # y /\ best = Arbiter!Score(pool[i])
    BY <1>2, <1>6, <1>7, <1>8, <2>1
  <2> QED
    BY <2>1, <2>2
<1> QED
  BY <1>6, <1>7, <1>8

\* A candidate with the most evidence, the first of them.
LEMMA FirstIsTop ==
  ASSUME slot \in Arbiter!Slots, pool \in Seq(Candidate), Arbiter!EligibleAt # {}
  PROVE  /\ Arbiter!Min(Arbiter!TopAt) \in Arbiter!TopAt
         /\ \A i \in Arbiter!TopAt : i \in 1 .. Len(pool) /\ pool[i] \in Candidate /\ pool[i].current
<1>1. Arbiter!TopAt # {} /\ Arbiter!TopAt \subseteq 1 .. Len(pool) /\ Len(pool) \in Nat
  BY TopIs, EligibleAre
<1>2. \E m \in Arbiter!TopAt : \A s \in Arbiter!TopAt : m <= s
  <2>1. Arbiter!TopAt \in SUBSET Nat
    BY <1>1
  <2> QED
    BY <1>1, <2>1, LeastExists
<1>3. Arbiter!Min(Arbiter!TopAt) \in Arbiter!TopAt
  BY <1>2 DEF Arbiter!Min
<1>4. ASSUME NEW i \in Arbiter!TopAt PROVE i \in 1 .. Len(pool) /\ pool[i] \in Candidate /\ pool[i].current
  BY <1>1, <1>4, TopIs, EligibleAre
<1> QED
  BY <1>3, <1>4

\* What is shown of the first of the best, if nothing of the same evidence speaks against it.
LEMMA ShownFits ==
  ASSUME slot \in Arbiter!Slots, pool \in Seq(Candidate), Arbiter!EligibleAt # {},
         NEW line, Arbiter!IsStrictPrefix(Typed, line),
         NEW first \in Arbiter!TopAt, Arbiter!IsPrefix(line, pool[first].line),
         answer' = Arbiter!Shown(pool[first], line), UNCHANGED <<slot, pool>>,
         \A i \in Arbiter!TopAt : \/ Arbiter!IsPrefix(line, pool[i].line)
                                  \/ /\ pool[i].source = "Grammar" /\ pool[first].source = "Grammar"
                                     /\ pool[first].kind # "Command"
  PROVE  Arbiter!AnswersAreJustified'
<1>1. first \in DOMAIN pool /\ pool[first] \in Candidate /\ pool[first].current
  BY FirstIsTop
<1>2. answer'.line = line /\ answer'.kind = pool[first].kind /\ answer'.source = pool[first].source
  BY DEF Arbiter!Shown
<1>3. ASSUME NEW i \in DOMAIN pool, pool[i].current, ~Arbiter!IsPrefix(line, pool[i].line)
      PROVE  \/ Arbiter!Score(pool[first]) > Arbiter!Score(pool[i])
             \/ /\ Arbiter!Score(pool[first]) = Arbiter!Score(pool[i]) /\ pool[i].source = "Grammar"
                /\ answer'.source = "Grammar" /\ answer'.kind # "Command"
  <2>1. i \in Arbiter!EligibleAt
    BY <1>3, EligibleAre
  <2>2. CASE i \in Arbiter!TopAt
    <3>1. Arbiter!Score(pool[first]) = Arbiter!Score(pool[i])
      BY <2>1, <2>2, TopIs
    <3> QED
      BY <1>2, <1>3, <2>2, <3>1
  <2>3. CASE i \notin Arbiter!TopAt
    BY <2>1, <2>3, TopIs
  <2> QED
    BY <2>2, <2>3
<1>4. slot \in Arbiter!EntitySlots => answer'.source \in {"LiveEntity", "Workflow"}
  BY <1>1, <1>2 DEF Candidate, Evidence
<1>5. \A i \in DOMAIN pool : pool[i].current /\ ~Arbiter!IsPrefix(line, pool[i].line) =>
        \E j \in DOMAIN pool :
          /\ pool[j].current /\ Arbiter!IsPrefix(line, pool[j].line)
          /\ \/ Arbiter!Score(pool[j]) > Arbiter!Score(pool[i])
             \/ /\ Arbiter!Score(pool[j]) = Arbiter!Score(pool[i]) /\ pool[i].source = "Grammar"
                /\ answer'.source = "Grammar" /\ answer'.kind # "Command"
  BY <1>1, <1>3
<1> QED
  BY <1>2, <1>4, <1>5 DEF Arbiter!AnswersAreJustified

LEMMA SameCardinality == \A S : Arbiter!Cardinality(S) = Cardinality(S)
BY Zenon DEF Arbiter!Cardinality, Cardinality

LEMMA ChooseKeeps == ArbiterInv /\ Arbiter!Choose => ArbiterInv'
<1> SUFFICES ASSUME ArbiterInv, Arbiter!Choose PROVE ArbiterInv'
  OBVIOUS
<1>1. slot \in Arbiter!Slots /\ pool \in Seq(Candidate) /\ UNCHANGED <<slot, pool>> /\ answer' = Arbiter!Choice
  BY DEF ArbiterInv, Arbiter!Choose
<1>2. slot' \in Arbiter!Slots /\ pool' \in Seq(Candidate')
  BY <1>1 DEF Candidate, Evidence
<1>3. CASE answer' = Arbiter!Silence
  <2>1. answer'.kind = "silence"
    BY <1>3 DEF Arbiter!Silence
  <2> QED
    BY <1>2, <2>1 DEF ArbiterInv, Arbiter!AnswersAreJustified
<1>4. CASE answer' # Arbiter!Silence
  <2>1. Arbiter!EligibleAt # {}
    BY <1>1, <1>4 DEF Arbiter!Choice
  <2>2. PICK first \in Arbiter!TopAt : first = Arbiter!Min(Arbiter!TopAt)
    BY <1>1, <2>1, FirstIsTop
  <2>3. \A i \in Arbiter!TopAt : i \in 1 .. Len(pool) /\ pool[i] \in Candidate /\ pool[i].line \in Lines
    BY <1>1, <2>1, FirstIsTop DEF Candidate
  <2>4. \A i \in Arbiter!TopAt : /\ Arbiter!IsPrefix(pool[i].line, pool[i].line) /\ Arbiter!IsStrictPrefix(Typed, pool[i].line)
                                 /\ pool[i].line \in Seq(Arbiter!Letters)
    BY <2>3, LinesAreSequences, PrefixIs
  <2>5. Arbiter!AnswersAreJustified'
    <3>1. CASE Cardinality(Arbiter!TopAt) = 1
      <4>1. answer' = Arbiter!Shown(pool[first], pool[first].line)
        BY <1>1, <2>1, <2>2, <3>1, SameCardinality DEF Arbiter!Choice
      <4>2. IsFiniteSet(Arbiter!TopAt)
        <5>1. Arbiter!TopAt \subseteq 1 .. Len(pool) /\ Len(pool) \in Nat
          BY <1>1, <2>3
        <5> QED
          <6>1. IsFiniteSet(1 .. Len(pool))
            BY <5>1, FS_Interval
          <6> QED
            BY <5>1, <6>1, FS_Subset
      <4>3. \A i \in Arbiter!TopAt : i = first
        BY <3>1, <4>2, FS_Singleton
      <4>4. \A i \in Arbiter!TopAt : Arbiter!IsPrefix(pool[first].line, pool[i].line)
        BY <2>4, <4>3
      <4> QED
        BY <1>1, <2>1, <2>4, <4>1, <4>4, ShownFits
    <3>2. CASE Cardinality(Arbiter!TopAt) # 1 /\ Arbiter!Common # Typed
      <4>1. answer' = Arbiter!Shown(pool[first], Arbiter!Common)
        BY <1>1, <2>1, <2>2, <3>2, SameCardinality DEF Arbiter!Choice
      <4>2. PICK T \in SUBSET Lines : T = {pool[i].line : i \in Arbiter!TopAt}
        BY <2>3
      <4>3. T # {} /\ Arbiter!Common = Arbiter!LongestCommonPrefix(T)
        BY <4>2 DEF Arbiter!Common
      <4>4. /\ \A i \in Arbiter!TopAt : Arbiter!IsPrefix(Arbiter!Common, pool[i].line)
            /\ Arbiter!IsPrefix(Typed, Arbiter!Common)
        BY <4>2, <4>3, CommonIsCommon
      <4>5. Arbiter!IsStrictPrefix(Typed, Arbiter!Common)
        BY <3>2, <4>4 DEF Arbiter!IsStrictPrefix
      <4> QED
        BY <1>1, <2>1, <4>1, <4>4, <4>5, ShownFits
    <3>3. CASE Cardinality(Arbiter!TopAt) # 1 /\ Arbiter!Common = Typed
      <4>1. answer' = Arbiter!Shown(pool[first], pool[first].line) /\ Arbiter!QuietTie
        BY <1>1, <1>4, <2>1, <2>2, <3>3, SameCardinality DEF Arbiter!Choice
      <4>2. pool[first].kind # "Command" /\ \A i \in Arbiter!TopAt : pool[i].source = "Grammar"
        BY <2>2, <4>1 DEF Arbiter!QuietTie
      <4> QED
        BY <1>1, <2>1, <2>4, <4>1, <4>2, ShownFits
    <3> QED
      BY <3>1, <3>2, <3>3
  <2> QED
    BY <1>2, <2>5 DEF ArbiterInv
<1> QED
  BY <1>3, <1>4

LEMMA PushKeeps ==
  ASSUME ArbiterInv, answer = Arbiter!NoAnswer, NEW what \in Arbiter!StillToSpeak, NEW line \in Lines,
         NEW confidence \in Confidences, NEW current \in BOOLEAN, Arbiter!Push(what, line, confidence, current)
  PROVE  ArbiterInv'
<1>1. slot' = slot /\ answer' = answer /\ slot \in Arbiter!Slots /\ pool \in Seq(Candidate)
  BY DEF ArbiterInv, Arbiter!Push
<1>2. PICK c : c = [line |-> line, kind |-> what[1], source |-> what[2], confidence |-> confidence, current |-> current]
  OBVIOUS
<1>3. c \in Candidate
  BY <1>1, <1>2, SourcesFit DEF Candidate, PairFits
<1>4. pool' = Append(pool, c)
  BY <1>2 DEF Arbiter!Push
<1>5. pool' \in Seq(Candidate')
  <2>1. Candidate' = Candidate
    BY <1>1 DEF Candidate, Evidence
  <2> QED
    BY <1>1, <1>3, <1>4, <2>1
<1>6. answer'.kind = "none"
  BY <1>1 DEF Arbiter!NoAnswer
<1> QED
  BY <1>1, <1>5, <1>6 DEF ArbiterInv, Arbiter!AnswersAreJustified

LEMMA ArbiterStarts == Arbiter!Init => ArbiterInv
<1> SUFFICES ASSUME Arbiter!Init PROVE ArbiterInv
  OBVIOUS
<1>1. slot \in Arbiter!Slots /\ pool = <<>> /\ answer.kind = "none"
  BY DEF Arbiter!Init, Arbiter!NoAnswer
<1> QED
  BY <1>1 DEF ArbiterInv, Arbiter!AnswersAreJustified

LEMMA ArbiterKeeps == ArbiterInv /\ Arbiter!Next => ArbiterInv'
BY PushKeeps, ChooseKeeps DEF Arbiter!Next

LEMMA ArbiterThen == ArbiterInv => Arbiter!AnswersAreJustified
BY DEF ArbiterInv

LEMMA ArbiterRests == ArbiterInv /\ UNCHANGED ofArbiter => ArbiterInv'
BY DEF ofArbiter, ArbiterInv, Candidate, Evidence, Arbiter!AnswersAreJustified

\* While the arbiter is not the program that runs, nothing of it changes.
ArbiterBeside == program = "arbiter" => ArbiterInv

LEMMA ArbiterBesideHolds == ProgramSpec => []ArbiterBeside
<1>1. ProgramInit => ArbiterBeside
  BY ArbiterStarts DEF ProgramInit, ArbiterBeside
<1>2. ArbiterBeside /\ [ProgramNext]_programVars => ArbiterBeside'
  <2> SUFFICES ASSUME ArbiterBeside, [ProgramNext]_programVars PROVE ArbiterBeside'
    OBVIOUS
  <2>1. CASE ProgramNext
    <3>1. program' = program /\ (program = "arbiter" => Arbiter!Next)
      BY <2>1 DEF ProgramNext
    <3> QED
      BY <3>1, ArbiterKeeps DEF ArbiterBeside
  <2>2. CASE UNCHANGED programVars
    <3>1. program' = program /\ UNCHANGED ofArbiter
      BY <2>2 DEF programVars
    <3> QED
      BY <3>1, ArbiterRests DEF ArbiterBeside
  <2> QED
    BY <2>1, <2>2
<1> QED
  BY <1>1, <1>2, PTL DEF ProgramSpec

(*****************************************************************************)
(* The log of learned commands (GuessHistory).                               *)
(*****************************************************************************)
\* Lines that count some of the first n records, and lines that count none.
Counting(n) == [command : Learned, of : SUBSET (1 .. n)]
Entry(n) == Counting(n) \cup [command : {"torn", "spoiled"}, of : {{}}]
\* No record is counted by two lines.
Apart(lines) == \A i, j \in DOMAIN lines : i # j => lines[i].of \cap lines[j].of = {}

\* A helper of the log, when n records are begun.
Recorder(n) == [step : {"rest", "lock", "append", "load", "rename"}, command : Learned \cup {"torn"},
              id : Nat, short : Seq(Counting(n)), dropped : [Learned -> SUBSET (1 .. n)]]

LogType ==
  /\ records \in Nat /\ kills \in Nat
  /\ log \in Seq(Entry(records))
  /\ appended \in [Learned -> SUBSET (1 .. records)]
  /\ spoiled \in [Learned -> SUBSET (1 .. records)]
  /\ forgotten \in [Learned -> SUBSET (1 .. records)]
  /\ writer \in [Shells -> Recorder(records)]

\* A record that is still to be appended is in no line, and no other helper has it.
UnwrittenFits(s) ==
  writer[s].step \in {"lock", "append"} =>
    /\ writer[s].command \in Learned /\ writer[s].id \in 1 .. records
    /\ \A c \in Learned : writer[s].id \notin appended[c]
    /\ \A t \in Shells \ {s} : writer[t].step \in {"lock", "append"} => writer[t].id # writer[s].id
\* Whoever appends or compacts holds the lock, and what it has read is still what the log says.
HolderFits(s) ==
  /\ writer[s].step \in {"append", "load", "rename"} => lock = s
  /\ writer[s].step \in {"load", "rename"} => Len(log) > MostLines
  /\ writer[s].step = "rename" =>
       /\ Apart(writer[s].short)
       /\ \A c \in Learned : /\ Log!Under(log, c) = Log!Under(writer[s].short, c) \cup writer[s].dropped[c]
                              /\ Log!Under(writer[s].short, c) \cap writer[s].dropped[c] = {}

Accounted ==
  \A c \in Learned : /\ Log!Under(log, c) \cup spoiled[c] \cup forgotten[c] = appended[c]
                     /\ Log!Under(log, c) \cap (spoiled[c] \cup forgotten[c]) = {}
\* A killed helper leaves at most one torn line, and that line spoils at most one record.
PaidFor == LET n == Cardinality(UNION Log!Range(spoiled)) IN n <= kills /\ (Log!IsTorn => n < kills)

HistoryInv ==
  LogType /\ (\A s \in Shells : UnwrittenFits(s) /\ HolderFits(s)) /\ Accounted /\ Apart(log) /\ PaidFor

(*****************************************************************************)
(* Lines of a log.                                                           *)
(*****************************************************************************)
LEMMA UnderHas ==
  ASSUME NEW lines, NEW c, NEW x
  PROVE  x \in Log!Under(lines, c) <=> \E i \in DOMAIN lines : lines[i].command = c /\ x \in lines[i].of
BY DEF Log!Under

LEMMA EntriesGrow ==
  ASSUME NEW n \in Nat, NEW m \in Nat, n <= m
  PROVE  /\ 1 .. n \subseteq 1 .. m /\ Counting(n) \subseteq Counting(m) /\ Entry(n) \subseteq Entry(m)
         /\ Seq(Counting(n)) \subseteq Seq(Counting(m)) /\ Seq(Entry(n)) \subseteq Seq(Entry(m))
<1>1. 1 .. n \subseteq 1 .. m
  OBVIOUS
<1>2. Counting(n) \subseteq Counting(m)
  BY <1>1 DEF Counting
<1>3. Entry(n) \subseteq Entry(m)
  BY <1>2 DEF Entry
<1> QED
  BY <1>1, <1>2, <1>3, SeqMonotonic

LEMMA EntryIs ==
  ASSUME NEW n \in Nat, NEW lines \in Seq(Entry(n)), NEW i \in DOMAIN lines
  PROVE  /\ lines[i].of \subseteq 1 .. n /\ (lines[i].command \in Learned \/ lines[i].of = {})
         /\ lines[i] = [command |-> lines[i].command, of |-> lines[i].of]
<1>1. lines[i] \in Entry(n)
  OBVIOUS
<1> QED
  BY <1>1 DEF Entry, Counting

LEMMA UnderBounded ==
  ASSUME NEW n \in Nat, NEW lines \in Seq(Entry(n)), NEW c PROVE Log!Under(lines, c) \subseteq 1 .. n
BY EntryIs, UnderHas

LEMMA UnderAppend ==
  ASSUME NEW n \in Nat, NEW lines \in Seq(Entry(n)), NEW e \in Entry(n), NEW c
  PROVE  Log!Under(Append(lines, e), c) = Log!Under(lines, c) \cup (IF e.command = c THEN e.of ELSE {})
<1>1. /\ DOMAIN lines = 1 .. Len(lines) /\ Len(lines) \in Nat
      /\ DOMAIN Append(lines, e) = 1 .. Len(lines) + 1 /\ Append(lines, e)[Len(lines) + 1] = e
      /\ \A i \in 1 .. Len(lines) : Append(lines, e)[i] = lines[i]
  OBVIOUS
<1>2. \A i : i \in 1 .. Len(lines) + 1 <=> i \in 1 .. Len(lines) \/ i = Len(lines) + 1
  BY <1>1
<1>3. ASSUME NEW x PROVE x \in Log!Under(Append(lines, e), c) <=> x \in Log!Under(lines, c) \/ (e.command = c /\ x \in e.of)
  <2>1. x \in Log!Under(lines, c) <=> \E i \in 1 .. Len(lines) : lines[i].command = c /\ x \in lines[i].of
    BY <1>1, UnderHas
  <2>2. x \in Log!Under(Append(lines, e), c)
        <=> \E i \in 1 .. Len(lines) + 1 : Append(lines, e)[i].command = c /\ x \in Append(lines, e)[i].of
    BY <1>1, SMTT(30) DEF Log!Under
  <2> QED
    BY <1>1, <1>2, <2>1, <2>2
<1> QED
  BY <1>3

LEMMA UnderBlank ==
  ASSUME NEW n \in Nat, NEW lines \in Seq(Entry(n)), NEW e \in Entry(n), NEW c
  PROVE  e.of = {} => Log!Under(Append(lines, e), c) = Log!Under(lines, c)
<1>1. Log!Under(Append(lines, e), c) = Log!Under(lines, c) \cup (IF e.command = c THEN e.of ELSE {})
  BY UnderAppend
<1> QED
  BY <1>1

LEMMA ApartAppend ==
  ASSUME NEW n \in Nat, NEW lines \in Seq(Entry(n)), NEW e \in Entry(n), Apart(lines),
         \A i \in DOMAIN lines : lines[i].of \cap e.of = {}
  PROVE  Apart(Append(lines, e))
<1>1. /\ DOMAIN lines = 1 .. Len(lines) /\ Len(lines) \in Nat
      /\ DOMAIN Append(lines, e) = 1 .. Len(lines) + 1 /\ Append(lines, e)[Len(lines) + 1] = e
      /\ \A i \in 1 .. Len(lines) : Append(lines, e)[i] = lines[i]
  OBVIOUS
<1>2. \A i : i \in 1 .. Len(lines) + 1 <=> i \in 1 .. Len(lines) \/ i = Len(lines) + 1
  BY <1>1
<1>3. ASSUME NEW i \in 1 .. Len(lines) + 1, NEW j \in 1 .. Len(lines) + 1, i # j
      PROVE  Append(lines, e)[i].of \cap Append(lines, e)[j].of = {}
  <2>1. CASE i \in 1 .. Len(lines) /\ j \in 1 .. Len(lines)
    BY <1>1, <1>3, <2>1 DEF Apart
  <2>2. CASE i = Len(lines) + 1 /\ j \in 1 .. Len(lines)
    BY <1>1, <2>2
  <2>3. CASE i \in 1 .. Len(lines) /\ j = Len(lines) + 1
    BY <1>1, <2>3
  <2> QED
    BY <1>2, <1>3, <2>1, <2>2, <2>3
<1> QED
  BY <1>1, <1>3 DEF Apart

\* The older and the newer lines of a log.
LEMMA UnderSplit ==
  ASSUME NEW n \in Nat, NEW lines \in Seq(Entry(n)), NEW k \in 0 .. Len(lines), Apart(lines)
  PROVE  /\ SubSeq(lines, 1, k) \in Seq(Entry(n)) /\ Apart(SubSeq(lines, 1, k))
         /\ SubSeq(lines, k + 1, Len(lines)) \in Seq(Entry(n)) /\ Apart(SubSeq(lines, k + 1, Len(lines)))
         /\ \A c : /\ Log!Under(lines, c) = Log!Under(SubSeq(lines, 1, k), c)
                                            \cup Log!Under(SubSeq(lines, k + 1, Len(lines)), c)
                   /\ Log!Under(SubSeq(lines, 1, k), c) \cap Log!Under(SubSeq(lines, k + 1, Len(lines)), c) = {}
<1>0. PICK older, newer : older = SubSeq(lines, 1, k) /\ newer = SubSeq(lines, k + 1, Len(lines))
  OBVIOUS
<1>1. DOMAIN lines = 1 .. Len(lines) /\ Len(lines) \in Nat /\ k \in Nat /\ k <= Len(lines)
  OBVIOUS
<1>2. \A i \in 1 .. Len(lines) : lines[i] \in Entry(n)
  OBVIOUS
<1>3. /\ older \in Seq(Entry(n)) /\ Len(older) = k /\ \A i \in 1 .. k : older[i] = lines[i]
  <2>1. \A i \in 1 .. k : lines[i] \in Entry(n)
    BY <1>1, <1>2
  <2>2. /\ older \in Seq(Entry(n)) /\ Len(older) = (IF 1 <= k THEN k - 1 + 1 ELSE 0)
        /\ \A i \in 1 .. k - 1 + 1 : older[i] = lines[1 + i - 1]
    BY <1>0, <1>1, <2>1, SubSeqProperties
  <2> QED
    BY <1>1, <2>2
<1>4. /\ newer \in Seq(Entry(n)) /\ Len(newer) = Len(lines) - k /\ \A i \in 1 .. Len(lines) - k : newer[i] = lines[k + i]
  <2>1. \A i \in k + 1 .. Len(lines) : lines[i] \in Entry(n)
    BY <1>1, <1>2
  <2>2. /\ newer \in Seq(Entry(n)) /\ Len(newer) = (IF k + 1 <= Len(lines) THEN Len(lines) - (k + 1) + 1 ELSE 0)
        /\ \A i \in 1 .. Len(lines) - (k + 1) + 1 : newer[i] = lines[(k + 1) + i - 1]
    BY <1>0, <1>1, <2>1, SubSeqProperties
  <2>3. Len(newer) = Len(lines) - k
    BY <1>1, <2>2
  <2>4. ASSUME NEW i \in 1 .. Len(lines) - k PROVE newer[i] = lines[k + i]
    <3>1. (k + 1) + i - 1 = k + i /\ i \in 1 .. Len(lines) - (k + 1) + 1
      BY <1>1
    <3> QED
      BY <2>2, <3>1
  <2> QED
    BY <2>2, <2>3, <2>4
<1>5. DOMAIN older = 1 .. k /\ DOMAIN newer = 1 .. Len(lines) - k
  BY <1>3, <1>4
<1>6. \A i \in 1 .. k : i \in 1 .. Len(lines)
  BY <1>1
<1>7. \A i \in 1 .. Len(lines) - k : k + i \in 1 .. Len(lines) /\ k + i \notin 1 .. k
  BY <1>1
<1>8. \A i \in 1 .. Len(lines) : i \in 1 .. k \/ (i - k \in 1 .. Len(lines) - k /\ k + (i - k) = i)
  BY <1>1
<1>9. Apart(older)
  BY <1>1, <1>3, <1>5, <1>6 DEF Apart
<1>10. Apart(newer)
  <2>1. ASSUME NEW i \in 1 .. Len(lines) - k, NEW j \in 1 .. Len(lines) - k, i # j
        PROVE  newer[i].of \cap newer[j].of = {}
    <3>1. k + i # k + j /\ k + i \in DOMAIN lines /\ k + j \in DOMAIN lines
      BY <1>1, <1>7, <2>1
    <3>2. lines[k + i].of \cap lines[k + j].of = {}
      BY <3>1 DEF Apart
    <3> QED
      BY <1>4, <3>2
  <2> QED
    BY <1>5, <2>1 DEF Apart
<1>11. ASSUME NEW c, NEW x
       PROVE  /\ x \in Log!Under(lines, c) <=> x \in Log!Under(older, c) \/ x \in Log!Under(newer, c)
              /\ ~(x \in Log!Under(older, c) /\ x \in Log!Under(newer, c))
  <2>1. ASSUME x \in Log!Under(older, c) PROVE \E i \in 1 .. k : lines[i].command = c /\ x \in lines[i].of
    <3>1. \E i \in DOMAIN older : older[i].command = c /\ x \in older[i].of
      BY <2>1, Zenon DEF Log!Under
    <3> QED
      BY <1>3, <1>5, <3>1
  <2>2. ASSUME x \in Log!Under(newer, c)
        PROVE  \E i \in 1 .. Len(lines) : i \notin 1 .. k /\ lines[i].command = c /\ x \in lines[i].of
    <3>0. \E i \in DOMAIN newer : newer[i].command = c /\ x \in newer[i].of
      BY <2>2, Zenon DEF Log!Under
    <3>1. PICK i \in 1 .. Len(lines) - k : newer[i].command = c /\ x \in newer[i].of
      BY <1>5, <3>0
    <3>2. lines[k + i].command = c /\ x \in lines[k + i].of
      BY <1>4, <3>1
    <3> QED
      BY <1>7, <3>2
  <2>3. ASSUME x \in Log!Under(lines, c) PROVE x \in Log!Under(older, c) \/ x \in Log!Under(newer, c)
    <3>1. PICK i \in 1 .. Len(lines) : lines[i].command = c /\ x \in lines[i].of
      BY <1>1, <2>3, UnderHas
    <3>2. CASE i \in 1 .. k
      <4>1. i \in DOMAIN older /\ older[i].command = c /\ x \in older[i].of
        BY <1>3, <1>5, <3>1, <3>2
      <4> QED
        BY <4>1, UnderHas
    <3>3. CASE i - k \in 1 .. Len(lines) - k /\ k + (i - k) = i
      <4>1. PICK j \in 1 .. Len(lines) - k : k + j = i
        BY <3>3
      <4>2. j \in DOMAIN newer /\ newer[j].command = c /\ x \in newer[j].of
        BY <1>4, <1>5, <3>1, <4>1
      <4> QED
        BY <4>2, UnderHas
    <3> QED
      BY <1>8, <3>2, <3>3
  <2>4. ASSUME x \in Log!Under(older, c), x \in Log!Under(newer, c) PROVE FALSE
    <3>1. PICK i \in 1 .. k : lines[i].command = c /\ x \in lines[i].of
      BY <2>1, <2>4
    <3>2. PICK j \in 1 .. Len(lines) : j \notin 1 .. k /\ lines[j].command = c /\ x \in lines[j].of
      BY <2>2, <2>4
    <3>3. i # j /\ i \in DOMAIN lines /\ j \in DOMAIN lines
      BY <1>1, <1>6, <3>1, <3>2
    <3> QED
      BY <3>1, <3>2, <3>3 DEF Apart
  <2>5. ASSUME x \in Log!Under(older, c) \/ x \in Log!Under(newer, c) PROVE x \in Log!Under(lines, c)
    BY <1>1, <1>6, <2>1, <2>2, <2>5, UnderHas
  <2> QED
    BY <2>3, <2>4, <2>5
<1>12. ASSUME NEW c PROVE /\ Log!Under(lines, c) = Log!Under(older, c) \cup Log!Under(newer, c)
                          /\ Log!Under(older, c) \cap Log!Under(newer, c) = {}
  BY <1>11
<1> QED
  BY <1>0, <1>3, <1>4, <1>9, <1>10, <1>12

LEMMA LatestIs == ASSUME NEW n \in Nat, NEW S \in SUBSET (1 .. n), S # {} PROVE Log!Max(S) \in S
<1> DEFINE Short == {n - i : i \in S}
<1>1. \A i \in S : i \in Nat /\ n - i \in Nat
  OBVIOUS
<1>2. Short \in SUBSET Nat /\ Short # {}
  BY <1>1
<1>3. PICK least \in Short : \A x \in Short : least <= x
  BY <1>2, LeastExists
<1>4. PICK m \in S : least = n - m
  BY <1>3
<1>5. ASSUME NEW i \in S PROVE m >= i
  <2>1. n - m <= n - i
    BY <1>3, <1>4
  <2> QED
    BY <1>1, <2>1
<1> QED
  BY <1>5 DEF Log!Max

\* One line for each command, the latest first: it counts nothing that the lines that were read do not.
LEMMA MergedFits ==
  ASSUME NEW n \in Nat, NEW lines \in Seq(Entry(n)), Apart(lines), NEW k \in Nat,
         NEW short \in [1 .. k -> Log!Summaries(lines)], Log!IsMerged(short, lines)
  PROVE  /\ short \in Seq(Counting(n)) /\ Apart(short)
         /\ \A c \in Learned : Log!Under(short, c) \subseteq Log!Under(lines, c)
<1>1. Log!Summaries(lines) \subseteq Counting(n)
  BY UnderBounded DEF Log!Summaries, Log!Line, Counting
<1>2. short \in Seq(Counting(n)) /\ DOMAIN short = 1 .. k
  <2>1. short \in [1 .. k -> Counting(n)]
    BY <1>1
  <2> QED
    BY <2>1
<1>3. ASSUME NEW i \in 1 .. k
      PROVE  /\ short[i] = [command |-> short[i].command, of |-> Log!Under(lines, short[i].command)]
             /\ short[i].of = Log!Under(lines, short[i].command) /\ short[i].of # {} /\ short[i].of \in SUBSET (1 .. n)
  <2>1. short[i] \in Log!Summaries(lines)
    OBVIOUS
  <2>2. PICK c \in Learned : Log!Under(lines, c) # {} /\ short[i] = [command |-> c, of |-> Log!Under(lines, c)]
    BY <2>1 DEF Log!Summaries, Log!Line
  <2>3. short[i].command = c /\ short[i].of = Log!Under(lines, c)
    BY <2>2
  <2> QED
    BY <2>2, <2>3, UnderBounded
<1>4. ASSUME NEW i \in 1 .. k, NEW j \in 1 .. k, i # j PROVE short[i] # short[j]
  <2>1. PICK a \in Nat, b \in Nat : a = Log!Max(short[i].of) /\ b = Log!Max(short[j].of)
    <3>1. Log!Max(short[i].of) \in short[i].of
      BY <1>3, LatestIs
    <3>2. Log!Max(short[j].of) \in short[j].of
      BY <1>3, LatestIs
    <3> QED
      BY <1>3, <3>1, <3>2
  <2>2. i < j \/ j < i
    BY <1>4
  <2>3. a > b \/ b > a
    BY <1>2, <2>1, <2>2 DEF Log!IsMerged
  <2>4. a # b
    BY <2>1, <2>3
  <2> QED
    BY <2>1, <2>4
<1>5. ASSUME NEW i \in 1 .. k, NEW j \in 1 .. k, i # j PROVE short[i].command # short[j].command
  BY <1>3, <1>4, <1>5
<1>6. Apart(short)
  <2>1. ASSUME NEW i \in 1 .. k, NEW j \in 1 .. k, i # j, NEW x \in short[i].of, x \in short[j].of PROVE FALSE
    <3>1. PICK p \in DOMAIN lines : lines[p].command = short[i].command /\ x \in lines[p].of
      <4>1. x \in Log!Under(lines, short[i].command)
        BY <1>3, <2>1
      <4> QED
        BY <4>1, UnderHas
    <3>2. PICK q \in DOMAIN lines : lines[q].command = short[j].command /\ x \in lines[q].of
      <4>1. x \in Log!Under(lines, short[j].command)
        BY <1>3, <2>1
      <4> QED
        BY <4>1, UnderHas
    <3>3. p # q
      BY <1>5, <2>1, <3>1, <3>2
    <3> QED
      BY <3>1, <3>2, <3>3 DEF Apart
  <2> QED
    BY <1>2, <2>1 DEF Apart
<1>7. ASSUME NEW c \in Learned, NEW x \in Log!Under(short, c) PROVE x \in Log!Under(lines, c)
  <2>1. PICK i \in 1 .. k : short[i].command = c /\ x \in short[i].of
    BY <1>2, <1>7, UnderHas
  <2> QED
    BY <1>3, <2>1
<1> QED
  BY <1>2, <1>6, <1>7

(*****************************************************************************)
(* What helpers do to the log.                                               *)
(*****************************************************************************)
LEMMA HistoryConstantsHold == /\ {MostLines, LinesRead} \subseteq Nat \ {0}
                              /\ "torn" \notin Learned /\ 0 \notin Shells
BY ProgramsConstants DEF Log!HistoryConstants

LEMMA CardinalityOfLog == \A S : Log!Cardinality(S) = Cardinality(S)
BY Zenon DEF Log!Cardinality, Cardinality

LEMMA SpoiledCounted ==
  ASSUME LogType
  PROVE  /\ IsFiniteSet(UNION Log!Range(spoiled)) /\ Cardinality(UNION Log!Range(spoiled)) \in Nat
         /\ UNION Log!Range(spoiled) = UNION {spoiled[c] : c \in Learned}
<1>1. /\ records \in Nat /\ spoiled \in [Learned -> SUBSET (1 .. records)]
  BY DEF LogType
<1>2. UNION Log!Range(spoiled) = UNION {spoiled[c] : c \in Learned}
  BY <1>1 DEF Log!Range
<1>3. UNION Log!Range(spoiled) \in SUBSET (1 .. records)
  BY <1>1, <1>2
<1>4. IsFiniteSet(1 .. records)
  BY <1>1, FS_Interval
<1>5. IsFiniteSet(UNION Log!Range(spoiled))
  BY <1>3, <1>4, FS_Subset
<1> QED
  BY <1>2, <1>5, FS_CardinalityType

LEMMA TornIsLast ==
  ASSUME LogType, Log!IsTorn
  PROVE  /\ Len(log) \in Nat \ {0} /\ log[Len(log)].of = {}
         /\ \A c \in Learned : log[Len(log)].command # c
<1>1. log \in Seq(Entry(records)) /\ log # <<>> /\ log[Len(log)].command = "torn" /\ records \in Nat
  BY DEF LogType, Log!IsTorn, Log!Last, Log!Torn
<1>2. Len(log) \in Nat \ {0} /\ Len(log) \in DOMAIN log
  BY <1>1, EmptySeq
<1> QED
  BY <1>1, <1>2, EntryIs, HistoryConstantsHold

LEMMA FrontFits ==
  ASSUME NEW n \in Nat, NEW lines \in Seq(Entry(n)), Apart(lines), Len(lines) # 0, lines[Len(lines)].of = {}
  PROVE  /\ Log!Front(lines) \in Seq(Entry(n)) /\ Apart(Log!Front(lines))
         /\ \A c : Log!Under(Log!Front(lines), c) = Log!Under(lines, c)
<1>1. Len(lines) \in Nat \ {0} /\ Len(lines) - 1 \in 0 .. Len(lines) /\ (Len(lines) - 1) + 1 = Len(lines)
  OBVIOUS
<1>2. PICK k \in 0 .. Len(lines) : k = Len(lines) - 1 /\ k + 1 = Len(lines)
  BY <1>1
<1>3. /\ SubSeq(lines, 1, k) \in Seq(Entry(n)) /\ Apart(SubSeq(lines, 1, k))
      /\ \A c : Log!Under(lines, c) = Log!Under(SubSeq(lines, 1, k), c)
                                      \cup Log!Under(SubSeq(lines, k + 1, Len(lines)), c)
  BY UnderSplit
<1>4. PICK newer : newer = SubSeq(lines, k + 1, Len(lines))
  OBVIOUS
<1>5. ASSUME NEW c PROVE Log!Under(newer, c) = {}
  <2>1. \A i \in Len(lines) .. Len(lines) : lines[i] \in Entry(n)
    BY <1>1
  <2>2. /\ newer \in Seq(Entry(n)) /\ Len(newer) = (IF Len(lines) <= Len(lines) THEN Len(lines) - Len(lines) + 1 ELSE 0)
        /\ \A i \in 1 .. Len(lines) - Len(lines) + 1 : newer[i] = lines[Len(lines) + i - 1]
    BY <1>1, <1>2, <1>4, <2>1, SubSeqProperties
  <2>3. DOMAIN newer = 1 .. 1 /\ newer[1] = lines[Len(lines)]
    BY <1>1, <2>2
  <2>4. \A i \in DOMAIN newer : newer[i].of = {}
    BY <2>3
  <2> QED
    BY <2>4, UnderHas
<1>6. Log!Front(lines) = SubSeq(lines, 1, k)
  BY <1>2 DEF Log!Front
<1>7. ASSUME NEW c PROVE Log!Under(SubSeq(lines, 1, k), c) = Log!Under(lines, c)
  BY <1>3, <1>4, <1>5
<1> QED
  BY <1>3, <1>6, <1>7

\* A line without a record behind others.
LEMMA BlankAppended ==
  ASSUME NEW n \in Nat, NEW lines \in Seq(Entry(n)), Apart(lines), NEW e \in Entry(n), e.of = {}
  PROVE  /\ Append(lines, e) \in Seq(Entry(n)) /\ Apart(Append(lines, e))
         /\ Append(lines, e) # <<>> /\ Append(lines, e)[Len(Append(lines, e))] = e
         /\ \A c : Log!Under(Append(lines, e), c) = Log!Under(lines, c)
<1>1. /\ Append(lines, e) \in Seq(Entry(n)) /\ Append(lines, e) # <<>>
      /\ Len(Append(lines, e)) = Len(lines) + 1 /\ Append(lines, e)[Len(lines) + 1] = e
  BY AppendProperties
<1>2. Apart(Append(lines, e))
  BY ApartAppend
<1>3. ASSUME NEW c PROVE Log!Under(Append(lines, e), c) = Log!Under(lines, c)
  BY UnderBlank
<1> QED
  BY <1>1, <1>2, <1>3

\* A line without a record in the place of a torn one.
LEMMA TornReplaced ==
  ASSUME LogType, Log!IsTorn, Apart(log)
  PROVE  LET lines == Append(Log!Front(log), Log!Line("spoiled", {}))
         IN  /\ lines \in Seq(Entry(records)) /\ Apart(lines)
             /\ \A c : Log!Under(lines, c) = Log!Under(log, c)
             /\ lines # <<>> /\ lines[Len(lines)].command = "spoiled"
<1>1. log \in Seq(Entry(records)) /\ records \in Nat /\ Len(log) # 0 /\ log[Len(log)].of = {}
  BY TornIsLast DEF LogType
<1>2. PICK older : older = Log!Front(log)
  OBVIOUS
<1>3. older \in Seq(Entry(records)) /\ Apart(older) /\ \A c : Log!Under(older, c) = Log!Under(log, c)
  BY <1>1, <1>2, FrontFits
<1>4. PICK e \in Entry(records) : e = Log!Line("spoiled", {}) /\ e.command = "spoiled" /\ e.of = {}
  <2>1. PICK e : e = [command |-> "spoiled", of |-> {}]
    OBVIOUS
  <2>2. e \in Entry(records)
    BY <2>1 DEF Entry
  <2>3. e = Log!Line("spoiled", {}) /\ e.command = "spoiled" /\ e.of = {}
    BY <2>1 DEF Log!Line
  <2> QED
    BY <2>2, <2>3
<1>5. /\ Append(older, e) \in Seq(Entry(records)) /\ Apart(Append(older, e))
      /\ Append(older, e) # <<>> /\ Append(older, e)[Len(Append(older, e))] = e
      /\ \A c : Log!Under(Append(older, e), c) = Log!Under(older, c)
  BY <1>1, <1>3, <1>4, BlankAppended
<1>6. \A c : Log!Under(Append(older, e), c) = Log!Under(log, c)
  BY <1>3, <1>5
<1> QED
  BY <1>2, <1>4, <1>5, <1>6

\* A helper whose record is not in a line yet.
LEMMA AppendKeepsLog ==
  ASSUME HistoryInv, NEW s \in Shells, Log!AppendLine(s)
  PROVE  /\ log' \in Seq(Entry(records)) /\ spoiled' \in [Learned -> SUBSET (1 .. records)]
         /\ Accounted' /\ Apart(log') /\ PaidFor'
<1> DEFINE c == writer[s].command
           r == writer[s].id
<1>1. /\ c \in Learned /\ r \in 1 .. records /\ LogType /\ Accounted /\ Apart(log) /\ PaidFor
      /\ \A d \in Learned : r \notin appended[d]
  BY DEF HistoryInv, UnwrittenFits, Log!AppendLine
<1>2. /\ forgotten' = forgotten /\ kills' = kills /\ appended' = [appended EXCEPT ![c] = @ \cup {r}]
      /\ records \in Nat /\ log \in Seq(Entry(records)) /\ appended \in [Learned -> SUBSET (1 .. records)]
      /\ spoiled \in [Learned -> SUBSET (1 .. records)] /\ kills \in Nat
  BY <1>1 DEF Log!AppendLine, LogType
<1>3. \A d \in Learned : appended'[d] = IF d = c THEN appended[d] \cup {r} ELSE appended[d]
  BY <1>2
<1>4. \A d \in Learned : /\ Log!Under(log, d) \cup spoiled[d] \cup forgotten[d] = appended[d]
                         /\ Log!Under(log, d) \cap (spoiled[d] \cup forgotten[d]) = {}
                         /\ r \notin Log!Under(log, d) /\ r \notin spoiled[d] /\ r \notin forgotten[d]
  <2>1. \A d \in Learned : /\ Log!Under(log, d) \cup spoiled[d] \cup forgotten[d] = appended[d]
                           /\ Log!Under(log, d) \cap (spoiled[d] \cup forgotten[d]) = {}
    BY <1>1 DEF Accounted
  <2> QED
    BY <1>1, <2>1
<1>5. CASE Log!IsTorn
  <2>1. log' = Append(Log!Front(log), Log!Line("spoiled", {})) /\ spoiled' = [spoiled EXCEPT ![c] = @ \cup {r}]
    BY <1>5 DEF Log!AppendLine
  <2>2. /\ log' \in Seq(Entry(records)) /\ Apart(log') /\ \A d \in Learned : Log!Under(log', d) = Log!Under(log, d)
        /\ log' # <<>> /\ log'[Len(log')].command = "spoiled"
    BY <1>1, <1>5, <2>1, TornReplaced
  <2>3. spoiled' \in [Learned -> SUBSET (1 .. records)]
        /\ \A d \in Learned : spoiled'[d] = IF d = c THEN spoiled[d] \cup {r} ELSE spoiled[d]
    BY <1>1, <1>2, <2>1
  <2>4. Accounted'
    <3>1. ASSUME NEW d \in Learned
          PROVE  /\ Log!Under(log', d) \cup spoiled'[d] \cup forgotten'[d] = appended'[d]
                 /\ Log!Under(log', d) \cap (spoiled'[d] \cup forgotten'[d]) = {}
      <4>1. Log!Under(log', d) = Log!Under(log, d) /\ forgotten'[d] = forgotten[d]
        BY <1>2, <2>2
      <4>2. CASE d = c
        <5>1. appended'[d] = appended[d] \cup {r} /\ spoiled'[d] = spoiled[d] \cup {r}
          BY <1>3, <2>3, <4>2
        <5> QED
          <6>1. PICK A, S, F, U : A = appended[d] /\ S = spoiled[d] /\ F = forgotten[d] /\ U = Log!Under(log, d)
            OBVIOUS
          <6>2. U \cup S \cup F = A /\ U \cap (S \cup F) = {} /\ r \notin U
            BY <1>4, <6>1
          <6>3. U \cup (S \cup {r}) \cup F = A \cup {r} /\ U \cap ((S \cup {r}) \cup F) = {}
            BY <6>2
          <6> QED
            BY <4>1, <5>1, <6>1, <6>3
      <4>3. CASE d # c
        <5>1. appended'[d] = appended[d] /\ spoiled'[d] = spoiled[d]
          BY <1>3, <2>3, <4>3
        <5> QED
          BY <1>4, <4>1, <5>1
      <4> QED
        BY <4>2, <4>3
    <3> QED
      BY <3>1 DEF Accounted
  <2>5. PaidFor'
    <3>1. PICK G : G = UNION Log!Range(spoiled)
      OBVIOUS
    <3>2. UNION Log!Range(spoiled') = G \cup {r}
      <4>1. G = UNION {spoiled[d] : d \in Learned}
        BY <1>1, <3>1, SpoiledCounted
      <4>2. UNION Log!Range(spoiled') = UNION {spoiled'[d] : d \in Learned}
        BY <2>3 DEF Log!Range
      <4>3. ASSUME NEW x
            PROVE  x \in UNION {spoiled'[d] : d \in Learned} <=> x \in UNION {spoiled[d] : d \in Learned} \/ x = r
        <5>1. ASSUME NEW d \in Learned, x \in spoiled'[d] PROVE x \in spoiled[d] \/ x = r
          BY <2>3, <5>1
        <5>2. ASSUME NEW d \in Learned, x \in spoiled[d] PROVE x \in spoiled'[d]
          BY <2>3, <5>2
        <5>3. r \in spoiled'[c]
          BY <1>1, <2>3
        <5> QED
          BY <1>1, <5>1, <5>2, <5>3
      <4> QED
        BY <4>1, <4>2, <4>3
    <3>3. IsFiniteSet(G) /\ Cardinality(G) \in Nat /\ Cardinality(G) < kills
      BY <1>1, <1>5, <3>1, SpoiledCounted DEF PaidFor
    <3>4. Cardinality(G \cup {r}) = IF r \in G THEN Cardinality(G) ELSE Cardinality(G) + 1
      BY <3>3, FS_AddElement
    <3>5. PICK n \in Nat : n = Cardinality(G)
      BY <3>3
    <3>6. Cardinality(G \cup {r}) <= kills
      <4>1. n < kills /\ n + 1 <= kills /\ n <= kills
        BY <1>2, <3>3, <3>5
      <4> QED
        BY <3>4, <3>5, <4>1
    <3>7. ~Log!IsTorn'
      BY <2>2, Zenon DEF Log!IsTorn, Log!Last, Log!Torn
    <3> QED
      BY <1>2, <3>2, <3>6, <3>7 DEF PaidFor
  <2> QED
    BY <2>2, <2>3, <2>4, <2>5
<1>6. CASE ~Log!IsTorn
  <2>1. log' = Append(log, Log!Line(c, {r})) /\ spoiled' = spoiled
    BY <1>6 DEF Log!AppendLine
  <2>2. PICK e \in Entry(records) : e = Log!Line(c, {r}) /\ e.command = c /\ e.of = {r}
    <3>1. PICK e : e = [command |-> c, of |-> {r}]
      OBVIOUS
    <3>2. {r} \in SUBSET (1 .. records)
      BY <1>1
    <3>3. e \in Entry(records)
      BY <1>1, <3>1, <3>2 DEF Entry, Counting
    <3>4. e = Log!Line(c, {r}) /\ e.command = c /\ e.of = {r}
      BY <3>1 DEF Log!Line
    <3> QED
      BY <3>3, <3>4
  <2>3. log' = Append(log, e) /\ log' \in Seq(Entry(records)) /\ Len(log') = Len(log) + 1 /\ log'[Len(log) + 1] = e
    BY <1>2, <2>1, <2>2
  <2>4. ASSUME NEW d PROVE Log!Under(log', d) = Log!Under(log, d) \cup (IF c = d THEN {r} ELSE {})
    <3>1. Log!Under(Append(log, e), d) = Log!Under(log, d) \cup (IF e.command = d THEN e.of ELSE {})
      BY <1>2, UnderAppend
    <3> QED
      BY <2>2, <2>3, <3>1
  <2>5. Apart(log')
    <3>1. ASSUME NEW i \in DOMAIN log PROVE r \notin log[i].of
      <4>1. log[i].command \in Learned \/ log[i].of = {}
        BY <1>2, EntryIs
      <4>2. ASSUME log[i].command \in Learned, r \in log[i].of PROVE FALSE
        <5>1. r \in Log!Under(log, log[i].command)
          BY <4>2, UnderHas
        <5> QED
          BY <1>4, <4>2, <5>1
      <4> QED
        BY <4>1, <4>2
    <3>2. \A i \in DOMAIN log : log[i].of \cap e.of = {}
      BY <2>2, <3>1
    <3> QED
      BY <1>1, <1>2, <2>3, <3>2, ApartAppend
  <2>6. Accounted'
    <3>1. ASSUME NEW d \in Learned
          PROVE  /\ Log!Under(log', d) \cup spoiled'[d] \cup forgotten'[d] = appended'[d]
                 /\ Log!Under(log', d) \cap (spoiled'[d] \cup forgotten'[d]) = {}
      <4>1. CASE d = c
        <5>1. Log!Under(log', d) = Log!Under(log, d) \cup {r} /\ appended'[d] = appended[d] \cup {r}
          BY <1>3, <2>4, <4>1
        <5> QED
          <6>1. PICK A, S, F, U : A = appended[d] /\ S = spoiled[d] /\ F = forgotten[d] /\ U = Log!Under(log, d)
            OBVIOUS
          <6>2. U \cup S \cup F = A /\ U \cap (S \cup F) = {} /\ r \notin S /\ r \notin F
            BY <1>4, <6>1
          <6>3. (U \cup {r}) \cup S \cup F = A \cup {r} /\ (U \cup {r}) \cap (S \cup F) = {}
            BY <6>2
          <6>4. spoiled'[d] = S /\ forgotten'[d] = F
            BY <1>2, <2>1, <6>1
          <6> QED
            BY <5>1, <6>1, <6>3, <6>4
      <4>2. CASE d # c
        <5>1. Log!Under(log', d) = Log!Under(log, d) /\ appended'[d] = appended[d]
          BY <1>3, <2>4, <4>2
        <5> QED
          BY <1>2, <1>4, <2>1, <5>1
      <4> QED
        BY <4>1, <4>2
    <3> QED
      BY <3>1 DEF Accounted
  <2>7. PaidFor'
    <3>1. log'[Len(log')] = e
      BY <1>2, <2>3
    <3>2. ~Log!IsTorn'
      BY <1>1, <2>2, <3>1, HistoryConstantsHold, Zenon DEF Log!IsTorn, Log!Last, Log!Torn
    <3>3. Cardinality(UNION Log!Range(spoiled)) <= kills
      BY <1>1 DEF PaidFor
    <3> QED
      BY <1>2, <2>1, <3>2, <3>3 DEF PaidFor
  <2> QED
    BY <1>2, <2>1, <2>3, <2>5, <2>6, <2>7
<1> QED
  BY <1>5, <1>6

(*****************************************************************************)
(* The steps.                                                                *)
(*****************************************************************************)
\* Nothing that the log and the counts say changes.
LEMMA CountsRest ==
  ASSUME UNCHANGED <<log, appended, spoiled, forgotten, kills>>
  PROVE  /\ (Accounted => Accounted') /\ (Apart(log) => Apart(log')) /\ (PaidFor => PaidFor')
BY DEF Accounted, PaidFor, Log!IsTorn, Log!Last

LEMMA BeginKeeps ==
  ASSUME HistoryInv, NEW s \in Shells, NEW c \in Learned, Log!Begin(s, c) PROVE HistoryInv'
<1>1. /\ records' = records + 1 /\ UNCHANGED <<log, lock, kills, appended, spoiled, forgotten>>
      /\ writer' = [writer EXCEPT ![s] = [Log!Resting EXCEPT !.step = "lock", !.command = c, !.id = records']]
      /\ LogType
  BY DEF Log!Begin, HistoryInv
<1>2. records \in Nat /\ records' \in Nat /\ records <= records' /\ records' \in 1 .. records' /\ records' \notin 1 .. records
  BY <1>1 DEF LogType
<1>3. /\ 1 .. records \subseteq 1 .. records' /\ Seq(Counting(records)) \subseteq Seq(Counting(records'))
      /\ Seq(Entry(records)) \subseteq Seq(Entry(records'))
  BY <1>2, EntriesGrow
<1>0. PICK w : w = [Log!Resting EXCEPT !.step = "lock", !.command = c, !.id = records']
  OBVIOUS
<1>w. w \in Recorder(records') /\ w.step = "lock" /\ w.command = c /\ w.id = records'
  <2>1. Log!Resting \in Recorder(records')
    BY <1>2, EmptySeq DEF Log!Resting, Log!Nothing, Log!Torn, Recorder
  <2> QED
    BY <1>0, <1>2, <2>1 DEF Recorder
<1>4. /\ writer' \in [Shells -> Recorder(records')]
      /\ \A t \in Shells : writer'[t] = IF t = s THEN w ELSE writer[t]
  <2>1. writer \in [Shells -> Recorder(records)]
    BY <1>1 DEF LogType
  <2>2. Recorder(records) \subseteq Recorder(records')
    BY <1>3 DEF Recorder
  <2> QED
    BY <1>0, <1>1, <1>w, <2>1, <2>2
<1>5. LogType'
  BY <1>1, <1>2, <1>3, <1>4 DEF LogType
<1>6. ASSUME NEW t \in Shells PROVE UnwrittenFits(t)'
  <2>1. /\ \A d \in Learned : appended[d] \subseteq 1 .. records
        /\ \A u \in Shells : UnwrittenFits(u)
    BY <1>1 DEF HistoryInv, LogType
  <2>2. CASE t = s
    <3>1. writer'[t].step = "lock" /\ writer'[t].command = c /\ writer'[t].id = records'
      BY <1>4, <1>w, <2>2
    <3>2. ASSUME NEW u \in Shells \ {t}, writer'[u].step \in {"lock", "append"} PROVE writer'[u].id # records'
      BY <1>2, <1>4, <2>1, <2>2, <3>2 DEF UnwrittenFits
    <3> QED
      BY <1>1, <1>2, <2>1, <3>1, <3>2 DEF UnwrittenFits
  <2>3. CASE t # s
    <3>1. writer'[t] = writer[t] /\ UnwrittenFits(t)
      BY <1>4, <2>1, <2>3
    <3>2. ASSUME writer[t].step \in {"lock", "append"} PROVE writer[t].id \in 1 .. records /\ writer[t].id # records'
      BY <1>2, <3>1, <3>2 DEF UnwrittenFits
    <3>3. \A u \in Shells \ {t} : /\ u = s => writer'[u].id = records'
                                  /\ u # s => writer'[u] = writer[u]
      BY <1>4, <1>w
    <3> QED
      BY <1>1, <1>3, <3>1, <3>2, <3>3 DEF UnwrittenFits
  <2> QED
    BY <2>2, <2>3
<1>7. ASSUME NEW t \in Shells PROVE HolderFits(t)'
  <2>1. HolderFits(t) /\ (writer'[t] = writer[t] \/ writer'[t].step = "lock")
    BY <1>4, <1>w DEF HistoryInv
  <2> QED
    BY <1>1, <2>1 DEF HolderFits
<1> QED
  BY <1>1, <1>5, <1>6, <1>7, CountsRest DEF HistoryInv

\* A step of one helper that has begun its record, the numbers staying as they are.
LEMMA OneHelper ==
  ASSUME LogType, NEW s \in Shells,
         NEW w \in Recorder(records),
         writer' = [writer EXCEPT ![s] = w]
  PROVE  /\ writer' \in [Shells -> Recorder(records)]
         /\ writer'[s] = w /\ \A t \in Shells \ {s} : writer'[t] = writer[t]
<1>1. writer \in [Shells -> Recorder(records)]
  BY DEF LogType
<1> QED
  BY <1>1

LEMMA RestingIs ==
  ASSUME LogType
  PROVE  /\ Log!Resting \in Recorder(records)
         /\ Log!Resting.step = "rest"
BY EmptySeq DEF Log!Resting, Log!Nothing, Log!Torn, Recorder, LogType

\* A helper whose record is none that is still to be written any more, or the same one.
LEMMA UnwrittenRests ==
  ASSUME HistoryInv, NEW s \in Shells, records' = records, appended' = appended,
         \A t \in Shells \ {s} : writer'[t] = writer[t],
         \/ writer'[s].step \notin {"lock", "append"}
         \/ /\ writer[s].step \in {"lock", "append"}
            /\ writer'[s].id = writer[s].id /\ writer'[s].command = writer[s].command
  PROVE  \A t \in Shells : UnwrittenFits(t)'
<1>1. \A t \in Shells : UnwrittenFits(t)
  BY DEF HistoryInv
<1>2. CASE writer'[s].step \notin {"lock", "append"}
  BY <1>1, <1>2 DEF UnwrittenFits
<1>3. CASE /\ writer[s].step \in {"lock", "append"}
           /\ writer'[s].id = writer[s].id /\ writer'[s].command = writer[s].command
  BY <1>1, <1>3 DEF UnwrittenFits
<1> QED
  BY <1>2, <1>3

LEMMA LockKeeps == ASSUME HistoryInv, NEW s \in Shells, Log!Lock(s) PROVE HistoryInv'
<1>1. /\ writer[s].step = "lock" /\ lock = 0 /\ lock' = s /\ UNCHANGED <<log, records, kills, appended, spoiled, forgotten>>
      /\ writer' = [writer EXCEPT ![s].step = "append"] /\ LogType
  BY DEF Log!Lock, HistoryInv
<1>2. PICK w : w = [writer[s] EXCEPT !.step = "append"]
  OBVIOUS
<1>3. /\ w \in Recorder(records)
      /\ w.step = "append" /\ w.id = writer[s].id /\ w.command = writer[s].command
      /\ writer' = [writer EXCEPT ![s] = w]
  BY <1>1, <1>2 DEF LogType, Recorder
<1>4. LogType' /\ writer'[s] = w /\ \A t \in Shells \ {s} : writer'[t] = writer[t]
  BY <1>1, <1>3, OneHelper DEF LogType
<1>5. \A t \in Shells : UnwrittenFits(t)'
  BY <1>1, <1>3, <1>4, UnwrittenRests
<1>6. ASSUME NEW t \in Shells PROVE HolderFits(t)'
  <2>1. HolderFits(t) /\ t # 0
    BY HistoryConstantsHold DEF HistoryInv
  <2>2. CASE t = s
    BY <1>1, <1>3, <1>4, <2>2 DEF HolderFits
  <2>3. CASE t # s
    <3>1. writer'[t] = writer[t] /\ writer[t].step \notin {"append", "load", "rename"}
      BY <1>1, <1>4, <2>1, <2>3 DEF HolderFits
    <3> QED
      BY <3>1 DEF HolderFits
  <2> QED
    BY <2>2, <2>3
<1> QED
  BY <1>1, <1>4, <1>5, <1>6, CountsRest DEF HistoryInv

LEMMA AppendKeeps == ASSUME HistoryInv, NEW s \in Shells, Log!AppendLine(s) PROVE HistoryInv'
<1> DEFINE c == writer[s].command
           r == writer[s].id
<1>1. /\ writer[s].step = "append" /\ UNCHANGED <<records, kills, forgotten>> /\ LogType
      /\ appended' = [appended EXCEPT ![c] = @ \cup {r}]
      /\ \/ writer' = [writer EXCEPT ![s] = Log!Resting] /\ lock' = 0
         \/ writer' = [writer EXCEPT ![s].step = "load"] /\ UNCHANGED lock /\ ~(Len(log') <= MostLines)
  BY DEF Log!AppendLine, HistoryInv
<1>2. /\ log' \in Seq(Entry(records)) /\ spoiled' \in [Learned -> SUBSET (1 .. records)]
      /\ Accounted' /\ Apart(log') /\ PaidFor'
  BY AppendKeepsLog
<1>3. c \in Learned /\ r \in 1 .. records /\ lock = s
      /\ \A t \in Shells \ {s} : writer[t].step \in {"lock", "append"} => writer[t].id # r
  BY <1>1 DEF HistoryInv, UnwrittenFits, HolderFits
<1>4. /\ appended' \in [Learned -> SUBSET (1 .. records)]
      /\ \A d \in Learned : appended'[d] \subseteq appended[d] \cup {r}
  BY <1>1, <1>3 DEF LogType
<1>5. PICK w : w = IF writer'[s].step = "rest" THEN Log!Resting ELSE [writer[s] EXCEPT !.step = "load"]
  OBVIOUS
<1>6. /\ w \in Recorder(records)
      /\ writer' = [writer EXCEPT ![s] = w]
      /\ w.step = "rest" \/ (w.step = "load" /\ lock' = lock /\ ~(Len(log') <= MostLines))
  <2>1. writer \in [Shells -> Recorder(records)]
    BY <1>1 DEF LogType
  <2>2. CASE writer' = [writer EXCEPT ![s] = Log!Resting]
    <3>1. writer'[s] = Log!Resting
      BY <2>1, <2>2
    <3>2. w = Log!Resting
      BY <1>1, <1>5, <3>1, RestingIs
    <3> QED
      BY <1>1, <2>2, <3>2, RestingIs
  <2>3. CASE writer' = [writer EXCEPT ![s].step = "load"] /\ UNCHANGED lock /\ ~(Len(log') <= MostLines)
    <3>1. writer'[s] = [writer[s] EXCEPT !.step = "load"] /\ writer'[s].step = "load"
      BY <2>1, <2>3
    <3>2. w = [writer[s] EXCEPT !.step = "load"] /\ w.step = "load"
      BY <1>5, <3>1
    <3>3. w \in Recorder(records)
      BY <2>1, <3>2 DEF Recorder
    <3> QED
      BY <2>3, <3>2, <3>3
  <2> QED
    BY <1>1, <2>2, <2>3
<1>7. /\ writer' \in [Shells -> Recorder(records)]
      /\ writer'[s] = w /\ \A t \in Shells \ {s} : writer'[t] = writer[t]
  BY <1>1, <1>6, OneHelper
<1>8. LogType'
  BY <1>1, <1>2, <1>4, <1>7 DEF LogType
<1>9. ASSUME NEW t \in Shells PROVE UnwrittenFits(t)'
  <2>1. CASE t = s
    BY <1>6, <1>7, <2>1 DEF UnwrittenFits
  <2>2. CASE t # s
    <3>1. writer'[t] = writer[t] /\ UnwrittenFits(t)
      BY <1>7, <2>2 DEF HistoryInv
    <3>2. ASSUME writer[t].step \in {"lock", "append"} PROVE \A d \in Learned : writer[t].id \notin appended'[d]
      BY <1>3, <1>4, <2>2, <3>1, <3>2 DEF UnwrittenFits
    <3>3. \A u \in Shells \ {t} : writer'[u].step \in {"lock", "append"} => writer'[u] = writer[u]
      BY <1>6, <1>7
    <3> QED
      BY <1>1, <3>1, <3>2, <3>3 DEF UnwrittenFits
  <2> QED
    BY <2>1, <2>2
<1>10. ASSUME NEW t \in Shells PROVE HolderFits(t)'
  <2>1. CASE t = s
    <3>1. Len(log') \in Nat /\ MostLines \in Nat
      BY <1>2, HistoryConstantsHold
    <3>2. w.step = "load" => Len(log') > MostLines
      BY <1>6, <3>1
    <3> QED
      BY <1>3, <1>6, <1>7, <2>1, <3>2 DEF HolderFits
  <2>2. CASE t # s
    <3>1. writer'[t] = writer[t] /\ writer[t].step \notin {"append", "load", "rename"}
      BY <1>3, <1>7, <2>2 DEF HistoryInv, HolderFits
    <3> QED
      BY <3>1 DEF HolderFits
  <2> QED
    BY <2>1, <2>2
<1> QED
  BY <1>2, <1>8, <1>9, <1>10 DEF HistoryInv

\* The lines that a compaction reads count nothing that the log does not.
LEMMA NewestFits ==
  ASSUME LogType, Apart(log)
  PROVE  /\ Log!Newest \in Seq(Entry(records)) /\ Apart(Log!Newest) /\ records \in Nat
         /\ \A c : Log!Under(Log!Newest, c) \subseteq Log!Under(log, c)
<1>1. /\ log \in Seq(Entry(records)) /\ Len(log) \in Nat /\ records \in Nat
      /\ MostLines \in Nat /\ LinesRead \in Nat
  BY HistoryConstantsHold DEF LogType
<1>2. Log!Window \in {MostLines, LinesRead, Len(log)} /\ Log!Window <= Len(log)
  <2> DEFINE S == {MostLines, LinesRead, Len(log)}
  <2>1. S \in SUBSET Nat /\ S # {} /\ Len(log) \in S
    BY <1>1
  <2>2. PICK least \in S : \A x \in S : least <= x
    BY <2>1, LeastExists
  <2> HIDE DEF S
  <2>3. Log!Min(S) \in S /\ \A x \in S : Log!Min(S) <= x
    BY <2>2, Zenon DEF Log!Min
  <2>4. Log!Window = Log!Min(S)
    BY DEF Log!Window, S
  <2> QED
    BY <2>1, <2>3, <2>4 DEF S
<1>3. PICK k \in 0 .. Len(log) : k = Len(log) - Log!Window
  BY <1>1, <1>2
<1>4. /\ SubSeq(log, k + 1, Len(log)) \in Seq(Entry(records)) /\ Apart(SubSeq(log, k + 1, Len(log)))
      /\ \A c : Log!Under(log, c) = Log!Under(SubSeq(log, 1, k), c)
                                    \cup Log!Under(SubSeq(log, k + 1, Len(log)), c)
  BY <1>1, UnderSplit
<1>5. Log!Newest = SubSeq(log, k + 1, Len(log))
  BY <1>3 DEF Log!Newest
<1> QED
  BY <1>1, <1>4, <1>5

LEMMA LoadKeeps == ASSUME HistoryInv, NEW s \in Shells, Log!Load(s) PROVE HistoryInv'
<1>1. writer[s].step = "load" /\ UNCHANGED <<log, lock, records, kills, appended, spoiled, forgotten>> /\ LogType
      /\ Apart(log) /\ lock = s /\ Len(log) > MostLines
  BY DEF Log!Load, HistoryInv, HolderFits
<1>2. PICK n \in 0 .. MostLines : \E short \in [1 .. n -> Log!Summaries(Log!Newest)] :
        /\ n = 0 \/ Log!IsMerged(short, Log!Newest)
        /\ writer' = [writer EXCEPT ![s].step = "rename", ![s].short = short,
                                     ![s].dropped = [c \in Learned |-> Log!Under(log, c) \ Log!Under(short, c)]]
  BY DEF Log!Load
<1>3. PICK short \in [1 .. n -> Log!Summaries(Log!Newest)] :
        /\ n = 0 \/ Log!IsMerged(short, Log!Newest)
        /\ writer' = [writer EXCEPT ![s].step = "rename", ![s].short = short,
                                     ![s].dropped = [c \in Learned |-> Log!Under(log, c) \ Log!Under(short, c)]]
  BY <1>2
<1>4. /\ Log!Newest \in Seq(Entry(records)) /\ Apart(Log!Newest) /\ records \in Nat /\ n \in Nat
      /\ \A c : Log!Under(Log!Newest, c) \subseteq Log!Under(log, c)
  BY <1>1, NewestFits
<1>5. /\ short \in Seq(Counting(records)) /\ Apart(short)
      /\ \A c \in Learned : Log!Under(short, c) \subseteq Log!Under(log, c)
  <2>1. CASE n = 0
    <3>1. short = <<>> /\ DOMAIN short = {}
      BY <2>1
    <3> QED
      BY <3>1, UnderHas DEF Apart
  <2>2. CASE n # 0
    BY <1>3, <1>4, <2>2, MergedFits
  <2> QED
    BY <2>1, <2>2
<1>6. PICK dropped : dropped = [c \in Learned |-> Log!Under(log, c) \ Log!Under(short, c)]
  OBVIOUS
<1>d. /\ dropped \in [Learned -> SUBSET (1 .. records)]
      /\ \A c \in Learned : /\ Log!Under(log, c) = Log!Under(short, c) \cup dropped[c]
                             /\ Log!Under(short, c) \cap dropped[c] = {}
  <2>1. \A c : Log!Under(log, c) \subseteq 1 .. records
    BY <1>1, <1>4, UnderBounded DEF LogType
  <2> QED
    BY <1>5, <1>6, <2>1
<1>w. PICK w : w = [writer[s] EXCEPT !.step = "rename", !.short = short, !.dropped = dropped]
  OBVIOUS
<1>7. /\ w \in Recorder(records) /\ w.step = "rename" /\ w.short = short /\ w.dropped = dropped
      /\ writer' = [writer EXCEPT ![s] = w]
  <2>1. writer \in [Shells -> Recorder(records)]
    BY <1>1 DEF LogType
  <2>2. w \in Recorder(records) /\ w.step = "rename" /\ w.short = short /\ w.dropped = dropped
    BY <1>5, <1>d, <1>w, <2>1 DEF Recorder
  <2>3. writer' = [writer EXCEPT ![s].step = "rename", ![s].short = short, ![s].dropped = dropped]
    BY <1>3, <1>6, Zenon
  <2> QED
    BY <1>w, <2>1, <2>2, <2>3
<1>8. LogType' /\ writer'[s] = w /\ \A t \in Shells \ {s} : writer'[t] = writer[t]
  BY <1>1, <1>7, OneHelper DEF LogType
<1>9. \A t \in Shells : UnwrittenFits(t)'
  BY <1>1, <1>7, <1>8, UnwrittenRests
<1>11. ASSUME NEW t \in Shells PROVE HolderFits(t)'
  <2>1. CASE t = s
    BY <1>1, <1>5, <1>7, <1>8, <1>d, <2>1 DEF HolderFits
  <2>2. CASE t # s
    <3>1. writer'[t] = writer[t] /\ writer[t].step \notin {"append", "load", "rename"}
      BY <1>1, <1>8, <2>2 DEF HistoryInv, HolderFits
    <3> QED
      BY <3>1 DEF HolderFits
  <2> QED
    BY <2>1, <2>2
<1> QED
  BY <1>1, <1>8, <1>9, <1>11, CountsRest DEF HistoryInv

\* A log in its short form, what is not in it being given up.
LEMMA ShortensLog ==
  ASSUME HistoryInv, NEW s \in Shells, writer[s].step = "rename", log' = writer[s].short,
         forgotten' = [c \in Learned |-> forgotten[c] \cup writer[s].dropped[c]],
         UNCHANGED <<records, kills, appended, spoiled>>
  PROVE  /\ log' \in Seq(Entry(records)) /\ forgotten' \in [Learned -> SUBSET (1 .. records)]
         /\ Accounted' /\ Apart(log') /\ PaidFor'
<1>1. /\ LogType /\ Accounted /\ Apart(log) /\ PaidFor /\ records \in Nat
      /\ writer[s].short \in Seq(Counting(records)) /\ Apart(writer[s].short)
      /\ writer[s].dropped \in [Learned -> SUBSET (1 .. records)]
      /\ \A c \in Learned : /\ Log!Under(log, c) = Log!Under(writer[s].short, c) \cup writer[s].dropped[c]
                             /\ Log!Under(writer[s].short, c) \cap writer[s].dropped[c] = {}
  BY DEF HistoryInv, HolderFits, LogType, Recorder
<1>2. log' \in Seq(Counting(records)) /\ Apart(log') /\ \A c : Log!Under(log', c) = Log!Under(writer[s].short, c)
  BY <1>1
<1>3. log' \in Seq(Entry(records))
  <2>1. Counting(records) \subseteq Entry(records)
    BY DEF Entry
  <2> QED
    BY <1>2, <2>1, SeqMonotonic
<1>5. \A c \in Learned : forgotten'[c] = forgotten[c] \cup writer[s].dropped[c]
  OBVIOUS
<1>6. forgotten' \in [Learned -> SUBSET (1 .. records)]
  <2>1. forgotten \in [Learned -> SUBSET (1 .. records)]
    BY <1>1 DEF LogType
  <2>2. \A c \in Learned : forgotten[c] \cup writer[s].dropped[c] \in SUBSET (1 .. records)
    BY <1>1, <2>1
  <2> QED
    BY <2>2
<1>7. Accounted'
  <2>1. ASSUME NEW c \in Learned
        PROVE  /\ Log!Under(log', c) \cup spoiled'[c] \cup forgotten'[c] = appended'[c]
               /\ Log!Under(log', c) \cap (spoiled'[c] \cup forgotten'[c]) = {}
    <3>1. PICK A, S, F, U, N, O : /\ A = appended[c] /\ S = spoiled[c] /\ F = forgotten[c] /\ U = Log!Under(log, c)
                                  /\ N = Log!Under(writer[s].short, c) /\ O = writer[s].dropped[c]
      OBVIOUS
    <3>2. U \cup S \cup F = A /\ U \cap (S \cup F) = {}
      BY <1>1, <3>1 DEF Accounted
    <3>3. U = N \cup O /\ N \cap O = {}
      BY <1>1, <3>1
    <3>4. N \cup S \cup (F \cup O) = A /\ N \cap (S \cup (F \cup O)) = {}
      BY <3>2, <3>3
    <3>5. Log!Under(log', c) = N /\ spoiled'[c] = S /\ forgotten'[c] = F \cup O /\ appended'[c] = A
      BY <1>2, <1>5, <3>1
    <3> QED
      BY <3>4, <3>5
  <2> QED
    BY <2>1 DEF Accounted
<1>8. PaidFor'
  <2>1. ~Log!IsTorn'
    <3>1. ASSUME log' # <<>> PROVE log'[Len(log')].command \in Learned
      <4>1. Len(log') \in 1 .. Len(log')
        BY <1>2, <3>1, EmptySeq
      <4>2. log'[Len(log')] \in Counting(records)
        BY <1>2, <4>1, ElementOfSeq
      <4> QED
        BY <4>2 DEF Counting
    <3> QED
      BY <3>1, HistoryConstantsHold, Zenon DEF Log!IsTorn, Log!Last, Log!Torn
  <2> QED
    BY <1>1, <2>1 DEF PaidFor
<1> QED
  BY <1>2, <1>3, <1>6, <1>7, <1>8

\* A helper that rests again, or is killed: what others have written and read is as it was.
LEMMA RestKeeps ==
  ASSUME HistoryInv, NEW s \in Shells, writer' = [writer EXCEPT ![s] = Log!Resting], UNCHANGED <<records, appended>>,
         kills' \in Nat, log' \in Seq(Entry(records)), spoiled' = spoiled,
         forgotten' \in [Learned -> SUBSET (1 .. records)], Accounted', Apart(log'), PaidFor',
         \/ lock = s \/ UNCHANGED <<log, lock>>
  PROVE  HistoryInv'
<1>1. LogType
  BY DEF HistoryInv
<1>2. /\ writer' \in [Shells -> Recorder(records)]
      /\ writer'[s] = Log!Resting /\ \A t \in Shells \ {s} : writer'[t] = writer[t]
  BY <1>1, RestingIs, OneHelper
<1>3. LogType'
  BY <1>1, <1>2 DEF LogType
<1>4. \A t \in Shells : UnwrittenFits(t)'
  BY <1>1, <1>2, RestingIs, UnwrittenRests
<1>5. ASSUME NEW t \in Shells PROVE HolderFits(t)'
  <2>1. CASE t = s
    <3>1. writer'[t].step = "rest"
      BY <1>1, <1>2, <2>1, RestingIs
    <3> QED
      BY <3>1 DEF HolderFits
  <2>2. CASE t # s
    <3>1. writer'[t] = writer[t] /\ HolderFits(t)
      BY <1>2, <2>2 DEF HistoryInv
    <3>2. CASE lock = s
      <4>1. writer[t].step \notin {"append", "load", "rename"}
        BY <2>2, <3>1, <3>2 DEF HolderFits
      <4> QED
        BY <3>1, <4>1 DEF HolderFits
    <3>3. CASE UNCHANGED <<log, lock>>
      <4> QED
        BY <3>1, <3>3 DEF HolderFits
    <3> QED
      BY <3>2, <3>3
  <2> QED
    BY <2>1, <2>2
<1> QED
  BY <1>3, <1>4, <1>5 DEF HistoryInv

LEMMA RenameKeeps == ASSUME HistoryInv, NEW s \in Shells, Log!Rename(s) PROVE HistoryInv'
<1>1. /\ writer[s].step = "rename" /\ writer' = [writer EXCEPT ![s] = Log!Resting]
      /\ UNCHANGED <<records, kills, appended, spoiled>> /\ LogType /\ lock = s
  BY DEF Log!Rename, HistoryInv, HolderFits
<1>2. /\ log' \in Seq(Entry(records)) /\ forgotten' \in [Learned -> SUBSET (1 .. records)]
      /\ Accounted' /\ Apart(log') /\ PaidFor'
  <2>1. CASE /\ log' = writer[s].short
             /\ forgotten' = [c \in Learned |-> forgotten[c] \cup writer[s].dropped[c]]
    BY <1>1, <2>1, ShortensLog
  <2>2. CASE UNCHANGED <<log, forgotten>>
    BY <1>1, <2>2, CountsRest DEF HistoryInv, LogType
  <2> QED
    BY <2>1, <2>2 DEF Log!Rename
<1>3. kills' \in Nat
  BY <1>1 DEF LogType
<1> QED
  BY <1>1, <1>2, <1>3, RestKeeps

\* A record that ends in the middle of its line.
LEMMA TornAppended ==
  ASSUME HistoryInv, ~Log!IsTorn, log' = Append(log, Log!Line(Log!Torn, {})), kills' = kills + 1,
         UNCHANGED <<records, appended, spoiled, forgotten>>
  PROVE  log' \in Seq(Entry(records)) /\ Accounted' /\ Apart(log') /\ PaidFor'
<1>1. /\ LogType /\ Accounted /\ Apart(log) /\ PaidFor
      /\ log \in Seq(Entry(records)) /\ records \in Nat /\ kills \in Nat
  BY DEF HistoryInv, LogType
<1>2. PICK e \in Entry(records) : e = Log!Line(Log!Torn, {}) /\ e.of = {}
  <2>1. PICK e : e = [command |-> "torn", of |-> {}]
    OBVIOUS
  <2>2. e \in Entry(records)
    BY <2>1 DEF Entry
  <2>3. e = Log!Line(Log!Torn, {}) /\ e.of = {}
    BY <2>1 DEF Log!Line, Log!Torn
  <2> QED
    BY <2>2, <2>3
<1>3. /\ Append(log, e) \in Seq(Entry(records)) /\ Apart(Append(log, e))
      /\ \A c : Log!Under(Append(log, e), c) = Log!Under(log, c)
  BY <1>1, <1>2, BlankAppended
<1>4. log' \in Seq(Entry(records)) /\ Apart(log') /\ \A c \in Learned : Log!Under(log', c) = Log!Under(log, c)
  BY <1>2, <1>3
<1>5. Accounted'
  BY <1>1, <1>4 DEF Accounted
<1>6. PaidFor'
  <2>1. PICK n \in Nat : n = Cardinality(UNION Log!Range(spoiled)) /\ n <= kills
    BY <1>1, SpoiledCounted DEF PaidFor
  <2>2. n <= kills' /\ n < kills'
    BY <1>1, <2>1
  <2> QED
    BY <2>1, <2>2 DEF PaidFor
<1> QED
  BY <1>4, <1>5, <1>6

LEMMA KillKeeps == ASSUME HistoryInv, NEW s \in Shells, Log!Kill(s) PROVE HistoryInv'
<1>1. /\ kills' = kills + 1 /\ writer' = [writer EXCEPT ![s] = Log!Resting]
      /\ lock' = (IF lock = s THEN 0 ELSE lock)
      /\ UNCHANGED <<records, appended, spoiled, forgotten>> /\ LogType /\ Apart(log) /\ Accounted /\ PaidFor
  BY DEF Log!Kill, HistoryInv
<1>2. kills \in Nat /\ kills' \in Nat /\ log \in Seq(Entry(records)) /\ forgotten' \in [Learned -> SUBSET (1 .. records)]
  BY <1>1 DEF LogType
<1>3. CASE UNCHANGED log
  <2>1. Accounted' /\ Apart(log')
    BY <1>1, <1>3 DEF Accounted
  <2>2. PaidFor'
    <3>1. PICK n \in Nat : n = Cardinality(UNION Log!Range(spoiled)) /\ n <= kills
      BY <1>1, SpoiledCounted DEF PaidFor
    <3>2. n <= kills' /\ n < kills'
      BY <1>1, <1>2, <3>1
    <3> QED
      BY <1>1, <3>1, <3>2 DEF PaidFor
  <2>3. log' \in Seq(Entry(records)) /\ (lock = s \/ UNCHANGED <<log, lock>>)
    BY <1>1, <1>2, <1>3
  <2> QED
    BY <1>1, <1>2, <2>1, <2>2, <2>3, RestKeeps
<1>4. CASE writer[s].step = "append" /\ ~Log!IsTorn /\ log' = Append(log, Log!Line(Log!Torn, {}))
  <2>1. log' \in Seq(Entry(records)) /\ Accounted' /\ Apart(log') /\ PaidFor'
    BY <1>1, <1>4, TornAppended
  <2>2. lock = s
    BY <1>4 DEF HistoryInv, HolderFits
  <2> QED
    BY <1>1, <1>2, <2>1, <2>2, RestKeeps
<1> QED
  BY <1>3, <1>4 DEF Log!Kill

LEMMA HistoryStarts == Log!Init => HistoryInv
<1> SUFFICES ASSUME Log!Init PROVE HistoryInv
  OBVIOUS
<1>1. /\ log = <<>> /\ lock = 0 /\ writer = [s \in Shells |-> Log!Resting] /\ records = 0 /\ kills = 0
      /\ appended = [c \in Learned |-> {}] /\ spoiled = appended /\ forgotten = appended
  BY DEF Log!Init, Log!Nothing
<1>2. LogType
  <2>1. [s \in Shells |-> Log!Resting] \in [Shells -> Recorder(records)]
    BY EmptySeq DEF Log!Resting, Log!Nothing, Log!Torn, Recorder
  <2> QED
    BY <1>1, <2>1, EmptySeq DEF LogType
<1>3. \A s \in Shells : UnwrittenFits(s) /\ HolderFits(s)
  <2>1. \A s \in Shells : writer[s].step = "rest"
    BY <1>1, <1>2, RestingIs
  <2> QED
    BY <2>1 DEF UnwrittenFits, HolderFits
<1>4. \A c \in Learned : Log!Under(log, c) = {}
  BY <1>1, UnderHas
<1>5. Accounted /\ Apart(log)
  BY <1>1, <1>4 DEF Accounted, Apart
<1>6. PaidFor
  <2>1. UNION Log!Range(spoiled) = {}
    BY <1>1 DEF Log!Range
  <2>2. Cardinality(UNION Log!Range(spoiled)) = 0 /\ ~Log!IsTorn
    BY <1>1, <2>1, FS_EmptySet DEF Log!IsTorn
  <2> QED
    BY <1>1, <2>2 DEF PaidFor
<1> QED
  BY <1>2, <1>3, <1>5, <1>6 DEF HistoryInv

LEMMA HistoryKeeps == HistoryInv /\ Log!Next => HistoryInv'
BY BeginKeeps, LockKeeps, AppendKeeps, LoadKeeps, RenameKeeps, KillKeeps DEF Log!Next

LEMMA HistoryThen == HistoryInv => Log!NothingElseIsLost
<1> SUFFICES ASSUME HistoryInv PROVE Log!NothingElseIsLost
  OBVIOUS
<1>1. Accounted /\ Apart(log) /\ Cardinality(UNION Log!Range(spoiled)) <= kills
  BY DEF HistoryInv, PaidFor
<1> QED
  BY <1>1, CardinalityOfLog DEF Log!NothingElseIsLost, Accounted, Apart

LEMMA HistoryRests == HistoryInv /\ UNCHANGED ofLog => HistoryInv'
<1> SUFFICES ASSUME HistoryInv, UNCHANGED ofLog PROVE HistoryInv'
  OBVIOUS
<1>1. UNCHANGED <<log, lock, writer, records, kills, appended, spoiled, forgotten>>
  BY DEF ofLog
<1>2. LogType'
  BY <1>1 DEF HistoryInv, LogType
<1>3. \A s \in Shells : UnwrittenFits(s)' /\ HolderFits(s)'
  BY <1>1, CountsRest DEF HistoryInv, UnwrittenFits, HolderFits
<1> QED
  BY <1>1, <1>2, <1>3, CountsRest DEF HistoryInv

\* While the log of commands is not the program that runs, nothing of it changes.
HistoryBeside == program = "guess history" => HistoryInv

LEMMA HistoryBesideHolds == ProgramSpec => []HistoryBeside
<1>1. ProgramInit => HistoryBeside
  BY HistoryStarts DEF ProgramInit, HistoryBeside
<1>2. HistoryBeside /\ [ProgramNext]_programVars => HistoryBeside'
  <2> SUFFICES ASSUME HistoryBeside, [ProgramNext]_programVars PROVE HistoryBeside'
    OBVIOUS
  <2>1. CASE ProgramNext
    <3>1. program' = program /\ (program = "guess history" => Log!Next)
      BY <2>1 DEF ProgramNext
    <3> QED
      BY <3>1, HistoryKeeps DEF HistoryBeside
  <2>2. CASE UNCHANGED programVars
    <3>1. program' = program /\ UNCHANGED ofLog
      BY <2>2 DEF programVars
    <3> QED
      BY <3>1, HistoryRests DEF HistoryBeside
  <2> QED
    BY <2>1, <2>2
<1> QED
  BY <1>1, <1>2, PTL DEF ProgramSpec

\* However edits, refreshes of the live data, diagnoses and late answers overtake each other, a guess
\* of the engine comes from a snapshot that was current when it was asked for, and the text behind the
\* cursor belongs to the line on the screen unless a diagnosis took its place; the arbiter shows nothing that evidence as strong
\* speaks against, and a live entity only where one is expected; and for any number of shells and
\* kills, any limits of a compaction and wherever reading or renaming the log fails, every record is
\* counted once, but for those behind a torn line and those a compaction had before it and left out.
THEOREM GuessesAlwaysHonest == ProgramSpec => []GuessesAreHonest
<1>1. EngineBeside /\ GhostBeside /\ ArbiterBeside /\ HistoryBeside => GuessesAreHonest
  BY EngineThen, GhostThen, ArbiterThen, HistoryThen DEF EngineBeside, GhostBeside, ArbiterBeside, HistoryBeside,
     GuessesAreHonest, GuessesAreCurrent, GhostBelongsToLine, AnswersAreJustified, NothingElseIsLost
<1> QED
  BY <1>1, EngineBesideHolds, GhostBesideHolds, ArbiterBesideHolds, HistoryBesideHolds, PTL
=============================================================================
