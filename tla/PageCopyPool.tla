---------------------------- MODULE PageCopyPool ----------------------------
(***************************************************************************)
(* The copy pool of src/serving/page_copy_pool.hpp: callers append jobs to *)
(* a vector q consumed from q_head on, workers sleep on one condition      *)
(* variable, and stop_join drains what is queued before it returns.        *)
(*                                                                         *)
(* One critical section of mu is one step.  What the code does outside mu  *)
(* (the counter, the notification after the unlock, the job itself, the    *)
(* ready flag, the decrement) is a step of its own.                        *)
(*                                                                         *)
(* A job is numbered when its caller counts it.  submit and submit_fn are  *)
(* a batch of one that notifies one worker; submit_fns notifies all.       *)
(***************************************************************************)
EXTENDS Integers, Sequences, FiniteSets

CONSTANTS
  Workers,     \* the pool's threads
  Callers,     \* search threads that submit
  BatchSizes,  \* sizes of a submit_fns batch
  CompactAt,   \* q_head above which the consumed prefix is erased (1024)
  MaxJobs      \* bound: jobs submitted in all

ASSUME PoolConstants ==
  /\ Workers # {} /\ IsFiniteSet(Workers) /\ IsFiniteSet(Callers)
  /\ BatchSizes \subseteq Nat \ {0}
  /\ CompactAt \in Nat /\ MaxJobs \in Nat

VARIABLES
  q, q_head, inflight, stop,
  worker,   \* worker -> where it is in loop() and the job it holds
  caller,   \* caller -> where it is in submit*/wait_idle and its batch
  owner,    \* the thread that starts and stops the pool
  issued,   \* jobs numbered so far
  ready     \* jobs whose ready flag is set

vars == <<q, q_head, inflight, stop, worker, caller, owner, issued, ready>>

Jobs  == 1 .. MaxJobs
NoJob == 0

At(pc)      == [pc |-> pc, job |-> NoJob]
Holding(pc, j) == [pc |-> pc, job |-> j]
Calling(pc, B, all) == [pc |-> pc, batch |-> B, all |-> all]
IdleCaller  == Calling("idle", <<>>, FALSE)

Init ==
  /\ q = <<>> /\ q_head = 0 /\ inflight = 0 /\ stop = FALSE
  /\ worker = [w \in Workers |-> At("none")]
  /\ caller = [c \in Callers |-> IdleCaller]
  /\ owner = "stopped"
  /\ issued = 0
  /\ ready = {}

-----------------------------------------------------------------------------
(* The owner: start and stop_join.                                         *)

start ==
  /\ owner = "stopped"
  /\ owner' = "up"
  /\ worker' = [w \in Workers |-> At("check")]
  /\ UNCHANGED <<q, q_head, inflight, stop, caller, issued, ready>>

\* The search threads are joined before their pool is stopped, so no caller
\* is inside the pool; jobs may still be queued or running.
BeginStop ==
  /\ owner = "up"
  /\ \A c \in Callers : caller[c].pc = "idle"
  /\ owner' = "notify"
  /\ stop' = TRUE
  /\ UNCHANGED <<q, q_head, inflight, worker, caller, issued, ready>>

\* Every worker asleep on cv becomes runnable.
Woken(ws) == [w \in Workers |-> IF w \in ws THEN At("check") ELSE worker[w]]
Asleep    == {w \in Workers : worker[w].pc = "asleep"}

\* Mutant: stop_join notifies one worker.
StopNotifies_one ==
  /\ owner = "notify"
  /\ owner' = "join"
  /\ IF Asleep = {} THEN UNCHANGED worker ELSE \E w \in Asleep : worker' = Woken({w})
  /\ UNCHANGED <<q, q_head, inflight, stop, caller, issued, ready>>

StopNotifies ==
  /\ owner = "notify"
  /\ owner' = "join"
  /\ worker' = Woken(Asleep)
  /\ UNCHANGED <<q, q_head, inflight, stop, caller, issued, ready>>

StopJoins ==
  /\ owner = "join"
  /\ \A w \in Workers : worker[w].pc = "exit"
  /\ owner' = "stopped"
  /\ worker' = [w \in Workers |-> At("none")]
  /\ q' = <<>> /\ q_head' = 0 /\ inflight' = 0 /\ stop' = FALSE
  /\ UNCHANGED <<caller, issued, ready>>

-----------------------------------------------------------------------------
(* Callers.                                                                *)

\* inflight.fetch_add, before the queue is touched.
Counts(c, n, all) ==
  /\ owner = "up" /\ caller[c].pc = "idle"
  /\ issued + n <= MaxJobs
  /\ issued' = issued + n
  /\ inflight' = inflight + n
  /\ caller' = [caller EXCEPT ![c] = Calling("counted", [i \in 1..n |-> issued + i], all)]
  /\ UNCHANGED <<q, q_head, stop, worker, owner, ready>>

\* Mutant: one entry too many is erased.
compacted_drops == IF q_head > CompactAt /\ q_head * 2 > Len(q)
                   THEN [q |-> SubSeq(q, q_head + 2, Len(q)), head |-> 0]
                   ELSE [q |-> q, head |-> q_head]

\* Mutant: one consumed entry is kept.
compacted_repeats == IF q_head > CompactAt /\ q_head * 2 > Len(q)
                     THEN [q |-> SubSeq(q, q_head, Len(q)), head |-> 0]
                     ELSE [q |-> q, head |-> q_head]

\* compact_locked: erase the consumed prefix once it is long and the majority.
compacted == IF q_head > CompactAt /\ q_head * 2 > Len(q)
             THEN [q |-> SubSeq(q, q_head + 1, Len(q)), head |-> 0]
             ELSE [q |-> q, head |-> q_head]

\* Mutant: the notification comes before the push, which is then silent.
Pushes_silent(c) ==
  /\ caller[c].pc = "counted"
  /\ q' = compacted.q \o caller[c].batch
  /\ q_head' = compacted.head
  /\ caller' = [caller EXCEPT ![c] = IdleCaller]
  /\ UNCHANGED <<inflight, stop, worker, owner, issued, ready>>

Pushes(c) ==
  /\ caller[c].pc = "counted"
  /\ q' = compacted.q \o caller[c].batch
  /\ q_head' = compacted.head
  /\ caller' = [caller EXCEPT ![c] = Calling("pushed", <<>>, caller[c].all)]
  /\ UNCHANGED <<inflight, stop, worker, owner, issued, ready>>

\* cv.notify_one / cv.notify_all, after the unlock.
Notifies(c) ==
  /\ caller[c].pc = "pushed"
  /\ \/ caller[c].all /\ worker' = Woken(Asleep)
     \/ ~caller[c].all /\ Asleep # {} /\ \E w \in Asleep : worker' = Woken({w})
     \/ ~caller[c].all /\ Asleep = {} /\ UNCHANGED worker
  /\ caller' = [caller EXCEPT ![c] = IdleCaller]
  /\ UNCHANGED <<q, q_head, inflight, stop, owner, issued, ready>>

submit(c) == Counts(c, 1, FALSE)
submit_fns(c) == \E n \in BatchSizes : Counts(c, n, TRUE)

\* wait_idle spins on the counter.
BeginWaitIdle(c) ==
  /\ owner = "up" /\ caller[c].pc = "idle"
  /\ caller' = [caller EXCEPT ![c] = Calling("waits", <<>>, FALSE)]
  /\ UNCHANGED <<q, q_head, inflight, stop, worker, owner, issued, ready>>

EndWaitIdle(c) ==
  /\ caller[c].pc = "waits" /\ inflight = 0
  /\ caller' = [caller EXCEPT ![c] = IdleCaller]
  /\ UNCHANGED <<q, q_head, inflight, stop, worker, owner, issued, ready>>

-----------------------------------------------------------------------------
(* Workers: loop().                                                        *)

HasWork == q_head < Len(q)

\* Mutant: the wait has no predicate over the queue.
Sleeps_blind(w) ==
  /\ worker[w].pc = "check" /\ ~stop
  /\ worker' = [worker EXCEPT ![w] = At("asleep")]
  /\ UNCHANGED <<q, q_head, inflight, stop, caller, owner, issued, ready>>

Sleeps(w) ==
  /\ worker[w].pc = "check" /\ ~stop /\ ~HasWork
  /\ worker' = [worker EXCEPT ![w] = At("asleep")]
  /\ UNCHANGED <<q, q_head, inflight, stop, caller, owner, issued, ready>>

\* cv.wait may return without a notification; its predicate is tested again.
WakesSpuriously(w) ==
  /\ worker[w].pc = "asleep"
  /\ worker' = [worker EXCEPT ![w] = At("check")]
  /\ UNCHANGED <<q, q_head, inflight, stop, caller, owner, issued, ready>>

Takes(w) ==
  /\ worker[w].pc = "check" /\ HasWork
  /\ worker' = [worker EXCEPT ![w] = Holding("run", q[q_head + 1])]
  /\ q_head' = q_head + 1
  /\ UNCHANGED <<q, inflight, stop, caller, owner, issued, ready>>

Exits(w) ==
  /\ worker[w].pc = "check" /\ stop /\ ~HasWork
  /\ worker' = [worker EXCEPT ![w] = At("exit")]
  /\ UNCHANGED <<q, q_head, inflight, stop, caller, owner, issued, ready>>

Runs(w) ==
  /\ worker[w].pc = "run"
  /\ worker' = [worker EXCEPT ![w] = Holding("ran", worker[w].job)]
  /\ UNCHANGED <<q, q_head, inflight, stop, caller, owner, issued, ready>>

\* Mutant: the counter drops before the ready flag is stored.
SetsReady_late(w) ==
  /\ worker[w].pc = "ran"
  /\ inflight' = inflight - 1
  /\ worker' = [worker EXCEPT ![w] = Holding("marked", worker[w].job)]
  /\ UNCHANGED <<q, q_head, stop, caller, owner, issued, ready>>

SetsReady(w) ==
  /\ worker[w].pc = "ran"
  /\ ready' = ready \cup {worker[w].job}
  /\ worker' = [worker EXCEPT ![w] = Holding("marked", worker[w].job)]
  /\ UNCHANGED <<q, q_head, inflight, stop, caller, owner, issued>>

Uncounts(w) ==
  /\ worker[w].pc = "marked"
  /\ inflight' = inflight - 1
  /\ worker' = [worker EXCEPT ![w] = At("check")]
  /\ UNCHANGED <<q, q_head, stop, caller, owner, issued, ready>>

loop(w) == Sleeps(w) \/ Takes(w) \/ Exits(w) \/ Runs(w) \/ SetsReady(w) \/ Uncounts(w)

-----------------------------------------------------------------------------
Next ==
  \/ start \/ BeginStop \/ StopNotifies \/ StopJoins
  \/ \E c \in Callers :
        \/ submit(c) \/ submit_fns(c) \/ Pushes(c) \/ Notifies(c)
        \/ BeginWaitIdle(c) \/ EndWaitIdle(c)
  \/ \E w \in Workers : loop(w) \/ WakesSpuriously(w)

\* Threads that can run do run; nobody has to submit, wait or stop, and a
\* sleeping worker wakes only when it is notified.
Fairness ==
  /\ \A w \in Workers : WF_vars(loop(w))
  /\ \A c \in Callers : WF_vars(Pushes(c) \/ Notifies(c))
  /\ WF_vars(StopNotifies \/ StopJoins)

Spec == Init /\ [][Next]_vars /\ Fairness
-----------------------------------------------------------------------------
(* Properties.                                                             *)

RangeOf(s) == {s[i] : i \in 1 .. Len(s)}

Counted  == UNION {RangeOf(caller[c].batch) : c \in Callers}
Queued   == {q[i] : i \in q_head + 1 .. Len(q)}
Held     == {worker[w].job : w \in Workers} \ {NoJob}
Outstanding == Counted \cup Queued \cup Held

\* inflight counts exactly the jobs that are between their caller's counter
\* step and their worker's: it never wraps below zero, whatever the order in
\* which callers push and workers finish.
InflightExact == inflight = Cardinality(Outstanding)

\* The body of a job runs at most once: while a worker is about to run it, or has
\* and not yet set its flag, the job is nobody else's, waits in no queue and no
\* batch and is not ready; and once it is ready nobody runs it again.
RunsOnce ==
  \A w \in Workers : worker[w].pc \in {"run", "ran"} =>
    /\ worker[w].job \notin Counted \cup Queued \cup ready
    /\ \A v \in Workers \ {w} : worker[v].job # worker[w].job

\* When wait_idle returns, or stop_join has, every job submitted so far has
\* its ready flag: the caller may free what the jobs write to.
IdleMeansDone == (inflight = 0 \/ owner = "stopped") => ready = 1 .. issued

\* Queued work is never left to sleeping workers alone: someone is awake or
\* about to notify.
WorkNoticed ==
  HasWork => \/ Asleep # Workers
             \/ \E c \in Callers : caller[c].pc = "pushed"
             \/ owner = "notify"

\* stop_join returns.
StopReturns == owner = "notify" ~> owner = "stopped"

\* The pool is a CopyService: a job is handed over when it is counted, and is
\* finished when its flag is set.
Service == INSTANCE CopyService WITH
             pending <- 1 .. issued \ ready,
             finished <- ready

\* The pool implements CopyService, fairness included: every job submitted is
\* eventually ready.
ImplementsService == Service!Spec
=============================================================================
