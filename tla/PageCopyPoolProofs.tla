------------------------- MODULE PageCopyPoolProofs -------------------------
(***************************************************************************)
(* The safety of the copy pool for any number of workers, callers and      *)
(* jobs, any batch sizes and any compaction threshold: the counter is      *)
(* exact, an idle or stopped pool has finished everything, queued work is  *)
(* noticed, no job runs twice, and every step is a step of CopyService or  *)
(* a stutter.                                                              *)
(***************************************************************************)
EXTENDS PageCopyPool, SequenceTheorems, FiniteSetTheorems, TLAPS

-----------------------------------------------------------------------------
(* The inductive invariant.                                                *)

Busy == {"run", "ran", "marked"}

PoolTypes ==
  /\ q \in Seq(Jobs) /\ q_head \in 0 .. Len(q)
  /\ inflight \in Nat /\ stop \in BOOLEAN
  /\ worker \in [Workers -> [pc : {"none", "check", "asleep", "exit"} \cup Busy, job : 0 .. MaxJobs]]
  /\ caller \in [Callers -> [pc : {"idle", "counted", "pushed", "waits"},
                             batch : Seq(Jobs), all : BOOLEAN]]
  /\ owner \in {"stopped", "up", "notify", "join"}
  /\ issued \in 0 .. MaxJobs
  /\ ready \subseteq 1 .. issued

\* Who can hold jobs: busy workers, and callers between count and push.
Places ==
  /\ \A w \in Workers : worker[w].job # NoJob <=> worker[w].pc \in Busy
  /\ \A c \in Callers : caller[c].pc # "counted" => caller[c].batch = <<>>

\* A job is in one batch, queue entry or worker, and there once.
QueuedOnce == \A i, j \in q_head + 1 .. Len(q) : q[i] = q[j] => i = j
HeldOnce ==
  \A v, w \in Workers : worker[v].job = worker[w].job /\ worker[v].job # NoJob => v = w
CountedOnce ==
  /\ \A c \in Callers : \A i, j \in 1 .. Len(caller[c].batch) :
       caller[c].batch[i] = caller[c].batch[j] => i = j
  /\ \A c, d \in Callers : c # d => RangeOf(caller[c].batch) \cap RangeOf(caller[d].batch) = {}
Apart == Counted \cap Queued = {} /\ Counted \cap Held = {} /\ Queued \cap Held = {}

\* A job is ready or outstanding; both only between its flag and the decrement.
Settled ==
  /\ ready \cup Outstanding = 1 .. issued
  /\ (Counted \cup Queued) \cap ready = {}
  /\ \A w \in Workers : worker[w].pc \in Busy => (worker[w].job \in ready <=> worker[w].pc = "marked")

\* The phases of stop_join: callers have left, workers leave an empty queue.
Phases ==
  /\ stop <=> owner \in {"notify", "join"}
  /\ owner # "up" => \A c \in Callers : caller[c].pc = "idle"
  /\ owner = "stopped" => ~HasWork /\ inflight = 0 /\ \A w \in Workers : worker[w].pc = "none"
  /\ \A w \in Workers : worker[w].pc = "exit" => stop /\ ~HasWork

PoolInv ==
  /\ PoolTypes /\ Places
  /\ QueuedOnce /\ HeldOnce /\ CountedOnce /\ Apart
  /\ Settled /\ Phases
  /\ InflightExact /\ WorkNoticed

-----------------------------------------------------------------------------
(* Facts about the three places of a job.                                  *)

\* The outstanding jobs are among those numbered so far, so there are
\* finitely many of them.
LEMMA OutstandingFinite ==
  ASSUME PoolInv
  PROVE  /\ Outstanding \subseteq 1 .. issued
         /\ IsFiniteSet(Outstanding) /\ Cardinality(Outstanding) \in Nat
<1>1. Outstanding \subseteq 1 .. issued
  BY DEF PoolInv, Settled
<1>2. IsFiniteSet(1 .. issued)
  BY FS_Interval, PoolConstants DEF PoolInv, PoolTypes
<1> QED BY <1>1, <1>2, FS_Subset, FS_CardinalityType

\* A step that moves no job from its place leaves all three sets alone.
LEMMA QuietPlaces ==
  ASSUME PoolInv, UNCHANGED <<q, q_head>>,
         \A w \in Workers : worker'[w].job = worker[w].job,
         \A c \in Callers : caller'[c].batch = caller[c].batch
  PROVE  /\ Counted' = Counted /\ Queued' = Queued /\ Held' = Held
         /\ Outstanding' = Outstanding
         /\ QueuedOnce' /\ HeldOnce' /\ CountedOnce' /\ Apart'
<1>1. Counted' = Counted
  BY DEF Counted, RangeOf
<1>2. Queued' = Queued
  BY DEF Queued
<1>3. Held' = Held
  BY DEF Held
<1>4. Outstanding' = Outstanding /\ Apart'
  BY <1>1, <1>2, <1>3 DEF Outstanding, Apart, PoolInv
<1>5. QueuedOnce' /\ HeldOnce'
  BY DEF QueuedOnce, HeldOnce, PoolInv
<1>6. CountedOnce'
  <2>1. \A c \in Callers : RangeOf(caller'[c].batch) = RangeOf(caller[c].batch)
    OBVIOUS
  <2> QED BY <2>1 DEF CountedOnce, PoolInv
<1> QED BY <1>1, <1>2, <1>3, <1>4, <1>5, <1>6

\* compact_locked erases only consumed entries: what is left to consume is
\* the same, in the same order.
LEMMA CompactKeeps ==
  ASSUME PoolInv
  PROVE  /\ compacted.q \in Seq(Jobs) /\ compacted.head \in 0 .. Len(compacted.q)
         /\ Len(compacted.q) - compacted.head = Len(q) - q_head
         /\ \A i \in 1 .. Len(q) - q_head : compacted.q[compacted.head + i] = q[q_head + i]
<1>1. q \in Seq(Jobs) /\ q_head \in 0 .. Len(q) /\ Len(q) \in Nat
  BY LenProperties DEF PoolInv, PoolTypes
<1>2. CASE ~(q_head > CompactAt /\ q_head * 2 > Len(q))
  <2>1. compacted.q = q /\ compacted.head = q_head
    BY <1>2 DEF compacted
  <2> QED BY <2>1, <1>1
<1>3. CASE q_head > CompactAt /\ q_head * 2 > Len(q)
  <2> DEFINE r == SubSeq(q, q_head + 1, Len(q))
  <2>1. compacted.q = r /\ compacted.head = 0
    BY <1>3 DEF compacted
  <2>2. /\ r \in Seq(Jobs)
        /\ Len(r) = IF q_head + 1 <= Len(q) THEN Len(q) - (q_head + 1) + 1 ELSE 0
        /\ \A i \in 1 .. Len(q) - (q_head + 1) + 1 : r[i] = q[q_head + 1 + i - 1]
    <3>1. \A i \in q_head + 1 .. Len(q) : q[i] \in Jobs
      BY <1>1, ElementOfSeq
    <3>2. q_head + 1 \in Int /\ Len(q) \in Int
      BY <1>1
    <3> QED BY <3>1, <3>2, SubSeqProperties
  <2> HIDE DEF r
  <2>3. Len(r) = Len(q) - q_head
    BY <2>2, <1>1
  <2>4. ASSUME NEW i \in 1 .. Len(q) - q_head PROVE r[0 + i] = q[q_head + i]
    BY <2>2, <1>1
  <2> QED BY <2>1, <2>2, <2>3, <2>4, <1>1
<1> QED BY <1>2, <1>3

-----------------------------------------------------------------------------
(* Steps that move no job.                                                 *)

\* A step that moves no job and changes no count keeps the
\* invariant, if it keeps the parts about positions and sleepers.
LEMMA QuietStep ==
  ASSUME PoolInv, UNCHANGED <<q, q_head, inflight, issued, ready>>,
         \A w \in Workers : worker'[w].job = worker[w].job,
         \A w \in Workers : worker'[w].pc \in Busy =>
           worker[w].pc \in Busy /\ (worker'[w].pc = "marked" <=> worker[w].pc = "marked"),
         \A c \in Callers : caller'[c].batch = caller[c].batch,
         PoolTypes', Places', Phases', WorkNoticed'
  PROVE  PoolInv'
<1>1. /\ Counted' = Counted /\ Queued' = Queued /\ Outstanding' = Outstanding
      /\ QueuedOnce' /\ HeldOnce' /\ CountedOnce' /\ Apart'
  BY QuietPlaces
<1>2. Settled' /\ InflightExact'
  BY <1>1 DEF PoolInv, Settled, InflightExact
<1> QED BY <1>1, <1>2 DEF PoolInv

\* A notification puts sleeping workers back to their test.
LEMMA WokenWorkers ==
  ASSUME PoolInv, NEW ws \in SUBSET Asleep, worker' = Woken(ws)
  PROVE  /\ worker' \in [Workers -> [pc : {"none", "check", "asleep", "exit"} \cup Busy, job : 0 .. MaxJobs]]
         /\ \A w \in Workers : worker'[w].job = worker[w].job
         /\ \A w \in Workers : worker'[w].pc = IF w \in ws THEN "check" ELSE worker[w].pc
         /\ Asleep' = Asleep \ ws
<1>1. \A w \in Workers : worker'[w] = IF w \in ws THEN At("check") ELSE worker[w]
  BY DEF Woken
<1>2. \A w \in ws : w \in Workers /\ worker[w].pc = "asleep" /\ worker[w].job = NoJob
  BY DEF Asleep, PoolInv, Places, Busy
<1>3. At("check").pc = "check" /\ At("check").job = NoJob
      /\ At("check") \in [pc : {"none", "check", "asleep", "exit"} \cup Busy, job : 0 .. MaxJobs]
  BY PoolConstants DEF At, NoJob
<1>4. worker' \in [Workers -> [pc : {"none", "check", "asleep", "exit"} \cup Busy, job : 0 .. MaxJobs]]
  BY <1>3 DEF Woken, PoolInv, PoolTypes
<1> QED BY <1>1, <1>2, <1>3, <1>4 DEF Asleep

\* Starting the workers keeps the invariant.
LEMMA StartStep == PoolInv /\ start => PoolInv'
<1> SUFFICES ASSUME PoolInv, start PROVE PoolInv'
  OBVIOUS
<1>1. \A w \in Workers : worker'[w].pc = "check" /\ worker'[w].job = NoJob /\ worker[w].job = NoJob
  BY DEF start, At, PoolInv, Phases, Places, Busy
<1>2. PoolTypes'
  BY PoolConstants DEF start, At, NoJob, PoolInv, PoolTypes
<1>3. Places' /\ Phases' /\ WorkNoticed'
  BY <1>1 DEF start, PoolInv, Places, Phases, WorkNoticed, Busy, HasWork
<1> QED BY <1>1, <1>2, <1>3, QuietStep DEF start, Busy

\* Setting the stop flag keeps the invariant.
LEMMA BeginStopStep == PoolInv /\ BeginStop => PoolInv'
<1> SUFFICES ASSUME PoolInv, BeginStop PROVE PoolInv'
  OBVIOUS
<1>1. PoolTypes' /\ Places' /\ WorkNoticed'
  BY DEF BeginStop, PoolInv, PoolTypes, Places, WorkNoticed, HasWork, Asleep
<1>2. Phases'
  BY DEF BeginStop, PoolInv, Phases, HasWork, PoolTypes
<1> QED BY <1>1, <1>2, QuietStep DEF BeginStop

\* Waking the workers to stop keeps the invariant.
LEMMA StopNotifiesStep == PoolInv /\ StopNotifies => PoolInv'
<1> SUFFICES ASSUME PoolInv, StopNotifies PROVE PoolInv'
  OBVIOUS
<1>1. /\ worker' \in [Workers -> [pc : {"none", "check", "asleep", "exit"} \cup Busy, job : 0 .. MaxJobs]]
      /\ \A w \in Workers : worker'[w].job = worker[w].job
      /\ \A w \in Workers : worker'[w].pc = IF w \in Asleep THEN "check" ELSE worker[w].pc
      /\ Asleep' = {}
  BY WokenWorkers DEF StopNotifies
<1>2. PoolTypes'
  BY <1>1 DEF StopNotifies, PoolInv, PoolTypes
<1>3. Places' /\ Phases'
  BY <1>1 DEF StopNotifies, PoolInv, Places, Phases, Busy, Asleep, HasWork, PoolTypes
<1>4. WorkNoticed'
  BY <1>1, PoolConstants DEF WorkNoticed
<1> QED BY <1>1, <1>2, <1>3, <1>4, QuietStep DEF StopNotifies, Busy

\* A caller that notifies wakes someone, or finds a worker awake.
LEMMA NotifiesStep ==
  ASSUME PoolInv, NEW c \in Callers, Notifies(c)
  PROVE  PoolInv'
<1>1. PICK ws \in SUBSET Asleep : worker' = Woken(ws) /\ (Asleep # {} => ws # {})
  <2>1. CASE caller[c].all /\ worker' = Woken(Asleep)
    BY <2>1
  <2>2. CASE Asleep # {} /\ \E w \in Asleep : worker' = Woken({w})
    BY <2>2
  <2>3. CASE Asleep = {} /\ UNCHANGED worker
    <3>1. Woken({}) = worker
      BY DEF Woken, PoolInv, PoolTypes
    <3> QED BY <2>3, <3>1
  <2> QED BY <2>1, <2>2, <2>3 DEF Notifies
<1>2. /\ worker' \in [Workers -> [pc : {"none", "check", "asleep", "exit"} \cup Busy, job : 0 .. MaxJobs]]
      /\ \A w \in Workers : worker'[w].job = worker[w].job
      /\ \A w \in Workers : worker'[w].pc = IF w \in ws THEN "check" ELSE worker[w].pc
      /\ Asleep' = Asleep \ ws
  BY <1>1, WokenWorkers
<1>3. /\ caller' \in [Callers -> [pc : {"idle", "counted", "pushed", "waits"},
                                   batch : Seq(Jobs), all : BOOLEAN]]
      /\ caller'[c].pc = "idle" /\ caller'[c].batch = <<>> /\ caller[c].batch = <<>>
      /\ \A d \in Callers \ {c} : caller'[d] = caller[d]
  BY EmptySeq DEF Notifies, IdleCaller, Calling, PoolInv, PoolTypes, Places
<1>4. PoolTypes'
  BY <1>2, <1>3 DEF Notifies, PoolInv, PoolTypes
<1>5. Places'
  BY <1>2, <1>3, ZenonT(60) DEF PoolInv, Places, Busy, Asleep
<1>6. Phases'
  BY <1>2, <1>3 DEF Notifies, PoolInv, Phases, Asleep, HasWork
<1>7. WorkNoticed'
  BY <1>1, <1>2, PoolConstants DEF WorkNoticed, Asleep
<1> QED BY <1>2, <1>3, <1>4, <1>5, <1>6, <1>7, QuietStep DEF Notifies, Busy

\* wait_idle changes only its caller.
LEMMA WaitIdleStep ==
  ASSUME PoolInv, NEW c \in Callers, BeginWaitIdle(c) \/ EndWaitIdle(c)
  PROVE  PoolInv'
<1>1. PICK p \in {"idle", "waits"} : /\ caller' = [caller EXCEPT ![c] = Calling(p, <<>>, FALSE)]
                                     /\ caller[c].pc \in {"idle", "waits"}
                                     /\ p # "idle" => owner = "up"
  BY DEF BeginWaitIdle, EndWaitIdle, IdleCaller
<1>2. /\ caller' \in [Callers -> [pc : {"idle", "counted", "pushed", "waits"},
                                   batch : Seq(Jobs), all : BOOLEAN]]
      /\ caller'[c].pc = p /\ caller'[c].batch = <<>> /\ caller[c].batch = <<>>
      /\ \A d \in Callers \ {c} : caller'[d] = caller[d]
  BY <1>1, EmptySeq DEF Calling, PoolInv, PoolTypes, Places
<1>3. UNCHANGED <<q, q_head, inflight, stop, worker, owner, issued, ready>>
  BY DEF BeginWaitIdle, EndWaitIdle
<1>4. PoolTypes' /\ Places'
  BY <1>2, <1>3 DEF PoolInv, PoolTypes, Places
<1>5. Phases'
  BY <1>1, <1>2, <1>3 DEF PoolInv, Phases, HasWork
<1>6. WorkNoticed'
  BY <1>1, <1>2, <1>3 DEF PoolInv, WorkNoticed, HasWork, Asleep
<1> QED BY <1>2, <1>3, <1>4, <1>5, <1>6, QuietStep

\* A worker that sleeps, wakes, leaves, or has run its job.
LEMMA WorkerQuietStep ==
  ASSUME PoolInv, NEW w \in Workers, Sleeps(w) \/ WakesSpuriously(w) \/ Exits(w) \/ Runs(w)
  PROVE  PoolInv'
<1>1. PICK p \in {"check", "asleep", "exit", "ran"} :
        /\ worker' = [worker EXCEPT ![w] = Holding(p, worker[w].job)]
        /\ p = "ran" <=> worker[w].pc \in Busy
        /\ p = "ran" => worker[w].pc = "run"
        /\ p = "exit" => stop /\ ~HasWork
        /\ p = "asleep" => ~HasWork
        /\ worker[w].pc # "none" /\ worker[w].pc # "exit"
  <2>1. CASE Runs(w)
    BY <2>1 DEF Runs, Busy
  <2>2. CASE Sleeps(w) \/ WakesSpuriously(w) \/ Exits(w)
    <3>1. worker[w].job = NoJob /\ worker[w].pc \notin Busy
      BY <2>2 DEF Sleeps, WakesSpuriously, Exits, PoolInv, Places, Busy
    <3> QED BY <2>2, <3>1 DEF Sleeps, WakesSpuriously, Exits, At, Holding
  <2> QED BY <2>1, <2>2
<1>2. UNCHANGED <<q, q_head, inflight, stop, caller, owner, issued, ready>>
  BY DEF Sleeps, WakesSpuriously, Exits, Runs
<1>3. /\ worker' \in [Workers -> [pc : {"none", "check", "asleep", "exit"} \cup Busy, job : 0 .. MaxJobs]]
      /\ worker'[w].pc = p /\ worker'[w].job = worker[w].job
      /\ \A v \in Workers \ {w} : worker'[v] = worker[v]
  BY <1>1 DEF Holding, PoolInv, PoolTypes, Busy
<1>4. PoolTypes' /\ Places'
  BY <1>1, <1>2, <1>3 DEF PoolInv, PoolTypes, Places, Busy
<1>5. Phases'
  BY <1>1, <1>2, <1>3 DEF PoolInv, Phases, HasWork
<1>6. WorkNoticed'
  BY <1>1, <1>2, <1>3 DEF PoolInv, WorkNoticed, HasWork, Asleep
<1>7. \A v \in Workers : worker'[v].pc \in Busy =>
        worker[v].pc \in Busy /\ (worker'[v].pc = "marked" <=> worker[v].pc = "marked")
  BY <1>1, <1>3 DEF Busy
<1> QED BY <1>2, <1>3, <1>4, <1>5, <1>6, <1>7, QuietStep

\* The ready flag: the job is not ready yet and is held by one worker, so the
\* store settles exactly this job.
LEMMA SetsReadyStep ==
  ASSUME PoolInv, NEW w \in Workers, SetsReady(w)
  PROVE  PoolInv'
<1> DEFINE j == worker[w].job
<1>1. /\ worker' \in [Workers -> [pc : {"none", "check", "asleep", "exit"} \cup Busy, job : 0 .. MaxJobs]]
      /\ worker'[w].pc = "marked" /\ worker'[w].job = j
      /\ \A v \in Workers \ {w} : worker'[v] = worker[v]
  BY DEF SetsReady, Holding, PoolInv, PoolTypes, Busy
<1>2. j # NoJob /\ j \in Held /\ j \in 1 .. issued
  <2>1. j # NoJob /\ j \in Held
    BY DEF SetsReady, PoolInv, Places, Busy, Held
  <2> QED BY <2>1 DEF PoolInv, Settled, Outstanding
<1>3. UNCHANGED <<q, q_head, inflight, stop, caller, owner, issued>> /\ ready' = ready \cup {j}
      /\ worker[w].pc = "ran"
  BY DEF SetsReady
<1>4. PoolTypes' /\ Places'
  BY <1>1, <1>2, <1>3 DEF PoolInv, PoolTypes, Places, Busy
<1>5. Phases'
  BY <1>1, <1>3 DEF PoolInv, Phases, HasWork
<1>6. WorkNoticed'
  BY <1>1, <1>3 DEF PoolInv, WorkNoticed, HasWork, Asleep
<1>7. /\ Counted' = Counted /\ Queued' = Queued /\ Outstanding' = Outstanding
      /\ QueuedOnce' /\ HeldOnce' /\ CountedOnce' /\ Apart'
  BY <1>1, <1>3, QuietPlaces
<1>8. Settled'
  <2>1. \A v \in Workers \ {w} : worker[v].job # j
    BY <1>2 DEF PoolInv, HeldOnce
  <2>2. (Counted \cup Queued) \cap ready' = {}
    BY <1>2, <1>3 DEF PoolInv, Settled, Apart
  <2> QED BY <1>1, <1>2, <1>3, <1>7, <2>1, <2>2 DEF PoolInv, Settled
<1> QED BY <1>3, <1>4, <1>5, <1>6, <1>7, <1>8 DEF PoolInv, InflightExact

-----------------------------------------------------------------------------
(* Steps that move jobs.                                                   *)

\* A worker takes the entry at q_head: it leaves the queue for the worker.
LEMMA TakesStep ==
  ASSUME PoolInv, NEW w \in Workers, Takes(w)
  PROVE  PoolInv'
<1> DEFINE j == q[q_head + 1]
<1>1. q \in Seq(Jobs) /\ Len(q) \in Nat /\ q_head \in Nat /\ q_head < Len(q)
      /\ q_head + 1 \in 1 .. Len(q) /\ j \in Jobs /\ j # NoJob
  <2>1. q \in Seq(Jobs) /\ Len(q) \in Nat /\ q_head \in 0 .. Len(q) /\ q_head < Len(q)
    BY LenProperties DEF Takes, HasWork, PoolInv, PoolTypes
  <2>2. q_head + 1 \in 1 .. Len(q)
    BY <2>1
  <2>3. j \in Jobs
    BY <2>1, <2>2, ElementOfSeq
  <2> QED BY <2>1, <2>2, <2>3, PoolConstants DEF Jobs, NoJob
<1> HIDE DEF j
<1>2. UNCHANGED <<q, inflight, stop, caller, owner, issued, ready>> /\ q_head' = q_head + 1
      /\ worker[w].pc = "check" /\ worker[w].job = NoJob
  BY DEF Takes, PoolInv, Places, Busy
<1>3. /\ worker' \in [Workers -> [pc : {"none", "check", "asleep", "exit"} \cup Busy, job : 0 .. MaxJobs]]
      /\ worker'[w].pc = "run" /\ worker'[w].job = j
      /\ \A v \in Workers \ {w} : worker'[v] = worker[v]
  BY <1>1, PoolConstants DEF Takes, Holding, PoolInv, PoolTypes, Busy, Jobs, j
<1>4. PoolTypes' /\ Places'
  <2>1. q_head' \in 0 .. Len(q')
    BY <1>1, <1>2
  <2> QED BY <1>1, <1>2, <1>3, <2>1 DEF PoolInv, PoolTypes, Places, Busy
<1>5. Queued = Queued' \cup {j} /\ j \notin Queued' /\ QueuedOnce'
  <2>1. q_head + 1 .. Len(q) = (q_head' + 1 .. Len(q')) \cup {q_head + 1}
        /\ q_head + 1 \notin q_head' + 1 .. Len(q')
    BY <1>1, <1>2
  <2>2. QueuedOnce
    BY DEF PoolInv
  <2> QED BY <1>2, <2>1, <2>2 DEF Queued, QueuedOnce, j
<1>6. j \notin Held /\ j \notin Counted
  BY <1>5 DEF PoolInv, Apart
<1>7. Held' = Held \cup {j}
  BY <1>1, <1>2, <1>3 DEF Held
<1>8. Counted' = Counted /\ CountedOnce'
  BY <1>2 DEF Counted, PoolInv, CountedOnce
<1>9. Outstanding' = Outstanding /\ Apart'
  BY <1>5, <1>6, <1>7, <1>8 DEF Outstanding, PoolInv, Apart
<1>10. HeldOnce'
  <2>1. \A v \in Workers : worker[v].job # j
    BY <1>1, <1>6 DEF Held
  <2> QED BY <1>3, <2>1 DEF HeldOnce, PoolInv
<1>11. Settled'
  BY <1>2, <1>3, <1>5, <1>8, <1>9 DEF PoolInv, Settled
<1>12. Phases' /\ WorkNoticed'
  <2>1. HasWork
    BY DEF Takes
  <2>2. Phases'
    BY <1>2, <1>3, <2>1 DEF PoolInv, Phases
  <2>3. WorkNoticed'
    BY <1>3 DEF WorkNoticed, Asleep
  <2> QED BY <2>2, <2>3
<1> QED BY <1>2, <1>4, <1>5, <1>8, <1>9, <1>10, <1>11, <1>12 DEF PoolInv, InflightExact

\* The decrement takes one job, held by this worker alone, off the count.
LEMMA UncountsStep ==
  ASSUME PoolInv, NEW w \in Workers, Uncounts(w)
  PROVE  PoolInv'
<1> DEFINE j == worker[w].job
<1>1. j # NoJob /\ j \in Held
  BY DEF Uncounts, PoolInv, Places, Busy, Held
<1>2. UNCHANGED <<q, q_head, stop, caller, owner, issued, ready>> /\ inflight' = inflight - 1
      /\ worker[w].pc = "marked"
  BY DEF Uncounts
<1>3. /\ worker' \in [Workers -> [pc : {"none", "check", "asleep", "exit"} \cup Busy, job : 0 .. MaxJobs]]
      /\ worker'[w].pc = "check" /\ worker'[w].job = NoJob
      /\ \A v \in Workers \ {w} : worker'[v] = worker[v]
  BY PoolConstants DEF Uncounts, At, PoolInv, PoolTypes, Busy, NoJob
<1>4. Held' = Held \ {j}
  BY <1>1, <1>3 DEF Held, PoolInv, HeldOnce
<1>5. Counted' = Counted /\ Queued' = Queued /\ QueuedOnce' /\ CountedOnce'
  <2>1. Counted' = Counted /\ CountedOnce'
    BY <1>2 DEF Counted, PoolInv, CountedOnce
  <2>2. Queued' = Queued /\ QueuedOnce'
    BY <1>2 DEF Queued, PoolInv, QueuedOnce
  <2> QED BY <2>1, <2>2
<1>6. Outstanding' = Outstanding \ {j} /\ j \in Outstanding /\ Apart'
  BY <1>1, <1>4, <1>5 DEF Outstanding, PoolInv, Apart
<1>7. HeldOnce'
  BY <1>3 DEF HeldOnce, PoolInv
<1>8. Settled'
  <2>1. j \in ready
    BY <1>2 DEF PoolInv, Settled, Busy
  <2> QED BY <1>2, <1>3, <1>5, <1>6, <2>1 DEF PoolInv, Settled, Busy
<1>9. InflightExact' /\ inflight' \in Nat
  <2>1. Cardinality(Outstanding \ {j}) = Cardinality(Outstanding) - 1 /\ IsFiniteSet(Outstanding \ {j})
    BY <1>6, OutstandingFinite, FS_RemoveElement
  <2>2. Cardinality(Outstanding \ {j}) \in Nat
    BY <2>1, FS_CardinalityType
  <2> QED BY <1>2, <1>6, <2>1, <2>2 DEF PoolInv, InflightExact
<1>10. PoolTypes' /\ Places'
  BY <1>2, <1>3, <1>9 DEF PoolInv, PoolTypes, Places, Busy
<1>11. Phases'
  BY <1>2, <1>3 DEF PoolInv, Phases, HasWork
<1>12. WorkNoticed'
  BY <1>3 DEF WorkNoticed, Asleep
<1> QED BY <1>5, <1>6, <1>7, <1>8, <1>9, <1>10, <1>11, <1>12 DEF PoolInv

\* The count comes before the push: the new numbers are above every number
\* given out, so the batch is apart from everything else.
LEMMA CountsStep ==
  ASSUME PoolInv, NEW c \in Callers, NEW n \in Nat \ {0}, NEW all \in BOOLEAN, Counts(c, n, all)
  PROVE  PoolInv'
<1> DEFINE B == [i \in 1 .. n |-> issued + i]
           N == issued + 1 .. issued + n
<1>1. issued \in Nat /\ issued + n \in 0 .. MaxJobs /\ inflight \in Nat
  BY PoolConstants DEF Counts, PoolInv, PoolTypes
<1>2. B \in Seq(Jobs) /\ Len(B) = n /\ \A i \in 1 .. n : B[i] = issued + i
  <2>1. B \in [1 .. n -> Jobs] /\ \A i \in 1 .. n : B[i] = issued + i
    BY <1>1, PoolConstants DEF Jobs
  <2>2. B \in Seq(Jobs)
    BY <2>1, SeqDef
  <2>3. 1 .. Len(B) = 1 .. n /\ Len(B) \in Nat
    BY <2>1, <2>2, LenProperties
  <2> QED BY <2>1, <2>2, <2>3
<1>3. RangeOf(B) = N
  <2>1. RangeOf(B) \subseteq N
    BY <1>1, <1>2 DEF RangeOf
  <2>2. ASSUME NEW k \in N PROVE k \in RangeOf(B)
    <3>1. k - issued \in 1 .. n /\ B[k - issued] = k
      BY <1>1, <1>2
    <3> QED BY <3>1, <1>2 DEF RangeOf
  <2> QED BY <2>1, <2>2
<1> HIDE DEF B
<1>4. UNCHANGED <<q, q_head, stop, worker, owner, ready>> /\ inflight' = inflight + n
      /\ issued' = issued + n /\ owner = "up" /\ caller[c].batch = <<>>
  BY DEF Counts, PoolInv, Places
<1>5. /\ caller' \in [Callers -> [pc : {"idle", "counted", "pushed", "waits"},
                                   batch : Seq(Jobs), all : BOOLEAN]]
      /\ caller'[c].pc = "counted" /\ caller'[c].batch = B /\ caller[c].pc = "idle"
      /\ \A d \in Callers \ {c} : caller'[d] = caller[d]
  BY <1>2 DEF Counts, Calling, PoolInv, PoolTypes, B
<1>6. RangeOf(<<>>) = {}
  BY DEF RangeOf
<1>7. Counted' = Counted \cup N
  <2>1. /\ RangeOf(caller'[c].batch) = N /\ RangeOf(caller[c].batch) = {}
        /\ \A d \in Callers \ {c} : RangeOf(caller'[d].batch) = RangeOf(caller[d].batch)
    BY <1>3, <1>4, <1>5, <1>6
  <2> QED BY <2>1 DEF Counted
<1>8. Queued' = Queued /\ QueuedOnce' /\ Held' = Held /\ HeldOnce'
  BY <1>4 DEF Queued, QueuedOnce, Held, HeldOnce, PoolInv
<1>9. Outstanding \cap N = {} /\ Outstanding' = Outstanding \cup N
  <2>1. Outstanding \subseteq 1 .. issued
    BY OutstandingFinite
  <2> QED BY <1>1, <1>7, <1>8, <2>1 DEF Outstanding
<1>10. Apart'
  BY <1>7, <1>8, <1>9 DEF Outstanding, PoolInv, Apart
<1>11. CountedOnce'
  <2>1. \A d \in Callers : RangeOf(caller[d].batch) \cap N = {}
    BY <1>9 DEF Outstanding, Counted
  <2>2. \A d, e \in Callers : d # e => RangeOf(caller'[d].batch) \cap RangeOf(caller'[e].batch) = {}
    BY <1>3, <1>5, <2>1 DEF PoolInv, CountedOnce
  <2>3. \A i, j \in 1 .. Len(B) : B[i] = B[j] => i = j
    BY <1>1, <1>2
  <2>4. \A d \in Callers : \A i, j \in 1 .. Len(caller'[d].batch) :
          caller'[d].batch[i] = caller'[d].batch[j] => i = j
    BY <1>5, <2>3 DEF PoolInv, CountedOnce
  <2> QED BY <2>2, <2>4 DEF CountedOnce
<1>12. Settled'
  <2>1. ready \cup Outstanding \cup N = 1 .. issued + n
    BY <1>1 DEF PoolInv, Settled
  <2>2. N \cap ready = {}
    BY <1>1 DEF PoolInv, PoolTypes
  <2> QED BY <1>4, <1>7, <1>8, <1>9, <2>1, <2>2 DEF PoolInv, Settled
<1>13. InflightExact'
  <2>1. IsFiniteSet(N) /\ Cardinality(N) = n
    BY <1>1, FS_Interval
  <2>2. Cardinality(Outstanding \cup N) = Cardinality(Outstanding) + Cardinality(N) - Cardinality({})
    BY <1>9, <2>1, OutstandingFinite, FS_Union
  <2> QED BY <1>1, <1>4, <1>9, <2>1, <2>2, FS_EmptySet DEF PoolInv, InflightExact
<1>14. PoolTypes' /\ Places'
  <2>1. ready' \subseteq 1 .. issued' /\ issued' \in 0 .. MaxJobs /\ inflight' \in Nat
    BY <1>1, <1>4 DEF PoolInv, PoolTypes
  <2> QED BY <1>4, <1>5, <2>1 DEF PoolInv, PoolTypes, Places
<1>15. Phases' /\ WorkNoticed'
  BY <1>4, <1>5 DEF PoolInv, Phases, WorkNoticed, HasWork, Asleep
<1> QED BY <1>8, <1>10, <1>11, <1>12, <1>13, <1>14, <1>15 DEF PoolInv

\* The push moves the batch to the end of the queue, after a compaction.
LEMMA PushesStep ==
  ASSUME PoolInv, NEW c \in Callers, Pushes(c)
  PROVE  PoolInv'
<1> DEFINE B == caller[c].batch
           cq == compacted.q
           ch == compacted.head
<1>1. /\ cq \in Seq(Jobs) /\ ch \in 0 .. Len(cq)
      /\ Len(cq) - ch = Len(q) - q_head
      /\ \A i \in 1 .. Len(q) - q_head : cq[ch + i] = q[q_head + i]
  BY CompactKeeps
<1>2. /\ B \in Seq(Jobs) /\ q' = cq \o B /\ q_head' = ch
      /\ UNCHANGED <<inflight, stop, worker, owner, issued, ready>>
      /\ caller[c].pc = "counted" /\ owner = "up"
  BY DEF Pushes, PoolInv, PoolTypes, Phases
<1>3. /\ caller' \in [Callers -> [pc : {"idle", "counted", "pushed", "waits"},
                                   batch : Seq(Jobs), all : BOOLEAN]]
      /\ caller'[c].pc = "pushed" /\ caller'[c].batch = <<>>
      /\ \A d \in Callers \ {c} : caller'[d] = caller[d]
  BY EmptySeq DEF Pushes, Calling, PoolInv, PoolTypes
<1>4. q \in Seq(Jobs) /\ q_head \in 0 .. Len(q) /\ Len(q) \in Nat
      /\ Len(cq) \in Nat /\ Len(B) \in Nat
  BY <1>1, <1>2, LenProperties DEF PoolInv, PoolTypes
<1> DEFINE m == Len(q) - q_head
<1> HIDE DEF B, cq, ch
<1>5. /\ q' \in Seq(Jobs) /\ Len(q') = ch + m + Len(B) /\ m \in Nat /\ ch \in Nat
      /\ \A i \in 1 .. m : q'[ch + i] = q[q_head + i]
      /\ \A i \in 1 .. Len(B) : q'[ch + m + i] = B[i]
  <2>1. /\ q' \in Seq(Jobs) /\ Len(q') = Len(cq) + Len(B)
        /\ \A i \in 1 .. Len(cq) + Len(B) : q'[i] = IF i <= Len(cq) THEN cq[i] ELSE B[i - Len(cq)]
    BY <1>1, <1>2, ConcatProperties
  <2>2. m \in Nat /\ ch \in Nat /\ Len(cq) = ch + m
    BY <1>1, <1>4
  <2>3. ASSUME NEW i \in 1 .. m PROVE q'[ch + i] = q[q_head + i]
    <3>1. ch + i \in 1 .. Len(cq) + Len(B) /\ ch + i <= Len(cq)
      BY <2>2, <1>4
    <3> QED BY <3>1, <2>1, <1>1
  <2>4. ASSUME NEW i \in 1 .. Len(B) PROVE q'[ch + m + i] = B[i]
    <3>1. ch + m + i \in 1 .. Len(cq) + Len(B) /\ ~(ch + m + i <= Len(cq))
          /\ ch + m + i - Len(cq) = i
      BY <2>2, <1>4
    <3>2. q'[ch + m + i] = B[ch + m + i - Len(cq)]
      BY <3>1, <2>1, <2>2, <1>4
    <3> QED BY <3>1, <3>2
  <2> QED BY <2>1, <2>2, <2>3, <2>4
\* Where an entry of the new queue comes from.
<1>6. \A k \in q_head' + 1 .. Len(q') :
        \/ k - ch \in 1 .. m /\ q'[k] = q[q_head + (k - ch)]
        \/ k - ch - m \in 1 .. Len(B) /\ q'[k] = B[k - ch - m]
  <2> SUFFICES ASSUME NEW k \in ch + 1 .. ch + m + Len(B)
               PROVE  \/ k - ch \in 1 .. m /\ q'[k] = q[q_head + (k - ch)]
                      \/ k - ch - m \in 1 .. Len(B) /\ q'[k] = B[k - ch - m]
    BY <1>2, <1>5
  <2>1. CASE k - ch <= m
    <3>1. k - ch \in 1 .. m /\ k = ch + (k - ch)
      BY <2>1, <1>5, <1>4
    <3> QED BY <3>1, <1>5
  <2>2. CASE ~(k - ch <= m)
    <3>1. k - ch - m \in 1 .. Len(B) /\ k = ch + m + (k - ch - m)
      BY <2>2, <1>5, <1>4
    <3> QED BY <3>1, <1>5
  <2> QED BY <2>1, <2>2
<1>7. Queued = {q[q_head + i] : i \in 1 .. m}
  <2>1. ASSUME NEW k \in q_head + 1 .. Len(q) PROVE k - q_head \in 1 .. m /\ q_head + (k - q_head) = k
    BY <1>4
  <2>2. ASSUME NEW i \in 1 .. m PROVE q_head + i \in q_head + 1 .. Len(q)
    BY <1>4
  <2> QED BY <2>1, <2>2 DEF Queued
<1>8. Queued' = Queued \cup RangeOf(B)
  <2>1. Queued' \subseteq Queued \cup RangeOf(B)
    BY <1>6, <1>7 DEF Queued, RangeOf
  <2>2. ASSUME NEW i \in 1 .. m PROVE q[q_head + i] \in Queued'
    <3>1. ch + i \in q_head' + 1 .. Len(q')
      BY <1>2, <1>4, <1>5
    <3> QED BY <3>1, <1>5 DEF Queued
  <2>3. ASSUME NEW i \in 1 .. Len(B) PROVE B[i] \in Queued'
    <3>1. ch + m + i \in q_head' + 1 .. Len(q')
      BY <1>2, <1>4, <1>5
    <3> QED BY <3>1, <1>5 DEF Queued
  <2> QED BY <2>1, <2>2, <2>3, <1>7 DEF RangeOf
<1>9. RangeOf(B) \subseteq Counted
  BY DEF Counted, B
<1>10. QueuedOnce'
  <2>1. \A i, j \in 1 .. m : q[q_head + i] = q[q_head + j] => i = j
    <3> SUFFICES ASSUME NEW i \in 1 .. m, NEW j \in 1 .. m, q[q_head + i] = q[q_head + j] PROVE i = j
      OBVIOUS
    <3>1. q_head + i \in q_head + 1 .. Len(q) /\ q_head + j \in q_head + 1 .. Len(q)
      BY <1>4
    <3>2. q_head + i = q_head + j
      BY <3>1 DEF PoolInv, QueuedOnce
    <3> QED BY <3>2, <1>4
  <2>2. \A i, j \in 1 .. Len(B) : B[i] = B[j] => i = j
    BY DEF PoolInv, CountedOnce, B
  <2>3. \A i \in 1 .. m, j \in 1 .. Len(B) : q[q_head + i] # B[j]
    BY <1>7, <1>9 DEF RangeOf, PoolInv, Apart
  <2> SUFFICES ASSUME NEW k \in q_head' + 1 .. Len(q'), NEW l \in q_head' + 1 .. Len(q'),
                      q'[k] = q'[l]
               PROVE  k = l
    BY DEF QueuedOnce
  <2>4. k \in Int /\ l \in Int /\ ch \in Int /\ m \in Int
    BY <1>2, <1>5
  <2> DEFINE Old(x) == x - ch \in 1 .. m /\ q'[x] = q[q_head + (x - ch)]
             New(x) == x - ch - m \in 1 .. Len(B) /\ q'[x] = B[x - ch - m]
  <2>5. (Old(k) \/ New(k)) /\ (Old(l) \/ New(l))
    BY <1>6
  <2>6. CASE Old(k) /\ Old(l)
    <3>1. k - ch = l - ch
      BY <2>1, <2>6
    <3> QED BY <3>1, <2>4
  <2>7. CASE New(k) /\ New(l)
    <3>1. k - ch - m = l - ch - m
      BY <2>2, <2>7
    <3> QED BY <3>1, <2>4
  <2>8. ~(Old(k) /\ New(l)) /\ ~(New(k) /\ Old(l))
    BY <2>3
  <2> HIDE DEF Old, New
  <2> QED BY <2>5, <2>6, <2>7, <2>8
<1>11. Counted' = Counted \ RangeOf(B) /\ CountedOnce'
  <2>1. RangeOf(<<>>) = {}
    BY DEF RangeOf
  <2>2. /\ RangeOf(caller'[c].batch) = {}
        /\ \A d \in Callers \ {c} : /\ RangeOf(caller'[d].batch) = RangeOf(caller[d].batch)
                                    /\ RangeOf(caller[d].batch) \cap RangeOf(B) = {}
    BY <1>3, <2>1 DEF PoolInv, CountedOnce, B
  <2>3. Counted' = Counted \ RangeOf(B)
    <3> DEFINE R(d) == RangeOf(caller[d].batch)
               S(d) == RangeOf(caller'[d].batch)
    <3>1. R(c) = RangeOf(B) /\ S(c) = {} /\ \A d \in Callers \ {c} : S(d) = R(d) /\ R(d) \cap R(c) = {}
      BY <2>2 DEF B
    <3>2. Counted = UNION {R(d) : d \in Callers} /\ Counted' = UNION {S(d) : d \in Callers}
      BY DEF Counted
    <3> HIDE DEF R, S
    <3> QED BY <3>1, <3>2
  <2>4. \A d, e \in Callers : d # e => RangeOf(caller'[d].batch) \cap RangeOf(caller'[e].batch) = {}
    BY <2>2 DEF PoolInv, CountedOnce
  <2>5. \A d \in Callers : \A i, j \in 1 .. Len(caller'[d].batch) :
          caller'[d].batch[i] = caller'[d].batch[j] => i = j
    BY <1>3, EmptySeq DEF PoolInv, CountedOnce
  <2> QED BY <2>3, <2>4, <2>5 DEF CountedOnce
<1>12. Held' = Held /\ HeldOnce'
  BY <1>2 DEF Held, HeldOnce, PoolInv
<1>13. Outstanding' = Outstanding /\ Apart'
  BY <1>8, <1>9, <1>11, <1>12 DEF Outstanding, PoolInv, Apart
<1>14. Settled'
  BY <1>2, <1>8, <1>9, <1>11, <1>13 DEF PoolInv, Settled
<1>15. PoolTypes' /\ Places'
  <2>1. q_head' \in 0 .. Len(q')
    BY <1>2, <1>4, <1>5
  <2> QED BY <1>2, <1>3, <1>5, <2>1 DEF PoolInv, PoolTypes, Places
<1>16. Phases' /\ WorkNoticed'
  <2>1. \A w \in Workers : worker[w].pc # "exit"
    BY <1>2 DEF PoolInv, Phases
  <2>2. Phases'
    BY <1>2, <2>1 DEF PoolInv, Phases
  <2>3. WorkNoticed'
    BY <1>3 DEF WorkNoticed
  <2> QED BY <2>2, <2>3
<1> QED BY <1>2, <1>10, <1>11, <1>12, <1>13, <1>14, <1>15, <1>16 DEF PoolInv, InflightExact

\* stop_join returns when every worker has left: nothing is queued, held or
\* counted, so the reset of the counter loses no job.
LEMMA StopJoinsStep == PoolInv /\ StopJoins => PoolInv'
<1> SUFFICES ASSUME PoolInv, StopJoins PROVE PoolInv'
  OBVIOUS
<1>1. /\ owner = "join" /\ owner' = "stopped" /\ \A w \in Workers : worker[w].pc = "exit"
      /\ q' = <<>> /\ q_head' = 0 /\ inflight' = 0 /\ stop' = FALSE
      /\ worker' = [w \in Workers |-> At("none")] /\ UNCHANGED <<caller, issued, ready>>
  BY DEF StopJoins
<1>2. ~HasWork /\ \A w \in Workers : worker[w].job = NoJob
  BY <1>1, PoolConstants DEF PoolInv, Phases, Places, Busy
<1>3. \A c \in Callers : caller[c].pc = "idle" /\ caller[c].batch = <<>>
  BY <1>1 DEF PoolInv, Phases, Places
<1>4. \A w \in Workers : worker'[w].pc = "none" /\ worker'[w].job = NoJob
  BY <1>1 DEF At
<1>5. Len(q) \in Nat /\ q_head \in 0 .. Len(q) /\ q' \in Seq(Jobs) /\ Len(q') = 0
  BY <1>1, LenProperties, EmptySeq DEF PoolInv, PoolTypes
<1>6. Queued = {} /\ Queued' = {}
  BY <1>1, <1>2, <1>5 DEF Queued, HasWork
<1>7. Held = {} /\ Held' = {}
  BY <1>2, <1>4 DEF Held
<1>8. Counted = {} /\ Counted' = {}
  <2>1. \A c \in Callers : RangeOf(caller[c].batch) = {} /\ RangeOf(caller'[c].batch) = {}
    BY <1>1, <1>3, EmptySeq DEF RangeOf
  <2> QED BY <2>1 DEF Counted
<1>9. Outstanding = {} /\ Outstanding' = {} /\ Apart'
  BY <1>6, <1>7, <1>8 DEF Outstanding, Apart
<1>10. PoolTypes' /\ Places'
  <2>1. worker' \in [Workers -> [pc : {"none", "check", "asleep", "exit"} \cup Busy, job : 0 .. MaxJobs]]
    BY <1>1, PoolConstants DEF At, NoJob
  <2>2. Places'
    BY <1>1, <1>3, <1>4 DEF Places, Busy
  <2>3. stop' \in BOOLEAN
    BY <1>1
  <2>4. q_head' \in 0 .. Len(q') /\ inflight' \in Nat
    BY <1>1, <1>5
  <2> QED BY <1>1, <1>5, <2>1, <2>2, <2>3, <2>4 DEF PoolInv, PoolTypes
<1>11. QueuedOnce' /\ HeldOnce' /\ CountedOnce'
  <2>1. QueuedOnce'
    BY <1>1, <1>5 DEF QueuedOnce
  <2>2. HeldOnce' /\ CountedOnce'
    BY <1>1, <1>4 DEF HeldOnce, PoolInv, CountedOnce
  <2> QED BY <2>1, <2>2
<1>12. Settled'
  BY <1>1, <1>4, <1>6, <1>8, <1>9 DEF PoolInv, Settled, Busy
<1>13. Phases' /\ WorkNoticed'
  <2>1. ~HasWork'
    BY <1>1, <1>5 DEF HasWork
  <2> QED BY <1>1, <1>3, <1>4, <2>1 DEF Phases, WorkNoticed
<1>14. InflightExact'
  BY <1>1, <1>9, FS_EmptySet DEF InflightExact
<1> QED BY <1>9, <1>10, <1>11, <1>12, <1>13, <1>14 DEF PoolInv

-----------------------------------------------------------------------------
\* The invariant holds of a pool not yet started.
LEMMA PoolInitially == Init => PoolInv
<1> SUFFICES ASSUME Init PROVE PoolInv
  OBVIOUS
<1>1. /\ q = <<>> /\ q_head = 0 /\ inflight = 0 /\ stop = FALSE /\ owner = "stopped"
      /\ issued = 0 /\ ready = {}
      /\ worker = [w \in Workers |-> At("none")] /\ caller = [c \in Callers |-> IdleCaller]
  BY DEF Init
<1>2. \A w \in Workers : worker[w].pc = "none" /\ worker[w].job = NoJob
  BY <1>1 DEF At
<1>3. \A c \in Callers : caller[c].pc = "idle" /\ caller[c].batch = <<>>
  BY <1>1 DEF IdleCaller, Calling
<1>4. q \in Seq(Jobs) /\ <<>> \in Seq(Jobs) /\ Len(q) = 0 /\ Len(<<>>) = 0
  BY <1>1, EmptySeq
<1>5. Queued = {} /\ Held = {}
  BY <1>1, <1>2, <1>4 DEF Queued, Held
<1>6. Counted = {}
  <2>1. \A c \in Callers : RangeOf(caller[c].batch) = {}
    BY <1>3, <1>4 DEF RangeOf
  <2> QED BY <2>1 DEF Counted
<1>7. Outstanding = {} /\ Apart /\ InflightExact
  BY <1>1, <1>5, <1>6, FS_EmptySet DEF Outstanding, Apart, InflightExact
<1>8. PoolTypes /\ Places
  <2>1. worker \in [Workers -> [pc : {"none", "check", "asleep", "exit"} \cup Busy, job : 0 .. MaxJobs]]
    BY <1>1, PoolConstants DEF At, NoJob
  <2>2. caller \in [Callers -> [pc : {"idle", "counted", "pushed", "waits"},
                                batch : Seq(Jobs), all : BOOLEAN]]
    BY <1>1, <1>4 DEF IdleCaller, Calling
  <2>3. Places
    BY <1>2, <1>3 DEF Places, Busy
  <2>4. stop \in BOOLEAN
    BY <1>1
  <2>5. q_head \in 0 .. Len(q) /\ inflight \in Nat /\ issued \in 0 .. MaxJobs /\ ready \subseteq 1 .. issued
    BY <1>1, <1>4, PoolConstants
  <2> QED BY <1>1, <1>4, <2>1, <2>2, <2>3, <2>4, <2>5 DEF PoolTypes
<1>9. QueuedOnce /\ HeldOnce
  BY <1>1, <1>2, <1>4 DEF QueuedOnce, HeldOnce
<1>10. CountedOnce
  <2>1. \A c \in Callers : RangeOf(caller[c].batch) = {}
    BY <1>3, <1>4 DEF RangeOf
  <2> QED BY <1>3, <1>4, <2>1 DEF CountedOnce
<1>11. Settled
  BY <1>1, <1>2, <1>5, <1>6, <1>7 DEF Settled, Busy
<1>12. Phases /\ WorkNoticed
  <2>1. ~HasWork
    BY <1>1, <1>4 DEF HasWork
  <2> QED BY <1>1, <1>2, <1>3, <2>1 DEF Phases, WorkNoticed
<1> QED BY <1>7, <1>8, <1>9, <1>10, <1>11, <1>12 DEF PoolInv

\* A stutter keeps the invariant.
LEMMA PoolStutters == PoolInv /\ UNCHANGED vars => PoolInv'
<1> SUFFICES ASSUME PoolInv, UNCHANGED vars PROVE PoolInv'
  OBVIOUS
<1>1. PoolTypes' /\ Places' /\ Phases' /\ WorkNoticed'
  BY DEF vars, PoolInv, PoolTypes, Places, Phases, WorkNoticed, HasWork, Asleep
<1> QED BY <1>1, QuietStep DEF vars

\* Every step keeps the invariant.
LEMMA PoolPreserved == PoolInv /\ [Next]_vars => PoolInv'
<1> SUFFICES ASSUME PoolInv, [Next]_vars PROVE PoolInv'
  OBVIOUS
<1>1. CASE start \/ BeginStop \/ StopNotifies \/ StopJoins
  BY <1>1, StartStep, BeginStopStep, StopNotifiesStep, StopJoinsStep
<1>2. ASSUME NEW c \in Callers,
             \/ submit(c) \/ submit_fns(c) \/ Pushes(c) \/ Notifies(c)
             \/ BeginWaitIdle(c) \/ EndWaitIdle(c)
      PROVE  PoolInv'
  <2>1. CASE submit(c)
    <3>1. Counts(c, 1, FALSE)
      BY <2>1, Zenon DEF submit
    <3>2. 1 \in Nat \ {0} /\ FALSE \in BOOLEAN
      OBVIOUS
    <3> QED BY <3>1, <3>2, CountsStep, Zenon
  <2>2. CASE submit_fns(c)
    BY <2>2, CountsStep, PoolConstants DEF submit_fns
  <2> QED BY <1>2, <2>1, <2>2, PushesStep, NotifiesStep, WaitIdleStep
<1>3. ASSUME NEW w \in Workers, loop(w) \/ WakesSpuriously(w)
      PROVE  PoolInv'
  BY <1>3, WorkerQuietStep, TakesStep, SetsReadyStep, UncountsStep DEF loop
<1> QED BY <1>1, <1>2, <1>3, PoolStutters DEF Next

-----------------------------------------------------------------------------
(* The theorems.                                                           *)

\* Every reachable state of the pool satisfies the inductive invariant.
THEOREM PoolSafe == Spec => []PoolInv
BY PoolInitially, PoolPreserved, PTL DEF Spec

\* inflight (page_copy_pool.hpp) counts exactly the outstanding jobs, for any
\* number of callers, workers and batch sizes.
THEOREM PoolCounts == Spec => []InflightExact
<1>1. PoolInv => InflightExact
  BY DEF PoolInv
<1> QED BY <1>1, PoolSafe, PTL

\* When wait_idle or stop_join returns, every job submitted has run and its
\* ready flag is set.
THEOREM PoolIdle == Spec => []IdleMeansDone
<1>1. PoolInv => IdleMeansDone
  <2> SUFFICES ASSUME PoolInv, inflight = 0 \/ owner = "stopped" PROVE ready = 1 .. issued
    BY DEF IdleMeansDone
  <2>1. inflight = 0
    BY DEF PoolInv, Phases
  <2>2. Outstanding = {}
    BY <2>1, OutstandingFinite, FS_EmptySet DEF PoolInv, InflightExact
  <2> QED BY <2>2 DEF PoolInv, Settled
<1> QED BY <1>1, PoolSafe, PTL

\* No notification is lost: queued work always has a worker awake, a caller
\* about to notify, or the owner about to.
THEOREM PoolNotices == Spec => []WorkNoticed
<1>1. PoolInv => WorkNoticed
  BY DEF PoolInv
<1> QED BY <1>1, PoolSafe, PTL

\* Every step of the pool is a step of CopyService or leaves its variables alone,
\* so a job is handed over once and its flag set after that; and its body runs at
\* most once.
THEOREM PoolServes == Spec => Service!Safety /\ []RunsOnce
<1> DEFINE pend == 1 .. issued \ ready
<1>1. Init => Service!Init
  <2> SUFFICES ASSUME Init PROVE 1 .. issued \ ready = {} /\ ready = {}
    BY DEF Service!Init
  <2> QED BY DEF Init
<1>2. PoolInv /\ [Next]_vars => [Service!Next]_<<pend, ready>>
  <2> SUFFICES ASSUME PoolInv, [Next]_vars PROVE [Service!Next]_<<pend, ready>>
    OBVIOUS
  <2>1. ASSUME NEW c \in Callers, NEW n \in Nat \ {0}, NEW all, Counts(c, n, all)
        PROVE  Service!Next
    <3> DEFINE N == issued + 1 .. issued + n
    <3>1. issued \in Nat /\ issued' = issued + n /\ ready' = ready /\ issued + n <= MaxJobs
          /\ ready \subseteq 1 .. issued
      BY <2>1, PoolConstants DEF Counts, PoolInv, PoolTypes
    <3>2. N \subseteq Jobs
      BY <3>1, PoolConstants DEF Jobs
    <3>3. N \cap (pend \cup ready) = {} /\ pend' = pend \cup N
      BY <3>1
    <3>4. Service!Submit(N)
      BY <3>1, <3>3 DEF Service!Submit
    <3> HIDE DEF N
    <3> QED BY <3>2, <3>4 DEF Service!Next
  <2>2. ASSUME NEW w \in Workers, SetsReady(w)
        PROVE  Service!Next
    <3> DEFINE j == worker[w].job
    <3>1. j \in 1 .. issued /\ j \notin ready /\ issued \in 0 .. MaxJobs
      <4>1. j \in Held /\ worker[w].pc = "ran"
        BY <2>2 DEF SetsReady, PoolInv, Places, Busy, Held
      <4> QED BY <4>1 DEF PoolInv, PoolTypes, Settled, Outstanding, Busy
    <3>2. issued' = issued /\ ready' = ready \cup {j}
      BY <2>2 DEF SetsReady
    <3>3. j \in pend /\ pend' = pend \ {j} /\ j \in Jobs
      BY <3>1, <3>2, PoolConstants DEF Jobs
    <3>4. Service!Finish(j)
      BY <3>2, <3>3 DEF Service!Finish
    <3> QED BY <3>3, <3>4 DEF Service!Next
  <2>3. CASE UNCHANGED <<issued, ready>>
    BY <2>3
  <2>4. CASE start \/ BeginStop \/ StopNotifies \/ StopJoins \/ UNCHANGED vars
    BY <2>3, <2>4 DEF start, BeginStop, StopNotifies, StopJoins, vars
  <2>5. ASSUME NEW c \in Callers,
               \/ submit(c) \/ submit_fns(c) \/ Pushes(c) \/ Notifies(c)
               \/ BeginWaitIdle(c) \/ EndWaitIdle(c)
        PROVE  [Service!Next]_<<pend, ready>>
    <3>1. CASE submit(c)
      <4>1. Counts(c, 1, FALSE)
        BY <3>1, Zenon DEF submit
      <4>2. 1 \in Nat \ {0}
        OBVIOUS
      <4> QED BY <4>1, <4>2, <2>1, Zenon
    <3>2. CASE submit_fns(c)
      BY <3>2, <2>1, PoolConstants DEF submit_fns
    <3>3. CASE Pushes(c) \/ Notifies(c) \/ BeginWaitIdle(c) \/ EndWaitIdle(c)
      BY <3>3, <2>3 DEF Pushes, Notifies, BeginWaitIdle, EndWaitIdle
    <3> QED BY <2>5, <3>1, <3>2, <3>3
  <2>6. ASSUME NEW w \in Workers, loop(w) \/ WakesSpuriously(w)
        PROVE  [Service!Next]_<<pend, ready>>
    <3>1. CASE SetsReady(w)
      BY <3>1, <2>2
    <3>2. CASE Sleeps(w) \/ Takes(w) \/ Exits(w) \/ Runs(w) \/ Uncounts(w) \/ WakesSpuriously(w)
      BY <3>2, <2>3 DEF Sleeps, Takes, Exits, Runs, Uncounts, WakesSpuriously
    <3> QED BY <2>6, <3>1, <3>2 DEF loop
  <2> QED BY <2>4, <2>5, <2>6 DEF Next
<1>3. PoolInv => RunsOnce
  <2> SUFFICES ASSUME PoolInv, NEW w \in Workers, worker[w].pc \in {"run", "ran"}
               PROVE  /\ worker[w].job \notin Counted \cup Queued \cup ready
                      /\ \A v \in Workers \ {w} : worker[v].job # worker[w].job
    BY DEF RunsOnce
  <2>1. worker[w].job # NoJob /\ worker[w].job \in Held /\ worker[w].job \notin ready
    BY DEF PoolInv, Places, Settled, Held, Busy
  <2>2. worker[w].job \notin Counted \cup Queued
    BY <2>1 DEF PoolInv, Apart
  <2>3. \A v \in Workers \ {w} : worker[v].job # worker[w].job
    BY <2>1 DEF PoolInv, HeldOnce
  <2> QED BY <2>1, <2>2, <2>3
<1> QED BY <1>1, <1>2, <1>3, PoolSafe, PTL DEF Spec, Service!Safety
=============================================================================
