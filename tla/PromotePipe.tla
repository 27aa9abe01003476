----------------------------- MODULE PromotePipe -----------------------------
(***************************************************************************)
(* src/serving/promote_pipe.hpp: workers copy vectors from the device to   *)
(* host staging slots; one search thread submits, polls or waits, scores   *)
(* from a slot and releases it.  The mutex makes each locked block one     *)
(* step; a worker's copy, its store of Done and its notification are       *)
(* outside the mutex and steps of their own.  A sleeper may also wake      *)
(* without a notification, as condition variables allow.                   *)
(***************************************************************************)
EXTENDS Integers, Sequences, FiniteSets, FiniteSetsExt, SequencesExt

CONSTANTS
  W,            \* slots and workers
  Vecs,         \* vectors to stage
  MaxSubmits,   \* bound on submissions
  MaxStarts     \* bound on starts

ASSUME PipeConstants == W \in Nat \ {0} /\ MaxSubmits \in Nat /\ MaxStarts \in Nat

VARIABLES
  state,        \* slot -> "free", "queued", "done"
  id,           \* slot -> vector asked for
  host,         \* slot -> vector its buffer holds
  job_q,
  inflight,
  stop,
  started,
  worker,       \* worker -> "off", "wait", "gone", or the slot and stage it is at
  client,       \* "run", "join"; in wait_done "test", "falling" (has the mutex), "sleep"
  got,          \* slots the client knows to be Done
  submits, starts

stagingVars == <<state, id, host, job_q, inflight, stop, started, worker, client, got, submits, starts>>

Slots == 1 .. W
None == "none"
At(stage, s) == [stage |-> stage, slot |-> s]
Stage(stage) == At(stage, 0)

StagingInit ==
  /\ state = [s \in Slots |-> "free"]
  /\ id = [s \in Slots |-> None] /\ host = [s \in Slots |-> None]
  /\ job_q = <<>> /\ inflight = 0 /\ stop = FALSE /\ started = FALSE
  /\ worker = [w \in Slots |-> Stage("off")]
  /\ client = "run" /\ got = {} /\ submits = 0 /\ starts = 0

start ==
  /\ client = "run" /\ ~started /\ starts < MaxStarts
  /\ started' = TRUE /\ stop' = FALSE /\ starts' = starts + 1
  /\ state' = [s \in Slots |-> "free"] /\ host' = [s \in Slots |-> None]
  /\ job_q' = <<>> /\ inflight' = 0 /\ got' = {}
  /\ worker' = [w \in Slots |-> Stage("wait")]
  /\ UNCHANGED <<id, client, submits>>

FreeSlots == {s \in Slots : state[s] = "free"}

\* The first free slot, unless W are in flight.
try_submit(v) ==
  /\ client = "run" /\ started /\ submits < MaxSubmits
  /\ inflight < W /\ FreeSlots # {}
  /\ LET s == Min(FreeSlots)
     IN  /\ id' = [id EXCEPT ![s] = v]
         /\ state' = [state EXCEPT ![s] = "queued"]
         /\ job_q' = Append(job_q, s)
  /\ inflight' = inflight + 1 /\ submits' = submits + 1
  /\ UNCHANGED <<host, stop, started, worker, client, got, starts>>

Done == {s \in Slots : state[s] = "done"}

poll_done ==
  /\ client = "run"
  /\ got' = Done
  /\ UNCHANGED <<state, id, host, job_q, inflight, stop, started, worker, client, submits, starts>>

wait_done ==
  /\ client = "run"
  /\ client' = "test"
  /\ UNCHANGED <<state, id, host, job_q, inflight, stop, started, worker, got, submits, starts>>

\* A count with nothing behind it is set to 0.
Healed ==
  IF inflight > 0 /\ job_q = <<>> /\ FreeSlots = Slots THEN 0 ELSE inflight

\* The predicate of the wait: return with the slots that are Done, or go to
\* sleep, which gives the mutex back.
WaitTests ==
  /\ client = "test"
  /\ inflight' = IF stop \/ Done # {} THEN inflight ELSE Healed
  /\ IF stop \/ Done # {} \/ inflight' = 0
     THEN client' = "run" /\ got' = Done
     ELSE client' = "falling" /\ UNCHANGED got
  /\ UNCHANGED <<state, id, host, job_q, stop, started, worker, submits, starts>>

FallsAsleep ==
  /\ client = "falling" /\ client' = "sleep"
  /\ UNCHANGED <<state, id, host, job_q, inflight, stop, started, worker, got, submits, starts>>

\* Woken without a notification.
Spurious ==
  /\ client = "sleep" /\ client' = "test"
  /\ UNCHANGED <<state, id, host, job_q, inflight, stop, started, worker, got, submits, starts>>

\* Mutant: the count is left when a slot is released.
release_kept(s) ==
  /\ client = "run" /\ s \in got
  /\ state' = [state EXCEPT ![s] = "free"] /\ id' = [id EXCEPT ![s] = None]
  /\ got' = got \ {s}
  /\ UNCHANGED <<host, job_q, inflight, stop, started, worker, client, submits, starts>>

\* The client releases slots it was told are Done.
release(s) ==
  /\ client = "run" /\ s \in got
  /\ state' = [state EXCEPT ![s] = "free"] /\ id' = [id EXCEPT ![s] = None]
  /\ inflight' = IF state[s] \in {"done", "queued"} /\ inflight > 0 THEN inflight - 1 ELSE inflight
  /\ got' = got \ {s}
  /\ UNCHANGED <<host, job_q, stop, started, worker, client, submits, starts>>

stop_join ==
  /\ client = "run" /\ started
  /\ stop' = TRUE /\ client' = "join"
  /\ UNCHANGED <<state, id, host, job_q, inflight, started, worker, got, submits, starts>>

Joined ==
  /\ client = "join" /\ \A w \in Slots : worker[w] = Stage("gone")
  /\ started' = FALSE /\ client' = "run"
  /\ worker' = [w \in Slots |-> Stage("off")]
  /\ UNCHANGED <<state, id, host, job_q, inflight, stop, got, submits, starts>>

-----------------------------------------------------------------------------
\* Mutant: a worker takes nothing once it was told to stop.
Takes_stopped(w) ==
  /\ client # "falling" /\ worker[w] = Stage("wait") /\ job_q # <<>> /\ ~stop
  /\ worker' = [worker EXCEPT ![w] = At("copy", Head(job_q))] /\ job_q' = Tail(job_q)
  /\ UNCHANGED <<state, id, host, inflight, stop, started, client, got, submits, starts>>

\* The job condition variable is notified under the mutex: a worker waits for
\* its predicate.
Takes(w) ==
  /\ client # "falling" /\ worker[w] = Stage("wait") /\ job_q # <<>>
  /\ worker' = [worker EXCEPT ![w] = At("copy", Head(job_q))] /\ job_q' = Tail(job_q)
  /\ UNCHANGED <<state, id, host, inflight, stop, started, client, got, submits, starts>>

Leaves(w) ==
  /\ client # "falling" /\ worker[w] = Stage("wait") /\ stop /\ job_q = <<>>
  /\ worker' = [worker EXCEPT ![w] = Stage("gone")]
  /\ UNCHANGED <<state, id, host, job_q, inflight, stop, started, client, got, submits, starts>>

Copies(w) ==
  /\ worker[w].stage = "copy"
  /\ LET s == worker[w].slot
     IN  host' = [host EXCEPT ![s] = id[s]] /\ worker' = [worker EXCEPT ![w] = At("store", s)]
  /\ UNCHANGED <<state, id, job_q, inflight, stop, started, client, got, submits, starts>>

Stores(w) ==
  /\ worker[w].stage = "store"
  /\ state' = [state EXCEPT ![worker[w].slot] = "done"]
  /\ worker' = [worker EXCEPT ![w] = Stage("notify")]
  /\ UNCHANGED <<id, host, job_q, inflight, stop, started, client, got, submits, starts>>

\* Neither the store nor the notification takes the mutex: a client that has
\* tested its predicate and is not asleep yet does not hear it.
Notifies(w) ==
  /\ worker[w] = Stage("notify")
  /\ client' = IF client = "sleep" THEN "test" ELSE client
  /\ worker' = [worker EXCEPT ![w] = Stage("wait")]
  /\ UNCHANGED <<state, id, host, job_q, inflight, stop, started, got, submits, starts>>

WorkerSteps(w) == Takes(w) \/ Leaves(w) \/ Copies(w) \/ Stores(w) \/ Notifies(w)

StagingNext ==
  \/ start \/ poll_done \/ wait_done \/ WaitTests \/ FallsAsleep \/ Spurious \/ stop_join \/ Joined
  \/ \E v \in Vecs : try_submit(v)
  \/ \E s \in Slots : release(s)
  \/ \E w \in Slots : WorkerSteps(w)

\* Every thread that can run does.
Fairness ==
  /\ WF_stagingVars(WaitTests) /\ WF_stagingVars(FallsAsleep) /\ WF_stagingVars(Joined)
  /\ \A w \in Slots : WF_stagingVars(WorkerSteps(w))

StagingSpec == StagingInit /\ [][StagingNext]_stagingVars /\ Fairness

-----------------------------------------------------------------------------
Holding(s) == {w \in Slots : worker[w] \in {At("copy", s), At("store", s)}}
Asked(s) == {i \in DOMAIN job_q : job_q[i] = s}

(* The count is the number of slots in use, so the self-heal of wait_done     *)
(* never fires and W submissions always fit; a queued slot is in the queue    *)
(* once or with one worker, no other slot is either, and a slot the client    *)
(* was told of holds the vector it asked for until it is released.            *)
SlotsExact ==
  started =>
    /\ inflight = Cardinality(Slots \ FreeSlots)
    /\ Healed = inflight
    /\ \A s \in Slots :
         Cardinality(Asked(s)) + Cardinality(Holding(s)) = IF state[s] = "queued" THEN 1 ELSE 0
    /\ \A s \in got : state[s] = "done" /\ host[s] = id[s]

(* stop_join ends: its workers empty the queue and leave.                      *)
JoinEnds == (client = "join") ~> (client = "run")
==============================================================================
