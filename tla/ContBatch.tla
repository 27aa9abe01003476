------------------------------ MODULE ContBatch ------------------------------
(***************************************************************************)
(* The shared scheduler of src/serving/search_beam.cpp (--cont-batch T):   *)
(* W workers take turns on T seats over one pipe and one window.  sched_mu *)
(* guards the seats' states, the hub's mutex the pipe, the window's mutex  *)
(* each lookup; the beam and the ranking run outside sched_mu on a seat    *)
(* marked Busy.                                                            *)
(*                                                                         *)
(* Window scoring only: in the other modes the workers also read the       *)
(* slots of the pipe without the hub's mutex.                              *)
(***************************************************************************)
EXTENDS PqSeats

CONSTANTS
  hub,       \* the one pipe
  Workers

ASSUME ContConstants == Pipes = {hub} /\ \A c \in Configs : c.score = "Window" /\ ~c.flush

VARIABLES
  next_q,    \* next query to admit
  done_n,    \* finished: queries answered
  rr,        \* rotating start of the picks, modulo the number of seats
  sched_mu,  \* holder of the mutex over several steps, or Nobody
  pc         \* worker -> step, its seat, pages left to score, page pointed at

vars == <<opt, pipeVars, seatVars, next_q, done_n, rr, sched_mu, pc>>

Nobody == "nobody"
NoPage == -1
At(step, d) == [at |-> step, seat |-> d, rest |-> {}, ptr |-> NoPage]
Goes(w, p) == pc' = [pc EXCEPT ![w] = p]
MySeat(w) == seat[hub][pc[w].seat]
SetSeat(d, x) == seat' = [seat EXCEPT ![hub][d] = x]

Init ==
  /\ PipeInit /\ SeatInit
  /\ next_q = 0 /\ done_n = 0 /\ rr = 0 /\ sched_mu = Nobody
  /\ pc = [w \in Workers |-> At("pump", 0)]

-----------------------------------------------------------------------------
\* The head of a worker's loop.
PumpsHub(w) ==
  /\ pc[w].at = "pump"
  /\ IF done_n < NQ
     THEN Pumps(hub) /\ Goes(w, At("pick", 0))
     ELSE Goes(w, At("exit", 0)) /\ UNCHANGED pipeVars
  /\ UNCHANGED <<seatVars, next_q, done_n, rr, sched_mu>>

\* admit: queries take the empty seats in order.
Empties == {d \in Seats : seat[hub][d].st = "Empty"}
Rank(d) == Cardinality({e \in Empties : e < d})
Admitted ==
  [d \in Seats |-> IF d \in Empties /\ next_q + Rank(d) < NQ
                   THEN pqq_init(next_q + Rank(d)) ELSE seat[hub][d]]

AdmittedNext == next_q + Min({Cardinality(Empties), NQ - next_q})

\* Every pick advances the counter (a signed int: executions shorter than
\* INT_MAX picks).
NextRr(r) == (r + 1) % Depth
IndexFrom(start, off) == (start + off) % Depth

\* The seat at an offset from rr is ready, or waits and is covered.
Wanted(sl, d, off) ==
  LET x == sl[IndexFrom(rr, off)]
  IN  IF d = "Ready" THEN x.st = "Ready" ELSE x.st = "Wait" /\ coversAll(hub, x.need)

\* pick_pq: the first ready seat from rr on, else the first covered one.
Offsets(sl, d) == {off \in Seats : Wanted(sl, d, off)}
pick_pq(sl) ==
  LET kind == IF Offsets(sl, "Ready") # {} THEN "Ready" ELSE "Wait"
  IN  IF Offsets(sl, kind) = {} THEN -1 ELSE IndexFrom(rr, Min(Offsets(sl, kind)))

\* Admission, pick and the Busy mark, in one critical section.
Picks(w) ==
  /\ pc[w].at = "pick" /\ sched_mu = Nobody
  /\ LET sl == Admitted
         i  == pick_pq(sl)
     IN  IF i = -1
         THEN seat' = [seat EXCEPT ![hub] = sl] /\ Goes(w, At("idle", 0))
         ELSE /\ seat' = [seat EXCEPT ![hub] = [sl EXCEPT ![i].st = "Busy"]]
              /\ Goes(w, At(IF sl[i].need = {} THEN "beam" ELSE "covers", i))
  /\ next_q' = AdmittedNext
  /\ IF AdmittedNext = next_q THEN UNCHANGED resident ELSE Begins(hub)
  /\ rr' = NextRr(rr)
  /\ UNCHANGED <<slot, next_tok, pending, finished, answered, misread, done_n, sched_mu>>

\* Nothing to do: if nothing is in flight either, issue for every waiter.
Idles(w) ==
  /\ pc[w].at = "idle"
  /\ Goes(w, At(IF \A s \in Slots : ~slot[hub][s].active THEN "lock" ELSE "pump", 0))
  /\ UNCHANGED <<pipeVars, seatVars, next_q, done_n, rr, sched_mu>>

LocksIdle(w) ==
  /\ pc[w].at = "lock" /\ sched_mu = Nobody
  /\ sched_mu' = w /\ Goes(w, At("resubmit", 0))
  /\ UNCHANGED <<pipeVars, seatVars, next_q, done_n, rr>>

\* Mutant: nobody issues again for a waiter.
Resubmits_never(w, x) == FALSE

Resubmits(w, x) == x.st = "Wait" /\ x.need # {}

\* One seat of the loop; the token is dropped.
IdleSubmits(w) ==
  /\ pc[w].at = "resubmit"
  /\ LET x == MySeat(w)
     IN  IF Resubmits(w, x) THEN Submits(hub, x.need) \/ Refuses(hub, x.need)
         ELSE UNCHANGED pipeVars
  /\ IF pc[w].seat = Depth - 1
     THEN sched_mu' = Nobody /\ Goes(w, At("pump", 0))
     ELSE Goes(w, At("resubmit", pc[w].seat + 1)) /\ UNCHANGED sched_mu
  /\ UNCHANGED <<seatVars, next_q, done_n, rr>>

-----------------------------------------------------------------------------
(* Work on a Busy seat.                                                    *)

Beams(w) ==
  /\ pc[w].at = "beam"
  /\ \/ Pumps(hub) /\ UNCHANGED <<seat, pc>>
     \/ /\ \E x \in pqq_beam(MySeat(w)) : SetSeat(pc[w].seat, x)
        /\ Goes(w, At("issue", pc[w].seat))
        /\ UNCHANGED pipeVars
  /\ UNCHANGED <<answered, misread, next_q, done_n, rr, sched_mu>>

\* Mutant: the seat is put on Wait although the worker still works on it.
IssuedBusy_waits(x, tok) == pqq_issue(x, tok)

\* pqq_issue keeps a Busy seat Busy.
IssuedBusy(x, tok) == [pqq_issue(x, tok) EXCEPT !.st = "Busy"]

IssuesBusy(w) ==
  /\ pc[w].at = "issue"
  /\ LET x == MySeat(w)
     IN  \/ x.cand # {} /\ Submits(hub, x.cand) /\ SetSeat(pc[w].seat, IssuedBusy(x, next_tok[hub]))
         \/ x.cand # {} /\ Refuses(hub, x.cand) /\ SetSeat(pc[w].seat, IssuedBusy(x, 0))
         \/ x.cand = {} /\ UNCHANGED pipeVars /\ SetSeat(pc[w].seat, IssuedBusy(x, 0))
  /\ Goes(w, At("covers", pc[w].seat))
  /\ UNCHANGED <<answered, misread, next_q, done_n, rr, sched_mu>>

\* pqq_rank: the coverage check, page by page; then a lookup and a read per
\* candidate, the read outside the window's lock.
ChecksCover(w) ==
  /\ pc[w].at = "covers"
  /\ IF coversAll(hub, MySeat(w).need)
     THEN Goes(w, [At("score", pc[w].seat) EXCEPT !.rest = MySeat(w).need])
     ELSE Goes(w, At("park", pc[w].seat))
  /\ UNCHANGED <<pipeVars, seatVars, next_q, done_n, rr, sched_mu>>

LooksUp(w) ==
  /\ pc[w].at = "score" /\ pc[w].ptr = NoPage
  /\ IF pc[w].rest = {}
     THEN Goes(w, At("finish", pc[w].seat))
     ELSE \E p \in pc[w].rest :
            IF covers(hub, p) THEN Goes(w, [pc[w] EXCEPT !.rest = @ \ {p}, !.ptr = p])
            ELSE Goes(w, At("park", pc[w].seat))
  /\ UNCHANGED <<pipeVars, seatVars, next_q, done_n, rr, sched_mu>>

ReadsVector(w) ==
  /\ pc[w].at = "score" /\ pc[w].ptr # NoPage
  /\ misread' = (misread \/ pc[w].ptr \notin resident[hub])
  /\ Goes(w, [pc[w] EXCEPT !.ptr = NoPage])
  /\ UNCHANGED <<pipeVars, seat, answered, next_q, done_n, rr, sched_mu>>

\* finish_slot, under sched_mu.
FinishesSlot(w) ==
  /\ pc[w].at = "finish" /\ sched_mu = Nobody
  /\ answered' = [answered EXCEPT ![MySeat(w).q] = @ + 1]
  /\ done_n' = done_n + 1
  /\ SetSeat(pc[w].seat, EmptySeat)
  /\ Goes(w, At("pump", 0))
  /\ UNCHANGED <<pipeVars, misread, next_q, rr, sched_mu>>

\* Not ranked: Busy goes back to Wait.
Parks(w) ==
  /\ pc[w].at = "park" /\ sched_mu = Nobody
  /\ SetSeat(pc[w].seat, [MySeat(w) EXCEPT !.st = "Wait"])
  /\ Goes(w, At("pump", 0))
  /\ UNCHANGED <<pipeVars, answered, misread, next_q, done_n, rr, sched_mu>>

Steps(w) ==
  /\ UNCHANGED opt
  /\ \/ PumpsHub(w) \/ Picks(w) \/ Idles(w) \/ LocksIdle(w) \/ IdleSubmits(w) \/ Beams(w)
     \/ IssuesBusy(w) \/ ChecksCover(w) \/ LooksUp(w) \/ ReadsVector(w) \/ FinishesSlot(w)
     \/ Parks(w)

PoolRuns ==
  /\ \E j \in pending : Lands(j)
  /\ UNCHANGED <<opt, seatVars, next_q, done_n, rr, sched_mu, pc>>

AllExit == \A w \in Workers : pc[w].at = "exit"
Finished == AllExit /\ pending = {} /\ UNCHANGED vars

Next == (\E w \in Workers : Steps(w)) \/ PoolRuns \/ Finished

\* No worker is kept for ever from a mutex that is free again and again (SF),
\* and the pool completes its jobs.
Fairness == (\A w \in Workers : SF_vars(Steps(w))) /\ WF_vars(PoolRuns)

Spec == Init /\ [][Next]_vars /\ Fairness
-----------------------------------------------------------------------------
(* Properties.                                                             *)

Working == {"beam", "issue", "covers", "score", "finish", "park"}

\* "Keep Busy exclusive": no two workers work on the same seat, and the seat
\* of a working worker is Busy, with a query in it.
BusyExclusive ==
  \A w \in Workers : pc[w].at \in Working =>
    /\ MySeat(w).st = "Busy" /\ MySeat(w).q # NoQuery
    /\ \A v \in Workers \ {w} : pc[v].at \in Working => pc[v].seat # pc[w].seat

\* Every query is answered, once, and every worker leaves its loop, also when
\* a query's pages were already in flight for another.
AllAnswered == <>[](AllExit /\ \A q \in Queries : answered[q] = 1)
==============================================================================
