----------------------------- MODULE Pipe2Sched -----------------------------
(***************************************************************************)
(* The blocking per-thread scheduler of src/serving/search_beam.cpp        *)
(* (--no-steal-sched, pipe_depth of 2 or more).  Each thread has its own   *)
(* pipe, window and seats and answers every T-th query, so threads meet    *)
(* only in the copy pool.  A thread fills its seats first, ranks what is   *)
(* covered, and otherwise waits for a seat in wait_covering.               *)
(***************************************************************************)
EXTENDS PqSeats

ASSUME Pipe2Constants ==
  /\ Pipes = 0 .. Cardinality(Pipes) - 1
  /\ \A c \in Configs : c.threads \in 1 .. Cardinality(Pipes)

VARIABLES
  next_qi,   \* thread -> its next query
  pc         \* thread -> step, seat, nset of wait_covering, miss list of a stalled issue

vars == <<opt, pipeVars, seatVars, next_qi, pc>>

Threads == 0 .. opt.threads - 1
At(step, d) == [at |-> step, seat |-> d, rest |-> {}, miss |-> {}]

Init ==
  /\ PipeInit /\ SeatInit
  /\ next_qi = [t \in Threads |-> t]
  /\ pc = [t \in Threads |-> At("loop", 0)]

Goes(t, p) == pc' = [pc EXCEPT ![t] = p]
MySeat(t) == seat[t][pc[t].seat]

-----------------------------------------------------------------------------
\* Fill an empty seat, else rank a covered one, else wait for the first.
pipe2_decide(x, cov, has_more) ==
  LET empty   == {d \in Seats : has_more /\ x[d].st = "Empty"}
      taken   == {d \in Seats : x[d].st \in {"Wait", "Ready"}}
      covered == {d \in taken : cov[d]}
  IN  IF empty # {} THEN At("Fill", Min(empty))
      ELSE IF covered # {} THEN At("Rank", Min(covered))
      ELSE IF taken # {} THEN [At("wait", Min(taken)) EXCEPT !.rest = x[Min(taken)].need]
      ELSE At("exit", 0)

Decides(t) ==
  /\ pc[t].at = "loop"
  /\ Pumps(t)
  /\ UNCHANGED <<seatVars, next_qi>>
  /\ Goes(t, pipe2_decide(seat[t], [d \in Seats |-> coversAll(t, seat[t][d].need)'],
                          next_qi[t] < NQ))

\* Mutant: the next query, another thread's.
Stride_one == 1

\* A thread's next query is T further on.
Stride == Cardinality(Threads)

Fills(t) ==
  /\ pc[t].at = "Fill"
  /\ next_qi' = [next_qi EXCEPT ![t] = @ + Stride]
  /\ Begins(t)
  /\ seat' = [seat EXCEPT ![t][pc[t].seat] = pqq_init(next_qi[t])]
  /\ Goes(t, At("beam", pc[t].seat))
  /\ UNCHANGED <<slot, next_tok, pending, finished, answered, misread>>

\* The beam pumps every 16 expansions; its end leaves the candidates.
Beams(t) ==
  /\ pc[t].at = "beam"
  /\ \/ Pumps(t) /\ UNCHANGED <<seat, pc>>
     \/ /\ \E x \in pqq_beam(MySeat(t)) : seat' = [seat EXCEPT ![t][pc[t].seat] = x]
        /\ Goes(t, At("submit", pc[t].seat))
        /\ UNCHANGED pipeVars
  /\ UNCHANGED <<answered, misread, next_qi>>

\* pqq_issue with submit_block.  In window mode the issue may wait for a slot;
\* the miss list is the one made before the wait.  A spin in another mode has
\* no step: NeverSpins says that it does not begin.
SubmitIssues(t, x) ==
  /\ x.cand # {} /\ Submits(t, x.cand)
  /\ seat' = [seat EXCEPT ![t][pc[t].seat] = pqq_issue(x, next_tok[t])]
  /\ Goes(t, At("loop", 0))

SubmitNothing(t, x) ==
  /\ ~Stalled(t, x.cand)
  /\ IF x.cand = {} THEN UNCHANGED pipeVars ELSE Refuses(t, x.cand)
  /\ seat' = [seat EXCEPT ![t][pc[t].seat] = pqq_issue(x, 0)]
  /\ Goes(t, At("loop", 0))

SubmitStalls(t, x) ==
  /\ use_window /\ Stalled(t, x.cand) /\ Pumps(t)
  /\ Goes(t, [At("stall", pc[t].seat) EXCEPT !.miss = Missing(slot'[t], resident'[t], x.cand)])
  /\ UNCHANGED seat

SubmitsBlock(t) ==
  /\ pc[t].at = "submit"
  /\ LET x == MySeat(t)
     IN  SubmitIssues(t, x) \/ SubmitNothing(t, x) \/ SubmitStalls(t, x)
  /\ UNCHANGED <<answered, misread, next_qi>>

\* The stalled issue in window mode goes on in the slot it waited for.
Unstalls(t) ==
  /\ pc[t].at = "stall"
  /\ StallEnds(t, StallSlot(slot[t]), pc[t].miss)
  /\ seat' = [seat EXCEPT ![t][pc[t].seat] =
                pqq_issue(MySeat(t), IF next_tok' = next_tok THEN 0 ELSE next_tok[t])]
  /\ Goes(t, At("loop", 0))
  /\ UNCHANGED <<answered, misread, next_qi>>

-----------------------------------------------------------------------------
(* wait_covering: one turn of its loop, after the pump.  A page once       *)
(* covered leaves nset for good.                                           *)

\* Mutant: pages that were let go are not issued again.
Orphans_none(h, rest) == {}

\* Bounce and vmem pages of nset that no slot lists any more.
Orphans(h, rest) == IF use_window THEN {} ELSE rest \ InSlots(slot[h])

\* The pages of nset that are not covered yet.
Left(t) == {p \in pc[t].rest : ~covers(t, p)}

\* No orphans: leave when nset is empty or nothing is in flight.
WaitTurn(t) ==
  /\ Orphans(t, Left(t)) = {}
  /\ Pumps(t)
  /\ LET rest == {p \in pc[t].rest : ~covers(t, p)'}
         idle == \A s \in Slots : ~slot'[t][s].active
     IN  Goes(t, IF rest = {} \/ idle THEN At("loop", 0) ELSE [pc[t] EXCEPT !.rest = rest])
  /\ UNCHANGED seat

WaitReissues(t) ==
  /\ Orphans(t, Left(t)) # {} /\ Submits(t, Orphans(t, Left(t)))
  /\ seat' = [seat EXCEPT ![t][pc[t].seat].toks = @ \cup {next_tok[t]}]
  /\ Goes(t, [pc[t] EXCEPT !.rest = Left(t)])

\* The steps of a seat in wait_covering.
WaitsCovering(t) ==
  /\ pc[t].at = "wait"
  /\ WaitTurn(t) \/ WaitReissues(t)
  /\ UNCHANGED <<answered, misread, next_qi>>

\* Rank and finish_local.  Between the decision and the ranking the thread
\* changes nothing and the pool only adds ready pages, so the re-checks of
\* the coverage in the code cannot fail; were they to, this step would block.
Ranks(t) ==
  /\ pc[t].at = "Rank"
  /\ pqq_rank(t, MySeat(t))
  /\ answered' = [answered EXCEPT ![MySeat(t).q] = @ + 1]
  /\ seat' = [seat EXCEPT ![t][pc[t].seat] = EmptySeat]
  /\ Goes(t, At("loop", 0))
  /\ UNCHANGED next_qi

Steps(t) ==
  /\ t \in Threads /\ UNCHANGED opt
  /\ \/ Decides(t) \/ Fills(t) \/ Beams(t) \/ SubmitsBlock(t) \/ Unstalls(t)
     \/ WaitsCovering(t) \/ Ranks(t)

PoolRuns == (\E j \in pending : Lands(j)) /\ UNCHANGED <<opt, seatVars, next_qi, pc>>

AllExit == \A t \in Threads : pc[t].at = "exit"
Finished == AllExit /\ pending = {} /\ UNCHANGED vars

Next == (\E t \in Pipes : Steps(t)) \/ PoolRuns \/ Finished

\* Threads keep running and the pool completes its jobs (CopyService).
Fairness == (\A t \in Pipes : WF_vars(Steps(t))) /\ WF_vars(PoolRuns)

Spec == Init /\ [][Next]_vars /\ Fairness
-----------------------------------------------------------------------------
(* Properties.                                                             *)

\* With every slot taken, a bounce or vmem issue spins until one is free, and
\* only the spinning thread could free one: the 32 slots must be enough for
\* the seats, whatever pages the queries share.
NeverSpins ==
  ~use_window => \A t \in Threads :
    /\ pc[t].at = "submit" => ~Stalled(t, MySeat(t).cand)
    /\ pc[t].at = "wait" => ~Stalled(t, Orphans(t, Left(t)))

\* Every query is answered, once, and every thread leaves its loop: waiting
\* seats, shared pages and full pipes included.
AllAnswered == <>[](AllExit /\ \A q \in Queries : answered[q] = 1)
=============================================================================
