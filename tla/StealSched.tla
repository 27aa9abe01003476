----------------------------- MODULE StealSched -----------------------------
(***************************************************************************)
(* The work-stealing scheduler of src/serving/search_beam.cpp (--steal-    *)
(* sched, the default for more than one thread): every compute thread owns *)
(* a pipe, a window and Depth seats; the threads share the queue of        *)
(* queries, a count of issued waves held to issue_qd, and the copy pool.   *)
(*                                                                         *)
(* A thread's accesses to the shared counters are steps of their own; the  *)
(* rest of an iteration touches only what the thread owns.                 *)
(***************************************************************************)
EXTENDS PqSeats

CONSTANT IssueQd   \* issue_qd; 0 is no limit

ASSUME StealConstants == IssueQd \in Nat

VARIABLES
  next_q,          \* next query to admit
  nand_inflight,   \* waves issued and not yet ranked, over all threads
  pc               \* thread -> step of its loop and the seat it works on

vars == <<opt, pipeVars, seatVars, next_q, nand_inflight, pc>>

Threads == Pipes
At(step, d) == [at |-> step, seat |-> d]

Init ==
  /\ PipeInit /\ SeatInit
  /\ next_q = 0 /\ nand_inflight = 0
  /\ pc = [t \in Threads |-> At("loop", 0)]

-----------------------------------------------------------------------------
issue_qd_ok(n) == IssueQd = 0 \/ n < IssueQd

\* Issue a held seat if the queue depth allows, else fill an empty seat, else
\* rank a covered one, else pump again; each the first seat that qualifies.
steal_decide(st, cov, has_more, qd_ok) ==
  LET held    == {d \in Seats : qd_ok /\ st[d] = "Hold"}
      empty   == {d \in Seats : has_more /\ st[d] = "Empty"}
      covered == {d \in Seats : st[d] \in {"Wait", "Ready"} /\ cov[d]}
      parked  == {d \in Seats : st[d] \in {"Wait", "Hold"}}
  IN  IF held # {} THEN At("try", Min(held))
      ELSE IF empty # {} THEN At("Fill", Min(empty))
      ELSE IF covered # {} THEN At("Rank", Min(covered))
      ELSE IF parked # {} THEN At("loop", 0)
      ELSE At("exit", 0)

\* Top of the loop: pump, look at the seats and the counters, decide.
Decides(t) ==
  /\ pc[t].at = "loop"
  /\ Pumps(t)
  /\ UNCHANGED <<seatVars, next_q, nand_inflight>>
  /\ LET cov == [d \in Seats |-> coversAll(t, seat[t][d].need)']
     IN  pc' = [pc EXCEPT ![t] = steal_decide([d \in Seats |-> seat[t][d].st], cov,
                                              next_q < NQ, issue_qd_ok(nand_inflight))]

\* Mutant: the first ticket is given out again and again.
Ticket_peeked(n) == IF n = 0 THEN 0 ELSE n + 1

\* fetch_add on the shared ticket.
Ticket(n) == n + 1

\* Fill, up to the beam: admission is serialised by admit_mu.
Admits(t) ==
  /\ pc[t].at = "Fill"
  /\ next_q' = Ticket(next_q)
  /\ IF next_q >= NQ
     THEN /\ pc' = [pc EXCEPT ![t] = At("loop", 0)]
          /\ UNCHANGED <<seat, resident>>
     ELSE /\ seat' = [seat EXCEPT ![t][pc[t].seat] = pqq_init(next_q)]
          /\ Begins(t)
          /\ pc' = [pc EXCEPT ![t] = At("beam", pc[t].seat)]
  /\ UNCHANGED <<slot, next_tok, pending, finished, answered, misread, nand_inflight>>

\* The beam pumps every 16 expansions; its end leaves the candidates.
Beams(t) ==
  /\ pc[t].at = "beam"
  /\ \/ Pumps(t) /\ UNCHANGED <<seat, pc>>
     \/ /\ \E x \in pqq_beam(seat[t][pc[t].seat]) : seat' = [seat EXCEPT ![t][pc[t].seat] = x]
        /\ pc' = [pc EXCEPT ![t].at = "try"]
        /\ UNCHANGED pipeVars
  /\ UNCHANGED <<answered, misread, next_q, nand_inflight>>

\* try_issue: look at the count, add to it, then issue.
TryLooks(t) ==
  /\ pc[t].at = "try"
  /\ IF issue_qd_ok(nand_inflight)
     THEN /\ pc' = [pc EXCEPT ![t].at = "add"]
          /\ UNCHANGED seat
     ELSE /\ pc' = [pc EXCEPT ![t] = At("loop", 0)]
          /\ seat' = [seat EXCEPT ![t][pc[t].seat].st = "Hold"]
  /\ UNCHANGED <<pipeVars, answered, misread, next_q, nand_inflight>>

TryAdds(t) ==
  /\ pc[t].at = "add"
  /\ nand_inflight' = nand_inflight + 1
  /\ seat' = [seat EXCEPT ![t][pc[t].seat].held = TRUE]
  /\ pc' = [pc EXCEPT ![t].at = "submit"]
  /\ UNCHANGED <<pipeVars, answered, misread, next_q>>

\* Mutant: the count is not given back when nothing was issued.
TryHolds_leaks(t, x) ==
  /\ x.toks = {} /\ x.cand # {} /\ Refuses(t, x.cand)
  /\ seat' = [seat EXCEPT ![t][pc[t].seat] = [pqq_issue(x, 0) EXCEPT !.st = "Hold", !.held = FALSE]]
  /\ UNCHANGED nand_inflight

TryIssues(t, x) ==
  /\ x.cand # {} /\ Submits(t, x.cand)
  /\ seat' = [seat EXCEPT ![t][pc[t].seat] = pqq_issue(x, next_tok[t])]
  /\ UNCHANGED nand_inflight

\* Nothing was issued: the seat goes on hold and gives the count back.
TryHolds(t, x) ==
  /\ x.toks = {} /\ x.cand # {} /\ Refuses(t, x.cand)
  /\ seat' = [seat EXCEPT ![t][pc[t].seat] = [pqq_issue(x, 0) EXCEPT !.st = "Hold", !.held = FALSE]]
  /\ nand_inflight' = nand_inflight - 1

\* Nothing is needed: submit does nothing and the seat is ready to rank.
TryNeedsNothing(t, x) ==
  /\ x.cand = {}
  /\ seat' = [seat EXCEPT ![t][pc[t].seat] = [pqq_issue(x, 0) EXCEPT !.held = FALSE]]
  /\ nand_inflight' = nand_inflight - 1
  /\ UNCHANGED pipeVars

TrySubmits(t) ==
  /\ pc[t].at = "submit"
  /\ LET x == seat[t][pc[t].seat]
     IN  TryIssues(t, x) \/ TryHolds(t, x) \/ TryNeedsNothing(t, x)
  /\ pc' = [pc EXCEPT ![t] = At("loop", 0)]
  /\ UNCHANGED <<answered, misread, next_q>>

\* finish_local returns the unit that the seat holds.
GivenBack(x) == IF x.held THEN nand_inflight - 1 ELSE nand_inflight

\* Rank and finish_local.
Ranks(t) ==
  /\ pc[t].at = "Rank"
  /\ LET x == seat[t][pc[t].seat]
     IN  IF coversAll(t, x.need)
         THEN /\ pqq_rank(t, x)
              /\ answered' = [answered EXCEPT ![x.q] = @ + 1]
              /\ nand_inflight' = GivenBack(x)
              /\ seat' = [seat EXCEPT ![t][pc[t].seat] = EmptySeat]
         ELSE UNCHANGED <<pipeVars, seatVars, nand_inflight>>
  /\ pc' = [pc EXCEPT ![t] = At("loop", 0)]
  /\ UNCHANGED next_q

PoolRuns ==
  (\E j \in pending : Lands(j)) /\ UNCHANGED <<opt, seatVars, next_q, nand_inflight, pc>>

Steps(t) ==
  /\ UNCHANGED opt
  /\ \/ Decides(t) \/ Admits(t) \/ Beams(t) \/ TryLooks(t) \/ TryAdds(t)
     \/ TrySubmits(t) \/ Ranks(t)

\* Every thread has left its loop.
AllExit == \A t \in Threads : pc[t].at = "exit"
Finished == AllExit /\ pending = {} /\ UNCHANGED vars

Next == (\E t \in Threads : Steps(t)) \/ PoolRuns \/ Finished

\* Compute threads are never descheduled for ever and the pool completes the
\* jobs it is given (CopyService).
Fairness == (\A t \in Threads : WF_vars(Steps(t))) /\ WF_vars(PoolRuns)

Spec == Init /\ [][Next]_vars /\ Fairness
-----------------------------------------------------------------------------
(* Properties.                                                             *)

HeldSeats == {x \in Threads \X Seats : seat[x[1]][x[2]].held}

\* nand_inflight counts the seats that hold a wave: no exit path of try_issue
\* or finish_local leaks a unit of queue depth or returns one twice.
NandCounts == nand_inflight = Cardinality(HeldSeats)

\* "When A cannot score, the stepper steals B": every query is answered, once,
\* and every thread leaves its loop.
AllAnswered == <>[](AllExit /\ \A q \in Queries : answered[q] = 1)

\* No page can be a candidate's of two queries.
PagesApart ==
  \A q, r \in Queries : q # r => UNION Cands[q] \cap UNION Cands[r] = {}

Wanted == UNION {Cands[q] : q \in Queries}

\* The first issue asks for a query's pages, all of them and no others.
IssuedWhole == ~ExtentRun /\ \A c \in Wanted : Cardinality(c) <= MaxIssue

\* Scoring from the window: a page read in stays, and no query finds all of its
\* pages pinned.
PagesStay ==
  use_window => /\ ~FlushWindow /\ ~Direct /\ Cardinality(Pins \cup UNION Wanted) <= Capacity
                /\ \A c \in Wanted \ {{}} : ~(c \subseteq Pins)

\* Scoring from the bounce buffers (a flush does no harm then), or from a window
\* that keeps what it is given: when queries share no pages and issues are not
\* cut, every query is answered, once, and every thread leaves its loop, through
\* refused issues, held seats and full pipes.  The scheduler promises no more:
\* nobody issues again for a waiter whose pages were flushed, evicted or cut, and
\* a wave that finds everything resident is held for ever.
AnsweredApart == PagesApart /\ IssuedWhole /\ PagesStay => AllAnswered
=============================================================================
