------------------------------ MODULE Searches ------------------------------
(***************************************************************************)
(* One query of src/serving/search_beam.cpp, by each of its searches:      *)
(* search_one_pq (beam on the codes, then rank the candidates' vectors),   *)
(* search_one_fp (oracle, P0/P1 demand paging, P2 scoring when resident,   *)
(* P3 committing expansions and hiding their reads) and the older          *)
(* search_one.  The prefetch policy of src/serving/prefetch.hpp and the    *)
(* entry warm-up of hide_fill.hpp run before them.                         *)
(*                                                                         *)
(* The searching thread alone changes the search's state and its pipe; the *)
(* copy pool lands pages between its steps, and with a window that threads *)
(* share another query may evict a page.  A vector is the set of pages it  *)
(* lies on; its distance to the query, by code or in full, is given.       *)
(* Pins only read their pages in here, so the window may evict them.       *)
(* The vertices of a wave are expanded, and vertices are scored, one at a  *)
(* time; what orders a list is said by rank.                               *)
(***************************************************************************)
EXTENDS HidePipe, Sequences, SequencesExt

CONSTANTS
  Me,          \* the query's pipe
  MaxOthers    \* bound: pages other queries evict

\* A command line with the graph it searches.  search_one_fp leaves the score
\* option at its default, the window.
ASSUME SearchConstants ==
  /\ Pipes = {Me} /\ MaxOthers \in Nat
  /\ \A c \in Configs :
       /\ c.algo \in {"pq", "fp", "beam"} /\ c.policy \in {"P0", "P1", "P2", "P3"}
       /\ c.algo # "pq" => c.score = "Window"
       /\ {c.n, c.L, c.ebatch, c.ahead} \subseteq Nat \ {0} /\ {c.k, c.iters} \subseteq Nat
       /\ {c.oracle, c.bundled, c.sync_hop, c.freeze, c.rerank, c.warm} \subseteq BOOLEAN
       /\ c.entry \in 0 .. c.n - 1 /\ c.nbrs \in [0 .. c.n - 1 -> Seq(Nat)]
       /\ c.fp \in [0 .. c.n - 1 -> Int] /\ c.code \in [0 .. c.n - 1 -> Int]
       /\ c.vpages \in [0 .. c.n - 1 -> SUBSET Pages]
       /\ c.bpages \in [0 .. c.n - 1 -> Seq(SUBSET Pages)]
       /\ \A v \in 0 .. c.n - 1 : Len(c.bpages[v]) = Len(c.nbrs[v])

VARIABLES
  q,           \* the search: where it is, its lists and sets
  others       \* pages evicted by other queries so far

vars == <<opt, pipeVars, q, others>>

Nodes == 0 .. opt.n - 1
Window == resident[Me]
Algo == opt.algo         \* "pq", "fp" or "beam"
Policy == opt.policy

\* hide_read_nbrs; a vertex is padding when it is no node.
Row(v) == opt.nbrs[v]
VecPages(S) == UNION {opt.vpages[v] : v \in S}

dist == IF Algo = "fp" THEN opt.fp ELSE opt.code
Dist(v) == dist[v]

\* The elements of s at the places I, in the order of the pairs in before.
Ranked(I, before) ==
  [r \in 1 .. Cardinality(I) |-> CHOOSE k \in I : Cardinality({j \in I : <<j, k>> \in before}) = r - 1]
Taken(s, I, before) == LET at == Ranked(I, before) IN [r \in DOMAIN at |-> s[at[r]]]

\* In their own order, or the nearest first and of equals the first.
Ascending(I) == {jk \in I \X I : jk[1] < jk[2]}
Nearer(s, d, I) ==
  {jk \in I \X I : LET a == d[s[jk[1]]] b == d[s[jk[2]]] IN a < b \/ (a = b /\ jk[1] < jk[2])}
At(s, I) == Taken(s, I, Ascending(I))
Sorted(s, d) == Taken(s, DOMAIN s, Nearer(s, d, DOMAIN s))
Cut(s, m) == SubSeq(s, 1, IF m < Len(s) THEN m ELSE Len(s))

Init ==
  /\ opt \in Configs
  /\ slot = [h \in Pipes |-> [s \in Slots |-> NoIssue]]
  /\ resident \in [Pipes -> opt.left]
  /\ next_tok = [h \in Pipes |-> 1]
  /\ Pool!Init
  /\ others = 0
  /\ q = [at |-> IF opt.warm THEN "warm" ELSE "begin", then |-> "none", back |-> "none",
          cand |-> <<>>, seen |-> {}, expanded |-> {}, expands |-> 0,
          scored |-> [v \in Nodes |-> 0], pend |-> <<>>, hits |-> <<>>, batch |-> <<>>,
          waves |-> 0, want |-> {}, miss |-> {}, toks |-> {}, budget |-> 0, misread |-> FALSE, out |-> <<>>]

-----------------------------------------------------------------------------
(* The candidate list.                                                     *)

\* Mutant: a full list loses its last candidate, not its worst.
insert_cand_last(cand, v) ==
  IF Len(cand) < opt.L THEN Append(cand, v)
  ELSE IF Dist(v) >= Dist(cand[Len(cand)]) THEN cand
  ELSE [cand EXCEPT ![Len(cand)] = v]

\* max_element gives the first of the worst.
insert_cand(cand, v) ==
  LET worst == Min({i \in DOMAIN cand : \A j \in DOMAIN cand : Dist(cand[j]) <= Dist(cand[i])})
  IN  IF Len(cand) < opt.L THEN Append(cand, v)
      ELSE IF Dist(v) >= Dist(cand[worst]) THEN cand
      ELSE [cand EXCEPT ![worst] = v]

\* A vertex is scored.
Scored(x, v) == [x EXCEPT !.cand = insert_cand(@, v), !.scored = [x.scored EXCEPT ![v] = @ + 1]]

\* The next one of a list of vertices to score; then the search goes on.
ScoresHead(x) ==
  [Scored(x, Head(x.hits)) EXCEPT !.hits = Tail(@), !.at = IF Len(x.hits) = 1 THEN x.back ELSE @]
Scores(x, ids, how, back) ==
  IF ids = <<>> THEN [x EXCEPT !.at = back]
  ELSE [x EXCEPT !.hits = ids, !.at = how, !.back = back]

\* The candidates to expand, the best first and of equals the first.
Open(x) == {i \in DOMAIN x.cand : x.cand[i] \notin x.expanded}
Frontier(x) == Taken(x.cand, Open(x), Nearer(x.cand, dist, Open(x)))

ItersDone(x) == opt.iters # 0 /\ x.expands >= opt.iters

pick_batch(x, m) ==
  Cut(Frontier(x), IF opt.iters = 0 THEN m ELSE Min({m, opt.iters - x.expands}))

Commits(x, batch) ==
  [x EXCEPT !.expanded = @ \cup Range(batch), !.expands = @ + Len(batch)]

\* The neighbours of v not seen yet, once each.
FreshAt(row, seen) ==
  {k \in DOMAIN row : row[k] \in Nodes \ seen /\ \A j \in 1 .. k - 1 : row[j] # row[k]}
Fresh(v, seen) == At(Row(v), FreshAt(Row(v), seen))

Sees(x, ids) == [x EXCEPT !.seen = @ \cup Range(ids)]

-----------------------------------------------------------------------------
(* The window and the prefetch policy.                                     *)

\* copy_through and lookup_or_promote read what is missing in.
Reads(P) == \E X \in Promotes(Me, Window, P) : resident' = [resident EXCEPT ![Me] = X]

\* The window and the budget, in pages, after a try.
try_prefetch(rb, P) ==
  LET need == Cardinality(P \ rb[1])
  IN  IF need = 0 \/ rb[2] < need THEN {rb}
      ELSE {<<X, rb[2] - need>> : X \in Promotes(Me, rb[1], P)}

\* Tries each of ids in order; once the budget is gone each one fails.
Prefetched(R, b, ids) ==
  FoldLeft(LAMBDA S, v : UNION {try_prefetch(rb, opt.vpages[v]) : rb \in S}, {<<R, b>>}, ids)

\* hide_warm_entry_ball: the entry's ball of two hops, as far as the cap lets it.
Hop(S) == S \cup (UNION {Range(Row(v)) : v \in S} \cap Nodes)
Ball == Hop(Hop({opt.entry})) \cup Range(opt.nodes)

WarmPages ==
  VecPages(Ball) \cup
  IF opt.bundled THEN UNION {UNION Range(opt.bpages[v]) : v \in Hop({opt.entry})} ELSE {}

hide_warm_entry_ball ==
  /\ q.at = "warm"
  /\ \E P \in kSubset(Min({opt.warmcap, Cardinality(WarmPages)}), WarmPages) : Reads(P)
  /\ q' = [q EXCEPT !.at = "begin"]
  /\ UNCHANGED <<slot, next_tok, pending, finished>>

\* pin_entry_hot, unless the warm-up has pinned its ball.
pin_entry_hot ==
  LET ids == {opt.entry} \cup Range(opt.nodes)
  IN  IF opt.pin /\ ~opt.warm THEN VecPages(ids) \cup UNION {opt.rows[v] : v \in ids} ELSE {}

Starts == IF Algo = "beam" THEN "iter" ELSE IF Algo = "pq" \/ opt.oracle THEN "host" ELSE Policy

\* The entry is scored, from the window unless the search is in host memory.
EntryPages == IF Algo = "fp" /\ ~opt.oracle THEN opt.vpages[opt.entry] ELSE {}
ScoresEntry(x) == Scored(Sees(x, <<opt.entry>>), opt.entry)

\* The budget, the pins and, for P1 and P2, the entry points.
on_query_begin ==
  /\ q.at = "begin"
  /\ \E R \in Promotes(Me, Window, pin_entry_hot) :
     \E rb \in IF Policy \in {"P1", "P2"} THEN Prefetched(R, opt.budget, opt.nodes) ELSE {<<R, opt.budget>>} :
     \E X \in Promotes(Me, rb[1], EntryPages) :
       /\ resident' = [resident EXCEPT ![Me] = X]
       /\ LET x == [q EXCEPT !.at = Starts, !.budget = rb[2]]
          IN  q' = IF Algo = "beam" THEN [x EXCEPT !.cand = <<opt.entry>>, !.batch = <<opt.entry>>]
                   ELSE ScoresEntry(x)
  /\ UNCHANGED <<slot, next_tok, pending, finished>>

\* The result: the candidates by their distance in full, at most k.
Answered(x) == [x EXCEPT !.at = "done", !.out = Cut(Sorted(x.cand, opt.fp), opt.k)]

-----------------------------------------------------------------------------
(* Expanding in host memory: search_one_pq and the oracle.  search_one_pq  *)
(* then issues the pages of its candidates.                                *)

Expanded(x, how) ==
  LET v == Head(Frontier(x))
      new == Fresh(v, x.seen)
  IN  Scores(Sees(Commits(x, <<v>>), new), new, how, x.at)

PqExpands ==
  /\ q.at = "host" /\ Algo = "pq" /\ Frontier(q) # <<>> /\ ~ItersDone(q)
  /\ q' = Expanded(q, "insert")
  /\ UNCHANGED pipeVars

OracleExpands ==
  /\ q.at = "host" /\ Algo = "fp" /\ Frontier(q) # <<>> /\ ~ItersDone(q)
  /\ q' = Expanded(q, "insert")
  /\ UNCHANGED pipeVars

\* The distance is known: pq_insert, score_dram, finish_score.
Inserts ==
  /\ q.at = "insert"
  /\ q' = ScoresHead(q)
  /\ UNCHANGED pipeVars

HostEnds ==
  /\ q.at = "host" /\ (Frontier(q) = <<>> \/ ItersDone(q))
  /\ q' = IF opt.oracle THEN Answered(q)
          ELSE [q EXCEPT !.at = "issue", !.then = "cover", !.want = VecPages(Range(q.cand))]
  /\ UNCHANGED pipeVars

\* The vectors are read from where the score option says, or through the
\* window where they are not there any more; then the slots are let go.
RanksVectors ==
  /\ q.at = "rank"
  /\ LET need == VecPages(Range(q.cand))
         gone == {p \in need : Score = "Bounce" /\ ~page_in_slot(Me, p)}
     IN  /\ \E R \in PumpedResident(Me) :
            \E X \in Promotes(Me, R, IF use_window THEN need ELSE gone) :
              resident' = [resident EXCEPT ![Me] = X]
         /\ slot' = [slot EXCEPT ![Me] = Released(PumpedSlots(Me), q.toks, need)]
         /\ q' = [Answered(q) EXCEPT !.misread = \E p \in need \ gone : ~ReadsLanded(Me, p)]
  /\ UNCHANGED <<next_tok, pending, finished>>

-----------------------------------------------------------------------------
(* P0 and P1: read the row, then each new neighbour.                       *)

DemandExpands ==
  /\ q.at \in {"P0", "P1"} /\ Frontier(q) # <<>> /\ ~ItersDone(q)
  /\ Reads(opt.rows[Head(Frontier(q))])
  /\ q' = Expanded(q, "score")
  /\ UNCHANGED <<slot, next_tok, pending, finished>>

\* The vector is read through the window.
score_id ==
  /\ q.at = "score"
  /\ Reads(opt.vpages[Head(q.hits)])
  /\ q' = ScoresHead(q)
  /\ UNCHANGED <<slot, next_tok, pending, finished>>

DemandEnds ==
  /\ q.at \in {"P0", "P1"} /\ (Frontier(q) = <<>> \/ ItersDone(q))
  /\ q' = Answered(q)
  /\ UNCHANGED pipeVars

-----------------------------------------------------------------------------
(* P2: neighbours wait in a queue until they are resident or forced.       *)

Waiting(v, P) == [id |-> v, pages |-> P]
Ids(s) == [i \in DOMAIN s |-> s[i].id]

\* Mutant: what is not resident is forgotten.
StillPending_none(s, R) == <<>>

\* What of the queue s is not in the window R, and what is.
StillPending(s, R) == At(s, {i \in DOMAIN s : ~(s[i].pages \subseteq R)})
Ready(s, R) == Ids(At(s, {i \in DOMAIN s : s[i].pages \subseteq R}))

\* What is in the window R is scored, the rest stays in the queue.
Drained(x, R, how, back) ==
  Scores([x EXCEPT !.pend = StillPending(@, R)], Ready(x.pend, R), how, back)

drain_ready ==
  /\ q.at \in {"P2", "ready"}
  /\ q' = Drained(q, Window, "score", IF q.at = "P2" THEN "pick" ELSE "bound")
  /\ UNCHANGED pipeVars

force_one_pending(at) ==
  /\ q.pend # <<>>
  /\ Reads(Head(q.pend).pages)
  /\ q' = [Scored(q, Head(q.pend).id) EXCEPT !.pend = Tail(@), !.at = at]
  /\ UNCHANGED <<slot, next_tok, pending, finished>>

\* Nothing left to expand: force one that waits.  At the limit: force them all.
P2Forces ==
  /\ q.at = "pick"
  /\ \/ Frontier(q) = <<>> /\ force_one_pending("P2")
     \/ Frontier(q) # <<>> /\ ItersDone(q) /\ force_one_pending("pick")

P2Ends ==
  /\ q.at = "pick" /\ q.pend = <<>> /\ (Frontier(q) = <<>> \/ ItersDone(q))
  /\ q' = Answered(q)
  /\ UNCHANGED pipeVars

P2Expands ==
  /\ q.at = "pick" /\ Frontier(q) # <<>> /\ ~ItersDone(q)
  /\ LET v == Head(Frontier(q))
         new == Fresh(v, q.seen)
     IN  /\ Reads(opt.rows[v])
         /\ q' = [Sees(Commits(q, <<v>>), new) EXCEPT
                    !.pend = @ \o [i \in DOMAIN new |-> Waiting(new[i], opt.vpages[new[i]])],
                    !.at = "ready"]
  /\ UNCHANGED <<slot, next_tok, pending, finished>>

\* The queue is bounded, and a search with nothing to expand goes on.
P2Bounds ==
  /\ q.at = "bound"
  /\ \/ Len(q.pend) > opt.pending_cap /\ force_one_pending("bound")
     \/ Len(q.pend) <= opt.pending_cap /\ Frontier(q) = <<>> /\ force_one_pending("P2")
     \/ /\ Len(q.pend) <= opt.pending_cap /\ (Frontier(q) # <<>> \/ q.pend = <<>>)
        /\ q' = [q EXCEPT !.at = "P2"] /\ UNCHANGED pipeVars

-----------------------------------------------------------------------------
(* P3: waves of committed expansions, whose neighbours wait until their    *)
(* pages are resident.  A wave's copies are the vectors' own pages, or the *)
(* expanded vertex's bundle.                                               *)

\* hide_collect_bundle_pages: with nothing wanted, the whole bundle.
WavePages(v, new) ==
  IF opt.bundled
  THEN UNION {opt.bpages[v][k] : k \in {k \in DOMAIN Row(v) : new = <<>> \/ Row(v)[k] \in Range(new)}}
  ELSE VecPages(Range(new))

SlotPages(v, nb) == IF opt.bundled THEN opt.bpages[v][Min({k \in DOMAIN Row(v) : Row(v)[k] = nb})]
                    ELSE opt.vpages[nb]

\* One expansion of a wave.
Discovers(x, v) ==
  LET new == Fresh(v, x.seen)
  IN  [Sees(x, new) EXCEPT
         !.pend = @ \o [i \in DOMAIN new |-> Waiting(new[i], SlotPages(v, new[i]))],
         !.want = @ \cup WavePages(v, new)]

P3Stops == q.waves = 0 /\ ItersDone(q)
OneByOne == opt.sync_hop /\ ~opt.bundled

\* A wave: its pages are issued, or its vertices scored one by one.
P3Waves ==
  /\ q.at = "P3" /\ ~P3Stops /\ q.waves < opt.ahead
  /\ LET batch == pick_batch(q, opt.ebatch)
         x == Commits(q, batch)
     IN  /\ batch # <<>>
         /\ q' = [x EXCEPT !.batch = batch, !.want = {}, !.at = IF OneByOne THEN "hop" ELSE "wave"]
  /\ UNCHANGED pipeVars

\* issue_bundle_batch: the next vertex of the wave; after the last one its
\* pages are issued.
WaveExpands ==
  /\ q.at = "wave"
  /\ LET x == [Discovers(q, Head(q.batch)) EXCEPT !.batch = Tail(@)]
     IN  q' = IF x.batch # <<>> THEN x
              ELSE [x EXCEPT !.at = "issue", !.then = "P3", !.waves = @ + 1]
  /\ UNCHANGED pipeVars

P3WavesEnd ==
  /\ q.at = "P3" /\ ~P3Stops /\ q.waves > 0
  /\ q.waves = opt.ahead \/ pick_batch(q, opt.ebatch) = <<>>
  /\ q' = [q EXCEPT !.at = "drain", !.then = "P3", !.waves = 0]
  /\ UNCHANGED pipeVars

\* Mutant: the pages of what waits are not asked for again.
StuckNeeds_none == {}

StuckNeeds == UNION {q.pend[i].pages : i \in DOMAIN q.pend}

\* No wave: wait for what is pending, or, with nothing to wait for or no fills
\* allowed, end.
P3Stuck ==
  /\ q.at = "P3" /\ ~P3Stops /\ q.waves = 0 /\ pick_batch(q, opt.ebatch) = <<>>
  /\ q' = IF q.pend = <<>> \/ opt.freeze THEN [q EXCEPT !.at = "all", !.then = "last"]
          ELSE [q EXCEPT !.at = "issue", !.then = "cover", !.want = StuckNeeds]
  /\ UNCHANGED pipeVars

P3Ends ==
  /\ q.at = "P3" /\ P3Stops
  /\ q' = [q EXCEPT !.at = "all", !.then = "last"]
  /\ UNCHANGED pipeVars

\* drain_pending: pump, then score what is resident.
drain_pending ==
  /\ q.at \in {"drain", "last"} \/ (q.at = "hits" /\ q.hits = <<>>)
  /\ \E R \in PumpedResident(Me) :
       /\ resident' = [resident EXCEPT ![Me] = R]
       /\ q' = Drained(q, R, "insert", CASE q.at = "drain" -> q.then
                                         [] q.at = "hits"  -> "hop"
                                         [] q.at = "last"  -> "end")
  /\ slot' = [slot EXCEPT ![Me] = PumpedSlots(Me)]
  /\ UNCHANGED <<next_tok, pending, finished>>

P3Answers ==
  /\ q.at = "end"
  /\ q' = Answered(q)
  /\ UNCHANGED pipeVars

\* sync_hop: the next vertex of the batch.  Its resident neighbours are hits;
\* the others are issued and wait, or are dropped when fills are frozen.
hop_hide_score ==
  /\ q.at = "hop" /\ q.batch # <<>>
  /\ Pumps(Me)
  /\ LET new  == Fresh(Head(q.batch), q.seen)
         all  == [i \in DOMAIN new |-> Waiting(new[i], opt.vpages[new[i]])]
         miss == StillPending(all, resident'[Me])
         x == [Sees(q, new) EXCEPT !.batch = Tail(@), !.hits = Ready(all, resident'[Me])]
     IN  q' = IF opt.freeze \/ miss = <<>> THEN [x EXCEPT !.at = "hits"]
              ELSE [x EXCEPT !.pend = @ \o miss, !.want = VecPages(Range(Ids(miss))),
                             !.at = "issue", !.then = "hits"]

\* A hit evicted by the issue, or by another hit, is read again.
score_resident ==
  /\ q.at = "hits" /\ q.hits # <<>>
  /\ \E X \in Promotes(Me, Window, opt.vpages[Head(q.hits)]) :
     \E R \in Installed(X, NewlyReady(Me)) :
       resident' = [resident EXCEPT ![Me] = R]
  /\ slot' = [slot EXCEPT ![Me] = PumpedSlots(Me)]
  /\ q' = [Scored(q, Head(q.hits)) EXCEPT !.hits = Tail(@)]
  /\ UNCHANGED <<next_tok, pending, finished>>

HopsEnd ==
  /\ q.at = "hop" /\ q.batch = <<>>
  /\ Pumps(Me)
  /\ q' = [q EXCEPT !.at = "P3", !.waves = @ + 1]

-----------------------------------------------------------------------------
(* The pipe, as search_one_pq and P3 use it.                               *)

\* issue with stall_if_full.
Issues ==
  /\ q.at = "issue" /\ Submits(Me, q.want)
  /\ q' = [q EXCEPT !.at = q.then, !.toks = @ \cup {next_tok[Me]}]

IssuesNothing ==
  /\ q.at = "issue" /\ ~Stalled(Me, q.want) /\ Refuses(Me, q.want)
  /\ q' = [q EXCEPT !.at = q.then]

Stalls ==
  /\ q.at = "issue" /\ use_window /\ Stalled(Me, q.want) /\ Pumps(Me)
  /\ q' = [q EXCEPT !.at = "stall", !.miss = Missing(slot'[Me], resident'[Me], q.want)]

Unstalls ==
  /\ q.at = "stall" /\ StallEnds(Me, StallSlot(slot[Me]), q.miss)
  /\ q' = [q EXCEPT !.at = q.then, !.miss = {}]

\* wait_covering: one turn.  The time it measures may be 0, and then the
\* callers wait for every slot.
Covered == IF Algo = "pq" THEN "rank" ELSE "drain"

WaitsCovering ==
  /\ q.at = "cover"
  /\ LET left == {p \in q.want : ~covers(Me, p)}
     IN  use_window \/ left \subseteq InSlots(slot[Me])
  /\ Pumps(Me)
  /\ LET left == {p \in q.want : ~covers(Me, p)'}
         idle == \A s \in Slots : ~slot'[Me][s].active
         x == [q EXCEPT !.want = left, !.then = "P3"]
     IN  \/ (left = {} \/ idle) /\ q' = [x EXCEPT !.at = Covered]
         \/ (left = {} \/ idle) /\ q' = [x EXCEPT !.at = "all", !.then = Covered]
         \/ left # {} /\ ~idle /\ q' = [q EXCEPT !.want = left]

\* Pages no slot lists, beyond the 1024 of the first issue, are issued now.
CoverIssues ==
  /\ q.at = "cover" /\ ~use_window
  /\ LET left == {p \in q.want : ~covers(Me, p)}
         orphans == left \ InSlots(slot[Me])
     IN  /\ orphans # {} /\ Submits(Me, orphans)
         /\ q' = [q EXCEPT !.want = left, !.toks = @ \cup {next_tok[Me]}]

WaitsAll ==
  /\ q.at = "all"
  /\ \A s \in Slots : slot[Me][s].active => ReadyIn(Me, slot[Me][s]) = slot[Me][s].pages
  /\ Pumps(Me)
  /\ q' = [q EXCEPT !.at = q.then, !.then = "P3"]

-----------------------------------------------------------------------------
(* search_one: a beam of vertices is replaced by the best of their         *)
(* neighbours.  A neighbour is listed once for each vertex that names it.  *)

\* on_expand: the row, then its first neighbours while the budget lasts.
on_expand(v) ==
  LET few == Cut(Row(v), opt.neighbor_k)
      ids == At(few, {i \in DOMAIN few : few[i] \in Nodes})
  IN  UNION {IF Policy = "P0" THEN {<<R, q.budget>>} ELSE Prefetched(R, q.budget, ids) :
               R \in Promotes(Me, Window, opt.rows[v])}

\* The next vertex of the beam: its neighbours, by their codes, join the next.
BeamExpands ==
  /\ q.at = "iter" /\ q.expands < opt.iters /\ q.batch # <<>> /\ Head(q.batch) \notin q.seen
  /\ LET v == Head(q.batch)
         next == At(Row(v), {i \in DOMAIN Row(v) : Row(v)[i] \in Nodes \ (q.seen \cup {v})})
     IN  \E rb \in on_expand(v) :
         \E X \in Promotes(Me, rb[1], UNION {opt.codes[nb] : nb \in Range(next)}) :
           /\ resident' = [resident EXCEPT ![Me] = X]
           /\ q' = [q EXCEPT !.batch = Tail(@), !.hits = @ \o next, !.seen = @ \cup {v}, !.budget = rb[2]]
  /\ UNCHANGED <<slot, next_tok, pending, finished>>

BeamSkips ==
  /\ q.at = "iter" /\ q.expands < opt.iters /\ q.batch # <<>> /\ Head(q.batch) \in q.seen
  /\ q' = [q EXCEPT !.batch = Tail(@)]
  /\ UNCHANGED pipeVars

BeamTurns ==
  /\ q.at = "iter" /\ q.expands < opt.iters /\ q.batch = <<>> /\ q.hits # <<>>
  /\ LET next == Cut(Sorted(q.hits, opt.code), opt.L)
     IN  q' = [q EXCEPT !.cand = next, !.batch = next, !.hits = <<>>, !.expands = @ + 1]
  /\ UNCHANGED pipeVars

\* The last beam is the pool, ranked in full when asked to.
BeamEnds ==
  /\ q.at = "iter"
  /\ q.expands = opt.iters \/ (q.batch = <<>> /\ q.hits = <<>>)
  /\ LET pool == Cut(Sorted(q.cand, opt.code), Max({5 * opt.k, opt.L}))
     IN  /\ Reads(IF opt.rerank THEN VecPages(Range(pool)) ELSE {})
         /\ q' = IF opt.rerank THEN Answered([q EXCEPT !.cand = pool])
                 ELSE [q EXCEPT !.cand = pool, !.at = "done", !.out = Cut(pool, opt.k)]
  /\ UNCHANGED <<slot, next_tok, pending, finished>>

-----------------------------------------------------------------------------
Steps ==
  /\ UNCHANGED <<opt, others>>
  /\ \/ hide_warm_entry_ball \/ on_query_begin
     \/ PqExpands \/ OracleExpands \/ Inserts \/ HostEnds \/ RanksVectors
     \/ DemandExpands \/ score_id \/ DemandEnds
     \/ drain_ready \/ P2Forces \/ P2Ends \/ P2Expands \/ P2Bounds
     \/ P3Waves \/ WaveExpands \/ P3WavesEnd \/ P3Stuck \/ P3Ends \/ drain_pending \/ P3Answers
     \/ hop_hide_score \/ score_resident \/ HopsEnd
     \/ Issues \/ IssuesNothing \/ Stalls \/ Unstalls \/ WaitsCovering \/ CoverIssues \/ WaitsAll
     \/ BeamExpands \/ BeamSkips \/ BeamTurns \/ BeamEnds

PoolRuns == (\E j \in pending : Lands(j)) /\ UNCHANGED <<opt, q, others>>

\* With a window that threads share, another query's fill takes a frame.
OtherEvicts ==
  /\ opt.shared /\ others < MaxOthers /\ q.at # "done"
  /\ \E p \in Window : resident' = [resident EXCEPT ![Me] = @ \ {p}]
  /\ others' = others + 1
  /\ UNCHANGED <<opt, q, slot, next_tok, pending, finished>>

Finished == q.at = "done" /\ pending = {} /\ UNCHANGED vars

Next == Steps \/ PoolRuns \/ OtherEvicts \/ Finished

\* The searching thread runs and the pool completes its jobs (CopyService).
Fairness == WF_vars(Steps) /\ WF_vars(PoolRuns)

Spec == Init /\ [][Next]_vars /\ Fairness

-----------------------------------------------------------------------------
(* Properties.                                                             *)

Frozen == Algo = "fp" /\ ~opt.oracle /\ Policy = "P3" /\ opt.freeze /\ OneByOne
Listed(v) ==
  Cardinality({i \in DOMAIN q.pend : q.pend[i].id = v}) + Cardinality({i \in DOMAIN q.hits : q.hits[i] = v})

(* A vertex that was seen is scored once, or waits to be scored once, however *)
(* its page comes and goes: none is lost between the waves, the pending list  *)
(* and the window, and at the end of a search without a limit of expansions   *)
(* none waits.  Only frozen fills drop one (sync_hop).                        *)
NoneLost ==
  Algo # "beam" =>
    /\ \A v \in Nodes :
         LET n == q.scored[v] + Listed(v)
         IN  IF v \in q.seen THEN n = 1 \/ (Frozen /\ n = 0) ELSE n = 0
    /\ q.at = "done" /\ (opt.iters = 0 \/ Policy = "P2") /\ ~opt.freeze => q.pend = <<>>

Nearest ==
  /\ \A v \in Nodes \ Range(q.cand) :
       q.scored[v] > 0 => Len(q.cand) = opt.L /\ \A c \in Range(q.cand) : Dist(c) <= Dist(v)
  /\ Cardinality(Range(q.cand)) = Len(q.cand)

\* A limit of expansions ends a search early; so do frozen fills, with the reads
\* of its waves still to be scored.
CutShort ==
  opt.iters # 0 \/ (Algo = "fp" /\ ~opt.oracle /\ Policy = "P3" /\ opt.freeze /\ ~OneByOne)

(* The candidates are the L nearest of all that were scored, whatever order   *)
(* scores arrived in; a search that is not cut short ends with all of them    *)
(* expanded; the result is in order of the full distance, computed from       *)
(* vectors that had arrived.                                                  *)
AnswerRight ==
  /\ Algo # "beam" => Nearest
  /\ q.at = "done" =>
       /\ ~q.misread
       /\ Len(q.out) = Min({opt.k, Len(q.cand)})
       /\ Algo # "beam" /\ ~CutShort => Range(q.cand) \subseteq q.expanded
       /\ LET d == IF Algo = "beam" /\ ~opt.rerank THEN opt.code ELSE opt.fp
          IN  \A i, j \in DOMAIN q.out : i < j => d[q.out[i]] <= d[q.out[j]]

(* Every search ends: pages evicted before they were scored are asked for     *)
(* again, full pipes drain and no wait is for a page nobody issued.           *)
SearchEnds == <>(q.at = "done")
==============================================================================
