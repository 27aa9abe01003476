----------------------------- MODULE MCSearches -----------------------------
(* Six vertices with padding, repeated and own neighbours, vectors that share *)
(* and straddle pages; one command line for each search and for each of its   *)
(* options.  P3 runs with windows of two and three pages, so that pages are   *)
(* evicted before they are scored.                                            *)
EXTENDS Searches

MCPages == 0 .. 9

By0(s) == [v \in 0 .. Len(s) - 1 |-> s[v + 1]]

Base ==
  [score |-> "Window", direct |-> FALSE, extent |-> FALSE, nslots |-> 2, chunk |-> 2,
   max_issue |-> 4, capacity |-> 10, pins |-> {}, warmed |-> FALSE, algo |-> "fp", policy |-> "P3", oracle |-> FALSE,
   n |-> 6, entry |-> 0, nodes |-> <<0, 3>>, L |-> 3, k |-> 2, iters |-> 0,
   nbrs |-> By0(<< <<1, 2, 9>>, <<3, 0, 3>>, <<4, 1, 2>>, <<5, 4, 9>>, <<5, 5, 0>>, <<9, 9, 9>> >>),
   fp |-> By0(<<6, 3, 5, 4, 1, 2>>), code |-> By0(<<5, 4, 4, 3, 3, 1>>),
   vpages |-> By0(<< {0}, {0, 1}, {1}, {1, 2}, {3}, {2, 3} >>),
   rows |-> By0(<< {4}, {4}, {4}, {4, 5}, {5}, {5} >>), codes |-> [v \in 0 .. 5 |-> {5}],
   bundled |-> FALSE, bpages |-> [v \in 0 .. 5 |-> LET b == 6 + (v \div 2) IN <<{b}, {b, b + 1}, {b + 1}>>],
   left |-> {{}}, warm |-> FALSE, warmcap |-> 3, pin |-> FALSE, budget |-> 3, neighbor_k |-> 2,
   pending_cap |-> 1, ebatch |-> 1, ahead |-> 1, sync_hop |-> FALSE, freeze |-> FALSE,
   rerank |-> TRUE, shared |-> FALSE]

OnePage == By0(<< {0}, {1}, {1}, {2}, {3}, {4} >>)

PqConfigs ==
  LET Pq == [Base EXCEPT !.algo = "pq"]
  IN  {[Pq EXCEPT !.score = "Bounce", !.max_issue = 2],
       [Pq EXCEPT !.score = "Vmem", !.iters = 2, !.pin = TRUE],
       [Pq EXCEPT !.direct = TRUE, !.extent = TRUE, !.nslots = 1, !.max_issue = 2, !.capacity = 4, !.left = {{}, {3}, {0, 2}}],
       [Pq EXCEPT !.oracle = TRUE, !.iters = 3]}

FpConfigs ==
  {[Base EXCEPT !.oracle = TRUE],
   [Base EXCEPT !.policy = "P0", !.iters = 3, !.L = 1],
   [Base EXCEPT !.policy = "P1", !.pin = TRUE],
   [Base EXCEPT !.policy = "P2", !.capacity = 3, !.L = 1, !.left = {{}, {2, 3}}],
   [Base EXCEPT !.policy = "P2", !.capacity = 3, !.iters = 2],
   [Base EXCEPT !.policy = "P2", !.pending_cap = 4, !.budget = 1, !.L = 1,
                !.fp = By0(<<3, 4, 5, 2, 1, 6>>), !.vpages = [v \in 0 .. 5 |-> {v}]]}

P3Configs ==
  {[Base EXCEPT !.vpages = OnePage, !.capacity = 2, !.nslots = 1, !.ebatch = 2, !.ahead = 2, !.left = {{}, {2}}],
   [Base EXCEPT !.vpages = OnePage, !.capacity = 3, !.shared = TRUE],
   [Base EXCEPT !.bundled = TRUE, !.warm = TRUE, !.ahead = 2],
   [Base EXCEPT !.extent = TRUE, !.iters = 2, !.ebatch = 2, !.sync_hop = TRUE, !.capacity = 3, !.shared = TRUE],
   [Base EXCEPT !.sync_hop = TRUE, !.nslots = 1, !.ebatch = 2, !.left = {{1, 2}}],
   [Base EXCEPT !.sync_hop = TRUE, !.freeze = TRUE, !.left = SUBSET {0, 1, 2}],
   [Base EXCEPT !.freeze = TRUE, !.capacity = 3, !.vpages = OnePage]}

BeamConfigs ==
  LET Beam == [Base EXCEPT !.algo = "beam", !.iters = 3, !.code = By0(<<5, 4, 6, 3, 2, 1>>)]
  IN  {[Beam EXCEPT !.policy = "P0"],
       [Beam EXCEPT !.policy = "P1", !.L = 1, !.iters = 9, !.capacity = 4],
       [Beam EXCEPT !.policy = "P2", !.rerank = FALSE, !.iters = 2]}

MCConfigs == PqConfigs \cup FpConfigs \cup P3Configs \cup BeamConfigs
==============================================================================
