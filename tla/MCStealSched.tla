---------------------------- MODULE MCStealSched ----------------------------
(* Command lines for the runs: window scoring with pages apart, bounce     *)
(* scoring with a flushed window, pages apart and pages shared, and two    *)
(* queries with the same page.  A page of the first query is pinned.       *)
EXTENDS StealSched

MCPages == 0 .. 5

\* Every query has pages of its own.
MCApart == [q \in 0 .. 3 |-> IF q = 0 THEN {{}, {0, 1}, {0, 5}} ELSE {{q + 1}}]
\* Any sets of pages, one within another included.
MCAny   == [q \in 0 .. 2 |-> IF q = 2 THEN {{}, {0}} ELSE IF q = 1 THEN {{0}, {0, 1}, {1, 2}}
                         ELSE SUBSET (0 .. 2)]
\* Two queries with the same page.
MCSame  == [q \in 0 .. 1 |-> {{0}}]

MCLine(score, flush, nq, cands) ==
  [score |-> score, direct |-> FALSE, extent |-> FALSE, nslots |-> 2, chunk |-> 1,
   max_issue |-> 4, capacity |-> 6, pins |-> {5}, warmed |-> FALSE, depth |-> 2, nq |-> nq, cands |-> cands, flush |-> flush]

MCConfigs ==
  {MCLine("Window", FALSE, 4, MCApart), MCLine("Bounce", TRUE, 4, MCApart), MCLine("Bounce", TRUE, 3, MCAny)}
MCSamePage == {MCLine("Window", FALSE, 2, MCSame)}
=============================================================================
