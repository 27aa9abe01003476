---------------------------- MODULE MCContBatch ----------------------------
(* Two workers on two seats, candidate pages that are shared, one of them  *)
(* pinned, issues cut to one page.                                         *)
EXTENDS ContBatch

MCPages == 0 .. 2

MCLine(capacity, warmed) ==
  [score |-> "Window", direct |-> FALSE, extent |-> FALSE, nslots |-> 2, chunk |-> 1,
   max_issue |-> 1, capacity |-> capacity, pins |-> {1}, warmed |-> warmed, flush |-> FALSE, depth |-> 2, nq |-> 3,
   cands |-> [q \in 0 .. 2 |-> IF q = 2 THEN {{}, {0, 1}, {1, 2}} ELSE {{q}, {0, 2}}]]

MCConfigs == {MCLine(3, TRUE), MCLine(3, FALSE)}
=============================================================================
