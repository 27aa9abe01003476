---------------------------- MODULE MCPipe2Sched ----------------------------
(* Command lines for the run: one thread that scores from the bounce       *)
(* buffers, with overlapping page sets none of which contains another, and *)
(* two threads that score from the window, with a single slot, extent runs *)
(* and a page that is pinned.                                              *)
EXTENDS Pipe2Sched

MCPages == 0 .. 4
MCPipes == {0, 1}

MCCross == [q \in 0 .. 3 |-> IF q = 3 THEN {{}, {0, 4}}
                            ELSE {{0, q + 1}, (1 .. 3) \ {q + 1}}]
MCWide  == [q \in 0 .. 4 |-> IF q % 2 = 1 THEN {{}, {q}} ELSE {{q}, {0, 2}}]

MCConfigs ==
  {[score |-> "Bounce", direct |-> FALSE, extent |-> FALSE, nslots |-> 4, chunk |-> 1,
    max_issue |-> 4, capacity |-> 6, pins |-> {}, warmed |-> FALSE, depth |-> 3, nq |-> 4, cands |-> MCCross,
    flush |-> TRUE, threads |-> 1],
   [score |-> "Window", direct |-> FALSE, extent |-> TRUE, nslots |-> 1, chunk |-> 3,
    max_issue |-> 4, capacity |-> 5, pins |-> {1}, warmed |-> FALSE, depth |-> 2, nq |-> 5, cands |-> MCWide,
    flush |-> FALSE, threads |-> 2]}
=============================================================================
