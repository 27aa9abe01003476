----------------------------- MODULE MCLayoutTools -----------------------------
(* Vectors of 800 (five to a page, one in five astride), 3072 and 4096 bytes; *)
(* rows with padding, with an id twice, with unreachable ids.                 *)
EXTENDS LayoutTools

Raw(n, packed, entryId, rows) ==
  [n |-> n, R |-> 2, packed |-> packed, entry |-> entryId, graph |-> [u \in 0 .. n - 1 |-> rows[u + 1]]]

MCRaws ==
  {Raw(4, 3072, 2, << <<1, 2>>, <<3, 0>>, <<0, 9>>, <<2, 1>> >>),
   Raw(6, 800, 1, << <<3, 3>>, <<0, 4>>, <<9, 9>>, <<1, 4>>, <<3, 0>>, <<2, 0>> >>),
   Raw(4, 4096, 7, << <<1, 1>>, <<2, 0>>, <<1, 3>>, <<9, 0>> >>)}

MCMaps == {<<2, 0, 3, 1>>, <<5, 3, 0, 1, 4, 2>>}
MCTraces == {<<3, 8, 3, 1>>, <<2, 2, 0>>}
MCDist == << [i \in 0 .. 5 |-> (i * 2 + 3) % 5] >>
==============================================================================
