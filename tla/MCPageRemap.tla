----------------------------- MODULE MCPageRemap -----------------------------
(* Rows with padding, with an id twice and with the vertex itself; an odd n   *)
(* only in the modes that pair.                                               *)
EXTENDS PageRemap

Source(n, rows, modes) == [n |-> n, rows |-> [v \in 0 .. n - 1 |-> rows[v + 1]], modes |-> modes]

Rows6 == << <<3, 5>>, <<2, 2>>, <<4, 9>>, <<3, 0>>, <<5, 1>>, <<3, 4>> >>
Rows5 == << <<3, 4>>, <<4, 2>>, <<0, 9>>, <<4, 2>>, <<1, 1>> >>

EvenSources ==
  {Source(6, Rows6, {"neighbor", "coexpand", "cooccur", "extent"}),
   Source(5, Rows5, {"neighbor", "coexpand", "cooccur"})}

OddExtent == {Source(5, Rows5, {"coexpand", "extent"})}

MCTraces == {<<>>, << <<4, 1, 9>>, <<1, 0>>, <<>>, <<2, 3>> >>}
==============================================================================
