------------------------------- MODULE NavGraph -------------------------------
(* src/tools/build_nav_graph.cpp and src/serving/nav_graph.hpp: a sample of    *)
(* the records of a DiskANN image, scanned for the entry of a query.           *)
EXTENDS LayoutImage

CONSTANTS
  NavN,   \* --n0 (10000)
  Dist    \* query -> raw id -> distance of the query to that vector

ASSUME NavConstants ==
  NavN \in Nat /\ \A q \in DOMAIN Dist, r \in Raws : \A v \in 0 .. r.n - 1 : Dist[q][v] \in Int

Nav == tool.name = "nav"

\* Any sample: the shuffle is seeded from the command line.
NavStarts ==
  /\ img # NoImage /\ diskann_layout(img.hdr)
  /\ Begins([name |-> "nav"], "write")

\* The sample in the order of its ids, each with its record.
NavWrites ==
  /\ Nav /\ stage = "write"
  /\ \E ids \in [1 .. Min({NavN, raw.n}) -> Vertices] :
       LET Plain == [hdr |-> img.hdr, id_to_slot |-> NoMap, slot_to_id |-> NoMap]
           At(id) == (entry(Plain, id) - img.hdr.off_vectors) \div vec_stride(img.hdr)
       IN  /\ \A i, j \in DOMAIN ids : i < j => ids[i] < ids[j]
           /\ ToolEnds([img EXCEPT !.nav =
                [ids |-> ids, recs |-> [i \in DOMAIN ids |->
                   [vec |-> img.vec[At(ids[i])], nbrs |-> img.graph[At(ids[i])]]]]])

\* The first of the nearest.
search_entry(nav, q) ==
  LET d(i) == Dist[q][nav.recs[i].vec]
      n0   == Len(nav.ids)
  IN  IF n0 = 0 THEN 0
      ELSE nav.ids[CHOOSE i \in 1 .. n0 :
             /\ \A j \in 1 .. n0 : d(i) <= d(j)
             /\ \A j \in 1 .. i - 1 : d(j) > d(i)]

NavSteps == NavStarts \/ NavWrites
==============================================================================
