------------------------------ MODULE PageAlign ------------------------------
(* src/tools/pack_layout_pagealign.cpp: the same ids, one vector to each      *)
(* page_stride bytes.                                                         *)
EXTENDS LayoutImage

CONSTANT PageStrides   \* the values of --page-stride (4096)

ASSUME PagealignConstants == PageStrides \subseteq Nat

Pagealign == tool.name = "pagealign"

\* The input is taken to be packed: the tool reads vector i at i * packed.
PagealignStarts ==
  /\ img # NoImage /\ img.hdr.version = 1 /\ vec_stride(img.hdr) = raw.packed
  /\ \E st \in PageStrides : raw.packed <= st /\ Begins([name |-> "pagealign", stride |-> st], "write")

PagealignHeader ==
  Laid(img.hdr, 4096, img.hdr.len_pq, img.hdr.len_graph, raw.n * tool.stride,
       IF img.hdr.len_pivots # 0 THEN img.hdr.len_pivots ELSE 65536)

PagealignWrites ==
  /\ Pagealign /\ stage = "write"
  /\ WritesAll([img EXCEPT !.hdr = PagealignHeader, !.vec = [i \in Vertices |-> Unwritten]])

PagealignSource(i) == i * raw.packed

PagealignThread(t) == Pagealign /\ (TakesChunk(t) \/ CopiesChunk(t, [i \in Vertices |-> PagealignSource(i)]))

PagealignEnds == Pagealign /\ Joined /\ ToolEnds(out)

PagealignSteps ==
  PagealignStarts \/ PagealignWrites \/ PagealignEnds \/ \E t \in Threads : PagealignThread(t)
==============================================================================
