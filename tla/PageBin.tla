------------------------------- MODULE PageBin -------------------------------
(* src/tools/pack_layout_pagebin.cpp: an image to a dense one, with the       *)
(* free neighbours of a visited vertex in one block of ids.                   *)
EXTENDS LayoutImage

Pagebin == tool.name = "pagebin"

\* The input is an image with a graph region; it may be strided.
PagebinStarts ==
  /\ img # NoImage /\ img.hdr.len_graph # 0
  /\ \E only \in BOOLEAN : Begins([name |-> "pagebin", metrics_only |-> only], "assign")

PagebinBegins ==
  /\ Pagebin /\ stage = "assign"
  /\ queue' = <<Clamped(img.hdr.entry_id)>> /\ mark' = {Clamped(img.hdr.entry_id)}
  /\ stage' = "visit"
  /\ UNCHANGED <<raw, img, out, tool, made, order, todo, heap, copyVars>>

\* The vertex and its free neighbours are assigned; those never queued before
\* are queued.
PagebinVisits ==
  /\ Pagebin /\ stage = "visit" /\ todo = <<>> /\ queue # <<>>
  /\ order' = With(order, Head(queue))
  /\ queue' = Tail(queue) /\ todo' = img.graph[Head(queue)]
  /\ UNCHANGED <<raw, img, out, tool, made, stage, mark, heap, copyVars>>

PagebinNeighbour ==
  /\ Pagebin /\ stage = "visit" /\ todo # <<>>
  /\ order' = With(order, Head(todo))
  /\ QueuesNext
  /\ UNCHANGED <<raw, img, out, tool, made, stage, heap, copyVars>>

PagebinLeftovers ==
  /\ Pagebin /\ stage = "visit" /\ todo = <<>> /\ queue = <<>>
  /\ stage' = "rest" /\ todo' = AllIds
  /\ UNCHANGED <<raw, img, out, tool, made, order, queue, mark, heap, copyVars>>

PagebinAssigns == Pagebin /\ stage = "rest" /\ AssignsNext

\* Two new ids whose vectors meet on a page of the packed output.
page_share(nu, nv, page) ==
  LET First(x) == (x * raw.packed) \div page
      Last1(x) == (x * raw.packed + raw.packed - 1) \div page
  IN  ~(Last1(nu) < First(nv) \/ Last1(nv) < First(nu))

PagebinMetricsOnly == Pagebin /\ AllAssigned /\ Len(order) = raw.n /\ tool.metrics_only /\ Quits

PagebinHeader ==
  Laid([img.hdr EXCEPT !.entry_id = NewId(Clamped(img.hdr.entry_id))], 4096,
       raw.n * img.hdr.pq_bytes, raw.n * raw.R * 4, raw.n * raw.packed,
       IF img.hdr.len_pivots # 0 THEN img.hdr.len_pivots ELSE 65536)

PagebinCodes == [ni \in Vertices |-> img.pq[order[ni + 1]]]
PagebinGraph == [ni \in Vertices |-> RemappedRow(img.graph[order[ni + 1]])]

PagebinWrites ==
  /\ Pagebin /\ AllAssigned /\ Len(order) = raw.n /\ ~tool.metrics_only
  /\ WritesAll([hdr |-> PagebinHeader, graph |-> PagebinGraph, pq |-> PagebinCodes,
                vec |-> [ni \in Vertices |-> Unwritten], entries |-> <<>>,
                gfile |-> PagebinGraph, map |-> order, from |-> img, bundle |-> <<>>, nav |-> NoNav])

\* Mutant: the input is taken to be dense.
PagebinSource_dense(ni) == order[ni + 1] * raw.packed

PagebinSource(ni) == order[ni + 1] * in_stride(img)

PagebinThread(t) ==
  Pagebin /\ (TakesChunk(t) \/ CopiesChunk(t, [i \in Vertices |-> PagebinSource(i)]))

PagebinLimit == Min({IF img.hdr.entry_nodes # 0 THEN img.hdr.entry_nodes ELSE 8192, raw.n})

PagebinEntry ==
  /\ Pagebin
  /\ \/ Joined /\ EntryBegins(out.hdr.entry_id)
     \/ EntryVisits(PagebinLimit)
     \/ EntryNeighbour

\* The header is written again with the length of the list.
PagebinFiles ==
  /\ Pagebin /\ EntryDone(PagebinLimit)
  /\ ToolEnds([out EXCEPT !.hdr.entry_nodes = Len(out.entries)])

PagebinSteps ==
  \/ PagebinStarts \/ PagebinBegins \/ PagebinVisits \/ PagebinNeighbour
  \/ PagebinLeftovers \/ PagebinAssigns \/ PagebinMetricsOnly \/ PagebinWrites \/ PagebinEntry \/ PagebinFiles
  \/ \E t \in Threads : PagebinThread(t)
==============================================================================
