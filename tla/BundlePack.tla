------------------------------ MODULE BundlePack ------------------------------
(***************************************************************************)
(* src/tools/pack_layout_bundle.cpp: an image to a dense one whose ids     *)
(* come from a given map, from the order of a score trace, or from blocks: *)
(* the vertex with the most unplaced neighbours is chosen, hot ones first, *)
(* and its unplaced neighbours get consecutive ids.                        *)
(***************************************************************************)
EXTENDS LayoutImage

CONSTANTS
  EvalMaps,    \* new_to_old files, each id once
  ScoreTraces, \* score traces: sequences of ids, some outside the image
  HotN         \* hot_n (200000)

ASSUME BundleConstants ==
  /\ EvalMaps \cup ScoreTraces \subseteq Seq(Nat) /\ HotN \in Nat
  /\ \A m \in EvalMaps : IsInjective(m)

Bundle == tool.name = "bundle"
Row(u) == img.graph[u]

BundleStarts ==
  /\ img # NoImage /\ img.hdr.len_graph # 0
  /\ \E mode \in {"map", "trace", "blocks"}, only \in BOOLEAN :
       Begins([name |-> "bundle", mode |-> mode, metrics_only |-> only], "depth")

\* Breadth first from the entry; mark is depth # 0xFFFF, order the visits.
BundleDepthBegins ==
  /\ Bundle /\ stage = "depth"
  /\ queue' = <<Clamped(img.hdr.entry_id)>> /\ mark' = {Clamped(img.hdr.entry_id)}
  /\ stage' = "visit"
  /\ UNCHANGED <<raw, img, out, tool, made, order, todo, heap, copyVars>>

BundleDepthVisits ==
  /\ Bundle /\ stage = "visit" /\ todo = <<>> /\ queue # <<>>
  /\ order' = Append(order, Head(queue))
  /\ queue' = Tail(queue) /\ todo' = Row(Head(queue))
  /\ UNCHANGED <<raw, img, out, tool, made, stage, mark, heap, copyVars>>

BundleDepthNeighbour ==
  /\ Bundle /\ stage = "visit" /\ todo # <<>>
  /\ QueuesNext
  /\ UNCHANGED <<raw, img, out, tool, made, stage, order, heap, copyVars>>

Assigning == stage = "visit" /\ todo = <<>> /\ queue = <<>>

BundleFromMap ==
  /\ Bundle /\ Assigning /\ tool.mode = "map"
  /\ \E m \in EvalMaps : Len(m) = raw.n /\ ToSet(m) \subseteq Vertices /\ order' = m
  /\ stage' = "rest"
  /\ UNCHANGED <<raw, img, out, tool, made, queue, mark, todo, heap, copyVars>>

\* First touch in the trace, then the ids it does not hold.
BundleFromTrace ==
  /\ Bundle /\ Assigning /\ tool.mode = "trace"
  /\ order' = <<>> /\ \E tr \in ScoreTraces : todo' = tr \o AllIds
  /\ stage' = "rest"
  /\ UNCHANGED <<raw, img, out, tool, made, queue, mark, heap, copyVars>>

-----------------------------------------------------------------------------
(* Blocks.  rem[u] is the number of row entries of u still to place, as    *)
(* the tool counts it; a vertex is filed under (hot, rem), again each time *)
(* rem drops, so a bucket also holds stale entries.                        *)

\* The places of the row of u whose ids are in S.
PlacesIn(u, S) == {k \in 1 .. raw.R : Row(u)[k] \in S}
Unplaced == Vertices \ ToSet(order)

Hot(u) == IF u \in heap.hot THEN 1 ELSE 0
Bucket(u) == <<Hot(u), heap.rem[u]>>

BundleBlocksBegin ==
  /\ Bundle /\ Assigning /\ tool.mode = "blocks"
  /\ heap' = [rem |-> [u \in Vertices |-> Cardinality(PlacesIn(u, Vertices))],
              hot |-> {order[i] : i \in 1 .. Min({HotN, Len(order)})},
              buckets |-> [b \in {0, 1} \X (0 .. raw.R) |-> <<>>], h |-> 1, r |-> raw.R,
              of |-> 0, edges |-> {}]
  /\ order' = <<>> /\ todo' = AllIds /\ stage' = "file"
  /\ UNCHANGED <<raw, img, out, tool, made, queue, mark, copyVars>>

\* Every vertex is filed under its count.
BundleFilesVertex ==
  /\ Bundle /\ stage = "file"
  /\ IF todo = <<>> THEN stage' = "blocks" /\ UNCHANGED <<heap, todo>>
     ELSE /\ heap' = [heap EXCEPT !.buckets[Bucket(Head(todo))] = Append(@, Head(todo))]
          /\ todo' = Tail(todo) /\ UNCHANGED stage
  /\ UNCHANGED <<raw, img, out, tool, made, order, queue, mark, copyVars>>

\* Buckets in the order pop_best scans them: at the cursor or below.
Under(b, h, r) == b[1] < h \/ (b[1] = h /\ b[2] <= r)
Below(b) == Under(b, heap.h, heap.r)
Filled == {b \in DOMAIN heap.buckets : Below(b) /\ heap.buckets[b] # <<>>}

\* pop_best, one entry at a time: the last of the highest bucket.  A stale entry
\* is dropped, as is a vertex with nothing left to place; else its unplaced
\* neighbours are the block, one place in it for each place in the row.
BundleBlock ==
  /\ Bundle /\ stage = "blocks" /\ Len(order) < raw.n
  /\ \E b \in Filled :
       LET u      == Last(heap.buckets[b])
           popped == [heap EXCEPT !.buckets[b] = Front(@), !.h = b[1], !.r = b[2]]
           block  == PlacesIn(u, Unplaced)
       IN  /\ \A c \in Filled : Under(c, b[1], b[2])
           /\ IF Bucket(u) # b \/ heap.rem[u] = 0
              THEN heap' = popped /\ UNCHANGED <<todo, stage>>
              ELSE IF block = {}
              THEN heap' = [popped EXCEPT !.rem[u] = 0] /\ UNCHANGED <<todo, stage>>
              ELSE /\ heap' = [popped EXCEPT !.of = u,
                        !.edges = {e \in block \X Vertices \X (1 .. raw.R) : Row(e[2])[e[3]] = Row(u)[e[1]]}]
                   /\ todo' = Row(u) /\ stage' = "place"
  /\ UNCHANGED <<raw, img, out, tool, made, order, queue, mark, copyVars>>

BundlePlaces == Bundle /\ stage = "place" /\ AssignsNext

\* Mutant: a row whose count dropped is not filed again.
Unplace_unfiled(e) ==
  [heap EXCEPT !.edges = @ \ {e}, !.rem[e[2]] = IF @ = 0 THEN 0 ELSE @ - 1]

\* One place of a row is taken, and not below 0; the row is filed again, and the
\* cursor raised to it.
Unplace(e) ==
  LET w == e[2]
      b == <<Hot(w), heap.rem[w] - 1>>
  IN  IF heap.rem[w] = 0 THEN [heap EXCEPT !.edges = @ \ {e}]
      ELSE [heap EXCEPT !.edges = @ \ {e}, !.rem[w] = b[2], !.buckets[b] = Append(@, w),
                        !.h = IF Below(b) THEN @ ELSE b[1], !.r = IF Below(b) THEN @ ELSE b[2]]

\* The rows that hold an id of the block, in the order of inadj: block place,
\* row, place in the row.
BundleUnplaces ==
  /\ Bundle /\ stage = "place" /\ todo = <<>>
  /\ IF heap.edges = {} THEN stage' = "blocks" /\ UNCHANGED heap
     ELSE /\ \E e \in heap.edges :
               /\ \A f \in heap.edges : e[1] < f[1] \/ (e[1] = f[1] /\
                                        (e[2] < f[2] \/ (e[2] = f[2] /\ e[3] <= f[3])))
               /\ heap' = Unplace(e)
          /\ UNCHANGED stage
  /\ UNCHANGED <<raw, img, out, tool, made, order, queue, mark, todo, copyVars>>

BundleLeftovers ==
  /\ Bundle /\ stage = "blocks" /\ (Len(order) = raw.n \/ Filled = {})
  /\ todo' = AllIds /\ stage' = "rest"
  /\ UNCHANGED <<raw, img, out, tool, made, order, queue, mark, heap, copyVars>>

BundleAssigns == Bundle /\ stage = "rest" /\ AssignsNext

-----------------------------------------------------------------------------
\* The ids whose vectors lie in page p of the vectors, for the statistics.
contained_lo_hi(p, page) ==
  LET i0 == (p * page + raw.packed - 1) \div raw.packed
      i1 == Min({Max({((p + 1) * page) \div raw.packed, 1}) - 1, raw.n - 1})
      some == raw.packed <= page /\ i0 < raw.n /\ i0 <= i1
  IN  {id \in (IF some THEN i0 .. i1 ELSE {0}) :
         id * raw.packed >= p * page /\ (id + 1) * raw.packed <= (p + 1) * page}

BundleMetricsOnly ==
  Bundle /\ AllAssigned /\ (tool.metrics_only \/ Len(order) # raw.n) /\ Quits

BundleHeader ==
  Laid([img.hdr EXCEPT !.entry_id = NewId(Clamped(img.hdr.entry_id))], 4096,
       raw.n * img.hdr.pq_bytes, raw.n * raw.R * 4, raw.n * raw.packed,
       IF img.hdr.len_pivots # 0 THEN img.hdr.len_pivots ELSE 65536)

BundleCodes == [ni \in Vertices |-> img.pq[order[ni + 1]]]
BundleGraph == [ni \in Vertices |-> RemappedRow(Row(order[ni + 1]))]

BundleWrites ==
  /\ Bundle /\ AllAssigned /\ ~tool.metrics_only /\ Len(order) = raw.n
  /\ WritesAll([hdr |-> BundleHeader, graph |-> BundleGraph, pq |-> BundleCodes,
                vec |-> [ni \in Vertices |-> Unwritten], entries |-> <<>>,
                gfile |-> BundleGraph, map |-> order, from |-> img, bundle |-> <<>>, nav |-> NoNav])

BundleSource(ni) == order[ni + 1] * in_stride(img)

BundleThread(t) == Bundle /\ (TakesChunk(t) \/ CopiesChunk(t, [i \in Vertices |-> BundleSource(i)]))

BundleLimit == Min({IF img.hdr.entry_nodes # 0 THEN img.hdr.entry_nodes ELSE 8192, raw.n})

BundleEntry ==
  /\ Bundle
  /\ \/ Joined /\ EntryBegins(out.hdr.entry_id)
     \/ EntryVisits(BundleLimit)
     \/ EntryNeighbour

BundleFiles ==
  /\ Bundle /\ EntryDone(BundleLimit)
  /\ ToolEnds([out EXCEPT !.hdr.entry_nodes = Len(out.entries)])

BundleSteps ==
  \/ BundleStarts \/ BundleDepthBegins \/ BundleDepthVisits \/ BundleDepthNeighbour
  \/ BundleFromMap \/ BundleFromTrace \/ BundleBlocksBegin \/ BundleFilesVertex
  \/ BundleBlock \/ BundlePlaces \/ BundleUnplaces \/ BundleLeftovers \/ BundleAssigns
  \/ BundleMetricsOnly \/ BundleWrites \/ BundleEntry \/ BundleFiles
  \/ \E t \in Threads : BundleThread(t)
==============================================================================
