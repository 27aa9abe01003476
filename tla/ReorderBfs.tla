------------------------------ MODULE ReorderBfs ------------------------------
(* src/tools/reorder_layout_bfs.cpp: the raw files to a dense image, ids in  *)
(* breadth-first order from the entry, the neighbours of a vertex together.  *)
EXTENDS LayoutImage

Bfs == tool.name = "bfs"

\* Only the raw files are read; the graph file has n rows of R ids.
BfsStarts ==
  /\ img = NoImage /\ \A u \in Vertices : Len(raw.graph[u]) = raw.R
  /\ Begins([name |-> "bfs"], "assign")

BfsBegins ==
  /\ Bfs /\ stage = "assign"
  /\ order' = <<Clamped(raw.entry)>> /\ queue' = <<Clamped(raw.entry)>>
  /\ stage' = "visit"
  /\ UNCHANGED <<raw, img, out, tool, made, mark, todo, heap, copyVars>>

\* Visit the first of the queue: its free neighbours get the next ids.
BfsVisits ==
  /\ Bfs /\ stage = "visit" /\ todo = <<>> /\ queue # <<>>
  /\ queue' = Tail(queue) /\ todo' = raw.graph[Head(queue)]
  /\ UNCHANGED <<raw, img, out, tool, made, stage, order, mark, heap, copyVars>>

BfsNeighbour ==
  /\ Bfs /\ stage = "visit" /\ todo # <<>>
  /\ order' = With(order, Head(todo))
  /\ queue' = IF order' = order THEN queue ELSE Append(queue, Head(todo))
  /\ todo' = Tail(todo)
  /\ UNCHANGED <<raw, img, out, tool, made, stage, mark, heap, copyVars>>

\* The unreachable ids in raw order.
BfsLeftovers ==
  /\ Bfs /\ stage = "visit" /\ todo = <<>> /\ queue = <<>>
  /\ stage' = "rest" /\ todo' = AllIds
  /\ UNCHANGED <<raw, img, out, tool, made, order, queue, mark, heap, copyVars>>

BfsAssigns == Bfs /\ stage = "rest" /\ AssignsNext

BfsHeader ==
  Laid([version |-> 1, n |-> raw.n, R |-> raw.R, packed |-> raw.packed, pq_bytes |-> 32,
        entry_id |-> NewId(Clamped(raw.entry)), entry_nodes |-> Min({EntryNodes, raw.n}),
        off_pq |-> 0, len_pq |-> 0, off_graph |-> 0, len_graph |-> 0,
        off_vectors |-> 0, len_vectors |-> 0, off_pivots |-> 0, len_pivots |-> 0],
       4096, raw.n * 32, raw.n * raw.R * 4, raw.n * raw.packed, 65536)

BfsGraph == [ni \in Vertices |-> RemappedRow(raw.graph[order[ni + 1]])]

\* Vectors and codes, chunk by chunk in new-id order, each read at its old id.
BfsVectors == [ni \in Vertices |-> order[ni + 1]]

\* The entry was assigned first and has new id 0, so ids 0 .. entry_nodes - 1 are
\* taken for the first of the search; the rebuild for another entry never runs.
BfsEntries == SubSeq(AllIds, 1, BfsHeader.entry_nodes)

BfsWrites ==
  /\ Bfs /\ AllAssigned /\ Len(order) = raw.n /\ BfsHeader.entry_id = 0
  /\ out' = [hdr |-> BfsHeader, graph |-> BfsGraph, vec |-> BfsVectors, pq |-> BfsVectors,
             entries |-> BfsEntries, gfile |-> BfsGraph, map |-> order,
             from |-> NoImage, bundle |-> <<>>, nav |-> NoNav]
  /\ stage' = "files"
  /\ UNCHANGED <<raw, img, tool, made, permVars, copyVars>>

BfsFiles == Bfs /\ stage = "files" /\ ToolEnds(out)

BfsSteps ==
  \/ BfsStarts \/ BfsBegins \/ BfsVisits \/ BfsNeighbour \/ BfsLeftovers \/ BfsAssigns
  \/ BfsWrites \/ BfsFiles
==============================================================================
