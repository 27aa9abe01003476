----------------------------- MODULE LayoutImage -----------------------------
(***************************************************************************)
(* What the packing tools of src/tools share: each reads a layout image    *)
(* (or the raw vector and graph files), gives the vertices new ids, and    *)
(* writes a new image: header, codes, graph, vectors, then an entry list.  *)
(*                                                                         *)
(* A vector or a code is modelled by the id its vertex has in the raw      *)
(* files.  One tool runs at a time; the image it wrote is the input of the *)
(* next.  Ids at or above n in a graph row are padding.  Beside the regions *)
(* of the image a record holds the files kept with it: entries (the entry  *)
(* list), gfile (the graph file), map (new_to_old), from (the input image  *)
(* that map refers to), bundle (the neighbour bundles) and nav (samples).   *)
(***************************************************************************)
EXTENDS Placement, Sequences, SequencesExt

CONSTANTS
  Raws,        \* raw inputs: n, R, graph (id -> row), entry, packed
  Threads,     \* threads that copy vectors
  KChunk,      \* vectors of one ticket (4096)
  MaxTools,    \* bound: tools run one after the other
  EntryNodes   \* entry_nodes of the raw command line (8192)

ASSUME LayoutConstants ==
  /\ IsFiniteSet(Threads) /\ Threads # {} /\ KChunk \in Nat \ {0}
  /\ MaxTools \in Nat /\ EntryNodes \in Nat \ {0}
  /\ \A r \in Raws :
       /\ r.n \in Nat \ {0} /\ r.R \in Nat \ {0} /\ r.packed \in Nat \ {0}
       /\ r.graph \in [0 .. r.n - 1 -> Seq(Nat)] /\ r.entry \in Nat

VARIABLES
  raw,         \* the raw files
  img,         \* the image at rest
  out,         \* the image being written
  tool,        \* the tool that runs, with its options
  made,        \* the tools that have run
  stage,
  order,       \* new_to_old, as far as assigned
  queue, mark, \* breadth-first search: the queue and the ids it has taken
  todo,        \* the ids that the loop in progress has still to go over
  heap,        \* bundle permute: rem, buckets, cursor h and r, hot ids, the
               \* vertex whose block is placed (of) and the rows to recount (edges)
  next_id,     \* next.fetch_add
  ticket       \* thread -> first id of the chunk it copies, Take or Gone

permVars  == <<order, queue, mark, todo, heap>>
copyVars  == <<next_id, ticket>>
layoutVars == <<raw, img, out, tool, made, stage, permVars, copyVars>>

NoNav    == [ids |-> <<>>]
NoImage  == [hdr |-> [n |-> 0]]
NoHeap   == [of |-> 0]
Take == -1
Gone == -2
Unwritten == -1
Garbled   == -2

Vertices == 0 .. raw.n - 1
HeaderBytes == 116

LayoutInit ==
  /\ raw \in Raws
  /\ img = NoImage /\ out = NoImage /\ made = <<>>
  /\ tool = [name |-> "none"] /\ stage = "idle"
  /\ order = <<>> /\ queue = <<>> /\ mark = {} /\ todo = <<>> /\ heap = NoHeap
  /\ next_id = 0 /\ ticket = [t \in Threads |-> Gone]

-----------------------------------------------------------------------------
\* s with the id v, unless it is padding or there already: assign_one.
With(s, v) == IF v >= raw.n \/ v \in ToSet(s) THEN s ELSE Append(s, v)

\* The next of the ids to go over is assigned the next new id.
AssignsNext ==
  /\ todo # <<>>
  /\ order' = With(order, Head(todo)) /\ todo' = Tail(todo)
  /\ UNCHANGED <<raw, img, out, tool, made, stage, queue, mark, heap, copyVars>>

\* Mutant: it is queued again while it waits in the queue.
QueuesNext_again ==
  /\ todo' = Tail(todo)
  /\ LET v == Head(todo)
     IN  IF v >= raw.n \/ (v \in mark /\ v \notin ToSet(queue)) THEN UNCHANGED <<queue, mark>>
         ELSE queue' = Append(queue, v) /\ mark' = mark \cup {v}

\* It is queued, unless it was before.
QueuesNext ==
  /\ todo' = Tail(todo)
  /\ LET v == Head(todo)
     IN  IF v >= raw.n \/ v \in mark THEN UNCHANGED <<queue, mark>>
         ELSE queue' = Append(queue, v) /\ mark' = mark \cup {v}

AllAssigned == stage = "rest" /\ todo = <<>>
AllIds == [i \in 1 .. raw.n |-> i - 1]

\* An entry id outside the graph is replaced by 0.
Clamped(e) == IF e >= raw.n THEN 0 ELSE e

NewId(u) == (CHOOSE i \in 1 .. Len(order) : order[i] = u) - 1

\* A neighbour's new id; padding becomes id 0.
RemappedRow(row) == [k \in 1 .. raw.R |-> IF row[k] < raw.n THEN NewId(row[k]) ELSE 0]

align_up(x, a) == ((x + a - 1) \div a) * a

\* Mutant: the pivots begin where the vectors would end were they dense.
Laid_dense(h, page, len_pq, len_graph, len_vectors, len_pivots) ==
  LET o1 == align_up(HeaderBytes, page)
      o2 == align_up(o1 + len_pq, page)
      o3 == align_up(o2 + len_graph, page)
      o4 == align_up(o3 + h.n * h.packed, page)
  IN  [h EXCEPT !.off_pq = o1, !.len_pq = len_pq, !.off_graph = o2, !.len_graph = len_graph,
                !.off_vectors = o3, !.len_vectors = len_vectors,
                !.off_pivots = o4, !.len_pivots = len_pivots]

\* Four regions one after the other, each on a page boundary.
Laid(h, page, len_pq, len_graph, len_vectors, len_pivots) ==
  LET o1 == align_up(HeaderBytes, page)
      o2 == align_up(o1 + len_pq, page)
      o3 == align_up(o2 + len_graph, page)
      o4 == align_up(o3 + len_vectors, page)
  IN  [h EXCEPT !.off_pq = o1, !.len_pq = len_pq, !.off_graph = o2, !.len_graph = len_graph,
                !.off_vectors = o3, !.len_vectors = len_vectors,
                !.off_pivots = o4, !.len_pivots = len_pivots]

\* The vector that lies off bytes into the vectors of an image.
VecAt(im, off) ==
  LET st == vec_stride(im.hdr)
  IN  IF off % st = 0 /\ off \div st < raw.n THEN im.vec[off \div st] ELSE Garbled

\* The stride a tool takes the input image to have.
in_stride(im) == vec_stride(im.hdr)

\* A tool begins with empty vectors of its own.
Begins(t, at) ==
  /\ stage = "idle" /\ Len(made) < MaxTools
  /\ tool' = t /\ stage' = at
  /\ order' = <<>> /\ queue' = <<>> /\ mark' = {} /\ todo' = <<>> /\ heap' = NoHeap
  /\ UNCHANGED <<raw, img, out, made, copyVars>>

\* Header, codes and graph are written by the main thread, then the vectors by
\* the threads it starts.
WritesAll(im) ==
  /\ out' = im /\ stage' = "vectors"
  /\ next_id' = 0 /\ ticket' = [t \in Threads |-> Take]
  /\ UNCHANGED <<raw, img, tool, made, permVars>>

\* A thread takes a chunk of ids, or leaves.
TakesChunk(t) ==
  /\ stage = "vectors" /\ ticket[t] = Take
  /\ next_id' = next_id + KChunk
  /\ ticket' = [ticket EXCEPT ![t] = IF next_id >= raw.n THEN Gone ELSE next_id]
  /\ UNCHANGED <<raw, img, out, tool, made, stage, permVars>>

\* It copies them, each from the offset src[ni] of the input's vectors.
CopiesChunk(t, src) ==
  /\ stage = "vectors" /\ ticket[t] >= 0
  /\ LET chunk == ticket[t] .. Min({ticket[t] + KChunk, raw.n}) - 1
     IN  out' = [out EXCEPT !.vec = [ni \in Vertices |->
                   IF ni \in chunk THEN VecAt(img, src[ni]) ELSE @[ni]]]
  /\ ticket' = [ticket EXCEPT ![t] = Take]
  /\ UNCHANGED <<raw, img, tool, made, stage, permVars, next_id>>

Joined == stage = "vectors" /\ \A t \in Threads : ticket[t] = Gone

\* The entry list: breadth first over the graph just written.
EntryBegins(e) ==
  /\ stage' = "entry" /\ queue' = <<e>> /\ mark' = {e} /\ todo' = <<>>
  /\ UNCHANGED <<raw, img, out, tool, made, order, heap, copyVars>>

\* The first of the queue is listed, and its row gone over.
EntryVisits(limit) ==
  /\ stage = "entry" /\ todo = <<>> /\ queue # <<>> /\ Len(out.entries) < limit
  /\ out' = [out EXCEPT !.entries = Append(@, Head(queue))]
  /\ queue' = Tail(queue) /\ todo' = out.graph[Head(queue)]
  /\ UNCHANGED <<raw, img, tool, made, stage, order, mark, heap, copyVars>>

EntryNeighbour ==
  /\ stage = "entry" /\ todo # <<>>
  /\ QueuesNext
  /\ UNCHANGED <<raw, img, out, tool, made, stage, order, heap, copyVars>>

EntryDone(limit) ==
  stage = "entry" /\ todo = <<>> /\ (queue = <<>> \/ Len(out.entries) >= limit)

\* The tool returns and its image is at rest.
ToolEnds(im) ==
  /\ img' = im /\ stage' = "idle" /\ made' = Append(made, tool.name)
  /\ UNCHANGED <<raw, out, tool, permVars, copyVars>>

\* A tool returns without writing an image.
Quits ==
  /\ stage' = "idle" /\ made' = Append(made, tool.name)
  /\ UNCHANGED <<raw, img, out, tool, permVars, copyVars>>
==============================================================================
