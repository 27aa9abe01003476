----------------------------- MODULE DiskannEntry -----------------------------
(* src/tools/pack_diskann_entry.cpp: the vectors of an image and the rows of a *)
(* graph file to records of one stride, vector and row together.               *)
EXTENDS LayoutImage

CONSTANT Strides   \* --stride (2048)

ASSUME DiskannConstants == Strides \subseteq Nat

Diskann == tool.name = "diskann"

DiskannStarts ==
  /\ img # NoImage /\ img.hdr.version = 1
  /\ \E want \in Strides :
       Begins([name |-> "diskann", stride |-> IF want = 0 THEN 4096 ELSE want], "stride")

\* The stride is doubled until it holds a record.
diskann_stride_for ==
  /\ Diskann /\ stage = "stride"
  /\ IF tool.stride < diskann_payload_bytes(img.hdr)
     THEN tool' = [tool EXCEPT !.stride = 2 * @] /\ UNCHANGED stage
     ELSE stage' = "write" /\ UNCHANGED tool
  /\ UNCHANGED <<raw, img, out, made, permVars, copyVars>>

\* A version 2 header: records behind one page, no codes, graph or pivots.
DiskannHeader ==
  [img.hdr EXCEPT !.version = 2, !.pq_bytes = 0, !.off_pq = 0, !.len_pq = 0,
                  !.off_graph = 0, !.len_graph = 0, !.off_pivots = 0, !.len_pivots = 0,
                  !.off_vectors = 4096,
                  !.len_vectors = raw.n * tool.stride]

DiskannWrites ==
  /\ Diskann /\ stage = "write"
  /\ out' = [img EXCEPT !.hdr = DiskannHeader, !.vec = [i \in Vertices |-> Unwritten],
                        !.graph = [i \in Vertices |-> <<>>]]
  /\ next_id' = 0 /\ stage' = "records"
  /\ UNCHANGED <<raw, img, tool, made, permVars, ticket>>

\* Record i: the vector at i * (len_vectors / n), R, and row i.
DiskannRecord ==
  /\ Diskann /\ stage = "records" /\ next_id < raw.n
  /\ out' = [out EXCEPT
       !.vec[next_id] = VecAt(img, next_id * (img.hdr.len_vectors \div raw.n)),
       !.graph[next_id] = img.gfile[next_id]]
  /\ next_id' = next_id + 1
  /\ UNCHANGED <<raw, img, tool, made, stage, permVars, ticket>>

DiskannEnds == Diskann /\ stage = "records" /\ next_id = raw.n /\ ToolEnds(out)

DiskannSteps == DiskannStarts \/ diskann_stride_for \/ DiskannWrites \/ DiskannRecord \/ DiskannEnds
==============================================================================
