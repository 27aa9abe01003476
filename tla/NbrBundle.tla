------------------------------ MODULE NbrBundle ------------------------------
(* src/tools/pack_nbr_bundle.cpp and src/tools/reorder_graph_degree.cpp: a    *)
(* copy of every vertex's neighbours' vectors, in the order of its row of the *)
(* graph file, and the tool that sorts those rows.                            *)
EXTENDS LayoutImage

CONSTANT BundleOff   \* --out-vmem-offset

Nbr == tool.name = "nbr_bundle"
Degree == tool.name = "degree"

nbr_stride == align_up(raw.R * raw.packed, 4096)

\* --in-file is the image the id map was made from.
NbrStarts ==
  /\ img # NoImage /\ img.hdr.version = 1 /\ img.from # NoImage
  /\ Begins([name |-> "nbr_bundle"], "write")

NbrWrites ==
  /\ Nbr /\ stage = "write"
  /\ WritesAll([img EXCEPT !.bundle = [u \in Vertices |-> <<>>]])

\* The copies of row u: padding copies the first vector of the input.
Copies(u) ==
  LET Old(nv) == IF nv < raw.n THEN img.map[nv + 1] ELSE 0
  IN  [k \in 1 .. raw.R |->
         VecAt(img.from, Old(img.gfile[u][k]) * vec_stride(img.from.hdr))]

NbrThread(t) ==
  /\ Nbr
  /\ \/ TakesChunk(t)
     \/ /\ stage = "vectors" /\ ticket[t] >= 0
        /\ LET chunk == ticket[t] .. Min({ticket[t] + KChunk, raw.n}) - 1
           IN  out' = [out EXCEPT !.bundle = [u \in Vertices |->
                         IF u \in chunk THEN Copies(u) ELSE @[u]]]
        /\ ticket' = [ticket EXCEPT ![t] = Take]
        /\ UNCHANGED <<raw, img, tool, made, stage, permVars, next_id>>

NbrEnds == Nbr /\ Joined /\ ToolEnds(out)

-----------------------------------------------------------------------------
\* Rows by falling in-degree, then by id; padding counts as degree 0.
deg(g, v) == IF v < raw.n THEN Cardinality({e \in Vertices \X (1 .. raw.R) : g[e[1]][e[2]] = v}) ELSE 0

Before(g, a, b) == deg(g, a) > deg(g, b) \/ (deg(g, a) = deg(g, b) /\ a <= b)

\* The ways to sort the row.
DegreeSorts(g, row) ==
  {p \in Bijection(1 .. raw.R, 1 .. raw.R) :
     \A i, j \in 1 .. raw.R : i < j => Before(g, row[p[i]], row[p[j]])}

DegreeStarts ==
  img # NoImage /\ img.hdr.version = 1 /\ Begins([name |-> "degree"], "write")

\* The sorted rows go to a new file, for which no bundles are written yet.
DegreeWrites ==
  /\ Degree /\ stage = "write"
  /\ \E by \in [Vertices -> Bijection(1 .. raw.R, 1 .. raw.R)] :
       /\ \A u \in Vertices : by[u] \in DegreeSorts(img.gfile, img.gfile[u])
       /\ ToolEnds([img EXCEPT !.bundle = <<>>,
                      !.gfile = [u \in Vertices |-> [k \in 1 .. raw.R |-> img.gfile[u][by[u][k]]]]])

NbrSteps ==
  NbrStarts \/ NbrWrites \/ NbrEnds \/ DegreeStarts \/ DegreeWrites \/ \E t \in Threads : NbrThread(t)
==============================================================================
