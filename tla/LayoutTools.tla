----------------------------- MODULE LayoutTools -----------------------------
(***************************************************************************)
(* The packing tools one after the other, each on what the last one left:  *)
(* any chain of at most MaxTools.                                          *)
(***************************************************************************)
EXTENDS ReorderBfs, PageBin, BundlePack, PageAlign, DiskannEntry, NbrBundle, NavGraph

Idle == stage = "idle" /\ Len(made) = MaxTools /\ UNCHANGED layoutVars

LayoutNext ==
  \/ BfsSteps \/ PagebinSteps \/ BundleSteps \/ PagealignSteps \/ DiskannSteps
  \/ NbrSteps \/ NavSteps \/ Idle

LayoutSpec == LayoutInit /\ [][LayoutNext]_layoutVars

-----------------------------------------------------------------------------
AtRest == stage = "idle" /\ img # NoImage

\* The image as the server places it.
ImagePlacement ==
  [hdr |-> img.hdr, id_to_slot |-> NoMap, slot_to_id |-> NoMap, bundle_off |-> BundleOff,
   bundle_stride |-> IF img.bundle = <<>> THEN 0 ELSE nbr_stride]

Count(row, v) == Cardinality({k \in 1 .. raw.R : row[k] = v})

\* Whatever chain of tools made an image, it is the raw data under new ids: every
\* raw vector once, codes beside their vectors, the entry where it was, each
\* valid neighbour in its place of the row (the graph file may order a row
\* differently), the bundles and the samples of the navigation graph the vectors
\* their ids say, and the sample a query enters at its nearest.
ReadsBack == AtRest =>
  /\ {img.vec[i] : i \in Vertices} = Vertices
  /\ img.hdr.len_pq # 0 => img.pq = img.vec
  /\ img.vec[img.hdr.entry_id] = Clamped(raw.entry)
  /\ \A i \in Vertices, k \in 1 .. raw.R :
       img.hdr.len_graph # 0 /\ raw.graph[img.vec[i]][k] < raw.n =>
         img.vec[img.graph[i][k]] = raw.graph[img.vec[i]][k]
  /\ \A i \in Vertices, v \in Vertices : Count(img.gfile[i], v) = Count(img.graph[i], v)
  /\ img.bundle # <<>> =>
       \A i \in Vertices, k \in 1 .. raw.R : img.bundle[i][k] = img.vec[img.gfile[i][k]]
  /\ \A i \in DOMAIN img.nav.ids :
       img.nav.recs[i] = [vec |-> img.vec[img.nav.ids[i]], nbrs |-> img.gfile[img.nav.ids[i]]]
  /\ img.nav.ids # <<>> => \A q \in DOMAIN Dist :
       LET e == search_entry(img.nav, q)
       IN  /\ e \in ToSet(img.nav.ids)
           /\ \A x \in ToSet(img.nav.ids) : Dist[q][img.vec[e]] <= Dist[q][img.vec[x]]

Span(off, len) == [lo |-> off, hi |-> off + len]
Within(a, b) == b.lo <= a.lo /\ a.hi <= b.hi
Meet(a, b) == a.lo < b.hi /\ b.lo < a.hi

Regions ==
  LET h == img.hdr
  IN  {r \in {Span(h.off_pq, h.len_pq), Span(h.off_graph, h.len_graph),
              Span(h.off_vectors, h.len_vectors), Span(h.off_pivots, h.len_pivots)} :
         r.lo < r.hi}

\* Every address the server computes lies in its region, no two ids share a
\* byte of vector, code or row, and the regions are page-aligned, behind the
\* header and apart: true of every stride, record size and vector size a chain
\* of tools can combine.
RegionsApart == AtRest =>
  LET h    == img.hdr
      V(i) == Span(vec(ImagePlacement, i), h.packed)
      N(i) == Span(nbrs(ImagePlacement, i), 4 * h.R)
      C(i) == Span(pq(ImagePlacement, i), h.pq_bytes)
      S(r) == CHOOSE s \in Regions : s.lo = r
      all  == {V(i) : i \in Vertices} \cup {N(i) : i \in Vertices} \cup
              (IF h.pq_bytes = 0 THEN {} ELSE {C(i) : i \in Vertices})
  IN  /\ \A r \in Regions : r.lo % 4096 = 0 /\ r.lo >= HeaderBytes
      /\ \A r, s \in Regions : r # s => ~Meet(r, s)
      /\ \A a \in all : \E r \in Regions : Within(a, r)
      /\ \A a, b \in all : a # b => ~Meet(a, b)
      /\ \A i \in Vertices : Within(V(i), S(h.off_vectors))

Page(p) == Span(p, 4096)
VectorPages == PagesOf(img.hdr.off_vectors, img.hdr.len_vectors, 4096)
VectorAt(i) == Span(vec(ImagePlacement, i), raw.packed)
RecordAt(i) ==
  IF diskann_layout(img.hdr) THEN Span(entry(ImagePlacement, i), vec_stride(img.hdr)) ELSE VectorAt(i)

CopyAt(u, k) == Span(bundle_slot(ImagePlacement, u, k - 1), raw.packed)
BundlePages(u) == PagesOf(bundle_slot(ImagePlacement, u, 0), nbr_stride, 4096)

StrideFits == vec_stride(img.hdr) = raw.packed \/ 4096 % vec_stride(img.hdr) = 0
StrideInPage(i, p) == i = 0 \/ img.hdr.off_vectors + (i + 1) * vec_stride(img.hdr) <= p + 4096

\* placement.hpp calls the second list "IDs whose full packed vector lies inside
\* one page".  It is that when the stride is the packed size or divides a page;
\* with any other stride the scan leaves out the ids (but 0) whose vector ends in
\* the page while their stride does not.
IdsOfPage(p) ==
  /\ for_ids_touching_pages(ImagePlacement, p, p, 4096) = {i \in Vertices : Meet(VectorAt(i), Page(p))}
  /\ for_ids_contained_in_page(ImagePlacement, img.gfile, p, 4096) =
       {i \in Vertices : Within(RecordAt(i), Page(p)) /\ (StrideFits \/ StrideInPage(i, p))}

PagesOfId(i) ==
  hide_collect_vec_pages(ImagePlacement, i, 4096) = {p \in VectorPages : Meet(RecordAt(i), Page(p))}

\* The packers' own statistics.
PageInside(q) ==
  contained_lo_hi(q, 4096) =
    {i \in Vertices : Within(VectorAt(i), Page(img.hdr.off_vectors + q * 4096))}

PageShared(i, j) ==
  page_share(i, j, 4096) <=> \E p \in VectorPages : Meet(VectorAt(i), Page(p)) /\ Meet(VectorAt(j), Page(p))

IdsOfBundlePage(u, p) ==
  for_ids_contained_in_page(ImagePlacement, img.gfile, p, 4096) =
    {img.gfile[u][k] : k \in {j \in 1 .. raw.R : Within(CopyAt(u, j), Page(p))}}

CopyAsked(u, k, use) ==
  LET v   == img.gfile[u][k]
      own == PagesOf(CopyAt(u, k).lo, raw.packed, 4096)
      ask == hide_collect_bundle_pages(ImagePlacement, img.gfile, u, {v}, 4096, use)
  IN  (use = 0 \/ Cardinality(own) = 1) =>
        own \subseteq ask \/ hide_collect_vec_pages(ImagePlacement, v, 4096) \subseteq ask

\* The index arithmetic over pages means what it says, for every stride the tools
\* take: the ids touching a page are those whose vector overlaps it; the ids
\* contained in it those whose vector (record, in a DiskANN image; copy, in a
\* bundle) lies inside it, less exactly the ones an odd stride hides (IdsOfPage);
\* the pages of an id those its vector overlaps, wherever vectors straddle pages;
\* and a wanted copy is asked for in the bundle or by the id's own pages (not
\* always when it straddles pages and thin pages are skipped).
PagesHold == AtRest =>
  /\ \A p \in VectorPages : IdsOfPage(p)
  /\ \A i \in Vertices : PagesOfId(i)
  /\ img.hdr.version = 1 /\ vec_stride(img.hdr) = raw.packed =>
       /\ \A q \in 0 .. Cardinality(VectorPages) - 1 : PageInside(q)
       /\ \A i, j \in Vertices : PageShared(i, j)
  /\ has_bundle(ImagePlacement) /\ img.hdr.version = 1 => \A u \in Vertices :
       /\ \A p \in BundlePages(u) : IdsOfBundlePage(u, p)
       /\ \A k \in 1 .. raw.R, use \in {0, 60} : CopyAsked(u, k, use)

\* The bundle's file begins on a page behind the vectors.
BundleApart == AtRest /\ img.bundle # <<>> =>
  BundleOff \in Nat /\ BundleOff % 4096 = 0 /\ BundleOff >= img.hdr.off_vectors + img.hdr.len_vectors

\* The entry list has no id twice, begins at the entry, is as long as the header
\* says, and (when it was searched for in the graph written) each later id is a
\* neighbour of an earlier one.
EntryListRight == AtRest =>
  LET l == img.entries
  IN  /\ IsInjective(l) /\ l[1] = img.hdr.entry_id /\ Len(l) = img.hdr.entry_nodes
      /\ img.from # NoImage =>
           \A i \in 2 .. Len(l) : \E j \in 1 .. i - 1 : Count(img.gfile[l[j]], l[i]) > 0

OnceInRows == \A w \in Vertices : \A j, k \in PlacesIn(w, Vertices) : Row(w)[j] = Row(w)[k] => j = k

\* While blocks are chosen no candidate is lost: a vertex with something left to
\* place is filed under its present count, at or below the cursor that pop_best
\* scans down from, and its count is the number of unplaced places of its row
\* (no more than that when a row holds an id twice).
BestFirst == (Bundle /\ stage = "blocks") => \A u \in Vertices :
  LET left == Cardinality(PlacesIn(u, Unplaced))
  IN  /\ heap.rem[u] > 0 => u \in ToSet(heap.buckets[Bucket(u)]) /\ Below(Bucket(u))
      /\ heap.rem[u] <= left
      /\ OnceInRows => heap.rem[u] = left
==============================================================================
