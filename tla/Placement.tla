------------------------------ MODULE Placement ------------------------------
(***************************************************************************)
(* Addresses in a layout image, as src/serving/placement.hpp computes      *)
(* them.  A header h is a record with the fields the program uses:         *)
(*   version, n, R, packed (dim * vec_bytes), pq_bytes, entry_id,          *)
(*   entry_nodes, off_x and len_x for x in pq, graph, vectors, pivots.     *)
(* pl is a Placement: the header, the slot map and its inverse (functions  *)
(* on 0 .. n-1, or with the empty domain when there is no map), and the    *)
(* bundle region behind the image (bundle_stride 0 when there is none).    *)
(***************************************************************************)
EXTENDS Integers, FiniteSets, FiniteSetsExt

NoMap == [x \in {} |-> 0]

\* set_header: the distance of two vectors.
vec_stride(h) ==
  IF h.n # 0 /\ h.len_vectors # 0 THEN Max({h.len_vectors \div h.n, h.packed}) ELSE h.packed

\* A DiskANN record: vector, neighbour count, R neighbour ids.
diskann_payload_bytes(h) == h.packed + 4 + 4 * h.R

diskann_layout(h) ==
  h.version >= 2 \/ (h.len_graph = 0 /\ vec_stride(h) >= diskann_payload_bytes(h))

slot_of(pl, id) == IF id \in DOMAIN pl.id_to_slot THEN pl.id_to_slot[id] ELSE id
id_of_slot(pl, s) == IF s \in DOMAIN pl.slot_to_id THEN pl.slot_to_id[s] ELSE s

\* The other occupant of a page of two records.
page_sibling(pl, id) ==
  LET s   == slot_of(pl, id)
      sib == IF s % 2 = 0 THEN s + 1 ELSE s - 1
  IN  IF 4096 \div vec_stride(pl.hdr) < 2 \/ sib >= pl.hdr.n THEN id ELSE id_of_slot(pl, sib)

\* load_id_slot_map: the map is refused at the first slot that is too large
\* or taken; the inverse has been filled up to there.
Refused(n, slots) ==
  {i \in 0 .. n - 1 : slots[i] >= n \/ \E j \in 0 .. i - 1 : slots[j] = slots[i]}

load_id_slot_map(pl, slots) ==
  LET n    == pl.hdr.n
      bad  == Refused(n, slots)
      upto == IF bad = {} THEN n ELSE Min(bad)
  IN  [pl EXCEPT
         !.id_to_slot = IF bad = {} THEN slots ELSE @,
         !.slot_to_id = [s \in 0 .. n - 1 |->
           IF \E i \in 0 .. upto - 1 : slots[i] = s
           THEN CHOOSE i \in 0 .. upto - 1 : slots[i] = s ELSE 0]]

\* Offsets from the start of the image.
entry(pl, id) == pl.hdr.off_vectors + slot_of(pl, id) * vec_stride(pl.hdr)

vec(pl, id) ==
  IF diskann_layout(pl.hdr) THEN entry(pl, id)
  ELSE pl.hdr.off_vectors + id * vec_stride(pl.hdr)

pq(pl, id) == pl.hdr.off_pq + id * pl.hdr.pq_bytes

nbrs(pl, id) ==
  IF diskann_layout(pl.hdr) THEN entry(pl, id) + pl.hdr.packed + 4
  ELSE pl.hdr.off_graph + id * pl.hdr.R * 4

has_bundle(pl) == pl.bundle_stride # 0

bundle_slot(pl, src, k) == pl.bundle_off + src * pl.bundle_stride + k * pl.hdr.packed

\* Mutant: a vector that began on an earlier page is missed.
for_ids_touching_pages_starts(pl, page_lo, page_hi, pb) ==
  LET h  == pl.hdr
      v0 == h.off_vectors
      lo == Max({page_lo, v0})
      hi == Min({page_hi + pb, v0 + h.len_vectors})
  IN  IF lo >= hi THEN {}
      ELSE (lo - v0) \div vec_stride(h) .. Min({(hi - v0 - 1) \div vec_stride(h), h.n - 1})

\* for_ids_touching_pages: ids whose vectors overlap the pages from page_lo to
\* page_hi.
for_ids_touching_pages(pl, page_lo, page_hi, pb) ==
  LET h  == pl.hdr
      v0 == h.off_vectors
      lo == Max({page_lo, v0})
      hi == Min({page_hi + pb, v0 + h.len_vectors})
      i0 == IF lo - v0 < h.packed THEN 0
            ELSE (lo - v0 - h.packed + vec_stride(h)) \div vec_stride(h)
      i1 == (hi - v0 - 1) \div vec_stride(h)
  IN  IF lo >= hi THEN {} ELSE i0 .. Min({i1, h.n - 1})

\* The vectors of stride st that start at or after lo and end, with length
\* len, before hi, looked for between the first and the last index computed.
ScanPage(v0, n, st, len, page_off, pb) ==
  LET lo == Max({page_off, v0})
      i0 == (lo - v0 + st - 1) \div st
      i1 == Max({(page_off + pb - v0) \div st, 1}) - 1
  IN  {i \in i0 .. Min({i1, n - 1}) :
         v0 + i * st >= page_off /\ v0 + i * st + len <= page_off + pb}

\* The places k of a bundle whose copies lie inside one page of it.
InBundlePage(pl, page_off, pb) ==
  LET local == (page_off - pl.bundle_off) % pl.bundle_stride
  IN  {k \in 0 .. pl.hdr.R - 1 :
         k * pl.hdr.packed >= local /\ (k + 1) * pl.hdr.packed <= local + pb}

\* for_ids_contained_in_page: ids whose record (DiskANN) or vector lies in the
\* page, or whose copy does when the page is one of the bundle.
for_ids_contained_in_page(pl, nb, page_off, pb) ==
  LET h  == pl.hdr
      v0 == h.off_vectors
  IN  IF diskann_layout(h)
      THEN IF page_off + pb <= v0 THEN {}
           ELSE {id_of_slot(pl, i) :
                   i \in ScanPage(v0, h.n, vec_stride(h), vec_stride(h), page_off, pb)}
      ELSE IF h.packed = 0 \/ h.packed > pb THEN {}
      ELSE IF /\ has_bundle(pl) /\ page_off >= pl.bundle_off
              /\ page_off < pl.bundle_off + h.n * pl.bundle_stride
      THEN LET u == (page_off - pl.bundle_off) \div pl.bundle_stride
           IN  {nb[u][k + 1] : k \in InBundlePage(pl, page_off, pb)}
      ELSE IF Max({page_off, v0}) >= v0 + h.len_vectors \/ page_off + pb <= v0 THEN {}
      ELSE ScanPage(v0, h.n, vec_stride(h), h.packed, page_off, pb)

-----------------------------------------------------------------------------
(* The pages a search asks for (src/serving/hide_fill.hpp).                *)

PagesOf(off, len, pb) == {p * pb : p \in off \div pb .. (off + len - 1) \div pb}

hide_collect_vec_pages(pl, id, pb) ==
  PagesOf(vec(pl, id), IF diskann_layout(pl.hdr) THEN vec_stride(pl.hdr) ELSE pl.hdr.packed, pb)

\* Pages of N(src) that hold an id of want (of any id when want is empty).
\* With min_use (in percent) a page with too few wanted copies is replaced by
\* the pages of those ids' own vectors.
hide_collect_bundle_pages(pl, nb, src, want, pb, min_use) ==
  LET Wanted(K) == {k \in K : want = {} \/ nb[src][k + 1] \in want}
      pages  == UNION {PagesOf(bundle_slot(pl, src, k), pl.hdr.packed, pb) :
                         k \in Wanted(0 .. pl.hdr.R - 1)}
      On(p)  == IF diskann_layout(pl.hdr) \/ want = {} THEN {} ELSE InBundlePage(pl, p, pb)
      thin   == {p \in pages :
                   Cardinality(Wanted(On(p))) * 100 < min_use * Cardinality(On(p))}
  IN  (pages \ thin) \cup
      UNION {hide_collect_vec_pages(pl, nb[src][k + 1], pb) :
               k \in UNION {Wanted(On(p)) : p \in thin}}
==============================================================================
