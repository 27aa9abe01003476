------------------------------ MODULE PageRemap ------------------------------
(***************************************************************************)
(* src/tools/remap_diskann_pages.cpp: records of a DiskANN image, two to a *)
(* page, are given slots so that records used together share a page.  The  *)
(* ids stay: the tool writes the slot of each id and the image in slot     *)
(* order, and the server loads both (load_id_slot_map of Placement).       *)
(*                                                                         *)
(* A record is modelled by its id.  Jobs run one after the other; a job in *)
(* extent mode reads the map an earlier one wrote.                         *)
(***************************************************************************)
EXTENDS Placement, Sequences, SequencesExt

CONSTANTS
  Sources,    \* images: n, rows (id -> neighbours), modes (to run on it)
  Traces,     \* expand traces: sequences of id lists
  MaxJobs     \* bound on jobs

ASSUME RemapConstants ==
  /\ MaxJobs \in Nat /\ Traces \subseteq Seq(Seq(Nat))
  /\ \A s \in Sources : s.n \in Nat \ {0} /\ s.rows \in [0 .. s.n - 1 -> Seq(Nat)]

VARIABLES
  src,        \* the image read, in id order
  job,        \* options of the job that runs
  pc,
  u,          \* id, run or slot the job's loop has come to
  mate,       \* id -> its mate, or Nobody
  j, pending, \* coexpand: neighbours of u seen, the one that waits for a mate
  edges,      \* co-occurring pairs <<a, b>>, a < b, not looked at yet
  next,       \* slots or pages given
  slots,      \* id_to_slot in memory
  new_page,   \* old_to_new of extent: page -> its new place, or Nobody
  mapFile,    \* id_to_slot.bin
  image,      \* the image written: slot -> id
  done,       \* jobs finished
  ok          \* the last one succeeded

pairing == <<mate, j, pending, edges>>
placing == <<next, slots, new_page>>
files   == <<mapFile, image>>
result  == <<done, ok>>
vars == <<src, job, pc, u, pairing, placing, files, result>>

Nobody == -1
Empty  == <<>>
Ids    == 0 .. src.n - 1
Pages  == 0 .. (src.n + 1) \div 2 - 1
Used(m) == {v \in Ids : m[v] # Nobody}
Paired(m, a, b) == [m EXCEPT ![a] = b, ![b] = a]

\* Neighbours of v the tool looks at.
Wanted(v) == {w \in ToSet(src.rows[v]) : w < src.n /\ w # v}

Init ==
  /\ src \in Sources
  /\ job = [mode |-> "none"] /\ pc = "idle" /\ u = 0
  /\ mate = Empty /\ j = 0 /\ pending = Nobody /\ edges = {}
  /\ next = 0 /\ slots = Empty /\ new_page = Empty
  /\ mapFile = Empty /\ image = Empty /\ done = 0 /\ ok = TRUE

\* A list ends the trace when its length is 0 (or above 256).
Expands(trace) ==
  {i \in 1 .. Len(trace) : \A k \in 1 .. i : trace[k] # <<>>}

Starts(mode) ==
  /\ pc = "idle" /\ done < MaxJobs /\ mode \in src.modes
  /\ \E tr \in Traces, map_only, trace_pairs \in BOOLEAN :
       /\ job' = [mode |-> mode, trace |-> tr, map_only |-> map_only,
                  trace_pairs |-> trace_pairs, map_in |-> mapFile]
       /\ trace_pairs => mode = "cooccur"
       /\ mode \in {"neighbor", "coexpand"} => tr = <<>>
  /\ u' = 0 /\ mate' = [v \in Ids |-> Nobody] /\ j' = 0 /\ pending' = Nobody /\ edges' = {}
  /\ next' = 0 /\ slots' = [v \in Ids |-> Nobody] /\ new_page' = [p \in Pages |-> Nobody]
  /\ pc' = mode
  /\ UNCHANGED <<src, files, result>>

-----------------------------------------------------------------------------
(* Pairing.                                                                *)

\* Places in the row of v of the neighbours that are free.
FreeAt(m, v) == {k \in DOMAIN src.rows[v] : src.rows[v][k] \in Wanted(v) \ Used(m)}

\* Mutant: the neighbour's own mate is not looked at.
PairsUp_taken(m, v) ==
  LET seen == {k \in DOMAIN src.rows[v] : src.rows[v][k] \in Wanted(v)}
  IN  IF v \in Used(m) \/ seen = {} THEN m ELSE Paired(m, v, src.rows[v][Min(seen)])

\* The first free neighbour becomes the mate.
PairsUp(m, v) ==
  IF v \in Used(m) \/ FreeAt(m, v) = {} THEN m
  ELSE Paired(m, v, src.rows[v][Min(FreeAt(m, v))])

\* Mode neighbor, and what cooccur does with the ids its pairs leave over.
NeighborStep ==
  /\ pc \in {"neighbor", "leftover"} /\ u < src.n
  /\ mate' = PairsUp(mate, u) /\ u' = u + 1
  /\ UNCHANGED <<src, job, pc, j, pending, edges, placing, files, result>>

\* Mode coexpand: the free members of a row are paired as they come.
CoexpandMeets ==
  /\ pc = "coexpand" /\ u < src.n /\ j < Len(src.rows[u])
  /\ LET v == src.rows[u][j + 1]
     IN  IF v \notin Wanted(u) \ Used(mate) \/ v = pending THEN UNCHANGED <<mate, pending>>
         ELSE IF pending = Nobody THEN pending' = v /\ UNCHANGED mate
         ELSE pending' = Nobody /\ mate' = Paired(mate, pending, v)
  /\ j' = j + 1
  /\ UNCHANGED <<src, job, pc, u, edges, placing, files, result>>

CoexpandNext ==
  /\ pc = "coexpand" /\ u < src.n /\ j = Len(src.rows[u])
  /\ u' = u + 1 /\ j' = 0 /\ pending' = Nobody
  /\ UNCHANGED <<src, job, pc, mate, edges, placing, files, result>>

\* Mode cooccur: a pair weighs 1 for each row and 1000 for each list of the
\* trace that holds both.
Weight(e) ==
  LET rows == {v \in Ids : e \subseteq Wanted(v)}
      lists == {i \in Expands(job.trace) : e \subseteq ToSet(job.trace[i])}
  IN  (IF job.trace_pairs THEN 0 ELSE Cardinality(rows)) + 1000 * Cardinality(lists)

Ends(e) == {e[1], e[2]}

CooccurWeighs ==
  /\ pc = "cooccur"
  /\ edges' = {e \in Ids \X Ids : e[1] < e[2] /\ Weight(Ends(e)) > 0}
  /\ pc' = "match"
  /\ UNCHANGED <<src, job, u, mate, j, pending, placing, files, result>>

\* Heaviest first, equal weights in any order (the sort is not stable).
CooccurMatch ==
  /\ pc = "match"
  /\ \E e \in edges :
       /\ \A f \in edges : Weight(Ends(f)) <= Weight(Ends(e))
       /\ edges' = edges \ {e}
       /\ mate' = IF Ends(e) \cap Used(mate) # {} THEN mate ELSE Paired(mate, e[1], e[2])
  /\ UNCHANGED <<src, job, pc, u, j, pending, placing, files, result>>

CooccurRest ==
  /\ pc = "match" /\ edges = {}
  /\ pc' = "leftover"
  /\ UNCHANGED <<src, job, u, pairing, placing, files, result>>

-----------------------------------------------------------------------------
(* Slots: pairs in the order of their smaller id, then the ids without a   *)
(* mate.                                                                   *)

PairingEnds ==
  /\ pc \in {"neighbor", "leftover", "coexpand"} /\ u = src.n
  /\ pc' = "pairs" /\ u' = 0
  /\ UNCHANGED <<src, job, pairing, placing, files, result>>

\* Mutant: the mate's slot is left to the loop over the ids without one.
GivesPair_first == slots' = [slots EXCEPT ![u] = next] /\ next' = next + 1

GivesPair ==
  slots' = [slots EXCEPT ![u] = next, ![mate[u]] = next + 1] /\ next' = next + 2

AssignsPair ==
  /\ pc = "pairs" /\ u < src.n
  /\ IF u < mate[u] THEN GivesPair ELSE UNCHANGED <<slots, next>>
  /\ u' = u + 1
  /\ UNCHANGED <<src, job, pc, pairing, new_page, files, result>>

PairsEnd ==
  /\ pc = "pairs" /\ u = src.n
  /\ pc' = "alone" /\ u' = 0
  /\ UNCHANGED <<src, job, pairing, placing, files, result>>

AssignsAlone ==
  /\ pc = "alone" /\ u < src.n
  /\ IF slots[u] = Nobody THEN slots' = [slots EXCEPT ![u] = next] /\ next' = next + 1
     ELSE UNCHANGED <<slots, next>>
  /\ u' = u + 1
  /\ UNCHANGED <<src, job, pc, pairing, new_page, files, result>>

\* Every slot or page must have been given, else the tool stops.
Checks(given) ==
  /\ pc' = IF next = given THEN "map" ELSE "idle"
  /\ done' = IF next = given THEN done ELSE done + 1
  /\ ok' = IF next = given THEN ok ELSE FALSE

AssignEnds ==
  /\ pc = "alone" /\ u = src.n
  /\ Checks(src.n)
  /\ UNCHANGED <<src, job, u, pairing, placing, files>>

-----------------------------------------------------------------------------
(* Mode extent: pages of a given map are moved whole, the pages of one     *)
(* expand next to one another: the traces first, then the rows, then all.  *)

pages_of(ids) == {job.map_in[v] \div 2 : v \in ids \cap Ids}

\* Runs before the one with every page.
NRuns == Cardinality(Expands(job.trace)) + src.n

Run(k) ==
  LET traced == Cardinality(Expands(job.trace))
  IN  IF k < traced THEN pages_of(ToSet(job.trace[k + 1]))
      ELSE IF k < NRuns THEN pages_of(Wanted(k - traced))
      ELSE Pages

Usable == job.map_in # Empty /\ \A v \in Ids : job.map_in[v] < src.n

ExtentLoads ==
  /\ pc = "extent" /\ Usable
  /\ pc' = "emit"
  /\ UNCHANGED <<src, job, u, pairing, placing, files, result>>

\* No map, or one with a slot outside the image.
ExtentRefuses ==
  /\ pc = "extent" /\ ~Usable
  /\ pc' = "idle" /\ done' = done + 1 /\ ok' = FALSE
  /\ UNCHANGED <<src, job, u, pairing, placing, files>>

\* The first page of the run without a place gets the next one.
ExtentEmits ==
  /\ pc = "emit" /\ u <= NRuns
  /\ LET free == {p \in Run(u) \cap Pages : new_page[p] = Nobody}
     IN  IF free = {} THEN u' = u + 1 /\ UNCHANGED <<new_page, next>>
         ELSE /\ new_page' = [new_page EXCEPT ![Min(free)] = next]
              /\ next' = next + 1 /\ UNCHANGED u
  /\ UNCHANGED <<src, job, pc, pairing, slots, files, result>>

ExtentMoves ==
  /\ pc = "emit" /\ u > NRuns
  /\ Checks((src.n + 1) \div 2)
  /\ slots' = [v \in Ids |-> 2 * new_page[job.map_in[v] \div 2] + (job.map_in[v] % 2)]
  /\ UNCHANGED <<src, job, u, pairing, next, new_page, files>>

-----------------------------------------------------------------------------
(* The files.                                                              *)

\* The map is written; unless only the map was asked for, the image is opened,
\* which empties it.
WritesMap ==
  /\ pc = "map"
  /\ mapFile' = slots /\ image' = (IF job.map_only THEN image ELSE Empty) /\ u' = 0
  /\ pc' = IF job.map_only THEN "idle" ELSE "image"
  /\ done' = IF job.map_only THEN done + 1 ELSE done
  /\ ok' = IF job.map_only THEN TRUE ELSE ok
  /\ UNCHANGED <<src, job, pairing, placing>>

\* The map file is not opened or cut short (nobody accepts it then), or the map
\* is whole and the image is not opened.
MapFails ==
  /\ pc = "map"
  /\ mapFile' \in {mapFile, Empty} \cup (IF job.map_only THEN {} ELSE {slots})
  /\ pc' = "idle" /\ done' = done + 1 /\ ok' = FALSE
  /\ UNCHANGED <<src, job, u, pairing, placing, image>>

\* Mutant: the map is read in the wrong direction.
slot_to_id_forward(s) == slots[s]

\* The id of a slot: the last id given it, id 0 when none was.
slot_to_id(s) == LET here == {v \in Ids : slots[v] = s} IN IF here = {} THEN 0 ELSE Max(here)

WritesRecord ==
  /\ pc = "image" /\ u < src.n
  /\ image' = Append(image, slot_to_id(u)) /\ u' = u + 1
  /\ UNCHANGED <<src, job, pc, pairing, placing, mapFile, result>>

\* A short write ends the job; the map is already there.
WriteFails ==
  /\ pc = "image" /\ u < src.n
  /\ pc' = "idle" /\ done' = done + 1 /\ ok' = FALSE
  /\ UNCHANGED <<src, job, u, pairing, placing, files>>

Finishes ==
  /\ pc = "image" /\ u = src.n
  /\ pc' = "idle" /\ done' = done + 1 /\ ok' = TRUE
  /\ UNCHANGED <<src, job, u, pairing, placing, files>>

Rests == pc = "idle" /\ done = MaxJobs /\ UNCHANGED vars

Next ==
  \/ \E mode \in {"neighbor", "coexpand", "cooccur", "extent"} : Starts(mode)
  \/ NeighborStep \/ CoexpandMeets \/ CoexpandNext
  \/ CooccurWeighs \/ CooccurMatch \/ CooccurRest
  \/ PairingEnds \/ AssignsPair \/ PairsEnd \/ AssignsAlone \/ AssignEnds
  \/ ExtentLoads \/ ExtentRefuses \/ ExtentEmits \/ ExtentMoves
  \/ WritesMap \/ MapFails \/ WritesRecord \/ WriteFails \/ Finishes \/ Rests

Spec == Init /\ [][Next]_vars

-----------------------------------------------------------------------------
Written == pc = "idle" /\ done > 0 /\ ok

\* The image as the server places it, with the map loaded.
Bare == [hdr |-> [version |-> 2, n |-> src.n, packed |-> 800, len_vectors |-> src.n * 2048,
                  len_graph |-> 0, off_vectors |-> 4096, R |-> 2],
         id_to_slot |-> NoMap, slot_to_id |-> NoMap]
Loaded(map) == load_id_slot_map(Bare, map)

\* The map a job leaves is one the server accepts (each id a slot of its own,
\* below n): the "slot of each id" of the tool's description.
MapAccepted == Written => Refused(src.n, mapFile) = {}

\* Read through the loaded map, the record at an id's address is that id's,
\* whatever chain of jobs and failed writes came before the one that made both.
ServedRight == Written /\ ~job.map_only =>
  \A v \in Ids :
    image[(entry(Loaded(mapFile), v) - 4096) \div 2048 + 1] = v

\* Records the job paired share a page; moving pages whole keeps every
\* page's two records together.
PagesKept == Written =>
  LET sib(v) == page_sibling(Loaded(mapFile), v)
  IN  IF job.mode = "extent"
      THEN \A v \in Ids : sib(v) = page_sibling(Loaded(job.map_in), v)
      ELSE \A v \in Used(mate) : sib(v) = mate[v]

\* Throughout the pairing nobody has two mates, and when it ends it is a greedy
\* matching: no two ids the mode could still pair are both free, and a pair that
\* cooccur passed over lost a member to one at least as heavy.
GreedyMatching ==
  LET Over(modes) == pc \in {"pairs", "alone", "map"} /\ job.mode \in modes
  IN  /\ pc # "idle" => \A v \in Used(mate) : mate[v] \in Ids \ {v} /\ mate[mate[v]] = v
      /\ Over({"neighbor", "cooccur"}) =>
           \A v \in Ids \ Used(mate) : Wanted(v) \subseteq Used(mate)
      /\ Over({"coexpand"}) =>
           \A v \in Ids : \A w, x \in Wanted(v) \ Used(mate) : w = x
      /\ (pc = "leftover" /\ u = 0) =>
           \A a, b \in Ids : (a # b /\ Weight({a, b}) > 0) =>
             \E v \in {a, b} \cap Used(mate) : Weight({v, mate[v]}) >= Weight({a, b})
==============================================================================
