----------------------------- MODULE IdMapProofs -----------------------------
(***************************************************************************)
(* The maps of ids are right for every size and every input: the slots and *)
(* the image remap_diskann_pages writes (PageRemap), the in-place          *)
(* permutation of the code rows by load_codes (PqCodes), and the images    *)
(* that any chain of packing tools writes (LayoutTools).                   *)
(***************************************************************************)
EXTENDS PageRemap, PqCodes, LayoutTools, SequenceTheorems, FiniteSetTheorems, TLAPS

-----------------------------------------------------------------------------
(* remap_diskann_pages: the tool's state.                                  *)

Modes  == {"neighbor", "coexpand", "cooccur", "extent"}
Mated  == {"neighbor", "leftover", "coexpand", "cooccur", "match"}
PcSet  == Mated \cup {"idle", "pairs", "alone", "extent", "emit", "map", "image"}

\* A job has been started, so its variables have their values.
Started == pc # "idle" \/ done > 0

JobOK ==
  /\ job.mode \in Modes \cap src.modes /\ job.trace \in Traces
  /\ job.map_only \in BOOLEAN
  /\ mate \in [Ids -> Ids \cup {Nobody}] /\ pending \in Ids \cup {Nobody}
  /\ new_page \in [Pages -> Int]

\* What the phase says of the mode.
PhaseOK ==
  /\ pc = "neighbor" => job.mode = "neighbor"
  /\ pc = "coexpand" => job.mode = "coexpand"
  /\ pc \in {"cooccur", "match", "leftover"} => job.mode = "cooccur"
  /\ pc \in {"extent", "emit"} => job.mode = "extent"
  /\ pc \in {"pairs", "alone"} => job.mode # "extent"

RemapTypeOK ==
  /\ src \in Sources /\ pc \in PcSet
  /\ u \in Nat /\ j \in Nat /\ next \in Nat /\ done \in Nat
  /\ edges \subseteq {e \in Ids \X Ids : e[1] < e[2]}
  /\ Started => JobOK
  /\ PhaseOK

-----------------------------------------------------------------------------
(* The pairing.                                                            *)

Mutual(m) == \A v \in Used(m) : m[v] \in Ids \ {v} /\ m[m[v]] = v

\* Ids the loop has passed and left free have no free neighbour.
PassedOver(k) == \A v \in Ids \ Used(mate) : v < k => Wanted(v) \subseteq Used(mate)

\* Rows below k have at most one free member.
RowsPaired(k) == \A v \in Ids : v < k => \A w, x \in Wanted(v) \ Used(mate) : w = x

\* The free members of row u met so far are the one that waits.
Waiting ==
  /\ j <= Len(src.rows[u])
  /\ \A k \in 1 .. j : src.rows[u][k] \in Wanted(u) \ Used(mate) => src.rows[u][k] = pending
  /\ pending # Nobody => pending \in Wanted(u) \ Used(mate)

\* The pair a, b lost a member to a pair at least as heavy.
Heavy == [e \in SUBSET Ids |-> Weight(e)]
Outweighed(a, b) == \E v \in {a, b} \cap Used(mate) : Heavy[{v, mate[v]}] >= Heavy[{a, b}]

Weighed ==
  /\ \A a, b \in Ids : (a < b /\ Heavy[{a, b}] > 0) => <<a, b>> \in edges \/ Outweighed(a, b)
  /\ \A v \in Used(mate), f \in edges : Heavy[{v, mate[v]}] >= Heavy[{f[1], f[2]}]

MatchInv ==
  /\ Started => Mutual(mate)
  /\ pc \in {"neighbor", "leftover"} => u <= src.n /\ PassedOver(u)
  /\ pc = "coexpand" =>
       /\ u <= src.n /\ RowsPaired(u)
       /\ u < src.n => Waiting
       /\ u = src.n => pending = Nobody
  /\ pc = "cooccur" => u = 0 /\ Used(mate) = {}
  /\ pc = "match" => u = 0 /\ Weighed
  /\ (pc = "leftover" /\ u = 0) =>
       \A a, b \in Ids : (a < b /\ Heavy[{a, b}] > 0) => Outweighed(a, b)
  /\ (pc \in {"pairs", "alone", "map"} /\ job.mode \in {"neighbor", "cooccur"}) =>
       PassedOver(src.n)
  /\ (pc \in {"pairs", "alone", "map"} /\ job.mode = "coexpand") => RowsPaired(src.n)

-----------------------------------------------------------------------------
(* The slots.                                                              *)

\* An odd number of records is not moved by pages: the run remap_odd shows
\* that such a map gets a slot n.
EvenExtents == \A s \in Sources : "extent" \in s.modes => s.n % 2 = 0

IsMap(f) == f \in [Ids -> Ids] /\ \A v, w \in Ids : f[v] = f[w] => v = w

\* The other slot of the page.
Sib(s) == IF s % 2 = 0 THEN s + 1 ELSE s - 1

\* Ids that have a slot: no two the same, all below next.
Given == {v \in Ids : slots[v] # Nobody}

GivenApart ==
  /\ \A v \in Given : slots[v] \in 0 .. next - 1
  /\ \A v, w \in Given : slots[v] = slots[w] => v = w
  /\ next = Cardinality(Given)

\* Pairs are given slots whole, the one of the smaller id first.
PairsGiven ==
  /\ next % 2 = 0
  /\ \A v \in Given : v \in Used(mate) /\ mate[v] \in Given /\ (v < u \/ mate[v] < u)
  /\ \A v \in Used(mate) : v < u /\ v < mate[v] => v \in Given

\* Mates share a page.
PairsTogether ==
  \A v \in Used(mate) \cap Given : mate[v] \in Given /\ slots[mate[v]] = Sib(slots[v])

\* Pages that have a place: no two the same, all below next.
Placed == {p \in Pages : new_page[p] # Nobody}

PagesApart ==
  /\ \A p \in Placed : new_page[p] \in 0 .. next - 1
  /\ \A p, q \in Placed : new_page[p] = new_page[q] => p = q
  /\ next = Cardinality(Placed)

\* What the map f does with pages.
Kept(f) ==
  IF job.mode = "extent"
  THEN /\ IsMap(job.map_in)
       /\ \A v \in Ids : f[v] % 2 = job.map_in[v] % 2
       /\ \A v, w \in Ids :
            f[v] \div 2 = f[w] \div 2 <=> job.map_in[v] \div 2 = job.map_in[w] \div 2
  ELSE \A v \in Used(mate) : f[mate[v]] = Sib(f[v])

\* The image holds the record of v at the slot of v, for slots below k.
Holds(k) == \A v \in Ids : slots[v] < k => image[slots[v] + 1] = v

SlotInv ==
  /\ mapFile = Empty \/ IsMap(mapFile)
  /\ Started => (job.map_in = Empty \/ IsMap(job.map_in))
  /\ pc \in Mated \cup {"pairs", "alone"} => slots \in [Ids -> Int]
  /\ pc \in Mated => next = 0 /\ Given = {}
  /\ pc \in {"pairs", "alone"} => u <= src.n /\ GivenApart /\ PairsTogether
  /\ pc = "pairs" => PairsGiven
  /\ pc = "alone" => Used(mate) \subseteq Given /\ \A v \in Ids : v < u => v \in Given
  /\ pc = "extent" => u = 0 /\ next = 0 /\ Placed = {}
  /\ pc = "emit" =>
       IsMap(job.map_in) /\ PagesApart /\ (u > NRuns => Placed = Pages)
  /\ pc \in {"map", "image"} \/ Written => IsMap(slots) /\ Kept(slots)
  /\ pc = "image" => /\ mapFile = slots /\ u <= src.n
                     /\ image \in Seq(Ids) /\ Len(image) = u /\ Holds(u)
  /\ Written => mapFile = slots /\ (~job.map_only => Holds(src.n))

\* The tool's own checks of the slots and the pages it gave cannot fail.
AllGiven ==
  /\ pc = "alone" /\ u = src.n => next = src.n
  /\ pc = "emit" /\ u > NRuns => next = (src.n + 1) \div 2

-----------------------------------------------------------------------------
(* Facts about the operators.                                              *)

\* The image of a job.
LEMMA SourceFacts ==
  ASSUME src \in Sources
  PROVE  /\ src.n \in Nat \ {0} /\ src.rows \in [Ids -> Seq(Nat)]
         /\ IsFiniteSet(Ids) /\ Cardinality(Ids) = src.n
         /\ Nobody \notin Ids /\ Ids \subseteq Nat
<1>1. src.n \in Nat \ {0} /\ src.rows \in [Ids -> Seq(Nat)]
  BY RemapConstants DEF Ids
<1>2. PICK k \in Int : k = src.n - 1
  BY <1>1
<1>3. IsFiniteSet(0 .. k) /\ Cardinality(0 .. k) = IF 0 > k THEN 0 ELSE k - 0 + 1
  BY FS_Interval
<1>4. Cardinality(0 .. k) = src.n
  BY <1>1, <1>2, <1>3
<1> QED BY <1>1, <1>2, <1>3, <1>4 DEF Ids, Nobody

\* The neighbours looked at are other ids of the image.
LEMMA WantedFacts ==
  ASSUME src \in Sources, NEW v \in Ids
  PROVE  /\ Wanted(v) \subseteq Ids \ {v}
         /\ \A w \in Wanted(v) : \E k \in 1 .. Len(src.rows[v]) : src.rows[v][k] = w
<1>1. src.rows[v] \in Seq(Nat) /\ src.n \in Nat
  BY SourceFacts
<1>2. \A k \in 1 .. Len(src.rows[v]) : src.rows[v][k] \in Nat
  BY <1>1
<1>3. ToSet(src.rows[v]) = {src.rows[v][k] : k \in 1 .. Len(src.rows[v])}
  BY <1>1 DEF ToSet
<1> QED BY <1>1, <1>2, <1>3, SMTT(30) DEF Wanted, Ids

\* A nonempty set of natural numbers has a least element.
LEMMA MinIn ==
  ASSUME NEW S \in SUBSET Nat, S # {}
  PROVE  Min(S) \in S /\ \A x \in S : Min(S) <= x
<1> DEFINE R == {ss \in Nat \X Nat : ss[1] < ss[2]}
<1>1. IsWellFoundedOn(R, Nat)
  BY NatLessThanWellFounded, Zenon DEF OpToRel
<1> HIDE DEF R
<1>2. PICK x \in S : \A y \in S : ~(<<y, x>> \in R)
  BY <1>1, WFMin
<1>3. \A y \in Nat : y < x => <<y, x>> \in R
  <2> SUFFICES ASSUME NEW y \in Nat, y < x PROVE <<y, x>> \in R
    OBVIOUS
  <2>1. <<y, x>> \in Nat \X Nat /\ <<y, x>>[1] = y /\ <<y, x>>[2] = x
    OBVIOUS
  <2> QED BY <2>1, Zenon DEF R
<1>4. \A y \in S : x <= y
  <2> SUFFICES ASSUME NEW y \in S PROVE x <= y
    OBVIOUS
  <2>1. x \in Nat /\ y \in Nat /\ ~(y < x)
    BY <1>2, <1>3, Zenon
  <2> QED BY <2>1
<1> QED BY <1>4 DEF Min

\* Pairing two free ids takes just these two and keeps mates mutual.
LEMMA PairedFacts ==
  ASSUME src \in Sources, NEW m \in [Ids -> Ids \cup {Nobody}], Mutual(m),
         NEW a \in Ids \ Used(m), NEW b \in Ids \ Used(m), a # b
  PROVE  /\ Paired(m, a, b) \in [Ids -> Ids \cup {Nobody}]
         /\ Used(Paired(m, a, b)) = Used(m) \cup {a, b}
         /\ Mutual(Paired(m, a, b))
         /\ \A v \in Used(m) : Paired(m, a, b)[v] = m[v]
         /\ Paired(m, a, b)[a] = b /\ Paired(m, a, b)[b] = a
<1> DEFINE p == Paired(m, a, b)
<1>1. /\ p \in [Ids -> Ids \cup {Nobody}] /\ p[a] = b /\ p[b] = a
      /\ \A v \in Ids : v # a /\ v # b => p[v] = m[v]
  BY DEF Paired
<1>2. Nobody \notin Ids
  BY SourceFacts
<1>3. Used(p) = Used(m) \cup {a, b}
  BY <1>1, <1>2 DEF Used
<1>4. \A v \in Used(m) : p[v] = m[v]
  BY <1>1 DEF Used
<1>5. ASSUME NEW v \in Used(p) PROVE p[v] \in Ids \ {v} /\ p[p[v]] = v
  <2>1. CASE v \in {a, b}
    BY <2>1, <1>1
  <2>2. CASE v \in Used(m)
    <3>1. m[v] \in Ids \ {v} /\ m[m[v]] = v /\ v \in Ids
      BY <2>2 DEF Mutual, Used
    <3>2. m[v] \in Used(m)
      BY <1>2, <3>1 DEF Used
    <3> QED BY <1>4, <2>2, <3>1, <3>2
  <2> QED BY <1>3, <2>1, <2>2
<1> QED BY <1>1, <1>3, <1>4, <1>5 DEF Mutual

\* PairsUp finds a free neighbour when there is one.
LEMMA PairsUpFacts ==
  ASSUME src \in Sources, NEW m \in [Ids -> Ids \cup {Nobody}], Mutual(m), NEW v \in Ids
  PROVE  /\ PairsUp(m, v) \in [Ids -> Ids \cup {Nobody}] /\ Mutual(PairsUp(m, v))
         /\ Used(m) \subseteq Used(PairsUp(m, v))
         /\ v \notin Used(PairsUp(m, v)) => Wanted(v) \subseteq Used(PairsUp(m, v))
<1>1. src.rows[v] \in Seq(Nat)
  BY SourceFacts
<1>2. FreeAt(m, v) \subseteq 1 .. Len(src.rows[v])
  BY <1>1 DEF FreeAt
<1>3. CASE v \in Used(m)
  BY <1>3 DEF PairsUp
<1>4. CASE v \notin Used(m) /\ FreeAt(m, v) = {}
  <2>1. Wanted(v) \subseteq Used(m)
    BY <1>1, <1>4, WantedFacts DEF FreeAt
  <2> QED BY <1>4, <2>1 DEF PairsUp
<1>5. CASE v \notin Used(m) /\ FreeAt(m, v) # {}
  <2> DEFINE w == src.rows[v][Min(FreeAt(m, v))]
  <2>1. Min(FreeAt(m, v)) \in FreeAt(m, v)
    BY <1>2, <1>5, MinIn
  <2>2. w \in Wanted(v) \ Used(m)
    BY <2>1 DEF FreeAt
  <2>3. w \in Ids \ Used(m) /\ w # v /\ v \in Ids \ Used(m)
    BY <1>5, <2>2, WantedFacts
  <2>4. PairsUp(m, v) = Paired(m, v, w)
    BY <1>5 DEF PairsUp
  <2> HIDE DEF w
  <2> QED BY <2>3, <2>4, PairedFacts
<1> QED BY <1>3, <1>4, <1>5

-----------------------------------------------------------------------------
(* Types.                                                                  *)

LEMMA RemapInitType == Init => RemapTypeOK
BY DEF Init, RemapTypeOK, PcSet, Mated, Started, PhaseOK

\* No step changes the image that is read.
LEMMA SourceStays ==
  ASSUME [Next]_vars
  PROVE  src' = src /\ Ids' = Ids /\ Pages' = Pages
<1>1. src' = src
  BY DEF Next, vars, Starts, NeighborStep, CoexpandMeets, CoexpandNext, CooccurWeighs,
         CooccurMatch, CooccurRest, PairingEnds, AssignsPair, PairsEnd, AssignsAlone,
         AssignEnds, ExtentLoads, ExtentRefuses, ExtentEmits, ExtentMoves, WritesMap,
         MapFails, WritesRecord, WriteFails, Finishes, Rests
<1> QED BY <1>1 DEF Ids, Pages

\* A step of the pairing keeps the types, given those of mate and pending.
LEMMA PairingType ==
  ASSUME RemapTypeOK, src' = src, job' = job, UNCHANGED <<placing, result>>,
         pc \in Mated, pc' \in Mated, PhaseOK',
         u' \in Nat, j' \in Nat, mate' \in [Ids -> Ids \cup {Nobody}],
         pending' \in Ids \cup {Nobody}, edges' \subseteq {e \in Ids \X Ids : e[1] < e[2]}
  PROVE  RemapTypeOK'
<1>1. Ids' = Ids /\ Pages' = Pages
  BY DEF Ids, Pages
<1>2. Started /\ JobOK
  BY DEF RemapTypeOK, Started, Mated
<1> QED BY <1>1, <1>2 DEF RemapTypeOK, JobOK, PcSet, placing, result

\* A step that places ids or pages keeps the types, given those it changes.
LEMMA PlacingType ==
  ASSUME RemapTypeOK, src' = src, job' = job, UNCHANGED pairing, Started,
         pc' \in PcSet, PhaseOK', u' \in Nat, next' \in Nat, done' \in Nat,
         new_page' \in [Pages -> Int]
  PROVE  RemapTypeOK'
<1>1. Ids' = Ids /\ Pages' = Pages
  BY DEF Ids, Pages
<1> QED BY <1>1 DEF RemapTypeOK, JobOK, pairing

LEMMA StartsType ==
  ASSUME RemapTypeOK, NEW mode \in Modes, Starts(mode)
  PROVE  RemapTypeOK'
<1>1. src' = src /\ Ids' = Ids /\ Pages' = Pages /\ pc' = mode /\ mode \in src.modes
  BY DEF Starts, Ids, Pages
<1>2. job'.mode = mode /\ job'.trace \in Traces /\ job'.map_only \in BOOLEAN
  BY DEF Starts
<1>3. JobOK'
  BY <1>1, <1>2 DEF Starts, JobOK, Nobody
<1>4. PhaseOK'
  BY <1>1, <1>2 DEF PhaseOK, Modes
<1>5. pc' \in PcSet
  BY <1>1 DEF PcSet, Mated, Modes
<1> QED BY <1>1, <1>3, <1>4, <1>5 DEF Starts, RemapTypeOK, result

-----------------------------------------------------------------------------
(* The pairing is a greedy matching.                                       *)

\* Weights are natural numbers.
LEMMA HeavyNat ==
  ASSUME RemapTypeOK, Started
  PROVE  Heavy \in [SUBSET Ids -> Nat]
<1> SUFFICES ASSUME NEW e \in SUBSET Ids PROVE Weight(e) \in Nat
  BY DEF Heavy
<1> DEFINE rows == {v \in Ids : e \subseteq Wanted(v)}
           lists == {i \in Expands(job.trace) : e \subseteq ToSet(job.trace[i])}
<1>1. Cardinality(rows) \in Nat
  <2>1. IsFiniteSet(Ids) /\ rows \subseteq Ids
    BY SourceFacts DEF RemapTypeOK
  <2> QED BY <2>1, FS_Subset, FS_CardinalityType
<1>2. Cardinality(lists) \in Nat
  <2>1. job.trace \in Seq(Seq(Nat))
    BY RemapConstants DEF RemapTypeOK, JobOK
  <2>2. Len(job.trace) \in Int /\ 1 \in Int
    BY <2>1
  <2>3. IsFiniteSet(1 .. Len(job.trace))
    BY <2>2, FS_Interval
  <2>4. lists \subseteq 1 .. Len(job.trace)
    BY DEF Expands
  <2> QED BY <2>3, <2>4, FS_Subset, FS_CardinalityType
<1> HIDE DEF rows, lists
<1>3. Weight(e) = (IF job.trace_pairs THEN 0 ELSE Cardinality(rows)) + 1000 * Cardinality(lists)
  BY DEF Weight, rows, lists
<1> QED BY <1>1, <1>2, <1>3

\* Weights, rows and neighbours belong to the job.
LEMMA JobStays ==
  ASSUME src' = src, job' = job
  PROVE  /\ Ids' = Ids /\ Pages' = Pages /\ Heavy' = Heavy /\ NRuns' = NRuns
         /\ \A v : Wanted(v)' = Wanted(v)
BY DEF Heavy, Weight, Wanted, Ids, Pages, Expands, NRuns

\* Steps that leave the pairing alone once it is over keep what is known of it.
LEMMA MatchStays ==
  ASSUME RemapTypeOK, MatchInv, src' = src, job' = job, UNCHANGED pairing, Started,
         pc' \notin Mated, RemapTypeOK',
         pc' \in {"pairs", "alone", "map"} => pc \in {"pairs", "alone"} \/ job.mode = "extent"
  PROVE  MatchInv'
<1>1. Ids' = Ids /\ mate' = mate /\ Used(mate)' = Used(mate) /\ \A v : Wanted(v)' = Wanted(v)
  BY JobStays DEF pairing, Used
<1>2. Mutual(mate)'
  BY <1>1 DEF MatchInv, Mutual
<1>3. ASSUME pc' \in {"pairs", "alone", "map"}, job'.mode \in {"neighbor", "cooccur"}
      PROVE  PassedOver(src.n)'
  <2>1. PassedOver(src.n)
    BY <1>3 DEF MatchInv
  <2> QED BY <1>1, <2>1 DEF PassedOver
<1>4. ASSUME pc' \in {"pairs", "alone", "map"}, job'.mode = "coexpand" PROVE RowsPaired(src.n)'
  <2>1. RowsPaired(src.n)
    BY <1>4 DEF MatchInv
  <2> QED BY <1>1, <2>1 DEF RowsPaired
<1> QED BY <1>2, <1>3, <1>4 DEF MatchInv, Mated

\* A new job has no mates yet.
LEMMA StartsMatch ==
  ASSUME RemapTypeOK, MatchInv, NEW mode \in Modes, Starts(mode)
  PROVE  MatchInv'
<1>0. src' = src /\ Ids' = Ids /\ src.n \in Nat \ {0} /\ src.rows \in [Ids -> Seq(Nat)]
  BY SourceFacts DEF Starts, RemapTypeOK, Ids
<1>1. /\ pc' = mode /\ u' = 0 /\ j' = 0 /\ pending' = Nobody
      /\ mate' = [v \in Ids |-> Nobody]
  BY DEF Starts
<1>2. Used(mate)' = {}
  BY <1>0, <1>1 DEF Used
<1>3. Mutual(mate)' /\ PassedOver(u)' /\ RowsPaired(u)'
  <2>1. \A v \in Ids' : ~(v < 0)
    BY <1>0 DEF Ids
  <2>2. Mutual(mate)'
    BY <1>2 DEF Mutual
  <2>3. PassedOver(u)' /\ RowsPaired(u)'
    BY <1>1, <2>1 DEF PassedOver, RowsPaired
  <2> QED BY <2>2, <2>3
<1>4. Waiting'
  <2>1. src.rows[0] \in Seq(Nat)
    BY <1>0 DEF Ids
  <2> QED BY <1>0, <1>1, <2>1 DEF Waiting
<1> QED BY <1>0, <1>1, <1>2, <1>3, <1>4 DEF MatchInv, Modes

\* A turn of the neighbour loop, in mode neighbor or for the ids cooccur leaves.
LEMMA NeighborKeeps ==
  ASSUME RemapTypeOK, MatchInv, NeighborStep
  PROVE  RemapTypeOK' /\ MatchInv'
<1>0. /\ pc \in {"neighbor", "leftover"} /\ pc' = pc /\ u < src.n /\ u' = u + 1
      /\ src' = src /\ job' = job /\ mate' = PairsUp(mate, u) /\ src \in Sources
      /\ src.n \in Nat /\ u \in Nat /\ u \in Ids
  BY SourceFacts DEF NeighborStep, RemapTypeOK, Ids
<1>1. Started /\ mate \in [Ids -> Ids \cup {Nobody}] /\ Mutual(mate)
  BY <1>0 DEF RemapTypeOK, Started, JobOK, MatchInv
<1>2. /\ mate' \in [Ids -> Ids \cup {Nobody}] /\ Mutual(mate') /\ Used(mate) \subseteq Used(mate')
      /\ u \notin Used(mate') => Wanted(u) \subseteq Used(mate')
  BY <1>0, <1>1, PairsUpFacts
<1>3. Ids' = Ids /\ (\A v : Wanted(v)' = Wanted(v)) /\ Used(mate)' = Used(mate')
  BY <1>0, JobStays DEF Used
<1>4. RemapTypeOK'
  BY <1>0, <1>1, <1>2, PairingType DEF NeighborStep, Mated, RemapTypeOK, PhaseOK, JobOK
<1>5. Mutual(mate)'
  BY <1>2, <1>3 DEF Mutual
<1>6. PassedOver(u)'
  <2> SUFFICES ASSUME NEW v \in Ids \ Used(mate'), v < u + 1 PROVE Wanted(v) \subseteq Used(mate')
    BY <1>0, <1>3 DEF PassedOver
  <2>1. CASE v = u
    BY <1>2, <2>1
  <2>2. CASE v # u
    <3>1. v < u /\ v \notin Used(mate)
      BY <1>0, <1>2, <2>2 DEF Ids
    <3> QED BY <1>0, <1>2, <3>1 DEF MatchInv, PassedOver
  <2> QED BY <2>1, <2>2
<1> QED BY <1>0, <1>4, <1>5, <1>6 DEF MatchInv

\* A neighbour met by coexpand: passed over, kept waiting, or paired.
LEMMA CoexpandMeetsKeeps ==
  ASSUME RemapTypeOK, MatchInv, CoexpandMeets
  PROVE  RemapTypeOK' /\ MatchInv'
<1> DEFINE row == src.rows[u]
           v == row[j + 1]
<1>0. /\ pc = "coexpand" /\ pc' = pc /\ u < src.n /\ u' = u /\ j' = j + 1 /\ j < Len(row)
      /\ src' = src /\ job' = job /\ src \in Sources /\ src.n \in Nat /\ u \in Ids /\ j \in Nat
      /\ Nobody \notin Ids /\ UNCHANGED <<edges, placing, result>>
  BY SourceFacts DEF CoexpandMeets, RemapTypeOK, Ids
<1>1. /\ Started /\ mate \in [Ids -> Ids \cup {Nobody}] /\ pending \in Ids \cup {Nobody}
      /\ Mutual(mate) /\ Waiting /\ RowsPaired(u)
  BY <1>0 DEF RemapTypeOK, Started, JobOK, MatchInv
<1>2. row \in Seq(Nat) /\ Wanted(u) \subseteq Ids \ {u}
  BY <1>0, SourceFacts, WantedFacts
<1>3. Ids' = Ids /\ (\A w : Wanted(w)' = Wanted(w)) /\ Used(mate)' = Used(mate')
  BY <1>0, JobStays DEF Used
<1>4. /\ mate' \in [Ids -> Ids \cup {Nobody}] /\ Mutual(mate')
      /\ Used(mate) \subseteq Used(mate')
      /\ pending' \in Ids \cup {Nobody}
      /\ pending' # Nobody => pending' \in Wanted(u) \ Used(mate')
      /\ v \in Wanted(u) \ Used(mate') => v = pending'
      /\ \A k \in 1 .. j : row[k] \in Wanted(u) \ Used(mate') => row[k] = pending'
  <2>1. CASE v \notin Wanted(u) \ Used(mate) \/ v = pending
    <3>1. mate' = mate /\ pending' = pending
      BY <2>1 DEF CoexpandMeets
    <3> QED BY <1>1, <2>1, <3>1 DEF Waiting
  <2>2. CASE v \in Wanted(u) \ Used(mate) /\ v # pending /\ pending = Nobody
    <3>1. mate' = mate /\ pending' = v
      BY <2>2 DEF CoexpandMeets
    <3>2. \A k \in 1 .. j : row[k] \notin Wanted(u) \ Used(mate)
      BY <1>0, <1>1, <1>2, <2>2 DEF Waiting
    <3> QED BY <1>1, <1>2, <2>2, <3>1, <3>2
  <2>3. CASE v \in Wanted(u) \ Used(mate) /\ v # pending /\ pending # Nobody
    <3>1. mate' = Paired(mate, pending, v) /\ pending' = Nobody
      BY <2>3 DEF CoexpandMeets
    <3>2. pending \in Ids \ Used(mate) /\ v \in Ids \ Used(mate)
      BY <1>1, <1>2, <2>3 DEF Waiting
    <3> HIDE DEF v
    <3>3. /\ mate' \in [Ids -> Ids \cup {Nobody}] /\ Mutual(mate')
          /\ Used(mate') = Used(mate) \cup {pending, v}
      BY <1>0, <1>1, <2>3, <3>1, <3>2, PairedFacts
    <3>4. \A k \in 1 .. j : row[k] \notin Wanted(u) \ Used(mate')
      BY <1>1, <3>3 DEF Waiting
    <3> QED BY <3>1, <3>3, <3>4
  <2> QED BY <2>1, <2>2, <2>3
<1>5. RemapTypeOK'
  BY <1>0, <1>4, PairingType DEF Mated, RemapTypeOK, PhaseOK
<1>6. Mutual(mate)' /\ RowsPaired(u)'
  BY <1>0, <1>1, <1>3, <1>4 DEF Mutual, RowsPaired
<1>7. Waiting'
  <2>1. \A k \in 1 .. j + 1 : row[k] \in Wanted(u) \ Used(mate') => row[k] = pending'
    <3> SUFFICES ASSUME NEW k \in 1 .. j + 1, row[k] \in Wanted(u) \ Used(mate')
                 PROVE  row[k] = pending'
      OBVIOUS
    <3>1. k = j + 1 \/ k \in 1 .. j
      BY <1>0
    <3> QED BY <1>4, <3>1
  <2>2. j + 1 <= Len(row)
    BY <1>0, <1>2
  <2> QED BY <1>0, <1>3, <1>4, <2>1, <2>2 DEF Waiting
<1> QED BY <1>0, <1>5, <1>6, <1>7 DEF MatchInv, Ids

\* At the end of a row at most its waiting member is free.
LEMMA CoexpandNextKeeps ==
  ASSUME RemapTypeOK, MatchInv, CoexpandNext
  PROVE  RemapTypeOK' /\ MatchInv'
<1>0. /\ pc = "coexpand" /\ pc' = pc /\ u < src.n /\ u' = u + 1 /\ j' = 0
      /\ j = Len(src.rows[u]) /\ pending' = Nobody /\ mate' = mate
      /\ src' = src /\ job' = job /\ src \in Sources /\ src.n \in Nat /\ u \in Ids /\ u \in Nat
      /\ UNCHANGED <<edges, placing, result>>
  BY SourceFacts DEF CoexpandNext, RemapTypeOK, Ids
<1>1. /\ Started /\ mate \in [Ids -> Ids \cup {Nobody}]
      /\ Mutual(mate) /\ Waiting /\ RowsPaired(u)
  BY <1>0 DEF RemapTypeOK, Started, JobOK, MatchInv
<1>2. Ids' = Ids /\ (\A w : Wanted(w)' = Wanted(w)) /\ Used(mate)' = Used(mate)
  BY <1>0, JobStays DEF Used
<1>3. RemapTypeOK'
  BY <1>0, <1>1, PairingType DEF Mated, RemapTypeOK, PhaseOK
<1>4. Mutual(mate)'
  BY <1>0, <1>1, <1>2 DEF Mutual
<1>5. RowsPaired(u)'
  <2> SUFFICES ASSUME NEW v \in Ids, v < u + 1,
                      NEW w \in Wanted(v) \ Used(mate), NEW x \in Wanted(v) \ Used(mate)
               PROVE  w = x
    BY <1>0, <1>2 DEF RowsPaired
  <2>1. CASE v = u
    <3>1. \A y \in Wanted(u) \ Used(mate) : y = pending
      BY <1>0, <1>1, WantedFacts DEF Waiting
    <3> QED BY <2>1, <3>1
  <2>2. CASE v # u
    BY <1>0, <1>1, <2>2 DEF RowsPaired, Ids
  <2> QED BY <2>1, <2>2
<1>6. u' < src'.n => Waiting'
  <2> SUFFICES ASSUME u + 1 < src.n PROVE Waiting'
    BY <1>0
  <2>1. src.rows[u + 1] \in Seq(Nat)
    BY <1>0, SourceFacts DEF Ids
  <2> QED BY <1>0, <2>1 DEF Waiting
<1>7. u' <= src'.n
  BY <1>0
<1> QED BY <1>0, <1>3, <1>4, <1>5, <1>6, <1>7 DEF MatchInv

\* Every pair with a weight is an edge.
LEMMA WeighsKeeps ==
  ASSUME RemapTypeOK, MatchInv, CooccurWeighs
  PROVE  RemapTypeOK' /\ MatchInv'
<1>0. /\ pc = "cooccur" /\ pc' = "match" /\ u' = u /\ u = 0 /\ Used(mate) = {}
      /\ edges' = {e \in Ids \X Ids : e[1] < e[2] /\ Weight(Ends(e)) > 0}
      /\ src' = src /\ job' = job /\ UNCHANGED <<mate, j, pending, placing, result>>
  BY DEF CooccurWeighs, MatchInv
<1>1. Started /\ Mutual(mate) /\ JobOK
  BY <1>0 DEF RemapTypeOK, Started, MatchInv
<1>2. Ids' = Ids /\ Heavy' = Heavy /\ Used(mate)' = {}
  BY <1>0, JobStays DEF Used
<1>3. RemapTypeOK'
  BY <1>0, <1>1, PairingType DEF Mated, RemapTypeOK, PhaseOK, JobOK
<1>4. ASSUME NEW a \in Ids, NEW b \in Ids, a < b, Heavy[{a, b}] > 0
      PROVE  <<a, b>> \in edges'
  <2>1. Weight({a, b}) > 0
    BY <1>4 DEF Heavy
  <2> QED BY <1>0, <1>4, <2>1 DEF Ends
<1>5. Weighed' /\ Mutual(mate)'
  BY <1>2, <1>4 DEF Weighed, Mutual
<1> QED BY <1>0, <1>3, <1>5 DEF MatchInv

\* The heaviest pair left is matched, or has lost a member to a heavier one.
LEMMA MatchKeeps ==
  ASSUME RemapTypeOK, MatchInv, CooccurMatch
  PROVE  RemapTypeOK' /\ MatchInv'
<1>0. /\ pc = "match" /\ pc' = pc /\ u' = u /\ u = 0 /\ Weighed
      /\ src' = src /\ job' = job /\ src \in Sources
      /\ UNCHANGED <<j, pending, placing, result>>
  BY DEF CooccurMatch, MatchInv, RemapTypeOK
<1>1. PICK e \in edges :
        /\ \A f \in edges : Weight(Ends(f)) <= Weight(Ends(e))
        /\ edges' = edges \ {e}
        /\ mate' = IF Ends(e) \cap Used(mate) # {} THEN mate ELSE Paired(mate, e[1], e[2])
  BY DEF CooccurMatch
<1>2. /\ Started /\ Mutual(mate) /\ JobOK /\ mate \in [Ids -> Ids \cup {Nobody}]
  BY <1>0 DEF RemapTypeOK, Started, MatchInv, JobOK
<1>3. Ids' = Ids /\ Heavy' = Heavy /\ Used(mate)' = Used(mate')
  BY <1>0, JobStays DEF Used
<1>4. \A f \in edges : f \in Ids \X Ids /\ f = <<f[1], f[2]>> /\ f[1] \in Ids /\ f[2] \in Ids /\ f[1] < f[2]
  BY DEF RemapTypeOK
<1>5. Heavy \in [SUBSET Ids -> Nat]
  BY <1>2, HeavyNat
<1>6. \A f \in edges : Heavy[{f[1], f[2]}] <= Heavy[{e[1], e[2]}]
  BY <1>1, <1>4 DEF Heavy, Ends
<1>7. e[1] # e[2] /\ e[1] \in Ids /\ e[2] \in Ids /\ e = <<e[1], e[2]>>
  BY <1>4, SourceFacts, <1>0
<1>8. /\ mate' \in [Ids -> Ids \cup {Nobody}] /\ Mutual(mate')
      /\ Used(mate) \subseteq Used(mate') /\ \A v \in Used(mate) : mate'[v] = mate[v]
      /\ \A v \in Used(mate'), f \in edges' : Heavy[{v, mate'[v]}] >= Heavy[{f[1], f[2]}]
      /\ \E v \in {e[1], e[2]} \cap Used(mate') : Heavy[{v, mate'[v]}] >= Heavy[{e[1], e[2]}]
  <2>1. CASE Ends(e) \cap Used(mate) # {}
    <3>1. mate' = mate /\ edges' \subseteq edges
      BY <1>1, <2>1
    <3>2. PICK v \in {e[1], e[2]} \cap Used(mate) : TRUE
      BY <2>1 DEF Ends
    <3>3. Heavy[{v, mate[v]}] >= Heavy[{e[1], e[2]}]
      BY <1>0, <3>2 DEF Weighed
    <3>4. \A w \in Used(mate), f \in edges : Heavy[{w, mate[w]}] >= Heavy[{f[1], f[2]}]
      BY <1>0 DEF Weighed
    <3> QED BY <1>2, <3>1, <3>2, <3>3, <3>4
  <2>2. CASE Ends(e) \cap Used(mate) = {}
    <3>1. mate' = Paired(mate, e[1], e[2]) /\ edges' \subseteq edges
      BY <1>1, <2>2
    <3>2. e[1] \in Ids \ Used(mate) /\ e[2] \in Ids \ Used(mate)
      BY <1>7, <2>2 DEF Ends
    <3>3. /\ mate' \in [Ids -> Ids \cup {Nobody}] /\ Mutual(mate')
          /\ Used(mate') = Used(mate) \cup {e[1], e[2]}
          /\ \A v \in Used(mate) : mate'[v] = mate[v]
          /\ mate'[e[1]] = e[2] /\ mate'[e[2]] = e[1]
      BY <1>0, <1>2, <1>7, <3>1, <3>2, PairedFacts
    <3>4. ASSUME NEW v \in Used(mate'), NEW f \in edges'
          PROVE  Heavy[{v, mate'[v]}] >= Heavy[{f[1], f[2]}]
      <4>1. CASE v \in Used(mate)
        <5>1. Heavy[{v, mate[v]}] >= Heavy[{f[1], f[2]}]
          BY <1>0, <3>1, <4>1 DEF Weighed
        <5> QED BY <3>3, <4>1, <5>1
      <4>2. CASE v \in {e[1], e[2]}
        <5>1. {v, mate'[v]} = {e[1], e[2]}
          BY <3>3, <4>2
        <5>2. Heavy[{f[1], f[2]}] \in Nat /\ Heavy[{e[1], e[2]}] \in Nat
          BY <1>4, <1>5, <1>7, <3>1
        <5>3. Heavy[{f[1], f[2]}] <= Heavy[{e[1], e[2]}]
          BY <1>6, <3>1
        <5> QED BY <5>1, <5>2, <5>3
      <4> QED BY <3>3, <4>1, <4>2
    <3>5. Heavy[{e[1], mate'[e[1]]}] >= Heavy[{e[1], e[2]}] /\ e[1] \in Used(mate')
      <4>1. Heavy[{e[1], e[2]}] \in Nat
        BY <1>5, <1>7
      <4> QED BY <3>3, <4>1
    <3> QED BY <3>3, <3>4, <3>5
  <2> QED BY <2>1, <2>2
<1>9. RemapTypeOK'
  BY <1>0, <1>1, <1>2, <1>8, PairingType DEF Mated, RemapTypeOK, PhaseOK, JobOK
<1>10. ASSUME NEW a \in Ids, NEW b \in Ids, a < b, Heavy[{a, b}] > 0, <<a, b>> \notin edges'
       PROVE  \E v \in {a, b} \cap Used(mate') : Heavy[{v, mate'[v]}] >= Heavy[{a, b}]
  <2>1. CASE <<a, b>> = e
    <3>1. e[1] = a /\ e[2] = b
      BY <2>1
    <3> QED BY <1>8, <3>1
  <2>2. CASE <<a, b>> # e
    <3>1. Outweighed(a, b)
      BY <1>0, <1>1, <1>10, <2>2 DEF Weighed
    <3> QED BY <1>8, <3>1 DEF Outweighed
  <2> QED BY <2>1, <2>2
<1>11. Weighed' /\ Mutual(mate)'
  BY <1>3, <1>8, <1>10 DEF Weighed, Mutual, Outweighed
<1> QED BY <1>0, <1>9, <1>11 DEF MatchInv

\* No edge is left: every pair with a weight is matched or outweighed.
LEMMA RestKeeps ==
  ASSUME RemapTypeOK, MatchInv, CooccurRest
  PROVE  RemapTypeOK' /\ MatchInv'
<1>0. /\ pc = "match" /\ pc' = "leftover" /\ u' = u /\ u = 0 /\ Weighed /\ edges = {}
      /\ src' = src /\ job' = job /\ src \in Sources /\ src.n \in Nat
      /\ UNCHANGED <<mate, j, pending, edges, placing, result>>
  BY SourceFacts DEF CooccurRest, MatchInv, RemapTypeOK, pairing
<1>1. Started /\ Mutual(mate) /\ JobOK
  BY <1>0 DEF RemapTypeOK, Started, MatchInv
<1>2. Ids' = Ids /\ Heavy' = Heavy /\ Used(mate)' = Used(mate)
  BY <1>0, JobStays DEF Used
<1>3. RemapTypeOK'
  BY <1>0, <1>1, PairingType DEF Mated, RemapTypeOK, PhaseOK, JobOK
<1>4. \A a, b \in Ids : (a < b /\ Heavy[{a, b}] > 0) => Outweighed(a, b)
  BY <1>0 DEF Weighed
<1>5. \A a, b \in Ids' : (a < b /\ Heavy'[{a, b}] > 0) => Outweighed(a, b)'
  BY <1>0, <1>2, <1>4 DEF Outweighed
<1>6. Mutual(mate)' /\ PassedOver(u)'
  <2>1. \A v \in Ids' : ~(v < 0)
    BY <1>0 DEF Ids
  <2> QED BY <1>0, <1>1, <1>2, <2>1 DEF Mutual, PassedOver
<1>7. u' <= src'.n
  BY <1>0
<1> QED BY <1>0, <1>3, <1>5, <1>6, <1>7 DEF MatchInv

\* The loops have passed every id.
LEMMA PairingEndsKeeps ==
  ASSUME RemapTypeOK, MatchInv, PairingEnds
  PROVE  RemapTypeOK' /\ MatchInv'
<1>0. /\ pc \in {"neighbor", "leftover", "coexpand"} /\ u = src.n /\ pc' = "pairs" /\ u' = 0
      /\ src' = src /\ job' = job /\ UNCHANGED <<mate, j, pending, edges, placing, result>>
  BY DEF PairingEnds, pairing
<1>1. Started /\ Mutual(mate) /\ JobOK
  BY <1>0 DEF RemapTypeOK, Started, MatchInv
<1>2. Ids' = Ids /\ (\A w : Wanted(w)' = Wanted(w)) /\ Used(mate)' = Used(mate)
  BY <1>0, JobStays DEF Used
<1>3. PhaseOK' /\ pc' \in PcSet
  BY <1>0 DEF RemapTypeOK, PhaseOK, PcSet
<1>4. RemapTypeOK'
  BY <1>0, <1>1, <1>3, PlacingType DEF RemapTypeOK, JobOK, placing, result, pairing
<1>5. Mutual(mate)'
  BY <1>0, <1>1, <1>2 DEF Mutual
<1>6. ASSUME job.mode \in {"neighbor", "cooccur"} PROVE PassedOver(src.n)'
  <2>1. pc \in {"neighbor", "leftover"}
    BY <1>0, <1>6 DEF RemapTypeOK, PhaseOK
  <2>2. PassedOver(src.n)
    BY <1>0, <2>1 DEF MatchInv
  <2> QED BY <1>0, <1>2, <2>2 DEF PassedOver
<1>7. ASSUME job.mode = "coexpand" PROVE RowsPaired(src.n)'
  <2>1. pc = "coexpand"
    BY <1>0, <1>7 DEF RemapTypeOK, PhaseOK
  <2>2. RowsPaired(src.n)
    BY <1>0, <2>1 DEF MatchInv
  <2> QED BY <1>0, <1>2, <2>2 DEF RowsPaired
<1> QED BY <1>0, <1>4, <1>5, <1>6, <1>7 DEF MatchInv

\* The steps that give slots and pages or write the files keep the pairing.
LEMMA LaterKeeps ==
  ASSUME RemapTypeOK, MatchInv,
         \/ AssignsPair \/ PairsEnd \/ AssignsAlone \/ AssignEnds
         \/ ExtentLoads \/ ExtentRefuses \/ ExtentEmits \/ ExtentMoves
         \/ WritesMap \/ MapFails \/ WritesRecord \/ WriteFails \/ Finishes
  PROVE  RemapTypeOK' /\ MatchInv'
<1>0. /\ src' = src /\ job' = job /\ UNCHANGED pairing /\ pc # "idle"
      /\ src \in Sources /\ u \in Nat /\ next \in Nat /\ done \in Nat
  BY DEF RemapTypeOK, AssignsPair, PairsEnd, AssignsAlone, AssignEnds, ExtentLoads,
         ExtentRefuses, ExtentEmits, ExtentMoves, WritesMap, MapFails, WritesRecord, WriteFails,
         Finishes
<1>1. Started /\ new_page \in [Pages -> Int] /\ PhaseOK
  BY <1>0 DEF RemapTypeOK, Started, JobOK
<1>2. /\ u' \in Nat /\ next' \in Nat /\ done' \in Nat
      /\ new_page' \in [Pages -> Int] /\ PhaseOK' /\ pc' \in PcSet \ Mated
      /\ pc' \in {"pairs", "alone", "map"} => pc \in {"pairs", "alone"} \/ job.mode = "extent"
  <2>1. CASE AssignsPair
    BY <1>0, <1>1, <2>1 DEF AssignsPair, GivesPair, PhaseOK, PcSet, Mated, result
  <2>2. CASE PairsEnd
    BY <1>0, <1>1, <2>2 DEF PairsEnd, PhaseOK, PcSet, Mated, result, placing
  <2>3. CASE AssignsAlone
    BY <1>0, <1>1, <2>3 DEF AssignsAlone, PhaseOK, PcSet, Mated, result
  <2>4. CASE AssignEnds
    BY <1>0, <1>1, <2>4 DEF AssignEnds, Checks, PhaseOK, PcSet, Mated, placing
  <2>5. CASE ExtentLoads
    BY <1>0, <1>1, <2>5 DEF ExtentLoads, PhaseOK, PcSet, Mated, placing, result
  <2>6. CASE ExtentRefuses
    BY <1>0, <1>1, <2>6 DEF ExtentRefuses, PhaseOK, PcSet, Mated, placing
  <2>7. CASE ExtentEmits
    BY <1>0, <1>1, <2>7 DEF ExtentEmits, PhaseOK, PcSet, Mated, result
  <2>8. CASE ExtentMoves
    BY <1>0, <1>1, <2>8 DEF ExtentMoves, Checks, PhaseOK, PcSet, Mated
  <2>9. CASE WritesMap
    BY <1>0, <1>1, <2>9 DEF WritesMap, PhaseOK, PcSet, Mated, placing
  <2>12. CASE MapFails
    <3>1. /\ pc = "map" /\ pc' = "idle" /\ done' = done + 1
          /\ u' = u /\ next' = next /\ new_page' = new_page
      BY <2>12 DEF MapFails, placing
    <3> QED BY <1>0, <1>1, <3>1 DEF PhaseOK, PcSet, Mated
  <2>10. CASE WritesRecord
    BY <1>0, <1>1, <2>10 DEF WritesRecord, PhaseOK, PcSet, Mated, placing, result
  <2>11. CASE WriteFails \/ Finishes
    BY <1>0, <1>1, <2>11 DEF WriteFails, Finishes, PhaseOK, PcSet, Mated, placing
  <2> QED BY <2>1, <2>2, <2>3, <2>4, <2>5, <2>6, <2>7, <2>8, <2>9, <2>10, <2>11, <2>12
<1>3. RemapTypeOK'
  BY <1>0, <1>1, <1>2, PlacingType
<1> QED BY <1>0, <1>1, <1>2, <1>3, MatchStays

\* The inductive invariant of the pairing.
THEOREM RemapMatched == Spec => [](RemapTypeOK /\ MatchInv)
<1>1. Init => RemapTypeOK /\ MatchInv
  BY RemapInitType DEF Init, MatchInv, Started
<1>2. RemapTypeOK /\ MatchInv /\ [Next]_vars => (RemapTypeOK /\ MatchInv)'
  <2> SUFFICES ASSUME RemapTypeOK, MatchInv, [Next]_vars PROVE RemapTypeOK' /\ MatchInv'
    OBVIOUS
  <2>1. ASSUME NEW mode \in Modes, Starts(mode) PROVE RemapTypeOK' /\ MatchInv'
    BY <2>1, StartsType, StartsMatch
  <2>2. CASE NeighborStep
    BY <2>2, NeighborKeeps
  <2>3. CASE CoexpandMeets \/ CoexpandNext
    BY <2>3, CoexpandMeetsKeeps, CoexpandNextKeeps
  <2>4. CASE CooccurWeighs \/ CooccurMatch \/ CooccurRest
    BY <2>4, WeighsKeeps, MatchKeeps, RestKeeps
  <2>5. CASE PairingEnds
    BY <2>5, PairingEndsKeeps
  <2>6. CASE \/ AssignsPair \/ PairsEnd \/ AssignsAlone \/ AssignEnds
             \/ ExtentLoads \/ ExtentRefuses \/ ExtentEmits \/ ExtentMoves
             \/ WritesMap \/ MapFails \/ WritesRecord \/ WriteFails \/ Finishes
    BY <2>6, LaterKeeps
  <2>7. CASE UNCHANGED vars
    <3>1. UNCHANGED <<src, job, pc, u, mate, j, pending, edges, next, new_page, done, ok>>
      BY <2>7 DEF vars, pairing, placing, result
    <3>2. Ids' = Ids /\ Pages' = Pages /\ Heavy' = Heavy /\ \A w : Wanted(w)' = Wanted(w)
      BY <3>1, JobStays
    <3>3. RemapTypeOK'
      BY <3>1, <3>2 DEF RemapTypeOK, Started, JobOK, PhaseOK
    <3>4. Used(mate)' = Used(mate)
      BY <3>1, <3>2 DEF Used
    <3>5. /\ Started' = Started /\ Mutual(mate)' = Mutual(mate)
          /\ PassedOver(u)' = PassedOver(u) /\ PassedOver(src.n)' = PassedOver(src.n)
          /\ RowsPaired(u)' = RowsPaired(u) /\ RowsPaired(src.n)' = RowsPaired(src.n)
      BY <3>1, <3>2, <3>4 DEF Started, Mutual, PassedOver, RowsPaired
    <3>6. Waiting' = Waiting
      BY <3>1, <3>2, <3>4 DEF Waiting
    <3>7. \A a, b : Outweighed(a, b)' = Outweighed(a, b)
      BY <3>1, <3>2, <3>4 DEF Outweighed
    <3>8. Weighed' = Weighed
      BY <3>1, <3>2, <3>4, <3>7 DEF Weighed
    <3>9. MatchInv'
      BY <3>1, <3>2, <3>4, <3>5, <3>6, <3>7, <3>8 DEF MatchInv
    <3> QED BY <3>3, <3>9
  <2> QED BY <2>1, <2>2, <2>3, <2>4, <2>5, <2>6, <2>7 DEF Next, Rests, Modes
<1> QED BY <1>1, <1>2, PTL DEF Spec

\* Whatever the rows, the trace and the order of equal weights, mates are mutual
\* at every moment of the pairing and its result is greedy: the pairing loops of
\* remap_diskann_pages leave no two ids free that the mode could pair, and a
\* pair cooccur passed over lost a member to one at least as heavy.
THEOREM RemapGreedy == Spec => []GreedyMatching
<1>1. RemapTypeOK /\ MatchInv => GreedyMatching
  <2> SUFFICES ASSUME RemapTypeOK, MatchInv PROVE GreedyMatching
    OBVIOUS
  <2>1. pc # "idle" => \A v \in Used(mate) : mate[v] \in Ids \ {v} /\ mate[mate[v]] = v
    BY DEF MatchInv, Started, Mutual
  <2>2. \A v \in Ids : v < src.n
    BY SourceFacts DEF Ids, RemapTypeOK
  <2>3. ASSUME pc \in {"pairs", "alone", "map"}, job.mode \in {"neighbor", "cooccur"}
        PROVE  \A v \in Ids \ Used(mate) : Wanted(v) \subseteq Used(mate)
    BY <2>2, <2>3 DEF MatchInv, PassedOver
  <2>4. ASSUME pc \in {"pairs", "alone", "map"}, job.mode = "coexpand"
        PROVE  \A v \in Ids : \A w, x \in Wanted(v) \ Used(mate) : w = x
    BY <2>2, <2>4 DEF MatchInv, RowsPaired
  <2>5. ASSUME pc = "leftover", u = 0, NEW a \in Ids, NEW b \in Ids, a # b, Weight({a, b}) > 0
        PROVE  \E v \in {a, b} \cap Used(mate) : Weight({v, mate[v]}) >= Weight({a, b})
    <3>1. Heavy[{a, b}] = Weight({a, b}) /\ {a, b} = {b, a}
      BY DEF Heavy
    <3>2. a < b \/ b < a
      BY <2>5, SourceFacts DEF RemapTypeOK
    <3>3. Outweighed(a, b) \/ Outweighed(b, a)
      BY <2>5, <3>1, <3>2 DEF MatchInv
    <3>4. PICK v \in {a, b} \cap Used(mate) : Heavy[{v, mate[v]}] >= Heavy[{a, b}]
      BY <3>1, <3>3 DEF Outweighed
    <3>5. {v, mate[v]} \in SUBSET Ids
      BY <2>1, <2>5, <3>4
    <3>6. Heavy[{v, mate[v]}] = Weight({v, mate[v]})
      BY <3>5 DEF Heavy
    <3> QED BY <3>1, <3>4, <3>6
  <2> QED BY <2>1, <2>3, <2>4, <2>5 DEF GreedyMatching
<1> QED BY <1>1, RemapMatched, PTL

-----------------------------------------------------------------------------
(* The map is one to one and keeps pages together.                         *)

\* Slots and pages.
LEMMA Halves ==
  ASSUME NEW s \in Nat
  PROVE  s \div 2 \in Nat /\ s % 2 \in {0, 1} /\ s = 2 * (s \div 2) + (s % 2)
OBVIOUS

LEMMA Doubled ==
  ASSUME NEW a \in Nat, NEW x \in {0, 1}
  PROVE  (2 * a + x) \div 2 = a /\ (2 * a + x) % 2 = x
OBVIOUS

\* Counting one more.
LEMMA OneMore ==
  ASSUME NEW S, IsFiniteSet(S), NEW x, x \notin S
  PROVE  Cardinality(S \cup {x}) = Cardinality(S) + 1 /\ IsFiniteSet(S \cup {x})
BY FS_AddElement

\* The maps on disk and in the job's options stay.
LEMMA MapsStay ==
  ASSUME SlotInv, src' = src, job' = job, mapFile' = mapFile, Started
  PROVE  (mapFile = Empty \/ IsMap(mapFile))' /\ (job.map_in = Empty \/ IsMap(job.map_in))'
BY DEF SlotInv, IsMap, Ids, Empty

\* While ids are paired no slot is given.
LEMMA MatedSlots ==
  ASSUME SlotInv, src' = src, job' = job, UNCHANGED <<placing, files, result>>,
         pc \in Mated, pc' \in Mated
  PROVE  SlotInv'
<1>1. (mapFile = Empty \/ IsMap(mapFile))' /\ (job.map_in = Empty \/ IsMap(job.map_in))'
  BY MapsStay DEF files, Started, Mated
<1>2. slots' \in [Ids' -> Int] /\ next' = 0 /\ Given' = {}
  BY DEF SlotInv, Given, placing, Ids
<1> QED BY <1>1, <1>2 DEF SlotInv, Mated, Written

\* A job starts without a slot or a page, and with the map of an earlier one.
LEMMA StartsSlots ==
  ASSUME RemapTypeOK, SlotInv, NEW mode \in Modes, Starts(mode)
  PROVE  SlotInv'
<1>1. /\ src' = src /\ Ids' = Ids /\ pc' = mode /\ next' = 0 /\ u' = 0 /\ mapFile' = mapFile
      /\ slots' = [v \in Ids |-> Nobody] /\ new_page' = [p \in Pages |-> Nobody]
      /\ job'.map_in = mapFile /\ Pages' = Pages
  BY DEF Starts, Ids, Pages, files
<1>2. (mapFile = Empty \/ IsMap(mapFile))' /\ (job.map_in = Empty \/ IsMap(job.map_in))'
  BY <1>1 DEF SlotInv, IsMap, Empty
<1>3. slots' \in [Ids' -> Int] /\ Given' = {} /\ Placed' = {}
  BY <1>1 DEF Given, Placed, Nobody
<1> QED BY <1>1, <1>2, <1>3 DEF SlotInv, Mated, Modes, Written

\* The first slot to give is 0.
LEMMA PairingEndsSlots ==
  ASSUME RemapTypeOK, SlotInv, PairingEnds
  PROVE  SlotInv'
<1>1. /\ src' = src /\ job' = job /\ pc' = "pairs" /\ u' = 0 /\ pc \in Mated
      /\ next' = 0 /\ slots' = slots /\ mapFile' = mapFile /\ Given = {} /\ slots \in [Ids -> Int]
      /\ next = 0 /\ Started /\ mate' = mate
  BY DEF PairingEnds, placing, files, pairing, Mated, SlotInv, Started
<1>2. (mapFile = Empty \/ IsMap(mapFile))' /\ (job.map_in = Empty \/ IsMap(job.map_in))'
  BY <1>1, MapsStay
<1>3. Ids' = Ids /\ Given' = {} /\ Used(mate)' = Used(mate)
  BY <1>1 DEF Ids, Given, Used
<1>4. GivenApart' /\ PairsTogether'
  BY <1>1, <1>3, FS_EmptySet DEF GivenApart, PairsTogether
<1>5. \A v \in Ids : ~(v < 0)
  BY SourceFacts DEF RemapTypeOK
<1>6. PairsGiven'
  <2>1. next' % 2 = 0
    BY <1>1
  <2>2. Used(mate)' \subseteq Ids
    BY <1>3 DEF Used
  <2> QED BY <1>1, <1>3, <1>5, <2>1, <2>2 DEF PairsGiven
<1>7. u' <= src'.n
  BY <1>1, SourceFacts DEF RemapTypeOK
<1> QED BY <1>1, <1>2, <1>3, <1>4, <1>6, <1>7 DEF SlotInv, Mated, Written

\* The ids that have a slot are finitely many.
LEMMA GivenFinite ==
  ASSUME RemapTypeOK
  PROVE  IsFiniteSet(Given) /\ Cardinality(Given) \in Nat /\ Cardinality(Given) <= src.n
         /\ (Cardinality(Given) = src.n => Given = Ids)
<1>1. IsFiniteSet(Ids) /\ Given \subseteq Ids /\ Cardinality(Ids) = src.n
  BY SourceFacts DEF RemapTypeOK, Given
<1> QED BY <1>1, FS_Subset, FS_CardinalityType

\* The next two slots go to a pair that has none yet.
LEMMA AssignsPairSlots ==
  ASSUME RemapTypeOK, MatchInv, SlotInv, AssignsPair
  PROVE  SlotInv'
<1>0. /\ src' = src /\ job' = job /\ pc' = pc /\ pc = "pairs" /\ u' = u + 1 /\ u < src.n
      /\ mapFile' = mapFile /\ slots \in [Ids -> Int] /\ next \in Nat /\ mate' = mate
      /\ Started /\ u \in Nat /\ u \in Ids /\ src.n \in Nat /\ src \in Sources
  BY SourceFacts DEF AssignsPair, files, pairing, Mated, SlotInv, Started, RemapTypeOK, Ids
<1>1. /\ GivenApart /\ PairsTogether /\ PairsGiven /\ Mutual(mate)
      /\ mate \in [Ids -> Ids \cup {Nobody}]
  BY <1>0 DEF SlotInv, MatchInv, RemapTypeOK, JobOK
<1>2. (mapFile = Empty \/ IsMap(mapFile))' /\ (job.map_in = Empty \/ IsMap(job.map_in))'
  BY <1>0, MapsStay
<1>3. Ids' = Ids /\ Used(mate)' = Used(mate) /\ Nobody \notin Ids /\ Ids \subseteq Nat
  BY <1>0, SourceFacts DEF Ids, Used
<1>4. slots' \in [Ids -> Int] /\ GivenApart' /\ PairsTogether' /\ PairsGiven'
  <2>1. CASE ~(u < mate[u])
    <3>1. slots' = slots /\ next' = next
      BY <2>1 DEF AssignsPair
    <3>2. Given' = Given
      BY <1>3, <3>1 DEF Given
    <3>3. GivenApart' /\ PairsTogether'
      BY <1>0, <1>1, <1>3, <3>1, <3>2 DEF GivenApart, PairsTogether, Sib
    <3>4. ASSUME NEW v \in Used(mate), v < u + 1, v < mate[v] PROVE v \in Given
      <4>1. v \in Nat /\ v # u
        BY <1>3, <2>1, <3>4 DEF Used
      <4>2. v < u
        BY <1>0, <3>4, <4>1
      <4> QED BY <1>1, <3>4, <4>2 DEF PairsGiven
    <3>5. \A v \in Given : v \in Nat /\ mate[v] \in Nat
      BY <1>1, <1>3 DEF Given, PairsGiven
    <3>6. \A v \in Given : v \in Used(mate) /\ mate[v] \in Given /\ (v < u + 1 \/ mate[v] < u + 1)
      BY <1>0, <1>1, <3>5 DEF PairsGiven
    <3> QED BY <1>0, <1>1, <1>3, <3>1, <3>2, <3>3, <3>4, <3>6 DEF PairsGiven
  <2>2. CASE u < mate[u]
    <3> DEFINE b == mate[u]
    <3>1. slots' = [slots EXCEPT ![u] = next, ![b] = next + 1] /\ next' = next + 2
      BY <2>2 DEF AssignsPair, GivesPair
    <3>2. u \in Used(mate) /\ b \in Ids \ {u} /\ mate[b] = u /\ b \in Used(mate)
      <4>1. b # Nobody
        BY <1>0, <2>2 DEF Nobody
      <4>2. u \in Used(mate)
        BY <1>0, <4>1 DEF Used
      <4>3. b \in Ids \ {u} /\ mate[b] = u
        BY <1>1, <4>2 DEF Mutual
      <4> QED BY <1>3, <4>2, <4>3, <1>0 DEF Used
    <3>3. u \notin Given /\ b \notin Given
      <4>0. u \in Nat /\ b \in Nat
        BY <1>0, <1>3, <3>2
      <4>1. ~(b < u) /\ ~(u < u)
        BY <2>2, <4>0
      <4> QED BY <1>1, <3>2, <4>1 DEF PairsGiven
    <3> HIDE DEF b
    <3>4. /\ slots' \in [Ids -> Int] /\ slots'[u] = next /\ slots'[b] = next + 1
          /\ \A v \in Ids : v # u /\ v # b => slots'[v] = slots[v]
      BY <1>0, <3>1, <3>2
    <3>5. Given' = (Given \cup {u}) \cup {b}
      <4>1. slots'[u] # Nobody /\ slots'[b] # Nobody
        BY <1>0, <3>4 DEF Nobody
      <4> QED BY <1>0, <1>3, <3>2, <3>4, <4>1 DEF Given
    <3>6. \A v \in Given : v \in Ids /\ v # u /\ v # b /\ slots'[v] = slots[v] /\ slots[v] \in 0 .. next - 1
      BY <1>1, <3>3, <3>4 DEF Given, GivenApart
    <3>7. Cardinality(Given') = next + 2
      <4>1. IsFiniteSet(Given) /\ Cardinality(Given) = next
        BY <1>1, GivenFinite DEF GivenApart
      <4>2. Cardinality(Given \cup {u}) = next + 1 /\ IsFiniteSet(Given \cup {u})
        BY <3>3, <4>1, OneMore
      <4>3. b \notin Given \cup {u}
        BY <3>2, <3>3
      <4>4. Cardinality((Given \cup {u}) \cup {b}) = next + 1 + 1
        BY <4>2, <4>3, OneMore
      <4> QED BY <1>0, <3>5, <4>4
    <3>8. \A v \in Given' : slots'[v] \in 0 .. next' - 1
      <4>1. next \in 0 .. next + 2 - 1 /\ next + 1 \in 0 .. next + 2 - 1
        BY <1>0
      <4>2. 0 .. next - 1 \subseteq 0 .. next + 2 - 1
        BY <1>0
      <4> QED BY <3>1, <3>4, <3>5, <3>6, <4>1, <4>2
    <3>9. \A v, w \in Given' : slots'[v] = slots'[w] => v = w
      <4> SUFFICES ASSUME NEW v \in Given', NEW w \in Given', slots'[v] = slots'[w] PROVE v = w
        OBVIOUS
      <4>1. CASE v \in Given /\ w \in Given
        BY <1>1, <3>6, <4>1 DEF GivenApart
      <4>2. CASE v \in {u, b} \/ w \in {u, b}
        BY <1>0, <3>4, <3>5, <3>6, <4>2
      <4> QED BY <3>5, <4>1, <4>2
    <3>10. GivenApart'
      BY <3>1, <3>7, <3>8, <3>9 DEF GivenApart
    <3>11. Sib(next) = next + 1 /\ Sib(next + 1) = next
      BY <1>0, <1>1 DEF PairsGiven, Sib
    <3>12. PairsTogether'
      <4> SUFFICES ASSUME NEW v \in Used(mate) \cap Given'
                   PROVE  mate[v] \in Given' /\ slots'[mate[v]] = Sib(slots'[v])
        BY <1>0, <1>3 DEF PairsTogether, Sib
      <4>1. CASE v \in {u, b}
        BY <3>2, <3>4, <3>5, <3>11, <4>1 DEF b
      <4>2. CASE v \in Given
        <5>1. mate[v] \in Given /\ slots[mate[v]] = Sib(slots[v])
          BY <1>1, <4>2 DEF PairsTogether
        <5> QED BY <3>5, <3>6, <4>2, <5>1
      <4> QED BY <3>5, <4>1, <4>2
    <3>13. PairsGiven'
      <4>1. next' % 2 = 0
        BY <1>0, <1>1, <3>1 DEF PairsGiven
      <4>2. ASSUME NEW v \in Given'
            PROVE  v \in Used(mate) /\ mate[v] \in Given' /\ (v < u + 1 \/ mate[v] < u + 1)
        <5>1. CASE v = u
          BY <1>0, <3>2, <3>5, <5>1 DEF b
        <5>2. CASE v = b
          BY <1>0, <3>2, <3>5, <5>2
        <5>3. CASE v \in Given
          <6>1. v \in Used(mate) /\ mate[v] \in Given /\ (v < u \/ mate[v] < u)
            BY <1>1, <5>3 DEF PairsGiven
          <6>2. v \in Nat /\ mate[v] \in Nat
            BY <1>3, <6>1 DEF Given, Used
          <6> QED BY <1>0, <3>5, <6>1, <6>2
        <5> QED BY <3>5, <5>1, <5>2, <5>3
      <4>3. ASSUME NEW v \in Used(mate), v < u + 1, v < mate[v] PROVE v \in Given'
        <5>1. v \in Nat
          BY <1>3 DEF Used
        <5>2. v = u \/ v < u
          BY <1>0, <4>3, <5>1
        <5> QED BY <1>1, <3>5, <4>3, <5>2 DEF PairsGiven
      <4> QED BY <1>0, <1>3, <4>1, <4>2, <4>3 DEF PairsGiven
    <3> QED BY <3>4, <3>10, <3>12, <3>13
  <2> QED BY <2>1, <2>2
<1>5. u' <= src'.n
  BY <1>0
<1> QED BY <1>0, <1>2, <1>3, <1>4, <1>5 DEF SlotInv, Mated, Written

\* After the loop over the pairs every id with a mate has a slot.
LEMMA PairsEndSlots ==
  ASSUME RemapTypeOK, MatchInv, SlotInv, PairsEnd
  PROVE  SlotInv'
<1>0. /\ src' = src /\ job' = job /\ pc' = "alone" /\ pc = "pairs" /\ u' = 0 /\ u = src.n
      /\ mapFile' = mapFile /\ slots' = slots /\ next' = next /\ mate' = mate
      /\ Started /\ src.n \in Nat /\ src \in Sources /\ slots \in [Ids -> Int]
  BY SourceFacts DEF PairsEnd, files, pairing, placing, Mated, SlotInv, Started, RemapTypeOK
<1>1. /\ GivenApart /\ PairsTogether /\ PairsGiven /\ Mutual(mate)
  BY <1>0 DEF SlotInv, MatchInv
<1>2. (mapFile = Empty \/ IsMap(mapFile))' /\ (job.map_in = Empty \/ IsMap(job.map_in))'
  BY <1>0, MapsStay
<1>3. Ids' = Ids /\ Used(mate)' = Used(mate) /\ Given' = Given /\ Ids \subseteq Nat
  BY <1>0, SourceFacts DEF Ids, Used, Given
<1>4. GivenApart' /\ PairsTogether'
  BY <1>0, <1>1, <1>3 DEF GivenApart, PairsTogether, Sib
<1>5. ASSUME NEW v \in Used(mate) PROVE v \in Given
  <2>1. v \in Ids /\ mate[v] \in Ids \ {v} /\ mate[mate[v]] = v /\ mate[v] \in Used(mate)
    <3>1. v \in Ids /\ mate[v] \in Ids \ {v} /\ mate[mate[v]] = v
      BY <1>1 DEF Mutual, Used
    <3>2. Nobody \notin Ids
      BY <1>0, SourceFacts
    <3> QED BY <3>1, <3>2 DEF Used
  <2>2. v < src.n /\ mate[v] < src.n /\ (v < mate[v] \/ mate[v] < v)
    BY <1>0, <2>1 DEF Ids
  <2>3. CASE v < mate[v]
    BY <1>0, <1>1, <2>2, <2>3 DEF PairsGiven
  <2>4. CASE mate[v] < v
    <3>1. mate[v] \in Given
      BY <1>0, <1>1, <2>1, <2>2, <2>4 DEF PairsGiven
    <3> QED BY <1>1, <2>1, <3>1 DEF PairsGiven
  <2> QED BY <2>2, <2>3, <2>4
<1>6. \A v \in Ids : ~(v < 0)
  BY <1>3
<1>7. u' <= src'.n
  BY <1>0
<1> QED BY <1>0, <1>2, <1>3, <1>4, <1>5, <1>6, <1>7 DEF SlotInv, Mated, Written

\* The next slot goes to an id that has none.
LEMMA AssignsAloneSlots ==
  ASSUME RemapTypeOK, MatchInv, SlotInv, AssignsAlone
  PROVE  SlotInv'
<1>0. /\ src' = src /\ job' = job /\ pc' = pc /\ pc = "alone" /\ u' = u + 1 /\ u < src.n
      /\ mapFile' = mapFile /\ slots \in [Ids -> Int] /\ next \in Nat /\ mate' = mate
      /\ Started /\ u \in Nat /\ u \in Ids /\ src.n \in Nat /\ src \in Sources
  BY SourceFacts DEF AssignsAlone, files, pairing, Mated, SlotInv, Started, RemapTypeOK, Ids
<1>1. /\ GivenApart /\ PairsTogether /\ Used(mate) \subseteq Given
      /\ \A v \in Ids : v < u => v \in Given
  BY <1>0 DEF SlotInv
<1>2. (mapFile = Empty \/ IsMap(mapFile))' /\ (job.map_in = Empty \/ IsMap(job.map_in))'
  BY <1>0, MapsStay
<1>3. Ids' = Ids /\ Used(mate)' = Used(mate) /\ Ids \subseteq Nat
  BY <1>0, SourceFacts DEF Ids, Used
<1>4. /\ slots' \in [Ids -> Int] /\ GivenApart' /\ PairsTogether'
      /\ Given' = Given \cup {u}
  <2>1. CASE slots[u] # Nobody
    <3>1. slots' = slots /\ next' = next
      BY <2>1 DEF AssignsAlone
    <3>2. Given' = Given /\ u \in Given
      BY <1>0, <1>3, <2>1, <3>1 DEF Given
    <3>3. GivenApart' /\ PairsTogether'
      BY <1>0, <1>1, <1>3, <3>1, <3>2 DEF GivenApart, PairsTogether, Sib
    <3> QED BY <1>0, <3>1, <3>2, <3>3
  <2>2. CASE slots[u] = Nobody
    <3>1. slots' = [slots EXCEPT ![u] = next] /\ next' = next + 1 /\ u \notin Given
      BY <2>2 DEF AssignsAlone, Given
    <3>2. /\ slots' \in [Ids -> Int] /\ slots'[u] = next
          /\ \A v \in Ids : v # u => slots'[v] = slots[v]
      BY <1>0, <3>1
    <3>3. Given' = Given \cup {u}
      <4>1. slots'[u] # Nobody
        BY <1>0, <3>2 DEF Nobody
      <4> QED BY <1>0, <1>3, <3>2, <4>1 DEF Given
    <3>4. \A v \in Given : v # u /\ slots'[v] = slots[v] /\ slots[v] \in 0 .. next - 1
      BY <1>1, <3>1, <3>2 DEF Given, GivenApart
    <3>5. \A v \in Given' : slots'[v] \in 0 .. next' - 1
      <4>1. next \in 0 .. next + 1 - 1 /\ 0 .. next - 1 \subseteq 0 .. next + 1 - 1
        BY <1>0
      <4> QED BY <3>1, <3>2, <3>3, <3>4, <4>1
    <3>6. \A v, w \in Given' : slots'[v] = slots'[w] => v = w
      <4> SUFFICES ASSUME NEW v \in Given', NEW w \in Given', slots'[v] = slots'[w] PROVE v = w
        OBVIOUS
      <4>1. CASE v \in Given /\ w \in Given
        BY <1>1, <3>4, <4>1 DEF GivenApart
      <4>2. CASE v = u \/ w = u
        BY <1>0, <3>2, <3>3, <3>4, <4>2
      <4> QED BY <3>3, <4>1, <4>2
    <3>7. Cardinality(Given') = next + 1
      <4>1. IsFiniteSet(Given) /\ Cardinality(Given) = next
        BY <1>1, GivenFinite DEF GivenApart
      <4> QED BY <3>1, <3>3, <4>1, OneMore
    <3>8. GivenApart'
      BY <3>1, <3>5, <3>6, <3>7 DEF GivenApart
    <3>9. PairsTogether'
      <4> SUFFICES ASSUME NEW v \in Used(mate)
                   PROVE  mate[v] \in Given' /\ slots'[mate[v]] = Sib(slots'[v])
        BY <1>0, <1>3 DEF PairsTogether, Sib
      <4>1. v \in Given /\ mate[v] \in Given /\ slots[mate[v]] = Sib(slots[v])
        BY <1>1 DEF PairsTogether
      <4> QED BY <3>3, <3>4, <4>1
    <3> QED BY <3>2, <3>3, <3>8, <3>9
  <2> QED BY <2>1, <2>2
<1>5. \A v \in Ids : v < u + 1 => v \in Given'
  <2> SUFFICES ASSUME NEW v \in Ids, v < u + 1 PROVE v \in Given'
    OBVIOUS
  <2>1. v = u \/ v < u
    BY <1>0, <1>3
  <2> QED BY <1>1, <1>4, <2>1
<1>6. u' <= src'.n /\ Used(mate)' \subseteq Given'
  BY <1>0, <1>1, <1>3, <1>4
<1> QED BY <1>0, <1>2, <1>3, <1>4, <1>5, <1>6 DEF SlotInv, Mated, Written

\* All pages, counted.
LEMMA PagesFinite ==
  ASSUME RemapTypeOK
  PROVE  /\ IsFiniteSet(Pages) /\ Cardinality(Pages) = (src.n + 1) \div 2
         /\ IsFiniteSet(Placed) /\ Placed \subseteq Pages /\ Pages \subseteq Nat
<1>1. src.n \in Nat
  BY SourceFacts DEF RemapTypeOK
<1>2. PICK k \in Nat : k = (src.n + 1) \div 2
  BY <1>1
<1>3. k - 1 \in Int /\ 0 \in Int
  BY <1>2
<1>4. IsFiniteSet(0 .. k - 1) /\ Cardinality(0 .. k - 1) = IF 0 > k - 1 THEN 0 ELSE k - 1 - 0 + 1
  BY <1>3, FS_Interval
<1>5. Cardinality(0 .. k - 1) = k /\ 0 .. k - 1 \subseteq Nat
  BY <1>2, <1>4
<1>6. Pages = 0 .. k - 1 /\ Placed \subseteq Pages
  BY <1>2 DEF Pages, Placed
<1> QED BY <1>2, <1>4, <1>5, <1>6, FS_Subset

\* Every id has a slot and every page a place when the tool counts them.
LEMMA Complete ==
  ASSUME RemapTypeOK, SlotInv
  PROVE  AllGiven
<1>1. ASSUME pc = "alone", u = src.n PROVE next = src.n /\ Given = Ids
  <2>1. GivenApart /\ \A v \in Ids : v < u => v \in Given
    BY <1>1 DEF SlotInv
  <2>2. \A v \in Ids : v < src.n
    BY SourceFacts DEF RemapTypeOK, Ids
  <2>3. Given = Ids
    BY <1>1, <2>1, <2>2 DEF Given
  <2> QED BY <2>1, <2>3, SourceFacts DEF GivenApart, RemapTypeOK
<1>2. ASSUME pc = "emit", u > NRuns PROVE next = (src.n + 1) \div 2
  <2>1. PagesApart /\ Placed = Pages
    BY <1>2 DEF SlotInv
  <2> QED BY <2>1, PagesFinite DEF PagesApart
<1> QED BY <1>1, <1>2 DEF AllGiven

\* The slots of a pairing are a map that keeps mates on a page.
LEMMA AssignEndsSlots ==
  ASSUME RemapTypeOK, MatchInv, SlotInv, AssignEnds
  PROVE  SlotInv'
<1>0. /\ src' = src /\ job' = job /\ pc = "alone" /\ u = src.n /\ slots' = slots /\ mate' = mate
      /\ mapFile' = mapFile /\ Started /\ next = src.n /\ pc' = "map" /\ job.mode # "extent"
      /\ slots \in [Ids -> Int]
  BY Complete DEF AssignEnds, Checks, files, pairing, placing, SlotInv, Started, AllGiven,
                  RemapTypeOK, PhaseOK
<1>1. GivenApart /\ PairsTogether /\ \A v \in Ids : v < u => v \in Given
  BY <1>0 DEF SlotInv
<1>2. (mapFile = Empty \/ IsMap(mapFile))' /\ (job.map_in = Empty \/ IsMap(job.map_in))'
  BY <1>0, MapsStay
<1>3. Ids' = Ids /\ Used(mate)' = Used(mate) /\ Ids = 0 .. src.n - 1 /\ src.n \in Nat
  BY <1>0, SourceFacts DEF Ids, Used, RemapTypeOK
<1>4. Given = Ids
  BY <1>0, <1>1, <1>3 DEF Given
<1>5. IsMap(slots)'
  BY <1>0, <1>1, <1>3, <1>4 DEF IsMap, GivenApart
<1>6. Kept(slots)'
  <2>1. \A v \in Used(mate) : slots[mate[v]] = Sib(slots[v])
    BY <1>1, <1>4 DEF PairsTogether, Used
  <2> QED BY <1>0, <1>3, <2>1 DEF Kept, Sib
<1> QED BY <1>0, <1>2, <1>5, <1>6 DEF SlotInv, Mated, Written

\* The runs of a job are counted.
LEMMA RunsCounted ==
  ASSUME RemapTypeOK, Started
  PROVE  /\ Cardinality(Expands(job.trace)) \in Nat /\ NRuns \in Nat
         /\ Cardinality(Expands(job.trace)) <= NRuns
<1>1. job.trace \in Seq(Seq(Nat)) /\ src.n \in Nat
  BY RemapConstants, SourceFacts DEF RemapTypeOK, JobOK
<1>2. Expands(job.trace) \subseteq 1 .. Len(job.trace) /\ Len(job.trace) \in Int /\ 1 \in Int
  BY <1>1 DEF Expands
<1>3. IsFiniteSet(1 .. Len(job.trace))
  BY <1>2, FS_Interval
<1>4. Cardinality(Expands(job.trace)) \in Nat
  BY <1>2, <1>3, FS_Subset, FS_CardinalityType
<1> QED BY <1>1, <1>4 DEF NRuns

\* Extent mode begins with a map it can use, or ends.
LEMMA ExtentBeginsSlots ==
  ASSUME RemapTypeOK, SlotInv, ExtentLoads \/ ExtentRefuses
  PROVE  SlotInv'
<1>0. /\ src' = src /\ job' = job /\ pc = "extent" /\ mapFile' = mapFile /\ Started
      /\ u' = u /\ next' = next /\ new_page' = new_page /\ u = 0 /\ next = 0 /\ Placed = {}
      /\ \/ pc' = "emit" /\ job.map_in # Empty
         \/ pc' = "idle" /\ ~ok'
  BY DEF ExtentLoads, ExtentRefuses, Usable, files, placing, SlotInv, Started
<1>1. (mapFile = Empty \/ IsMap(mapFile))' /\ (job.map_in = Empty \/ IsMap(job.map_in))'
  BY <1>0, MapsStay
<1>2. CASE pc' = "idle" /\ ~ok'
  BY <1>0, <1>1, <1>2 DEF SlotInv, Mated, Written
<1>3. CASE pc' = "emit" /\ job.map_in # Empty
  <2>1. IsMap(job.map_in)'
    BY <1>0, <1>1, <1>3 DEF Empty
  <2>2. Placed' = {}
    BY <1>0 DEF Placed, Pages
  <2>3. PagesApart'
    BY <1>0, <2>2, FS_EmptySet DEF PagesApart
  <2>4. ~(u' > NRuns')
    BY <1>0, RunsCounted, JobStays
  <2> QED BY <1>1, <1>3, <2>1, <2>3, <2>4 DEF SlotInv, Mated, Written
<1> QED BY <1>0, <1>2, <1>3

\* The next place goes to a page that has none; the last run is of all pages.
LEMMA ExtentEmitsSlots ==
  ASSUME RemapTypeOK, SlotInv, ExtentEmits
  PROVE  SlotInv'
<1> DEFINE free == {p \in Run(u) \cap Pages : new_page[p] = Nobody}
<1>0. /\ src' = src /\ job' = job /\ pc = "emit" /\ pc' = pc /\ mapFile' = mapFile /\ Started
      /\ u <= NRuns /\ u \in Nat /\ next \in Nat /\ new_page \in [Pages -> Int]
      /\ IsMap(job.map_in) /\ PagesApart
  BY DEF ExtentEmits, files, SlotInv, Started, RemapTypeOK, JobOK
<1>1. (mapFile = Empty \/ IsMap(mapFile))' /\ IsMap(job.map_in)'
  BY <1>0, MapsStay DEF IsMap, Ids
<1>2. Pages' = Pages /\ NRuns' = NRuns /\ NRuns \in Int
  BY <1>0, RunsCounted, JobStays
<1>3. CASE free = {}
  <2>1. u' = u + 1 /\ new_page' = new_page /\ next' = next
    BY <1>3 DEF ExtentEmits
  <2>2. Placed' = Placed
    BY <1>2, <2>1 DEF Placed
  <2>3. PagesApart'
    BY <1>0, <2>1, <2>2 DEF PagesApart
  <2>4. ASSUME u + 1 > NRuns PROVE Placed = Pages
    <3>1. ~(u < NRuns)
      BY <1>0, <1>2, <2>4
    <3>2. Run(u) = Pages
      <4>1. ~(u < Cardinality(Expands(job.trace)))
        BY <1>0, <3>1, RunsCounted
      <4> QED BY <3>1, <4>1 DEF Run
    <3> QED BY <1>3, <3>2 DEF Placed
  <2> QED BY <1>0, <1>1, <1>2, <2>1, <2>2, <2>3, <2>4 DEF SlotInv, Mated, Written
<1>4. CASE free # {}
  <2> DEFINE q == Min(free)
  <2>1. new_page' = [new_page EXCEPT ![q] = next] /\ next' = next + 1 /\ u' = u
    BY <1>4 DEF ExtentEmits
  <2>2. q \in Pages /\ new_page[q] = Nobody
    <3>1. free \in SUBSET Nat
      BY PagesFinite
    <3>2. Min(free) \in free
      BY <1>4, <3>1, MinIn
    <3> QED BY <3>2
  <2> HIDE DEF q, free
  <2>3. q \notin Placed
    BY <2>2 DEF Placed
  <2>4. new_page'[q] = next /\ \A p \in Pages : p # q => new_page'[p] = new_page[p]
    BY <1>0, <2>1, <2>2
  <2>5. Placed' = Placed \cup {q}
    <3>1. new_page'[q] # Nobody
      BY <1>0, <2>4 DEF Nobody
    <3> QED BY <1>2, <2>2, <2>4, <3>1 DEF Placed
  <2>6. \A p \in Placed : p # q /\ new_page'[p] = new_page[p] /\ new_page[p] \in 0 .. next - 1
    BY <1>0, <2>3, <2>4 DEF Placed, PagesApart
  <2>7. \A p \in Placed' : new_page'[p] \in 0 .. next' - 1
    <3>1. next \in 0 .. next + 1 - 1 /\ 0 .. next - 1 \subseteq 0 .. next + 1 - 1
      BY <1>0
    <3> QED BY <2>1, <2>4, <2>5, <2>6, <3>1
  <2>8. \A p, r \in Placed' : new_page'[p] = new_page'[r] => p = r
    <3> SUFFICES ASSUME NEW p \in Placed', NEW r \in Placed', new_page'[p] = new_page'[r]
                 PROVE  p = r
      OBVIOUS
    <3>1. CASE p \in Placed /\ r \in Placed
      BY <1>0, <2>6, <3>1 DEF PagesApart
    <3>2. CASE p = q \/ r = q
      BY <1>0, <2>4, <2>5, <2>6, <3>2
    <3> QED BY <2>5, <3>1, <3>2
  <2>9. Cardinality(Placed') = next + 1
    <3>1. IsFiniteSet(Placed) /\ Cardinality(Placed) = next
      BY <1>0, PagesFinite DEF PagesApart
    <3> QED BY <2>3, <2>5, <3>1, OneMore
  <2>10. PagesApart'
    BY <2>1, <2>7, <2>8, <2>9 DEF PagesApart
  <2>11. ~(u' > NRuns')
    BY <1>0, <1>2, <2>1
  <2> QED BY <1>0, <1>1, <2>10, <2>11 DEF SlotInv, Mated, Written
<1> QED BY <1>3, <1>4

\* Pages of an even image moved whole: still one to one, and two ids share a
\* page if and only if they did.
LEMMA ExtentMovesSlots ==
  ASSUME RemapTypeOK, SlotInv, EvenExtents, ExtentMoves
  PROVE  SlotInv'
<1> DEFINE f == job.map_in
           np(v) == new_page[f[v] \div 2]
<1>0. /\ src' = src /\ job' = job /\ pc = "emit" /\ mapFile' = mapFile /\ Started
      /\ u > NRuns /\ next = (src.n + 1) \div 2 /\ pc' = "map" /\ job.mode = "extent"
      /\ slots' = [v \in Ids |-> 2 * np(v) + (f[v] % 2)]
      /\ IsMap(f) /\ PagesApart /\ Placed = Pages /\ mate' = mate
  BY Complete DEF ExtentMoves, Checks, files, pairing, SlotInv, Started, AllGiven, RemapTypeOK,
                  PhaseOK
<1>1. (mapFile = Empty \/ IsMap(mapFile))' /\ IsMap(job.map_in)'
  BY <1>0, MapsStay DEF IsMap, Ids
<1>2. src.n \in Nat /\ src.n % 2 = 0 /\ Ids' = Ids
  <2>1. "extent" \in src.modes /\ src \in Sources
    BY <1>0 DEF RemapTypeOK, JobOK
  <2> QED BY <1>0, <2>1, SourceFacts DEF EvenExtents, Ids
<1>3. PICK h \in Nat : src.n = 2 * h
  BY <1>2
<1>4. next = h /\ Pages = 0 .. h - 1
  BY <1>0, <1>3 DEF Pages
<1>5. \A v \in Ids : f[v] \in Nat /\ f[v] < 2 * h
  <2>1. \A v \in Ids : f[v] \in Ids
    BY <1>0 DEF IsMap
  <2>2. \A x \in Ids : x \in Nat /\ x < 2 * h
    BY <1>3 DEF Ids
  <2> QED BY <2>1, <2>2
<1>6. \A v \in Ids : f[v] \div 2 \in Pages /\ f[v] % 2 \in {0, 1} /\ f[v] = 2 * (f[v] \div 2) + (f[v] % 2)
  BY <1>3, <1>4, <1>5, Halves
<1>7. \A v \in Ids : np(v) \in Nat /\ np(v) < h
  BY <1>0, <1>3, <1>4, <1>6 DEF PagesApart
<1>8. \A v \in Ids : slots'[v] = 2 * np(v) + (f[v] % 2)
  BY <1>0
<1>9. \A v, w \in Ids : np(v) = np(w) => f[v] \div 2 = f[w] \div 2
  BY <1>0, <1>6 DEF PagesApart
<1>a. \A v \in Ids : slots'[v] \div 2 = np(v) /\ slots'[v] % 2 = f[v] % 2 /\ slots'[v] \in Ids
  <2> SUFFICES ASSUME NEW v \in Ids
               PROVE  slots'[v] \div 2 = np(v) /\ slots'[v] % 2 = f[v] % 2 /\ slots'[v] \in Ids
    OBVIOUS
  <2>1. PICK a \in Nat : a = np(v) /\ a < h
    BY <1>7
  <2>2. PICK x \in {0, 1} : x = f[v] % 2
    BY <1>6
  <2>3. slots'[v] = 2 * a + x
    BY <1>8, <2>1, <2>2
  <2>4. (2 * a + x) \div 2 = a /\ (2 * a + x) % 2 = x
    BY Doubled
  <2>5. 2 * a + x \in Ids
    BY <1>3, <2>1, <2>2 DEF Ids
  <2> QED BY <2>1, <2>2, <2>3, <2>4, <2>5
<1> HIDE DEF np
<1>b. \A v, w \in Ids : slots'[v] = slots'[w] => v = w
  <2> SUFFICES ASSUME NEW v \in Ids, NEW w \in Ids, slots'[v] = slots'[w] PROVE v = w
    OBVIOUS
  <2>1. f[v] \div 2 = f[w] \div 2 /\ f[v] % 2 = f[w] % 2
    BY <1>9, <1>a
  <2>2. f[v] = f[w]
    BY <1>6, <2>1
  <2> QED BY <1>0, <2>2 DEF IsMap
<1>c. IsMap(slots)'
  BY <1>0, <1>2, <1>a, <1>b DEF IsMap
<1>d. \A v, w \in Ids : slots'[v] \div 2 = slots'[w] \div 2 <=> f[v] \div 2 = f[w] \div 2
  BY <1>9, <1>a DEF np
<1>e. Kept(slots)'
  BY <1>0, <1>1, <1>2, <1>a, <1>d DEF Kept
<1> QED BY <1>0, <1>1, <1>c, <1>e DEF SlotInv, Mated, Written

\* The map written is the one in memory; the image, if there is to be one, is empty.
LEMMA WritesMapSlots ==
  ASSUME RemapTypeOK, SlotInv, WritesMap
  PROVE  SlotInv'
<1>0. /\ src' = src /\ job' = job /\ pc = "map" /\ mapFile' = slots /\ slots' = slots
      /\ u' = 0 /\ mate' = mate /\ Started
      /\ (pc' = "idle" /\ job.map_only) \/ (pc' = "image" /\ image' = <<>>)
      /\ IsMap(slots) /\ Kept(slots) /\ src.n \in Nat
  BY SourceFacts DEF WritesMap, pairing, placing, SlotInv, Started, Empty, RemapTypeOK
<1>1. Ids' = Ids /\ Used(mate)' = Used(mate)
  BY <1>0 DEF Ids, Used
<1>2. IsMap(slots)' /\ IsMap(mapFile)'
  BY <1>0, <1>1 DEF IsMap
<1>3. (job.map_in = Empty \/ IsMap(job.map_in))'
  BY <1>0, <1>1 DEF SlotInv, IsMap, Empty
<1>4. Kept(slots)'
  BY <1>0, <1>1 DEF Kept, Sib, IsMap
<1>5. pc' = "image" => image' \in Seq(Ids') /\ Len(image') = 0
  BY <1>0
<1>6. Holds(0)'
  <2>1. \A v \in Ids : ~(slots[v] < 0)
    BY <1>0 DEF IsMap, Ids
  <2> QED BY <1>0, <1>1, <2>1 DEF Holds
<1>7. u' = 0 /\ u' <= src'.n /\ Holds(u)'
  BY <1>0, <1>6 DEF Empty, Holds
<1> QED BY <1>0, <1>2, <1>3, <1>4, <1>5, <1>7 DEF SlotInv, Mated, Written

\* A map that is not written, or cut short, or left without an image.
LEMMA MapFailsSlots ==
  ASSUME RemapTypeOK, SlotInv, MapFails
  PROVE  SlotInv'
<1>0. /\ src' = src /\ job' = job /\ pc = "map" /\ pc' = "idle" /\ ~ok'
      /\ mapFile' \in {mapFile, Empty, slots} /\ slots' = slots /\ IsMap(slots) /\ Started
  BY DEF MapFails, pairing, placing, SlotInv, Started
<1>1. Ids' = Ids
  BY <1>0 DEF Ids
<1>2. (mapFile = Empty \/ IsMap(mapFile))' /\ (job.map_in = Empty \/ IsMap(job.map_in))'
  BY <1>0, <1>1 DEF SlotInv, IsMap, Empty
<1> QED BY <1>0, <1>2 DEF SlotInv, Mated, Written

\* In a one-to-one map the id of a slot is the one whose slot it is.
LEMMA SlotToId ==
  ASSUME RemapTypeOK, IsMap(slots), NEW s
  PROVE  slot_to_id(s) \in Ids /\ \A v \in Ids : slots[v] = s => slot_to_id(s) = v
<1> DEFINE here == {v \in Ids : slots[v] = s}
<1>1. 0 \in Ids /\ Ids \subseteq Nat
  BY SourceFacts DEF Ids, RemapTypeOK
<1>2. CASE here = {}
  BY <1>1, <1>2 DEF slot_to_id
<1>3. ASSUME NEW v \in here PROVE slot_to_id(s) = v
  <2>1. here = {v}
    BY <1>3 DEF IsMap
  <2>2. v \in Nat
    BY <1>1
  <2>3. Max({v}) = v
    BY <2>2 DEF Max
  <2> QED BY <2>1, <2>3 DEF slot_to_id
<1> QED BY <1>2, <1>3

\* The next record of the image is that of the slot's id.
LEMMA WritesRecordSlots ==
  ASSUME RemapTypeOK, SlotInv, WritesRecord
  PROVE  SlotInv'
<1>0. /\ src' = src /\ job' = job /\ pc = "image" /\ pc' = pc /\ mapFile' = mapFile
      /\ slots' = slots /\ image' = Append(image, slot_to_id(u)) /\ u' = u + 1 /\ u < src.n
      /\ mate' = mate /\ Started /\ IsMap(slots) /\ Kept(slots) /\ mapFile = slots
      /\ image \in Seq(Ids) /\ Len(image) = u /\ Holds(u) /\ u \in Nat /\ src.n \in Nat
  BY SourceFacts DEF WritesRecord, pairing, placing, SlotInv, Started, RemapTypeOK
<1>1. Ids' = Ids /\ Used(mate)' = Used(mate)
  BY <1>0 DEF Ids, Used
<1>2. (mapFile = Empty \/ IsMap(mapFile))' /\ (job.map_in = Empty \/ IsMap(job.map_in))'
  BY <1>0, MapsStay
<1>3. IsMap(slots)' /\ Kept(slots)'
  BY <1>0, <1>1 DEF IsMap, Kept, Sib
<1>4. PICK x \in Ids : x = slot_to_id(u)
  BY <1>0, SlotToId
<1>5. image' \in Seq(Ids) /\ Len(image') = u + 1 /\ image'[u + 1] = x
      /\ \A k \in 1 .. u : image'[k] = image[k]
  BY <1>0, <1>4
<1>6. Holds(u)'
  <2> SUFFICES ASSUME NEW v \in Ids, slots[v] < u + 1 PROVE image'[slots[v] + 1] = v
    BY <1>0, <1>1 DEF Holds
  <2>1. slots[v] \in Nat
    BY <1>0 DEF IsMap, Ids
  <2>2. CASE slots[v] = u
    BY <1>0, <1>4, <1>5, <2>2, SlotToId
  <2>3. CASE slots[v] # u
    <3>1. slots[v] < u /\ slots[v] + 1 \in 1 .. u
      BY <1>0, <2>1, <2>3
    <3> QED BY <1>0, <1>5, <3>1 DEF Holds
  <2> QED BY <2>2, <2>3
<1>7. u' <= src'.n
  BY <1>0
<1> QED BY <1>0, <1>1, <1>2, <1>3, <1>5, <1>6, <1>7 DEF SlotInv, Mated, Written

\* A job ends with its image whole, or fails.
LEMMA JobEndsSlots ==
  ASSUME RemapTypeOK, SlotInv, WriteFails \/ Finishes
  PROVE  SlotInv'
<1>0. /\ src' = src /\ job' = job /\ pc = "image" /\ pc' = "idle" /\ mapFile' = mapFile
      /\ slots' = slots /\ image' = image /\ mate' = mate /\ Started
      /\ IsMap(slots) /\ Kept(slots) /\ mapFile = slots /\ Holds(u)
      /\ ok' => u = src.n
  BY DEF WriteFails, Finishes, pairing, placing, files, SlotInv, Started
<1>1. Ids' = Ids /\ Used(mate)' = Used(mate)
  BY <1>0 DEF Ids, Used
<1>2. (mapFile = Empty \/ IsMap(mapFile))' /\ (job.map_in = Empty \/ IsMap(job.map_in))'
  BY <1>0, MapsStay
<1>3. IsMap(slots)' /\ Kept(slots)'
  BY <1>0, <1>1 DEF IsMap, Kept, Sib
<1>4. ok' => Holds(src.n)'
  BY <1>0, <1>1 DEF Holds
<1> QED BY <1>0, <1>2, <1>3, <1>4 DEF SlotInv, Mated, Written

\* The inductive invariant of the slots: the tool's maps are one to one and keep
\* pages together, its own counts never fail.
THEOREM RemapPlaced == EvenExtents /\ Spec => [](SlotInv /\ AllGiven)
<1> SUFFICES ASSUME EvenExtents PROVE Spec => [](SlotInv /\ AllGiven)
  OBVIOUS
<1>1. Init => SlotInv
  BY DEF Init, SlotInv, Started, Written, Mated
<1>2. RemapTypeOK /\ MatchInv /\ SlotInv /\ [Next]_vars => SlotInv'
  <2> SUFFICES ASSUME RemapTypeOK, MatchInv, SlotInv, [Next]_vars PROVE SlotInv'
    OBVIOUS
  <2>1. ASSUME NEW mode \in Modes, Starts(mode) PROVE SlotInv'
    BY <2>1, StartsSlots
  <2>2. CASE NeighborStep \/ CoexpandMeets \/ CoexpandNext \/ CooccurWeighs \/ CooccurMatch
             \/ CooccurRest
    <3>1. /\ src' = src /\ job' = job /\ UNCHANGED <<placing, files, result>>
          /\ pc \in Mated /\ pc' \in Mated
      BY <2>2 DEF NeighborStep, CoexpandMeets, CoexpandNext, CooccurWeighs, CooccurMatch,
                  CooccurRest, Mated
    <3> QED BY <3>1, MatedSlots
  <2>3. CASE PairingEnds
    BY <2>3, PairingEndsSlots
  <2>4. CASE AssignsPair \/ PairsEnd
    BY <2>4, AssignsPairSlots, PairsEndSlots
  <2>5. CASE AssignsAlone \/ AssignEnds
    BY <2>5, AssignsAloneSlots, AssignEndsSlots
  <2>6. CASE ExtentLoads \/ ExtentRefuses
    BY <2>6, ExtentBeginsSlots
  <2>7. CASE ExtentEmits \/ ExtentMoves
    BY <2>7, ExtentEmitsSlots, ExtentMovesSlots
  <2>8. CASE WritesMap \/ MapFails \/ WritesRecord
    BY <2>8, WritesMapSlots, MapFailsSlots, WritesRecordSlots
  <2>9. CASE WriteFails \/ Finishes
    BY <2>9, JobEndsSlots
  <2>10. CASE UNCHANGED vars
    <3>1. UNCHANGED <<src, job, pc, u, mate, next, slots, new_page, mapFile, image, done, ok>>
      BY <2>10 DEF vars, pairing, placing, files, result
    <3>2. /\ Ids' = Ids /\ Pages' = Pages /\ NRuns' = NRuns /\ Used(mate)' = Used(mate)
          /\ Given' = Given /\ Placed' = Placed
      BY <3>1, JobStays DEF Used, Given, Placed
    <3>3. /\ Started' = Started /\ Written' = Written
          /\ IsMap(mapFile)' = IsMap(mapFile) /\ IsMap(slots)' = IsMap(slots)
          /\ IsMap(job.map_in)' = IsMap(job.map_in)
      BY <3>1, <3>2 DEF Started, Written, IsMap
    <3>4. /\ GivenApart' = GivenApart /\ PairsTogether' = PairsTogether
          /\ PairsGiven' = PairsGiven /\ PagesApart' = PagesApart
      BY <3>1, <3>2 DEF GivenApart, PairsTogether, PairsGiven, PagesApart, Sib
    <3>5. Kept(slots)' = Kept(slots)
      BY <3>1, <3>2 DEF Kept, Sib, IsMap
    <3>6. Holds(u)' = Holds(u) /\ Holds(src.n)' = Holds(src.n)
      BY <3>1, <3>2 DEF Holds
    <3> QED BY <3>1, <3>2, <3>3, <3>4, <3>5, <3>6 DEF SlotInv, Empty
  <2> QED BY <2>1, <2>2, <2>3, <2>4, <2>5, <2>6, <2>7, <2>8, <2>9, <2>10 DEF Next, Rests, Modes
<1>3. RemapTypeOK /\ SlotInv => AllGiven
  BY Complete
<1> QED BY <1>1, <1>2, <1>3, RemapMatched, PTL DEF Spec

-----------------------------------------------------------------------------
(* What the server does with the map and the image.                        *)

\* Records of 2048 bytes.
LEMMA BareStride ==
  ASSUME RemapTypeOK
  PROVE  vec_stride(Bare.hdr) = 2048 /\ Bare.hdr.off_vectors = 4096 /\ Bare.hdr.n = src.n
<1>1. src.n \in Nat \ {0}
  BY SourceFacts DEF RemapTypeOK
<1>2. /\ Bare.hdr.n = src.n /\ Bare.hdr.len_vectors = src.n * 2048 /\ Bare.hdr.packed = 800
      /\ Bare.hdr.off_vectors = 4096
  BY DEF Bare
<1>3. PICK k \in Nat \ {0} : k = src.n
  BY <1>1
<1>4. (k * 2048) \div k = 2048
  OBVIOUS
<1>6. k * 2048 # 0
  OBVIOUS
<1>7. vec_stride(Bare.hdr) = Max({Bare.hdr.len_vectors \div Bare.hdr.n, Bare.hdr.packed})
  BY <1>2, <1>3, <1>6 DEF vec_stride
<1>8. Bare.hdr.len_vectors \div Bare.hdr.n = 2048
  BY <1>2, <1>3, <1>4
<1>9. vec_stride(Bare.hdr) = 2048
  <2>1. PICK S : S = {Bare.hdr.len_vectors \div Bare.hdr.n, Bare.hdr.packed}
    OBVIOUS
  <2>2. S = {2048, 800}
    BY <1>2, <1>8, <2>1
  <2>3. Max(S) = 2048
    BY <2>2 DEF Max
  <2>4. vec_stride(Bare.hdr) = Max(S)
    BY <1>7, <2>1, Zenon
  <2> QED BY <2>3, <2>4
<1> QED BY <1>2, <1>9

\* A one-to-one map is accepted, and its inverse answers for every slot.
LEMMA LoadedFacts ==
  ASSUME RemapTypeOK, NEW f, IsMap(f)
  PROVE  /\ Refused(src.n, f) = {} /\ Loaded(f).hdr = Bare.hdr
         /\ \A v \in Ids : slot_of(Loaded(f), v) = f[v]
         /\ \A s \in Ids : id_of_slot(Loaded(f), s) =
              IF \E i \in Ids : f[i] = s THEN CHOOSE i \in Ids : f[i] = s ELSE 0
<1>1. src.n \in Nat \ {0} /\ Ids = 0 .. src.n - 1 /\ Bare.hdr.n = src.n
  BY SourceFacts, BareStride DEF RemapTypeOK, Ids
<1>2. f \in [Ids -> Ids] /\ \A v, w \in Ids : f[v] = f[w] => v = w
  BY DEF IsMap
<1>3. ASSUME NEW i \in Ids PROVE ~(f[i] >= src.n) /\ \A k \in 0 .. i - 1 : f[k] # f[i]
  <2>1. f[i] \in Ids /\ \A k \in 0 .. i - 1 : k \in Ids /\ k # i
    BY <1>1, <1>2
  <2> QED BY <1>1, <1>2, <2>1
<1>4. Refused(src.n, f) = {}
  BY <1>1, <1>3 DEF Refused
<1> DEFINE inv == [s \in 0 .. src.n - 1 |->
             IF \E i \in 0 .. src.n - 1 : f[i] = s THEN CHOOSE i \in 0 .. src.n - 1 : f[i] = s ELSE 0]
<1>5. Loaded(f) = [Bare EXCEPT !.id_to_slot = f, !.slot_to_id = inv]
  BY <1>1, <1>4 DEF Loaded, load_id_slot_map
<1> HIDE DEF inv
<1>6. Loaded(f).hdr = Bare.hdr /\ Loaded(f).id_to_slot = f /\ Loaded(f).slot_to_id = inv
  BY <1>5 DEF Bare
<1>7. \A v \in Ids : slot_of(Loaded(f), v) = f[v]
  BY <1>2, <1>6 DEF slot_of
<1>8. \A s \in Ids : id_of_slot(Loaded(f), s) =
        IF \E i \in Ids : f[i] = s THEN CHOOSE i \in Ids : f[i] = s ELSE 0
  BY <1>1, <1>6 DEF id_of_slot, inv
<1> QED BY <1>4, <1>6, <1>7, <1>8

\* The sibling through a one-to-one map.
LEMMA SiblingFacts ==
  ASSUME RemapTypeOK, NEW f, IsMap(f), NEW v \in Ids
  PROVE  page_sibling(Loaded(f), v) =
           IF Sib(f[v]) >= src.n THEN v
           ELSE IF \E i \in Ids : f[i] = Sib(f[v]) THEN CHOOSE i \in Ids : f[i] = Sib(f[v]) ELSE 0
<1>1. /\ Loaded(f).hdr = Bare.hdr /\ vec_stride(Bare.hdr) = 2048 /\ Bare.hdr.n = src.n
      /\ slot_of(Loaded(f), v) = f[v]
  BY LoadedFacts, BareStride
<1>2. f[v] \in Nat /\ Sib(f[v]) \in Int /\ Sib(f[v]) >= 0 /\ src.n \in Nat
  <2>1. f[v] \in Nat /\ src.n \in Nat
    BY SourceFacts DEF IsMap, RemapTypeOK
  <2> QED BY <2>1 DEF Sib
<1>3. ~(4096 \div 2048 < 2)
  OBVIOUS
<1>4. page_sibling(Loaded(f), v) =
        IF Sib(f[v]) >= src.n THEN v ELSE id_of_slot(Loaded(f), Sib(f[v]))
  BY <1>1, <1>3 DEF page_sibling, Sib
<1>5. ~(Sib(f[v]) >= src.n) => Sib(f[v]) \in Ids
  BY <1>2 DEF Ids
<1> QED BY <1>4, <1>5, LoadedFacts

\* The server accepts the map of every job on an image whose pages are full
\* (the check of load_id_slot_map).
THEOREM RemapAccepted == EvenExtents /\ Spec => []MapAccepted
<1>1. RemapTypeOK /\ SlotInv => MapAccepted
  <2> SUFFICES ASSUME RemapTypeOK, SlotInv, Written PROVE Refused(src.n, mapFile) = {}
    BY DEF MapAccepted
  <2>1. IsMap(mapFile)
    BY DEF SlotInv
  <2> QED BY <2>1, LoadedFacts
<1> QED BY <1>1, RemapMatched, RemapPlaced, PTL

\* After any chain of jobs the record at the address the server computes for an
\* id is that id's record.
THEOREM RemapServed == EvenExtents /\ Spec => []ServedRight
<1>1. RemapTypeOK /\ SlotInv => ServedRight
  <2> SUFFICES ASSUME RemapTypeOK, SlotInv, Written, ~job.map_only, NEW v \in Ids
               PROVE  image[(entry(Loaded(mapFile), v) - 4096) \div 2048 + 1] = v
    BY DEF ServedRight
  <2>1. IsMap(slots) /\ mapFile = slots /\ Holds(src.n)
    BY DEF SlotInv
  <2>2. entry(Loaded(mapFile), v) = 4096 + slots[v] * 2048
    BY <2>1, LoadedFacts, BareStride DEF entry
  <2>3. PICK s \in Nat : s = slots[v] /\ s < src.n
    BY <2>1, SourceFacts DEF IsMap, RemapTypeOK, Ids
  <2>4. (4096 + s * 2048 - 4096) \div 2048 = s
    OBVIOUS
  <2>5. image[slots[v] + 1] = v
    BY <2>1, <2>3 DEF Holds
  <2> QED BY <2>2, <2>3, <2>4, <2>5
<1> QED BY <1>1, RemapMatched, RemapPlaced, PTL

\* Two slots of one page.
LEMMA SiblingSlots ==
  ASSUME NEW s \in Nat, NEW t \in Nat
  PROVE  t = Sib(s) <=> (t \div 2 = s \div 2 /\ t % 2 # s % 2)
<1>1. s \div 2 \in Nat /\ s % 2 \in {0, 1} /\ s = 2 * (s \div 2) + (s % 2)
  BY Halves
<1>2. t \div 2 \in Nat /\ t % 2 \in {0, 1} /\ t = 2 * (t \div 2) + (t % 2)
  BY Halves
<1> QED BY <1>1, <1>2 DEF Sib

\* Mates share a page of the image served; moving pages keeps both records of
\* every page together (page_sibling of placement.hpp, which the search uses to
\* score the second record of a page it has read).
THEOREM RemapPagesKept == EvenExtents /\ Spec => []PagesKept
<1> SUFFICES ASSUME EvenExtents PROVE Spec => []PagesKept
  OBVIOUS
<1>1. RemapTypeOK /\ MatchInv /\ SlotInv => PagesKept
  <2> SUFFICES ASSUME RemapTypeOK, MatchInv, SlotInv, Written PROVE PagesKept
    BY DEF PagesKept
  <2>0. src.n \in Nat /\ Ids \subseteq Nat /\ Ids = 0 .. src.n - 1 /\ src \in Sources
    BY SourceFacts DEF RemapTypeOK, Ids
  <2>1. IsMap(slots) /\ mapFile = slots /\ Kept(slots) /\ Started
    BY DEF SlotInv, Written, Started
  <2>2. CASE job.mode # "extent"
    <3> SUFFICES ASSUME NEW v \in Used(mate) PROVE page_sibling(Loaded(slots), v) = mate[v]
      BY <2>1, <2>2 DEF PagesKept
    <3>1. v \in Ids /\ mate[v] \in Ids
      BY <2>1 DEF MatchInv, Mutual, Used
    <3>2. slots[mate[v]] = Sib(slots[v]) /\ slots[mate[v]] \in Ids
      BY <2>1, <2>2, <3>1 DEF Kept, IsMap
    <3>3. ~(Sib(slots[v]) >= src.n)
      BY <2>0, <3>2
    <3>4. (CHOOSE i \in Ids : slots[i] = Sib(slots[v])) = mate[v]
      BY <2>1, <3>1, <3>2 DEF IsMap
    <3> QED BY <2>1, <3>1, <3>2, <3>3, <3>4, SiblingFacts
  <2>3. CASE job.mode = "extent"
    <3> DEFINE f == job.map_in
    <3>1. /\ IsMap(f) /\ \A v \in Ids : slots[v] % 2 = f[v] % 2
          /\ \A v, w \in Ids : slots[v] \div 2 = slots[w] \div 2 <=> f[v] \div 2 = f[w] \div 2
      BY <2>1, <2>3 DEF Kept
    <3>2. src.n % 2 = 0
      BY <2>0, <2>1, <2>3 DEF EvenExtents, RemapTypeOK, JobOK
    <3> SUFFICES ASSUME NEW v \in Ids
                 PROVE  page_sibling(Loaded(slots), v) = page_sibling(Loaded(f), v)
      BY <2>1, <2>3 DEF PagesKept
    <3> HIDE DEF f
    <3>3. slots[v] \in Nat /\ f[v] \in Nat /\ slots[v] < src.n /\ f[v] < src.n
      <4>1. slots[v] \in Ids /\ f[v] \in Ids
        BY <2>1, <3>1 DEF IsMap
      <4>2. \A s \in Ids : s \in Nat /\ s < src.n
        BY <2>0
      <4> QED BY <4>1, <4>2, Zenon
    <3>4. \A s \in Nat : s < src.n => ~(Sib(s) >= src.n)
      <4> SUFFICES ASSUME NEW s \in Nat, s < src.n PROVE Sib(s) < src.n /\ Sib(s) \in Int
        BY <2>0
      <4>1. PICK h \in Nat : src.n = 2 * h
        BY <2>0, <3>2
      <4> QED BY <4>1, Halves DEF Sib
    <3>5. ASSUME NEW i \in Ids PROVE slots[i] = Sib(slots[v]) <=> f[i] = Sib(f[v])
      <4>1. slots[i] \in Nat /\ f[i] \in Nat
        BY <2>0, <2>1, <3>1 DEF IsMap
      <4>2. slots[i] = Sib(slots[v]) <=> (slots[i] \div 2 = slots[v] \div 2 /\ slots[i] % 2 # slots[v] % 2)
        BY <3>3, <4>1, SiblingSlots
      <4>3. f[i] = Sib(f[v]) <=> (f[i] \div 2 = f[v] \div 2 /\ f[i] % 2 # f[v] % 2)
        BY <3>3, <4>1, SiblingSlots
      <4> QED BY <3>1, <4>2, <4>3
    <3>6. ~(Sib(slots[v]) >= src.n) /\ ~(Sib(f[v]) >= src.n)
      BY <3>3, <3>4
    <3>7. (CHOOSE i \in Ids : slots[i] = Sib(slots[v])) = (CHOOSE i \in Ids : f[i] = Sib(f[v]))
      BY <3>5
    <3> QED BY <2>1, <3>1, <3>5, <3>6, <3>7, SiblingFacts
  <2> QED BY <2>2, <2>3
<1> QED BY <1>1, RemapMatched, RemapPlaced, PTL

-----------------------------------------------------------------------------
(* The code rows: load_codes.                                              *)

\* The empty walk state: nothing marked, every row its own.
LEMMA CodesStart ==
  ASSUME CodesInit
  PROVE  CodesInv
BY CodesConstants DEF CodesInit, CodesInv, CodesTypeOK, WalkState, SeenClosed, RowIds

\* The outer loop keeps the invariant.
LEMMA OuterKeeps ==
  ASSUME CodesInv, Outer
  PROVE  CodesInv'
<1>0. /\ step = "outer" /\ new_to_old' = new_to_old /\ codes' = codes /\ seen' = seen
      /\ start \in 0 .. Rows /\ Rows \in Nat
  BY CodesConstants DEF Outer, CodesInv, CodesTypeOK
<1>1. CASE CyclesEnd
  BY <1>0, <1>1 DEF CyclesEnd, CodesInv, CodesTypeOK, SeenClosed, WalkState
<1>2. CASE Skips
  <2>1. start \in RowIds
    BY <1>2 DEF Skips, CodesInv, CodesTypeOK
  <2>2. CodesTypeOK'
    <3>1. start + 1 \in 0 .. Rows
      BY <1>0, <2>1 DEF RowIds
    <3> QED BY <1>0, <1>2, <3>1 DEF Skips, CodesInv, CodesTypeOK
  <2>3. \A k \in RowIds : k < start' => k \in seen'
    BY <1>0, <1>2, <2>1 DEF Skips, CodesInv, RowIds
  <2> QED BY <1>0, <1>2, <2>2, <2>3 DEF Skips, CodesInv, SeenClosed,
     WalkState
<1>3. CASE Saves
  <2>1. start \in RowIds /\ codes[start] = start
    BY <1>0, <1>3 DEF Saves, CodesInv, RowIds
  <2>2. CodesTypeOK'
    BY <1>0, <1>3, <2>1 DEF Saves, CodesInv, CodesTypeOK
  <2> QED BY <1>0, <1>3, <2>1, <2>2 DEF Saves, CodesInv, SeenClosed,
     WalkState, RowIds
<1> QED BY <1>1, <1>2, <1>3 DEF Outer

\* In a one-to-one map the walk meets no marked row but its start.
LEMMA WalkFresh ==
  ASSUME CodesInv, step = "walk", new_to_old[cur] # start
  PROVE  new_to_old[cur] \notin seen
<1> SUFFICES ASSUME new_to_old[cur] \in seen PROVE FALSE
  OBVIOUS
<1>1. PICK k \in seen : new_to_old[k] = new_to_old[cur]
  BY DEF CodesInv, SeenClosed
<1>2. k \in RowIds /\ cur \in RowIds /\ new_to_old \in [RowIds -> Nat] /\ IsInjective(new_to_old)
  BY CodesConstants DEF CodesInv, CodesTypeOK
<1>3. k = cur
  BY <1>1, <1>2 DEF IsInjective
<1> QED BY <1>3 DEF CodesInv, WalkState

\* A turn of the walk keeps the invariant.
LEMMA WalkKeeps ==
  ASSUME CodesInv, Walk
  PROVE  CodesInv'
<1> DEFINE from == new_to_old[cur]
<1>0. /\ step = "walk" /\ seen' = seen \cup {cur} /\ new_to_old' = new_to_old /\ tmp' = tmp
      /\ BadId(from) \/ Closes(from) \/ Moves(from)
  BY DEF Walk, Marked
<1>1. /\ new_to_old \in [RowIds -> Nat] /\ cur \in RowIds /\ start \in RowIds /\ from \in Nat
      /\ tmp = start /\ cur \notin seen /\ codes[cur] = cur
  BY <1>0, CodesConstants DEF CodesInv, CodesTypeOK, WalkState, RowIds
<1>2. CASE BadId(from)
  BY <1>0, <1>1, <1>2 DEF BadId, CodesInv, CodesTypeOK, WalkState, RowIds
<1>3. CASE Closes(from)
  <2>0. start' \in 0 .. Rows
    BY <1>1, <1>3, CodesConstants DEF Closes, RowIds
  <2>1. CodesTypeOK'
    BY <1>0, <1>1, <1>3, <2>0 DEF Closes, CodesInv, CodesTypeOK
  <2>2. \A k \in RowIds : codes'[k] = IF k \in seen' THEN new_to_old'[k] ELSE k
    BY <1>0, <1>1, <1>3 DEF Closes, CodesInv, CodesTypeOK
  <2>3. SeenClosed'
    BY <1>0, <1>1, <1>3 DEF Closes, CodesInv, SeenClosed, WalkState
  <2>4. \A k \in RowIds : k < start' => k \in seen'
    BY <1>0, <1>1, <1>3 DEF Closes, CodesInv, WalkState, RowIds
  <2> QED BY <1>3, <2>1, <2>2, <2>3, <2>4 DEF Closes, CodesInv, WalkState
<1>4. CASE Moves(from)
  <2>0. from \in RowIds /\ from # start /\ from # cur /\ from \notin seen
    <3>0. from \in RowIds /\ from # start
      BY <1>1, <1>4, CodesConstants DEF Moves, RowIds
    <3>1. from \in RowIds /\ from # start /\ from \notin seen
      BY <1>0, <3>0, WalkFresh
    <3>2. from # cur
      <4> SUFFICES ASSUME from = cur PROVE FALSE
        OBVIOUS
      <4>1. cur # start
        BY <3>1
      <4>2. PICK k \in seen : new_to_old[k] = cur
        BY <1>0, <4>1 DEF CodesInv, WalkState
      <4>3. k \in RowIds /\ IsInjective(new_to_old)
        BY CodesConstants DEF CodesInv, CodesTypeOK
      <4>4. k = cur
        BY <1>1, <4>2, <4>3 DEF IsInjective
      <4> QED BY <1>1, <4>4
    <3> QED BY <3>1, <3>2
  <2>1. CodesTypeOK'
    BY <1>0, <1>1, <1>4, <2>0 DEF Moves, CodesInv, CodesTypeOK, RowIds
  <2>2. \A k \in RowIds : codes'[k] = IF k \in seen' THEN new_to_old'[k] ELSE k
    BY <1>0, <1>1, <1>4, <2>0 DEF Moves, CodesInv, CodesTypeOK
  <2>3. SeenClosed'
    BY <1>0, <1>1, <1>4 DEF Moves, CodesInv, SeenClosed, WalkState
  <2>4. WalkState'
    BY <1>0, <1>1, <1>4, <2>0 DEF Moves, CodesInv, WalkState, RowIds
  <2>5. \A k \in RowIds : k < start' => k \in seen'
    BY <1>0, <1>4 DEF Moves, CodesInv
  <2> QED BY <1>0, <1>4, <2>1, <2>2, <2>3, <2>4, <2>5 DEF Moves, CodesInv
<1> QED BY <1>0, <1>2, <1>3, <1>4

\* The strengthened invariant holds of every step of load_codes.
THEOREM CodesSafe == CodesSpec => []CodesInv
<1>1. CodesInv /\ [CodesNext]_codesVars => CodesInv'
  <2> SUFFICES ASSUME CodesInv, [CodesNext]_codesVars PROVE CodesInv'
    OBVIOUS
  <2>1. CASE Outer
    BY <2>1, OuterKeeps
  <2>2. CASE Walk
    BY <2>2, WalkKeeps
  <2>3. CASE Reads
    BY <2>3 DEF Reads, CodesInv, CodesTypeOK, SeenClosed, WalkState
  <2>4. CASE Returned \/ UNCHANGED codesVars
    BY <2>4 DEF Returned, codesVars, CodesInv, CodesTypeOK, SeenClosed,
       WalkState
  <2> QED BY <2>1, <2>2, <2>3, <2>4 DEF CodesNext
<1> QED BY <1>1, CodesStart, PTL DEF CodesSpec

\* After a successful load every row holds the code of its old id, whatever
\* the size of the table and the one-to-one map (load_codes of pq_table.hpp).
THEOREM CodesRemapped == CodesSpec => []Remapped
<1>1. CodesInv => Remapped
  BY CodesConstants DEF CodesInv, Remapped, CodesTypeOK, RowIds
<1> QED BY <1>1, CodesSafe, PTL

\* Between cycles the marked rows are final and the others untouched.
THEOREM CodesSettled == CodesSpec => []RowsSettled
<1>1. CodesInv => RowsSettled
  BY DEF CodesInv, RowsSettled
<1> QED BY <1>1, CodesSafe, PTL

-----------------------------------------------------------------------------
(* The packing tools.  A header the server can use: its sizes are those of *)
(* the raw files, and its regions lie one behind the other.                *)

Offsets == {"off_pq", "len_pq", "off_graph", "len_graph", "off_vectors", "len_vectors", "off_pivots", "len_pivots"}
HeaderFields == {"version", "n", "R", "packed", "pq_bytes", "entry_id", "entry_nodes"} \cup Offsets

IsMapOn(f, S) == f = [x \in S |-> f[x]]
IdsOf(r) == 0 .. r.n - 1

HeaderTypes(r, h) ==
  /\ DOMAIN h = HeaderFields
  /\ \A f \in HeaderFields : h[f] \in Nat
  /\ h.version \in {1, 2}
  /\ h.n = r.n /\ h.R = r.R /\ h.packed = r.packed

OnPage(x) == x \in Nat /\ x >= HeaderBytes /\ x % 4096 = 0

\* Codes, graph, vectors and pivots, or records alone.
FourRegions(h) ==
  /\ h.pq_bytes = 32 /\ h.len_pq = h.n * 32 /\ h.len_graph = h.n * h.R * 4
  /\ OnPage(h.off_pq) /\ OnPage(h.off_graph) /\ OnPage(h.off_vectors) /\ OnPage(h.off_pivots)
  /\ h.off_pq + h.len_pq <= h.off_graph
  /\ h.off_graph + h.len_graph <= h.off_vectors
  /\ h.off_vectors + h.len_vectors <= h.off_pivots

RecordsOnly(h) ==
  /\ h.pq_bytes = 0 /\ h.len_pq = 0 /\ h.len_graph = 0 /\ h.len_pivots = 0
  /\ h.off_vectors = 4096 /\ vec_stride(h) >= diskann_payload_bytes(h)

HeaderOk(r, h) ==
  /\ HeaderTypes(r, h)
  /\ vec_stride(h) \in Nat /\ vec_stride(h) >= h.packed /\ h.len_vectors = h.n * vec_stride(h)
  /\ IF h.version = 1 THEN FourRegions(h) ELSE RecordsOnly(h)

ImageFields == {"hdr", "graph", "vec", "pq", "entries", "gfile", "map", "from", "bundle", "nav"}
FullRows(r) == [IdsOf(r) -> [1 .. r.R -> IdsOf(r)]]
EntryOf(r) == IF r.entry >= r.n THEN 0 ELSE r.entry
CountIn(r, row, v) == Cardinality({k \in 1 .. r.R : row[k] = v})

\* The image it was made from, and the map that says how.
MadeFrom(r, im) ==
  im.from # NoImage =>
    /\ HeaderOk(r, im.from.hdr) /\ im.from.vec \in [IdsOf(r) -> IdsOf(r)]
    /\ im.map \in Seq(IdsOf(r)) /\ Len(im.map) = r.n
    /\ \A i \in IdsOf(r) : im.vec[i] = im.from.vec[im.map[i + 1]]

EdgesKept(r, im) ==
  \A i \in IdsOf(r), k \in 1 .. r.R :
    r.graph[im.vec[i]][k] < r.n => im.vec[im.graph[i][k]] = r.graph[im.vec[i]][k]

\* Samples are taken of records only.
SamplesOf(r, im) ==
  im.nav # NoNav =>
    /\ im.hdr.version = 2 /\ im.nav.ids \in Seq(IdsOf(r))
    /\ \A i \in DOMAIN im.nav.ids :
         im.nav.recs[i] = [vec |-> im.vec[im.nav.ids[i]], nbrs |-> im.gfile[im.nav.ids[i]]]

Copied(r, im) ==
  im.bundle # <<>> =>
    \A i \in IdsOf(r), k \in 1 .. r.R : im.bundle[i][k] = im.vec[im.gfile[i][k]]

\* An image that is the raw data under new ids.
DataOk(r, im) ==
  /\ IsMapOn(im, ImageFields) /\ HeaderOk(r, im.hdr)
  /\ im.vec \in [IdsOf(r) -> IdsOf(r)] /\ IsInjective(im.vec)
  /\ im.graph \in FullRows(r) /\ im.gfile \in FullRows(r) /\ im.entries \in Seq(IdsOf(r))
  /\ im.hdr.entry_id \in IdsOf(r) /\ im.vec[im.hdr.entry_id] = EntryOf(r)
  /\ IF im.hdr.version = 1 THEN im.pq = im.vec /\ EdgesKept(r, im) ELSE im.graph = im.gfile
  /\ \A i \in IdsOf(r), v \in IdsOf(r) : CountIn(r, im.gfile[i], v) = CountIn(r, im.graph[i], v)
  /\ Copied(r, im) /\ SamplesOf(r, im) /\ MadeFrom(r, im)

\* What the tool at work is to write, when its threads are done.
Renumbers == Pagebin \/ Bundle
WantVec == IF Renumbers THEN [i \in Vertices |-> img.vec[order[i + 1]]] ELSE img.vec
WantBundle == [uu \in Vertices |-> [k \in 1 .. raw.R |-> img.vec[img.gfile[uu][k]]]]
Goal ==
  IF Nbr THEN [out EXCEPT !.bundle = WantBundle]
  ELSE IF Diskann THEN [out EXCEPT !.vec = img.vec, !.graph = img.gfile]
  ELSE [out EXCEPT !.vec = WantVec]

LayoutTypes ==
  /\ raw \in Raws
  /\ order \in Seq(Vertices) /\ queue \in Seq(Vertices) /\ mark \subseteq Vertices /\ todo \in Seq(Nat)
  /\ next_id \in Nat /\ ticket \in [Threads -> Nat \cup {Take, Gone}]

\* What a tool found when it started.
ToolInput ==
  /\ img # NoImage \/ stage # "idle" => \A uu \in Vertices : Len(raw.graph[uu]) = raw.R
  /\ stage # "idle" =>
       /\ Bfs \/ img # NoImage
       /\ Renumbers \/ Pagealign \/ Diskann \/ Nbr \/ Degree => img.hdr.version = 1
       /\ Nav => img.hdr.version = 2
       /\ Pagealign => vec_stride(img.hdr) = raw.packed /\ raw.packed <= tool.stride /\ tool.stride \in Nat
       /\ Nbr => img.from # NoImage
       /\ Diskann => IsMapOn(tool, {"name", "stride"}) /\ tool.stride \in Nat
  /\ Diskann /\ stage = "write" => tool.stride >= diskann_payload_bytes(img.hdr)

\* An id is given once; the depth pass keeps its visits in the same variable.
OnceOrdered == ~(Bundle /\ stage = "visit") => IsInjective(order)

\* The images are right: at rest, when written, and as they are to become.
ImagesOk ==
  /\ img # NoImage => DataOk(raw, img)
  /\ stage \in {"entry", "files"} => DataOk(raw, out)
  /\ stage \in {"vectors", "records"} => IsMapOn(out, ImageFields) /\ DataOk(raw, Goal)

\* Below next_id an id is written, or in the chunk of a thread.
OutWritten(i) == IF Nbr THEN out.bundle[i] = WantBundle[i] ELSE out.vec[i] = WantVec[i]
Copying ==
  /\ stage = "vectors" =>
       /\ Renumbers => Len(order) = raw.n
       /\ IF Nbr THEN IsMapOn(out.bundle, Vertices) ELSE IsMapOn(out.vec, Vertices)
       /\ (\E t \in Threads : ticket[t] = Gone) => next_id >= raw.n
       /\ \A i \in Vertices : i < next_id =>
            OutWritten(i) \/ \E t \in Threads : ticket[t] # Take /\ ticket[t] # Gone /\ ticket[t] <= i /\ i < ticket[t] + KChunk
  /\ stage = "records" =>
       /\ IsMapOn(out.vec, Vertices) /\ IsMapOn(out.graph, Vertices) /\ next_id <= raw.n
       /\ \A i \in Vertices : i < next_id => out.vec[i] = img.vec[i] /\ out.graph[i] = img.gfile[i]

\* The counts and buckets of the blocks, while they are chosen.
HeapFields == {"rem", "hot", "buckets", "h", "r", "of", "edges"}
Buckets(r) == {0, 1} \X (0 .. r.R)
EdgesOf(r) == (1 .. r.R) \X IdsOf(r) \X (1 .. r.R)
HeapTypes(r, hp) ==
  /\ IsMapOn(hp, HeapFields)
  /\ hp.rem \in [IdsOf(r) -> 0 .. r.R] /\ hp.buckets \in [Buckets(r) -> Seq(IdsOf(r))]
  /\ hp.h \in {0, 1} /\ hp.r \in 0 .. r.R /\ hp.edges \subseteq EdgesOf(r)

Blocking == Bundle /\ stage \in {"file", "blocks", "place"}
HeapOk == Blocking => HeapTypes(raw, heap) /\ (stage = "file" => todo \in Seq(Vertices))

\* The places of row w still to count down: the unplaced ones, and those whose
\* edge of the present block has not been gone over.
Left(w) == PlacesIn(w, Unplaced) \cup {k \in 1 .. raw.R : \E p \in 1 .. raw.R : <<p, w, k>> \in heap.edges}
Counted(w) == heap.rem[w] <= Cardinality(Left(w)) /\ (OnceInRows => heap.rem[w] = Cardinality(Left(w)))
Filed(w) == heap.rem[w] > 0 => w \in ToSet(heap.buckets[Bucket(w)]) /\ Below(Bucket(w))
InBlock(w) == stage = "place" /\ w = heap.of /\ \E e \in heap.edges : e[2] = w

\* A block is placed: every row with an unplaced id of it has its edge, and every
\* edge leads to an id that is placed or is about to be.
Placing ==
  /\ \A v \in ToSet(todo) \ ToSet(order), w \in Vertices, k \in 1 .. raw.R :
       Row(w)[k] = v => \E p \in 1 .. raw.R : <<p, w, k>> \in heap.edges
  /\ \A e \in heap.edges : Row(e[2])[e[3]] \in ToSet(todo) \cup ToSet(order)
  /\ OnceInRows => \A e, f \in heap.edges : e[2] = f[2] /\ e[3] = f[3] => e = f

BlockInv == Blocking =>
  /\ stage = "file" => order = <<>> /\ heap.h = 1 /\ heap.r = raw.R
  /\ stage # "place" => heap.edges = {}
  /\ \A w \in Vertices : Counted(w)
  /\ \A w \in Vertices : (stage = "file" /\ w \in ToSet(todo)) \/ InBlock(w) \/ Filed(w)
  /\ stage = "place" => Placing

LayoutInv == LayoutTypes /\ ToolInput /\ OnceOrdered /\ ImagesOk /\ Copying

\* The entry list of an image, and as it is made.
FromEarlier(r, im, l) == \A i \in 2 .. Len(l) : \E jj \in 1 .. i - 1, k \in 1 .. r.R : im.gfile[l[jj]][k] = l[i]

EntriesOk(r, im) ==
  LET l == im.entries
  IN  /\ l \in Seq(IdsOf(r)) /\ l # <<>> /\ IsInjective(l)
      /\ l[1] = im.hdr.entry_id /\ Len(l) = im.hdr.entry_nodes
      /\ im.from # NoImage => FromEarlier(r, im, l)

Searching ==
  LET l == out.entries
  IN  /\ l \in Seq(Vertices) /\ IsInjective(l) /\ IsInjective(queue)
      /\ ToSet(l) \cap ToSet(queue) = {} /\ ToSet(l) \cup ToSet(queue) \subseteq mark
      /\ IF l = <<>> THEN queue = <<out.hdr.entry_id>> /\ todo = <<>> ELSE l[1] = out.hdr.entry_id
      /\ FromEarlier(raw, out, l)
      /\ l # <<>> => \A v \in ToSet(queue) : \E jj \in DOMAIN l, k \in 1 .. raw.R : out.gfile[l[jj]][k] = v
      /\ \A v \in ToSet(todo) : v < raw.n => \E k \in 1 .. raw.R : out.gfile[l[Len(l)]][k] = v
      /\ out.graph = out.gfile

EntriesInv ==
  /\ img # NoImage => EntriesOk(raw, img)
  /\ stage = "files" => EntriesOk(raw, out)
  /\ stage \in {"vectors", "records"} => IF Renumbers THEN out.entries = <<>> /\ out.graph = out.gfile ELSE EntriesOk(raw, out)
  /\ stage = "entry" => Searching

-----------------------------------------------------------------------------
(* Arithmetic.                                                             *)

\* A row ends where the next begins.
LEMMA RowsKept ==
  ASSUME NEW i \in Nat, NEW jj \in Nat, NEW s \in Nat, i < jj
  PROVE  i * s + s <= jj * s
OBVIOUS

\* The larger of two.
LEMMA MaxOfTwo ==
  ASSUME NEW a \in Nat, NEW b \in Nat
  PROVE  Max({a, b}) = IF a >= b THEN a ELSE b
<1> DEFINE m == IF a >= b THEN a ELSE b
<1>1. m \in {a, b} /\ \A y \in {a, b} : m >= y
  OBVIOUS
<1>2. \A x \in {a, b} : (\A y \in {a, b} : x >= y) => x = m
  OBVIOUS
<1> QED BY <1>1, <1>2 DEF Max

\* The smaller of two.
LEMMA MinOfTwo ==
  ASSUME NEW a \in Nat, NEW b \in Nat
  PROVE  Min({a, b}) = IF a <= b THEN a ELSE b
<1> DEFINE m == IF a <= b THEN a ELSE b
<1>1. m \in {a, b} /\ \A y \in {a, b} : m <= y
  OBVIOUS
<1>2. \A x \in {a, b} : (\A y \in {a, b} : x <= y) => x = m
  OBVIOUS
<1> QED BY <1>1, <1>2 DEF Min

\* align_up moves an offset behind the header to a page boundary, never back.
LEMMA AlignUp ==
  ASSUME NEW x \in Nat, x >= HeaderBytes
  PROVE  OnPage(align_up(x, 4096)) /\ align_up(x, 4096) >= x
BY DEF align_up, OnPage, HeaderBytes

\* The stride is what the vectors' length was computed from.
LEMMA StrideIs ==
  ASSUME NEW h, HeaderTypes(raw, h), NEW s \in Nat, s >= h.packed, h.n > 0, h.packed > 0, h.len_vectors = h.n * s
  PROVE  vec_stride(h) = s
<1>1. h.n \in Nat /\ h.packed \in Nat
  BY DEF HeaderTypes, HeaderFields
<1> DEFINE n == h.n
<1>2. n \in Nat /\ n > 0 /\ s > 0
  BY <1>1
<1> HIDE DEF n
<1>3. n * s > 0 /\ (n * s) \div n = s
  BY <1>2
<1>4. Max({s, h.packed}) = s
  BY <1>1, MaxOfTwo
<1>5. h.len_vectors # 0 /\ h.len_vectors \div h.n = s /\ h.n # 0
  BY <1>2, <1>3 DEF n
<1>6. vec_stride(h) = Max({h.len_vectors \div h.n, h.packed})
  BY <1>5, Zenon DEF vec_stride
<1> QED BY <1>4, <1>5, <1>6

\* The address of a vector leads back to it.
LEMMA OffsetIs ==
  ASSUME NEW i \in Nat, NEW s \in Nat, s > 0
  PROVE  (i * s) % s = 0 /\ (i * s) \div s = i
OBVIOUS

\* What the raw files are.
LEMMA RawIs ==
  ASSUME raw \in Raws
  PROVE  /\ raw.n \in Nat /\ raw.n > 0 /\ raw.R \in Nat /\ raw.R > 0 /\ raw.packed \in Nat /\ raw.packed > 0
         /\ raw.graph \in [Vertices -> Seq(Nat)] /\ raw.entry \in Nat
         /\ Vertices = 0 .. raw.n - 1 /\ 0 \in Vertices /\ IsFiniteSet(Vertices)
<1>1. raw.n \in Nat /\ raw.n > 0
  BY LayoutConstants
<1>2. raw.R \in Nat /\ raw.R > 0 /\ raw.packed \in Nat /\ raw.packed > 0 /\ raw.entry \in Nat
  BY LayoutConstants
<1>3. raw.graph \in [Vertices -> Seq(Nat)]
  BY LayoutConstants, Zenon DEF Vertices
<1>4. 0 \in Vertices
  BY <1>1 DEF Vertices
<1>5. IsFiniteSet(Vertices)
  BY <1>1, FS_Interval DEF Vertices
<1> QED BY <1>1, <1>2, <1>3, <1>4, <1>5 DEF Vertices

\* Laid gives a header the server can use.
LEMMA LaidIs ==
  ASSUME raw \in Raws, NEW h, HeaderTypes(raw, h), h.version = 1, h.pq_bytes = 32,
         NEW st \in Nat, st >= raw.packed, NEW lp \in Nat
  PROVE  LET l == Laid(h, 4096, raw.n * 32, raw.n * raw.R * 4, raw.n * st, lp)
         IN  /\ HeaderOk(raw, l) /\ l.entry_id = h.entry_id /\ l.entry_nodes = h.entry_nodes
             /\ l.version = 1 /\ l.len_pq # 0 /\ l.len_graph # 0 /\ vec_stride(l) = st
<1> DEFINE a == raw.n * 32
           b == raw.n * raw.R * 4
           c == raw.n * st
           l == Laid(h, 4096, a, b, c, lp)
           o1 == align_up(HeaderBytes, 4096)
           o2 == align_up(o1 + a, 4096)
           o3 == align_up(o2 + b, 4096)
           o4 == align_up(o3 + c, 4096)
<1>1. /\ raw.n \in Nat /\ raw.n > 0 /\ raw.R \in Nat /\ raw.R > 0 /\ raw.packed \in Nat /\ raw.packed > 0
  BY RawIs
<1>2. a \in Nat /\ a > 0
  BY <1>1
<1>3. b \in Nat /\ b > 0
  <2>1. \A x, y \in Nat : x > 0 /\ y > 0 => x * y * 4 \in Nat /\ x * y * 4 > 0
    OBVIOUS
  <2> QED BY <1>1, <2>1
<1>4. c \in Nat
  <2>1. \A x, y \in Nat : x * y \in Nat
    OBVIOUS
  <2> QED BY <1>1, <2>1
<1>5. l = [h EXCEPT !.off_pq = o1, !.len_pq = a, !.off_graph = o2, !.len_graph = b,
                    !.off_vectors = o3, !.len_vectors = c, !.off_pivots = o4, !.len_pivots = lp]
  BY DEF Laid
<1> HIDE DEF a, b, c, l
<1>6. OnPage(o1)
  BY AlignUp DEF HeaderBytes
<1>7. OnPage(o2) /\ o1 + a <= o2
  <2>1. o1 + a \in Nat /\ o1 + a >= HeaderBytes
    BY <1>2, <1>6 DEF OnPage, HeaderBytes
  <2> QED BY <2>1, AlignUp
<1> HIDE DEF o1
<1>8. OnPage(o3) /\ o2 + b <= o3
  <2>1. o2 + b \in Nat /\ o2 + b >= HeaderBytes
    BY <1>3, <1>7 DEF OnPage, HeaderBytes
  <2> QED BY <2>1, AlignUp
<1> HIDE DEF o2
<1>9. OnPage(o4) /\ o3 + c <= o4
  <2>1. o3 + c \in Nat /\ o3 + c >= HeaderBytes
    BY <1>4, <1>8 DEF OnPage, HeaderBytes
  <2> QED BY <2>1, AlignUp
<1> HIDE DEF o3, o4
<1>10. /\ DOMAIN l = HeaderFields
       /\ l.off_pq = o1 /\ l.len_pq = a /\ l.off_graph = o2 /\ l.len_graph = b
       /\ l.off_vectors = o3 /\ l.len_vectors = c /\ l.off_pivots = o4 /\ l.len_pivots = lp
       /\ \A f \in HeaderFields \ Offsets : l[f] = h[f]
  BY <1>5 DEF HeaderTypes, HeaderFields, Offsets
<1>11. l.version = 1 /\ l.pq_bytes = 32 /\ l.n = raw.n /\ l.R = raw.R /\ l.packed = raw.packed
       /\ l.entry_id = h.entry_id /\ l.entry_nodes = h.entry_nodes
  BY <1>10 DEF HeaderTypes, HeaderFields, Offsets
<1>12. HeaderTypes(raw, l)
  <2>1. \A f \in Offsets : l[f] \in Nat
    BY <1>2, <1>3, <1>4, <1>6, <1>7, <1>8, <1>9, <1>10 DEF Offsets, OnPage
  <2>2. \A f \in HeaderFields \ Offsets : l[f] \in Nat
    BY <1>10 DEF HeaderTypes
  <2> QED BY <2>1, <2>2, <1>10, <1>11 DEF HeaderTypes
<1>13. vec_stride(l) = st
  <2>1. l.len_vectors = l.n * st
    BY <1>10, <1>11 DEF c
  <2> QED BY <2>1, <1>1, <1>11, <1>12, StrideIs
<1>14. l.len_vectors = l.n * vec_stride(l)
  BY <1>10, <1>11, <1>13 DEF c
<1>15. FourRegions(l)
  <2>1. l.len_pq = l.n * 32 /\ l.len_graph = l.n * l.R * 4
    BY <1>10, <1>11 DEF a, b
  <2> QED BY <2>1, <1>6, <1>7, <1>8, <1>9, <1>10, <1>11 DEF FourRegions
<1>16. HeaderOk(raw, l)
  BY <1>11, <1>12, <1>13, <1>14, <1>15 DEF HeaderOk
<1>17. l.len_pq # 0 /\ l.len_graph # 0
  BY <1>2, <1>3, <1>10
<1> QED BY <1>11, <1>13, <1>16, <1>17 DEF l, a, b, c

-----------------------------------------------------------------------------
(* Where things are in an image with such a header.                        *)

\* An item of a region lies within it.
LEMMA SpanIn ==
  ASSUME NEW o \in Nat, NEW s \in Nat, NEW len \in Nat, len <= s, NEW n \in Nat, NEW i \in 0 .. n - 1
  PROVE  Within(Span(o + i * s, len), Span(o, n * s))
<1>1. i * s + s <= n * s /\ i * s \in Nat /\ n * s \in Nat
  BY RowsKept
<1> QED BY <1>1 DEF Within, Span

\* Items of a region are apart.
LEMMA SpanApart ==
  ASSUME NEW o \in Nat, NEW s \in Nat, NEW len \in Nat, len <= s,
         NEW i \in Nat, NEW jj \in Nat, i # jj
  PROVE  ~Meet(Span(o + i * s, len), Span(o + jj * s, len))
<1>1. i * s \in Nat /\ jj * s \in Nat
  OBVIOUS
<1>2. CASE i < jj
  <2>1. i * s + s <= jj * s
    BY <1>2, RowsKept
  <2> QED BY <1>1, <2>1 DEF Meet, Span
<1>3. CASE jj < i
  <2>1. jj * s + s <= i * s
    BY <1>3, RowsKept
  <2> QED BY <1>1, <2>1 DEF Meet, Span
<1> QED BY <1>2, <1>3

\* Both, of all items of a region.
LEMMA SpansOf ==
  ASSUME NEW o \in Nat, NEW s \in Nat, NEW len \in Nat, len <= s, NEW n \in Nat
  PROVE  /\ \A i \in 0 .. n - 1 : Within(Span(o + i * s, len), Span(o, n * s))
         /\ \A i, jj \in 0 .. n - 1 : i # jj => ~Meet(Span(o + i * s, len), Span(o + jj * s, len))
         /\ \A i \in 0 .. n - 1 : Span(o + i * s, len).lo \in Nat /\ Span(o + i * s, len).hi \in Nat
<1>1. \A i \in 0 .. n - 1 : Within(Span(o + i * s, len), Span(o, n * s))
  BY SpanIn
<1>2. ASSUME NEW i \in 0 .. n - 1, NEW jj \in 0 .. n - 1, i # jj
      PROVE  ~Meet(Span(o + i * s, len), Span(o + jj * s, len))
  <2>1. i \in Nat /\ jj \in Nat
    OBVIOUS
  <2> QED BY <1>2, <2>1, SpanApart, Zenon
<1>3. ASSUME NEW i \in 0 .. n - 1
      PROVE  Span(o + i * s, len).lo \in Nat /\ Span(o + i * s, len).hi \in Nat
  <2>1. i * s \in Nat
    OBVIOUS
  <2> QED BY <2>1 DEF Span
<1> QED BY <1>1, <1>2, <1>3

\* Every vector stands at its slot, whose stride is the header's.
LEMMA PlacedIs ==
  ASSUME HeaderOk(raw, img.hdr), raw \in Raws, NEW i \in Vertices
  PROVE  LET h == img.hdr
         IN  /\ vec(ImagePlacement, i) = h.off_vectors + i * vec_stride(h)
             /\ entry(ImagePlacement, i) = h.off_vectors + i * vec_stride(h)
             /\ pq(ImagePlacement, i) = h.off_pq + i * h.pq_bytes
             /\ nbrs(ImagePlacement, i) = IF h.version = 1 THEN h.off_graph + i * h.R * 4
                                          ELSE h.off_vectors + i * vec_stride(h) + h.packed + 4
             /\ diskann_layout(h) <=> h.version = 2
<1> DEFINE h == img.hdr
<1>1. ImagePlacement.hdr = h /\ ImagePlacement.id_to_slot = NoMap
  BY DEF ImagePlacement
<1>2. slot_of(ImagePlacement, i) = i
  BY <1>1 DEF slot_of, NoMap
<1>3. diskann_layout(h) <=> h.version = 2
  <2>1. h.version \in {1, 2}
    BY DEF HeaderOk, HeaderTypes
  <2>2. h.version = 1 => h.len_graph # 0
    <3>1. \A x, y \in Nat : x > 0 /\ y > 0 => x * y * 4 # 0
      OBVIOUS
    <3> QED BY <3>1, RawIs DEF HeaderOk, HeaderTypes, FourRegions
  <2> QED BY <2>1, <2>2 DEF diskann_layout
<1>4. entry(ImagePlacement, i) = h.off_vectors + i * vec_stride(h)
  BY <1>1, <1>2 DEF entry
<1>5. h.version \in {1, 2}
  BY DEF HeaderOk, HeaderTypes
<1> QED BY <1>1, <1>3, <1>4, <1>5 DEF vec, pq, nbrs

\* The fields of a good header are numbers.
LEMMA HeaderNats ==
  ASSUME NEW h, HeaderOk(raw, h), raw \in Raws
  PROVE  /\ h.n \in Nat /\ h.R \in Nat /\ h.packed \in Nat /\ h.pq_bytes \in Nat /\ vec_stride(h) \in Nat
         /\ h.off_pq \in Nat /\ h.len_pq \in Nat /\ h.off_graph \in Nat /\ h.len_graph \in Nat
         /\ h.off_vectors \in Nat /\ h.len_vectors \in Nat /\ h.off_pivots \in Nat /\ h.len_pivots \in Nat
         /\ h.n = raw.n /\ h.R = raw.R /\ h.packed = raw.packed /\ h.version \in {1, 2}
         /\ vec_stride(h) >= h.packed /\ vec_stride(h) > 0 /\ h.len_vectors = h.n * vec_stride(h) /\ h.len_vectors > 0
<1>1. \A f \in HeaderFields : h[f] \in Nat
  BY DEF HeaderOk, HeaderTypes
<1>2. /\ h.n \in Nat /\ h.R \in Nat /\ h.packed \in Nat /\ h.pq_bytes \in Nat
      /\ h.off_pq \in Nat /\ h.len_pq \in Nat /\ h.off_graph \in Nat /\ h.len_graph \in Nat
      /\ h.off_vectors \in Nat /\ h.len_vectors \in Nat /\ h.off_pivots \in Nat /\ h.len_pivots \in Nat
  BY <1>1 DEF HeaderFields, Offsets
<1>3. /\ h.n = raw.n /\ h.R = raw.R /\ h.packed = raw.packed /\ h.version \in {1, 2}
      /\ vec_stride(h) \in Nat /\ vec_stride(h) >= h.packed /\ h.len_vectors = h.n * vec_stride(h)
  BY DEF HeaderOk, HeaderTypes
<1>4. vec_stride(h) > 0
  BY <1>2, <1>3, RawIs
<1>5. \A x, y \in Nat : x > 0 /\ y > 0 => x * y > 0
  OBVIOUS
<1>6. h.len_vectors > 0
  BY <1>2, <1>3, <1>4, <1>5, RawIs
<1> QED BY <1>2, <1>3, <1>4, <1>6

\* A good header places every address in its region, the regions apart.
LEMMA RegionsGive ==
  ASSUME raw \in Raws, HeaderOk(raw, img.hdr)
  PROVE  RegionsApart
<1> DEFINE h == img.hdr
           st == vec_stride(h)
           VS == Span(h.off_vectors, h.len_vectors)
           V(i) == Span(vec(ImagePlacement, i), h.packed)
           N(i) == Span(nbrs(ImagePlacement, i), 4 * h.R)
           C(i) == Span(pq(ImagePlacement, i), h.pq_bytes)
           all  == {V(i) : i \in Vertices} \cup {N(i) : i \in Vertices} \cup
                   (IF h.pq_bytes = 0 THEN {} ELSE {C(i) : i \in Vertices})
           S(r) == CHOOSE s \in Regions : s.lo = r
<1>1. /\ h.n \in Nat /\ h.R \in Nat /\ h.packed \in Nat /\ h.pq_bytes \in Nat /\ st \in Nat
      /\ h.off_pq \in Nat /\ h.len_pq \in Nat /\ h.off_graph \in Nat /\ h.len_graph \in Nat
      /\ h.off_vectors \in Nat /\ h.len_vectors \in Nat /\ h.off_pivots \in Nat /\ h.len_pivots \in Nat
      /\ h.n = raw.n /\ h.version \in {1, 2} /\ st >= h.packed /\ h.len_vectors = h.n * st /\ h.len_vectors > 0
  BY HeaderNats
<1>2. \A i \in Vertices : V(i) = Span(h.off_vectors + i * st, h.packed)
  BY PlacedIs
<1>3. \A i \in Vertices : i \in 0 .. h.n - 1 /\ i \in Nat
  BY <1>1 DEF Vertices
<1>10. /\ h.off_vectors \in Nat /\ st \in Nat /\ h.packed \in Nat /\ h.packed <= st /\ h.n \in Nat
       /\ h.len_vectors = h.n * st /\ Vertices = 0 .. h.n - 1 /\ st <= st
  BY <1>1 DEF Vertices
<1>11. /\ \A i \in Vertices : Within(V(i), VS)
       /\ \A i, jj \in Vertices : i # jj => ~Meet(V(i), V(jj))
       /\ \A i \in Vertices : V(i).lo \in Nat /\ V(i).hi \in Nat
  <2> HIDE DEF h, st
  <2>5. /\ \A i \in 0 .. h.n - 1 : Within(Span(h.off_vectors + i * st, h.packed), Span(h.off_vectors, h.n * st))
        /\ \A i, jj \in 0 .. h.n - 1 : i # jj => ~Meet(Span(h.off_vectors + i * st, h.packed), Span(h.off_vectors + jj * st, h.packed))
        /\ \A i \in 0 .. h.n - 1 : Span(h.off_vectors + i * st, h.packed).lo \in Nat /\ Span(h.off_vectors + i * st, h.packed).hi \in Nat
    BY <1>10, SpansOf, Zenon
  <2> HIDE DEF V
  <2> QED BY <1>2, <1>10, <2>5, Zenon
<1>4. \A i \in Vertices : Within(V(i), VS)
  BY <1>11
<1>5. \A i, jj \in Vertices : i # jj => ~Meet(V(i), V(jj))
  BY <1>11
<1>6. VS \in Regions
  BY <1>1 DEF Regions, Span
<1>7. SUFFICES
        /\ \A r \in Regions : r.lo % 4096 = 0 /\ r.lo >= HeaderBytes
        /\ \A r, s \in Regions : r # s => ~Meet(r, s)
        /\ \A a \in all : \E r \in Regions : Within(a, r)
        /\ \A a, b \in all : a # b => ~Meet(a, b)
  <2>1. VS.lo = h.off_vectors /\ VS.lo < VS.hi
    BY <1>1 DEF Span
  <2>2. \A s \in Regions : s.lo = h.off_vectors => s = VS
    <3> SUFFICES ASSUME NEW s \in Regions, s.lo = h.off_vectors, s # VS
                 PROVE  FALSE
      OBVIOUS
    <3>1. s.lo < s.hi
      BY DEF Regions
    <3>2. Meet(s, VS)
      BY <2>1, <3>1 DEF Meet
    <3> QED BY <1>6, <1>7, <3>2
  <2>3. S(h.off_vectors) = VS
    BY <1>6, <2>1, <2>2
  <2> HIDE DEF S, VS
  <2>4. \A i \in Vertices : Within(V(i), S(h.off_vectors))
    BY <1>4, <2>3
  <2> QED BY <1>7, <2>4 DEF RegionsApart, S
<1>8. CASE h.version = 1
  <2>1. FourRegions(h)
    BY <1>8 DEF HeaderOk
  <2> DEFINE P == Span(h.off_pq, h.len_pq)
             G == Span(h.off_graph, h.len_graph)
             T == Span(h.off_pivots, h.len_pivots)
  <2>2. Regions \subseteq {P, G, VS, T} /\ \A r \in Regions : r.lo < r.hi
    BY DEF Regions
  <2>3. P.hi <= G.lo /\ G.hi <= VS.lo /\ VS.hi <= T.lo
    BY <1>1, <2>1 DEF Span, FourRegions
  <2>4. \A r \in {P, G, VS, T} : r.lo \in Nat /\ r.hi \in Nat /\ r.lo <= r.hi /\ r.lo % 4096 = 0 /\ r.lo >= HeaderBytes
    <3>1. \A r \in {P, G, VS, T} : r.lo \in Nat /\ r.hi \in Nat /\ r.lo <= r.hi
      BY <1>1 DEF Span
    <3>2. P.lo = h.off_pq /\ G.lo = h.off_graph /\ VS.lo = h.off_vectors /\ T.lo = h.off_pivots
      BY DEF Span
    <3> HIDE DEF P, G, VS, T
    <3>3. \A r \in {P, G, VS, T} : r.lo % 4096 = 0 /\ r.lo >= HeaderBytes
      BY <2>1, <3>2 DEF FourRegions, OnPage
    <3> QED BY <3>1, <3>3
  <2>5. \A r, s \in {P, G, VS, T} : r # s => ~Meet(r, s)
    <3> HIDE DEF P, G, VS, T
    <3> QED BY <2>3, <2>4 DEF Meet
  <2>6. \A i \in Vertices : C(i) = Span(h.off_pq + i * 32, 32) /\ h.len_pq = h.n * 32
    BY <2>1, PlacedIs DEF FourRegions
  <2>7. \A i \in Vertices : N(i) = Span(h.off_graph + i * (h.R * 4), h.R * 4) /\ h.len_graph = h.n * (h.R * 4)
    <3> SUFFICES ASSUME NEW i \in Vertices
                 PROVE  N(i) = Span(h.off_graph + i * (h.R * 4), h.R * 4) /\ h.len_graph = h.n * (h.R * 4)
      OBVIOUS
    <3>1. \A x, y \in Nat : x * y * 4 = x * (y * 4)
      OBVIOUS
    <3>2. nbrs(ImagePlacement, i) = h.off_graph + i * h.R * 4 /\ h.len_graph = h.n * h.R * 4
      BY <1>8, <2>1, PlacedIs DEF FourRegions
    <3>3. i * h.R * 4 = i * (h.R * 4) /\ h.n * h.R * 4 = h.n * (h.R * 4)
      BY <1>1, <1>3, <3>1
    <3>4. 4 * h.R = h.R * 4
      BY <1>1
    <3> QED BY <3>2, <3>3, <3>4
  <2>8. /\ \A i \in Vertices : Within(C(i), P)
        /\ \A i, jj \in Vertices : i # jj => ~Meet(C(i), C(jj))
        /\ \A i \in Vertices : C(i).lo \in Nat /\ C(i).hi \in Nat
    <3>1. h.off_pq \in Nat /\ 32 \in Nat /\ 32 <= 32
      BY <1>1
    <3> HIDE DEF h
    <3>5. /\ \A i \in 0 .. h.n - 1 : Within(Span(h.off_pq + i * 32, 32), Span(h.off_pq, h.n * 32))
          /\ \A i, jj \in 0 .. h.n - 1 : i # jj => ~Meet(Span(h.off_pq + i * 32, 32), Span(h.off_pq + jj * 32, 32))
          /\ \A i \in 0 .. h.n - 1 : Span(h.off_pq + i * 32, 32).lo \in Nat /\ Span(h.off_pq + i * 32, 32).hi \in Nat
    BY <1>10, <3>1, SpansOf, Zenon
    <3> HIDE DEF C
    <3> QED BY <1>10, <2>6, <3>5, ZenonT(60)
  <2>9. /\ \A i \in Vertices : Within(N(i), G)
        /\ \A i, jj \in Vertices : i # jj => ~Meet(N(i), N(jj))
        /\ \A i \in Vertices : N(i).lo \in Nat /\ N(i).hi \in Nat
    <3>1. h.off_graph \in Nat /\ h.R * 4 \in Nat /\ h.R * 4 <= h.R * 4
      BY <1>1
    <3> HIDE DEF h
    <3>5. /\ \A i \in 0 .. h.n - 1 : Within(Span(h.off_graph + i * (h.R * 4), (h.R * 4)), Span(h.off_graph, h.n * (h.R * 4)))
          /\ \A i, jj \in 0 .. h.n - 1 : i # jj => ~Meet(Span(h.off_graph + i * (h.R * 4), (h.R * 4)), Span(h.off_graph + jj * (h.R * 4), (h.R * 4)))
          /\ \A i \in 0 .. h.n - 1 : Span(h.off_graph + i * (h.R * 4), (h.R * 4)).lo \in Nat /\ Span(h.off_graph + i * (h.R * 4), (h.R * 4)).hi \in Nat
    BY <1>10, <3>1, SpansOf, Zenon
    <3> HIDE DEF N
    <3> QED BY <1>10, <2>7, <3>5, Zenon
  <2>11. h.len_pq > 0 /\ h.len_graph > 0
    <3>1. \A x, y \in Nat : x > 0 /\ y > 0 => x * y * 4 > 0
      OBVIOUS
    <3>2. h.n > 0 /\ h.R > 0
      BY <1>1, RawIs, HeaderNats
    <3>3. h.n * h.R * 4 > 0
      BY <1>1, <3>1, <3>2
    <3> QED BY <1>1, <2>1, <3>2, <3>3 DEF FourRegions
  <2>12. P \in Regions /\ G \in Regions
    BY <1>1, <2>11 DEF Regions, Span
  <2> HIDE DEF V, N, C, P, G, VS, T
  <2>14. \A i, jj \in Vertices : ~Meet(V(i), N(jj)) /\ ~Meet(N(jj), V(i)) /\ ~Meet(C(i), N(jj)) /\ ~Meet(N(jj), C(i))
                                /\ ~Meet(V(i), C(jj)) /\ ~Meet(C(jj), V(i))
    BY <1>11, <2>3, <2>4, <2>8, <2>9 DEF Within, Meet
  <2>15. \A a \in all : \E i \in Vertices : a = V(i) \/ a = N(i) \/ a = C(i)
    OBVIOUS
  <2> HIDE DEF all
  <2>16. \A a \in all : \E r \in Regions : Within(a, r)
    BY <1>4, <1>6, <2>8, <2>9, <2>12, <2>15
  <2>17. \A a, b \in all : a # b => ~Meet(a, b)
    <3> SUFFICES ASSUME NEW a \in all, NEW b \in all, a # b
                 PROVE  ~Meet(a, b)
      OBVIOUS
    <3>1. PICK i \in Vertices : a = V(i) \/ a = N(i) \/ a = C(i)
      BY <2>15
    <3>2. PICK jj \in Vertices : b = V(jj) \/ b = N(jj) \/ b = C(jj)
      BY <2>15
    <3> QED BY <3>1, <3>2, <1>5, <2>8, <2>9, <2>14
  <2> QED BY <2>2, <2>4, <2>5, <2>16, <2>17
<1>9. CASE h.version = 2
  <2>1. RecordsOnly(h)
    BY <1>9 DEF HeaderOk
  <2> DEFINE E(i) == Span(h.off_vectors + i * st, st)
  <2>2. Regions = {VS}
    BY <1>1, <2>1 DEF Regions, RecordsOnly, Span
  <2>3. VS.lo % 4096 = 0 /\ VS.lo >= HeaderBytes
    BY <2>1 DEF RecordsOnly, Span, HeaderBytes
  <2>4. /\ \A i \in Vertices : Within(E(i), VS)
        /\ \A i, jj \in Vertices : i # jj => ~Meet(E(i), E(jj))
        /\ \A i \in Vertices : E(i).lo \in Nat /\ E(i).hi \in Nat
    <3> HIDE DEF h, st
    <3> QED BY <1>10, SpansOf, Zenon
  <2>6. \A i \in Vertices : N(i) = Span(h.off_vectors + i * st + h.packed + 4, 4 * h.R)
    BY <1>9, PlacedIs
  <2>7. st >= h.packed + 4 + 4 * h.R
    BY <2>1 DEF RecordsOnly, diskann_payload_bytes
  <2>8. \A x, y \in Nat : x * y \in Nat
    OBVIOUS
  <2>9. \A i \in Vertices : i * st \in Nat
    BY <1>1, <1>3, <2>8
  <2>10. \A i \in Vertices : /\ Within(V(i), E(i)) /\ Within(N(i), E(i)) /\ ~Meet(V(i), N(i)) /\ ~Meet(N(i), V(i))
                            /\ E(i).lo \in Nat /\ E(i).hi \in Nat /\ V(i).lo \in Nat /\ V(i).hi \in Nat /\ N(i).lo \in Nat /\ N(i).hi \in Nat
    <3> SUFFICES ASSUME NEW i \in Vertices
                 PROVE  /\ Within(V(i), E(i)) /\ Within(N(i), E(i)) /\ ~Meet(V(i), N(i)) /\ ~Meet(N(i), V(i))
                        /\ E(i).lo \in Nat /\ E(i).hi \in Nat /\ V(i).lo \in Nat /\ V(i).hi \in Nat /\ N(i).lo \in Nat /\ N(i).hi \in Nat
      OBVIOUS
    <3> DEFINE x == i * st
    <3>1. x \in Nat
      BY <2>9
    <3>2. /\ E(i) = [lo |-> h.off_vectors + x, hi |-> h.off_vectors + x + st]
          /\ V(i) = [lo |-> h.off_vectors + x, hi |-> h.off_vectors + x + h.packed]
          /\ N(i) = [lo |-> h.off_vectors + x + h.packed + 4, hi |-> h.off_vectors + x + h.packed + 4 + 4 * h.R]
      BY <1>2, <2>6 DEF Span
    <3> HIDE DEF x, E, V, N, h, st
    <3> QED BY <1>1, <2>7, <3>1, <3>2 DEF Within, Meet
  <2>11. \A a \in all : \E i \in Vertices : a = V(i) \/ a = N(i)
    BY <2>1 DEF RecordsOnly
  <2>12. VS.lo \in Nat /\ VS.hi \in Nat
    BY <1>1 DEF Span
  <2> HIDE DEF V, N, E, VS, all
  <2>13. \A a \in all : \E r \in Regions : Within(a, r)
    <3> SUFFICES ASSUME NEW a \in all PROVE Within(a, VS)
      BY <2>2
    <3>1. PICK i \in Vertices : a = V(i) \/ a = N(i)
      BY <2>11
    <3> QED BY <3>1, <2>4, <2>10, <2>12 DEF Within
  <2>14. \A a, b \in all : a # b => ~Meet(a, b)
    <3> SUFFICES ASSUME NEW a \in all, NEW b \in all, a # b
                 PROVE  ~Meet(a, b)
      OBVIOUS
    <3>1. PICK i \in Vertices : a = V(i) \/ a = N(i)
      BY <2>11
    <3>2. PICK jj \in Vertices : b = V(jj) \/ b = N(jj)
      BY <2>11
    <3>3. CASE i = jj
      BY <3>1, <3>2, <3>3, <2>10
    <3>4. CASE i # jj
      BY <3>1, <3>2, <3>4, <2>4, <2>10 DEF Meet, Within
    <3> QED BY <3>3, <3>4
  <2> QED BY <2>2, <2>3, <2>13, <2>14
<1> QED BY <1>1, <1>8, <1>9

-----------------------------------------------------------------------------
(* Orders: ids given once, all of them in the end.                         *)

\* An order as long as there are ids has every id.
LEMMA FullOrder ==
  ASSUME raw \in Raws, NEW s \in Seq(Vertices), IsInjective(s), Len(s) = raw.n
  PROVE  /\ \A v \in Vertices : \E i \in 1 .. raw.n : s[i] = v
         /\ \A i \in Vertices : i + 1 \in 1 .. Len(s) /\ s[i + 1] \in Vertices
<1>1. raw.n \in Nat /\ IsFiniteSet(Vertices)
  BY RawIs
<1>2. s \in [1 .. raw.n -> Vertices]
  <2>1. s \in [1 .. Len(s) -> Vertices]
    OBVIOUS
  <2> QED BY <2>1
<1>3. s \in Injection(1 .. raw.n, Vertices)
  BY <1>2 DEF Injection
<1>4. Cardinality(1 .. raw.n) = raw.n /\ Cardinality(Vertices) = raw.n
  <2>1. Cardinality(1 .. raw.n) = raw.n
    BY <1>1, FS_Interval
  <2>2. Cardinality(0 .. raw.n - 1) = raw.n
    <3>1. raw.n - 1 \in Int /\ raw.n > 0
      BY <1>1, RawIs
    <3>2. \A m \in Int : 0 <= m => Cardinality(0 .. m) = m + 1
      BY FS_Interval
    <3>3. raw.n - 1 >= 0 /\ raw.n - 1 + 1 = raw.n
      BY <1>1, <3>1
    <3> QED BY <3>1, <3>2, <3>3
  <2> QED BY <2>1, <2>2 DEF Vertices
<1>5. s \in Surjection(1 .. raw.n, Vertices)
  BY <1>1, <1>3, <1>4, FS_Injection
<1>6. \A i \in Vertices : i + 1 \in 1 .. raw.n
  BY <1>1 DEF Vertices
<1> QED BY <1>2, <1>5, <1>6 DEF Surjection

\* With keeps an order: the ids of s and perhaps v, each once.
LEMMA WithIs ==
  ASSUME raw \in Raws, NEW s \in Seq(Vertices), NEW v \in Nat
  PROVE  /\ With(s, v) \in Seq(Vertices)
         /\ IsInjective(s) => IsInjective(With(s, v))
<1>1. CASE v >= raw.n \/ v \in ToSet(s)
  BY <1>1 DEF With
<1>2. CASE ~(v >= raw.n \/ v \in ToSet(s))
  <2>1. v \in Vertices
    BY <1>2, RawIs DEF Vertices
  <2>2. With(s, v) = Append(s, v)
    BY <1>2 DEF With
  <2>3. \A i \in 1 .. Len(s) : s[i] # v
    BY <1>2 DEF ToSet
  <2>4. ASSUME IsInjective(s)
        PROVE  IsInjective(Append(s, v))
    <3> SUFFICES ASSUME NEW a \in DOMAIN Append(s, v), NEW b \in DOMAIN Append(s, v),
                        Append(s, v)[a] = Append(s, v)[b]
                 PROVE  a = b
      BY DEF IsInjective
    <3>1. a \in 1 .. Len(s) + 1 /\ b \in 1 .. Len(s) + 1
      BY <2>1, AppendProperties
    <3>2. \A i \in 1 .. Len(s) + 1 : Append(s, v)[i] = IF i = Len(s) + 1 THEN v ELSE s[i]
      BY <2>1
    <3>3. \A i, k \in 1 .. Len(s) : s[i] = s[k] => i = k
      BY <2>4 DEF IsInjective
    <3> QED BY <3>1, <3>2, <3>3, <2>3
  <2> QED BY <2>1, <2>2, <2>4, AppendProperties
<1> QED BY <1>1, <1>2

\* An id's new id is its place in a full order.
LEMMA NewIdIs ==
  ASSUME raw \in Raws, order \in Seq(Vertices), IsInjective(order), Len(order) = raw.n, NEW v \in Vertices
  PROVE  NewId(v) \in Vertices /\ order[NewId(v) + 1] = v
<1>1. PICK i \in 1 .. Len(order) : order[i] = v
  BY FullOrder
<1> DEFINE c == CHOOSE k \in 1 .. Len(order) : order[k] = v
<1>2. c \in 1 .. Len(order) /\ order[c] = v
  BY <1>1
<1>3. NewId(v) = c - 1
  BY DEF NewId
<1> HIDE DEF c
<1>4. raw.n \in Nat
  BY RawIs
<1> QED BY <1>2, <1>3, <1>4 DEF Vertices

\* A rewritten row names the new ids of the neighbours it named.
LEMMA RemappedRowIs ==
  ASSUME raw \in Raws, order \in Seq(Vertices), IsInjective(order), Len(order) = raw.n,
         NEW row, \A k \in 1 .. raw.R : row[k] \in Nat
  PROVE  /\ RemappedRow(row) \in [1 .. raw.R -> Vertices]
         /\ \A k \in 1 .. raw.R : row[k] < raw.n => order[RemappedRow(row)[k] + 1] = row[k]
<1>1. 0 \in Vertices /\ raw.n \in Nat
  BY RawIs
<1>2. \A k \in 1 .. raw.R : row[k] < raw.n => row[k] \in Vertices
  BY <1>1 DEF Vertices
<1>3. \A k \in 1 .. raw.R : row[k] < raw.n => NewId(row[k]) \in Vertices /\ order[NewId(row[k]) + 1] = row[k]
  BY <1>2, NewIdIs
<1> QED BY <1>1, <1>3, Zenon DEF RemappedRow

-----------------------------------------------------------------------------
(* The steps that order the ids.                                           *)

\* A row is a sequence of ids.
LEMMA RowSeq ==
  ASSUME raw \in Raws, NEW row \in [1 .. raw.R -> Vertices]
  PROVE  row \in Seq(Nat) /\ row \in Seq(Vertices) /\ Len(row) = raw.R
<1>1. raw.R \in Nat /\ Vertices \subseteq Nat
  BY RawIs DEF Vertices
<1>2. row \in [1 .. raw.R -> Nat]
  BY <1>1
<1> QED BY <1>1, <1>2, IsASeq

\* The list of all ids has each once.
LEMMA AllIdsSeq ==
  ASSUME raw \in Raws
  PROVE  AllIds \in Seq(Nat) /\ AllIds \in Seq(Vertices) /\ Len(AllIds) = raw.n /\ IsInjective(AllIds)
<1>1. raw.n \in Nat
  BY RawIs
<1>2. AllIds \in [1 .. raw.n -> Vertices] /\ AllIds \in [1 .. raw.n -> Nat]
  BY <1>1 DEF AllIds, Vertices
<1>3. IsInjective(AllIds)
  BY <1>1 DEF AllIds, IsInjective
<1> QED BY <1>1, <1>2, <1>3, IsASeq

\* Nothing is twice in an empty sequence.
LEMMA EmptyInjective == IsInjective(<<>>)
BY DEF IsInjective

\* Nor in one of one element.
LEMMA OneInjective == \A x : IsInjective(<<x>>)
BY DEF IsInjective

PermStages == {"assign", "depth", "visit", "rest", "file", "blocks", "place"}

\* A step that only orders ids keeps LayoutInv when it orders none twice.
LEMMA PermKeeps ==
  ASSUME LayoutInv, UNCHANGED <<raw, img, out, tool, made, copyVars>>, stage # "idle", stage' \in PermStages,
         order' \in Seq(Vertices), queue' \in Seq(Vertices), mark' \subseteq Vertices, todo' \in Seq(Nat), OnceOrdered'
  PROVE  LayoutInv'
<1>1. Vertices' = Vertices
  BY DEF Vertices
<1>2. LayoutTypes'
  BY <1>1 DEF LayoutInv, LayoutTypes, copyVars
<1>3. ToolInput'
  <2>1. (\A uu \in Vertices : Len(raw.graph[uu]) = raw.R)'
    BY <1>1 DEF LayoutInv, ToolInput
  <2> QED BY <2>1 DEF LayoutInv, ToolInput, PermStages, Bfs, Renumbers, Pagebin, Bundle, Pagealign, Diskann, Nbr, Degree, Nav
<1>4. ImagesOk'
  BY DEF LayoutInv, ImagesOk, PermStages
<1>5. Copying'
  BY DEF LayoutInv, Copying, PermStages
<1> QED BY <1>2, <1>3, <1>4, <1>5 DEF LayoutInv

\* Head and tail of a sequence over S.
LEMMA HeadTail ==
  ASSUME NEW S, NEW s \in Seq(S), s # <<>>
  PROVE  Head(s) \in S /\ Tail(s) \in Seq(S)
OBVIOUS

\* An image at rest: what the tools that renumber it rely on.
LEMMA ImageAt ==
  ASSUME LayoutInv, img # NoImage
  PROVE  /\ raw \in Raws /\ DataOk(raw, img) /\ HeaderOk(raw, img.hdr)
         /\ IdsOf(raw) = Vertices
         /\ img.hdr.entry_id \in Vertices /\ Clamped(img.hdr.entry_id) = img.hdr.entry_id
         /\ \A uu \in Vertices : img.graph[uu] \in [1 .. raw.R -> Vertices] /\ img.graph[uu] \in Seq(Nat)
<1>1. raw \in Raws /\ DataOk(raw, img)
  BY DEF LayoutInv, LayoutTypes, ImagesOk
<1>2. IdsOf(raw) = Vertices
  BY DEF IdsOf, Vertices
<1>3. img.hdr.entry_id \in Vertices
  BY <1>1, <1>2 DEF DataOk
<1>4. Clamped(img.hdr.entry_id) = img.hdr.entry_id
  BY <1>1, <1>3, RawIs DEF Clamped, Vertices
<1>5. \A uu \in Vertices : img.graph[uu] \in [1 .. raw.R -> Vertices]
  BY <1>1, <1>2 DEF DataOk, FullRows
<1>6. \A uu \in Vertices : img.graph[uu] \in Seq(Nat)
  BY <1>1, <1>5, RowSeq
<1>7. HeaderOk(raw, img.hdr)
  BY <1>1 DEF DataOk
<1> QED BY <1>1, <1>2, <1>3, <1>4, <1>5, <1>6, <1>7

\* The entry is an id, clamped if need be.
LEMMA EntryIn ==
  ASSUME raw \in Raws
  PROVE  Clamped(raw.entry) \in Vertices
BY RawIs DEF Clamped, Vertices

\* The loop over the ids to assign.
LEMMA AssignsKeeps ==
  ASSUME LayoutInv, AssignsNext, stage \in PermStages, ~(Bundle /\ stage = "visit")
  PROVE  LayoutInv'
<1>1. raw \in Raws /\ order \in Seq(Vertices) /\ todo \in Seq(Nat) /\ IsInjective(order)
      /\ queue \in Seq(Vertices) /\ mark \subseteq Vertices
  BY DEF LayoutInv, LayoutTypes, OnceOrdered
<1>2. Head(todo) \in Nat /\ Tail(todo) \in Seq(Nat)
  BY <1>1, HeadTail DEF AssignsNext
<1>3. order' \in Seq(Vertices) /\ IsInjective(order')
  BY <1>1, <1>2, WithIs DEF AssignsNext
<1>4. OnceOrdered'
  BY <1>3 DEF OnceOrdered
<1>5. stage # "idle"
  BY DEF PermStages
<1> QED BY <1>1, <1>2, <1>3, <1>4, <1>5, PermKeeps DEF AssignsNext

\* The loop that queues them.
LEMMA QueuesIs ==
  ASSUME raw \in Raws, queue \in Seq(Vertices), mark \subseteq Vertices, todo \in Seq(Nat), todo # <<>>, QueuesNext
  PROVE  queue' \in Seq(Vertices) /\ mark' \subseteq Vertices /\ todo' \in Seq(Nat)
<1>1. Head(todo) \in Nat /\ Tail(todo) \in Seq(Nat) /\ raw.n \in Nat
  BY HeadTail, RawIs
<1>2. CASE Head(todo) >= raw.n \/ Head(todo) \in mark
  BY <1>1, <1>2 DEF QueuesNext
<1>3. CASE ~(Head(todo) >= raw.n \/ Head(todo) \in mark)
  <2>1. Head(todo) \in Vertices
    BY <1>1, <1>3 DEF Vertices
  <2>2. queue' = Append(queue, Head(todo)) /\ mark' = mark \cup {Head(todo)} /\ todo' = Tail(todo)
    BY <1>3 DEF QueuesNext
  <2> QED BY <1>1, <2>1, <2>2, AppendProperties
<1> QED BY <1>2, <1>3

\* A sequence of one element.
LEMMA OneSeq ==
  ASSUME NEW S, NEW x \in S
  PROVE  <<x>> \in Seq(S) /\ Len(<<x>>) = 1 /\ IsInjective(<<x>>)
BY OneInjective

\* The breadth-first order of reorder_bfs gives no id twice.
LEMMA BfsOrders ==
  ASSUME LayoutInv, BfsBegins \/ BfsVisits \/ BfsNeighbour \/ BfsLeftovers \/ BfsAssigns
  PROVE  LayoutInv'
<1>1. raw \in Raws /\ order \in Seq(Vertices) /\ todo \in Seq(Nat) /\ queue \in Seq(Vertices) /\ mark \subseteq Vertices
  BY DEF LayoutInv, LayoutTypes
<1>2. Bfs => ~Bundle
  BY DEF Bfs, Bundle
<1>3. Bfs => IsInjective(order)
  BY <1>2 DEF LayoutInv, OnceOrdered
<1>4. CASE BfsBegins
  <2>1. stage # "idle" /\ stage' \in PermStages
    BY <1>4 DEF BfsBegins, PermStages
  <2>2. order' \in Seq(Vertices) /\ queue' \in Seq(Vertices) /\ IsInjective(order')
    BY <1>1, <1>4, EntryIn, OneSeq DEF BfsBegins
  <2>3. OnceOrdered'
    BY <2>2 DEF OnceOrdered
  <2> QED BY <1>1, <1>4, <2>1, <2>2, <2>3, PermKeeps DEF BfsBegins
<1>5. CASE BfsVisits
  <2>1. stage # "idle" /\ stage' \in PermStages
    BY <1>5 DEF BfsVisits, PermStages
  <2>2. Head(queue) \in Vertices /\ queue' \in Seq(Vertices)
    BY <1>1, <1>5, HeadTail DEF BfsVisits
  <2>3. todo' \in Seq(Nat)
    BY <1>1, <1>5, <2>2, RawIs DEF BfsVisits
  <2>4. OnceOrdered'
    BY <1>3, <1>5 DEF OnceOrdered, BfsVisits
  <2> QED BY <1>1, <1>5, <2>1, <2>2, <2>3, <2>4, PermKeeps DEF BfsVisits
<1>6. CASE BfsNeighbour
  <2>1. stage # "idle" /\ stage' \in PermStages
    BY <1>6 DEF BfsNeighbour, PermStages
  <2>2. Head(todo) \in Nat /\ todo' \in Seq(Nat)
    BY <1>1, <1>6, HeadTail DEF BfsNeighbour
  <2>3. order' \in Seq(Vertices) /\ IsInjective(order')
    BY <1>1, <1>3, <1>6, <2>2, WithIs DEF BfsNeighbour
  <2>4. queue' \in Seq(Vertices)
    <3>1. CASE order' = order
      BY <1>1, <1>6, <3>1 DEF BfsNeighbour
    <3>2. CASE order' # order
      <4>1. Head(todo) \in Vertices
        BY <1>1, <1>6, <2>2, <3>2, RawIs DEF BfsNeighbour, With, Vertices
      <4> QED BY <1>1, <1>6, <3>2, <4>1, AppendProperties DEF BfsNeighbour
    <3> QED BY <3>1, <3>2
  <2>5. OnceOrdered'
    BY <2>3 DEF OnceOrdered
  <2> QED BY <1>1, <1>6, <2>1, <2>2, <2>3, <2>4, <2>5, PermKeeps DEF BfsNeighbour
<1>7. CASE BfsLeftovers
  <2>1. stage # "idle" /\ stage' \in PermStages
    BY <1>7 DEF BfsLeftovers, PermStages
  <2>2. todo' \in Seq(Nat)
    BY <1>1, <1>7, AllIdsSeq DEF BfsLeftovers
  <2>3. OnceOrdered'
    BY <1>3, <1>7 DEF OnceOrdered, BfsLeftovers
  <2> QED BY <1>1, <1>7, <2>1, <2>2, <2>3, PermKeeps DEF BfsLeftovers
<1>8. CASE BfsAssigns
  BY <1>2, <1>8, AssignsKeeps DEF BfsAssigns, PermStages
<1> QED BY <1>4, <1>5, <1>6, <1>7, <1>8

\* Nor does the visit order of the page-binning packer.
LEMMA PagebinOrders ==
  ASSUME LayoutInv, PagebinBegins \/ PagebinVisits \/ PagebinNeighbour \/ PagebinLeftovers \/ PagebinAssigns
  PROVE  LayoutInv'
<1>1. raw \in Raws /\ order \in Seq(Vertices) /\ todo \in Seq(Nat) /\ queue \in Seq(Vertices) /\ mark \subseteq Vertices
  BY DEF LayoutInv, LayoutTypes
<1>2. Pagebin => ~Bundle /\ ~Bfs
  BY DEF Pagebin, Bundle, Bfs
<1>3. Pagebin => IsInjective(order)
  BY <1>2 DEF LayoutInv, OnceOrdered
<1>9. Pagebin /\ stage # "idle" => img # NoImage
  BY <1>2 DEF LayoutInv, ToolInput
<1>4. CASE PagebinBegins
  <2>1. stage # "idle" /\ stage' \in PermStages /\ img # NoImage
    BY <1>4, <1>9 DEF PagebinBegins, PermStages
  <2>2. Clamped(img.hdr.entry_id) \in Vertices
    BY <2>1, ImageAt
  <2>3. queue' \in Seq(Vertices) /\ mark' \subseteq Vertices
    BY <1>4, <2>2, OneSeq DEF PagebinBegins
  <2>4. OnceOrdered'
    BY <1>3, <1>4 DEF OnceOrdered, PagebinBegins
  <2> QED BY <1>1, <1>4, <2>1, <2>3, <2>4, PermKeeps DEF PagebinBegins
<1>5. CASE PagebinVisits
  <2>1. stage # "idle" /\ stage' \in PermStages /\ img # NoImage
    BY <1>5, <1>9 DEF PagebinVisits, PermStages
  <2>6. Head(queue) \in Vertices /\ queue' \in Seq(Vertices)
    BY <1>1, <1>5, HeadTail DEF PagebinVisits
  <2>2. Head(queue) \in Vertices /\ Head(queue) \in Nat /\ queue' \in Seq(Vertices)
    BY <2>6 DEF Vertices
  <2>3. todo' \in Seq(Nat)
    BY <1>5, <2>1, <2>2, ImageAt DEF PagebinVisits
  <2>4. order' \in Seq(Vertices) /\ IsInjective(order')
    BY <1>1, <1>3, <1>5, <2>2, WithIs DEF PagebinVisits
  <2>5. OnceOrdered'
    BY <2>4 DEF OnceOrdered
  <2> QED BY <1>1, <1>5, <2>1, <2>2, <2>3, <2>4, <2>5, PermKeeps DEF PagebinVisits
<1>6. CASE PagebinNeighbour
  <2>1. stage # "idle" /\ stage' \in PermStages
    BY <1>6 DEF PagebinNeighbour, PermStages
  <2>2. queue' \in Seq(Vertices) /\ mark' \subseteq Vertices /\ todo' \in Seq(Nat)
    BY <1>1, <1>6, QueuesIs DEF PagebinNeighbour
  <2>3. Head(todo) \in Nat
    BY <1>1, <1>6, HeadTail DEF PagebinNeighbour
  <2>4. order' \in Seq(Vertices) /\ IsInjective(order')
    BY <1>1, <1>3, <1>6, <2>3, WithIs DEF PagebinNeighbour
  <2>5. OnceOrdered'
    BY <2>4 DEF OnceOrdered
  <2> QED BY <1>1, <1>6, <2>1, <2>2, <2>4, <2>5, PermKeeps DEF PagebinNeighbour
<1>7. CASE PagebinLeftovers
  <2>1. stage # "idle" /\ stage' \in PermStages
    BY <1>7 DEF PagebinLeftovers, PermStages
  <2>2. todo' \in Seq(Nat)
    BY <1>1, <1>7, AllIdsSeq DEF PagebinLeftovers
  <2>3. OnceOrdered'
    BY <1>3, <1>7 DEF OnceOrdered, PagebinLeftovers
  <2> QED BY <1>1, <1>7, <2>1, <2>2, <2>3, PermKeeps DEF PagebinLeftovers
<1>8. CASE PagebinAssigns
  BY <1>2, <1>8, AssignsKeeps DEF PagebinAssigns, PermStages
<1> QED BY <1>4, <1>5, <1>6, <1>7, <1>8

\* What a bucket holds last is a vertex.
LEMMA LastFiled ==
  ASSUME raw \in Raws, HeapTypes(raw, heap), NEW b \in DOMAIN heap.buckets, heap.buckets[b] # <<>>
  PROVE  /\ Last(heap.buckets[b]) \in Vertices /\ Front(heap.buckets[b]) \in Seq(Vertices)
         /\ b \in Buckets(raw) /\ heap.buckets[b] \in Seq(Vertices)
<1>1. IdsOf(raw) = Vertices
  BY DEF IdsOf, Vertices
<1>2. heap.buckets \in [Buckets(raw) -> Seq(Vertices)]
  BY <1>1 DEF HeapTypes
<1>3. heap.buckets[b] \in Seq(Vertices) /\ b \in Buckets(raw)
  BY <1>2
<1> QED BY <1>3 DEF Last, Front

\* The given map, the trace and the blocks; the depth pass only queues.
LEMMA BundleOrders ==
  ASSUME LayoutInv, HeapOk,
         \/ BundleDepthBegins \/ BundleDepthVisits \/ BundleDepthNeighbour \/ BundleFromMap \/ BundleFromTrace
         \/ BundleBlocksBegin \/ BundleFilesVertex \/ BundleBlock \/ BundlePlaces \/ BundleUnplaces
         \/ BundleLeftovers \/ BundleAssigns
  PROVE  LayoutInv'
<1>1. raw \in Raws /\ order \in Seq(Vertices) /\ todo \in Seq(Nat) /\ queue \in Seq(Vertices) /\ mark \subseteq Vertices
  BY DEF LayoutInv, LayoutTypes
<1>2. Bundle => ~Bfs
  BY DEF Bundle, Bfs
<1>3. Bundle /\ stage # "visit" => IsInjective(order)
  BY DEF LayoutInv, OnceOrdered
<1>4. Bundle /\ stage # "idle" => img # NoImage
  BY <1>2 DEF LayoutInv, ToolInput
<1>5. CASE BundleDepthBegins
  <2>1. stage # "idle" /\ stage' \in PermStages /\ img # NoImage
    BY <1>4, <1>5 DEF BundleDepthBegins, PermStages
  <2>2. Clamped(img.hdr.entry_id) \in Vertices
    BY <2>1, ImageAt
  <2>3. queue' \in Seq(Vertices) /\ mark' \subseteq Vertices
    BY <1>5, <2>2, OneSeq DEF BundleDepthBegins
  <2>4. OnceOrdered'
    BY <1>5 DEF OnceOrdered, BundleDepthBegins, Bundle
  <2> QED BY <1>1, <1>5, <2>1, <2>3, <2>4, PermKeeps DEF BundleDepthBegins
<1>6. CASE BundleDepthVisits
  <2>1. stage # "idle" /\ stage' \in PermStages /\ img # NoImage
    BY <1>4, <1>6 DEF BundleDepthVisits, PermStages
  <2>2. Head(queue) \in Vertices /\ queue' \in Seq(Vertices)
    BY <1>1, <1>6, HeadTail DEF BundleDepthVisits
  <2>3. todo' \in Seq(Nat)
    BY <1>6, <2>1, <2>2, ImageAt DEF BundleDepthVisits, Row
  <2>4. order' \in Seq(Vertices)
    BY <1>1, <1>6, <2>2, AppendProperties DEF BundleDepthVisits
  <2>5. OnceOrdered'
    BY <1>6 DEF OnceOrdered, BundleDepthVisits, Bundle
  <2> QED BY <1>1, <1>6, <2>1, <2>2, <2>3, <2>4, <2>5, PermKeeps DEF BundleDepthVisits
<1>7. CASE BundleDepthNeighbour
  <2>1. stage # "idle" /\ stage' \in PermStages
    BY <1>7 DEF BundleDepthNeighbour, PermStages
  <2>2. queue' \in Seq(Vertices) /\ mark' \subseteq Vertices /\ todo' \in Seq(Nat)
    BY <1>1, <1>7, QueuesIs DEF BundleDepthNeighbour
  <2>3. OnceOrdered'
    BY <1>7 DEF OnceOrdered, BundleDepthNeighbour, Bundle
  <2> QED BY <1>1, <1>7, <2>1, <2>2, <2>3, PermKeeps DEF BundleDepthNeighbour
<1>8. CASE BundleFromMap
  <2>1. stage # "idle" /\ stage' \in PermStages
    BY <1>8 DEF BundleFromMap, Assigning, PermStages
  <2>2. PICK m \in EvalMaps : Len(m) = raw.n /\ ToSet(m) \subseteq Vertices /\ order' = m
    BY <1>8 DEF BundleFromMap
  <2>3. m \in Seq(Nat) /\ IsInjective(m)
    BY BundleConstants
  <2>4. m \in Seq(Vertices)
    <3>1. \A i \in 1 .. Len(m) : m[i] \in Vertices
      BY <2>2 DEF ToSet
    <3>2. m \in [1 .. Len(m) -> Vertices] /\ Len(m) \in Nat
      BY <2>3, <3>1
    <3> QED BY <3>2, IsASeq
  <2>5. OnceOrdered'
    BY <2>2, <2>3 DEF OnceOrdered
  <2> QED BY <1>1, <1>8, <2>1, <2>2, <2>4, <2>5, PermKeeps DEF BundleFromMap
<1>9. CASE BundleFromTrace
  <2>1. stage # "idle" /\ stage' \in PermStages
    BY <1>9 DEF BundleFromTrace, Assigning, PermStages
  <2>2. PICK tr \in ScoreTraces : todo' = tr \o AllIds
    BY <1>9 DEF BundleFromTrace
  <2>3. todo' \in Seq(Nat)
    <3>1. tr \in Seq(Nat) /\ AllIds \in Seq(Nat)
      BY <1>1, BundleConstants, AllIdsSeq
    <3> QED BY <2>2, <3>1, ConcatProperties
  <2>4. order' \in Seq(Vertices) /\ OnceOrdered'
    BY <1>9, EmptyInjective DEF BundleFromTrace, OnceOrdered
  <2> QED BY <1>1, <1>9, <2>1, <2>3, <2>4, PermKeeps DEF BundleFromTrace
<1>10. CASE BundleBlocksBegin
  <2>1. stage # "idle" /\ stage' \in PermStages
    BY <1>10 DEF BundleBlocksBegin, Assigning, PermStages
  <2>2. todo' \in Seq(Nat)
    BY <1>1, <1>10, AllIdsSeq DEF BundleBlocksBegin
  <2>4. order' \in Seq(Vertices) /\ OnceOrdered'
    BY <1>10, EmptyInjective DEF BundleBlocksBegin, OnceOrdered
  <2> QED BY <1>1, <1>10, <2>1, <2>2, <2>4, PermKeeps DEF BundleBlocksBegin
<1>11. CASE BundleFilesVertex
  <2>1. stage # "idle" /\ stage' \in PermStages
    BY <1>11 DEF BundleFilesVertex, PermStages
  <2>2. todo' \in Seq(Nat)
    <3>1. todo' = todo \/ (todo # <<>> /\ todo' = Tail(todo))
      BY <1>11 DEF BundleFilesVertex
    <3> QED BY <1>1, <3>1, HeadTail
  <2>3. OnceOrdered'
    BY <1>3, <1>11 DEF OnceOrdered, BundleFilesVertex
  <2> QED BY <1>1, <1>11, <2>1, <2>2, <2>3, PermKeeps DEF BundleFilesVertex
<1>12. CASE BundleBlock
  <2>1. Bundle /\ stage = "blocks" /\ UNCHANGED <<raw, img, out, tool, made, order, queue, mark, copyVars>>
    BY <1>12 DEF BundleBlock
  <2>2. PICK b \in Filled :
          LET uu == Last(heap.buckets[b])
          IN  (UNCHANGED <<todo, stage>>) \/ (todo' = Row(uu) /\ stage' = "place" /\ Bucket(uu) = b /\ heap.rem[uu] # 0)
    BY <1>12 DEF BundleBlock
  <2>3. stage # "idle" /\ stage' \in PermStages /\ stage' # "visit"
    BY <2>1, <2>2 DEF PermStages
  <2>5. OnceOrdered'
    BY <1>3, <2>1, <2>3 DEF OnceOrdered
  <2>6. Last(heap.buckets[b]) \in Vertices
    BY <1>1, <2>1, LastFiled DEF HeapOk, Blocking, Filled
  <2>7. todo' \in Seq(Nat)
    BY <1>1, <1>4, <2>1, <2>2, <2>6, ImageAt DEF Row
  <2> QED BY <1>1, <2>1, <2>3, <2>5, <2>7, PermKeeps
<1>13. CASE BundlePlaces
  BY <1>13, AssignsKeeps DEF BundlePlaces, PermStages
<1>14. CASE BundleUnplaces
  <2>1. stage # "idle" /\ stage' \in PermStages
    BY <1>14 DEF BundleUnplaces, PermStages
  <2>3. OnceOrdered'
    BY <1>3, <1>14 DEF OnceOrdered, BundleUnplaces
  <2> QED BY <1>1, <1>14, <2>1, <2>3, PermKeeps DEF BundleUnplaces
<1>15. CASE BundleLeftovers
  <2>1. stage # "idle" /\ stage' \in PermStages
    BY <1>15 DEF BundleLeftovers, PermStages
  <2>2. todo' \in Seq(Nat)
    BY <1>1, <1>15, AllIdsSeq DEF BundleLeftovers
  <2>3. OnceOrdered'
    BY <1>3, <1>15 DEF OnceOrdered, BundleLeftovers
  <2> QED BY <1>1, <1>15, <2>1, <2>2, <2>3, PermKeeps DEF BundleLeftovers
<1>16. CASE BundleAssigns
  BY <1>16, AssignsKeeps DEF BundleAssigns, PermStages
<1> QED BY <1>5, <1>6, <1>7, <1>8, <1>9, <1>10, <1>11, <1>12, <1>13, <1>14, <1>15, <1>16

-----------------------------------------------------------------------------
(* A tool starts, and ends.                                                *)

\* A tool that begins on a complete image keeps LayoutInv.
LEMMA BeginsKeeps ==
  ASSUME LayoutInv, NEW t, NEW at, at \in PermStages \cup {"write", "stride"}, Begins(t, at), ToolInput'
  PROVE  LayoutInv'
<1>1. stage' = at /\ stage' \notin {"idle", "vectors", "records", "entry", "files"}
  BY DEF Begins, PermStages
<1>2. LayoutTypes'
  <2>1. Vertices' = Vertices
    BY DEF Vertices, Begins
  <2> QED BY <2>1 DEF LayoutInv, LayoutTypes, Begins, copyVars
<1>3. OnceOrdered'
  BY EmptyInjective DEF OnceOrdered, Begins
<1>4. ImagesOk'
  BY <1>1 DEF LayoutInv, ImagesOk, Begins
<1>5. Copying'
  BY <1>1 DEF Copying
<1> QED BY <1>2, <1>3, <1>4, <1>5 DEF LayoutInv

\* An image with a graph of its own is of version 1.
LEMMA GraphMeansOne ==
  ASSUME NEW h, HeaderOk(raw, h)
  PROVE  /\ h.version \in {1, 2} /\ h.len_graph # 0 => h.version = 1
         /\ h.version # 1 => h.len_pq = 0 /\ h.len_graph = 0
BY DEF HeaderOk, HeaderTypes, RecordsOnly

\* Every tool's start does.
LEMMA StartsKeep ==
  ASSUME LayoutInv,
         BfsStarts \/ PagebinStarts \/ BundleStarts \/ PagealignStarts \/ DiskannStarts \/ NbrStarts \/ DegreeStarts \/ NavStarts
  PROVE  LayoutInv'
<1> USE DEF Bfs, Renumbers, Pagebin, Bundle, Pagealign, Diskann, Nbr, Degree, Nav, PermStages
<1>1. Vertices' = Vertices /\ raw' = raw /\ img' = img
  BY DEF Vertices, Begins, BfsStarts, PagebinStarts, BundleStarts, PagealignStarts, DiskannStarts, NbrStarts, DegreeStarts, NavStarts
<1>2. (img # NoImage \/ BfsStarts) => (\A uu \in Vertices : Len(raw.graph[uu]) = raw.R)'
  BY <1>1 DEF LayoutInv, ToolInput, BfsStarts
<1>3. CASE BfsStarts
  <2>1. Begins([name |-> "bfs"], "assign")
    BY <1>3 DEF BfsStarts
  <2>2. ToolInput'
    BY <1>2, <1>3, <2>1 DEF ToolInput, Begins
  <2> QED BY <2>1, <2>2, BeginsKeeps
<1>4. CASE PagebinStarts
  <2>1. PICK only \in BOOLEAN : Begins([name |-> "pagebin", metrics_only |-> only], "assign")
    BY <1>4 DEF PagebinStarts
  <2>2. img # NoImage /\ img.hdr.version = 1
    BY <1>4, ImageAt, GraphMeansOne DEF PagebinStarts
  <2>3. ToolInput'
    BY <1>1, <1>2, <2>1, <2>2 DEF ToolInput, Begins
  <2> QED BY <2>1, <2>3, BeginsKeeps
<1>5. CASE BundleStarts
  <2>1. PICK mode \in {"map", "trace", "blocks"}, only \in BOOLEAN : Begins([name |-> "bundle", mode |-> mode, metrics_only |-> only], "depth")
    BY <1>5 DEF BundleStarts
  <2>2. img # NoImage /\ img.hdr.version = 1
    BY <1>5, ImageAt, GraphMeansOne DEF BundleStarts
  <2>3. ToolInput'
    BY <1>1, <1>2, <2>1, <2>2 DEF ToolInput, Begins
  <2> QED BY <2>1, <2>3, BeginsKeeps
<1>6. CASE PagealignStarts
  <2>1. PICK st \in PageStrides : raw.packed <= st /\ Begins([name |-> "pagealign", stride |-> st], "write")
    BY <1>6 DEF PagealignStarts
  <2>2. st \in Nat
    BY PagealignConstants
  <2>3. tool'.stride = st /\ tool'.name = "pagealign" /\ stage' = "write"
    BY <2>1 DEF Begins
  <2>4. ToolInput'
    BY <1>1, <1>2, <1>6, <2>1, <2>2, <2>3 DEF ToolInput, Begins, PagealignStarts
  <2> QED BY <2>1, <2>4, BeginsKeeps
<1>7. CASE DiskannStarts
  <2>1. PICK want \in Strides : Begins([name |-> "diskann", stride |-> IF want = 0 THEN 4096 ELSE want], "stride")
    BY <1>7 DEF DiskannStarts
  <2>2. want \in Nat
    BY DiskannConstants
  <2>3. IsMapOn(tool', {"name", "stride"}) /\ tool'.stride \in Nat /\ tool'.name = "diskann" /\ stage' = "stride"
    BY <2>1, <2>2 DEF Begins, IsMapOn
  <2>4. img # NoImage /\ img.hdr.version = 1
    BY <1>7 DEF DiskannStarts
  <2>5. ToolInput'
    BY <1>1, <1>2, <2>3, <2>4 DEF ToolInput
  <2> QED BY <2>1, <2>5, BeginsKeeps
<1>8. CASE NbrStarts
  <2>1. Begins([name |-> "nbr_bundle"], "write")
    BY <1>8 DEF NbrStarts
  <2>2. ToolInput'
    BY <1>1, <1>2, <1>8, <2>1 DEF ToolInput, Begins, NbrStarts
  <2> QED BY <2>1, <2>2, BeginsKeeps
<1>9. CASE DegreeStarts
  <2>1. Begins([name |-> "degree"], "write")
    BY <1>9 DEF DegreeStarts
  <2>2. ToolInput'
    BY <1>1, <1>2, <1>9, <2>1 DEF ToolInput, Begins, DegreeStarts
  <2> QED BY <2>1, <2>2, BeginsKeeps
<1>10. CASE NavStarts
  <2>1. Begins([name |-> "nav"], "write")
    BY <1>10 DEF NavStarts
  <2>2. img # NoImage /\ img.hdr.version = 2
    <3>1. img # NoImage /\ diskann_layout(img.hdr)
      BY <1>10 DEF NavStarts
    <3>2. HeaderOk(raw, img.hdr) /\ raw \in Raws /\ 0 \in Vertices
      BY <3>1, ImageAt, RawIs
    <3> QED BY <3>1, <3>2, PlacedIs
  <2>3. ToolInput'
    BY <1>1, <1>2, <2>1, <2>2 DEF ToolInput, Begins
  <2> QED BY <2>1, <2>3, BeginsKeeps
<1> QED BY <1>3, <1>4, <1>5, <1>6, <1>7, <1>8, <1>9, <1>10

\* The stride grows until a record fits.
LEMMA StrideKeeps ==
  ASSUME LayoutInv, diskann_stride_for
  PROVE  LayoutInv'
<1> USE DEF Bfs, Renumbers, Pagebin, Bundle, Pagealign, Diskann, Nbr, Degree, Nav
<1>1. Diskann /\ stage = "stride" /\ UNCHANGED <<raw, img, out, made, permVars, copyVars>> /\ stage' \in {"stride", "write"}
  BY DEF diskann_stride_for
<1>2. img # NoImage /\ img.hdr.version = 1 /\ IsMapOn(tool, {"name", "stride"}) /\ tool.stride \in Nat
  BY <1>1 DEF LayoutInv, ToolInput
<1>3. /\ IsMapOn(tool', {"name", "stride"}) /\ tool'.stride \in Nat /\ tool'.name = "diskann"
      /\ stage' = "write" => tool'.stride >= diskann_payload_bytes(img.hdr)
  <2>1. CASE tool.stride < diskann_payload_bytes(img.hdr)
    <3>1. tool' = [tool EXCEPT !.stride = 2 * tool.stride] /\ stage' = "stride"
      BY <1>1, <2>1 DEF diskann_stride_for
    <3>2. DOMAIN tool = {"name", "stride"}
      BY <1>2 DEF IsMapOn
    <3>3. tool'.stride = 2 * tool.stride /\ tool'.name = tool.name /\ DOMAIN tool' = {"name", "stride"}
      BY <3>1, <3>2
    <3>4. IsMapOn(tool', {"name", "stride"})
      BY <3>1, <3>2 DEF IsMapOn
    <3> QED BY <1>1, <1>2, <3>1, <3>3, <3>4
  <2>2. CASE ~(tool.stride < diskann_payload_bytes(img.hdr))
    <3>1. tool' = tool
      BY <2>2 DEF diskann_stride_for
    <3>2. diskann_payload_bytes(img.hdr) \in Nat
      BY <1>2, ImageAt, HeaderNats DEF diskann_payload_bytes
    <3> QED BY <1>1, <1>2, <2>2, <3>1, <3>2
  <2> QED BY <2>1, <2>2
<1>4. Vertices' = Vertices
  BY <1>1 DEF Vertices
<1>5. LayoutTypes'
  BY <1>1, <1>4 DEF LayoutInv, LayoutTypes, permVars, copyVars
<1>6. ToolInput'
  <2>1. (\A uu \in Vertices : Len(raw.graph[uu]) = raw.R)'
    BY <1>1, <1>4 DEF LayoutInv, ToolInput
  <2>2. img' = img
    BY <1>1
  <2> QED BY <1>2, <1>3, <2>1, <2>2 DEF ToolInput
<1>7. OnceOrdered' /\ Copying'
  BY <1>1, <1>3 DEF LayoutInv, OnceOrdered, Copying, permVars
<1>8. ImagesOk'
  BY <1>1 DEF LayoutInv, ImagesOk
<1> QED BY <1>5, <1>6, <1>7, <1>8 DEF LayoutInv

\* A tool that leaves a good image keeps LayoutInv.
LEMMA EndsKeep ==
  ASSUME LayoutInv, stage \notin {"idle", "visit"}, NEW im, DataOk(raw, im), ToolEnds(im)
  PROVE  LayoutInv'
<1>1. stage' = "idle" /\ img' = im /\ UNCHANGED <<raw, out, tool, permVars, copyVars>>
  BY DEF ToolEnds
<1>2. Vertices' = Vertices
  BY <1>1 DEF Vertices
<1>3. LayoutTypes'
  BY <1>1, <1>2 DEF LayoutInv, LayoutTypes, permVars, copyVars
<1>4. ToolInput'
  <2>1. (\A uu \in Vertices : Len(raw.graph[uu]) = raw.R)'
    BY <1>1, <1>2 DEF LayoutInv, ToolInput
  <2> QED BY <1>1, <2>1 DEF ToolInput
<1>5. OnceOrdered'
  BY <1>1 DEF LayoutInv, OnceOrdered, permVars
<1>6. ImagesOk' /\ Copying'
  BY <1>1 DEF ImagesOk, Copying
<1> QED BY <1>3, <1>4, <1>5, <1>6 DEF LayoutInv

\* So does one that gives up.
LEMMA QuitsKeep ==
  ASSUME LayoutInv, stage = "rest", Quits
  PROVE  LayoutInv'
<1>1. stage' = "idle" /\ UNCHANGED <<raw, img, out, tool, permVars, copyVars>>
  BY DEF Quits
<1>2. Vertices' = Vertices
  BY <1>1 DEF Vertices
<1>3. LayoutTypes'
  BY <1>1, <1>2 DEF LayoutInv, LayoutTypes, permVars, copyVars
<1>4. ToolInput'
  <2>1. (\A uu \in Vertices : Len(raw.graph[uu]) = raw.R)'
    BY <1>1, <1>2 DEF LayoutInv, ToolInput
  <2> QED BY <1>1, <2>1 DEF ToolInput
<1>5. OnceOrdered'
  BY <1>1 DEF LayoutInv, OnceOrdered, permVars
<1>6. ImagesOk' /\ Copying'
  BY <1>1 DEF LayoutInv, ImagesOk, Copying
<1> QED BY <1>3, <1>4, <1>5, <1>6 DEF LayoutInv

\* Only header and entry list changed: the data is as good as before.
LEMMA SameData ==
  ASSUME NEW r, NEW a, NEW b, DataOk(r, a), IsMapOn(b, ImageFields), HeaderOk(r, b.hdr), b.entries \in Seq(IdsOf(r)),
         b.hdr.version = a.hdr.version, b.hdr.entry_id = a.hdr.entry_id,
         \A f \in ImageFields \ {"hdr", "entries"} : b[f] = a[f]
  PROVE  DataOk(r, b)
<1>1. /\ b.graph = a.graph /\ b.vec = a.vec /\ b.pq = a.pq /\ b.gfile = a.gfile /\ b.map = a.map
      /\ b.from = a.from /\ b.bundle = a.bundle /\ b.nav = a.nav
  BY DEF ImageFields
<1>2. EdgesKept(r, a) => EdgesKept(r, b)
  BY <1>1 DEF EdgesKept
<1>3. Copied(r, b) /\ SamplesOf(r, b) /\ MadeFrom(r, b)
  BY <1>1, ZenonT(60) DEF DataOk, Copied, SamplesOf, MadeFrom
<1> QED BY <1>1, <1>2, <1>3 DEF DataOk

\* The header with another number of entry nodes.
LEMMA HeaderCounts ==
  ASSUME raw \in Raws, NEW h, HeaderOk(raw, h), NEW k \in Nat
  PROVE  /\ HeaderOk(raw, [h EXCEPT !.entry_nodes = k])
         /\ [h EXCEPT !.entry_nodes = k].version = h.version
         /\ [h EXCEPT !.entry_nodes = k].entry_id = h.entry_id
         /\ [h EXCEPT !.entry_nodes = k].entry_nodes = k
<1> DEFINE g == [h EXCEPT !.entry_nodes = k]
<1>1. DOMAIN h = HeaderFields /\ \A f \in HeaderFields : h[f] \in Nat
  BY DEF HeaderOk, HeaderTypes
<1>2. DOMAIN g = HeaderFields /\ g.entry_nodes = k /\ \A f \in HeaderFields \ {"entry_nodes"} : g[f] = h[f]
  BY <1>1 DEF HeaderFields
<1> HIDE DEF g
<1>3. /\ g.n = h.n /\ g.R = h.R /\ g.packed = h.packed /\ g.pq_bytes = h.pq_bytes /\ g.version = h.version
      /\ g.entry_id = h.entry_id /\ g.len_vectors = h.len_vectors /\ g.off_vectors = h.off_vectors
      /\ g.off_pq = h.off_pq /\ g.len_pq = h.len_pq /\ g.off_graph = h.off_graph /\ g.len_graph = h.len_graph
      /\ g.off_pivots = h.off_pivots /\ g.len_pivots = h.len_pivots
  BY <1>2 DEF HeaderFields, Offsets
<1>4. vec_stride(g) = vec_stride(h) /\ diskann_payload_bytes(g) = diskann_payload_bytes(h)
  BY <1>3 DEF vec_stride, diskann_payload_bytes
<1>5. \A f \in HeaderFields : g[f] \in Nat
  BY <1>1, <1>2
<1>6. HeaderTypes(raw, g)
  BY <1>2, <1>3, <1>5 DEF HeaderOk, HeaderTypes
<1>7. IF g.version = 1 THEN FourRegions(g) ELSE RecordsOnly(g)
  BY <1>3, <1>4 DEF HeaderOk, FourRegions, RecordsOnly
<1>8. HeaderOk(raw, g)
  BY <1>3, <1>4, <1>6, <1>7 DEF HeaderOk
<1> QED BY <1>2, <1>3, <1>8 DEF g

\* When the threads have joined the image is what it was to become.
LEMMA JoinedIs ==
  ASSUME LayoutInv, Joined, ~Diskann
  PROVE  out = Goal /\ DataOk(raw, out)
<1>1. stage = "vectors" /\ \A t \in Threads : ticket[t] = Gone
  BY DEF Joined
<1>2. next_id >= raw.n
  BY <1>1, LayoutConstants DEF LayoutInv, Copying
<1>3. raw.n \in Nat /\ next_id \in Nat
  BY RawIs DEF LayoutInv, LayoutTypes
<1>4. \A i \in Vertices : i < next_id
  BY <1>2, <1>3 DEF Vertices
<1>5. \A i \in Vertices : OutWritten(i)
  BY <1>1, <1>4 DEF LayoutInv, Copying
<1>6. IsMapOn(out, ImageFields) /\ DataOk(raw, Goal)
  BY <1>1 DEF LayoutInv, ImagesOk
<1>7. out = Goal
  <2>1. CASE Nbr
    <3>1. out.bundle = [uu \in Vertices |-> out.bundle[uu]]
      BY <1>1, <2>1 DEF LayoutInv, Copying, IsMapOn
    <3>2. \A uu \in Vertices : out.bundle[uu] = WantBundle[uu]
      BY <1>5, <2>1 DEF OutWritten
    <3>3. WantBundle = [uu \in Vertices |-> WantBundle[uu]]
      BY DEF WantBundle
    <3>4. out.bundle = WantBundle
      BY <3>1, <3>2, <3>3
    <3>5. Goal = [out EXCEPT !.bundle = WantBundle]
      BY <2>1 DEF Goal
    <3> QED BY <3>4, <3>5, <1>6 DEF IsMapOn, ImageFields
  <2>2. CASE ~Nbr
    <3>1. out.vec = [uu \in Vertices |-> out.vec[uu]]
      BY <1>1, <2>2 DEF LayoutInv, Copying, IsMapOn
    <3>2. \A uu \in Vertices : out.vec[uu] = WantVec[uu]
      BY <1>5, <2>2 DEF OutWritten
    <3>5. Goal = [out EXCEPT !.vec = WantVec]
      BY <2>2 DEF Goal
    <3>6. Goal.vec = WantVec
      BY <3>5, <1>6 DEF IsMapOn, ImageFields
    <3>7. Goal.vec \in [Vertices -> Vertices]
      BY <1>6 DEF DataOk, IdsOf, Vertices
    <3>3. WantVec = [uu \in Vertices |-> WantVec[uu]]
      BY <3>6, <3>7
    <3>4. out.vec = WantVec
      BY <3>1, <3>2, <3>3
    <3> QED BY <3>4, <3>5, <1>6 DEF IsMapOn, ImageFields
  <2> QED BY <2>1, <2>2
<1> QED BY <1>6, <1>7

\* The last files of a tool complete its image.
LEMMA FilesKeep ==
  ASSUME LayoutInv, BfsFiles \/ PagebinFiles \/ BundleFiles \/ PagealignEnds \/ DiskannEnds \/ NbrEnds
  PROVE  LayoutInv'
<1>1. raw \in Raws
  BY DEF LayoutInv, LayoutTypes
<1>2. CASE BfsFiles
  <2>1. stage = "files" /\ DataOk(raw, out) /\ ToolEnds(out)
    BY <1>2 DEF LayoutInv, ImagesOk, BfsFiles
  <2> QED BY <2>1, EndsKeep
<1>3. CASE PagebinFiles \/ BundleFiles
  <2> DEFINE im == [out EXCEPT !.hdr.entry_nodes = Len(out.entries)]
             g == [out.hdr EXCEPT !.entry_nodes = Len(out.entries)]
  <2>1. stage = "entry" /\ ToolEnds(im)
    BY <1>3 DEF PagebinFiles, BundleFiles, EntryDone
  <2>2. DataOk(raw, out)
    BY <2>1 DEF LayoutInv, ImagesOk
  <2>3. Len(out.entries) \in Nat /\ IsMapOn(out, ImageFields) /\ HeaderOk(raw, out.hdr) /\ out.entries \in Seq(IdsOf(raw))
    BY <2>2 DEF DataOk
  <2>4. HeaderOk(raw, g) /\ g.version = out.hdr.version /\ g.entry_id = out.hdr.entry_id
    BY <1>1, <2>3, HeaderCounts
  <2>5. im = [out EXCEPT !.hdr = g]
    OBVIOUS
  <2> HIDE DEF im, g
  <2>6. IsMapOn(im, ImageFields) /\ im.hdr = g /\ \A f \in ImageFields \ {"hdr"} : im[f] = out[f]
    BY <2>3, <2>5 DEF IsMapOn, ImageFields
  <2>7. im.entries = out.entries /\ \A f \in ImageFields \ {"hdr", "entries"} : im[f] = out[f]
    BY <2>6 DEF ImageFields
  <2>8. DataOk(raw, im)
    BY <2>2, <2>3, <2>4, <2>6, <2>7, SameData
  <2> QED BY <2>1, <2>8, EndsKeep
<1>4. CASE PagealignEnds \/ NbrEnds
  <2>1. Joined /\ ~Diskann /\ ToolEnds(out)
    BY <1>4 DEF PagealignEnds, NbrEnds, Pagealign, Nbr, Diskann
  <2>2. stage = "vectors"
    BY <2>1 DEF Joined
  <2> QED BY <2>1, <2>2, JoinedIs, EndsKeep
<1>5. CASE DiskannEnds
  <2>1. Diskann /\ stage = "records" /\ next_id = raw.n /\ ToolEnds(out)
    BY <1>5 DEF DiskannEnds
  <2>2. ~Nbr
    BY <2>1 DEF Diskann, Nbr
  <2>3. Goal = [out EXCEPT !.vec = img.vec, !.graph = img.gfile] /\ IsMapOn(out, ImageFields) /\ DataOk(raw, Goal)
    BY <2>1, <2>2 DEF Goal, LayoutInv, ImagesOk
  <2>4. \A i \in Vertices : out.vec[i] = img.vec[i] /\ out.graph[i] = img.gfile[i]
    <3>1. \A i \in Vertices : i < next_id
      BY <1>1, <2>1, RawIs DEF Vertices
    <3> QED BY <2>1, <3>1 DEF LayoutInv, Copying
  <2>5. out.vec = [i \in Vertices |-> out.vec[i]] /\ out.graph = [i \in Vertices |-> out.graph[i]]
    BY <2>1 DEF LayoutInv, Copying, IsMapOn
  <2>6. img.vec = [i \in Vertices |-> img.vec[i]] /\ img.gfile = [i \in Vertices |-> img.gfile[i]]
    <3>1. Goal.vec = img.vec /\ Goal.graph = img.gfile
      BY <2>3 DEF IsMapOn, ImageFields
    <3>2. Goal.vec \in [Vertices -> Vertices] /\ Goal.graph \in [Vertices -> [1 .. raw.R -> Vertices]]
      BY <2>3 DEF DataOk, IdsOf, Vertices, FullRows
    <3> QED BY <3>1, <3>2
  <2>7. out.vec = img.vec /\ out.graph = img.gfile
    BY <2>4, <2>5, <2>6
  <2>8. out = Goal
    BY <2>3, <2>7 DEF IsMapOn, ImageFields
  <2> QED BY <2>1, <2>3, <2>8, EndsKeep
<1> QED BY <1>2, <1>3, <1>4, <1>5

\* A step that changes nothing keeps LayoutInv.
LEMMA IdleKeeps ==
  ASSUME LayoutInv, UNCHANGED layoutVars
  PROVE  LayoutInv'
<1>1. UNCHANGED <<raw, img, out, tool, made, stage, order, queue, mark, todo, heap, next_id, ticket>>
  BY DEF layoutVars, permVars, copyVars
<1>2. Vertices' = Vertices
  BY <1>1 DEF Vertices
<1>3. LayoutTypes'
  BY <1>1, <1>2 DEF LayoutInv, LayoutTypes
<1>4. ToolInput'
  BY <1>1, <1>2 DEF LayoutInv, ToolInput, Bfs, Renumbers, Pagebin, Bundle, Pagealign, Diskann, Nbr, Degree, Nav
<1>5. OnceOrdered'
  BY <1>1 DEF LayoutInv, OnceOrdered, Bundle
<1>6. Nbr' = Nbr /\ Diskann' = Diskann /\ Renumbers' = Renumbers /\ WantVec' = WantVec /\ WantBundle' = WantBundle
  BY <1>1, <1>2 DEF Nbr, Diskann, WantVec, WantBundle, Renumbers, Pagebin, Bundle
<1>7. ImagesOk'
  <2>1. Goal' = Goal
    BY <1>1, <1>6 DEF Goal
  <2> QED BY <1>1, <2>1 DEF LayoutInv, ImagesOk
<1>8. Copying'
  <2>1. \A i : OutWritten(i)' = OutWritten(i)
    BY <1>1, <1>6 DEF OutWritten
  <2> QED BY <1>1, <1>2, <1>6, <2>1 DEF LayoutInv, Copying
<1> QED BY <1>3, <1>4, <1>5, <1>7, <1>8 DEF LayoutInv

\* A step of the search for the entry list.
LEMMA EntryFrame ==
  ASSUME LayoutInv, UNCHANGED <<raw, img, tool, made, order, heap, copyVars>>, stage \in {"vectors", "entry"}, stage' = "entry",
         queue' \in Seq(Vertices), mark' \subseteq Vertices, todo' \in Seq(Nat), DataOk(raw, out')
  PROVE  LayoutInv'
<1>1. Vertices' = Vertices
  BY DEF Vertices
<1>2. LayoutTypes'
  BY <1>1 DEF LayoutInv, LayoutTypes, copyVars
<1>3. ToolInput'
  <2>1. (\A uu \in Vertices : Len(raw.graph[uu]) = raw.R)'
    BY <1>1 DEF LayoutInv, ToolInput
  <2> QED BY <2>1 DEF LayoutInv, ToolInput, Bfs, Renumbers, Pagebin, Bundle, Pagealign, Diskann, Nbr, Degree, Nav
<1>4. OnceOrdered'
  BY DEF LayoutInv, OnceOrdered
<1>5. ImagesOk'
  BY DEF LayoutInv, ImagesOk
<1>6. Copying'
  BY DEF LayoutInv, Copying
<1> QED BY <1>2, <1>3, <1>4, <1>5, <1>6 DEF LayoutInv

\* The search for the entry list touches nothing else.
LEMMA EntryKeeps ==
  ASSUME LayoutInv, PagebinEntry \/ BundleEntry
  PROVE  LayoutInv'
<1>1. raw \in Raws /\ todo \in Seq(Nat) /\ queue \in Seq(Vertices) /\ mark \subseteq Vertices
  BY DEF LayoutInv, LayoutTypes
<1>2. ~Diskann
  BY DEF PagebinEntry, BundleEntry, Pagebin, Bundle, Diskann
<1>3. IdsOf(raw) = Vertices
  BY DEF IdsOf, Vertices
<1>4. CASE Joined /\ EntryBegins(out.hdr.entry_id)
  <2>1. DataOk(raw, out)
    BY <1>2, <1>4, JoinedIs
  <2>2. out.hdr.entry_id \in Vertices
    BY <1>3, <2>1 DEF DataOk
  <2>3. queue' \in Seq(Vertices) /\ mark' \subseteq Vertices /\ todo' \in Seq(Nat)
    BY <1>4, <2>2, OneSeq DEF EntryBegins
  <2>4. stage = "vectors" /\ stage' = "entry" /\ out' = out
    BY <1>4 DEF Joined, EntryBegins
  <2> QED BY <1>4, <2>1, <2>3, <2>4, EntryFrame DEF EntryBegins
<1>5. ASSUME NEW limit, EntryVisits(limit)
      PROVE  LayoutInv'
  <2>1. stage = "entry" /\ stage' = "entry"
    BY <1>5 DEF EntryVisits
  <2>2. DataOk(raw, out)
    BY <2>1 DEF LayoutInv, ImagesOk
  <2>3. Head(queue) \in Vertices /\ queue' \in Seq(Vertices)
    BY <1>1, <1>5, HeadTail DEF EntryVisits
  <2>4. todo' \in Seq(Nat)
    <3>1. out.graph[Head(queue)] \in [1 .. raw.R -> Vertices]
      BY <1>3, <2>2, <2>3 DEF DataOk, FullRows
    <3> QED BY <1>1, <1>5, <3>1, RowSeq DEF EntryVisits
  <2>5. IsMapOn(out, ImageFields) /\ HeaderOk(raw, out.hdr) /\ out.entries \in Seq(Vertices)
    BY <1>3, <2>2 DEF DataOk
  <2> DEFINE l == Append(out.entries, Head(queue))
  <2>6. out' = [out EXCEPT !.entries = l] /\ l \in Seq(Vertices)
    BY <1>5, <2>3, <2>5, AppendProperties DEF EntryVisits
  <2> HIDE DEF l
  <2>7. IsMapOn(out', ImageFields) /\ out'.entries = l /\ out'.hdr = out.hdr
        /\ \A f \in ImageFields \ {"hdr", "entries"} : out'[f] = out[f]
    BY <2>5, <2>6 DEF IsMapOn, ImageFields
  <2>8. DataOk(raw, out')
    BY <1>3, <2>2, <2>5, <2>6, <2>7, SameData
  <2> QED BY <1>1, <1>5, <2>1, <2>3, <2>4, <2>8, EntryFrame DEF EntryVisits
<1>6. CASE EntryNeighbour
  <2>1. stage = "entry" /\ stage' = "entry" /\ out' = out
    BY <1>6 DEF EntryNeighbour
  <2>2. DataOk(raw, out)
    BY <2>1 DEF LayoutInv, ImagesOk
  <2>3. queue' \in Seq(Vertices) /\ mark' \subseteq Vertices /\ todo' \in Seq(Nat)
    BY <1>1, <1>6, QueuesIs DEF EntryNeighbour
  <2> QED BY <1>6, <2>1, <2>2, <2>3, EntryFrame DEF EntryNeighbour
<1> QED BY <1>4, <1>5, <1>6 DEF PagebinEntry, BundleEntry

-----------------------------------------------------------------------------
(* The threads copy.                                                       *)

\* What the threads are to write depends on the input alone.
LEMMA WantsStay ==
  ASSUME UNCHANGED <<raw, img, tool, order>>
  PROVE  /\ Vertices' = Vertices /\ Nbr' = Nbr /\ Diskann' = Diskann /\ WantVec' = WantVec /\ WantBundle' = WantBundle
         /\ Renumbers' = Renumbers
<1>1. Vertices' = Vertices
  BY DEF Vertices
<1> QED BY <1>1 DEF Nbr, Diskann, WantVec, WantBundle, Renumbers, Pagebin, Bundle

\* A thread's step keeps LayoutInv when it keeps what is copied right.
LEMMA ThreadFrame ==
  ASSUME LayoutInv, UNCHANGED <<raw, img, tool, made, stage, permVars>>, stage \in {"vectors", "records"},
         IsMapOn(out', ImageFields), Goal' = Goal,
         next_id' \in Nat, ticket' \in [Threads -> Nat \cup {Take, Gone}], Copying'
  PROVE  LayoutInv'
<1>0. UNCHANGED <<order, queue, mark, todo, heap>>
  BY DEF permVars
<1>1. Vertices' = Vertices
  BY DEF Vertices
<1>2. LayoutTypes'
  BY <1>0, <1>1 DEF LayoutInv, LayoutTypes
<1>3. ToolInput'
  <2>1. (\A uu \in Vertices : Len(raw.graph[uu]) = raw.R)'
    BY <1>1 DEF LayoutInv, ToolInput
  <2> QED BY <2>1 DEF LayoutInv, ToolInput, Bfs, Renumbers, Pagebin, Bundle, Pagealign, Diskann, Nbr, Degree, Nav
<1>4. OnceOrdered'
  BY <1>0 DEF LayoutInv, OnceOrdered, Bundle
<1>5. ImagesOk'
  BY DEF LayoutInv, ImagesOk
<1> QED BY <1>2, <1>3, <1>4, <1>5 DEF LayoutInv

\* Drawing a ticket does.
LEMMA TakesKeeps ==
  ASSUME LayoutInv, NEW t \in Threads, TakesChunk(t)
  PROVE  LayoutInv'
<1>1. /\ stage = "vectors" /\ ticket[t] = Take /\ next_id' = next_id + KChunk
      /\ ticket' = [ticket EXCEPT ![t] = IF next_id >= raw.n THEN Gone ELSE next_id]
      /\ UNCHANGED <<raw, img, out, tool, made, stage, permVars>>
  BY DEF TakesChunk
<1>2. raw.n \in Nat /\ next_id \in Nat /\ KChunk \in Nat /\ KChunk > 0 /\ ticket \in [Threads -> Nat \cup {Take, Gone}]
  BY RawIs, LayoutConstants DEF LayoutInv, LayoutTypes
<1>3. next_id' \in Nat /\ ticket' \in [Threads -> Nat \cup {Take, Gone}]
  BY <1>1, <1>2
<1>4. UNCHANGED <<raw, img, tool, order>> /\ out' = out
  BY <1>1 DEF permVars
<1>5. Goal' = Goal
  BY <1>4, WantsStay DEF Goal
<1>6. IsMapOn(out', ImageFields)
  BY <1>1 DEF LayoutInv, ImagesOk
<1>7. Vertices' = Vertices /\ \A i : OutWritten(i)' = OutWritten(i)
  BY <1>4, WantsStay DEF OutWritten
<1>8. (\E uu \in Threads : ticket[uu] = Gone)' => next_id' >= raw.n
  <2>1. (\E uu \in Threads : ticket[uu] = Gone) => next_id >= raw.n
    BY <1>1 DEF LayoutInv, Copying
  <2>2. next_id # Gone
    BY <1>2 DEF Gone
  <2> QED BY <1>1, <1>2, <2>1, <2>2
<1>9. ASSUME NEW i \in Vertices, i < next_id', ~OutWritten(i)
      PROVE  \E uu \in Threads : ticket'[uu] # Take /\ ticket'[uu] # Gone /\ ticket'[uu] <= i /\ i < ticket'[uu] + KChunk
  <2>1. i \in Nat /\ i < raw.n
    BY <1>2 DEF Vertices
  <2>2. CASE i < next_id
    <3>1. PICK uu \in Threads : ticket[uu] # Take /\ ticket[uu] # Gone /\ ticket[uu] <= i /\ i < ticket[uu] + KChunk
      BY <1>1, <1>9, <2>2 DEF LayoutInv, Copying
    <3>2. uu # t
      BY <1>1, <3>1
    <3>3. ticket'[uu] = ticket[uu]
      BY <1>1, <1>2, <3>2
    <3> QED BY <3>1, <3>3
  <2>3. CASE i >= next_id
    <3>1. ticket'[t] = next_id
      BY <1>1, <1>2, <2>1, <2>3
    <3>2. next_id # Take /\ next_id # Gone
      BY <1>2 DEF Take, Gone
    <3> QED BY <1>1, <1>2, <1>9, <2>3, <3>1, <3>2
  <2> QED BY <1>2, <2>1, <2>2, <2>3
<1>10. Copying'
  BY <1>1, <1>4, <1>7, <1>8, <1>9, WantsStay DEF LayoutInv, Copying
<1> QED BY <1>1, <1>3, <1>5, <1>6, <1>10, ThreadFrame

\* The last of two writes of a field counts.
LEMMA Overwrites ==
  ASSUME NEW o, NEW a, NEW b
  PROVE  /\ [[o EXCEPT !.vec = a] EXCEPT !.vec = b] = [o EXCEPT !.vec = b]
         /\ [[o EXCEPT !.bundle = a] EXCEPT !.bundle = b] = [o EXCEPT !.bundle = b]
OBVIOUS

\* A chunk is copied: the rest of what the tool writes is left alone.
LEMMA CopyDone ==
  ASSUME LayoutInv, NEW t \in Threads, stage = "vectors", ticket[t] >= 0, ticket[t] # Take, ticket[t] # Gone,
         UNCHANGED <<raw, img, tool, made, stage, permVars, next_id>>,
         ticket' = [ticket EXCEPT ![t] = Take], IsMapOn(out', ImageFields), Goal' = Goal,
         IF Nbr THEN IsMapOn(out'.bundle, Vertices) ELSE IsMapOn(out'.vec, Vertices),
         \A i \in Vertices : OutWritten(i) => OutWritten(i)',
         \A i \in Vertices : ticket[t] <= i /\ i < ticket[t] + KChunk => OutWritten(i)'
  PROVE  LayoutInv'
<1>1. ticket \in [Threads -> Nat \cup {Take, Gone}] /\ next_id \in Nat
  BY DEF LayoutInv, LayoutTypes
<1>2. next_id' \in Nat /\ ticket' \in [Threads -> Nat \cup {Take, Gone}]
  BY <1>1
<1>3. Vertices' = Vertices /\ Nbr' = Nbr /\ Renumbers' = Renumbers /\ order' = order
  BY WantsStay DEF permVars
<1>4. (\E uu \in Threads : ticket[uu] = Gone)' => next_id' >= raw.n
  <2>1. (\E uu \in Threads : ticket[uu] = Gone) => next_id >= raw.n
    BY DEF LayoutInv, Copying
  <2> QED BY <1>1, <2>1 DEF Take, Gone
<1>5. ASSUME NEW i \in Vertices, i < next_id', ~OutWritten(i)'
      PROVE  \E uu \in Threads : ticket'[uu] # Take /\ ticket'[uu] # Gone /\ ticket'[uu] <= i /\ i < ticket'[uu] + KChunk
  <2>1. ~OutWritten(i) /\ i < next_id
    BY <1>5
  <2>2. PICK uu \in Threads : ticket[uu] # Take /\ ticket[uu] # Gone /\ ticket[uu] <= i /\ i < ticket[uu] + KChunk
    BY <2>1 DEF LayoutInv, Copying
  <2>3. uu # t
    BY <1>5, <2>2
  <2>4. ticket'[uu] = ticket[uu]
    BY <1>1, <2>3
  <2> QED BY <2>2, <2>4
<1>6. Copying'
  BY <1>3, <1>4, <1>5 DEF LayoutInv, Copying
<1> QED BY <1>2, <1>6, ThreadFrame

\* The ids of a chunk.
LEMMA ChunkIs ==
  ASSUME raw \in Raws, NEW a \in Nat, NEW i \in Vertices, a <= i, i < a + KChunk
  PROVE  i \in a .. Min({a + KChunk, raw.n}) - 1
<1>1. raw.n \in Nat /\ KChunk \in Nat
  BY RawIs, LayoutConstants
<1>2. Min({a + KChunk, raw.n}) = IF a + KChunk <= raw.n THEN a + KChunk ELSE raw.n
  <2>1. a + KChunk \in Nat
    BY <1>1
  <2> QED BY <1>1, <2>1, MinOfTwo
<1> QED BY <1>1, <1>2 DEF Vertices

\* A thread that copies the chunk it drew writes what the image should hold.
LEMMA CopiesKeeps ==
  ASSUME LayoutInv, NEW t \in Threads, NEW from_ids, CopiesChunk(t, from_ids), ~Nbr, ~Diskann,
         \A i \in Vertices : VecAt(img, from_ids[i]) = WantVec[i]
  PROVE  LayoutInv'
<1> DEFINE chunk == ticket[t] .. Min({ticket[t] + KChunk, raw.n}) - 1
           nv == [ni \in Vertices |-> IF ni \in chunk THEN VecAt(img, from_ids[ni]) ELSE out.vec[ni]]
<1>1. /\ stage = "vectors" /\ ticket[t] >= 0 /\ out' = [out EXCEPT !.vec = nv]
      /\ ticket' = [ticket EXCEPT ![t] = Take]
      /\ UNCHANGED <<raw, img, tool, made, stage, permVars, next_id>>
  BY DEF CopiesChunk
<1>2. raw \in Raws /\ ticket[t] \in Nat \cup {Take, Gone}
  BY DEF LayoutInv, LayoutTypes
<1>3. ticket[t] \in Nat /\ ticket[t] # Take /\ ticket[t] # Gone
  BY <1>1, <1>2 DEF Take, Gone
<1>4. UNCHANGED <<raw, img, tool, order>>
  BY <1>1 DEF permVars
<1>5. nv = [ni \in Vertices |-> nv[ni]] /\ \A i \in Vertices : nv[i] = IF i \in chunk THEN WantVec[i] ELSE out.vec[i]
  OBVIOUS
<1>6. \A i \in Vertices : ticket[t] <= i /\ i < ticket[t] + KChunk => i \in chunk
  BY <1>2, <1>3, ChunkIs
<1> HIDE DEF chunk, nv
<1>7. IsMapOn(out, ImageFields)
  BY <1>1 DEF LayoutInv, ImagesOk
<1>8. IsMapOn(out', ImageFields) /\ out'.vec = nv
  BY <1>1, <1>7 DEF IsMapOn, ImageFields
<1>9. Goal' = Goal
  <2>1. Goal' = [out' EXCEPT !.vec = WantVec] /\ Goal = [out EXCEPT !.vec = WantVec]
    BY <1>4, WantsStay DEF Goal
  <2> QED BY <1>1, <2>1, Overwrites
<1>10. \A i \in Vertices : OutWritten(i)' = (nv[i] = WantVec[i]) /\ OutWritten(i) = (out.vec[i] = WantVec[i])
  BY <1>4, <1>8, WantsStay DEF OutWritten
<1>11. \A i \in Vertices : OutWritten(i) => OutWritten(i)'
  BY <1>5, <1>10
<1>12. \A i \in Vertices : ticket[t] <= i /\ i < ticket[t] + KChunk => OutWritten(i)'
  BY <1>5, <1>6, <1>10
<1>13. IsMapOn(out'.vec, Vertices)
  BY <1>5, <1>8 DEF IsMapOn
<1> QED BY <1>1, <1>3, <1>8, <1>9, <1>11, <1>12, <1>13, CopyDone

\* The vector at an id's address is the id's.
LEMMA VecAtIs ==
  ASSUME raw \in Raws, NEW im, HeaderOk(raw, im.hdr), NEW i \in Vertices
  PROVE  VecAt(im, i * vec_stride(im.hdr)) = im.vec[i]
<1>1. i \in Nat /\ i < raw.n /\ vec_stride(im.hdr) \in Nat /\ vec_stride(im.hdr) > 0
  BY RawIs, HeaderNats DEF Vertices
<1>2. (i * vec_stride(im.hdr)) % vec_stride(im.hdr) = 0 /\ (i * vec_stride(im.hdr)) \div vec_stride(im.hdr) = i
  BY <1>1, OffsetIs
<1> QED BY <1>1, <1>2 DEF VecAt

\* The threads of the renumbering packers and of the aligning one.
LEMMA ThreadsKeep ==
  ASSUME LayoutInv, NEW t \in Threads, PagebinThread(t) \/ BundleThread(t) \/ PagealignThread(t)
  PROVE  LayoutInv'
<1>1. CASE TakesChunk(t)
  BY <1>1, TakesKeeps
<1>2. CASE ~TakesChunk(t)
  <2> DEFINE of == [i \in Vertices |-> order[i + 1] * in_stride(img)]
             at == [i \in Vertices |-> i * raw.packed]
  <2>1. \/ Renumbers /\ CopiesChunk(t, of)
        \/ Pagealign /\ CopiesChunk(t, at)
    BY <1>2 DEF PagebinThread, BundleThread, PagealignThread, PagebinSource, BundleSource, PagealignSource, Renumbers
  <2>2. stage = "vectors" /\ ~Nbr /\ ~Diskann /\ ~Bfs
    BY <2>1 DEF CopiesChunk, Renumbers, Pagebin, Bundle, Pagealign, Nbr, Diskann, Bfs
  <2>3. img # NoImage
    BY <2>2 DEF LayoutInv, ToolInput
  <2>4. raw \in Raws /\ HeaderOk(raw, img.hdr)
    BY <2>3, ImageAt
  <2>5. CASE Renumbers /\ CopiesChunk(t, of)
    <3>1. order \in Seq(Vertices) /\ IsInjective(order) /\ Len(order) = raw.n
      BY <2>2, <2>5 DEF LayoutInv, LayoutTypes, OnceOrdered, Copying
    <3>2. ASSUME NEW i \in Vertices
          PROVE  VecAt(img, of[i]) = WantVec[i]
      <4>1. order[i + 1] \in Vertices
        BY <2>4, <3>1, FullOrder
      <4>2. VecAt(img, order[i + 1] * vec_stride(img.hdr)) = img.vec[order[i + 1]]
        BY <2>4, <4>1, VecAtIs
      <4> QED BY <2>5, <4>2 DEF in_stride, WantVec
    <3> HIDE DEF of
    <3> QED BY <2>2, <2>5, <3>2, CopiesKeeps
  <2>6. CASE Pagealign /\ CopiesChunk(t, at)
    <3>1. vec_stride(img.hdr) = raw.packed
      BY <2>2, <2>6 DEF LayoutInv, ToolInput
    <3>2. ASSUME NEW i \in Vertices
          PROVE  VecAt(img, at[i]) = WantVec[i]
      <4>1. VecAt(img, i * vec_stride(img.hdr)) = img.vec[i]
        BY <2>4, VecAtIs
      <4>2. WantVec = img.vec
        BY <2>6 DEF WantVec, Renumbers, Pagebin, Bundle, Pagealign
      <4> QED BY <3>1, <4>1, <4>2
    <3> HIDE DEF at
    <3> QED BY <2>2, <2>6, <3>2, CopiesKeeps
  <2> QED BY <2>1, <2>5, <2>6
<1> QED BY <1>1, <1>2

\* A bundle holds the vectors of the row, read through the map.
LEMMA CopiesIs ==
  ASSUME LayoutInv, img # NoImage, img.from # NoImage, NEW uu \in Vertices
  PROVE  Copies(uu) = WantBundle[uu]
<1>1. raw \in Raws /\ DataOk(raw, img) /\ IdsOf(raw) = Vertices
  BY ImageAt
<1>2. /\ HeaderOk(raw, img.from.hdr) /\ img.map \in Seq(Vertices) /\ Len(img.map) = raw.n
      /\ \A i \in Vertices : img.vec[i] = img.from.vec[img.map[i + 1]]
  BY <1>1 DEF DataOk, MadeFrom
<1>3. \A k \in 1 .. raw.R : img.gfile[uu][k] \in Vertices
  BY <1>1 DEF DataOk, FullRows
<1>4. \A v \in Vertices : v < raw.n /\ img.map[v + 1] \in Vertices
  <2>1. \A i \in 1 .. raw.n : img.map[i] \in Vertices
    BY <1>2
  <2>2. \A v \in Vertices : v < raw.n /\ v + 1 \in 1 .. raw.n
    BY <1>1, RawIs DEF Vertices
  <2> QED BY <2>1, <2>2
<1>5. \A v \in Vertices : VecAt(img.from, img.map[v + 1] * vec_stride(img.from.hdr)) = img.vec[v]
  BY <1>1, <1>2, <1>4, VecAtIs
<1>6. \A k \in 1 .. raw.R : Copies(uu)[k] = img.vec[img.gfile[uu][k]]
  <2> SUFFICES ASSUME NEW k \in 1 .. raw.R
               PROVE  Copies(uu)[k] = img.vec[img.gfile[uu][k]]
    OBVIOUS
  <2>1. img.gfile[uu][k] \in Vertices /\ img.gfile[uu][k] < raw.n
    BY <1>3, <1>4
  <2> QED BY <2>1, <1>5 DEF Copies
<1>7. Copies(uu) = [k \in 1 .. raw.R |-> Copies(uu)[k]]
  BY DEF Copies
<1>8. WantBundle[uu] = [k \in 1 .. raw.R |-> img.vec[img.gfile[uu][k]]]
  BY DEF WantBundle
<1> QED BY <1>6, <1>7, <1>8

\* The threads that write bundles of neighbours.
LEMMA NbrThreadKeeps ==
  ASSUME LayoutInv, NEW t \in Threads, NbrThread(t)
  PROVE  LayoutInv'
<1>1. CASE TakesChunk(t)
  BY <1>1, TakesKeeps
<1>2. CASE ~TakesChunk(t)
  <2> DEFINE chunk == ticket[t] .. Min({ticket[t] + KChunk, raw.n}) - 1
             nb == [uu \in Vertices |-> IF uu \in chunk THEN Copies(uu) ELSE out.bundle[uu]]
  <2>1. /\ Nbr /\ stage = "vectors" /\ ticket[t] >= 0 /\ out' = [out EXCEPT !.bundle = nb]
        /\ ticket' = [ticket EXCEPT ![t] = Take]
        /\ UNCHANGED <<raw, img, tool, made, stage, permVars, next_id>>
    BY <1>2 DEF NbrThread
  <2>2. raw \in Raws /\ ticket[t] \in Nat \cup {Take, Gone}
    BY DEF LayoutInv, LayoutTypes
  <2>3. ticket[t] \in Nat /\ ticket[t] # Take /\ ticket[t] # Gone
    BY <2>1, <2>2 DEF Take, Gone
  <2>4. UNCHANGED <<raw, img, tool, order>>
    BY <2>1 DEF permVars
  <2>5. img # NoImage /\ img.from # NoImage
    BY <2>1 DEF LayoutInv, ToolInput, Nbr, Bfs
  <2>6. nb = [uu \in Vertices |-> nb[uu]] /\ \A uu \in Vertices : nb[uu] = IF uu \in chunk THEN WantBundle[uu] ELSE out.bundle[uu]
    BY <2>5, CopiesIs
  <2>7. \A i \in Vertices : ticket[t] <= i /\ i < ticket[t] + KChunk => i \in chunk
    BY <2>2, <2>3, ChunkIs
  <2> HIDE DEF chunk, nb
  <2>8. IsMapOn(out, ImageFields)
    BY <2>1 DEF LayoutInv, ImagesOk
  <2>9. IsMapOn(out', ImageFields) /\ out'.bundle = nb
    BY <2>1, <2>8 DEF IsMapOn, ImageFields
  <2>10. Goal' = Goal
    <3>1. Goal' = [out' EXCEPT !.bundle = WantBundle] /\ Goal = [out EXCEPT !.bundle = WantBundle]
      BY <2>1, <2>4, WantsStay DEF Goal
    <3> QED BY <2>1, <3>1, Overwrites
  <2>11. \A i \in Vertices : OutWritten(i)' = (nb[i] = WantBundle[i]) /\ OutWritten(i) = (out.bundle[i] = WantBundle[i])
    BY <2>1, <2>4, <2>9, WantsStay DEF OutWritten
  <2>12. \A i \in Vertices : OutWritten(i) => OutWritten(i)'
    BY <2>6, <2>11
  <2>13. \A i \in Vertices : ticket[t] <= i /\ i < ticket[t] + KChunk => OutWritten(i)'
    BY <2>6, <2>7, <2>11
  <2>14. IsMapOn(out'.bundle, Vertices)
    BY <2>6, <2>9 DEF IsMapOn
  <2> QED BY <2>1, <2>3, <2>9, <2>10, <2>12, <2>13, <2>14, CopyDone
<1> QED BY <1>1, <1>2

\* The record writer of the DiskANN packer.
LEMMA RecordKeeps ==
  ASSUME LayoutInv, DiskannRecord
  PROVE  LayoutInv'
<1> DEFINE v == VecAt(img, next_id * (img.hdr.len_vectors \div raw.n))
<1>1. /\ Diskann /\ stage = "records" /\ next_id < raw.n /\ next_id' = next_id + 1
      /\ out' = [out EXCEPT !.vec[next_id] = v, !.graph[next_id] = img.gfile[next_id]]
      /\ UNCHANGED <<raw, img, tool, made, stage, permVars, ticket>>
  BY DEF DiskannRecord
<1>2. img # NoImage /\ ~Nbr
  BY <1>1 DEF LayoutInv, ToolInput, Diskann, Bfs, Nbr
<1>3. raw \in Raws /\ HeaderOk(raw, img.hdr) /\ next_id \in Nat /\ next_id \in Vertices /\ ticket' \in [Threads -> Nat \cup {Take, Gone}]
  <2>1. raw \in Raws /\ next_id \in Nat /\ ticket \in [Threads -> Nat \cup {Take, Gone}]
    BY DEF LayoutInv, LayoutTypes
  <2> QED BY <1>1, <1>2, <2>1, ImageAt, RawIs DEF Vertices
<1>4. v = img.vec[next_id]
  <2>1. img.hdr.len_vectors \div raw.n = vec_stride(img.hdr)
    <3> DEFINE n == raw.n
               s == vec_stride(img.hdr)
    <3>1. n \in Nat /\ n > 0 /\ s \in Nat /\ img.hdr.len_vectors = n * s
      BY <1>3, RawIs, HeaderNats
    <3> HIDE DEF n, s
    <3>2. (n * s) \div n = s
      BY <3>1
    <3> QED BY <3>1, <3>2 DEF n, s
  <2> QED BY <1>3, <2>1, VecAtIs
<1> HIDE DEF v
<1>5. UNCHANGED <<raw, img, tool, order>>
  BY <1>1 DEF permVars
<1>6. IsMapOn(out, ImageFields) /\ IsMapOn(out.vec, Vertices) /\ IsMapOn(out.graph, Vertices)
  BY <1>1 DEF LayoutInv, ImagesOk, Copying
<1> DEFINE nv == [out.vec EXCEPT ![next_id] = v]
           ng == [out.graph EXCEPT ![next_id] = img.gfile[next_id]]
<1>7. out' = [out EXCEPT !.vec = nv, !.graph = ng]
  BY <1>1, <1>6 DEF IsMapOn, ImageFields
<1>8. /\ IsMapOn(nv, Vertices) /\ IsMapOn(ng, Vertices)
      /\ \A i \in Vertices : nv[i] = (IF i = next_id THEN v ELSE out.vec[i]) /\ ng[i] = IF i = next_id THEN img.gfile[i] ELSE out.graph[i]
  <2>1. DOMAIN out.vec = Vertices /\ DOMAIN out.graph = Vertices
    BY <1>6 DEF IsMapOn
  <2> QED BY <1>3, <2>1 DEF IsMapOn
<1> HIDE DEF nv, ng
<1>9. IsMapOn(out', ImageFields) /\ out'.vec = nv /\ out'.graph = ng
  BY <1>6, <1>7 DEF IsMapOn, ImageFields
<1>10. Goal' = Goal
  <2>1. Goal' = [out' EXCEPT !.vec = img.vec, !.graph = img.gfile] /\ Goal = [out EXCEPT !.vec = img.vec, !.graph = img.gfile]
    BY <1>1, <1>2, <1>5, WantsStay DEF Goal
  <2> QED BY <1>6, <1>7, <2>1 DEF IsMapOn, ImageFields
<1>11. Copying'
  <2>1. Vertices' = Vertices /\ stage' = "records"
    BY <1>1, <1>5, WantsStay
  <2>2. ASSUME NEW i \in Vertices, i < next_id'
        PROVE  nv[i] = img.vec[i] /\ ng[i] = img.gfile[i]
    <3>1. i = next_id \/ i < next_id
      BY <1>1, <1>3, <2>2, RawIs DEF Vertices
    <3>2. i < next_id => out.vec[i] = img.vec[i] /\ out.graph[i] = img.gfile[i]
      BY <1>1 DEF LayoutInv, Copying
    <3> QED BY <1>4, <1>8, <3>1, <3>2
  <2>3. next_id' <= raw.n
    BY <1>1, <1>3, RawIs
  <2> QED BY <1>5, <1>8, <1>9, <2>1, <2>2, <2>3 DEF Copying
<1>12. next_id' \in Nat
  BY <1>1, <1>3
<1> QED BY <1>1, <1>3, <1>9, <1>10, <1>11, <1>12, ThreadFrame

-----------------------------------------------------------------------------
(* A new image is written.                                                 *)

\* An image just allocated keeps LayoutInv when what it will hold is good.
LEMMA WritesKeep ==
  ASSUME LayoutInv, stage \in {"rest", "write"}, NEW im, WritesAll(im), IsMapOn(im, ImageFields),
         Renumbers => Len(order) = raw.n,
         IF Nbr THEN IsMapOn(im.bundle, Vertices) ELSE IsMapOn(im.vec, Vertices),
         DataOk(raw, Goal')
  PROVE  LayoutInv'
<1>1. /\ out' = im /\ stage' = "vectors" /\ next_id' = 0 /\ ticket' = [t \in Threads |-> Take]
      /\ UNCHANGED <<raw, img, tool, made, order, queue, mark, todo, heap>>
  BY DEF WritesAll, permVars
<1>2. Vertices' = Vertices /\ Nbr' = Nbr /\ Renumbers' = Renumbers
  BY <1>1, WantsStay
<1>3. LayoutTypes'
  BY <1>1, <1>2 DEF LayoutInv, LayoutTypes
<1>4. ToolInput'
  <2>1. (\A uu \in Vertices : Len(raw.graph[uu]) = raw.R)'
    BY <1>1, <1>2 DEF LayoutInv, ToolInput
  <2> QED BY <1>1, <2>1 DEF LayoutInv, ToolInput, Bfs, Renumbers, Pagebin, Bundle, Pagealign, Diskann, Nbr, Degree, Nav
<1>5. OnceOrdered'
  BY <1>1 DEF LayoutInv, OnceOrdered
<1>6. ImagesOk'
  BY <1>1 DEF LayoutInv, ImagesOk
<1>7. Copying'
  <2>1. \A t \in Threads : ticket'[t] = Take /\ Take # Gone
    BY <1>1 DEF Take, Gone
  <2>2. \A i \in Vertices : ~(i < next_id')
    BY <1>1 DEF Vertices
  <2> QED BY <1>1, <1>2, <2>1, <2>2 DEF Copying
<1> QED BY <1>3, <1>4, <1>5, <1>6, <1>7 DEF LayoutInv

RenumberedHeader(lp) ==
  Laid([img.hdr EXCEPT !.entry_id = NewId(Clamped(img.hdr.entry_id))], 4096,
       raw.n * img.hdr.pq_bytes, raw.n * raw.R * 4, raw.n * raw.packed, lp)

\* A header laid out anew is good, whatever the stride.
LEMMA LaidOver ==
  ASSUME raw \in Raws, NEW h, HeaderOk(raw, h), h.version = 1, NEW e \in Nat, NEW st \in Nat, st >= raw.packed, NEW lp \in Nat,
         NEW l, l = Laid([h EXCEPT !.entry_id = e], 4096, raw.n * h.pq_bytes, raw.n * raw.R * 4, raw.n * st, lp)
  PROVE  HeaderOk(raw, l) /\ l.entry_id = e /\ l.entry_nodes = h.entry_nodes /\ l.version = 1 /\ vec_stride(l) = st
<1> DEFINE g == [h EXCEPT !.entry_id = e]
<1>1. HeaderTypes(raw, h) /\ h.pq_bytes = 32
  BY DEF HeaderOk, FourRegions
<1>2. DOMAIN g = HeaderFields /\ g.entry_id = e /\ \A f \in HeaderFields \ {"entry_id"} : g[f] = h[f]
  BY <1>1 DEF HeaderTypes, HeaderFields
<1> HIDE DEF g
<1>3. g.version = 1 /\ g.n = h.n /\ g.R = h.R /\ g.packed = h.packed /\ g.pq_bytes = 32 /\ g.entry_nodes = h.entry_nodes
  BY <1>1, <1>2 DEF HeaderFields
<1>4. HeaderTypes(raw, g)
  <2>1. \A f \in HeaderFields : g[f] \in Nat
    BY <1>1, <1>2 DEF HeaderTypes
  <2> QED BY <1>1, <1>2, <1>3, <2>1 DEF HeaderTypes
<1>5. LET m == Laid(g, 4096, raw.n * 32, raw.n * raw.R * 4, raw.n * st, lp)
      IN  /\ HeaderOk(raw, m) /\ m.entry_id = g.entry_id /\ m.entry_nodes = g.entry_nodes
          /\ m.version = 1 /\ m.len_pq # 0 /\ m.len_graph # 0 /\ vec_stride(m) = st
  BY <1>3, <1>4, LaidIs
<1> QED BY <1>1, <1>2, <1>3, <1>5 DEF g

\* The header of the renumbering packers is.
LEMMA RenumberedHeaderIs ==
  ASSUME raw \in Raws, HeaderOk(raw, img.hdr), img.hdr.version = 1, NewId(Clamped(img.hdr.entry_id)) \in Nat, NEW lp \in Nat
  PROVE  /\ HeaderOk(raw, RenumberedHeader(lp)) /\ RenumberedHeader(lp).version = 1
         /\ RenumberedHeader(lp).entry_id = NewId(Clamped(img.hdr.entry_id))
<1> DEFINE e == NewId(Clamped(img.hdr.entry_id))
           st == raw.packed
           h == img.hdr
           l == RenumberedHeader(lp)
<1>1. l = Laid([h EXCEPT !.entry_id = e], 4096, raw.n * h.pq_bytes, raw.n * raw.R * 4, raw.n * st, lp)
  BY DEF RenumberedHeader
<1>2. st \in Nat /\ st >= raw.packed /\ e \in Nat /\ HeaderOk(raw, h) /\ h.version = 1
  BY RawIs
<1> HIDE DEF e, st, h, l
<1>3. HeaderOk(raw, l) /\ l.entry_id = e /\ l.version = 1
  BY <1>1, <1>2, LaidOver
<1> QED BY <1>3 DEF e, l

\* An image under new ids holds the same data, edges and all.
LEMMA Renumbered ==
  ASSUME raw \in Raws, DataOk(raw, img), img.hdr.version = 1,
         order \in Seq(Vertices), IsInjective(order), Len(order) = raw.n,
         NEW lp \in Nat, NEW im, IsMapOn(im, ImageFields), im.hdr = RenumberedHeader(lp),
         im.graph = [ni \in Vertices |-> RemappedRow(img.graph[order[ni + 1]])], im.gfile = im.graph,
         im.pq = [ni \in Vertices |-> img.pq[order[ni + 1]]], im.vec = [ni \in Vertices |-> img.vec[order[ni + 1]]],
         im.entries = <<>>, im.map = order, im.from = img, im.bundle = <<>>, im.nav = NoNav
  PROVE  DataOk(raw, im)
<1>1. IdsOf(raw) = Vertices
  BY DEF IdsOf, Vertices
<1>2. /\ HeaderOk(raw, img.hdr) /\ img.vec \in [Vertices -> Vertices] /\ IsInjective(img.vec)
      /\ img.graph \in [Vertices -> [1 .. raw.R -> Vertices]] /\ img.hdr.entry_id \in Vertices
      /\ img.vec[img.hdr.entry_id] = EntryOf(raw) /\ img.pq = img.vec /\ EdgesKept(raw, img)
  BY <1>1 DEF DataOk, FullRows
<1>3. /\ \A v \in Vertices : NewId(v) \in Vertices /\ order[NewId(v) + 1] = v
      /\ \A i \in Vertices : i + 1 \in 1 .. Len(order) /\ order[i + 1] \in Vertices
  BY NewIdIs, FullOrder
<1>4. Clamped(img.hdr.entry_id) = img.hdr.entry_id /\ Vertices \subseteq Nat
  BY <1>2, RawIs, SMTT(30) DEF Clamped, Vertices
<1> DEFINE e == NewId(img.hdr.entry_id)
<1>5. e \in Vertices /\ order[e + 1] = img.hdr.entry_id /\ e \in Nat
  BY <1>2, <1>3, <1>4
<1>6. HeaderOk(raw, im.hdr) /\ im.hdr.entry_id = e /\ im.hdr.version = 1
  <2>1. NewId(Clamped(img.hdr.entry_id)) \in Nat
    BY <1>4, <1>5
  <2>2. HeaderOk(raw, RenumberedHeader(lp)) /\ RenumberedHeader(lp).version = 1
        /\ RenumberedHeader(lp).entry_id = NewId(Clamped(img.hdr.entry_id))
    BY <1>2, <2>1, RenumberedHeaderIs
  <2> QED BY <1>4, <2>2
<1> HIDE DEF e
<1>7. im.vec \in [Vertices -> Vertices] /\ \A i \in Vertices : im.vec[i] = img.vec[order[i + 1]]
  BY <1>2, <1>3
<1>8. IsInjective(im.vec)
  <2> SUFFICES ASSUME NEW i \in Vertices, NEW jj \in Vertices, im.vec[i] = im.vec[jj]
               PROVE  i = jj
    BY <1>7 DEF IsInjective
  <2>1. order[i + 1] = order[jj + 1]
    BY <1>2, <1>3, <1>7 DEF IsInjective
  <2>2. i + 1 = jj + 1
    <3>1. \A a, b \in 1 .. Len(order) : order[a] = order[b] => a = b
      BY DEF IsInjective
    <3> QED BY <1>3, <2>1, <3>1
  <2> QED BY <1>4, <2>2
<1>9. ASSUME NEW i \in Vertices
      PROVE  /\ im.graph[i] \in [1 .. raw.R -> Vertices]
             /\ \A k \in 1 .. raw.R : order[im.graph[i][k] + 1] = img.graph[order[i + 1]][k]
  <2> DEFINE row == img.graph[order[i + 1]]
  <2>3. im.graph[i] = RemappedRow(row)
    OBVIOUS
  <2>4. order[i + 1] \in Vertices
    BY <1>3
  <2>1. row \in [1 .. raw.R -> Vertices]
    BY <1>2, <2>4, Zenon
  <2>5. \A v \in Vertices : v \in Nat /\ v < raw.n
    BY RawIs DEF Vertices
  <2> HIDE DEF row
  <2>6. \A k \in 1 .. raw.R : row[k] \in Vertices
    BY <2>1, Zenon
  <2>2. \A k \in 1 .. raw.R : row[k] \in Nat /\ row[k] < raw.n
    BY <2>5, <2>6, Zenon
  <2>7. /\ RemappedRow(row) \in [1 .. raw.R -> Vertices]
        /\ \A k \in 1 .. raw.R : row[k] < raw.n => order[RemappedRow(row)[k] + 1] = row[k]
    BY <2>2, RemappedRowIs, Zenon
  <2> QED BY <2>2, <2>3, <2>7, ZenonT(60) DEF row
<1>10. im.graph \in FullRows(raw)
  BY <1>1, <1>9 DEF FullRows
<1>11. im.pq = im.vec
  BY <1>2
<1>12. EdgesKept(raw, im)
  <2> SUFFICES ASSUME NEW i \in Vertices, NEW k \in 1 .. raw.R, raw.graph[im.vec[i]][k] < raw.n
               PROVE  im.vec[im.graph[i][k]] = raw.graph[im.vec[i]][k]
    BY <1>1 DEF EdgesKept
  <2>1. order[i + 1] \in Vertices /\ im.graph[i][k] \in Vertices
    BY <1>3, <1>9
  <2>2. img.vec[img.graph[order[i + 1]][k]] = raw.graph[img.vec[order[i + 1]]][k]
    BY <1>1, <1>2, <1>7, <2>1 DEF EdgesKept
  <2>3. im.vec[im.graph[i][k]] = img.vec[order[im.graph[i][k] + 1]]
    BY <1>7, <2>1
  <2> QED BY <1>7, <1>9, <2>2, <2>3
<1>13. im.vec[im.hdr.entry_id] = EntryOf(raw)
  BY <1>2, <1>5, <1>6, <1>7
<1>14. Copied(raw, im) /\ SamplesOf(raw, im)
  BY DEF Copied, SamplesOf
<1>15. MadeFrom(raw, im)
  BY <1>1, <1>2, <1>7 DEF MadeFrom
<1> QED BY <1>1, <1>5, <1>6, <1>7, <1>8, <1>10, <1>11, <1>12, <1>13, <1>14, <1>15 DEF DataOk

\* The renumbering packers allocate such an image.
LEMMA RenumbersWrites ==
  ASSUME LayoutInv, PagebinWrites \/ BundleWrites
  PROVE  LayoutInv'
<1> DEFINE lp == IF img.hdr.len_pivots # 0 THEN img.hdr.len_pivots ELSE 65536
           g == [ni \in Vertices |-> RemappedRow(img.graph[order[ni + 1]])]
           c == [ni \in Vertices |-> img.pq[order[ni + 1]]]
           none == [ni \in Vertices |-> Unwritten]
           im == [hdr |-> RenumberedHeader(lp), graph |-> g, pq |-> c, vec |-> none, entries |-> <<>>,
                  gfile |-> g, map |-> order, from |-> img, bundle |-> <<>>, nav |-> NoNav]
<1>1. Renumbers /\ stage = "rest" /\ Len(order) = raw.n /\ WritesAll(im)
  BY DEF PagebinWrites, BundleWrites, Renumbers, AllAssigned, PagebinHeader, BundleHeader, PagebinGraph, BundleGraph,
         PagebinCodes, BundleCodes, RenumberedHeader, Row
<1>2. img # NoImage /\ img.hdr.version = 1 /\ ~Nbr /\ ~Diskann
  BY <1>1 DEF LayoutInv, ToolInput, Renumbers, Pagebin, Bundle, Bfs, Nbr, Diskann
<1>3. raw \in Raws /\ DataOk(raw, img) /\ HeaderOk(raw, img.hdr)
  BY <1>2, ImageAt
<1>4. order \in Seq(Vertices) /\ IsInjective(order)
  BY <1>1 DEF LayoutInv, LayoutTypes, OnceOrdered
<1>5. lp \in Nat
  BY <1>3, HeaderNats
<1>6. IsMapOn(im, ImageFields) /\ IsMapOn(im.vec, Vertices)
  BY DEF IsMapOn, ImageFields
<1>7. UNCHANGED <<raw, img, tool, order>> /\ out' = im
  BY <1>1 DEF WritesAll, permVars
<1> DEFINE w == [i \in Vertices |-> img.vec[order[i + 1]]]
           goal == [im EXCEPT !.vec = w]
<1>8. Goal' = goal
  BY <1>1, <1>2, <1>7, WantsStay DEF Goal, WantVec
<1>9. /\ IsMapOn(goal, ImageFields) /\ goal.hdr = RenumberedHeader(lp) /\ goal.graph = g /\ goal.gfile = g
      /\ goal.pq = c /\ goal.vec = w /\ goal.entries = <<>> /\ goal.map = order /\ goal.from = img
      /\ goal.bundle = <<>> /\ goal.nav = NoNav
  <2> HIDE DEF g, c, w, none, lp
  <2> QED BY DEF IsMapOn, ImageFields
<1> HIDE DEF goal, im, lp
<1>10. DataOk(raw, goal)
  BY <1>1, <1>2, <1>3, <1>4, <1>5, <1>9, Renumbered
<1> QED BY <1>1, <1>2, <1>6, <1>8, <1>10, WritesKeep

\* The aligning packer allocates a good image.
LEMMA PagealignWritesKeep ==
  ASSUME LayoutInv, PagealignWrites
  PROVE  LayoutInv'
<1> DEFINE none == [i \in Vertices |-> Unwritten]
           im == [img EXCEPT !.hdr = PagealignHeader, !.vec = none]
           goal == [im EXCEPT !.vec = img.vec]
<1>1. Pagealign /\ stage = "write" /\ WritesAll(im)
  BY DEF PagealignWrites
<1>2. img # NoImage /\ img.hdr.version = 1 /\ ~Nbr /\ ~Diskann /\ ~Renumbers
      /\ raw.packed <= tool.stride /\ tool.stride \in Nat
  BY <1>1 DEF LayoutInv, ToolInput, Renumbers, Pagebin, Bundle, Bfs, Nbr, Diskann, Pagealign
<1>3. raw \in Raws /\ DataOk(raw, img) /\ HeaderOk(raw, img.hdr)
  BY <1>2, ImageAt
<1>4. HeaderOk(raw, PagealignHeader) /\ PagealignHeader.entry_id = img.hdr.entry_id /\ PagealignHeader.version = 1
  <2> DEFINE lp == IF img.hdr.len_pivots # 0 THEN img.hdr.len_pivots ELSE 65536
             h == img.hdr
             l == PagealignHeader
  <2>1. l = Laid(h, 4096, h.len_pq, h.len_graph, raw.n * tool.stride, lp)
    BY DEF PagealignHeader
  <2>2. lp \in Nat /\ h.n = raw.n /\ h.R = raw.R
    BY <1>3, HeaderNats
  <2>3. h.len_pq = raw.n * 32 /\ h.len_graph = raw.n * raw.R * 4 /\ h.pq_bytes = 32
    BY <1>2, <1>3, <2>2 DEF HeaderOk, FourRegions
  <2>4. tool.stride \in Nat /\ tool.stride >= raw.packed /\ HeaderTypes(raw, h) /\ h.version = 1
    BY <1>2, <1>3, RawIs DEF HeaderOk
  <2>5. l = Laid(h, 4096, raw.n * 32, raw.n * raw.R * 4, raw.n * tool.stride, lp)
    BY <2>1, <2>3
  <2> HIDE DEF lp, h, l
  <2>6. HeaderOk(raw, l) /\ l.entry_id = h.entry_id /\ l.version = 1
    BY <1>3, <2>2, <2>3, <2>4, <2>5, LaidIs
  <2> QED BY <2>6 DEF l, h
<1>5. IsMapOn(img, ImageFields) /\ img.entries \in Seq(IdsOf(raw))
  BY <1>3 DEF DataOk
<1>6. IsMapOn(im, ImageFields) /\ im.vec = none
  BY <1>5 DEF IsMapOn, ImageFields
<1>7. IsMapOn(im.vec, Vertices)
  BY <1>6 DEF IsMapOn
<1>8. UNCHANGED <<raw, img, tool, order>> /\ out' = im
  BY <1>1 DEF WritesAll, permVars
<1>9. Goal' = goal
  BY <1>2, <1>8, WantsStay DEF Goal, WantVec
<1>10. IsMapOn(goal, ImageFields) /\ goal.hdr = PagealignHeader /\ goal.entries = img.entries
       /\ \A f \in ImageFields \ {"hdr", "entries"} : goal[f] = img[f]
  BY <1>5 DEF IsMapOn, ImageFields
<1> HIDE DEF goal, im
<1>11. DataOk(raw, goal)
  BY <1>2, <1>3, <1>4, <1>5, <1>10, SameData
<1> QED BY <1>1, <1>2, <1>6, <1>7, <1>9, <1>11, WritesKeep

\* So does the one that writes bundles.
LEMMA NbrWritesKeep ==
  ASSUME LayoutInv, NbrWrites
  PROVE  LayoutInv'
<1> DEFINE none == [uu \in Vertices |-> <<>>]
           im == [img EXCEPT !.bundle = none]
           goal == [im EXCEPT !.bundle = WantBundle]
<1>1. Nbr /\ stage = "write" /\ WritesAll(im)
  BY DEF NbrWrites
<1>2. img # NoImage /\ ~Renumbers
  BY <1>1 DEF LayoutInv, ToolInput, Renumbers, Pagebin, Bundle, Bfs, Nbr
<1>3. raw \in Raws /\ DataOk(raw, img)
  BY <1>2, ImageAt
<1>5. IsMapOn(img, ImageFields)
  BY <1>3 DEF DataOk
<1>6. IsMapOn(im, ImageFields) /\ im.bundle = none
  BY <1>5 DEF IsMapOn, ImageFields
<1>7. IsMapOn(im.bundle, Vertices)
  BY <1>6 DEF IsMapOn
<1>8. UNCHANGED <<raw, img, tool, order>> /\ out' = im
  BY <1>1 DEF WritesAll, permVars
<1>9. Goal' = goal
  BY <1>1, <1>8, WantsStay DEF Goal
<1>10. IsMapOn(goal, ImageFields) /\ goal.bundle = WantBundle
       /\ \A f \in ImageFields \ {"bundle"} : goal[f] = img[f]
  BY <1>5 DEF IsMapOn, ImageFields
<1> HIDE DEF goal, im
<1>11. /\ goal.hdr = img.hdr /\ goal.graph = img.graph /\ goal.vec = img.vec /\ goal.pq = img.pq /\ goal.entries = img.entries
       /\ goal.gfile = img.gfile /\ goal.map = img.map /\ goal.from = img.from /\ goal.nav = img.nav
  BY <1>10 DEF ImageFields
<1>12. Copied(raw, goal)
  BY <1>10, <1>11 DEF Copied, WantBundle, IdsOf, Vertices
<1>13. EdgesKept(raw, img) => EdgesKept(raw, goal)
  BY <1>11 DEF EdgesKept
<1>14. SamplesOf(raw, goal) /\ MadeFrom(raw, goal)
  BY <1>3, <1>11 DEF DataOk, SamplesOf, MadeFrom
<1>15. DataOk(raw, goal)
  BY <1>3, <1>10, <1>11, <1>12, <1>13, <1>14 DEF DataOk
<1> QED BY <1>1, <1>2, <1>6, <1>7, <1>9, <1>15, WritesKeep

\* The fields of a header without codes and graph.
LEMMA NoCodes ==
  ASSUME NEW h, DOMAIN h = HeaderFields, NEW m,
         m = [h EXCEPT !.version = 2, !.pq_bytes = 0, !.off_pq = 0, !.len_pq = 0, !.off_graph = 0]
  PROVE  /\ DOMAIN m = HeaderFields /\ m.version = 2 /\ m.pq_bytes = 0 /\ m.off_pq = 0 /\ m.len_pq = 0 /\ m.off_graph = 0
         /\ m.n = h.n /\ m.R = h.R /\ m.packed = h.packed /\ m.entry_id = h.entry_id /\ m.entry_nodes = h.entry_nodes
BY DEF HeaderFields, Offsets

\* The DiskANN packer allocates a good image.
LEMMA DiskannWritesKeep ==
  ASSUME LayoutInv, DiskannWrites
  PROVE  LayoutInv'
<1> DEFINE none == [i \in Vertices |-> Unwritten]
           rows == [i \in Vertices |-> <<>>]
           im == [img EXCEPT !.hdr = DiskannHeader, !.vec = none, !.graph = rows]
           goal == [im EXCEPT !.vec = img.vec, !.graph = img.gfile]
<1>1. /\ Diskann /\ stage = "write" /\ out' = im /\ next_id' = 0 /\ stage' = "records"
      /\ UNCHANGED <<raw, img, tool, made, order, queue, mark, todo, heap, ticket>>
  BY DEF DiskannWrites, permVars
<1>2. img # NoImage /\ img.hdr.version = 1 /\ ~Nbr /\ ~Bundle /\ tool.stride \in Nat /\ tool.stride >= diskann_payload_bytes(img.hdr)
  BY <1>1 DEF LayoutInv, ToolInput, Bundle, Bfs, Nbr, Diskann
<1>3. raw \in Raws /\ DataOk(raw, img) /\ HeaderOk(raw, img.hdr)
  BY <1>2, ImageAt
<1>4. HeaderOk(raw, DiskannHeader) /\ DiskannHeader.entry_id = img.hdr.entry_id /\ DiskannHeader.version = 2
  <2> DEFINE h == img.hdr
             l == DiskannHeader
             st == tool.stride
  <2>1. HeaderTypes(raw, h)
    BY <1>3 DEF HeaderOk
  <2>2. l = [h EXCEPT !.version = 2, !.pq_bytes = 0, !.off_pq = 0, !.len_pq = 0,
                  !.off_graph = 0, !.len_graph = 0, !.off_pivots = 0, !.len_pivots = 0,
                  !.off_vectors = 4096,
                  !.len_vectors = raw.n * st]
    BY DEF DiskannHeader
  <2>3. raw.n \in Nat /\ raw.n > 0 /\ raw.R \in Nat /\ raw.packed \in Nat /\ raw.packed > 0 /\ st \in Nat
    BY <1>2, <1>3, RawIs
  <2>4. raw.n * st \in Nat
    <3>1. \A x, y \in Nat : x * y \in Nat
      OBVIOUS
    <3> QED BY <2>3, <3>1
  <2>5. st >= h.packed + 4 + 4 * h.R
    BY <1>2 DEF diskann_payload_bytes
  <2> HIDE DEF l, h, st
  <2>6. /\ DOMAIN l = HeaderFields /\ l.version = 2 /\ l.pq_bytes = 0 /\ l.off_pq = 0 /\ l.len_pq = 0 /\ l.off_graph = 0
        /\ l.len_graph = 0 /\ l.off_pivots = 0 /\ l.len_pivots = 0 /\ l.off_vectors = 4096 /\ l.len_vectors = raw.n * st
        /\ l.n = h.n /\ l.R = h.R /\ l.packed = h.packed /\ l.entry_id = h.entry_id /\ l.entry_nodes = h.entry_nodes
    <3>1. DOMAIN h = HeaderFields
      BY <2>1 DEF HeaderTypes
    <3> DEFINE len == raw.n * st
               m == [h EXCEPT !.version = 2, !.pq_bytes = 0, !.off_pq = 0, !.len_pq = 0, !.off_graph = 0]
    <3>2. l = [m EXCEPT !.len_graph = 0, !.off_pivots = 0, !.len_pivots = 0, !.off_vectors = 4096, !.len_vectors = len]
      BY <2>2
    <3>3. /\ DOMAIN m = HeaderFields /\ m.version = 2 /\ m.pq_bytes = 0 /\ m.off_pq = 0 /\ m.len_pq = 0 /\ m.off_graph = 0
          /\ m.n = h.n /\ m.R = h.R /\ m.packed = h.packed /\ m.entry_id = h.entry_id /\ m.entry_nodes = h.entry_nodes
      BY <3>1, NoCodes
    <3> HIDE DEF len, m
    <3>4. /\ DOMAIN l = HeaderFields /\ l.len_graph = 0 /\ l.off_pivots = 0 /\ l.len_pivots = 0
          /\ l.off_vectors = 4096 /\ l.len_vectors = len
          /\ l.version = m.version /\ l.pq_bytes = m.pq_bytes /\ l.off_pq = m.off_pq /\ l.len_pq = m.len_pq /\ l.off_graph = m.off_graph
          /\ l.n = m.n /\ l.R = m.R /\ l.packed = m.packed /\ l.entry_id = m.entry_id /\ l.entry_nodes = m.entry_nodes
      BY <3>2, <3>3 DEF HeaderFields, Offsets
    <3> QED BY <3>3, <3>4 DEF len
  <2>7. h.n = raw.n /\ h.R = raw.R /\ h.packed = raw.packed /\ h.entry_id \in Nat /\ h.entry_nodes \in Nat
    BY <2>1 DEF HeaderTypes, HeaderFields
  <2>8. HeaderTypes(raw, l)
    <3>1. \A f \in HeaderFields : l[f] \in Nat
      BY <2>3, <2>4, <2>6, <2>7 DEF HeaderFields, Offsets
    <3> QED BY <2>6, <2>7, <3>1 DEF HeaderTypes
  <2>9. vec_stride(l) = st
    <3>1. st >= l.packed /\ l.n > 0 /\ l.packed > 0 /\ l.len_vectors = l.n * st
      BY <2>3, <2>5, <2>6, <2>7
    <3> QED BY <2>3, <2>8, <3>1, StrideIs
  <2>10. diskann_payload_bytes(l) = l.packed + 4 + 4 * l.R
    BY DEF diskann_payload_bytes
  <2>11. RecordsOnly(l)
    BY <2>5, <2>6, <2>9, <2>10 DEF RecordsOnly
  <2>12. HeaderOk(raw, l)
    BY <2>3, <2>5, <2>6, <2>7, <2>8, <2>9, <2>11 DEF HeaderOk
  <2> QED BY <2>6, <2>12 DEF l, h
<1>5. IsMapOn(img, ImageFields)
  BY <1>3 DEF DataOk
<1>6. IsMapOn(im, ImageFields) /\ im.vec = none /\ im.graph = rows
  BY <1>5 DEF IsMapOn, ImageFields
<1>7. IsMapOn(im.vec, Vertices) /\ IsMapOn(im.graph, Vertices)
  BY <1>6 DEF IsMapOn
<1>8. UNCHANGED <<raw, img, tool, order>>
  BY <1>1
<1>9. Goal' = goal
  BY <1>1, <1>2, <1>8, WantsStay DEF Goal
<1>10. IsMapOn(goal, ImageFields) /\ goal.hdr = DiskannHeader /\ goal.graph = img.gfile
       /\ \A f \in ImageFields \ {"hdr", "graph"} : goal[f] = img[f]
  BY <1>5 DEF IsMapOn, ImageFields
<1> HIDE DEF goal, im
<1>11. /\ goal.vec = img.vec /\ goal.pq = img.pq /\ goal.entries = img.entries /\ goal.bundle = img.bundle
       /\ goal.gfile = img.gfile /\ goal.map = img.map /\ goal.from = img.from /\ goal.nav = img.nav
  BY <1>10 DEF ImageFields
<1>12. Copied(raw, goal) /\ MadeFrom(raw, goal)
  BY <1>3, <1>11 DEF DataOk, Copied, MadeFrom
<1>13. SamplesOf(raw, goal)
  BY <1>2, <1>3, <1>11 DEF DataOk, SamplesOf
<1>14. DataOk(raw, goal)
  BY <1>3, <1>4, <1>10, <1>11, <1>12, <1>13 DEF DataOk
<1>15. Vertices' = Vertices
  BY <1>8, WantsStay
<1>16. LayoutTypes'
  BY <1>1, <1>15 DEF LayoutInv, LayoutTypes
<1>17. ToolInput'
  <2>1. (\A uu \in Vertices : Len(raw.graph[uu]) = raw.R)'
    BY <1>1, <1>15 DEF LayoutInv, ToolInput
  <2> QED BY <1>1, <2>1 DEF LayoutInv, ToolInput, Bfs, Renumbers, Pagebin, Bundle, Pagealign, Diskann, Nbr, Degree, Nav
<1>18. OnceOrdered'
  BY <1>1 DEF LayoutInv, OnceOrdered
<1>19. ImagesOk'
  BY <1>1, <1>6, <1>9, <1>14 DEF LayoutInv, ImagesOk
<1>20. Copying'
  <2>1. \A i \in Vertices : ~(i < next_id')
    BY <1>1 DEF Vertices
  <2>2. next_id' <= raw.n
    BY <1>1, <1>3, RawIs
  <2> QED BY <1>1, <1>7, <1>15, <2>1, <2>2 DEF Copying
<1> QED BY <1>16, <1>17, <1>18, <1>19, <1>20 DEF LayoutInv

\* Sorting a row leaves what it holds.
LEMMA CountPermuted ==
  ASSUME raw \in Raws, NEW row, NEW p \in Bijection(1 .. raw.R, 1 .. raw.R), NEW v
  PROVE  CountIn(raw, [k \in 1 .. raw.R |-> row[p[k]]], v) = CountIn(raw, row, v)
<1> DEFINE A == {k \in 1 .. raw.R : row[p[k]] = v}
           B == {k \in 1 .. raw.R : row[k] = v}
           f == [k \in A |-> p[k]]
<1>1. /\ p \in [1 .. raw.R -> 1 .. raw.R] /\ \A a, b \in 1 .. raw.R : p[a] = p[b] => a = b
      /\ \A t \in 1 .. raw.R : \E s \in 1 .. raw.R : p[s] = t
  BY DEF Bijection, Injection, Surjection, IsInjective
<1>2. f \in [A -> B]
  BY <1>1
<1>3. f \in Injection(A, B)
  BY <1>1, <1>2 DEF Injection, IsInjective
<1>4. \A t \in B : \E s \in A : f[s] = t
  <2> SUFFICES ASSUME NEW t \in B PROVE \E s \in A : f[s] = t
    OBVIOUS
  <2>1. PICK s \in 1 .. raw.R : p[s] = t
    BY <1>1
  <2>2. s \in A
    BY <2>1
  <2> QED BY <2>1, <2>2
<1>5. f \in Bijection(A, B)
  BY <1>2, <1>3, <1>4 DEF Bijection, Surjection
<1>6. IsFiniteSet(A)
  <2>1. IsFiniteSet(1 .. raw.R)
    <3>1. raw.R \in Nat
      BY RawIs
    <3> QED BY <3>1, FS_Interval
  <2> QED BY <2>1, FS_Subset
<1>7. Cardinality(A) = Cardinality(B)
  BY <1>5, <1>6, FS_Bijection DEF ExistsBijection
<1>8. A = {k \in 1 .. raw.R : [jj \in 1 .. raw.R |-> row[p[jj]]][k] = v}
  OBVIOUS
<1> QED BY <1>7, <1>8 DEF CountIn

\* The tool that sorts rows by degree leaves one.
LEMMA DegreeWritesKeep ==
  ASSUME LayoutInv, DegreeWrites
  PROVE  LayoutInv'
<1>1. PICK by \in [Vertices -> Bijection(1 .. raw.R, 1 .. raw.R)] :
        ToolEnds([img EXCEPT !.bundle = <<>>,
                      !.gfile = [uu \in Vertices |-> [k \in 1 .. raw.R |-> img.gfile[uu][by[uu][k]]]]])
  BY DEF DegreeWrites
<1> DEFINE rows == [uu \in Vertices |-> [k \in 1 .. raw.R |-> img.gfile[uu][by[uu][k]]]]
           im == [img EXCEPT !.bundle = <<>>, !.gfile = rows]
<1>2. Degree /\ stage = "write"
  BY DEF DegreeWrites
<1>3. img # NoImage /\ img.hdr.version = 1
  BY <1>2 DEF LayoutInv, ToolInput, Degree, Bfs
<1>4. raw \in Raws /\ DataOk(raw, img) /\ IdsOf(raw) = Vertices
  BY <1>3, ImageAt
<1>5. IsMapOn(img, ImageFields) /\ img.gfile \in [Vertices -> [1 .. raw.R -> Vertices]]
  BY <1>4 DEF DataOk, FullRows
<1>6. rows \in FullRows(raw)
  <2>1. \A uu \in Vertices, k \in 1 .. raw.R : by[uu][k] \in 1 .. raw.R
    BY DEF Bijection, Injection
  <2> QED BY <1>4, <1>5, <2>1 DEF FullRows
<1>7. \A uu \in Vertices, v \in Vertices : CountIn(raw, rows[uu], v) = CountIn(raw, img.gfile[uu], v)
  <2> SUFFICES ASSUME NEW uu \in Vertices, NEW v \in Vertices
               PROVE  CountIn(raw, rows[uu], v) = CountIn(raw, img.gfile[uu], v)
    OBVIOUS
  <2>1. by[uu] \in Bijection(1 .. raw.R, 1 .. raw.R)
    OBVIOUS
  <2>2. rows[uu] = [k \in 1 .. raw.R |-> img.gfile[uu][by[uu][k]]]
    OBVIOUS
  <2> DEFINE row == img.gfile[uu]
             q == by[uu]
  <2>3. rows[uu] = [k \in 1 .. raw.R |-> row[q[k]]] /\ q \in Bijection(1 .. raw.R, 1 .. raw.R)
    BY <2>1, <2>2
  <2> HIDE DEF rows, row, q
  <2>4. CountIn(raw, [k \in 1 .. raw.R |-> row[q[k]]], v) = CountIn(raw, row, v)
    BY <1>4, <2>3, CountPermuted
  <2> QED BY <2>3, <2>4 DEF row
<1> HIDE DEF rows
<1>8. IsMapOn(im, ImageFields) /\ im.bundle = <<>> /\ im.gfile = rows /\ \A f \in ImageFields \ {"bundle", "gfile"} : im[f] = img[f]
  BY <1>5 DEF IsMapOn, ImageFields
<1>9. ToolEnds(im)
  BY <1>1 DEF rows
<1> HIDE DEF im
<1>10. /\ im.hdr = img.hdr /\ im.graph = img.graph /\ im.vec = img.vec /\ im.pq = img.pq /\ im.entries = img.entries
       /\ im.map = img.map /\ im.from = img.from /\ im.nav = img.nav
  BY <1>8 DEF ImageFields
<1>11. im.nav = NoNav
  BY <1>3, <1>4, <1>10 DEF DataOk, SamplesOf
<1>12. Copied(raw, im) /\ SamplesOf(raw, im) /\ MadeFrom(raw, im) /\ EdgesKept(raw, im)
  BY <1>3, <1>4, <1>8, <1>10, <1>11 DEF DataOk, Copied, SamplesOf, MadeFrom, EdgesKept
<1>13. \A uu \in IdsOf(raw), v \in IdsOf(raw) : CountIn(raw, im.gfile[uu], v) = CountIn(raw, im.graph[uu], v)
  BY <1>4, <1>7, <1>8, <1>10 DEF DataOk
<1>14. DataOk(raw, im)
  BY <1>3, <1>4, <1>6, <1>8, <1>10, <1>12, <1>13 DEF DataOk
<1> QED BY <1>2, <1>9, <1>14, EndsKeep

\* The navigation graph's samples are the image's vectors and rows.
LEMMA NavWritesKeep ==
  ASSUME LayoutInv, NavWrites
  PROVE  LayoutInv'
<1> DEFINE Plain == [hdr |-> img.hdr, id_to_slot |-> NoMap, slot_to_id |-> NoMap]
           At(id) == (entry(Plain, id) - img.hdr.off_vectors) \div vec_stride(img.hdr)
           Rec(ids) == [i \in DOMAIN ids |-> [vec |-> img.vec[At(ids[i])], nbrs |-> img.graph[At(ids[i])]]]
<1>1. PICK ids \in [1 .. Min({NavN, raw.n}) -> Vertices] :
        ToolEnds([img EXCEPT !.nav = [ids |-> ids, recs |-> Rec(ids)]])
  BY DEF NavWrites
<1>2. Nav /\ stage = "write"
  BY DEF NavWrites
<1>3. img # NoImage /\ img.hdr.version = 2
  BY <1>2 DEF LayoutInv, ToolInput, Nav, Bfs
<1>4. raw \in Raws /\ DataOk(raw, img) /\ HeaderOk(raw, img.hdr) /\ IdsOf(raw) = Vertices
  BY <1>3, ImageAt
<1>5. IsMapOn(img, ImageFields) /\ img.graph = img.gfile
  BY <1>3, <1>4 DEF DataOk
<1>6. \A id \in Vertices : At(id) = id
  <2> SUFFICES ASSUME NEW id \in Vertices PROVE At(id) = id
    OBVIOUS
  <2> DEFINE s == vec_stride(img.hdr)
             o == img.hdr.off_vectors
  <2>1. s \in Nat /\ s > 0 /\ o \in Nat /\ id \in Nat
    BY <1>4, HeaderNats, RawIs DEF Vertices
  <2>2. Plain.hdr = img.hdr /\ slot_of(Plain, id) = id
    BY DEF slot_of, NoMap
  <2>3. entry(Plain, id) = o + id * s
    BY <2>2 DEF entry
  <2> HIDE DEF s, o, Plain
  <2>4. id * s \in Nat
    BY <2>1
  <2>5. (o + id * s) - o = id * s
    BY <2>1, <2>4
  <2>6. (id * s) \div s = id
    BY <2>1, OffsetIs
  <2> QED BY <2>3, <2>5, <2>6 DEF s, o
<1>7. ids \in Seq(Vertices) /\ DOMAIN ids \subseteq 1 .. Min({NavN, raw.n}) /\ \A i \in DOMAIN ids : ids[i] \in Vertices
  <2>1. Min({NavN, raw.n}) \in Nat
    BY <1>4, NavConstants, RawIs, MinOfTwo
  <2> DEFINE m == Min({NavN, raw.n})
  <2>2. ids \in [1 .. m -> Vertices] /\ m \in Nat
    BY <2>1
  <2> HIDE DEF m
  <2>3. ids \in Seq(Vertices)
    BY <2>2, IsASeq
  <2> QED BY <2>2, <2>3 DEF m
<1> HIDE DEF At
<1> DEFINE nav == [ids |-> ids, recs |-> Rec(ids)]
           im == [img EXCEPT !.nav = nav]
<1>8. nav.ids = ids /\ \A i \in DOMAIN ids : nav.recs[i] = [vec |-> img.vec[ids[i]], nbrs |-> img.gfile[ids[i]]]
  BY <1>5, <1>6, <1>7
<1>9. ToolEnds(im)
  BY <1>1
<1> HIDE DEF nav
<1>10. IsMapOn(im, ImageFields) /\ im.nav = nav /\ \A f \in ImageFields \ {"nav"} : im[f] = img[f]
  BY <1>5 DEF IsMapOn, ImageFields
<1> HIDE DEF im
<1>11. /\ im.hdr = img.hdr /\ im.graph = img.graph /\ im.vec = img.vec /\ im.pq = img.pq /\ im.entries = img.entries
       /\ im.map = img.map /\ im.from = img.from /\ im.gfile = img.gfile /\ im.bundle = img.bundle
  BY <1>10 DEF ImageFields
<1>12. SamplesOf(raw, im)
  BY <1>3, <1>4, <1>7, <1>8, <1>10, <1>11, ZenonT(60) DEF SamplesOf
<1>13. Copied(raw, im) /\ MadeFrom(raw, im)
  BY <1>4, <1>11 DEF DataOk, Copied, MadeFrom
<1>14. DataOk(raw, im)
  BY <1>3, <1>4, <1>10, <1>11, <1>12, <1>13 DEF DataOk
<1> QED BY <1>2, <1>9, <1>14, EndsKeep

\* The header reorder_bfs writes is good.
LEMMA BfsHeaderIs ==
  ASSUME raw \in Raws, NewId(Clamped(raw.entry)) \in Nat
  PROVE  /\ HeaderOk(raw, BfsHeader) /\ BfsHeader.version = 1 /\ BfsHeader.entry_id = NewId(Clamped(raw.entry))
         /\ BfsHeader.entry_nodes = Min({EntryNodes, raw.n}) /\ BfsHeader.entry_nodes \in 1 .. raw.n
<1> DEFINE e == NewId(Clamped(raw.entry))
           k == Min({EntryNodes, raw.n})
           h == [version |-> 1, n |-> raw.n, R |-> raw.R, packed |-> raw.packed, pq_bytes |-> 32,
                 entry_id |-> e, entry_nodes |-> k,
                 off_pq |-> 0, len_pq |-> 0, off_graph |-> 0, len_graph |-> 0,
                 off_vectors |-> 0, len_vectors |-> 0, off_pivots |-> 0, len_pivots |-> 0]
           st == raw.packed
           l == BfsHeader
<1>1. raw.n \in Nat /\ raw.n > 0 /\ raw.R \in Nat /\ st \in Nat /\ st >= raw.packed /\ e \in Nat
  BY RawIs
<1>2. k \in 1 .. raw.n
  BY <1>1, LayoutConstants, MinOfTwo, SMTT(30)
<1>3. l = Laid(h, 4096, raw.n * 32, raw.n * raw.R * 4, raw.n * st, 65536)
  BY DEF BfsHeader
<1>4. /\ h.version = 1 /\ h.pq_bytes = 32 /\ h.n = raw.n /\ h.R = raw.R /\ h.packed = raw.packed
      /\ h.entry_id = e /\ h.entry_nodes = k
  OBVIOUS
<1>5. DOMAIN h = HeaderFields
  BY DEF HeaderFields, Offsets
<1>6. \A f \in HeaderFields : h[f] \in Nat
  <2> HIDE DEF e, k
  <2> QED BY <1>1, <1>2 DEF HeaderFields, Offsets
<1> HIDE DEF e, k, h, st, l
<1>7. HeaderTypes(raw, h)
  BY <1>4, <1>5, <1>6 DEF HeaderTypes
<1>8. HeaderOk(raw, l) /\ l.entry_id = h.entry_id /\ l.entry_nodes = h.entry_nodes /\ l.version = 1
  BY <1>1, <1>3, <1>4, <1>7, LaidIs
<1> QED BY <1>2, <1>4, <1>8 DEF e, k, l

\* And so is its image.
LEMMA BfsWritesKeep ==
  ASSUME LayoutInv, BfsWrites
  PROVE  LayoutInv'
<1> DEFINE im == [hdr |-> BfsHeader, graph |-> BfsGraph, vec |-> BfsVectors, pq |-> BfsVectors,
                  entries |-> BfsEntries, gfile |-> BfsGraph, map |-> order,
                  from |-> NoImage, bundle |-> <<>>, nav |-> NoNav]
<1>1. /\ Bfs /\ stage = "rest" /\ Len(order) = raw.n /\ out' = im /\ stage' = "files"
      /\ UNCHANGED <<raw, img, tool, made, order, queue, mark, todo, heap, next_id, ticket>>
  BY DEF BfsWrites, AllAssigned, permVars, copyVars
<1>2. raw \in Raws /\ order \in Seq(Vertices) /\ IsInjective(order)
  BY <1>1 DEF LayoutInv, LayoutTypes, OnceOrdered
<1>3. /\ \A v \in Vertices : NewId(v) \in Vertices /\ order[NewId(v) + 1] = v
      /\ \A i \in Vertices : i + 1 \in 1 .. Len(order) /\ order[i + 1] \in Vertices
  BY <1>1, <1>2, NewIdIs, FullOrder
<1>4. IdsOf(raw) = Vertices /\ Vertices \subseteq Nat /\ raw.R \in Nat /\ raw.n \in Nat
  BY <1>2, RawIs DEF IdsOf, Vertices
<1> DEFINE e == NewId(Clamped(raw.entry))
<1>5. e \in Vertices /\ order[e + 1] = Clamped(raw.entry) /\ e \in Nat
  BY <1>2, <1>3, <1>4, EntryIn
<1>6. /\ HeaderOk(raw, BfsHeader) /\ BfsHeader.version = 1 /\ BfsHeader.entry_id = e
      /\ BfsHeader.entry_nodes \in 1 .. raw.n
  BY <1>2, <1>5, BfsHeaderIs
<1> HIDE DEF e
<1>7. IsMapOn(im, ImageFields)
  BY DEF IsMapOn, ImageFields
<1>8. /\ im.hdr = BfsHeader /\ im.graph = BfsGraph /\ im.vec = BfsVectors /\ im.pq = BfsVectors /\ im.entries = BfsEntries
      /\ im.gfile = BfsGraph /\ im.from = NoImage /\ im.bundle = <<>> /\ im.nav = NoNav
  OBVIOUS
<1> HIDE DEF im
<1>9. BfsVectors \in [Vertices -> Vertices] /\ \A i \in Vertices : BfsVectors[i] = order[i + 1]
  BY <1>3 DEF BfsVectors
<1>10. IsInjective(BfsVectors)
  <2> SUFFICES ASSUME NEW i \in Vertices, NEW jj \in Vertices, BfsVectors[i] = BfsVectors[jj]
               PROVE  i = jj
    BY <1>9 DEF IsInjective
  <2>1. \A a, b \in 1 .. Len(order) : order[a] = order[b] => a = b
    BY <1>2 DEF IsInjective
  <2>2. i + 1 = jj + 1
    BY <1>3, <1>9, <2>1
  <2> QED BY <1>4, <2>2
<1>11. ASSUME NEW i \in Vertices
       PROVE  /\ BfsGraph[i] \in [1 .. raw.R -> Vertices]
              /\ \A k \in 1 .. raw.R : raw.graph[order[i + 1]][k] < raw.n => order[BfsGraph[i][k] + 1] = raw.graph[order[i + 1]][k]
  <2> DEFINE row == raw.graph[order[i + 1]]
  <2>1. order[i + 1] \in Vertices
    BY <1>3
  <2>2. row \in Seq(Nat) /\ Len(row) = raw.R
    <3>1. raw.graph \in [Vertices -> Seq(Nat)] /\ \A uu \in Vertices : Len(raw.graph[uu]) = raw.R
      BY <1>1, <1>2, RawIs DEF LayoutInv, ToolInput
    <3> QED BY <2>1, <3>1
  <2>3. BfsGraph[i] = RemappedRow(row)
    BY DEF BfsGraph
  <2> HIDE DEF row
  <2>4. \A k \in 1 .. raw.R : row[k] \in Nat
    BY <2>2
  <2>5. /\ RemappedRow(row) \in [1 .. raw.R -> Vertices]
        /\ \A k \in 1 .. raw.R : row[k] < raw.n => order[RemappedRow(row)[k] + 1] = row[k]
    BY <1>1, <1>2, <2>4, RemappedRowIs
  <2> QED BY <2>3, <2>5 DEF row
<1>12. BfsGraph \in FullRows(raw)
  <2>1. BfsGraph = [i \in Vertices |-> BfsGraph[i]]
    BY DEF BfsGraph
  <2> QED BY <1>4, <1>11, <2>1 DEF FullRows
<1>13. EdgesKept(raw, im)
  <2> SUFFICES ASSUME NEW i \in Vertices, NEW k \in 1 .. raw.R, raw.graph[BfsVectors[i]][k] < raw.n
               PROVE  BfsVectors[BfsGraph[i][k]] = raw.graph[BfsVectors[i]][k]
    BY <1>4, <1>8, ZenonT(60) DEF EdgesKept
  <2>1. BfsGraph[i][k] \in Vertices
    BY <1>11
  <2> QED BY <1>9, <1>11, <2>1
<1>14. BfsVectors[e] = EntryOf(raw)
  <2>1. Clamped(raw.entry) = EntryOf(raw)
    BY DEF Clamped, EntryOf
  <2> QED BY <1>5, <1>9, <2>1
<1>15. BfsEntries \in Seq(Vertices)
  <2>1. AllIds \in Seq(Vertices) /\ Len(AllIds) = raw.n
    BY <1>2, AllIdsSeq
  <2>2. 1 \in 1 .. Len(AllIds) + 1 /\ BfsHeader.entry_nodes \in 1 - 1 .. Len(AllIds)
    BY <1>4, <1>6, <2>1
  <2> QED BY <2>1, <2>2, SubSeqProperties DEF BfsEntries
<1>16. Copied(raw, im) /\ SamplesOf(raw, im) /\ MadeFrom(raw, im)
  BY <1>8 DEF Copied, SamplesOf, MadeFrom
<1>17. DataOk(raw, im)
  BY <1>4, <1>5, <1>6, <1>7, <1>8, <1>9, <1>10, <1>12, <1>13, <1>14, <1>15, <1>16 DEF DataOk
<1>18. Vertices' = Vertices
  BY <1>1 DEF Vertices
<1>19. LayoutTypes'
  BY <1>1, <1>18 DEF LayoutInv, LayoutTypes
<1>20. ToolInput'
  <2>1. (\A uu \in Vertices : Len(raw.graph[uu]) = raw.R)'
    BY <1>1, <1>18 DEF LayoutInv, ToolInput
  <2> QED BY <1>1, <2>1 DEF LayoutInv, ToolInput, Bfs, Renumbers, Pagebin, Bundle, Pagealign, Diskann, Nbr, Degree, Nav
<1>21. OnceOrdered'
  BY <1>1, <1>2 DEF OnceOrdered
<1>22. ImagesOk' /\ Copying'
  BY <1>1, <1>17 DEF LayoutInv, ImagesOk, Copying
<1> QED BY <1>19, <1>20, <1>21, <1>22 DEF LayoutInv


-----------------------------------------------------------------------------
(* The blocks: what each step does to the counts and the buckets.          *)

\* The types of what the block packer uses.
LEMMA BlockTypes ==
  ASSUME LayoutInv, HeapOk, Blocking
  PROVE  /\ raw \in Raws /\ raw.R \in Nat \ {0} /\ raw.n \in Nat /\ IdsOf(raw) = Vertices /\ img # NoImage
         /\ IsMapOn(heap, HeapFields) /\ heap.rem \in [Vertices -> 0 .. raw.R]
         /\ heap.buckets \in [Buckets(raw) -> Seq(Vertices)] /\ heap.h \in {0, 1} /\ heap.r \in 0 .. raw.R
         /\ heap.edges \subseteq EdgesOf(raw) /\ order \in Seq(Vertices) /\ IsInjective(order) /\ todo \in Seq(Nat)
         /\ \A uu \in Vertices : Row(uu) \in [1 .. raw.R -> Vertices]
         /\ \A w \in Vertices : Bucket(w) \in Buckets(raw)
<1>1. raw \in Raws /\ order \in Seq(Vertices) /\ IsInjective(order) /\ todo \in Seq(Nat)
  BY DEF LayoutInv, LayoutTypes, OnceOrdered, Blocking
<1>2. img # NoImage
  BY DEF LayoutInv, ToolInput, Blocking, Bundle, Bfs
<1>3. raw.R \in Nat \ {0} /\ raw.n \in Nat
  BY <1>1, RawIs
<1>4. IdsOf(raw) = Vertices
  BY DEF IdsOf, Vertices
<1>5. HeapTypes(raw, heap)
  BY DEF HeapOk
<1>6. \A uu \in Vertices : Row(uu) \in [1 .. raw.R -> Vertices]
  BY <1>2, ImageAt DEF Row
<1>7. \A w \in Vertices : Bucket(w) \in Buckets(raw)
  BY <1>4, <1>5 DEF Bucket, Hot, Buckets, HeapTypes
<1> QED BY <1>1, <1>2, <1>3, <1>4, <1>5, <1>6, <1>7 DEF HeapTypes

\* A vertex is filed.
LEMMA FilesIs ==
  ASSUME LayoutInv, HeapOk, BundleFilesVertex, todo # <<>>
  PROVE  /\ Blocking /\ stage' = "file" /\ todo' = Tail(todo) /\ todo' \in Seq(Vertices) /\ Head(todo) \in Vertices
         /\ UNCHANGED <<raw, img, out, tool, made, order, queue, mark, copyVars>>
         /\ IsMapOn(heap', HeapFields) /\ \A f \in HeapFields \ {"buckets"} : heap'[f] = heap[f]
         /\ heap'.buckets = [heap.buckets EXCEPT ![Bucket(Head(todo))] = Append(heap.buckets[Bucket(Head(todo))], Head(todo))]
<1>1. Blocking /\ stage = "file" /\ stage' = "file" /\ todo' = Tail(todo) /\ UNCHANGED <<raw, img, out, tool, made, order, queue, mark, copyVars>>
  BY DEF BundleFilesVertex, Blocking
<1>2. todo \in Seq(Vertices)
  BY <1>1 DEF HeapOk
<1>3. Tail(todo) \in Seq(Vertices) /\ Head(todo) \in Vertices
  BY <1>2, HeadTail
<1>4. IsMapOn(heap, HeapFields)
  BY <1>1, BlockTypes
<1> DEFINE bs == [heap.buckets EXCEPT ![Bucket(Head(todo))] = Append(heap.buckets[Bucket(Head(todo))], Head(todo))]
<1>5. heap' = [heap EXCEPT !.buckets = bs]
  BY <1>4 DEF BundleFilesVertex, IsMapOn, HeapFields
<1> HIDE DEF bs
<1>6. IsMapOn(heap', HeapFields) /\ heap'.buckets = bs /\ \A f \in HeapFields \ {"buckets"} : heap'[f] = heap[f]
  BY <1>4, <1>5 DEF IsMapOn, HeapFields
<1> QED BY <1>1, <1>3, <1>6 DEF bs

\* A bucket is popped: uu is the last vertex of the highest bucket b.
BlockEdges(uu) == {e \in PlacesIn(uu, Unplaced) \X Vertices \X (1 .. raw.R) : Row(e[2])[e[3]] = Row(uu)[e[1]]}
Popped(b, uu) ==
  /\ b \in Buckets(raw) /\ uu \in Vertices /\ heap.buckets[b] # <<>> /\ uu = Last(heap.buckets[b])
  /\ Below(b) /\ \A c \in Filled : Under(c, b[1], b[2])
  /\ IsMapOn(heap', HeapFields) /\ heap'.hot = heap.hot /\ heap'.h = b[1] /\ heap'.r = b[2]
  /\ heap'.buckets = [heap.buckets EXCEPT ![b] = Front(heap.buckets[b])]
PopsStale(b, uu) ==
  (Bucket(uu) # b \/ heap.rem[uu] = 0) /\ heap'.rem = heap.rem /\ heap'.edges = heap.edges /\ UNCHANGED <<todo, stage>>
PopsDone(b, uu) ==
  /\ Bucket(uu) = b /\ PlacesIn(uu, Unplaced) = {}
  /\ heap'.rem = [heap.rem EXCEPT ![uu] = 0] /\ heap'.edges = heap.edges /\ UNCHANGED <<todo, stage>>
PopsBlock(b, uu) ==
  /\ Bucket(uu) = b /\ heap.rem[uu] # 0 /\ PlacesIn(uu, Unplaced) # {}
  /\ heap'.rem = heap.rem /\ heap'.edges = BlockEdges(uu) /\ heap'.of = uu /\ todo' = Row(uu) /\ stage' = "place"

\* What choosing a block does, by what is popped: stale, done or a block's seed.
LEMMA BlockIs ==
  ASSUME LayoutInv, HeapOk, BundleBlock
  PROVE  /\ Blocking /\ stage = "blocks" /\ UNCHANGED <<raw, img, out, tool, made, order, queue, mark, copyVars>>
         /\ \E b \in Buckets(raw), uu \in Vertices : Popped(b, uu) /\ (PopsStale(b, uu) \/ PopsDone(b, uu) \/ PopsBlock(b, uu))
<1>1. Blocking /\ stage = "blocks" /\ UNCHANGED <<raw, img, out, tool, made, order, queue, mark, copyVars>>
  BY DEF BundleBlock, Blocking
<1>2. PICK b \in Filled :
       LET uu      == Last(heap.buckets[b])
           popped == [heap EXCEPT !.buckets[b] = Front(@), !.h = b[1], !.r = b[2]]
           block  == PlacesIn(uu, Unplaced)
       IN  /\ \A c \in Filled : Under(c, b[1], b[2])
           /\ IF Bucket(uu) # b \/ heap.rem[uu] = 0
              THEN heap' = popped /\ UNCHANGED <<todo, stage>>
              ELSE IF block = {}
              THEN heap' = [popped EXCEPT !.rem[uu] = 0] /\ UNCHANGED <<todo, stage>>
              ELSE /\ heap' = [popped EXCEPT !.of = uu, !.edges = BlockEdges(uu)]
                   /\ todo' = Row(uu) /\ stage' = "place"
  BY DEF BundleBlock, BlockEdges
<1> DEFINE uu == Last(heap.buckets[b])
           bs == [heap.buckets EXCEPT ![b] = Front(heap.buckets[b])]
           rs == [heap.rem EXCEPT ![uu] = 0]
           p  == [heap EXCEPT !.buckets = bs, !.h = b[1], !.r = b[2]]
<1>3. b \in Buckets(raw) /\ heap.buckets[b] # <<>> /\ Below(b) /\ uu \in Vertices
  <2>1. b \in DOMAIN heap.buckets /\ heap.buckets[b] # <<>> /\ Below(b)
    BY DEF Filled
  <2> QED BY <1>1, <2>1, LastFiled, BlockTypes DEF HeapOk
<1>4. IsMapOn(heap, HeapFields)
  BY <1>1, BlockTypes
<1>5. [heap EXCEPT !.buckets[b] = Front(@), !.h = b[1], !.r = b[2]] = p
  BY <1>4 DEF IsMapOn, HeapFields
<1> DEFINE es == BlockEdges(uu)
<1>10. /\ \A c \in Filled : Under(c, b[1], b[2])
       /\ IF Bucket(uu) # b \/ heap.rem[uu] = 0
          THEN heap' = p /\ UNCHANGED <<todo, stage>>
          ELSE IF PlacesIn(uu, Unplaced) = {}
          THEN heap' = [p EXCEPT !.rem[uu] = 0] /\ UNCHANGED <<todo, stage>>
          ELSE /\ heap' = [p EXCEPT !.of = uu, !.edges = es]
               /\ todo' = Row(uu) /\ stage' = "place"
  BY <1>2, <1>5, Zenon
<1>6. /\ IsMapOn(p, HeapFields) /\ p.hot = heap.hot /\ p.h = b[1] /\ p.r = b[2] /\ p.buckets = bs
      /\ p.rem = heap.rem /\ p.edges = heap.edges
  <2> HIDE DEF bs
  <2> QED BY <1>4 DEF IsMapOn, HeapFields
<1> HIDE DEF p
<1> SUFFICES Popped(b, uu) /\ (PopsStale(b, uu) \/ PopsDone(b, uu) \/ PopsBlock(b, uu))
  BY <1>1, <1>3
<1>7. CASE Bucket(uu) # b \/ heap.rem[uu] = 0
  <2>1. heap' = p /\ UNCHANGED <<todo, stage>>
    BY <1>7, <1>10
  <2> QED BY <1>3, <1>6, <1>7, <1>10, <2>1 DEF Popped, PopsStale
<1>8. CASE ~(Bucket(uu) # b \/ heap.rem[uu] = 0) /\ PlacesIn(uu, Unplaced) = {}
  <2>1. heap' = [p EXCEPT !.rem[uu] = 0] /\ UNCHANGED <<todo, stage>>
    BY <1>8, <1>10
  <2>2. heap' = [p EXCEPT !.rem = rs]
    BY <1>6, <2>1 DEF IsMapOn, HeapFields
  <2>3. /\ IsMapOn(heap', HeapFields) /\ heap'.hot = p.hot /\ heap'.h = p.h /\ heap'.r = p.r /\ heap'.buckets = p.buckets
        /\ heap'.rem = rs /\ heap'.edges = p.edges
    <3> HIDE DEF rs
    <3> QED BY <1>6, <2>2 DEF IsMapOn, HeapFields
  <2> QED BY <1>3, <1>6, <1>8, <1>10, <2>1, <2>3 DEF Popped, PopsDone
<1>9. CASE ~(Bucket(uu) # b \/ heap.rem[uu] = 0) /\ PlacesIn(uu, Unplaced) # {}
  <2>1. heap' = [p EXCEPT !.of = uu, !.edges = es] /\ todo' = Row(uu) /\ stage' = "place"
    BY <1>9, <1>10
  <2>3. /\ IsMapOn(heap', HeapFields) /\ heap'.hot = p.hot /\ heap'.h = p.h /\ heap'.r = p.r /\ heap'.buckets = p.buckets
        /\ heap'.rem = p.rem /\ heap'.edges = es /\ heap'.of = uu
    <3> HIDE DEF uu, es
    <3> QED BY <1>6, <2>1 DEF IsMapOn, HeapFields
  <2> QED BY <1>3, <1>6, <1>9, <1>10, <2>1, <2>3 DEF Popped, PopsBlock
<1> QED BY <1>7, <1>8, <1>9

\* An edge is gone over.
LEMMA UnplaceIs ==
  ASSUME LayoutInv, HeapOk, Blocking, NEW e \in heap.edges, heap' = Unplace(e)
  PROVE  LET w == e[2]
             b == <<Hot(w), heap.rem[w] - 1>>
         IN  /\ w \in Vertices /\ IsMapOn(heap', HeapFields) /\ heap'.hot = heap.hot /\ heap'.of = heap.of
             /\ heap'.edges = heap.edges \ {e}
             /\ heap.rem[w] = 0 => heap'.rem = heap.rem /\ heap'.buckets = heap.buckets /\ heap'.h = heap.h /\ heap'.r = heap.r
             /\ heap.rem[w] # 0 =>
                  /\ b \in Buckets(raw) /\ heap'.rem = [heap.rem EXCEPT ![w] = b[2]]
                  /\ heap'.buckets = [heap.buckets EXCEPT ![b] = Append(heap.buckets[b], w)]
                  /\ heap'.h = (IF Below(b) THEN heap.h ELSE b[1]) /\ heap'.r = (IF Below(b) THEN heap.r ELSE b[2])
<1> DEFINE w == e[2]
           b == <<Hot(w), heap.rem[w] - 1>>
           es == heap.edges \ {e}
           rs == [heap.rem EXCEPT ![w] = b[2]]
           bs == [heap.buckets EXCEPT ![b] = Append(heap.buckets[b], w)]
           nh == IF Below(b) THEN heap.h ELSE b[1]
           nr == IF Below(b) THEN heap.r ELSE b[2]
<1>1. w \in Vertices /\ IsMapOn(heap, HeapFields) /\ heap.rem[w] \in 0 .. raw.R /\ raw.R \in Nat
  <2>1. e \in EdgesOf(raw) /\ IdsOf(raw) = Vertices
    BY BlockTypes
  <2>2. w \in Vertices
    BY <2>1 DEF EdgesOf
  <2> QED BY <2>2, BlockTypes
<1>2. CASE heap.rem[w] = 0
  <2>1. heap' = [heap EXCEPT !.edges = es]
    BY <1>2 DEF Unplace
  <2> HIDE DEF es
  <2>2. IsMapOn(heap', HeapFields) /\ heap'.edges = es /\ \A f \in HeapFields \ {"edges"} : heap'[f] = heap[f]
    BY <1>1, <2>1 DEF IsMapOn, HeapFields
  <2>3. heap'.hot = heap.hot /\ heap'.of = heap.of /\ heap'.rem = heap.rem /\ heap'.buckets = heap.buckets /\ heap'.h = heap.h /\ heap'.r = heap.r
    BY <2>2 DEF HeapFields
  <2> QED BY <1>1, <1>2, <2>2, <2>3 DEF es
<1>3. CASE heap.rem[w] # 0
  <2>0. heap' = [heap EXCEPT !.edges = @ \ {e}, !.rem[w] = b[2], !.buckets[b] = Append(@, w),
                        !.h = IF Below(b) THEN @ ELSE b[1], !.r = IF Below(b) THEN @ ELSE b[2]]
    BY <1>3, Zenon DEF Unplace
  <2>1. heap' = [heap EXCEPT !.edges = es, !.rem = rs, !.buckets = bs, !.h = nh, !.r = nr]
    BY <1>1, <2>0 DEF IsMapOn, HeapFields
  <2>4. b \in Buckets(raw)
    BY <1>1, <1>3 DEF Buckets, Hot
  <2>2. /\ IsMapOn(heap', HeapFields) /\ heap'.edges = es /\ heap'.rem = rs /\ heap'.buckets = bs /\ heap'.h = nh /\ heap'.r = nr
        /\ heap'.hot = heap.hot /\ heap'.of = heap.of
    <3> HIDE DEF es, rs, bs, nh, nr
    <3> QED BY <1>1, <2>1 DEF IsMapOn, HeapFields
  <2> HIDE DEF b, w
  <2> QED BY <1>1, <1>3, <2>2, <2>4 DEF b, w
<1> QED BY <1>2, <1>3

\* A set of places of a row is finite, and no larger than the row.
LEMMA PlacesBound ==
  ASSUME raw \in Raws, NEW A \in SUBSET (1 .. raw.R)
  PROVE  IsFiniteSet(A) /\ Cardinality(A) \in 0 .. raw.R
<1>1. raw.R \in Nat
  BY RawIs
<1>2. IsFiniteSet(1 .. raw.R) /\ Cardinality(1 .. raw.R) = raw.R
  BY <1>1, FS_Interval, SMTT(30)
<1>3. IsFiniteSet(A) /\ Cardinality(A) <= raw.R
  BY <1>2, FS_Subset
<1> QED BY <1>1, <1>3, FS_CardinalityType

\* Counts, buckets and cursor stay within their bounds.
LEMMA HeapKeeps ==
  ASSUME LayoutInv, HeapOk, BundleBlocksBegin \/ BundleFilesVertex \/ BundleBlock \/ BundlePlaces \/ BundleUnplaces
  PROVE  HeapOk'
<1>1. CASE BundleBlocksBegin
  <2>1. raw \in Raws /\ raw' = raw /\ stage' = "file" /\ todo' = AllIds /\ Vertices' = Vertices
    BY <1>1 DEF BundleBlocksBegin, LayoutInv, LayoutTypes, Vertices
  <2>2. heap' = [rem |-> [uu \in Vertices |-> Cardinality(PlacesIn(uu, Vertices))],
              hot |-> {order[i] : i \in 1 .. Min({HotN, Len(order)})},
              buckets |-> [b \in {0, 1} \X (0 .. raw.R) |-> <<>>], h |-> 1, r |-> raw.R,
              of |-> 0, edges |-> {}]
    BY <1>1 DEF BundleBlocksBegin
  <2> DEFINE rs == [uu \in Vertices |-> Cardinality(PlacesIn(uu, Vertices))]
             hs == {order[i] : i \in 1 .. Min({HotN, Len(order)})}
             bs == [b \in {0, 1} \X (0 .. raw.R) |-> <<>>]
  <2>3. \A uu \in Vertices : Cardinality(PlacesIn(uu, Vertices)) \in 0 .. raw.R
    BY <2>1, PlacesBound DEF PlacesIn
  <2>4. rs \in [Vertices -> 0 .. raw.R]
    BY <2>3
  <2>5. bs \in [Buckets(raw) -> Seq(Vertices)]
    BY DEF Buckets
  <2>6. heap' = [rem |-> rs, hot |-> hs, buckets |-> bs, h |-> 1, r |-> raw.R, of |-> 0, edges |-> {}]
    BY <2>2
  <2> HIDE DEF rs, hs, bs
  <2>7. /\ IsMapOn(heap', HeapFields) /\ heap'.rem = rs /\ heap'.buckets = bs /\ heap'.h = 1 /\ heap'.r = raw.R
        /\ heap'.edges = {}
    BY <2>6 DEF IsMapOn, HeapFields
  <2>8. IdsOf(raw) = Vertices /\ raw.R \in Nat
    BY <2>1, RawIs DEF IdsOf, Vertices
  <2>9. HeapTypes(raw, heap')
    BY <2>4, <2>5, <2>7, <2>8 DEF HeapTypes
  <2> QED BY <2>1, <2>9, AllIdsSeq DEF HeapOk
<1>2. CASE BundleFilesVertex /\ todo # <<>>
  <2>1. /\ Blocking /\ stage' = "file" /\ todo' = Tail(todo) /\ todo' \in Seq(Vertices) /\ Head(todo) \in Vertices
        /\ raw' = raw /\ IsMapOn(heap', HeapFields) /\ \A f \in HeapFields \ {"buckets"} : heap'[f] = heap[f]
        /\ heap'.buckets = [heap.buckets EXCEPT ![Bucket(Head(todo))] = Append(heap.buckets[Bucket(Head(todo))], Head(todo))]
    BY <1>2, FilesIs
  <2>2. Vertices' = Vertices /\ IdsOf(raw) = Vertices
    BY <2>1 DEF Vertices, IdsOf
  <2>3. heap'.rem = heap.rem /\ heap'.h = heap.h /\ heap'.r = heap.r /\ heap'.edges = heap.edges
    BY <2>1 DEF HeapFields
  <2>4. /\ heap.rem \in [Vertices -> 0 .. raw.R] /\ heap.buckets \in [Buckets(raw) -> Seq(Vertices)]
        /\ heap.h \in {0, 1} /\ heap.r \in 0 .. raw.R /\ heap.edges \subseteq EdgesOf(raw)
        /\ Bucket(Head(todo)) \in Buckets(raw)
    BY <2>1, BlockTypes
  <2>5. Append(heap.buckets[Bucket(Head(todo))], Head(todo)) \in Seq(Vertices)
    BY <2>1, <2>4, AppendProperties
  <2>6. heap'.buckets \in [Buckets(raw) -> Seq(Vertices)]
    BY <2>1, <2>4, <2>5
  <2> QED BY <2>1, <2>2, <2>3, <2>4, <2>6 DEF HeapOk, HeapTypes
<1>3. CASE BundleFilesVertex /\ todo = <<>>
  BY <1>3 DEF BundleFilesVertex, HeapOk, Blocking, HeapTypes
<1>4. CASE BundleBlock
  <2>1. Blocking /\ stage = "blocks" /\ raw' = raw
    BY <1>4, BlockIs
  <2>2. PICK b \in Buckets(raw), uu \in Vertices : Popped(b, uu) /\ (PopsStale(b, uu) \/ PopsDone(b, uu) \/ PopsBlock(b, uu))
    BY <1>4, BlockIs
  <2>3. stage' \in {"blocks", "place"}
    BY <2>1, <2>2 DEF PopsStale, PopsDone, PopsBlock
  <2>4. /\ heap.rem \in [Vertices -> 0 .. raw.R] /\ heap.buckets \in [Buckets(raw) -> Seq(Vertices)]
        /\ heap.edges \subseteq EdgesOf(raw) /\ IdsOf(raw) = Vertices /\ raw \in Raws /\ raw.R \in Nat
    BY <2>1, BlockTypes
  <2>5. heap'.buckets \in [Buckets(raw) -> Seq(Vertices)]
    <3>1. Front(heap.buckets[b]) \in Seq(Vertices)
      BY <2>1, <2>2, <2>4, LastFiled DEF HeapOk, Popped
    <3> QED BY <2>2, <2>4, <3>1 DEF Popped
  <2>6. heap'.h \in {0, 1} /\ heap'.r \in 0 .. raw.R /\ IsMapOn(heap', HeapFields)
    BY <2>2 DEF Popped, Buckets
  <2>7. heap'.rem \in [Vertices -> 0 .. raw.R]
    BY <2>2, <2>4 DEF PopsStale, PopsDone, PopsBlock
  <2>8. heap'.edges \subseteq EdgesOf(raw)
    <3>1. BlockEdges(uu) \subseteq EdgesOf(raw)
      BY <2>4 DEF BlockEdges, EdgesOf, PlacesIn
    <3> QED BY <2>2, <2>4, <3>1 DEF PopsStale, PopsDone, PopsBlock
  <2>9. HeapTypes(raw, heap')
    BY <2>4, <2>5, <2>6, <2>7, <2>8 DEF HeapTypes
  <2> QED BY <2>1, <2>3, <2>9 DEF HeapOk
<1>5. CASE BundlePlaces
  BY <1>5 DEF BundlePlaces, AssignsNext, HeapOk, Blocking, HeapTypes
<1>6. CASE BundleUnplaces
  <2>1. Blocking /\ stage' \in {"place", "blocks"} /\ raw' = raw /\ stage = "place"
    BY <1>6 DEF BundleUnplaces, Blocking
  <2>2. CASE heap' = heap
    BY <2>1, <2>2 DEF HeapOk, HeapTypes
  <2>3. CASE heap' # heap
    <3>1. PICK e \in heap.edges : heap' = Unplace(e)
      BY <1>6, <2>3 DEF BundleUnplaces
    <3> DEFINE w == e[2]
               b == <<Hot(w), heap.rem[w] - 1>>
    <3>2. /\ w \in Vertices /\ IsMapOn(heap', HeapFields) /\ heap'.edges = heap.edges \ {e}
          /\ heap.rem[w] = 0 => heap'.rem = heap.rem /\ heap'.buckets = heap.buckets /\ heap'.h = heap.h /\ heap'.r = heap.r
          /\ heap.rem[w] # 0 =>
               /\ b \in Buckets(raw) /\ heap'.rem = [heap.rem EXCEPT ![w] = b[2]]
               /\ heap'.buckets = [heap.buckets EXCEPT ![b] = Append(heap.buckets[b], w)]
               /\ heap'.h = (IF Below(b) THEN heap.h ELSE b[1]) /\ heap'.r = (IF Below(b) THEN heap.r ELSE b[2])
      BY <2>1, <3>1, UnplaceIs
    <3> HIDE DEF b, w
    <3>3. /\ heap.rem \in [Vertices -> 0 .. raw.R] /\ heap.buckets \in [Buckets(raw) -> Seq(Vertices)]
          /\ heap.edges \subseteq EdgesOf(raw) /\ IdsOf(raw) = Vertices /\ heap.h \in {0, 1} /\ heap.r \in 0 .. raw.R
      BY <2>1, BlockTypes
    <3>4. heap.rem[w] # 0 => b[1] \in {0, 1} /\ b[2] \in 0 .. raw.R
      BY <3>2 DEF Buckets
    <3>5. heap'.buckets \in [Buckets(raw) -> Seq(Vertices)]
      <4>1. CASE heap.rem[w] = 0
        BY <3>2, <3>3, <4>1
      <4>2. CASE heap.rem[w] # 0
        <5>1. Append(heap.buckets[b], w) \in Seq(Vertices)
          BY <3>2, <3>3, <4>2, AppendProperties
        <5> QED BY <3>2, <3>3, <4>2, <5>1
      <4> QED BY <4>1, <4>2
    <3>6. heap'.rem \in [Vertices -> 0 .. raw.R] /\ heap'.h \in {0, 1} /\ heap'.r \in 0 .. raw.R
      BY <3>2, <3>3, <3>4
    <3>7. HeapTypes(raw, heap')
      BY <3>2, <3>3, <3>5, <3>6 DEF HeapTypes
    <3> QED BY <2>1, <3>7 DEF HeapOk
  <2> QED BY <2>2, <2>3
<1> QED BY <1>1, <1>2, <1>3, <1>4, <1>5, <1>6


-----------------------------------------------------------------------------
(* All steps.                                                              *)

BlockStep == BundleBlocksBegin \/ BundleFilesVertex \/ BundleBlock \/ BundlePlaces \/ BundleUnplaces
StartStep == BfsStarts \/ PagebinStarts \/ BundleStarts \/ PagealignStarts \/ DiskannStarts \/ NbrStarts \/ DegreeStarts \/ NavStarts
BfsOrder == BfsBegins \/ BfsVisits \/ BfsNeighbour \/ BfsLeftovers \/ BfsAssigns
PagebinOrder == PagebinBegins \/ PagebinVisits \/ PagebinNeighbour \/ PagebinLeftovers \/ PagebinAssigns
BundleOrder ==
  BundleDepthBegins \/ BundleDepthVisits \/ BundleDepthNeighbour \/ BundleFromMap \/ BundleFromTrace \/ BundleLeftovers \/ BundleAssigns
OrderStep == BfsOrder \/ PagebinOrder \/ BundleOrder
MetricsStep == PagebinMetricsOnly \/ BundleMetricsOnly
WriteStep == PagebinWrites \/ BundleWrites \/ PagealignWrites \/ NbrWrites
ThreadStep(t) == PagebinThread(t) \/ BundleThread(t) \/ PagealignThread(t) \/ NbrThread(t)
EntryStep == PagebinEntry \/ BundleEntry
FileStep == BfsFiles \/ PagebinFiles \/ BundleFiles \/ PagealignEnds \/ DiskannEnds \/ NbrEnds

\* The steps of the tools, by kind.
LEMMA StepIs ==
  ASSUME LayoutNext
  PROVE  \/ BlockStep \/ StartStep \/ OrderStep \/ MetricsStep \/ WriteStep \/ EntryStep \/ FileStep
         \/ BfsWrites \/ DiskannWrites \/ DegreeWrites \/ NavWrites \/ diskann_stride_for \/ DiskannRecord
         \/ UNCHANGED layoutVars \/ \E t \in Threads : ThreadStep(t)
<1>1. CASE BfsSteps
  BY <1>1 DEF BfsSteps, StartStep, OrderStep, BfsOrder, FileStep
<1>2. CASE PagebinSteps
  BY <1>2 DEF PagebinSteps, StartStep, OrderStep, PagebinOrder, FileStep, MetricsStep, WriteStep, EntryStep, ThreadStep
<1>3. CASE BundleSteps
  BY <1>3 DEF BundleSteps, StartStep, BlockStep, OrderStep, BundleOrder, FileStep, MetricsStep, WriteStep, EntryStep, ThreadStep
<1>4. CASE PagealignSteps \/ DiskannSteps \/ NbrSteps \/ NavSteps \/ Idle
  BY <1>4 DEF PagealignSteps, DiskannSteps, NbrSteps, NavSteps, Idle, StartStep, FileStep, WriteStep, ThreadStep
<1> QED BY <1>1, <1>2, <1>3, <1>4 DEF LayoutNext

\* The tool at work keeps its name, and no step but those chooses blocks.
LEMMA NoBlocks ==
  ASSUME LayoutInv, LayoutNext, ~BlockStep, ~UNCHANGED layoutVars
  PROVE  ~Blocking'
<1> USE DEF Blocking
<1>1. CASE StartStep
  BY <1>1 DEF StartStep, BfsStarts, PagebinStarts, BundleStarts, PagealignStarts, DiskannStarts, NbrStarts, DegreeStarts, NavStarts, Begins
<1>2. CASE BfsOrder
  BY <1>2 DEF BfsOrder, BfsBegins, BfsVisits, BfsNeighbour, BfsLeftovers, BfsAssigns, AssignsNext, Bfs, Bundle
<1>3. CASE PagebinOrder
  BY <1>3 DEF PagebinOrder, PagebinBegins, PagebinVisits, PagebinNeighbour, PagebinLeftovers, PagebinAssigns, AssignsNext, Pagebin, Bundle
<1>4. CASE BundleOrder
  BY <1>4 DEF BundleOrder, BundleDepthBegins, BundleDepthVisits, BundleDepthNeighbour, BundleFromMap, BundleFromTrace,
              BundleLeftovers, BundleAssigns, AssignsNext
<1>5. CASE MetricsStep
  BY <1>5 DEF MetricsStep, PagebinMetricsOnly, BundleMetricsOnly, Quits
<1>6. CASE WriteStep
  BY <1>6 DEF WriteStep, PagebinWrites, BundleWrites, PagealignWrites, NbrWrites, WritesAll
<1>7. CASE EntryStep
  BY <1>7 DEF EntryStep, PagebinEntry, BundleEntry, EntryBegins, EntryVisits, EntryNeighbour
<1>8. CASE FileStep
  BY <1>8 DEF FileStep, BfsFiles, PagebinFiles, BundleFiles, PagealignEnds, DiskannEnds, NbrEnds, ToolEnds
<1>9. CASE BfsWrites \/ DiskannWrites \/ DegreeWrites \/ NavWrites
  BY <1>9 DEF BfsWrites, DiskannWrites, DegreeWrites, NavWrites, ToolEnds
<1>10. CASE diskann_stride_for \/ DiskannRecord
  BY <1>10 DEF diskann_stride_for, DiskannRecord
<1>11. CASE \E t \in Threads : ThreadStep(t)
  BY <1>11 DEF ThreadStep, PagebinThread, BundleThread, PagealignThread, NbrThread, TakesChunk, CopiesChunk
<1> QED BY <1>1, <1>2, <1>3, <1>4, <1>5, <1>6, <1>7, <1>8, <1>9, <1>10, <1>11, StepIs DEF OrderStep

\* Before any tool has run.
LEMMA LayoutBegins == LayoutInit => LayoutInv /\ HeapOk
<1> SUFFICES ASSUME LayoutInit PROVE LayoutInv /\ HeapOk
  OBVIOUS
<1> USE DEF LayoutInit
<1>1. raw \in Raws /\ img = NoImage /\ stage = "idle" /\ tool = [name |-> "none"]
  OBVIOUS
<1>2. LayoutTypes
  BY DEF LayoutTypes
<1>3. ToolInput
  BY DEF ToolInput, Diskann
<1>4. OnceOrdered /\ ImagesOk /\ Copying /\ HeapOk
  BY EmptyInjective DEF OnceOrdered, ImagesOk, Copying, HeapOk, Blocking
<1> QED BY <1>2, <1>3, <1>4 DEF LayoutInv

\* Every step of every tool keeps the invariant.
LEMMA LayoutKeeps ==
  ASSUME LayoutInv, HeapOk, [LayoutNext]_layoutVars
  PROVE  LayoutInv' /\ HeapOk'
<1>1. CASE UNCHANGED layoutVars
  <2>1. LayoutInv'
    BY <1>1, IdleKeeps
  <2>2. HeapOk'
    <3>1. UNCHANGED <<raw, tool, stage, heap, todo>>
      BY <1>1 DEF layoutVars, permVars
    <3>2. Vertices' = Vertices
      BY <3>1 DEF Vertices
    <3> QED BY <3>1, <3>2 DEF HeapOk, Blocking, Bundle, HeapTypes
  <2> QED BY <2>1, <2>2
<1>2. CASE BlockStep
  <2>1. LayoutInv'
    BY <1>2, BundleOrders DEF BlockStep
  <2> QED BY <1>2, <2>1, HeapKeeps DEF BlockStep
<1>3. CASE LayoutNext /\ ~BlockStep /\ ~UNCHANGED layoutVars
  <2>1. HeapOk'
    BY <1>3, NoBlocks DEF HeapOk
  <2>2. CASE StartStep
    BY <2>1, <2>2, StartsKeep DEF StartStep
  <2>3. CASE OrderStep
    BY <2>1, <2>3, BfsOrders, PagebinOrders, BundleOrders DEF OrderStep, BfsOrder, PagebinOrder, BundleOrder
  <2>4. CASE MetricsStep
    BY <2>1, <2>4, QuitsKeep DEF MetricsStep, PagebinMetricsOnly, BundleMetricsOnly, AllAssigned
  <2>5. CASE WriteStep
    BY <2>1, <2>5, RenumbersWrites, PagealignWritesKeep, NbrWritesKeep DEF WriteStep
  <2>6. CASE EntryStep
    BY <2>1, <2>6, EntryKeeps DEF EntryStep
  <2>7. CASE FileStep
    BY <2>1, <2>7, FilesKeep DEF FileStep
  <2>8. CASE BfsWrites \/ DiskannWrites \/ DegreeWrites \/ NavWrites
    BY <2>1, <2>8, BfsWritesKeep, DiskannWritesKeep, DegreeWritesKeep, NavWritesKeep
  <2>9. CASE diskann_stride_for \/ DiskannRecord
    BY <2>1, <2>9, StrideKeeps, RecordKeeps
  <2>10. CASE \E t \in Threads : ThreadStep(t)
    BY <2>1, <2>10, ThreadsKeep, NbrThreadKeeps DEF ThreadStep
  <2> QED BY <1>3, <2>1, <2>2, <2>3, <2>4, <2>5, <2>6, <2>7, <2>8, <2>9, <2>10, StepIs
<1> QED BY <1>1, <1>2, <1>3

\* Every tool leaves a good image, from every raw data set and in every order of
\* its threads: no id is ordered twice, what is copied is what should be, and the
\* block packer's counts and cursor stay within their arrays.
THEOREM LayoutSafe == LayoutSpec => [](LayoutInv /\ HeapOk)
<1>1. LayoutInit => LayoutInv /\ HeapOk
  BY LayoutBegins
<1>2. LayoutInv /\ HeapOk /\ [LayoutNext]_layoutVars => (LayoutInv /\ HeapOk)'
  BY LayoutKeeps
<1> QED BY <1>1, <1>2, PTL DEF LayoutSpec

\* The regions of every image any chain of tools writes are page-aligned, behind
\* the header and apart, and every address the server computes from the header
\* (Placement) lies in its region.
THEOREM LayoutRegions == LayoutSpec => []RegionsApart
<1>1. LayoutInv => RegionsApart
  <2> SUFFICES ASSUME LayoutInv, AtRest PROVE RegionsApart
    BY DEF RegionsApart
  <2>1. raw \in Raws /\ HeaderOk(raw, img.hdr)
    BY ImageAt DEF AtRest
  <2> QED BY <2>1, RegionsGive
<1> QED BY <1>1, LayoutSafe, PTL
-----------------------------------------------------------------------------
(* What an image reads back as.                                            *)

\* Among finitely many there is a first nearest.
LEMMA FirstNearest ==
  ASSUME NEW n \in Nat \ {0}, NEW d, \A i \in 1 .. n : d[i] \in Int
  PROVE  \E i \in 1 .. n : (\A jj \in 1 .. n : d[i] <= d[jj]) /\ (\A jj \in 1 .. i - 1 : d[jj] > d[i])
<1> DEFINE Nearer(i) == {jj \in 1 .. n : d[jj] < d[i]}
           Ranks == {Cardinality(Nearer(i)) : i \in 1 .. n}
<1>1. \A i \in 1 .. n : IsFiniteSet(Nearer(i)) /\ Cardinality(Nearer(i)) \in Nat
  <2>1. IsFiniteSet(1 .. n)
    BY FS_Interval
  <2>2. \A i \in 1 .. n : IsFiniteSet(Nearer(i))
    BY <2>1, FS_Subset
  <2> QED BY <2>2, FS_CardinalityType
<1>2. Ranks \in SUBSET Nat /\ Ranks # {}
  <2>1. 1 \in 1 .. n
    OBVIOUS
  <2> QED BY <1>1, <2>1
<1>3. Min(Ranks) \in Ranks /\ \A x \in Ranks : Min(Ranks) <= x
  BY <1>2, MinIn
<1>4. PICK m \in 1 .. n : Min(Ranks) = Cardinality(Nearer(m))
  BY <1>3
<1>5. \A jj \in 1 .. n : Cardinality(Nearer(m)) <= Cardinality(Nearer(jj))
  BY <1>3, <1>4
<1>6. \A jj \in 1 .. n : d[m] <= d[jj]
  <2> SUFFICES ASSUME NEW jj \in 1 .. n, d[jj] < d[m] PROVE FALSE
    OBVIOUS
  <2>1. Nearer(jj) \subseteq Nearer(m) /\ jj \in Nearer(m) /\ jj \notin Nearer(jj)
    OBVIOUS
  <2> DEFINE A == Nearer(jj)
             B == Nearer(m)
  <2>2. IsFiniteSet(B) /\ A \in SUBSET B /\ A # B /\ Cardinality(A) \in Nat /\ Cardinality(B) \in Nat
    BY <1>1, <2>1
  <2>3. Cardinality(B) <= Cardinality(A)
    BY <1>5
  <2> HIDE DEF A, B
  <2>4. Cardinality(A) < Cardinality(B)
    BY <2>2, FS_Subset
  <2> QED BY <2>2, <2>3, <2>4
<1> DEFINE Best == {i \in 1 .. n : d[i] = d[m]}
<1>7. Best \in SUBSET Nat /\ m \in Best
  OBVIOUS
<1>8. Min(Best) \in Best /\ \A x \in Best : Min(Best) <= x
  BY <1>7, MinIn
<1>9. PICK k \in Best : \A x \in Best : k <= x
  BY <1>8
<1>10. k \in 1 .. n /\ d[k] = d[m] /\ \A jj \in 1 .. k - 1 : d[jj] > d[k]
  <2>1. k \in 1 .. n /\ d[k] = d[m]
    BY <1>9
  <2>2. ASSUME NEW jj \in 1 .. k - 1 PROVE d[jj] > d[k]
    <3>1. jj \in 1 .. n /\ jj < k
      BY <2>1
    <3>2. d[jj] # d[m]
      <4>1. k \in Nat /\ jj \in Nat /\ (jj \in Best => k <= jj)
        BY <1>9, <2>1, <3>1
      <4> QED BY <3>1, <4>1
    <3>3. d[m] <= d[jj] /\ d[m] \in Int /\ d[jj] \in Int
      BY <1>4, <1>6, <3>1
    <3> QED BY <2>1, <3>2, <3>3
  <2> QED BY <2>1, <2>2
<1> QED BY <1>6, <1>10

\* A query enters at its nearest sample.
LEMMA EntersNearest ==
  ASSUME LayoutInv, img # NoImage, img.nav.ids # <<>>, NEW q \in DOMAIN Dist
  PROVE  /\ search_entry(img.nav, q) \in ToSet(img.nav.ids)
         /\ \A x \in ToSet(img.nav.ids) : Dist[q][img.vec[search_entry(img.nav, q)]] <= Dist[q][img.vec[x]]
<1> DEFINE ids == img.nav.ids
           recs == img.nav.recs
           n0 == Len(ids)
           d == [i \in 1 .. n0 |-> Dist[q][recs[i].vec]]
<1>1. raw \in Raws /\ DataOk(raw, img) /\ IdsOf(raw) = Vertices
  BY ImageAt
<1>2. img.nav # NoNav
  BY DEF NoNav
<1>3. ids \in Seq(Vertices) /\ \A i \in DOMAIN ids : recs[i] = [vec |-> img.vec[ids[i]], nbrs |-> img.gfile[ids[i]]]
  BY <1>1, <1>2 DEF DataOk, SamplesOf
<1>4. n0 \in Nat \ {0} /\ DOMAIN ids = 1 .. n0 /\ \A i \in 1 .. n0 : ids[i] \in Vertices
  BY <1>3
<1>5. \A i \in 1 .. n0 : recs[i].vec = img.vec[ids[i]]
  <2> SUFFICES ASSUME NEW i \in 1 .. n0 PROVE recs[i].vec = img.vec[ids[i]]
    OBVIOUS
  <2>1. i \in DOMAIN ids
    BY <1>4
  <2>2. recs[i] = [vec |-> img.vec[ids[i]], nbrs |-> img.gfile[ids[i]]]
    BY <1>3, <2>1, Zenon
  <2> HIDE DEF recs, ids
  <2> QED BY <2>2
<1>6. \A i \in 1 .. n0 : d[i] = Dist[q][img.vec[ids[i]]] /\ d[i] \in Int
  <2>1. \A v \in Vertices : img.vec[v] \in Vertices
    BY <1>1 DEF DataOk
  <2>2. \A v \in Vertices : Dist[q][v] \in Int
    BY <1>1, NavConstants DEF Vertices
  <2> QED BY <1>4, <1>5, <2>1, <2>2
<1>7. \E i \in 1 .. n0 : (\A jj \in 1 .. n0 : d[i] <= d[jj]) /\ (\A jj \in 1 .. i - 1 : d[jj] > d[i])
  <2> HIDE DEF d
  <2> QED BY <1>4, <1>6, FirstNearest
<1> DEFINE c == CHOOSE i \in 1 .. n0 :
                  /\ \A jj \in 1 .. n0 : Dist[q][recs[i].vec] <= Dist[q][recs[jj].vec]
                  /\ \A jj \in 1 .. i - 1 : Dist[q][recs[jj].vec] > Dist[q][recs[i].vec]
<1>8. \E i \in 1 .. n0 :
         /\ \A jj \in 1 .. n0 : Dist[q][recs[i].vec] <= Dist[q][recs[jj].vec]
         /\ \A jj \in 1 .. i - 1 : Dist[q][recs[jj].vec] > Dist[q][recs[i].vec]
  <2>1. PICK i \in 1 .. n0 : (\A jj \in 1 .. n0 : d[i] <= d[jj]) /\ (\A jj \in 1 .. i - 1 : d[jj] > d[i])
    BY <1>7
  <2>2. 1 .. i - 1 \subseteq 1 .. n0
    BY <1>4
  <2>3. \A jj \in 1 .. n0 : d[jj] = Dist[q][recs[jj].vec]
    OBVIOUS
  <2> HIDE DEF d
  <2> QED BY <2>1, <2>2, <2>3
<1>9. c \in 1 .. n0 /\ \A jj \in 1 .. n0 : Dist[q][recs[c].vec] <= Dist[q][recs[jj].vec]
  BY <1>8, Zenon
<1>10. search_entry(img.nav, q) = ids[c]
  <2>1. ~(n0 = 0)
    BY <1>4
  <2> QED BY <2>1, Zenon DEF search_entry
<1> HIDE DEF c
<1>11. ToSet(ids) = {ids[i] : i \in 1 .. n0}
  BY <1>4 DEF ToSet
<1>12. ASSUME NEW x \in ToSet(ids) PROVE Dist[q][img.vec[ids[c]]] <= Dist[q][img.vec[x]]
  <2>1. PICK jj \in 1 .. n0 : x = ids[jj]
    BY <1>11
  <2> QED BY <1>5, <1>9, <2>1
<1> QED BY <1>9, <1>10, <1>11, <1>12

\* The invariant says that a complete image reads back.
LEMMA ReadsBackHolds ==
  ASSUME LayoutInv
  PROVE  ReadsBack
<1> SUFFICES ASSUME AtRest PROVE ReadsBack
  BY DEF ReadsBack
<1>1. img # NoImage
  BY DEF AtRest
<1>2. raw \in Raws /\ DataOk(raw, img) /\ HeaderOk(raw, img.hdr) /\ IdsOf(raw) = Vertices
  BY <1>1, ImageAt
<1>3. img.vec \in [Vertices -> Vertices] /\ IsInjective(img.vec)
  BY <1>2 DEF DataOk
<1>4. {img.vec[i] : i \in Vertices} = Vertices
  <2>1. IsFiniteSet(Vertices)
    BY <1>2, RawIs
  <2>2. img.vec \in Injection(Vertices, Vertices)
    BY <1>3 DEF Injection
  <2>3. img.vec \in Surjection(Vertices, Vertices)
    BY <2>1, <2>2, FS_Injection
  <2> QED BY <1>3, <2>3 DEF Surjection
<1>5. img.hdr.len_pq # 0 => img.pq = img.vec
  BY <1>2, GraphMeansOne DEF DataOk
<1>6. img.vec[img.hdr.entry_id] = Clamped(raw.entry)
  BY <1>2 DEF DataOk, EntryOf, Clamped
<1>7. \A i \in Vertices, k \in 1 .. raw.R :
        img.hdr.len_graph # 0 /\ raw.graph[img.vec[i]][k] < raw.n => img.vec[img.graph[i][k]] = raw.graph[img.vec[i]][k]
  <2>1. img.hdr.len_graph # 0 => EdgesKept(raw, img)
    BY <1>2, GraphMeansOne DEF DataOk
  <2> QED BY <1>2, <2>1 DEF EdgesKept
<1>8. \A i \in Vertices, v \in Vertices : Count(img.gfile[i], v) = Count(img.graph[i], v)
  BY <1>2 DEF DataOk, Count, CountIn
<1>9. img.bundle # <<>> => \A i \in Vertices, k \in 1 .. raw.R : img.bundle[i][k] = img.vec[img.gfile[i][k]]
  BY <1>2 DEF DataOk, Copied
<1>10. \A i \in DOMAIN img.nav.ids :
         img.nav.recs[i] = [vec |-> img.vec[img.nav.ids[i]], nbrs |-> img.gfile[img.nav.ids[i]]]
  <2>1. CASE img.nav = NoNav
    <3>1. DOMAIN img.nav.ids = {}
      BY <2>1 DEF NoNav
    <3> QED BY <3>1
  <2>2. CASE img.nav # NoNav
    BY <1>2, <2>2 DEF DataOk, SamplesOf
  <2> QED BY <2>1, <2>2
<1>11. img.nav.ids # <<>> => \A q \in DOMAIN Dist :
         LET e == search_entry(img.nav, q)
         IN  /\ e \in ToSet(img.nav.ids)
             /\ \A x \in ToSet(img.nav.ids) : Dist[q][img.vec[e]] <= Dist[q][img.vec[x]]
  BY <1>1, EntersNearest
<1> QED BY <1>4, <1>5, <1>6, <1>7, <1>8, <1>9, <1>10, <1>11 DEF ReadsBack

\* Every image any chain of tools writes is the raw data under new ids, though
\* threads that draw tickets copy it and each tool renumbers what the last wrote.
THEOREM LayoutReadsBack == LayoutSpec => []ReadsBack
<1>1. LayoutInv => ReadsBack
  BY ReadsBackHolds
<1> QED BY <1>1, LayoutSafe, PTL

-----------------------------------------------------------------------------
(* The entry list.                                                         *)

\* An entry list beside the same graph is as good as before.
LEMMA SameEntries ==
  ASSUME NEW r, NEW a, NEW b, EntriesOk(r, a), b.entries = a.entries, b.gfile = a.gfile, b.from = a.from,
         b.hdr.entry_id = a.hdr.entry_id, b.hdr.entry_nodes = a.hdr.entry_nodes
  PROVE  EntriesOk(r, b)
BY DEF EntriesOk, FromEarlier

\* A step that leaves the image at rest alone and writes nothing.
LEMMA EntriesFrame ==
  ASSUME EntriesInv, UNCHANGED <<raw, img>>, stage' \notin {"files", "vectors", "records", "entry"}
  PROVE  EntriesInv'
BY DEF EntriesInv

\* Laying out a header leaves its entry fields alone.
LEMMA LaidEntries ==
  ASSUME NEW h, DOMAIN h = HeaderFields, NEW a, NEW b, NEW c, NEW d
  PROVE  Laid(h, 4096, a, b, c, d).entry_id = h.entry_id /\ Laid(h, 4096, a, b, c, d).entry_nodes = h.entry_nodes
<1> DEFINE o1 == align_up(HeaderBytes, 4096)
           o2 == align_up(o1 + a, 4096)
           o3 == align_up(o2 + b, 4096)
           o4 == align_up(o3 + c, 4096)
           g == [h EXCEPT !.off_pq = o1, !.len_pq = a, !.off_graph = o2, !.len_graph = b]
           l == [g EXCEPT !.off_vectors = o3, !.len_vectors = c, !.off_pivots = o4, !.len_pivots = d]
<1>1. Laid(h, 4096, a, b, c, d) = l
  BY DEF Laid
<1> HIDE DEF o1, o2, o3, o4
<1>2. DOMAIN g = HeaderFields /\ g.entry_id = h.entry_id /\ g.entry_nodes = h.entry_nodes
  BY DEF HeaderFields, Offsets
<1> HIDE DEF g
<1>3. l.entry_id = g.entry_id /\ l.entry_nodes = g.entry_nodes
  BY <1>2 DEF HeaderFields, Offsets
<1> HIDE DEF l
<1> QED BY <1>1, <1>2, <1>3

\* The tools that keep the ids write the list they read.
LEMMA KeptEntries ==
  ASSUME LayoutInv, EntriesInv, PagealignWrites \/ NbrWrites \/ DiskannWrites
  PROVE  EntriesInv'
<1>1. /\ Pagealign \/ Nbr \/ Diskann
      /\ UNCHANGED <<raw, img, tool>> /\ stage # "idle"
  BY DEF PagealignWrites, NbrWrites, DiskannWrites, WritesAll
<1>2. img # NoImage /\ ~Renumbers /\ ~Renumbers'
  BY <1>1 DEF LayoutInv, ToolInput, Bfs, Renumbers, Pagebin, Bundle, Pagealign, Nbr, Diskann
<1>3. DataOk(raw, img) /\ IsMapOn(img, ImageFields) /\ DOMAIN img.hdr = HeaderFields /\ EntriesOk(raw, img)
  BY <1>2, ImageAt DEF DataOk, HeaderOk, HeaderTypes, EntriesInv
<1>4. stage' \in {"vectors", "records"} /\ EntriesOk(raw, out')
  <2>1. CASE PagealignWrites
    <3> DEFINE none == [i \in Vertices |-> Unwritten]
    <3>1. stage' = "vectors" /\ out' = [img EXCEPT !.hdr = PagealignHeader, !.vec = none]
      BY <2>1 DEF PagealignWrites, WritesAll
    <3> HIDE DEF none
    <3>2. /\ out'.entries = img.entries /\ out'.gfile = img.gfile /\ out'.from = img.from /\ out'.hdr = PagealignHeader
      BY <1>3, <3>1 DEF IsMapOn, ImageFields
    <3>3. PagealignHeader.entry_id = img.hdr.entry_id /\ PagealignHeader.entry_nodes = img.hdr.entry_nodes
      <4> DEFINE h == img.hdr
                 len == raw.n * tool.stride
                 lp == IF h.len_pivots # 0 THEN h.len_pivots ELSE 65536
      <4>1. PagealignHeader = Laid(h, 4096, h.len_pq, h.len_graph, len, lp)
        BY DEF PagealignHeader
      <4> HIDE DEF len, lp
      <4> QED BY <1>3, <4>1, LaidEntries
    <3> QED BY <1>3, <3>1, <3>2, <3>3, SameEntries
  <2>2. CASE NbrWrites
    <3> DEFINE none == [uu \in Vertices |-> <<>>]
    <3>1. stage' = "vectors" /\ out' = [img EXCEPT !.bundle = none]
      BY <2>2 DEF NbrWrites, WritesAll
    <3> HIDE DEF none
    <3>2. /\ out'.entries = img.entries /\ out'.gfile = img.gfile /\ out'.from = img.from /\ out'.hdr = img.hdr
      BY <1>3, <3>1 DEF IsMapOn, ImageFields
    <3> QED BY <1>3, <3>1, <3>2, SameEntries
  <2>3. CASE DiskannWrites
    <3> DEFINE none == [i \in Vertices |-> Unwritten]
               rows == [i \in Vertices |-> <<>>]
    <3>1. stage' = "records" /\ out' = [img EXCEPT !.hdr = DiskannHeader, !.vec = none, !.graph = rows]
      BY <2>3 DEF DiskannWrites
    <3> HIDE DEF none, rows
    <3>2. /\ out'.entries = img.entries /\ out'.gfile = img.gfile /\ out'.from = img.from /\ out'.hdr = DiskannHeader
      BY <1>3, <3>1 DEF IsMapOn, ImageFields
    <3>3. DiskannHeader.entry_id = img.hdr.entry_id /\ DiskannHeader.entry_nodes = img.hdr.entry_nodes
      <4> DEFINE h == img.hdr
                 m == [h EXCEPT !.version = 2, !.pq_bytes = 0, !.off_pq = 0, !.len_pq = 0, !.off_graph = 0]
                 len == raw.n * tool.stride
                 l == [m EXCEPT !.len_graph = 0, !.off_pivots = 0, !.len_pivots = 0, !.off_vectors = 4096, !.len_vectors = len]
      <4>1. DiskannHeader = l
        BY DEF DiskannHeader
      <4>2. DOMAIN m = HeaderFields /\ m.entry_id = h.entry_id /\ m.entry_nodes = h.entry_nodes
        BY <1>3, NoCodes
      <4> HIDE DEF m, len
      <4>3. l.entry_id = m.entry_id /\ l.entry_nodes = m.entry_nodes
        BY <4>2 DEF HeaderFields, Offsets
      <4> QED BY <4>1, <4>2, <4>3
    <3> QED BY <1>3, <3>1, <3>2, <3>3, SameEntries
  <2> QED BY <2>1, <2>2, <2>3
<1>5. raw' = raw /\ img' = img
  BY <1>1
<1> QED BY <1>2, <1>3, <1>4, <1>5 DEF EntriesInv

\* The renumbering packers start with an empty list.
LEMMA NewEntries ==
  ASSUME LayoutInv, EntriesInv, PagebinWrites \/ BundleWrites
  PROVE  EntriesInv'
<1>1. UNCHANGED <<raw, img, tool>> /\ stage' = "vectors" /\ Renumbers
  BY DEF PagebinWrites, BundleWrites, WritesAll, Renumbers
<1>2. Renumbers'
  BY <1>1 DEF Renumbers, Pagebin, Bundle
<1>3. out'.entries = <<>> /\ out'.graph = out'.gfile
  BY DEF PagebinWrites, BundleWrites, WritesAll
<1> QED BY <1>1, <1>2, <1>3 DEF EntriesInv

\* The raw reorder lists the first ids.
LEMMA BfsEntriesRight ==
  ASSUME LayoutInv, EntriesInv, BfsWrites
  PROVE  EntriesInv'
<1>1. /\ Bfs /\ stage = "rest" /\ Len(order) = raw.n /\ stage' = "files" /\ UNCHANGED <<raw, img>> /\ BfsHeader.entry_id = 0
      /\ out'.hdr = BfsHeader /\ out'.entries = BfsEntries /\ out'.from = NoImage
  BY DEF BfsWrites, AllAssigned
<1>2. raw \in Raws /\ order \in Seq(Vertices) /\ IsInjective(order) /\ raw.n \in Nat
  BY <1>1, RawIs DEF LayoutInv, LayoutTypes, OnceOrdered
<1>3. NewId(Clamped(raw.entry)) \in Nat
  <2>1. NewId(Clamped(raw.entry)) \in Vertices
    BY <1>1, <1>2, EntryIn, NewIdIs
  <2> QED BY <2>1 DEF Vertices
<1> DEFINE k == BfsHeader.entry_nodes
<1>4. k \in 1 .. raw.n
  BY <1>2, <1>3, BfsHeaderIs
<1>5. AllIds \in Seq(Vertices) /\ Len(AllIds) = raw.n /\ \A i \in 1 .. raw.n : AllIds[i] = i - 1
  BY <1>2, AllIdsSeq DEF AllIds
<1> HIDE DEF k
<1>6. /\ SubSeq(AllIds, 1, k) \in Seq(Vertices) /\ Len(SubSeq(AllIds, 1, k)) = k
      /\ \A i \in 1 .. k : SubSeq(AllIds, 1, k)[i] = AllIds[i]
  <2>1. 1 \in 1 .. Len(AllIds) + 1 /\ k \in 1 - 1 .. Len(AllIds)
    BY <1>2, <1>4, <1>5
  <2>2. /\ SubSeq(AllIds, 1, k) \in Seq(Vertices)
        /\ Len(SubSeq(AllIds, 1, k)) = IF 1 <= k THEN k - 1 + 1 ELSE 0
        /\ \A i \in 1 .. k - 1 + 1 : SubSeq(AllIds, 1, k)[i] = AllIds[1 + i - 1]
    BY <1>5, <2>1, SubSeqProperties
  <2> QED BY <1>2, <1>4, <2>2
<1> DEFINE l == SubSeq(AllIds, 1, k)
<1>7. l \in Seq(Vertices) /\ Len(l) = k /\ \A i \in 1 .. k : l[i] = i - 1
  BY <1>2, <1>4, <1>5, <1>6
<1>8. BfsEntries = l
  BY DEF BfsEntries, k
<1> HIDE DEF l
<1>9. l # <<>> /\ l[1] = 0 /\ IsInjective(l)
  <2>1. k \in Nat /\ 1 \in 1 .. k
    BY <1>2, <1>4
  <2>2. IsInjective(l)
    BY <1>7, <2>1 DEF IsInjective
  <2> QED BY <1>7, <2>1, <2>2
<1>10. EntriesOk(raw, out')
  BY <1>1, <1>7, <1>8, <1>9 DEF EntriesOk, IdsOf, Vertices, k
<1> QED BY <1>1, <1>10 DEF EntriesInv

\* The copying threads leave the entry list alone.
LEMMA ThreadEntries ==
  ASSUME LayoutInv, EntriesInv, DiskannRecord \/ \E t \in Threads : ThreadStep(t)
  PROVE  EntriesInv'
<1> USE DEF ThreadStep, PagebinThread, BundleThread, PagealignThread, NbrThread, TakesChunk, CopiesChunk, DiskannRecord
<1>1. UNCHANGED <<raw, img, tool, stage>> /\ stage \in {"vectors", "records"}
  OBVIOUS
<1>2. IsMapOn(out, ImageFields)
  BY <1>1 DEF LayoutInv, ImagesOk
<1>3. \/ out' = out \/ (\E a : out' = [out EXCEPT !.vec = a]) \/ (Nbr /\ \E a : out' = [out EXCEPT !.bundle = a])
      \/ (Diskann /\ \E a, b : out' = [out EXCEPT !.vec = a, !.graph = b])
  <2>1. CASE DiskannRecord
    <3> DEFINE a == [out.vec EXCEPT ![next_id] = VecAt(img, next_id * (img.hdr.len_vectors \div raw.n))]
               b == [out.graph EXCEPT ![next_id] = img.gfile[next_id]]
    <3>1. Diskann /\ out' = [out EXCEPT !.vec = a, !.graph = b]
      BY <1>2, <2>1 DEF IsMapOn, ImageFields
    <3> QED BY <3>1
  <2>2. CASE \E t \in Threads : ThreadStep(t)
    <3>1. PICK t \in Threads : ThreadStep(t)
      BY <2>2
    <3> QED BY <3>1
  <2> QED BY <2>1, <2>2
<1>4. out'.entries = out.entries /\ out'.gfile = out.gfile /\ out'.from = out.from /\ out'.hdr = out.hdr
      /\ (out'.graph = out.graph \/ Diskann)
  BY <1>2, <1>3, ZenonT(60) DEF IsMapOn, ImageFields
<1>5. Renumbers' = Renumbers /\ (Renumbers => ~Diskann)
  BY <1>1 DEF Renumbers, Pagebin, Bundle, Diskann
<1>6. ~Renumbers => EntriesOk(raw, out')
  BY <1>1, <1>4, SameEntries DEF EntriesInv
<1> QED BY <1>1, <1>4, <1>5, <1>6 DEF EntriesInv

\* Sorting the rows of the graph file leaves each id a neighbour.
LEMMA RestEntries ==
  ASSUME LayoutInv, EntriesInv, DegreeWrites \/ NavWrites
  PROVE  EntriesInv'
<1>1. raw' = raw /\ stage' = "idle" /\ (Degree \/ Nav) /\ stage = "write"
  BY DEF DegreeWrites, NavWrites, ToolEnds
<1>2. img # NoImage
  BY <1>1 DEF LayoutInv, ToolInput, Bfs, Degree, Nav
<1>3. raw \in Raws /\ DataOk(raw, img) /\ IsMapOn(img, ImageFields) /\ EntriesOk(raw, img) /\ IdsOf(raw) = Vertices
  BY <1>2, ImageAt DEF DataOk, EntriesInv
<1>4. EntriesOk(raw, img')
  <2>1. CASE DegreeWrites
    <3>1. PICK by \in [Vertices -> Bijection(1 .. raw.R, 1 .. raw.R)] :
            ToolEnds([img EXCEPT !.bundle = <<>>,
                          !.gfile = [uu \in Vertices |-> [k \in 1 .. raw.R |-> img.gfile[uu][by[uu][k]]]]])
      BY <2>1 DEF DegreeWrites
    <3> DEFINE rows == [uu \in Vertices |-> [k \in 1 .. raw.R |-> img.gfile[uu][by[uu][k]]]]
               l == img.entries
    <3>2. img' = [img EXCEPT !.bundle = <<>>, !.gfile = rows]
      BY <3>1 DEF ToolEnds
    <3>3. \A uu \in Vertices, k \in 1 .. raw.R : rows[uu][k] = img.gfile[uu][by[uu][k]]
      OBVIOUS
    <3> HIDE DEF rows
    <3>4. img'.entries = l /\ img'.gfile = rows /\ img'.from = img.from /\ img'.hdr = img.hdr
      BY <1>3, <3>2 DEF IsMapOn, ImageFields
    <3>5. l \in Seq(Vertices) /\ (img.from # NoImage => FromEarlier(raw, img, l))
      BY <1>3 DEF EntriesOk
    <3>6. img.from # NoImage => FromEarlier(raw, img', l)
      <4> SUFFICES ASSUME img.from # NoImage, NEW i \in 2 .. Len(l)
                   PROVE  \E jj \in 1 .. i - 1, k \in 1 .. raw.R : rows[l[jj]][k] = l[i]
        BY <3>4 DEF FromEarlier
      <4>1. PICK jj \in 1 .. i - 1, k \in 1 .. raw.R : img.gfile[l[jj]][k] = l[i]
        BY <3>5 DEF FromEarlier
      <4>2. l[jj] \in Vertices
        <5>1. jj \in 1 .. Len(l)
          BY <3>5
        <5> QED BY <3>5, <5>1
      <4>3. by[l[jj]] \in Bijection(1 .. raw.R, 1 .. raw.R)
        BY <4>2
      <4>4. PICK m \in 1 .. raw.R : by[l[jj]][m] = k
        BY <4>3 DEF Bijection, Surjection
      <4>5. rows[l[jj]][m] = l[i]
        BY <3>3, <4>1, <4>2, <4>4
      <4> QED BY <4>5
    <3> QED BY <1>3, <3>4, <3>6 DEF EntriesOk
  <2>2. CASE NavWrites
    <3>1. \E a : img' = [img EXCEPT !.nav = a]
      BY <2>2 DEF NavWrites, ToolEnds
    <3>2. img'.entries = img.entries /\ img'.gfile = img.gfile /\ img'.from = img.from /\ img'.hdr = img.hdr
      BY <1>3, <3>1 DEF IsMapOn, ImageFields
    <3> QED BY <1>3, <3>2, SameEntries
  <2> QED BY <2>1, <2>2
<1> QED BY <1>1, <1>4 DEF EntriesInv

\* The search for entries stops at the same positive length in both packers.
LEMMA LimitIs ==
  ASSUME LayoutInv, img # NoImage
  PROVE  PagebinLimit >= 1 /\ PagebinLimit \in Nat /\ BundleLimit = PagebinLimit
<1> DEFINE m == IF img.hdr.entry_nodes # 0 THEN img.hdr.entry_nodes ELSE 8192
<1>1. raw \in Raws /\ raw.n \in Nat /\ raw.n > 0 /\ img.hdr.entry_nodes \in Nat
  BY ImageAt, RawIs DEF HeaderOk, HeaderTypes, HeaderFields
<1>2. m \in Nat /\ m > 0
  BY <1>1
<1> HIDE DEF m
<1>3. Min({m, raw.n}) \in Nat /\ Min({m, raw.n}) >= 1
  BY <1>1, <1>2, MinOfTwo
<1> QED BY <1>3 DEF PagebinLimit, BundleLimit, m

\* The entry list written is the one searched for.
LEMMA FileEntries ==
  ASSUME LayoutInv, EntriesInv, FileStep
  PROVE  EntriesInv'
<1>1. raw' = raw /\ stage' = "idle"
  BY DEF FileStep, BfsFiles, PagebinFiles, BundleFiles, PagealignEnds, DiskannEnds, NbrEnds, ToolEnds
<1>2. EntriesOk(raw, img')
  <2>1. CASE BfsFiles \/ PagealignEnds \/ DiskannEnds \/ NbrEnds
    <3>1. img' = out
      BY <2>1 DEF BfsFiles, PagealignEnds, DiskannEnds, NbrEnds, ToolEnds
    <3>2. stage = "files" \/ (stage \in {"vectors", "records"} /\ ~Renumbers)
      BY <2>1 DEF BfsFiles, PagealignEnds, DiskannEnds, NbrEnds, Joined, Renumbers, Pagebin, Bundle, Pagealign, Diskann, Nbr
    <3> QED BY <3>1, <3>2 DEF EntriesInv
  <2>2. CASE PagebinFiles \/ BundleFiles
    <3> DEFINE l == out.entries
               g == [out.hdr EXCEPT !.entry_nodes = Len(l)]
    <3>1. stage = "entry" /\ img' = [out EXCEPT !.hdr.entry_nodes = Len(out.entries)] /\ (Pagebin \/ Bundle)
      BY <2>2 DEF PagebinFiles, BundleFiles, EntryDone, ToolEnds
    <3>2. img # NoImage
      BY <3>1 DEF LayoutInv, ToolInput, Bfs, Pagebin, Bundle
    <3>3. queue = <<>> \/ Len(l) >= PagebinLimit
      BY <2>2, <3>2, LimitIs DEF PagebinFiles, BundleFiles, EntryDone
    <3>4. Searching /\ DataOk(raw, out)
      BY <3>1 DEF EntriesInv, LayoutInv, ImagesOk
    <3>5. l # <<>>
      <4> SUFFICES ASSUME l = <<>> PROVE FALSE
        OBVIOUS
      <4>1. queue = <<out.hdr.entry_id>> /\ Len(l) = 0
        BY <3>4 DEF Searching
      <4> QED BY <3>2, <3>3, <4>1, LimitIs
    <3>6. /\ l \in Seq(IdsOf(raw)) /\ IsInjective(l) /\ l[1] = out.hdr.entry_id /\ FromEarlier(raw, out, l)
      BY <3>4, <3>5 DEF Searching, IdsOf, Vertices
    <3>7. IsMapOn(out, ImageFields) /\ DOMAIN out.hdr = HeaderFields
      BY <3>4 DEF DataOk, HeaderOk, HeaderTypes
    <3>8. img' = [out EXCEPT !.hdr = g]
      BY <3>1
    <3>9. g.entry_id = out.hdr.entry_id /\ g.entry_nodes = Len(l)
      BY <3>7 DEF HeaderFields
    <3> HIDE DEF g
    <3>10. img'.hdr = g /\ img'.entries = l /\ img'.gfile = out.gfile
      BY <3>7, <3>8 DEF IsMapOn, ImageFields
    <3>11. FromEarlier(raw, img', l)
      BY <3>6, <3>10, ZenonT(60) DEF FromEarlier
    <3> QED BY <3>5, <3>6, <3>9, <3>10, <3>11 DEF EntriesOk
  <2> QED BY <2>1, <2>2 DEF FileStep
<1> QED BY <1>1, <1>2 DEF EntriesInv

\* What a sequence holds after an append.
LEMMA AppendSet ==
  ASSUME NEW S, NEW s \in Seq(S), NEW x \in S
  PROVE  /\ ToSet(Append(s, x)) = ToSet(s) \cup {x}
         /\ IsInjective(s) /\ x \notin ToSet(s) => IsInjective(Append(s, x))
<1>1. /\ DOMAIN Append(s, x) = 1 .. Len(s) + 1 /\ DOMAIN s = 1 .. Len(s) /\ Len(s) \in Nat
      /\ \A i \in 1 .. Len(s) : Append(s, x)[i] = s[i]
      /\ Append(s, x)[Len(s) + 1] = x
  BY AppendProperties
<1>2. \A i : i \in 1 .. Len(s) + 1 <=> i \in 1 .. Len(s) \/ i = Len(s) + 1
  BY <1>1
<1>3. ToSet(Append(s, x)) = ToSet(s) \cup {x}
  BY <1>1, <1>2 DEF ToSet
<1>4. ASSUME IsInjective(s), x \notin ToSet(s) PROVE IsInjective(Append(s, x))
  <2>1. \A i \in 1 .. Len(s) : s[i] # x
    BY <1>1, <1>4 DEF ToSet
  <2>2. \A i, jj \in 1 .. Len(s) : s[i] = s[jj] => i = jj
    BY <1>1, <1>4 DEF IsInjective
  <2> QED BY <1>1, <1>2, <2>1, <2>2 DEF IsInjective
<1> QED BY <1>3, <1>4

\* And without its head.
LEMMA TailSet ==
  ASSUME NEW S, NEW s \in Seq(S), s # <<>>
  PROVE  /\ Head(s) \in S /\ Tail(s) \in Seq(S) /\ ToSet(s) = {Head(s)} \cup ToSet(Tail(s))
         /\ IsInjective(s) => IsInjective(Tail(s)) /\ Head(s) \notin ToSet(Tail(s))
<1>1. /\ Head(s) \in S /\ Tail(s) \in Seq(S) /\ Len(s) \in Nat /\ Len(s) >= 1 /\ Head(s) = s[1] /\ Len(Tail(s)) = Len(s) - 1
      /\ \A i \in 1 .. Len(s) - 1 : Tail(s)[i] = s[i + 1]
  OBVIOUS
<1>2. DOMAIN Tail(s) = 1 .. Len(s) - 1 /\ DOMAIN s = 1 .. Len(s)
  BY <1>1
<1>3. \A i \in 1 .. Len(s) : i = 1 \/ (i - 1 \in 1 .. Len(s) - 1 /\ s[i] = Tail(s)[i - 1])
  BY <1>1
<1>4. \A i \in 1 .. Len(s) - 1 : i + 1 \in 1 .. Len(s) /\ i + 1 # 1
  BY <1>1
<1>5. ToSet(s) = {Head(s)} \cup ToSet(Tail(s))
  <2>1. ToSet(s) = {s[i] : i \in 1 .. Len(s)} /\ ToSet(Tail(s)) = {Tail(s)[i] : i \in 1 .. Len(s) - 1}
    BY <1>2 DEF ToSet
  <2>2. \A x \in ToSet(s) : x = Head(s) \/ x \in ToSet(Tail(s))
    BY <1>1, <1>3, <2>1
  <2>3. \A x \in ToSet(Tail(s)) : x \in ToSet(s)
    BY <1>1, <1>4, <2>1
  <2>4. Head(s) \in ToSet(s)
    BY <1>1, <2>1
  <2> QED BY <2>2, <2>3, <2>4
<1>6. ASSUME IsInjective(s) PROVE IsInjective(Tail(s)) /\ Head(s) \notin ToSet(Tail(s))
  <2>1. \A i, jj \in 1 .. Len(s) : s[i] = s[jj] => i = jj
    BY <1>2, <1>6 DEF IsInjective
  <2>2. \A i, jj \in 1 .. Len(s) - 1 : Tail(s)[i] = Tail(s)[jj] => i = jj
    <3> SUFFICES ASSUME NEW i \in 1 .. Len(s) - 1, NEW jj \in 1 .. Len(s) - 1, Tail(s)[i] = Tail(s)[jj] PROVE i = jj
      OBVIOUS
    <3>1. i + 1 = jj + 1
      BY <1>1, <1>4, <2>1
    <3> QED BY <1>1, <3>1
  <2>3. \A i \in 1 .. Len(s) - 1 : Tail(s)[i] # Head(s)
    BY <1>1, <1>4, <2>1
  <2> QED BY <1>2, <2>2, <2>3 DEF IsInjective, ToSet
<1> QED BY <1>1, <1>5, <1>6

\* The search for the entry list begins at the entry.
LEMMA SearchBegins ==
  ASSUME LayoutInv, EntriesInv, Renumbers, Joined, EntryBegins(out.hdr.entry_id)
  PROVE  Searching'
<1> DEFINE e == out.hdr.entry_id
<1>1. stage = "vectors" /\ ~Diskann /\ ~Nbr
  BY DEF Joined, Renumbers, Pagebin, Bundle, Diskann, Nbr
<1>2. DataOk(raw, out)
  BY <1>1, JoinedIs
<1>3. out' = out /\ raw' = raw /\ queue' = <<e>> /\ mark' = {e} /\ todo' = <<>>
  BY DEF EntryBegins
<1>4. out.entries = <<>> /\ out.graph = out.gfile
  BY <1>1 DEF EntriesInv
<1>5. IsInjective(<<e>>) /\ ToSet(<<e>>) = {e} /\ ToSet(<<>>) = {} /\ Len(<<>>) = 0
  BY OneInjective DEF ToSet
<1>6. FromEarlier(raw, out, <<>>)
  <2>1. 2 .. Len(<<>>) = {}
    OBVIOUS
  <2> QED BY <2>1 DEF FromEarlier
<1> QED BY <1>3, <1>4, <1>5, <1>6, EmptyInjective DEF Searching

\* The first of the queue joins the list: one of the list has queued it.
LEMMA SearchVisits ==
  ASSUME LayoutInv, Searching, NEW limit, EntryVisits(limit)
  PROVE  Searching'
<1> DEFINE l == out.entries
           v == Head(queue)
           m == Append(l, v)
           n == Len(l)
<1>1. /\ stage = "entry" /\ queue # <<>> /\ out' = [out EXCEPT !.entries = m] /\ queue' = Tail(queue) /\ todo' = out.graph[v]
      /\ raw' = raw /\ mark' = mark
  BY DEF EntryVisits
<1>2. DataOk(raw, out) /\ raw \in Raws /\ queue \in Seq(Vertices) /\ IdsOf(raw) = Vertices
  BY <1>1 DEF LayoutInv, LayoutTypes, ImagesOk, IdsOf, Vertices
<1>3. IsMapOn(out, ImageFields)
  BY <1>2 DEF DataOk
<1>4. /\ l \in Seq(Vertices) /\ IsInjective(l) /\ IsInjective(queue)
      /\ ToSet(l) \cap ToSet(queue) = {} /\ ToSet(l) \cup ToSet(queue) \subseteq mark
      /\ FromEarlier(raw, out, l) /\ out.graph = out.gfile
      /\ l # <<>> => l[1] = out.hdr.entry_id
      /\ l # <<>> => \A x \in ToSet(queue) : \E jj \in DOMAIN l, k \in 1 .. raw.R : out.gfile[l[jj]][k] = x
  BY DEF Searching
<1>5. l = <<>> => queue = <<out.hdr.entry_id>>
  BY DEF Searching
<1>6. /\ v \in Vertices /\ queue' \in Seq(Vertices) /\ ToSet(queue) = {v} \cup ToSet(queue') /\ IsInjective(queue') /\ v \notin ToSet(queue')
  BY <1>1, <1>2, <1>4, TailSet
<1>7. ToSet(m) = ToSet(l) \cup {v} /\ IsInjective(m) /\ m \in Seq(Vertices)
  BY <1>4, <1>6, AppendSet, AppendProperties
<1>8. n \in Nat /\ Len(m) = n + 1 /\ DOMAIN l = 1 .. n /\ DOMAIN m = 1 .. n + 1 /\ m[n + 1] = v /\ \A i \in 1 .. n : m[i] = l[i]
  BY <1>4, <1>6, AppendProperties
<1> HIDE DEF m
<1>9. out'.entries = m /\ out'.gfile = out.gfile /\ out'.graph = out.graph /\ out'.hdr = out.hdr
  BY <1>1, <1>3 DEF IsMapOn, ImageFields
<1>10. m # <<>> /\ m[1] = out.hdr.entry_id
  <2>1. m # <<>>
    BY <1>7, <1>8
  <2>2. CASE l = <<>>
    <3>1. n = 0 /\ v = out.hdr.entry_id
      BY <1>5, <2>2
    <3> QED BY <1>8, <3>1
  <2>3. CASE l # <<>>
    <3>1. 1 \in 1 .. n
      BY <1>4, <1>8, <2>3
    <3> QED BY <1>4, <1>8, <2>3, <3>1
  <2> QED BY <2>1, <2>2, <2>3
<1>11. l # <<>> => \E jj \in 1 .. n, k \in 1 .. raw.R : out.gfile[m[jj]][k] = v
  BY <1>4, <1>6, <1>8
<1>12. FromEarlier(raw, out, m)
  <2> SUFFICES ASSUME NEW i \in 2 .. n + 1
               PROVE  \E jj \in 1 .. i - 1, k \in 1 .. raw.R : out.gfile[m[jj]][k] = m[i]
    BY <1>8 DEF FromEarlier
  <2>1. CASE i = n + 1
    <3>1. l # <<>> /\ i - 1 = n
      BY <1>4, <1>8, <2>1
    <3> QED BY <1>8, <1>11, <2>1, <3>1
  <2>2. CASE i # n + 1
    <3>1. i \in 2 .. n /\ i \in 1 .. n
      BY <1>8, <2>2
    <3>2. PICK jj \in 1 .. i - 1, k \in 1 .. raw.R : out.gfile[l[jj]][k] = l[i]
      BY <1>4, <3>1 DEF FromEarlier
    <3>3. jj \in 1 .. n
      BY <1>8, <3>1
    <3>4. m[jj] = l[jj] /\ m[i] = l[i]
      BY <1>8, <3>1, <3>3
    <3> QED BY <3>2, <3>4
  <2> QED BY <2>1, <2>2
<1>13. \A x \in ToSet(queue') : \E jj \in DOMAIN m, k \in 1 .. raw.R : out.gfile[m[jj]][k] = x
  <2>1. CASE l = <<>>
    <3>1. queue' = <<>>
      <4>1. \A x : Tail(<<x>>) = <<>>
        OBVIOUS
      <4> QED BY <1>1, <1>5, <2>1, <4>1
    <3>2. ToSet(queue') = {}
      BY <3>1 DEF ToSet
    <3> QED BY <3>2
  <2>2. CASE l # <<>>
    <3> SUFFICES ASSUME NEW x \in ToSet(queue') PROVE \E jj \in DOMAIN m, k \in 1 .. raw.R : out.gfile[m[jj]][k] = x
      OBVIOUS
    <3>1. PICK jj \in 1 .. n, k \in 1 .. raw.R : out.gfile[l[jj]][k] = x
      BY <1>4, <1>6, <1>8, <2>2
    <3>2. jj \in DOMAIN m /\ m[jj] = l[jj]
      BY <1>8
    <3> QED BY <3>1, <3>2
  <2> QED BY <2>1, <2>2
<1>14. \A x \in ToSet(todo') : \E k \in 1 .. raw.R : out.gfile[m[Len(m)]][k] = x
  <2>1. todo' \in [1 .. raw.R -> Vertices] /\ todo' = out.gfile[v]
    BY <1>1, <1>2, <1>4, <1>6 DEF DataOk, FullRows
  <2>2. m[Len(m)] = v
    BY <1>8
  <2> QED BY <2>1, <2>2 DEF ToSet
<1>15. ToSet(m) \cap ToSet(queue') = {} /\ ToSet(m) \cup ToSet(queue') \subseteq mark
  BY <1>4, <1>6, <1>7
<1>16. FromEarlier(raw, out', m)
  BY <1>9, <1>12 DEF FromEarlier
<1>17. Vertices' = Vertices
  BY <1>1 DEF Vertices
<1>18. out'.graph = out'.gfile /\ (\A x \in ToSet(queue') : \E jj \in DOMAIN m, k \in 1 .. raw.R : out'.gfile[m[jj]][k] = x)
       /\ (\A x \in ToSet(todo') : x < raw.n => \E k \in 1 .. raw.R : out'.gfile[m[Len(m)]][k] = x)
  BY <1>4, <1>9, <1>13, <1>14
<1> HIDE DEF l, v, n
<1> QED BY <1>1, <1>6, <1>7, <1>9, <1>10, <1>15, <1>16, <1>17, <1>18, SMTT(30) DEF Searching

\* A neighbour is queued once, by a vertex that is in the list.
LEMMA SearchNeighbour ==
  ASSUME LayoutInv, Searching, EntryNeighbour
  PROVE  Searching'
<1> DEFINE l == out.entries
           v == Head(todo)
<1>1. stage = "entry" /\ todo # <<>> /\ QueuesNext /\ out' = out /\ raw' = raw
  BY DEF EntryNeighbour
<1>2. raw \in Raws /\ queue \in Seq(Vertices) /\ todo \in Seq(Nat) /\ raw.n \in Nat
  BY RawIs DEF LayoutInv, LayoutTypes
<1>3. /\ l \in Seq(Vertices) /\ IsInjective(l) /\ IsInjective(queue)
      /\ ToSet(l) \cap ToSet(queue) = {} /\ ToSet(l) \cup ToSet(queue) \subseteq mark
      /\ FromEarlier(raw, out, l) /\ out.graph = out.gfile
      /\ l # <<>> => l[1] = out.hdr.entry_id
      /\ l # <<>> => \A x \in ToSet(queue) : \E jj \in DOMAIN l, k \in 1 .. raw.R : out.gfile[l[jj]][k] = x
      /\ \A x \in ToSet(todo) : x < raw.n => \E k \in 1 .. raw.R : out.gfile[l[Len(l)]][k] = x
  BY DEF Searching
<1>4. l # <<>>
  BY <1>1 DEF Searching
<1>5. v \in Nat /\ todo' = Tail(todo) /\ ToSet(todo) = {v} \cup ToSet(todo')
  BY <1>1, <1>2, TailSet DEF QueuesNext
<1>6. Vertices' = Vertices
  BY <1>1 DEF Vertices
<1>7. CASE v >= raw.n \/ v \in mark
  <2>1. queue' = queue /\ mark' = mark
    BY <1>1, <1>7 DEF QueuesNext
  <2> QED BY <1>1, <1>3, <1>4, <1>5, <1>6, <2>1 DEF Searching, FromEarlier
<1>8. CASE ~(v >= raw.n \/ v \in mark)
  <2>1. queue' = Append(queue, v) /\ mark' = mark \cup {v}
    BY <1>1, <1>8 DEF QueuesNext
  <2>2. v \in Vertices /\ v < raw.n
    BY <1>2, <1>5, <1>8 DEF Vertices
  <2>3. v \notin ToSet(queue) /\ v \notin ToSet(l)
    BY <1>3, <1>8
  <2>4. ToSet(queue') = ToSet(queue) \cup {v} /\ IsInjective(queue')
    BY <1>2, <1>3, <2>1, <2>2, <2>3, AppendSet
  <2>5. \A x \in ToSet(queue') : \E jj \in DOMAIN l, k \in 1 .. raw.R : out.gfile[l[jj]][k] = x
    <3>1. Len(l) \in DOMAIN l
      BY <1>3, <1>4
    <3>2. \E k \in 1 .. raw.R : out.gfile[l[Len(l)]][k] = v
      BY <1>3, <1>5, <2>2
    <3> QED BY <1>3, <1>4, <2>4, <3>1, <3>2
  <2>6. ToSet(l) \cap ToSet(queue') = {} /\ ToSet(l) \cup ToSet(queue') \subseteq mark'
    BY <1>3, <2>1, <2>3, <2>4
  <2>7. \A x \in ToSet(todo') : x < raw.n => \E k \in 1 .. raw.R : out.gfile[l[Len(l)]][k] = x
    BY <1>3, <1>5
  <2> QED BY <1>1, <1>3, <1>4, <1>6, <2>4, <2>5, <2>6, <2>7 DEF Searching, FromEarlier
<1> QED BY <1>7, <1>8

\* The list found is one the header can name.
LEMMA EntryEntries ==
  ASSUME LayoutInv, EntriesInv, EntryStep
  PROVE  EntriesInv'
<1>1. UNCHANGED <<raw, img>> /\ stage' = "entry" /\ Renumbers
  BY DEF EntryStep, PagebinEntry, BundleEntry, EntryBegins, EntryVisits, EntryNeighbour, Renumbers
<1>2. Searching'
  <2>1. CASE Joined /\ EntryBegins(out.hdr.entry_id)
    BY <1>1, <2>1, SearchBegins
  <2>2. CASE EntryVisits(PagebinLimit) \/ EntryVisits(BundleLimit)
    BY <2>2, SearchVisits DEF EntriesInv, EntryVisits
  <2>3. CASE EntryNeighbour
    BY <2>3, SearchNeighbour DEF EntriesInv, EntryNeighbour
  <2> QED BY <2>1, <2>2, <2>3 DEF EntryStep, PagebinEntry, BundleEntry
<1> QED BY <1>1, <1>2 DEF EntriesInv

\* Every step keeps the entry lists right.
LEMMA EntriesKeep ==
  ASSUME LayoutInv, EntriesInv, [LayoutNext]_layoutVars
  PROVE  EntriesInv'
<1>1. CASE UNCHANGED layoutVars
  <2>1. UNCHANGED <<raw, img, out, tool, stage, queue, mark, todo>>
    BY <1>1 DEF layoutVars, permVars
  <2>2. Vertices' = Vertices
    BY <2>1 DEF Vertices
  <2> QED BY <2>1, <2>2 DEF EntriesInv, Searching, FromEarlier, Renumbers, Pagebin, Bundle
<1>2. CASE BlockStep
  BY <1>2, EntriesFrame DEF BlockStep, BundleBlocksBegin, BundleFilesVertex, BundleBlock, BundlePlaces, BundleUnplaces, AssignsNext
<1>3. CASE StartStep
  BY <1>3, EntriesFrame DEF StartStep, BfsStarts, PagebinStarts, BundleStarts, PagealignStarts, DiskannStarts, NbrStarts, DegreeStarts,
                            NavStarts, Begins
<1>4. CASE OrderStep
  <2>1. CASE BfsOrder
    BY <2>1, EntriesFrame DEF BfsOrder, BfsBegins, BfsVisits, BfsNeighbour, BfsLeftovers, BfsAssigns, AssignsNext
  <2>2. CASE PagebinOrder
    BY <2>2, EntriesFrame DEF PagebinOrder, PagebinBegins, PagebinVisits, PagebinNeighbour, PagebinLeftovers, PagebinAssigns, AssignsNext
  <2>3. CASE BundleOrder
    BY <2>3, EntriesFrame DEF BundleOrder, BundleDepthBegins, BundleDepthVisits, BundleDepthNeighbour, BundleFromMap, BundleFromTrace,
                              BundleLeftovers, BundleAssigns, AssignsNext
  <2> QED BY <1>4, <2>1, <2>2, <2>3 DEF OrderStep
<1>5. CASE MetricsStep
  BY <1>5, EntriesFrame DEF MetricsStep, PagebinMetricsOnly, BundleMetricsOnly, Quits
<1>6. CASE WriteStep \/ DiskannWrites
  BY <1>6, KeptEntries, NewEntries DEF WriteStep
<1>7. CASE EntryStep \/ FileStep
  BY <1>7, EntryEntries, FileEntries
<1>8. CASE BfsWrites \/ DegreeWrites \/ NavWrites
  BY <1>8, BfsEntriesRight, RestEntries
<1>9. CASE diskann_stride_for
  BY <1>9, EntriesFrame DEF diskann_stride_for
<1>10. CASE DiskannRecord \/ \E t \in Threads : ThreadStep(t)
  BY <1>10, ThreadEntries
<1> QED BY <1>1, <1>2, <1>3, <1>4, <1>5, <1>6, <1>7, <1>8, <1>9, <1>10, StepIs

\* The invariant says that the entry list of a complete image is right.
LEMMA EntriesHold ==
  ASSUME LayoutInv, EntriesInv
  PROVE  EntryListRight
<1> SUFFICES ASSUME AtRest PROVE EntryListRight
  BY DEF EntryListRight
<1> DEFINE l == img.entries
<1>1. raw \in Raws /\ EntriesOk(raw, img)
  BY DEF AtRest, LayoutInv, LayoutTypes, EntriesInv
<1>2. IsInjective(l) /\ l[1] = img.hdr.entry_id /\ Len(l) = img.hdr.entry_nodes /\ (img.from # NoImage => FromEarlier(raw, img, l))
  BY <1>1 DEF EntriesOk
<1>3. ASSUME NEW row, NEW v, NEW k \in 1 .. raw.R, row[k] = v PROVE Count(row, v) > 0
  <2> DEFINE A == {jj \in 1 .. raw.R : row[jj] = v}
  <2>1. IsFiniteSet(A) /\ k \in A /\ Cardinality(A) \in Nat
    BY <1>1, <1>3, PlacesBound, FS_CardinalityType
  <2>2. Cardinality(A) # 0
    BY <2>1, FS_EmptySet
  <2> QED BY <2>1, <2>2 DEF Count
<1>4. ASSUME img.from # NoImage, NEW i \in 2 .. Len(l)
      PROVE  \E jj \in 1 .. i - 1 : Count(img.gfile[l[jj]], l[i]) > 0
  <2>1. PICK jj \in 1 .. i - 1, k \in 1 .. raw.R : img.gfile[l[jj]][k] = l[i]
    BY <1>2, <1>4 DEF FromEarlier
  <2>2. Count(img.gfile[l[jj]], l[i]) > 0
    BY <1>3, <2>1
  <2> QED BY <2>2
<1> QED BY <1>2, <1>4 DEF EntryListRight

\* The entry list beside every image has no id twice, begins at the entry and is as
\* long as the header says; when a packer searched for it (the entry BFS of
\* pack_layout_pagebin and pack_layout_bundle), each later id is a neighbour of an
\* earlier one.
THEOREM LayoutEntries == LayoutSpec => []EntryListRight
<1>1. LayoutInit => EntriesInv
  BY DEF LayoutInit, EntriesInv
<1>2. LayoutInv /\ EntriesInv /\ [LayoutNext]_layoutVars => EntriesInv'
  BY EntriesKeep
<1>3. LayoutInv /\ EntriesInv => EntryListRight
  BY EntriesHold
<1> QED BY <1>1, <1>2, <1>3, LayoutSafe, PTL DEF LayoutSpec

-----------------------------------------------------------------------------
(* The counts and the buckets while blocks are chosen.                     *)

\* RowsKept and what is left of them, while the input stays.
LEMMA BlockFrame ==
  ASSUME UNCHANGED <<raw, img>>
  PROVE  /\ Vertices' = Vertices /\ (OnceInRows' <=> OnceInRows)
         /\ \A w : Row(w)' = Row(w)
         /\ \A w : Left(w)' = {k \in 1 .. raw.R : Row(w)[k] \in Vertices \ ToSet(order')} \cup
                              {k \in 1 .. raw.R : \E p \in 1 .. raw.R : <<p, w, k>> \in heap'.edges}
         /\ \A w : Left(w) = {k \in 1 .. raw.R : Row(w)[k] \in Vertices \ ToSet(order)} \cup
                             {k \in 1 .. raw.R : \E p \in 1 .. raw.R : <<p, w, k>> \in heap.edges}
<1>1. Vertices' = Vertices
  BY DEF Vertices
<1>2. \A w : Row(w)' = Row(w)
  BY DEF Row
<1>3. OnceInRows' <=> OnceInRows
  BY <1>1, <1>2 DEF OnceInRows, PlacesIn, Row
<1> QED BY <1>1, <1>2, <1>3 DEF Left, PlacesIn, Unplaced

\* A count stays right when neither it nor what is left of the row changes.
LEMMA CountedSame ==
  ASSUME UNCHANGED <<raw, img>>, NEW w \in Vertices, heap'.rem = heap.rem, Left(w)' = Left(w), Counted(w)
  PROVE  Counted(w)'
<1>1. OnceInRows' <=> OnceInRows
  BY BlockFrame
<1> QED BY <1>1 DEF Counted

\* The bucket a vertex belongs to.
LEMMA BucketSame ==
  ASSUME heap'.hot = heap.hot, NEW w, heap'.rem[w] = heap.rem[w]
  PROVE  Bucket(w)' = Bucket(w)
BY DEF Bucket, Hot

\* Before any vertex is filed the counts are exact.
LEMMA BlocksBeginRight ==
  ASSUME LayoutInv, BundleBlocksBegin
  PROVE  BlockInv'
<1>1. /\ UNCHANGED <<raw, img>> /\ stage' = "file" /\ order' = <<>> /\ todo' = AllIds
      /\ heap'.h = 1 /\ heap'.r = raw.R /\ heap'.edges = {}
      /\ heap'.rem = [uu \in Vertices |-> Cardinality(PlacesIn(uu, Vertices))]
  BY DEF BundleBlocksBegin
<1>2. raw \in Raws /\ raw.n \in Nat
  BY RawIs DEF LayoutInv, LayoutTypes
<1>3. ToSet(order') = {} /\ Vertices' = Vertices
  BY <1>1 DEF ToSet, Vertices
<1>4. ASSUME NEW w \in Vertices
      PROVE  Counted(w)' /\ w \in ToSet(todo')
  <2>1. Left(w)' = PlacesIn(w, Vertices)
    BY <1>1, <1>3, BlockFrame DEF PlacesIn
  <2>2. heap'.rem[w] = Cardinality(PlacesIn(w, Vertices)) /\ Cardinality(PlacesIn(w, Vertices)) \in 0 .. raw.R
    BY <1>1, <1>2, PlacesBound DEF PlacesIn
  <2>3. w \in ToSet(AllIds)
    <3>1. w + 1 \in 1 .. raw.n /\ AllIds[w + 1] = w /\ DOMAIN AllIds = 1 .. raw.n
      BY <1>2 DEF AllIds, Vertices
    <3> QED BY <3>1 DEF ToSet
  <2> QED BY <1>1, <2>1, <2>2, <2>3 DEF Counted
<1> QED BY <1>1, <1>3, <1>4 DEF BlockInv

\* What the step needs of the state before it.
LEMMA BlockGives ==
  ASSUME BlockInv, Blocking
  PROVE  /\ stage = "file" => order = <<>> /\ heap.h = 1 /\ heap.r = raw.R
         /\ stage # "place" => heap.edges = {}
         /\ \A w \in Vertices : Counted(w)
         /\ \A w \in Vertices : (stage = "file" /\ w \in ToSet(todo)) \/ InBlock(w) \/ Filed(w)
         /\ stage = "place" => Placing
BY DEF BlockInv

\* Filing a vertex under its count.
LEMMA FilesRight ==
  ASSUME LayoutInv, HeapOk, BlockInv, BundleFilesVertex
  PROVE  BlockInv'
<1>1. UNCHANGED <<raw, img, order>> /\ stage = "file" /\ Blocking
  BY DEF BundleFilesVertex, Blocking
<1>2. /\ order = <<>> /\ heap.h = 1 /\ heap.r = raw.R /\ heap.edges = {}
      /\ \A w \in Vertices : Counted(w) /\ (w \in ToSet(todo) \/ Filed(w))
  BY <1>1, BlockGives DEF InBlock
<1>3. Vertices' = Vertices
  BY <1>1 DEF Vertices
<1>4. CASE todo = <<>>
  <2>1. stage' = "blocks" /\ heap' = heap /\ todo' = todo /\ ToSet(todo) = {}
    BY <1>4 DEF BundleFilesVertex, ToSet
  <2>2. \A w \in Vertices : Left(w)' = Left(w)
    BY <1>1, <2>1, BlockFrame
  <2>3. \A w \in Vertices : Counted(w)'
    BY <1>1, <1>2, <2>1, <2>2, CountedSame
  <2>4. \A w \in Vertices : Filed(w)'
    BY <1>2, <2>1 DEF Filed, Bucket, Hot, Below
  <2> QED BY <1>2, <1>3, <2>1, <2>3, <2>4 DEF BlockInv
<1>5. CASE todo # <<>>
  <2> DEFINE v == Head(todo)
             b == Bucket(v)
  <2>1. /\ stage' = "file" /\ todo' = Tail(todo) /\ v \in Vertices
        /\ \A f \in HeapFields \ {"buckets"} : heap'[f] = heap[f]
        /\ heap'.buckets = [heap.buckets EXCEPT ![b] = Append(heap.buckets[b], v)]
    BY <1>5, FilesIs
  <2>2. heap'.rem = heap.rem /\ heap'.hot = heap.hot /\ heap'.edges = heap.edges /\ heap'.h = heap.h /\ heap'.r = heap.r
    BY <2>1 DEF HeapFields
  <2>3. \A w \in Vertices : Left(w)' = Left(w)
    BY <1>1, <2>2, BlockFrame
  <2>4. \A w \in Vertices : Counted(w)'
    BY <1>1, <1>2, <2>2, <2>3, CountedSame
  <2>5. /\ todo \in Seq(Vertices) /\ heap.buckets \in [Buckets(raw) -> Seq(Vertices)]
        /\ raw.R \in Nat /\ \A w \in Vertices : Bucket(w) \in Buckets(raw)
    BY <1>1, BlockTypes DEF HeapOk
  <2>6. ToSet(todo) = {v} \cup ToSet(todo')
    BY <1>5, <2>1, <2>5, TailSet
  <2>7. ToSet(Append(heap.buckets[b], v)) = ToSet(heap.buckets[b]) \cup {v}
    BY <2>1, <2>5, AppendSet
  <2> HIDE DEF v, b
  <2>8. ASSUME NEW w \in Vertices
        PROVE  w \in ToSet(todo') \/ Filed(w)'
    <3>1. Bucket(w)' = Bucket(w)
      BY <2>2, BucketSame
    <3>2. CASE w = v
      <4>1. w \in ToSet(heap'.buckets[Bucket(w)])
        BY <2>1, <2>5, <2>7, <3>2 DEF b
      <4>2. Bucket(w)[1] \in {0, 1} /\ Bucket(w)[2] \in 0 .. raw.R
        BY <2>5 DEF Buckets
      <4>3. Below(Bucket(w))'
        BY <1>2, <2>2, <2>5, <3>1, <4>2 DEF Below, Under
      <4> QED BY <3>1, <4>1, <4>3 DEF Filed
    <3>3. CASE w # v /\ w \notin ToSet(todo')
      <4>1. Filed(w)
        BY <1>2, <2>6, <3>3
      <4>2. ToSet(heap.buckets[Bucket(w)]) \subseteq ToSet(heap'.buckets[Bucket(w)])
        BY <2>1, <2>5, <2>7
      <4>3. Below(Bucket(w)) => Below(Bucket(w))'
        BY <2>2, <3>1 DEF Below
      <4> QED BY <2>2, <3>1, <4>1, <4>2, <4>3 DEF Filed
    <3> QED BY <3>2, <3>3
  <2> QED BY <1>1, <1>2, <1>3, <2>1, <2>2, <2>4, <2>8 DEF BlockInv
<1> QED BY <1>4, <1>5

\* What a sequence holds without its last element.
LEMMA FrontSet ==
  ASSUME NEW S, NEW s \in Seq(S), s # <<>>
  PROVE  ToSet(s) \subseteq ToSet(Front(s)) \cup {Last(s)}
<1>1. Len(s) \in Nat /\ Len(s) >= 1 /\ DOMAIN s = 1 .. Len(s) /\ Last(s) = s[Len(s)]
  BY DEF Last
<1>2. Front(s) \in Seq(S) /\ Len(Front(s)) = Len(s) - 1 /\ \A i \in 1 .. Len(s) - 1 : Front(s)[i] = s[i]
  BY <1>1 DEF Front
<1>3. DOMAIN Front(s) = 1 .. Len(s) - 1
  BY <1>1, <1>2
<1>4. \A n \in Nat : \A i \in 1 .. n : i \in 1 .. n - 1 \/ i = n
  OBVIOUS
<1> SUFFICES ASSUME NEW i \in 1 .. Len(s) PROVE s[i] \in ToSet(Front(s)) \/ s[i] = Last(s)
  BY <1>1 DEF ToSet
<1>5. i \in 1 .. Len(s) - 1 => s[i] \in ToSet(Front(s))
  BY <1>2, <1>3 DEF ToSet
<1> QED BY <1>1, <1>4, <1>5

\* A vertex that was filed stays filed when another is popped, or when it was
\* popped as a stale entry.
LEMMA PopKeeps ==
  ASSUME LayoutInv, HeapOk, Blocking, NEW b \in Buckets(raw), NEW uu \in Vertices, Popped(b, uu),
         NEW w \in Vertices, w # uu \/ Bucket(uu) # b, heap'.rem[w] = heap.rem[w], Filed(w)
  PROVE  Filed(w)'
<1>1. Bucket(w)' = Bucket(w)
  BY BucketSame DEF Popped
<1> SUFFICES ASSUME heap.rem[w] > 0
             PROVE  w \in ToSet(heap'.buckets[Bucket(w)]) /\ Under(Bucket(w), b[1], b[2])
  BY <1>1 DEF Filed, Below, Popped
<1> DEFINE c == Bucket(w)
<1>2. w \in ToSet(heap.buckets[c]) /\ Below(c)
  BY DEF Filed
<1>3. heap.buckets \in [Buckets(raw) -> Seq(Vertices)] /\ c \in Buckets(raw)
  BY BlockTypes
<1>4. heap.buckets[c] # <<>>
  BY <1>2 DEF ToSet
<1>5. c \in Filled
  BY <1>2, <1>3, <1>4 DEF Filled
<1>6. Under(c, b[1], b[2])
  BY <1>5 DEF Popped
<1>7. heap'.buckets = [heap.buckets EXCEPT ![b] = Front(heap.buckets[b])] /\ uu = Last(heap.buckets[b]) /\ heap.buckets[b] # <<>>
  BY DEF Popped
<1>8. CASE c # b
  BY <1>2, <1>3, <1>6, <1>7, <1>8
<1>9. CASE c = b
  <2>1. w # uu
    BY <1>9
  <2>2. heap.buckets[b] \in Seq(Vertices)
    BY <1>3
  <2>3. ToSet(heap.buckets[b]) \subseteq ToSet(Front(heap.buckets[b])) \cup {uu}
    BY <1>7, <2>2, FrontSet
  <2>4. heap'.buckets[b] = Front(heap.buckets[b])
    BY <1>3, <1>7
  <2> QED BY <1>2, <1>6, <1>9, <2>1, <2>3, <2>4
<1> QED BY <1>8, <1>9

\* A popped vertex is stale, has nothing left or becomes the seed of a block.
LEMMA BlockRight ==
  ASSUME LayoutInv, HeapOk, BlockInv, BundleBlock
  PROVE  BlockInv'
<1>1. Blocking /\ stage = "blocks" /\ UNCHANGED <<raw, img, tool, order>>
  BY BlockIs
<1>2. PICK b \in Buckets(raw), uu \in Vertices : Popped(b, uu) /\ (PopsStale(b, uu) \/ PopsDone(b, uu) \/ PopsBlock(b, uu))
  BY BlockIs
<1>3. heap.edges = {} /\ \A w \in Vertices : Counted(w) /\ Filed(w)
  BY <1>1, BlockGives DEF InBlock
<1>4. /\ raw \in Raws /\ heap.rem \in [Vertices -> 0 .. raw.R] /\ raw.R \in Nat
      /\ \A x \in Vertices : Row(x) \in [1 .. raw.R -> Vertices]
  BY <1>1, BlockTypes
<1>5. Vertices' = Vertices
  BY <1>1 DEF Vertices
<1>6. CASE PopsStale(b, uu)
  <2>1. heap'.rem = heap.rem /\ heap'.edges = {} /\ stage' = "blocks" /\ (Bucket(uu) # b \/ heap.rem[uu] = 0)
    BY <1>1, <1>3, <1>6 DEF PopsStale
  <2>2. \A w \in Vertices : Left(w)' = Left(w)
    BY <1>1, <1>3, <2>1, BlockFrame
  <2>3. \A w \in Vertices : Counted(w)'
    BY <1>1, <1>3, <2>1, <2>2, CountedSame
  <2>4. ASSUME NEW w \in Vertices PROVE Filed(w)'
    <3>1. CASE w # uu \/ Bucket(uu) # b
      BY <1>1, <1>2, <1>3, <2>1, <3>1, PopKeeps
    <3>2. CASE w = uu /\ Bucket(uu) = b
      BY <2>1, <3>2 DEF Filed
    <3> QED BY <3>1, <3>2
  <2> QED BY <1>5, <2>1, <2>3, <2>4 DEF BlockInv
<1>7. CASE PopsDone(b, uu)
  <2>1. /\ heap'.rem = [heap.rem EXCEPT ![uu] = 0] /\ heap'.edges = {} /\ stage' = "blocks" /\ PlacesIn(uu, Unplaced) = {}
    BY <1>1, <1>3, <1>7 DEF PopsDone
  <2>2. \A w \in Vertices : Left(w)' = Left(w)
    BY <1>1, <1>3, <2>1, BlockFrame, SMTT(30)
  <2>3. ASSUME NEW w \in Vertices, w # uu PROVE heap'.rem[w] = heap.rem[w]
    BY <1>4, <2>1, <2>3
  <2>4. ASSUME NEW w \in Vertices PROVE Counted(w)'
    <3>1. CASE w = uu
      <4>1. Left(w) = {}
        BY <1>3, <2>1, <3>1 DEF Left
      <4>2. Cardinality({}) = 0
        BY FS_EmptySet
      <4>3. heap'.rem[w] = 0 /\ Left(w)' = {}
        BY <1>4, <2>1, <2>2, <3>1, <4>1
      <4> QED BY <4>2, <4>3 DEF Counted
    <3>2. CASE w # uu
      BY <1>1, <1>3, <2>2, <2>3, <3>2, BlockFrame DEF Counted
    <3> QED BY <3>1, <3>2
  <2>5. ASSUME NEW w \in Vertices PROVE Filed(w)'
    <3>1. CASE w = uu
      BY <1>4, <2>1, <3>1 DEF Filed
    <3>2. CASE w # uu
      BY <1>1, <1>2, <1>3, <2>3, <3>2, PopKeeps
    <3> QED BY <3>1, <3>2
  <2> QED BY <1>5, <2>1, <2>4, <2>5 DEF BlockInv
<1>8. CASE PopsBlock(b, uu)
  <2>1. /\ heap'.rem = heap.rem /\ heap'.edges = BlockEdges(uu) /\ heap'.of = uu /\ todo' = Row(uu) /\ stage' = "place"
        /\ PlacesIn(uu, Unplaced) # {}
    BY <1>8 DEF PopsBlock
  <2>2. \A p, x, k : <<p, x, k>> \in BlockEdges(uu) <=>
          p \in 1 .. raw.R /\ Row(uu)[p] \in Vertices \ ToSet(order) /\ x \in Vertices /\ k \in 1 .. raw.R /\ Row(x)[k] = Row(uu)[p]
    BY DEF BlockEdges, PlacesIn, Unplaced
  <2>3. ASSUME NEW w \in Vertices PROVE Left(w)' = Left(w)
    <3> DEFINE A == {k \in 1 .. raw.R : Row(w)[k] \in Vertices \ ToSet(order)}
               E == {k \in 1 .. raw.R : \E p \in 1 .. raw.R : <<p, w, k>> \in BlockEdges(uu)}
    <3>1. Left(w)' = A \cup E
      BY <1>1, <2>1, BlockFrame
    <3>2. Left(w) = A
      BY <1>1, <1>3, BlockFrame
    <3>3. ASSUME NEW k \in 1 .. raw.R, NEW p \in 1 .. raw.R, <<p, w, k>> \in BlockEdges(uu)
          PROVE  Row(w)[k] \in Vertices \ ToSet(order)
      <4>1. Row(uu)[p] \in Vertices \ ToSet(order) /\ Row(w)[k] = Row(uu)[p]
        BY <2>2, <3>3, Zenon
      <4> QED BY <4>1
    <3> QED BY <3>1, <3>2, <3>3
  <2>4. \A w \in Vertices : Counted(w)'
    BY <1>1, <1>3, <2>1, <2>3, CountedSame
  <2>5. ASSUME NEW w \in Vertices PROVE InBlock(w)' \/ Filed(w)'
    <3>1. CASE w = uu
      <4>1. PICK p \in 1 .. raw.R : Row(uu)[p] \in Vertices \ ToSet(order)
        BY <2>1 DEF PlacesIn, Unplaced
      <4>2. <<p, uu, p>> \in BlockEdges(uu) /\ <<p, uu, p>>[2] = uu
        BY <2>2, <4>1
      <4> QED BY <2>1, <3>1, <4>2 DEF InBlock
    <3>2. CASE w # uu
      BY <1>1, <1>2, <1>3, <2>1, <3>2, PopKeeps
    <3> QED BY <3>1, <3>2
  <2>6. ToSet(Row(uu)) = {Row(uu)[p] : p \in 1 .. raw.R}
    BY <1>4 DEF ToSet
  <2>7. ASSUME NEW v \in ToSet(todo') \ ToSet(order'), NEW w \in Vertices, NEW k \in 1 .. raw.R, Row(w)[k] = v
        PROVE  \E p \in 1 .. raw.R : <<p, w, k>> \in heap'.edges
    <3>1. PICK p \in 1 .. raw.R : v = Row(uu)[p]
      BY <2>1, <2>6
    <3>2. v \in Vertices \ ToSet(order)
      BY <1>1, <1>4, <3>1
    <3> QED BY <2>1, <2>2, <2>7, <3>1, <3>2
  <2>8. \A e \in BlockEdges(uu) : Row(e[2])[e[3]] \in ToSet(Row(uu))
    BY <2>6 DEF BlockEdges, PlacesIn
  <2>9. ASSUME OnceInRows, NEW e \in BlockEdges(uu), NEW f \in BlockEdges(uu), e[2] = f[2], e[3] = f[3]
        PROVE  e = f
    <3>1. /\ e[1] \in 1 .. raw.R /\ f[1] \in 1 .. raw.R /\ Row(uu)[e[1]] = Row(uu)[f[1]]
          /\ e = <<e[1], e[2], e[3]>> /\ f = <<f[1], f[2], f[3]>>
      BY <2>9 DEF BlockEdges, PlacesIn
    <3>2. e[1] \in PlacesIn(uu, Vertices) /\ f[1] \in PlacesIn(uu, Vertices)
      BY <1>4, <3>1 DEF PlacesIn
    <3>3. e[1] = f[1]
      BY <2>9, <3>1, <3>2 DEF OnceInRows
    <3> QED BY <2>9, <3>1, <3>3
  <2>10. Placing'
    <3>1. (OnceInRows' <=> OnceInRows) /\ \A x : Row(x)' = Row(x)
      BY <1>1, BlockFrame
    <3>2. \A e \in heap'.edges : Row(e[2])'[e[3]] \in ToSet(todo') \cup ToSet(order')
      BY <2>1, <2>8, <3>1
    <3>3. OnceInRows' => \A e, f \in heap'.edges : e[2] = f[2] /\ e[3] = f[3] => e = f
      BY <2>1, <2>9, <3>1
    <3>4. \A v \in ToSet(todo') \ ToSet(order'), w \in Vertices', k \in 1 .. raw'.R :
            Row(w)'[k] = v => \E p \in 1 .. raw'.R : <<p, w, k>> \in heap'.edges
      BY <1>1, <1>5, <2>7, <3>1
    <3> QED BY <3>2, <3>3, <3>4 DEF Placing
  <2> QED BY <1>5, <2>1, <2>4, <2>5, <2>10 DEF BlockInv
<1> QED BY <1>2, <1>6, <1>7, <1>8

\* A vertex of the block is placed; its edges are still to be undone.
LEMMA PlacesRight ==
  ASSUME LayoutInv, HeapOk, BlockInv, BundlePlaces
  PROVE  BlockInv'
<1> DEFINE v == Head(todo)
<1>1. /\ Blocking /\ stage = "place" /\ stage' = "place" /\ UNCHANGED <<raw, img, tool, heap>>
      /\ todo # <<>> /\ order' = With(order, v) /\ todo' = Tail(todo)
  BY DEF BundlePlaces, AssignsNext, Blocking
<1>2. /\ raw \in Raws /\ raw.n \in Nat /\ order \in Seq(Vertices) /\ todo \in Seq(Nat) /\ heap.edges \subseteq EdgesOf(raw)
      /\ IdsOf(raw) = Vertices /\ \A x \in Vertices : Row(x) \in [1 .. raw.R -> Vertices]
  BY <1>1, BlockTypes
<1>3. Placing /\ \A w \in Vertices : Counted(w) /\ (InBlock(w) \/ Filed(w))
  BY <1>1, BlockGives
<1>4. ToSet(todo) = {v} \cup ToSet(todo') /\ v \in Nat
  BY <1>1, <1>2, TailSet
<1> HIDE DEF v
<1>5. ToSet(order') = ToSet(order) \cup ({v} \cap Vertices)
  <2>1. CASE v >= raw.n \/ v \in ToSet(order)
    <3>1. order' = order
      BY <1>1, <2>1 DEF With
    <3>2. v >= raw.n => v \notin Vertices
      BY <1>2, <1>4 DEF Vertices
    <3> QED BY <2>1, <3>1, <3>2
  <2>2. CASE ~(v >= raw.n \/ v \in ToSet(order))
    <3>1. order' = Append(order, v) /\ v \in Vertices
      BY <1>1, <1>2, <1>4, <2>2 DEF With, Vertices
    <3> QED BY <1>2, <3>1, AppendSet
  <2> QED BY <2>1, <2>2
<1>6. Vertices' = Vertices /\ (OnceInRows' <=> OnceInRows) /\ \A x : Row(x)' = Row(x)
  BY <1>1, BlockFrame
<1>7. ASSUME NEW w \in Vertices PROVE Left(w)' = Left(w)
  <2> DEFINE A == {k \in 1 .. raw.R : Row(w)[k] \in Vertices \ ToSet(order)}
             B == {k \in 1 .. raw.R : Row(w)[k] \in Vertices \ ToSet(order')}
             E == {k \in 1 .. raw.R : \E p \in 1 .. raw.R : <<p, w, k>> \in heap.edges}
  <2>1. Left(w)' = B \cup E /\ Left(w) = A \cup E
    BY <1>1, BlockFrame
  <2>2. B \subseteq A
    BY <1>5
  <2>3. ASSUME NEW k \in A, k \notin B PROVE k \in E
    <3>1. k \in 1 .. raw.R /\ Row(w)[k] = v /\ v \in ToSet(todo) \ ToSet(order)
      BY <1>4, <1>5, <2>3
    <3> QED BY <1>3, <3>1 DEF Placing
  <2> QED BY <2>1, <2>2, <2>3
<1>8. \A w \in Vertices : Counted(w)'
  BY <1>1, <1>3, <1>7, CountedSame
<1>9. \A w \in Vertices : InBlock(w)' \/ Filed(w)'
  BY <1>1, <1>3 DEF InBlock, Filed, Bucket, Hot, Below
<1>10. Placing'
  <2>1. \A x \in ToSet(todo') \ ToSet(order'), w \in Vertices, k \in 1 .. raw.R :
          Row(w)[k] = x => \E p \in 1 .. raw.R : <<p, w, k>> \in heap.edges
    BY <1>3, <1>4, <1>5 DEF Placing
  <2>2. ASSUME NEW e \in heap.edges PROVE Row(e[2])[e[3]] \in ToSet(todo') \cup ToSet(order')
    <3>1. e[2] \in Vertices /\ e[3] \in 1 .. raw.R
      BY <1>2 DEF EdgesOf
    <3>2. Row(e[2])[e[3]] \in Vertices
      BY <1>2, <3>1
    <3>3. Row(e[2])[e[3]] \in ToSet(todo) \cup ToSet(order)
      BY <1>3 DEF Placing
    <3> QED BY <1>4, <1>5, <3>2, <3>3
  <2>3. OnceInRows => \A e, f \in heap.edges : e[2] = f[2] /\ e[3] = f[3] => e = f
    BY <1>3 DEF Placing
  <2> QED BY <1>1, <1>6, <2>1, <2>2, <2>3 DEF Placing
<1> QED BY <1>1, <1>6, <1>8, <1>9, <1>10 DEF BlockInv

\* Raising the cursor to b uncovers nothing.
LEMMA Raised ==
  ASSUME NEW b \in Buckets(raw), NEW c \in Buckets(raw), raw.R \in Nat, heap.h \in {0, 1}, heap.r \in 0 .. raw.R,
         heap'.h = (IF Below(b) THEN heap.h ELSE b[1]), heap'.r = (IF Below(b) THEN heap.r ELSE b[2])
  PROVE  Under(b, heap'.h, heap'.r) /\ (Below(c) => Under(c, heap'.h, heap'.r))
<1>1. b[1] \in {0, 1} /\ b[2] \in 0 .. raw.R /\ c[1] \in {0, 1} /\ c[2] \in 0 .. raw.R
  BY DEF Buckets
<1>2. CASE Below(b)
  BY <1>2 DEF Below
<1>3. CASE ~Below(b)
  <2>1. heap'.h = b[1] /\ heap'.r = b[2]
    BY <1>3
  <2>2. ~(b[1] < heap.h \/ (b[1] = heap.h /\ b[2] <= heap.r))
    BY <1>3 DEF Below, Under
  <2>3. Below(c) => c[1] < heap.h \/ (c[1] = heap.h /\ c[2] <= heap.r)
    BY DEF Below, Under
  <2> QED BY <1>1, <2>1, <2>2, <2>3 DEF Under
<1> QED BY <1>2, <1>3

\* An edge into the block is undone: the count falls, the vertex is filed again.
LEMMA UnplacesRight ==
  ASSUME LayoutInv, HeapOk, BlockInv, BundleUnplaces
  PROVE  BlockInv'
<1>1. Blocking /\ stage = "place" /\ todo = <<>> /\ UNCHANGED <<raw, img, tool, order, todo>>
  BY DEF BundleUnplaces, Blocking
<1>2. Placing /\ \A x \in Vertices : Counted(x) /\ (InBlock(x) \/ Filed(x))
  BY <1>1, BlockGives
<1>3. Vertices' = Vertices /\ (OnceInRows' <=> OnceInRows) /\ \A x : Row(x)' = Row(x)
  BY <1>1, BlockFrame
<1>4. CASE heap.edges = {}
  <2>1. stage' = "blocks" /\ heap' = heap
    BY <1>4 DEF BundleUnplaces
  <2>2. \A x \in Vertices : Left(x)' = Left(x)
    BY <1>1, <2>1, BlockFrame
  <2>3. \A x \in Vertices : Counted(x)'
    BY <1>1, <1>2, <2>1, <2>2, CountedSame
  <2>4. \A x \in Vertices : Filed(x)'
    BY <1>2, <1>4, <2>1 DEF InBlock, Filed, Bucket, Hot, Below
  <2> QED BY <1>3, <1>4, <2>1, <2>3, <2>4 DEF BlockInv
<1>5. CASE heap.edges # {}
  <2>1. stage' = "place" /\ \E e \in heap.edges : heap' = Unplace(e)
    BY <1>1, <1>5 DEF BundleUnplaces
  <2>2. PICK e \in heap.edges : heap' = Unplace(e)
    BY <2>1
  <2> DEFINE w == e[2]
             b == <<Hot(w), heap.rem[w] - 1>>
  <2>3. /\ w \in Vertices /\ heap'.hot = heap.hot /\ heap'.of = heap.of /\ heap'.edges = heap.edges \ {e}
        /\ heap.rem[w] = 0 => heap'.rem = heap.rem /\ heap'.buckets = heap.buckets /\ heap'.h = heap.h /\ heap'.r = heap.r
        /\ heap.rem[w] # 0 =>
             /\ b \in Buckets(raw) /\ heap'.rem = [heap.rem EXCEPT ![w] = b[2]]
             /\ heap'.buckets = [heap.buckets EXCEPT ![b] = Append(heap.buckets[b], w)]
             /\ heap'.h = (IF Below(b) THEN heap.h ELSE b[1]) /\ heap'.r = (IF Below(b) THEN heap.r ELSE b[2])
    BY <1>1, <2>2, UnplaceIs
  <2>4. /\ raw \in Raws /\ heap.rem \in [Vertices -> 0 .. raw.R] /\ heap.buckets \in [Buckets(raw) -> Seq(Vertices)] /\ raw.R \in Nat
        /\ heap.h \in {0, 1} /\ heap.r \in 0 .. raw.R /\ \A x \in Vertices : Bucket(x) \in Buckets(raw)
        /\ heap.edges \subseteq EdgesOf(raw)
    BY <1>1, BlockTypes
  <2>5. e = <<e[1], w, e[3]>> /\ e[1] \in 1 .. raw.R /\ e[3] \in 1 .. raw.R
    BY <2>4 DEF EdgesOf
  <2>6. b[1] = Hot(w) /\ b[2] = heap.rem[w] - 1
    OBVIOUS
  <2>7. heap'.rem[w] = (IF heap.rem[w] = 0 THEN 0 ELSE heap.rem[w] - 1) /\ \A x \in Vertices : x # w => heap'.rem[x] = heap.rem[x]
    BY <2>3, <2>4, <2>6
  <2>8. ASSUME NEW x \in Vertices, x # w PROVE Left(x)' = Left(x)
    <3>1. \A p, k : <<p, x, k>> \in heap'.edges <=> <<p, x, k>> \in heap.edges
      <4>1. \A p, k : <<p, x, k>> # e
        BY <2>5, <2>8
      <4> QED BY <2>3, <4>1
    <3> DEFINE A == {k \in 1 .. raw.R : Row(x)[k] \in Vertices \ ToSet(order)}
               E == {k \in 1 .. raw.R : \E p \in 1 .. raw.R : <<p, x, k>> \in heap.edges}
               F == {k \in 1 .. raw.R : \E p \in 1 .. raw.R : <<p, x, k>> \in heap'.edges}
    <3>2. Left(x) = A \cup E /\ Left(x)' = A \cup F
      BY <1>1, BlockFrame
    <3>3. E = F
      BY <3>1, Zenon
    <3> QED BY <3>2, <3>3
  <2> HIDE DEF b, w
  <2>9. Left(w) \subseteq Left(w)' \cup {e[3]} /\ Left(w)' \subseteq Left(w) /\ e[3] \in Left(w)
    <3>1. \A p, k : <<p, w, k>> \in heap.edges => <<p, w, k>> \in heap'.edges \/ k = e[3]
      <4>1. \A p, k : <<p, w, k>> = e => k = e[3]
        BY <2>5
      <4> QED BY <2>3, <4>1
    <3>2. \A p, k : <<p, w, k>> \in heap'.edges => <<p, w, k>> \in heap.edges
      BY <2>3
    <3> DEFINE A == {k \in 1 .. raw.R : Row(w)[k] \in Vertices \ ToSet(order)}
               E == {k \in 1 .. raw.R : \E p \in 1 .. raw.R : <<p, w, k>> \in heap.edges}
               F == {k \in 1 .. raw.R : \E p \in 1 .. raw.R : <<p, w, k>> \in heap'.edges}
    <3>3. Left(w) = A \cup E /\ Left(w)' = A \cup F
      BY <1>1, BlockFrame
    <3>4. E \subseteq F \cup {e[3]}
      BY <3>1, Zenon
    <3>5. F \subseteq E
      BY <3>2, Zenon
    <3>6. e[3] \in E
      BY <2>5
    <3> QED BY <3>3, <3>4, <3>5, <3>6
  <2>10. OnceInRows => e[3] \notin Left(w)'
    <3> SUFFICES ASSUME OnceInRows, e[3] \in Left(w)' PROVE FALSE
      OBVIOUS
    <3>1. Row(w)[e[3]] \in ToSet(order)
      <4>1. ToSet(todo) = {}
        BY <1>1 DEF ToSet
      <4> QED BY <1>2, <4>1 DEF Placing, w
    <3>2. PICK p \in 1 .. raw.R : <<p, w, e[3]>> \in heap'.edges
      BY <1>1, <3>1, BlockFrame
    <3>3. <<p, w, e[3]>> \in heap.edges /\ <<p, w, e[3]>> # e
      BY <2>3, <3>2
    <3>4. <<p, w, e[3]>>[2] = e[2] /\ <<p, w, e[3]>>[3] = e[3]
      BY DEF w
    <3> QED BY <1>2, <3>3, <3>4 DEF Placing
  <2>11. Counted(w)'
    <3> DEFINE L == Left(w)
               M == Left(w)'
    <3>1. L \in SUBSET (1 .. raw.R) /\ M \in SUBSET (1 .. raw.R)
      BY <1>1, BlockFrame
    <3>2. IsFiniteSet(L) /\ IsFiniteSet(M) /\ Cardinality(L) \in Nat /\ Cardinality(M) \in Nat
      BY <2>4, <3>1, PlacesBound
    <3>3. heap.rem[w] <= Cardinality(L) /\ (OnceInRows => heap.rem[w] = Cardinality(L)) /\ heap.rem[w] \in Nat
      BY <1>2, <2>3, <2>4 DEF Counted
    <3>4. e[3] \in M => M = L
      BY <2>9
    <3>5. e[3] \notin M => M = L \ {e[3]} /\ e[3] \in L
      BY <2>9
    <3> HIDE DEF L, M
    <3>6. e[3] \notin M => Cardinality(M) = Cardinality(L) - 1
      BY <3>2, <3>5, FS_RemoveElement
    <3>7. heap'.rem[w] <= Cardinality(M) /\ (OnceInRows => heap'.rem[w] = Cardinality(M))
      <4>1. CASE e[3] \in M
        <5>1. ~OnceInRows
          BY <2>10, <4>1 DEF M
        <5> QED BY <2>7, <3>2, <3>3, <3>4, <4>1, <5>1
      <4>2. CASE e[3] \notin M
        <5>1. Cardinality(M) = Cardinality(L) - 1
          BY <3>6, <4>2
        <5> QED BY <2>7, <3>2, <3>3, <5>1
      <4> QED BY <4>1, <4>2
    <3> QED BY <1>3, <3>7 DEF Counted, M
  <2>12. ASSUME NEW x \in Vertices, x # w PROVE Counted(x)'
    BY <1>2, <1>3, <2>7, <2>8, <2>12 DEF Counted
  <2>13. ASSUME NEW c \in Buckets(raw), Below(c) PROVE Below(c)' /\ ToSet(heap.buckets[c]) \subseteq ToSet(heap'.buckets[c])
    <3>1. CASE heap.rem[w] = 0
      BY <2>3, <2>13, <3>1 DEF Below
    <3>2. CASE heap.rem[w] # 0
      <4>1. Below(c)'
        BY <2>3, <2>4, <2>13, <3>2, Raised DEF Below
      <4>2. ToSet(Append(heap.buckets[b], w)) = ToSet(heap.buckets[b]) \cup {w}
        BY <2>3, <2>4, <3>2, AppendSet
      <4> QED BY <2>3, <2>4, <3>2, <4>1, <4>2
    <3> QED BY <3>1, <3>2
  <2>14. ASSUME NEW x \in Vertices, x # w PROVE InBlock(x)' \/ Filed(x)'
    <3>1. CASE InBlock(x)
      <4>1. PICK f \in heap.edges : f[2] = x
        BY <3>1 DEF InBlock
      <4>2. f \in heap'.edges
        BY <2>3, <2>14, <4>1 DEF w
      <4> QED BY <2>1, <2>3, <3>1, <4>1, <4>2 DEF InBlock
    <3>2. CASE Filed(x)
      <4>1. Bucket(x)' = Bucket(x) /\ heap'.rem[x] = heap.rem[x]
        BY <2>3, <2>7, <2>14, BucketSame
      <4>2. Bucket(x) \in Buckets(raw)
        BY <2>4
      <4>3. heap.rem[x] > 0 => x \in ToSet(heap.buckets[Bucket(x)]) /\ Below(Bucket(x))
        BY <3>2 DEF Filed
      <4>4. heap.rem[x] > 0 => x \in ToSet(heap'.buckets[Bucket(x)]) /\ Under(Bucket(x), heap'.h, heap'.r)
        BY <2>13, <4>2, <4>3 DEF Below
      <4> QED BY <4>1, <4>4 DEF Filed, Below
    <3> QED BY <1>2, <3>1, <3>2
  <2>15. Filed(w)'
    <3>1. CASE heap.rem[w] = 0
      BY <2>7, <3>1 DEF Filed
    <3>2. CASE heap.rem[w] # 0
      <4>1. Bucket(w)' = b
        BY <2>3, <2>7, <3>2 DEF Bucket, Hot, b
      <4>2. w \in ToSet(heap'.buckets[b])
        <5>1. heap'.buckets[b] = Append(heap.buckets[b], w) /\ heap.buckets[b] \in Seq(Vertices)
          BY <2>3, <2>4, <3>2
        <5>2. ToSet(Append(heap.buckets[b], w)) = ToSet(heap.buckets[b]) \cup {w}
          BY <2>3, <5>1, AppendSet
        <5> QED BY <5>1, <5>2
      <4>3. Under(b, heap'.h, heap'.r)
        BY <2>3, <2>4, <3>2, Raised
      <4> QED BY <4>1, <4>2, <4>3 DEF Filed, Below
    <3> QED BY <3>1, <3>2
  <2>16. Placing'
    <3>1. ToSet(todo') = {}
      BY <1>1 DEF ToSet
    <3>2. \A f \in heap'.edges : Row(f[2])'[f[3]] \in ToSet(todo') \cup ToSet(order')
      BY <1>1, <1>2, <1>3, <2>3 DEF Placing
    <3>3. OnceInRows' => \A f, g \in heap'.edges : f[2] = g[2] /\ f[3] = g[3] => f = g
      BY <1>2, <1>3, <2>3 DEF Placing
    <3> QED BY <3>1, <3>2, <3>3 DEF Placing
  <2>17. \A x \in Vertices : Counted(x)' /\ (InBlock(x)' \/ Filed(x)')
    BY <2>11, <2>12, <2>14, <2>15
  <2> QED BY <1>3, <2>1, <2>16, <2>17 DEF BlockInv
<1> QED BY <1>4, <1>5

\* Every step keeps the counts and the buckets right.
LEMMA BlocksKeep ==
  ASSUME LayoutInv, HeapOk, BlockInv, [LayoutNext]_layoutVars
  PROVE  BlockInv'
<1>1. CASE UNCHANGED layoutVars
  <2>1. UNCHANGED <<raw, img, tool, stage, order, todo, heap>>
    BY <1>1 DEF layoutVars, permVars
  <2>2. Vertices' = Vertices /\ (OnceInRows' <=> OnceInRows) /\ Blocking' = Blocking
    BY <2>1, BlockFrame DEF Blocking, Bundle
  <2>3. CASE ~Blocking
    BY <2>2, <2>3 DEF BlockInv
  <2>4. CASE Blocking
    <3>1. \A w \in Vertices : Left(w)' = Left(w)
      BY <2>1, BlockFrame
    <3>2. \A w \in Vertices : Counted(w)'
      BY <2>1, <2>4, <3>1, BlockGives, CountedSame
    <3>3. \A w \in Vertices : ((stage = "file" /\ w \in ToSet(todo)) \/ InBlock(w) \/ Filed(w))'
      BY <2>1, <2>4, BlockGives DEF InBlock, Filed, Bucket, Hot, Below
    <3>4. stage' = "place" => Placing'
      <4> SUFFICES ASSUME stage' = "place" PROVE Placing'
        OBVIOUS
      <4>1. Placing
        BY <2>1, <2>4, BlockGives
      <4>2. \A w : Row(w)' = Row(w)
        BY <2>1, BlockFrame
      <4>3. \A v \in ToSet(todo') \ ToSet(order'), w \in Vertices, k \in 1 .. raw.R :
              Row(w)'[k] = v => \E p \in 1 .. raw.R : <<p, w, k>> \in heap'.edges
        BY <2>1, <4>1, <4>2 DEF Placing
      <4>4. \A e \in heap'.edges : Row(e[2])'[e[3]] \in ToSet(todo') \cup ToSet(order')
        BY <2>1, <4>1, <4>2 DEF Placing
      <4>5. OnceInRows' => \A e, f \in heap'.edges : e[2] = f[2] /\ e[3] = f[3] => e = f
        BY <2>1, <2>2, <4>1 DEF Placing
      <4> QED BY <2>1, <2>2, <4>3, <4>4, <4>5 DEF Placing
    <3> QED BY <2>1, <2>2, <2>4, <3>2, <3>3, <3>4, BlockGives DEF BlockInv
  <2> QED BY <2>3, <2>4
<1>2. CASE BlockStep
  BY <1>2, BlocksBeginRight, FilesRight, BlockRight, PlacesRight, UnplacesRight DEF BlockStep
<1>3. CASE LayoutNext /\ ~BlockStep /\ ~UNCHANGED layoutVars
  BY <1>3, NoBlocks DEF BlockInv
<1> QED BY <1>1, <1>2, <1>3

\* While pack_layout_bundle chooses blocks, pop_best can find every vertex with
\* something left to place: stale entries of its buckets and the cursor never hide
\* one.
THEOREM LayoutBestFirst == LayoutSpec => []BestFirst
<1>1. LayoutInit => BlockInv
  BY DEF LayoutInit, BlockInv, Blocking
<1>2. LayoutInv /\ HeapOk /\ BlockInv /\ [LayoutNext]_layoutVars => BlockInv'
  BY BlocksKeep
<1>3. BlockInv => BestFirst
  <2> SUFFICES ASSUME BlockInv, Bundle, stage = "blocks", NEW uu \in Vertices
               PROVE  /\ heap.rem[uu] > 0 => uu \in ToSet(heap.buckets[Bucket(uu)]) /\ Below(Bucket(uu))
                      /\ heap.rem[uu] <= Cardinality(PlacesIn(uu, Unplaced))
                      /\ OnceInRows => heap.rem[uu] = Cardinality(PlacesIn(uu, Unplaced))
    BY DEF BestFirst
  <2>1. heap.edges = {} /\ Counted(uu) /\ Filed(uu)
    BY BlockGives DEF Blocking, InBlock
  <2>2. Left(uu) = PlacesIn(uu, Unplaced)
    BY <2>1 DEF Left
  <2> QED BY <2>1, <2>2 DEF Counted, Filed
<1> QED BY <1>1, <1>2, <1>3, LayoutSafe, PTL DEF LayoutSpec

-----------------------------------------------------------------------------
(* Pages.                                                                  *)

\* A quotient is compared by multiplying.
LEMMA QuotLe ==
  ASSUME NEW a \in Nat, NEW b \in Nat, b > 0, NEW i \in Nat
  PROVE  a \div b \in Nat /\ (i <= a \div b <=> i * b <= a)
<1> DEFINE q == a \div b
           r == a % b
<1>1. q \in Nat /\ r \in Nat /\ r < b /\ a = b * q + r
  OBVIOUS
<1> HIDE DEF q, r
<1>2. CASE i <= q
  <2>1. i * b <= q * b
    BY <1>1, <1>2
  <2> QED BY <1>1, <1>2, <2>1 DEF q
<1>3. CASE q < i
  <2>1. q * b + b <= i * b
    BY <1>1, <1>3, RowsKept
  <2>2. q * b = b * q /\ q * b \in Nat /\ i * b \in Nat
    BY <1>1
  <2> QED BY <1>1, <1>3, <2>1, <2>2 DEF q
<1> QED BY <1>1, <1>2, <1>3

\* And rounded up.
LEMMA CeilLe ==
  ASSUME NEW a \in Nat, NEW b \in Nat, b > 0, NEW i \in Nat
  PROVE  (a + b - 1) \div b \in Nat /\ ((a + b - 1) \div b <= i <=> a <= i * b)
<1>1. a + b - 1 \in Nat /\ i + 1 \in Nat
  OBVIOUS
<1> DEFINE q == (a + b - 1) \div b
<1>2. q \in Nat /\ (i + 1 <= q <=> (i + 1) * b <= a + b - 1)
  BY <1>1, QuotLe
<1>3. (i + 1) * b = i * b + b /\ i * b \in Nat
  OBVIOUS
<1> HIDE DEF q
<1>4. q <= i <=> ~(i + 1 <= q)
  BY <1>2
<1>5. q <= i <=> a <= i * b
  BY <1>2, <1>3, <1>4
<1> QED BY <1>2, <1>5 DEF q

\* A page that a span of bytes overlaps.
Overlaps(p, off, len) == p \in Nat /\ p % 4096 = 0 /\ p < off + len /\ off < p + 4096

\* The pages of a span are those.
LEMMA PagesAre ==
  ASSUME NEW off \in Nat, NEW len \in Nat, len > 0
  PROVE  \A p : p \in PagesOf(off, len, 4096) <=> Overlaps(p, off, len)
<1>1. ASSUME NEW p \in PagesOf(off, len, 4096) PROVE Overlaps(p, off, len)
  <2>1. PICK q \in off \div 4096 .. (off + len - 1) \div 4096 : p = q * 4096
    BY DEF PagesOf
  <2> QED BY <2>1 DEF Overlaps
<1>2. ASSUME NEW p, Overlaps(p, off, len) PROVE p \in PagesOf(off, len, 4096)
  <2>1. p = (p \div 4096) * 4096 /\ p \div 4096 \in off \div 4096 .. (off + len - 1) \div 4096
    BY <1>2 DEF Overlaps
  <2> QED BY <2>1 DEF PagesOf
<1> QED BY <1>1, <1>2

\* The vectors that overlap a page, by their first and last index.
LEMMA TouchIndices ==
  ASSUME NEW v0 \in Nat, NEW n \in Nat, NEW st \in Nat, NEW w \in Nat, NEW p \in Nat, NEW hi \in Nat,
         0 < w, w <= st, v0 <= p, p < hi, NEW i \in 0 .. n - 1,
         hi = IF p + 4096 <= v0 + n * st THEN p + 4096 ELSE v0 + n * st
  PROVE  LET i0 == IF p - v0 < w THEN 0 ELSE (p - v0 - w + st) \div st
             i1 == (hi - v0 - 1) \div st
         IN  (i0 <= i /\ i <= i1) <=> (v0 + i * st < p + 4096 /\ p < v0 + i * st + w)
<1> DEFINE i0 == IF p - v0 < w THEN 0 ELSE (p - v0 - w + st) \div st
           i1 == (hi - v0 - 1) \div st
           m == i * st
<1>1. m \in Nat /\ m + st <= n * st /\ n * st \in Nat /\ (i + 1) * st = m + st
  BY RowsKept
<1>2. i <= i1 <=> m <= hi - v0 - 1
  <2>1. hi - v0 - 1 \in Nat
    OBVIOUS
  <2> QED BY <2>1, QuotLe
<1>3. i0 <= i <=> p < v0 + m + w
  <2>1. CASE p - v0 < w
    BY <1>1, <2>1
  <2>2. CASE ~(p - v0 < w)
    <3> DEFINE a == p - v0 - w + st
    <3>1. a \in Nat /\ i + 1 \in Nat
      BY <2>2
    <3>2. a \div st \in Nat /\ (i + 1 <= a \div st <=> (i + 1) * st <= a)
      BY <3>1, QuotLe
    <3>3. i0 = a \div st
      BY <2>2
    <3>4. i0 <= i <=> ~((i + 1) * st <= a)
      BY <3>2, <3>3
    <3> QED BY <1>1, <3>1, <3>4
  <2> QED BY <2>1, <2>2
<1>4. m <= hi - v0 - 1 <=> v0 + m < p + 4096
  BY <1>1
<1> QED BY <1>2, <1>3, <1>4

\* Vectors of one stride, one after the other.
Strided(h) ==
  /\ h.off_vectors \in Nat /\ h.n \in Nat /\ h.n > 0 /\ h.packed \in Nat /\ h.packed > 0
  /\ vec_stride(h) \in Nat /\ vec_stride(h) >= h.packed /\ h.len_vectors = h.n * vec_stride(h)

\* The bytes of vector i, of length len.
At(h, i, len) == Span(h.off_vectors + i * vec_stride(h), len)

\* for_ids_touching_pages calls back exactly the ids whose vectors overlap.
LEMMA TouchingAre ==
  ASSUME NEW pl, Strided(pl.hdr), NEW p \in Nat, pl.hdr.off_vectors <= p, p < pl.hdr.off_vectors + pl.hdr.len_vectors
  PROVE  for_ids_touching_pages(pl, p, p, 4096) = {i \in 0 .. pl.hdr.n - 1 : Meet(At(pl.hdr, i, pl.hdr.packed), Page(p))}
<1> DEFINE h == pl.hdr
           v0 == h.off_vectors
           n == h.n
           w == h.packed
           st == vec_stride(h)
           hi == IF p + 4096 <= v0 + n * st THEN p + 4096 ELSE v0 + n * st
           i0 == IF p - v0 < w THEN 0 ELSE (p - v0 - w + st) \div st
           i1 == (hi - v0 - 1) \div st
<1>1. v0 \in Nat /\ n \in Nat /\ w \in Nat /\ st \in Nat /\ n * st \in Nat /\ hi \in Nat /\ 0 < w /\ w <= st /\ v0 <= p /\ p < v0 + n * st
  BY DEF Strided
<1>2. Max({p, v0}) = p /\ Min({p + 4096, v0 + n * st}) = hi
  <2>1. p + 4096 \in Nat /\ v0 + n * st \in Nat
    BY <1>1
  <2> QED BY <1>1, <2>1, MaxOfTwo, MinOfTwo
<1>3. for_ids_touching_pages(pl, p, p, 4096) = IF p >= hi THEN {} ELSE i0 .. Min({i1, n - 1})
  <2> DEFINE lo == Max({p, v0})
             hj == Min({p + 4096, v0 + h.len_vectors})
             k0 == IF lo - v0 < w THEN 0 ELSE (lo - v0 - w + st) \div st
             k1 == (hj - v0 - 1) \div st
  <2>1. for_ids_touching_pages(pl, p, p, 4096) = IF lo >= hj THEN {} ELSE k0 .. Min({k1, n - 1})
    BY Zenon DEF for_ids_touching_pages
  <2>2. lo = p /\ hj = hi
    BY <1>2 DEF Strided
  <2> HIDE DEF lo, hj
  <2>3. k0 = i0 /\ k1 = i1
    BY <2>2, Zenon
  <2> HIDE DEF k0, k1, i0, i1, hi
  <2> QED BY <2>1, <2>2, <2>3
<1>4. p < hi
  BY <1>1
<1>5. hi - v0 - 1 \in Nat /\ i1 \in Nat /\ i0 \in Nat
  <2>1. hi - v0 - 1 \in Nat
    BY <1>1, <1>4
  <2>2. i1 \in Nat
    BY <1>1, <2>1, QuotLe
  <2>3. CASE p - v0 < w
    BY <2>1, <2>2, <2>3
  <2>4. CASE ~(p - v0 < w)
    <3>1. p - v0 - w + st \in Nat
      BY <1>1, <2>4
    <3>2. (p - v0 - w + st) \div st \in Nat
      BY <1>1, <3>1, QuotLe
    <3> QED BY <2>1, <2>2, <2>4, <3>2
  <2> QED BY <2>3, <2>4
<1>6. Min({i1, n - 1}) = IF i1 <= n - 1 THEN i1 ELSE n - 1
  <2>1. n - 1 \in Nat
    BY <1>1
  <2> QED BY <1>5, <2>1, MinOfTwo
<1>7. \A i \in 0 .. n - 1 : (i0 <= i /\ i <= i1) <=> (v0 + i * st < p + 4096 /\ p < v0 + i * st + w)
  <2> SUFFICES ASSUME NEW i \in 0 .. n - 1 PROVE (i0 <= i /\ i <= i1) <=> (v0 + i * st < p + 4096 /\ p < v0 + i * st + w)
    OBVIOUS
  <2>1. hi = IF p + 4096 <= v0 + n * st THEN p + 4096 ELSE v0 + n * st
    OBVIOUS
  <2> HIDE DEF v0, n, w, st, hi
  <2> QED BY <1>1, <1>4, <2>1, TouchIndices
<1> HIDE DEF v0, n, w, st, hi, i0, i1
<1> DEFINE F == {i \in 0 .. n - 1 : i0 <= i /\ i <= i1}
           G == {i \in 0 .. n - 1 : Meet(At(h, i, w), Page(p))}
           T == for_ids_touching_pages(pl, p, p, 4096)
<1>8. T = F
  <2>1. T = i0 .. Min({i1, n - 1})
    <3> HIDE DEF T
    <3>1. T = IF p >= hi THEN {} ELSE i0 .. Min({i1, n - 1})
      BY <1>3 DEF T
    <3> QED BY <1>1, <1>4, <3>1
  <2>2. i0 .. Min({i1, n - 1}) = F
    BY <1>1, <1>5, <1>6
  <2> HIDE DEF T, F
  <2> QED BY <2>1, <2>2
<1>9. \A i \in 0 .. n - 1 : Meet(At(h, i, w), Page(p)) <=> (v0 + i * st < p + 4096 /\ p < v0 + i * st + w)
  BY DEF Meet, Span, At, Page, v0, st, w
<1>10. G = F
  BY <1>7, <1>9
<1>11. T = G
  <2> HIDE DEF T, F, G
  <2> QED BY <1>8, <1>10
<1> QED BY <1>11 DEF n, w

\* A vector that ends in the page has its whole stride in it.
WholeStride(v0, st, len, p) == \A i \in Nat : v0 + i * st + len <= p + 4096 => v0 + i * st + st <= p + 4096

\* The vectors of a stride that lie inside a page, their strides too but for the first.
Inside(v0, n, st, len, p) ==
  {i \in 0 .. n - 1 : Within(Span(v0 + i * st, len), Page(p)) /\ (i = 0 \/ v0 + (i + 1) * st <= p + 4096)}

Scans(v0, n, st, len, p) ==
  /\ v0 \in Nat /\ n \in Nat /\ n > 0 /\ st \in Nat /\ len \in Nat /\ 0 < len /\ len <= st
  /\ p \in Nat /\ v0 < p + 4096

\* ScanPage finds those.
LEMMA ScanIs ==
  ASSUME NEW v0, NEW n, NEW st, NEW len, NEW p, Scans(v0, n, st, len, p)
  PROVE  ScanPage(v0, n, st, len, p, 4096) = Inside(v0, n, st, len, p)
<1> USE DEF Scans
<1> DEFINE lo == Max({p, v0})
           i0 == (lo - v0 + st - 1) \div st
           q == (p + 4096 - v0) \div st
           i1 == Max({q, 1}) - 1
           top == Min({i1, n - 1})
           In(i) == v0 + i * st >= p /\ v0 + i * st + len <= p + 4096
           EndsIn(i) == i = 0 \/ v0 + (i + 1) * st <= p + 4096
           F == {i \in 0 .. n - 1 : In(i) /\ EndsIn(i)}
           G == Inside(v0, n, st, len, p)
           S == ScanPage(v0, n, st, len, p, 4096)
<1>1. lo = IF p >= v0 THEN p ELSE v0
  BY MaxOfTwo
<1>2. lo \in Nat /\ lo - v0 \in Nat /\ p + 4096 - v0 \in Nat /\ p + 4096 - v0 > 0
  BY <1>1
<1>3. i0 \in Nat /\ \A i \in Nat : i0 <= i <=> lo - v0 <= i * st
  <2> HIDE DEF lo
  <2> DEFINE a == lo - v0
  <2>1. a \in Nat
    BY <1>2
  <2> HIDE DEF a
  <2>2. \A i \in Nat : (a + st - 1) \div st \in Nat /\ ((a + st - 1) \div st <= i <=> a <= i * st)
    BY <2>1, CeilLe
  <2> QED BY <2>2 DEF a
<1>4. q \in Nat /\ \A i \in Nat : i <= q <=> i * st <= p + 4096 - v0
  <2> DEFINE a == p + 4096 - v0
  <2>1. a \in Nat
    BY <1>2
  <2> HIDE DEF a
  <2>2. \A i \in Nat : a \div st \in Nat /\ (i <= a \div st <=> i * st <= a)
    BY <2>1, QuotLe
  <2> QED BY <2>2 DEF a
<1> HIDE DEF q, i0
<1>5. Max({q, 1}) = IF q >= 1 THEN q ELSE 1
  BY <1>4, MaxOfTwo
<1>6. i1 \in Nat /\ n - 1 \in Nat /\ (i1 = q - 1 \/ (q = 0 /\ i1 = 0))
  BY <1>4, <1>5
<1> HIDE DEF i1
<1>7. top = IF i1 <= n - 1 THEN i1 ELSE n - 1
  BY <1>6, MinOfTwo
<1> HIDE DEF top
<1>8. S = {i \in i0 .. top : In(i)}
  BY SMT DEF ScanPage, i0, top, i1, q
<1>9. \A i \in Nat : i * st \in Nat /\ (i + 1) * st = i * st + st
  OBVIOUS
<1>10. \A i \in 0 .. n - 1 : In(i) => (EndsIn(i) <=> i0 <= i /\ i <= top)
  <2> SUFFICES ASSUME NEW i \in 0 .. n - 1, In(i) PROVE EndsIn(i) <=> i0 <= i /\ i <= top
    OBVIOUS
  <2>1. i \in Nat /\ i + 1 \in Nat /\ i * st \in Nat /\ (i + 1) * st \in Nat
    BY <1>9
  <2>2. lo - v0 <= i * st
    BY <1>1, <2>1
  <2>3. i0 <= i
    BY <1>3, <2>1, <2>2
  <2>4. i + 1 <= q <=> (i + 1) * st <= p + 4096 - v0
    BY <1>4, <2>1
  <2>5. (i + 1) * st <= p + 4096 - v0 <=> v0 + (i + 1) * st <= p + 4096
    <3> DEFINE z == (i + 1) * st
    <3>1. z \in Nat
      BY <2>1
    <3> HIDE DEF z
    <3>2. z <= p + 4096 - v0 <=> v0 + z <= p + 4096
      BY <3>1
    <3> QED BY <3>2 DEF z
  <2>6. i <= top <=> i <= i1
    BY <1>6, <1>7, <2>1
  <2>7. i <= i1 <=> i = 0 \/ i + 1 <= q
    BY <1>4, <1>6, <2>1
  <2> QED BY <2>3, <2>4, <2>5, <2>6, <2>7
<1>11. \A i \in i0 .. top : i \in 0 .. n - 1
  BY <1>3, <1>6, <1>7
<1>12. {i \in i0 .. top : In(i)} = F
  <2>1. i0 \in Nat /\ top \in Nat
    BY <1>3, <1>6, <1>7
  <2>2. \A i \in 0 .. n - 1 : i0 <= i /\ i <= top => i \in i0 .. top
    BY <2>1
  <2>3. \A i \in i0 .. top : i0 <= i /\ i <= top
    BY <2>1
  <2> HIDE DEF In, EndsIn
  <2> QED BY <1>10, <1>11, <2>2, <2>3
<1>13. \A i \in 0 .. n - 1 : In(i) <=> Within(Span(v0 + i * st, len), Page(p))
  BY DEF Within, Span, Page
<1>14. F = G
  <2>1. G = {i \in 0 .. n - 1 : Within(Span(v0 + i * st, len), Page(p)) /\ EndsIn(i)}
    BY DEF Inside
  <2> HIDE DEF In, EndsIn, G
  <2> QED BY <1>13, <2>1
<1> HIDE DEF S, F, G
<1>15. S = G
  BY <1>8, <1>12, <1>14
<1> QED BY <1>15 DEF S, G

-----------------------------------------------------------------------------
(* An image at rest, page by page.                                         *)

\* The placement of an image at rest.
LEMMA ImageIs ==
  ASSUME LayoutInv, AtRest
  PROVE  /\ raw \in Raws /\ HeaderOk(raw, img.hdr) /\ img.gfile \in FullRows(raw) /\ IdsOf(raw) = Vertices
         /\ ImagePlacement.hdr = img.hdr /\ Strided(img.hdr) /\ img.hdr.off_vectors % 4096 = 0
         /\ img.hdr.n = raw.n /\ img.hdr.packed = raw.packed /\ img.hdr.R = raw.R /\ Vertices = 0 .. raw.n - 1
         /\ diskann_layout(img.hdr) <=> img.hdr.version = 2
         /\ \A i \in Vertices : vec(ImagePlacement, i) = img.hdr.off_vectors + i * vec_stride(img.hdr)
         /\ \A i \in Vertices : entry(ImagePlacement, i) = img.hdr.off_vectors + i * vec_stride(img.hdr)
         /\ img.hdr.version \in {1, 2}
<1>1. img # NoImage
  BY DEF AtRest
<1>2. raw \in Raws /\ DataOk(raw, img) /\ HeaderOk(raw, img.hdr) /\ IdsOf(raw) = Vertices
  BY <1>1, ImageAt
<1>3. img.gfile \in FullRows(raw)
  BY <1>2 DEF DataOk
<1>4. ImagePlacement.hdr = img.hdr
  BY DEF ImagePlacement
<1>5. Strided(img.hdr) /\ img.hdr.n = raw.n /\ img.hdr.packed = raw.packed /\ img.hdr.R = raw.R
  BY <1>2, HeaderNats, RawIs DEF Strided
<1>6. img.hdr.off_vectors % 4096 = 0
  <2>1. img.hdr.version = 1 => FourRegions(img.hdr)
    BY <1>2 DEF HeaderOk
  <2>2. img.hdr.version # 1 => RecordsOnly(img.hdr)
    BY <1>2 DEF HeaderOk
  <2>3. FourRegions(img.hdr) => img.hdr.off_vectors % 4096 = 0
    BY DEF FourRegions, OnPage
  <2>4. RecordsOnly(img.hdr) => img.hdr.off_vectors % 4096 = 0
    BY DEF RecordsOnly
  <2> QED BY <2>1, <2>2, <2>3, <2>4
<1>7. 0 \in Vertices /\ Vertices = 0 .. raw.n - 1
  BY <1>2, RawIs
<1>8. diskann_layout(img.hdr) <=> img.hdr.version = 2
  BY <1>2, <1>7, PlacedIs
<1>9. \A i \in Vertices : vec(ImagePlacement, i) = img.hdr.off_vectors + i * vec_stride(img.hdr)
  BY <1>2, PlacedIs
<1>10. \A i \in Vertices : entry(ImagePlacement, i) = img.hdr.off_vectors + i * vec_stride(img.hdr)
  BY <1>2, PlacedIs
<1>11. img.hdr.version \in {1, 2}
  BY <1>2 DEF HeaderOk, HeaderTypes
<1> QED BY <1>2, <1>3, <1>4, <1>5, <1>6, <1>7, <1>8, <1>9, <1>10, <1>11

\* A page of the vectors begins in them.
LEMMA VectorPage ==
  ASSUME LayoutInv, AtRest
  PROVE  \A p : p \in VectorPages <=> /\ p \in Nat /\ p % 4096 = 0 /\ img.hdr.off_vectors <= p
                                       /\ p < img.hdr.off_vectors + img.hdr.len_vectors
<1> DEFINE o == img.hdr.off_vectors
           l == img.hdr.len_vectors
<1>1. o \in Nat /\ l \in Nat /\ l > 0 /\ o % 4096 = 0
  <2>1. \A x, y \in Nat : x > 0 /\ y > 0 => x * y > 0 /\ x * y \in Nat
    OBVIOUS
  <2> QED BY <2>1, ImageIs DEF Strided
<1>2. VectorPages = PagesOf(o, l, 4096)
  BY DEF VectorPages
<1> HIDE DEF o, l
<1>3. \A p : p \in PagesOf(o, l, 4096) <=> Overlaps(p, o, l)
  BY <1>1, PagesAre
<1>4. \A p : Overlaps(p, o, l) <=> p \in Nat /\ p % 4096 = 0 /\ o <= p /\ p < o + l
  BY <1>1 DEF Overlaps
<1>5. \A p : p \in VectorPages <=> p \in Nat /\ p % 4096 = 0 /\ o <= p /\ p < o + l
  BY <1>2, <1>3, <1>4
<1> QED BY <1>5 DEF o, l

\* for_ids_touching_pages on it.
LEMMA PageTouches ==
  ASSUME LayoutInv, AtRest, NEW p \in VectorPages
  PROVE  for_ids_touching_pages(ImagePlacement, p, p, 4096)
           = {i \in Vertices : Meet(VectorAt(i), Page(p))}
<1> DEFINE T == for_ids_touching_pages(ImagePlacement, p, p, 4096)
           G == {i \in 0 .. raw.n - 1 : Meet(At(img.hdr, i, raw.packed), Page(p))}
           F == {i \in Vertices : Meet(VectorAt(i), Page(p))}
<1> DEFINE pl == ImagePlacement
<1>1. pl.hdr = img.hdr
  BY ImageIs
<1> HIDE DEF pl
<1>2. p \in Nat /\ img.hdr.off_vectors <= p /\ p < img.hdr.off_vectors + img.hdr.len_vectors
  BY VectorPage
<1>3. for_ids_touching_pages(pl, p, p, 4096) = {i \in 0 .. pl.hdr.n - 1 : Meet(At(pl.hdr, i, pl.hdr.packed), Page(p))}
  BY <1>1, <1>2, ImageIs, TouchingAre
<1>4. T = G
  BY <1>1, <1>3, ImageIs DEF pl
<1>5. \A i \in Vertices : Meet(At(img.hdr, i, raw.packed), Page(p)) <=> Meet(VectorAt(i), Page(p))
  BY ImageIs DEF At, VectorAt
<1>6. G = F
  BY <1>5, ImageIs
<1> HIDE DEF T, F, G
<1>7. T = F
  BY <1>4, <1>6
<1> QED BY <1>7 DEF T, F

\* A stride that divides a page: a vector inside a page has its stride inside it.
LEMMA StrideDivides ==
  ASSUME NEW v0 \in Nat, NEW st \in Nat, st > 0, NEW p \in Nat, v0 % 4096 = 0, p % 4096 = 0, v0 <= p,
         4096 % st = 0, NEW len \in Nat, len > 0
  PROVE  WholeStride(v0, st, len, p)
<1> SUFFICES ASSUME NEW i \in Nat, v0 + i * st + len <= p + 4096 PROVE v0 + i * st + st <= p + 4096
  BY DEF WholeStride
<1> DEFINE m == 4096 \div st
           pages == (p + 4096 - v0) \div 4096
<1>1. m \in Nat /\ 4096 = st * m
  OBVIOUS
<1>2. pages \in Nat /\ p + 4096 - v0 = 4096 * pages
  OBVIOUS
<1> HIDE DEF m, pages
<1> DEFINE t == m * pages
<1>3. t \in Nat /\ p + 4096 - v0 = t * st
  <2>1. m * pages \in Nat /\ (st * m) * pages = (m * pages) * st
    BY <1>1, <1>2
  <2> QED BY <1>1, <1>2, <2>1
<1> HIDE DEF t
<1>4. i * st < t * st
  <2>1. i * st \in Nat /\ t * st \in Nat
    BY <1>3
  <2> QED BY <1>3, <2>1
<1>5. i < t
  <2> SUFFICES ASSUME t <= i PROVE FALSE
    BY <1>3
  <2>1. t * st <= i * st
    BY <1>3
  <2> QED BY <1>3, <1>4, <2>1
<1>6. i * st + st <= t * st
  BY <1>3, <1>5, RowsKept
<1> QED BY <1>3, <1>6

\* for_ids_contained_in_page on a page of the vectors.
LEMMA PageContains ==
  ASSUME LayoutInv, AtRest, BundleApart, NEW p \in VectorPages
  PROVE  for_ids_contained_in_page(ImagePlacement, img.gfile, p, 4096)
           = {i \in Vertices : Within(RecordAt(i), Page(p)) /\ (StrideFits \/ StrideInPage(i, p))}
<1> DEFINE pl == ImagePlacement
           h == img.hdr
           v0 == h.off_vectors
           st == vec_stride(h)
           w == h.packed
           C == for_ids_contained_in_page(ImagePlacement, img.gfile, p, 4096)
           F == {i \in Vertices : Within(RecordAt(i), Page(p)) /\ (StrideFits \/ StrideInPage(i, p))}
<1>1. /\ pl.hdr = h /\ pl.bundle_off = BundleOff /\ pl.slot_to_id = NoMap
      /\ pl.bundle_stride = IF img.bundle = <<>> THEN 0 ELSE nbr_stride
  BY DEF ImagePlacement
<1>2. p \in Nat /\ p % 4096 = 0 /\ v0 <= p /\ p < v0 + h.len_vectors
  BY VectorPage
<1>3. /\ v0 \in Nat /\ h.n \in Nat /\ h.n > 0 /\ st \in Nat /\ w \in Nat /\ w > 0 /\ w <= st /\ v0 % 4096 = 0
      /\ h.len_vectors \in Nat /\ h.n = raw.n /\ w = raw.packed /\ Vertices = 0 .. h.n - 1
  <2>1. \A x, y \in Nat : x * y \in Nat
    OBVIOUS
  <2> QED BY <2>1, ImageIs DEF Strided
<1>4. CASE h.version = 2
  <2>1. diskann_layout(h)
    BY <1>4, ImageIs
  <2>2. C = IF p + 4096 <= v0 THEN {} ELSE {id_of_slot(pl, i) : i \in ScanPage(v0, h.n, st, st, p, 4096)}
    BY <1>1, <2>1 DEF for_ids_contained_in_page
  <2>3. \A i : id_of_slot(pl, i) = i
    BY <1>1 DEF id_of_slot, NoMap
  <2>4. v0 < p + 4096
    BY <1>2, <1>3
  <2>5. ScanPage(v0, h.n, st, st, p, 4096) = Inside(v0, h.n, st, st, p)
    <3> DEFINE n == h.n
    <3>2. v0 \in Nat /\ n \in Nat /\ n > 0 /\ st \in Nat /\ 0 < st /\ st <= st /\ p \in Nat /\ v0 < p + 4096
      BY <1>2, <1>3, <2>4
    <3> HIDE DEF v0, st, h, n
    <3>3. ScanPage(v0, n, st, st, p, 4096) = Inside(v0, n, st, st, p)
      BY <3>2, ScanIs DEF Scans
    <3> QED BY <3>3 DEF n
  <2>6. \A i \in Vertices : RecordAt(i) = Span(v0 + i * st, st)
    BY <2>1, ImageIs DEF RecordAt, VectorAt
  <2> DEFINE S == ScanPage(v0, h.n, st, st, p, 4096)
             G == Inside(v0, h.n, st, st, p)
  <2>7. C = S
    <3>1. ~(p + 4096 <= v0)
      BY <1>2, <1>3
    <3> HIDE DEF S
    <3>2. {id_of_slot(pl, i) : i \in S} = S
      BY <2>3
    <3> QED BY <2>2, <3>1, <3>2 DEF S
  <2>8. G = F
    <3> DEFINE n == h.n
               In(i) == Within(Span(v0 + i * st, st), Page(p))
    <3>1. \A i \in 0 .. n - 1 : In(i) => v0 + (i + 1) * st <= p + 4096
      <4> SUFFICES ASSUME NEW i \in 0 .. n - 1, In(i) PROVE v0 + (i + 1) * st <= p + 4096
        OBVIOUS
      <4> HIDE DEF v0, st, h, n
      <4>1. i * st \in Nat /\ (i + 1) * st = i * st + st
        BY <1>3 DEF n
      <4> QED BY <1>2, <1>3, <4>1 DEF Within, Span, Page
    <3>2. \A i \in Vertices : Within(RecordAt(i), Page(p)) <=> In(i)
      BY <2>6
    <3>3. \A i \in Vertices : StrideInPage(i, p) <=> (i = 0 \/ v0 + (i + 1) * st <= p + 4096)
      BY DEF StrideInPage
    <3>4. Vertices = 0 .. n - 1
      BY <1>3
    <3>5. G = {i \in 0 .. n - 1 : In(i) /\ (i = 0 \/ v0 + (i + 1) * st <= p + 4096)}
      BY DEF Inside
    <3> HIDE DEF In, v0, st, n, G
    <3> QED BY <3>1, <3>2, <3>3, <3>4, <3>5
  <2>9. S = G
    BY <2>5
  <2> HIDE DEF S, G, C, F
  <2>10. C = F
    BY <2>7, <2>8, <2>9
  <2> QED BY <2>10 DEF C, F
<1>5. CASE h.version = 1
  <2>1. ~diskann_layout(h)
    BY <1>5, ImageIs
  <2>2. \A i \in Vertices : RecordAt(i) = Span(v0 + i * st, w)
    BY <1>3, <2>1, ImageIs DEF RecordAt, VectorAt
  <2>3. CASE w > 4096
    <3>1. C = {}
      BY <1>1, <2>1, <2>3 DEF for_ids_contained_in_page
    <3>2. \A i \in Vertices : ~Within(RecordAt(i), Page(p))
      <4> SUFFICES ASSUME NEW i \in Vertices PROVE ~Within(Span(v0 + i * st, w), Page(p))
        BY <2>2
      <4>1. i * st \in Nat
        BY <1>3
      <4> QED BY <1>2, <1>3, <2>3, <4>1, SMTT(30) DEF Within, Span, Page
    <3> QED BY <3>1, <3>2
  <2>4. CASE ~(w > 4096)
    <3>1. ~(has_bundle(pl) /\ p >= BundleOff)
      <4> SUFFICES ASSUME has_bundle(pl), p >= BundleOff PROVE FALSE
        OBVIOUS
      <4>1. img.bundle # <<>>
        BY <1>1 DEF has_bundle
      <4>2. BundleOff \in Nat /\ BundleOff >= v0 + h.len_vectors
        BY <4>1 DEF BundleApart
      <4> HIDE DEF pl, v0, h
      <4> QED BY <1>2, <1>3, <4>2
    <3>2. Max({p, v0}) = p
      BY <1>2, <1>3, MaxOfTwo
    <3>3. C = ScanPage(v0, h.n, st, w, p, 4096)
      <4>1. ~(w = 0 \/ w > 4096) /\ ~(Max({p, v0}) >= v0 + h.len_vectors \/ p + 4096 <= v0)
        BY <1>2, <1>3, <2>4, <3>2
      <4>2. ~(has_bundle(pl) /\ p >= pl.bundle_off /\ p < pl.bundle_off + pl.hdr.n * pl.bundle_stride)
        BY <1>1, <3>1
      <4> HIDE DEF pl
      <4>3. for_ids_contained_in_page(pl, img.gfile, p, 4096) = ScanPage(v0, h.n, st, w, p, 4096)
        BY <1>1, <2>1, <4>1, <4>2 DEF for_ids_contained_in_page
      <4> QED BY <4>3 DEF pl
    <3>4. StrideFits => WholeStride(v0, st, w, p)
      <4>1. CASE st = w
        BY <4>1 DEF WholeStride
      <4>2. CASE 4096 % st = 0
        <5> HIDE DEF v0, st, w
        <5>1. st > 0
          BY <1>3
        <5> QED BY <1>2, <1>3, <4>2, <5>1, StrideDivides, SMTT(30)
      <4> QED BY <1>3, <4>1, <4>2 DEF StrideFits
    <3>5. ScanPage(v0, h.n, st, w, p, 4096) = Inside(v0, h.n, st, w, p)
      <4> DEFINE n == h.n
      <4>1. v0 \in Nat /\ n \in Nat /\ n > 0 /\ st \in Nat /\ w \in Nat /\ 0 < w /\ w <= st /\ p \in Nat /\ v0 < p + 4096
        BY <1>2, <1>3
      <4> HIDE DEF v0, st, w, h, n
      <4>2. ScanPage(v0, n, st, w, p, 4096) = Inside(v0, n, st, w, p)
        BY <4>1, ScanIs DEF Scans
      <4> QED BY <4>2 DEF n
    <3> DEFINE S == ScanPage(v0, h.n, st, w, p, 4096)
               G == Inside(v0, h.n, st, w, p)
    <3>6. C = S /\ S = G
      BY <3>3, <3>5
    <3>7. G = F
      <4> DEFINE n == h.n
                 In(i) == Within(Span(v0 + i * st, w), Page(p))
                 EndsIn(i) == i = 0 \/ v0 + (i + 1) * st <= p + 4096
      <4>1. StrideFits => \A i \in 0 .. n - 1 : In(i) => EndsIn(i)
        <5> SUFFICES ASSUME StrideFits, NEW i \in 0 .. n - 1, In(i) PROVE v0 + (i + 1) * st <= p + 4096
          OBVIOUS
        <5> HIDE DEF v0, st, w, h, n
        <5>1. i \in Nat /\ i * st \in Nat /\ (i + 1) * st = i * st + st
          BY <1>3 DEF n
        <5>2. v0 + i * st + w <= p + 4096
          BY <1>2, <1>3, <5>1 DEF Within, Span, Page
        <5>3. v0 + i * st + st <= p + 4096
          BY <3>4, <5>1, <5>2 DEF WholeStride
        <5> QED BY <1>3, <5>1, <5>3
      <4>2. \A i \in Vertices : Within(RecordAt(i), Page(p)) <=> In(i)
        BY <2>2
      <4>3. \A i \in Vertices : StrideInPage(i, p) <=> EndsIn(i)
        BY DEF StrideInPage
      <4>4. Vertices = 0 .. n - 1
        BY <1>3
      <4>5. G = {i \in 0 .. n - 1 : In(i) /\ EndsIn(i)}
        BY DEF Inside
      <4> HIDE DEF In, EndsIn, v0, st, w, n, G
      <4> QED BY <4>1, <4>2, <4>3, <4>4, <4>5
    <3> HIDE DEF S, G, C, F
    <3>8. C = F
      BY <3>6, <3>7
    <3> QED BY <3>8 DEF C, F
  <2> QED BY <2>3, <2>4
<1> QED BY <1>4, <1>5, ImageIs

\* hide_collect_vec_pages gives the pages an id's vector (record) overlaps.
LEMMA IdPages ==
  ASSUME LayoutInv, AtRest, NEW i \in Vertices
  PROVE  hide_collect_vec_pages(ImagePlacement, i, 4096) = {p \in VectorPages : Meet(RecordAt(i), Page(p))}
<1> DEFINE h == img.hdr
           v0 == h.off_vectors
           st == vec_stride(h)
           off == v0 + i * st
           len == IF diskann_layout(h) THEN st ELSE h.packed
<1>1. /\ v0 \in Nat /\ h.n \in Nat /\ st \in Nat /\ h.packed \in Nat /\ h.packed > 0 /\ h.packed <= st
      /\ v0 % 4096 = 0 /\ h.len_vectors = h.n * st /\ i \in 0 .. h.n - 1
  BY ImageIs DEF Strided
<1>2. len \in Nat /\ len > 0 /\ len <= st
  BY <1>1
<1>3. hide_collect_vec_pages(ImagePlacement, i, 4096) = PagesOf(off, len, 4096)
  BY ImageIs DEF hide_collect_vec_pages
<1>4. RecordAt(i) = Span(off, len)
  BY ImageIs DEF RecordAt, VectorAt
<1> HIDE DEF len
<1>5. i * st \in Nat /\ i * st + st <= h.n * st /\ h.n * st \in Nat /\ off \in Nat
  BY <1>1, RowsKept
<1>6. \A p : p \in PagesOf(off, len, 4096) <=> Overlaps(p, off, len)
  <2> HIDE DEF off
  <2> QED BY <1>2, <1>5, PagesAre
<1>7. \A p : Overlaps(p, off, len) <=> p \in VectorPages /\ Meet(Span(off, len), Page(p))
  <2> SUFFICES ASSUME NEW p PROVE Overlaps(p, off, len) <=> p \in VectorPages /\ Meet(Span(off, len), Page(p))
    OBVIOUS
  <2> DEFINE m == i * st
             nm == h.n * st
  <2>1. p \in VectorPages <=> p \in Nat /\ p % 4096 = 0 /\ v0 <= p /\ p < v0 + nm
    BY <1>1, VectorPage
  <2>2. m \in Nat /\ m + st <= nm /\ nm \in Nat
    BY <1>5
  <2>3. Meet(Span(off, len), Page(p)) <=> v0 + m < p + 4096 /\ p < v0 + m + len
    BY DEF Meet, Span, Page
  <2>4. Overlaps(p, off, len) <=> p \in Nat /\ p % 4096 = 0 /\ p < v0 + m + len /\ v0 + m < p + 4096
    BY DEF Overlaps
  <2> HIDE DEF m, nm, off
  <2> QED BY <1>1, <1>2, <2>1, <2>2, <2>3, <2>4
<1> HIDE DEF off
<1> QED BY <1>3, <1>4, <1>6, <1>7

\* contained_lo_hi of a packed image: the vectors inside page q of the vectors.
LEMMA PackedContains ==
  ASSUME LayoutInv, AtRest, vec_stride(img.hdr) = raw.packed, NEW q \in Nat
  PROVE  PageInside(q)
<1> DEFINE w == raw.packed
           n == raw.n
           v0 == img.hdr.off_vectors
           a == q * 4096
           i0 == (a + w - 1) \div w
           t == ((q + 1) * 4096) \div w
           i1 == Min({Max({t, 1}) - 1, n - 1})
           some == w <= 4096 /\ i0 < n /\ i0 <= i1
           In(i) == i * w >= a /\ (i + 1) * w <= (q + 1) * 4096
           D == IF some THEN i0 .. i1 ELSE {0}
           C == contained_lo_hi(q, 4096)
           F == {i \in Vertices : In(i)}
           G == {i \in Vertices : Within(Span(v0 + i * w, w), Page(v0 + a))}
<1>1. w \in Nat /\ w > 0 /\ n \in Nat /\ n > 0 /\ Vertices = 0 .. n - 1 /\ v0 \in Nat
  BY ImageIs, RawIs DEF Strided
<1>2. C = {i \in D : In(i)}
  BY SMT DEF contained_lo_hi
<1>3. a \in Nat /\ (q + 1) * 4096 = a + 4096
  OBVIOUS
<1> HIDE DEF w, n, v0, a
<1>4. i0 \in Nat /\ \A i \in Nat : i0 <= i <=> a <= i * w
  BY <1>1, <1>3, CeilLe
<1>5. t \in Nat /\ \A i \in Nat : i <= t <=> i * w <= a + 4096
  <2> DEFINE b == (q + 1) * 4096
  <2>1. b \in Nat /\ b = a + 4096
    BY <1>3
  <2> HIDE DEF b
  <2>2. b \div w \in Nat /\ \A i \in Nat : i <= b \div w <=> i * w <= b
    BY <1>1, <2>1, QuotLe
  <2> QED BY <2>1, <2>2 DEF b
<1> HIDE DEF i0, t
<1>6. Max({t, 1}) = IF t >= 1 THEN t ELSE 1
  BY <1>5, MaxOfTwo
<1>7. i1 \in Nat /\ i1 <= n - 1 /\ (i1 = n - 1 \/ t - 1 <= i1)
  <2>1. Max({t, 1}) - 1 \in Nat /\ n - 1 \in Nat
    BY <1>1, <1>5, <1>6
  <2> DEFINE x == Max({t, 1}) - 1
             y == n - 1
  <2>2. x \in Nat /\ y \in Nat /\ t - 1 <= x
    BY <1>5, <1>6, <2>1
  <2> HIDE DEF x, y
  <2>3. Min({x, y}) = IF x <= y THEN x ELSE y
    BY <2>2, MinOfTwo
  <2>4. i1 = Min({x, y})
    BY DEF x, y
  <2>5. i1 \in Nat /\ i1 <= y /\ (i1 = y \/ i1 = x)
    BY <2>2, <2>3, <2>4
  <2> QED BY <1>5, <2>2, <2>5 DEF y
<1> HIDE DEF i1
<1>8. \A i \in Nat : i * w \in Nat /\ (i + 1) * w = i * w + w
  BY <1>1
<1>9. \A i \in Vertices : In(i) => i0 <= i /\ i <= i1 /\ w <= 4096
  <2> SUFFICES ASSUME NEW i \in Vertices, In(i) PROVE i0 <= i /\ i <= i1 /\ w <= 4096
    OBVIOUS
  <2>1. i \in Nat /\ i * w \in Nat /\ (i + 1) * w = i * w + w /\ i <= n - 1 /\ i + 1 \in Nat
    BY <1>1, <1>8
  <2>2. a <= i * w /\ (i + 1) * w <= a + 4096
    BY <1>3, <2>1
  <2>3. i0 <= i
    BY <1>4, <2>1, <2>2
  <2>4. i + 1 <= t
    BY <1>5, <2>1, <2>2
  <2>5. w <= 4096
    BY <1>1, <1>3, <2>1, <2>2
  <2> QED BY <1>1, <1>5, <1>7, <2>1, <2>3, <2>4, <2>5
<1>10. \A i \in Vertices : In(i) => some
  <2> SUFFICES ASSUME NEW i \in Vertices, In(i) PROVE some
    OBVIOUS
  <2>1. i0 <= i /\ i <= i1 /\ w <= 4096
    BY <1>9
  <2> HIDE DEF In
  <2>2. i \in Nat /\ i <= n - 1
    BY <1>1
  <2>3. i0 \in Nat /\ i1 \in Nat
    BY <1>4, <1>7
  <2> QED BY <1>1, <2>1, <2>2, <2>3
<1>11. D \subseteq Vertices
  BY <1>1, <1>4, <1>7
<1>12. \A i \in Vertices : In(i) => i \in D
  <2> SUFFICES ASSUME NEW i \in Vertices, In(i) PROVE i \in D
    OBVIOUS
  <2>1. i \in Nat /\ i0 <= i /\ i <= i1 /\ some
    BY <1>1, <1>9, <1>10
  <2> QED BY <1>4, <1>7, <2>1
<1>13. {i \in D : In(i)} = F
  <2> HIDE DEF D, In
  <2> QED BY <1>11, <1>12
<1>14. \A i \in Vertices : In(i) <=> Within(Span(v0 + i * w, w), Page(v0 + a))
  <2> SUFFICES ASSUME NEW i \in Vertices PROVE In(i) <=> Within(Span(v0 + i * w, w), Page(v0 + a))
    OBVIOUS
  <2> DEFINE m == i * w
  <2>1. m \in Nat /\ (i + 1) * w = m + w
    BY <1>1, <1>8
  <2>2. In(i) <=> m >= a /\ m + w <= a + 4096
    BY <1>3, <2>1
  <2>3. Within(Span(v0 + m, w), Page(v0 + a)) <=> v0 + a <= v0 + m /\ v0 + m + w <= v0 + a + 4096
    BY DEF Within, Span, Page
  <2> HIDE DEF m, In
  <2>4. Within(Span(v0 + m, w), Page(v0 + a)) <=> m >= a /\ m + w <= a + 4096
    BY <1>1, <1>3, <2>1, <2>3
  <2> QED BY <2>2, <2>4 DEF m
<1>15. F = G
  BY <1>14
<1> HIDE DEF C, D, In, F, G
<1>16. C = G
  BY <1>2, <1>13, <1>15
<1>17. \A i \in Vertices : VectorAt(i) = Span(v0 + i * w, w)
  BY ImageIs DEF VectorAt, v0, w
<1>18. G = {i \in Vertices : Within(VectorAt(i), Page(v0 + a))}
  BY <1>17 DEF G
<1>19. C = {i \in Vertices : Within(VectorAt(i), Page(v0 + a))}
  BY <1>16, <1>18
<1> QED BY <1>19 DEF C, v0, a, PageInside

\* page_share of a packed image says so.
LEMMA PackedShare ==
  ASSUME LayoutInv, AtRest, vec_stride(img.hdr) = raw.packed, NEW x \in Vertices, NEW y \in Vertices
  PROVE  PageShared(x, y)
<1> DEFINE w == raw.packed
           v0 == img.hdr.off_vectors
           mx == x * w
           my == y * w
           nm == raw.n * w
           fx == mx \div 4096
           fy == my \div 4096
           lx == (mx + w - 1) \div 4096
           ly == (my + w - 1) \div 4096
           E == \E p \in VectorPages : Meet(Span(v0 + mx, w), Page(p)) /\ Meet(Span(v0 + my, w), Page(p))
<1>1. w \in Nat /\ w > 0 /\ raw.n \in Nat /\ Vertices = 0 .. raw.n - 1 /\ v0 \in Nat /\ v0 % 4096 = 0
      /\ img.hdr.len_vectors = nm
  BY ImageIs, RawIs DEF Strided
<1>2. mx \in Nat /\ my \in Nat /\ nm \in Nat /\ mx + w <= nm /\ my + w <= nm
  <2> HIDE DEF w
  <2>1. x \in Nat /\ x < raw.n /\ y \in Nat /\ y < raw.n
    BY <1>1
  <2>2. x * w + w <= raw.n * w
    BY <1>1, <2>1, RowsKept
  <2>3. y * w + w <= raw.n * w
    BY <1>1, <2>1, RowsKept, SMTT(30)
  <2> QED BY <1>1, <2>1, <2>2, <2>3
<1>3. page_share(x, y, 4096) = ~(lx < fy \/ ly < fx)
  BY DEF page_share
<1>4. \A p : p \in VectorPages <=> p \in Nat /\ p % 4096 = 0 /\ v0 <= p /\ p < v0 + nm
  BY <1>1, VectorPage
<1>5. \A p : /\ Meet(Span(v0 + mx, w), Page(p)) <=> v0 + mx < p + 4096 /\ p < v0 + mx + w
             /\ Meet(Span(v0 + my, w), Page(p)) <=> v0 + my < p + 4096 /\ p < v0 + my + w
  BY DEF Meet, Span, Page
<1> HIDE DEF mx, my, nm, w, v0
<1>6. /\ fx \in Nat /\ lx \in Nat /\ fy \in Nat /\ ly \in Nat
      /\ \A k \in Nat : /\ fx <= k <=> mx < k * 4096 + 4096
                        /\ k <= lx <=> k * 4096 < mx + w
                        /\ fy <= k <=> my < k * 4096 + 4096
                        /\ k <= ly <=> k * 4096 < my + w
  BY <1>1, <1>2
<1>7. ASSUME E PROVE ~(lx < fy \/ ly < fx)
  <2>1. PICK p \in VectorPages : Meet(Span(v0 + mx, w), Page(p)) /\ Meet(Span(v0 + my, w), Page(p))
    BY <1>7
  <2>2. p \in Nat /\ p % 4096 = 0 /\ v0 <= p
    BY <1>4
  <2> DEFINE k == (p - v0) \div 4096
  <2>3. k \in Nat /\ p = v0 + k * 4096
    BY <1>1, <2>2
  <2> HIDE DEF k
  <2>4. v0 + mx < p + 4096 /\ p < v0 + mx + w /\ v0 + my < p + 4096 /\ p < v0 + my + w
    BY <1>5, <2>1
  <2>5. mx < k * 4096 + 4096 /\ k * 4096 < mx + w /\ my < k * 4096 + 4096 /\ k * 4096 < my + w
    BY <1>1, <1>2, <2>2, <2>3, <2>4
  <2>6. fx <= k /\ k <= lx /\ fy <= k /\ k <= ly
    BY <1>6, <2>3, <2>5
  <2> HIDE DEF fx, lx, fy, ly
  <2> QED BY <1>6, <2>3, <2>6
<1>8. ASSUME ~(lx < fy \/ ly < fx) PROVE E
  <2> DEFINE k == IF fx >= fy THEN fx ELSE fy
             p == v0 + k * 4096
  <2>1. fx <= lx /\ fy <= ly
    BY <1>1, <1>2
  <2>2. k \in Nat /\ fx <= k /\ k <= lx /\ fy <= k /\ k <= ly
    <3> HIDE DEF fx, lx, fy, ly
    <3> QED BY <1>6, <1>8, <2>1
  <2> HIDE DEF k, fx, lx, fy, ly
  <2>3. mx < k * 4096 + 4096 /\ k * 4096 < mx + w /\ my < k * 4096 + 4096 /\ k * 4096 < my + w
    BY <1>6, <2>2
  <2>4. p \in Nat /\ p % 4096 = 0 /\ v0 <= p /\ p < v0 + nm
    BY <1>1, <1>2, <2>2, <2>3
  <2>5. Meet(Span(v0 + mx, w), Page(p)) /\ Meet(Span(v0 + my, w), Page(p))
    BY <1>1, <1>2, <1>5, <2>2, <2>3
  <2>6. p \in VectorPages
    BY <1>4, <2>4
  <2> QED BY <2>5, <2>6
<1>9. E = ~(lx < fy \/ ly < fx)
  <2> HIDE DEF lx, fy, ly, fx
  <2>1. E <=> ~(lx < fy \/ ly < fx)
    BY <1>7, <1>8
  <2> QED BY <2>1
<1> HIDE DEF E, lx, fy, ly, fx
<1>10. page_share(x, y, 4096) = E
  BY <1>3, <1>9
<1>11. VectorAt(x) = Span(v0 + mx, w) /\ VectorAt(y) = Span(v0 + my, w)
  BY ImageIs DEF VectorAt, mx, my, w, v0
<1>12. E <=> \E p \in VectorPages : Meet(VectorAt(x), Page(p)) /\ Meet(VectorAt(y), Page(p))
  BY <1>11 DEF E
<1> QED BY <1>10, <1>12 DEF PageShared

\* Page p of the bundle of uu, where bundles of bs bytes begin at bo.
OfBundle(bo, bs, uu, n, p) ==
  /\ bo \in Nat /\ bs \in Nat /\ bs > 0 /\ uu \in Nat /\ n \in Nat /\ uu < n /\ p \in Nat
  /\ bo % 4096 = 0 /\ bs % 4096 = 0 /\ p % 4096 = 0 /\ bo + uu * bs < p + 4096 /\ p < bo + uu * bs + bs

\* Where for_ids_contained_in_page finds it.
FoundAt(bo, bs, uu, n, p) ==
  /\ bo + uu * bs <= p /\ bo <= p /\ p < bo + n * bs
  /\ (p - bo) \div bs = uu /\ (p - bo) % bs = p - bo - uu * bs

\* Its bundle and its place there, from the offset alone.
LEMMA BundlePage ==
  ASSUME NEW bo, NEW bs, NEW uu, NEW n, NEW p, OfBundle(bo, bs, uu, n, p)
  PROVE  FoundAt(bo, bs, uu, n, p)
<1> USE DEF OfBundle, FoundAt
<1> DEFINE m == uu * bs
           c == bs \div 4096
           a == p - bo
<1>1. m \in Nat /\ m % 4096 = 0
  <2>1. c \in Nat /\ bs = 4096 * c
    OBVIOUS
  <2> HIDE DEF c
  <2> DEFINE e == uu * c
  <2>2. e \in Nat /\ m = 4096 * e
    BY <2>1
  <2> HIDE DEF e
  <2> QED BY <2>2
<1>2. bo + m < p + 4096 /\ p < bo + m + bs
  OBVIOUS
<1>3. (uu + 1) * bs = m + bs /\ m + bs <= n * bs /\ n * bs \in Nat
  BY RowsKept
<1>4. a \in Nat /\ uu * bs = m /\ uu + 1 \in Nat
  <2> HIDE DEF m
  <2>1. bo + m <= p
    BY <1>1, <1>2
  <2> QED BY <1>1, <2>1 DEF m
<1>5. a = bs * (a \div bs) + (a % bs)
  <2> HIDE DEF a
  <2> QED BY <1>4
<1>6. a \div bs \in Nat /\ (uu <= a \div bs <=> uu * bs <= a) /\ (uu + 1 <= a \div bs <=> (uu + 1) * bs <= a)
  <2> HIDE DEF a
  <2> QED BY <1>4, QuotLe
<1> HIDE DEF m
<1>7. bo + m <= p
  BY <1>1, <1>2
<1>8. m <= a /\ a < m + bs
  BY <1>1, <1>2, <1>7
<1>9. a \div bs = uu
  <2> DEFINE q == a \div bs
  <2>1. q \in Nat /\ (uu <= q <=> m <= a) /\ (uu + 1 <= q <=> m + bs <= a)
    BY <1>3, <1>4, <1>6
  <2> HIDE DEF q, a
  <2>2. q = uu
    BY <1>1, <1>4, <1>8, <2>1
  <2> QED BY <2>2 DEF q
<1>10. a % bs = a - m
  <2>1. bs * uu = m
    BY <1>4
  <2> DEFINE r == a % bs
  <2>2. r \in Int
    BY <1>4
  <2>3. a = m + r
    BY <1>5, <1>9, <2>1
  <2> HIDE DEF a, r
  <2>4. r = a - m
    BY <1>1, <1>4, <2>2, <2>3
  <2> QED BY <2>4 DEF r
<1> QED BY <1>1, <1>2, <1>3, <1>7, <1>9, <1>10 DEF m

\* The bundle of an image at rest.
LEMMA BundleIs ==
  ASSUME LayoutInv, AtRest, BundleApart, has_bundle(ImagePlacement)
  PROVE  /\ ImagePlacement.bundle_off = BundleOff /\ ImagePlacement.bundle_stride = nbr_stride
         /\ BundleOff \in Nat /\ BundleOff % 4096 = 0 /\ nbr_stride \in Nat /\ nbr_stride > 0 /\ nbr_stride % 4096 = 0
         /\ raw.R * raw.packed <= nbr_stride
         /\ \A uu \in Vertices, k \in Nat :
              bundle_slot(ImagePlacement, uu, k) = BundleOff + uu * nbr_stride + k * raw.packed
<1>1. img.bundle # <<>> /\ ImagePlacement.bundle_off = BundleOff /\ ImagePlacement.bundle_stride = nbr_stride
  BY DEF has_bundle, ImagePlacement
<1>2. BundleOff \in Nat /\ BundleOff % 4096 = 0
  BY <1>1 DEF BundleApart
<1>3. nbr_stride \in Nat /\ nbr_stride > 0 /\ nbr_stride % 4096 = 0 /\ raw.R * raw.packed <= nbr_stride
  <2> DEFINE x == raw.R * raw.packed
  <2>1. x \in Nat /\ x > 0
    <3>1. \A y, z \in Nat : y > 0 /\ z > 0 => y * z \in Nat /\ y * z > 0
      OBVIOUS
    <3> QED BY <3>1, ImageIs, RawIs
  <2>2. nbr_stride = ((x + 4096 - 1) \div 4096) * 4096
    BY DEF nbr_stride, align_up
  <2> HIDE DEF x
  <2>3. nbr_stride \in Nat /\ nbr_stride > 0 /\ nbr_stride % 4096 = 0 /\ x <= nbr_stride
    BY <2>1, <2>2
  <2> QED BY <2>3 DEF x
<1>4. \A uu \in Vertices, k \in Nat :
        bundle_slot(ImagePlacement, uu, k) = BundleOff + uu * nbr_stride + k * raw.packed
  BY <1>1, ImageIs DEF bundle_slot
<1> QED BY <1>1, <1>2, <1>3, <1>4

\* A page of the bundle, and the copies inside it.
LEMMA InBundleIs ==
  ASSUME LayoutInv, AtRest, BundleApart, has_bundle(ImagePlacement), NEW uu \in Vertices, NEW p \in BundlePages(uu)
  PROVE  /\ p \in Nat /\ BundleOff <= p /\ p < BundleOff + raw.n * nbr_stride
         /\ (p - BundleOff) \div nbr_stride = uu
         /\ \A k \in 0 .. raw.R - 1 : k \in InBundlePage(ImagePlacement, p, 4096) <=> Within(CopyAt(uu, k + 1), Page(p))
         /\ InBundlePage(ImagePlacement, p, 4096) \subseteq 0 .. raw.R - 1
<1> DEFINE bo == BundleOff
           bs == nbr_stride
           w == raw.packed
           m == uu * bs
           I == InBundlePage(ImagePlacement, p, 4096)
<1>1. /\ bo \in Nat /\ bo % 4096 = 0 /\ bs \in Nat /\ bs > 0 /\ bs % 4096 = 0
      /\ ImagePlacement.bundle_off = bo /\ ImagePlacement.bundle_stride = bs
  BY BundleIs
<1>2. raw.n \in Nat /\ uu \in Nat /\ uu < raw.n /\ w \in Nat /\ raw.R \in Nat
  BY ImageIs, RawIs
<1>3. bundle_slot(ImagePlacement, uu, 0) = bo + m
  <2>1. bundle_slot(ImagePlacement, uu, 0) = bo + m + 0 * w
    BY BundleIs
  <2>2. m \in Nat /\ 0 * w = 0
    BY <1>1, <1>2
  <2> HIDE DEF m, bo, w
  <2> QED BY <1>1, <2>1, <2>2
<1>4. Overlaps(p, bo + m, bs)
  <2>1. m \in Nat
    BY <1>1, <1>2
  <2> HIDE DEF m, bo, bs
  <2>2. p \in PagesOf(bo + m, bs, 4096)
    BY <1>3 DEF BundlePages, bs
  <2>3. bo + m \in Nat
    BY <1>1, <2>1
  <2> QED BY <1>1, <2>2, <2>3, PagesAre
<1>5. p \in Nat /\ p % 4096 = 0 /\ p < bo + m + bs /\ bo + m < p + 4096
  BY <1>4 DEF Overlaps
<1>6. /\ bo + m <= p /\ bo <= p /\ p < bo + raw.n * bs
      /\ (p - bo) \div bs = uu /\ (p - bo) % bs = p - bo - m
  <2> DEFINE n == raw.n
  <2> HIDE DEF bo, bs, n
  <2>1. n \in Nat /\ uu < n
    BY <1>2 DEF n
  <2> USE DEF m
  <2>2. /\ bo + uu * bs <= p /\ bo <= p /\ p < bo + n * bs
        /\ (p - bo) \div bs = uu /\ (p - bo) % bs = p - bo - uu * bs
    <3>1. OfBundle(bo, bs, uu, n, p)
      BY <1>1, <1>2, <1>5, <2>1 DEF OfBundle
    <3>2. FoundAt(bo, bs, uu, n, p)
      BY <3>1, BundlePage
    <3> QED BY <3>2 DEF FoundAt
  <2> QED BY <2>2 DEF n
<1>7. \A k \in 0 .. raw.R - 1 : bundle_slot(ImagePlacement, uu, (k + 1) - 1) = bo + m + k * w
  <2> SUFFICES ASSUME NEW k \in 0 .. raw.R - 1 PROVE bundle_slot(ImagePlacement, uu, (k + 1) - 1) = bo + m + k * w
    OBVIOUS
  <2>1. k \in Nat /\ (k + 1) - 1 = k
    BY <1>2
  <2>2. bundle_slot(ImagePlacement, uu, k) = bo + m + k * w
    BY <2>1, BundleIs
  <2> QED BY <2>1, <2>2
<1>8. I = {k \in 0 .. raw.R - 1 : k * w >= (p - bo) % bs /\ (k + 1) * w <= ((p - bo) % bs) + 4096}
  BY <1>1, ImageIs, SMT DEF InBundlePage
<1>9. \A k \in 0 .. raw.R - 1 : k \in I <=> Within(CopyAt(uu, k + 1), Page(p))
  <2> SUFFICES ASSUME NEW k \in 0 .. raw.R - 1 PROVE k \in I <=> Within(CopyAt(uu, k + 1), Page(p))
    OBVIOUS
  <2> DEFINE x == k * w
  <2>1. x \in Nat /\ (k + 1) * w = x + w
    BY <1>2
  <2>2. k \in I <=> x >= p - bo - m /\ x + w <= (p - bo - m) + 4096
    BY <1>6, <1>8, <2>1
  <2>3. CopyAt(uu, k + 1) = Span(bo + m + x, w)
    BY <1>7 DEF CopyAt
  <2>4. Within(Span(bo + m + x, w), Page(p)) <=> p <= bo + m + x /\ bo + m + x + w <= p + 4096
    BY DEF Within, Span, Page
  <2>5. m \in Nat
    BY <1>1, <1>2
  <2> HIDE DEF x, m, bo, w, I
  <2>6. (x >= p - bo - m /\ x + w <= (p - bo - m) + 4096) <=> (p <= bo + m + x /\ bo + m + x + w <= p + 4096)
    BY <1>1, <1>2, <1>5, <2>1, <2>5
  <2> QED BY <2>2, <2>3, <2>4, <2>6
<1>10. I \subseteq 0 .. raw.R - 1
  <2> HIDE DEF bo, bs, w
  <2> QED BY <1>8
<1> QED BY <1>5, <1>6, <1>9, <1>10

\* for_ids_contained_in_page on a page of a bundle.
LEMMA BundleContains ==
  ASSUME LayoutInv, AtRest, BundleApart, has_bundle(ImagePlacement), img.hdr.version = 1,
         NEW uu \in Vertices, NEW p \in BundlePages(uu)
  PROVE  IdsOfBundlePage(uu, p)
<1> USE DEF IdsOfBundlePage
<1> DEFINE pl == ImagePlacement
           h == img.hdr
           C == for_ids_contained_in_page(ImagePlacement, img.gfile, p, 4096)
           I == InBundlePage(ImagePlacement, p, 4096)
           K == {jj \in 1 .. raw.R : Within(CopyAt(uu, jj), Page(p))}
<1>1. pl.hdr = h /\ pl.bundle_off = BundleOff /\ pl.bundle_stride = nbr_stride
  BY BundleIs, ImageIs
<1>2. ~diskann_layout(h) /\ h.packed = raw.packed /\ h.n = raw.n
  BY ImageIs
<1>3. raw.packed \in Nat /\ raw.packed > 0 /\ raw.R \in Nat /\ raw.n \in Nat
  BY ImageIs, RawIs
<1>4. /\ p \in Nat /\ BundleOff <= p /\ p < BundleOff + raw.n * nbr_stride
      /\ (p - BundleOff) \div nbr_stride = uu
  BY InBundleIs
<1>5. \A k \in 0 .. raw.R - 1 : k \in I <=> Within(CopyAt(uu, k + 1), Page(p))
  BY InBundleIs
<1>6. I \subseteq 0 .. raw.R - 1
  BY InBundleIs
<1>7. BundleOff \in Nat
  BY BundleIs
<1>8. CASE raw.packed > 4096
  <2>1. C = {}
    BY <1>1, <1>2, <1>8 DEF for_ids_contained_in_page
  <2>2. \A jj \in 1 .. raw.R : ~Within(CopyAt(uu, jj), Page(p))
    <3> SUFFICES ASSUME NEW jj \in 1 .. raw.R PROVE ~Within(CopyAt(uu, jj), Page(p))
      OBVIOUS
    <3> DEFINE o == bundle_slot(ImagePlacement, uu, jj - 1)
               w == raw.packed
    <3>1. o \in Nat
      <4>1. jj - 1 \in Nat /\ uu \in Nat /\ nbr_stride \in Nat
        BY <1>3, BundleIs, ImageIs
      <4>2. o = BundleOff + uu * nbr_stride + (jj - 1) * raw.packed
        BY <4>1, BundleIs
      <4>3. uu * nbr_stride \in Nat /\ (jj - 1) * raw.packed \in Nat
        BY <1>3, <4>1
      <4> QED BY <1>7, <4>2, <4>3
    <3>2. CopyAt(uu, jj) = Span(o, w)
      BY DEF CopyAt
    <3> HIDE DEF o, w
    <3>3. ~Within(Span(o, w), Page(p))
      BY <1>3, <1>4, <1>8, <3>1 DEF Within, Span, Page, w
    <3> QED BY <3>2, <3>3
  <2>3. K = {}
    BY <2>2
  <2> HIDE DEF K, C
  <2>4. {img.gfile[uu][k] : k \in K} = {}
    BY <2>3
  <2> QED BY <2>1, <2>4 DEF K, C
<1>9. CASE ~(raw.packed > 4096)
  <2>1. C = {img.gfile[uu][k + 1] : k \in I}
    <3>1. ~(h.packed = 0 \/ h.packed > 4096)
      BY <1>2, <1>3, <1>9
    <3>2. has_bundle(pl) /\ p >= pl.bundle_off /\ p < pl.bundle_off + h.n * pl.bundle_stride
      <4> DEFINE nm == raw.n * nbr_stride
      <4>1. p >= BundleOff /\ p < BundleOff + nm
        <5>1. nm \in Nat
          BY <1>3, BundleIs
        <5> QED BY <1>4, <1>7
      <4> QED BY <1>1, <1>2, <4>1
    <3>3. (p - pl.bundle_off) \div pl.bundle_stride = uu
      BY <1>1, <1>4
    <3> HIDE DEF pl, I
    <3>4. for_ids_contained_in_page(pl, img.gfile, p, 4096) = {img.gfile[uu][k + 1] : k \in InBundlePage(pl, p, 4096)}
      BY <1>1, <1>2, <3>1, <3>2, <3>3 DEF for_ids_contained_in_page
    <3> QED BY <3>4 DEF pl, I
  <2> HIDE DEF I, K, C
  <2>2. \A k \in I : k + 1 \in K
    <3> SUFFICES ASSUME NEW k \in I PROVE k + 1 \in K
      OBVIOUS
    <3>1. k \in 0 .. raw.R - 1 /\ k + 1 \in 1 .. raw.R
      BY <1>3, <1>6
    <3> QED BY <1>5, <3>1 DEF K
  <2>3. \A k \in K : k - 1 \in I /\ k = (k - 1) + 1
    <3> SUFFICES ASSUME NEW k \in K PROVE k - 1 \in I /\ k = (k - 1) + 1
      OBVIOUS
    <3>1. k \in 1 .. raw.R /\ Within(CopyAt(uu, k), Page(p))
      BY DEF K
    <3>2. k - 1 \in 0 .. raw.R - 1 /\ k = (k - 1) + 1
      BY <1>3, <3>1
    <3>3. Within(CopyAt(uu, (k - 1) + 1), Page(p))
      BY <3>1, <3>2
    <3> QED BY <1>5, <3>2, <3>3
  <2>4. {img.gfile[uu][k + 1] : k \in I} = {img.gfile[uu][k] : k \in K}
    BY <2>2, <2>3
  <2>5. C = {img.gfile[uu][k] : k \in K}
    BY <2>1, <2>4
  <2> QED BY <2>5 DEF C, K
<1> QED BY <1>8, <1>9

\* Bytes that overlap one page only lie inside it.
LEMMA OnePage ==
  ASSUME NEW o \in Nat, NEW w \in Nat, w > 0, NEW p, \A y : Overlaps(y, o, w) => y = p
  PROVE  p \in Nat /\ p <= o /\ o + w <= p + 4096
<1> DEFINE a == (o \div 4096) * 4096
           b == ((o + w - 1) \div 4096) * 4096
<1>1. a \in Nat /\ a % 4096 = 0 /\ a <= o /\ o < a + 4096
  OBVIOUS
<1>2. b \in Nat /\ b % 4096 = 0 /\ b <= o + w - 1 /\ o + w - 1 < b + 4096
  OBVIOUS
<1> HIDE DEF a, b
<1>3. Overlaps(a, o, w) /\ Overlaps(b, o, w)
  BY <1>1, <1>2 DEF Overlaps
<1>4. a = p /\ b = p
  BY <1>3
<1> QED BY <1>1, <1>2, <1>4

\* hide_collect_bundle_pages asks for a wanted copy, or for its vector.
LEMMA BundleAsks ==
  ASSUME LayoutInv, AtRest, BundleApart, has_bundle(ImagePlacement), img.hdr.version = 1,
         NEW uu \in Vertices, NEW k \in 1 .. raw.R, NEW use \in {0, 60}
  PROVE  CopyAsked(uu, k, use)
<1> SUFFICES ASSUME use = 0 \/ Cardinality(PagesOf(CopyAt(uu, k).lo, raw.packed, 4096)) = 1
             PROVE  LET v   == img.gfile[uu][k]
                        own == PagesOf(CopyAt(uu, k).lo, raw.packed, 4096)
                        ask == hide_collect_bundle_pages(ImagePlacement, img.gfile, uu, {v}, 4096, use)
                    IN  own \subseteq ask \/ hide_collect_vec_pages(ImagePlacement, v, 4096) \subseteq ask
  BY DEF CopyAsked
<1> DEFINE pl == ImagePlacement
           g == img.gfile[uu]
           v == g[k]
           w == raw.packed
           o == bundle_slot(pl, uu, k - 1)
           own == PagesOf(CopyAt(uu, k).lo, raw.packed, 4096)
           ask == hide_collect_bundle_pages(pl, img.gfile, uu, {v}, 4096, use)
           W(K) == {x \in K : {v} = {} \/ g[x + 1] \in {v}}
           P(x) == PagesOf(bundle_slot(pl, uu, x), w, 4096)
           pages == UNION {P(x) : x \in W(0 .. raw.R - 1)}
           On(p) == IF diskann_layout(pl.hdr) \/ {v} = {} THEN {} ELSE InBundlePage(pl, p, 4096)
           thin == {p \in pages : Cardinality(W(On(p))) * 100 < use * Cardinality(On(p))}
           V(x) == hide_collect_vec_pages(pl, g[x + 1], 4096)
           spare == UNION {V(x) : x \in UNION {W(On(p)) : p \in thin}}
<1>1. pl.hdr = img.hdr /\ pl.hdr.packed = w /\ pl.hdr.R = raw.R /\ ~diskann_layout(pl.hdr)
  BY ImageIs
<1>2. ask = (pages \ thin) \cup spare
  <2> HIDE DEF pl
  <2> QED BY <1>1 DEF hide_collect_bundle_pages
<1>3. \A p : On(p) = InBundlePage(pl, p, 4096)
  BY <1>1
<1>4. raw.R \in Nat /\ w \in Nat /\ w > 0 /\ k - 1 \in 0 .. raw.R - 1 /\ k - 1 \in Nat /\ (k - 1) + 1 = k
  BY ImageIs, RawIs
<1>5. CopyAt(uu, k).lo = o
  BY DEF CopyAt, Span
<1>6. k - 1 \in W(0 .. raw.R - 1) /\ own = P(k - 1) /\ V(k - 1) = hide_collect_vec_pages(pl, v, 4096)
  BY <1>4, <1>5
<1>7. own \subseteq pages
  <2> HIDE DEF W, P, own
  <2> QED BY <1>6
<1>8. CASE use = 0
  <2>1. ASSUME NEW p \in pages PROVE p \notin thin
    <3>1. On(p) \subseteq 0 .. raw.R - 1
      BY <1>1, <1>3 DEF InBundlePage
    <3> HIDE DEF On, pages
    <3>2. W(On(p)) \subseteq On(p)
      OBVIOUS
    <3>3. IsFiniteSet(0 .. raw.R - 1)
      <4> DEFINE z == 0
                 e == raw.R - 1
      <4>1. z \in Int /\ e \in Int
        BY <1>4
      <4> HIDE DEF z, e
      <4>2. IsFiniteSet(z .. e)
        BY <4>1, FS_Interval
      <4> QED BY <4>2 DEF z, e
    <3>4. IsFiniteSet(On(p))
      <4> DEFINE S == 0 .. raw.R - 1
                 T == On(p)
      <4>1. IsFiniteSet(S) /\ T \in SUBSET S
        BY <3>1, <3>3
      <4> HIDE DEF S, T
      <4>2. IsFiniteSet(T)
        BY <4>1, FS_Subset
      <4> QED BY <4>2 DEF T
    <3> HIDE DEF W
    <3>5. IsFiniteSet(W(On(p)))
      BY <3>2, <3>4, FS_Subset
    <3>6. Cardinality(On(p)) \in Nat /\ Cardinality(W(On(p))) \in Nat
      BY <3>4, <3>5, FS_CardinalityType
    <3>7. ~(Cardinality(W(On(p))) * 100 < 0 * Cardinality(On(p)))
      BY <3>6
    <3> QED BY <1>8, <3>7
  <2> HIDE DEF pages, thin, spare, own, ask
  <2>2. own \subseteq ask
    BY <1>2, <1>7, <2>1
  <2> QED BY <2>2 DEF own, ask
<1>9. CASE Cardinality(own) = 1
  <2>1. o \in Nat /\ o = BundleOff + uu * nbr_stride + (k - 1) * w
    <3>1. uu \in Nat /\ nbr_stride \in Nat /\ BundleOff \in Nat
      BY ImageIs, BundleIs
    <3>2. o = BundleOff + uu * nbr_stride + (k - 1) * w
      BY <1>4, BundleIs
    <3>3. uu * nbr_stride \in Nat /\ (k - 1) * w \in Nat
      BY <1>4, <3>1
    <3> QED BY <3>1, <3>2, <3>3
  <2>2. \A y : y \in own <=> Overlaps(y, o, w)
    <3> HIDE DEF o, w
    <3>1. own = PagesOf(o, w, 4096)
      BY <1>5 DEF w
    <3> QED BY <1>4, <2>1, <3>1, PagesAre
  <2>3. PICK p : own = {p}
    <3> DEFINE f == o \div 4096
               l == (o + w - 1) \div 4096
               F == [x \in f .. l |-> x * 4096]
    <3> HIDE DEF o, w
    <3>1. f \in Int /\ l \in Int
      BY <1>4, <2>1
    <3>2. IsFiniteSet(f .. l)
      BY <3>1, FS_Interval
    <3>3. own = {x * 4096 : x \in f .. l}
      BY <1>5 DEF PagesOf, w
    <3> HIDE DEF own, f, l
    <3>4. IsFiniteSet({x * 4096 : x \in f .. l})
      <4>1. {x * 4096 : x \in f .. l} = {F[x] : x \in f .. l}
        OBVIOUS
      <4>2. F \in Surjection(f .. l, {F[x] : x \in f .. l})
        BY DEF Surjection
      <4>3. IsFiniteSet({F[x] : x \in f .. l})
        BY <3>2, <4>2, FS_Surjection
      <4> HIDE DEF F
      <4> QED BY <4>1, <4>3
    <3>5. IsFiniteSet(own)
      <4> DEFINE X == {x * 4096 : x \in f .. l}
      <4>1. own = X /\ IsFiniteSet(X)
        BY <3>3, <3>4
      <4> HIDE DEF X
      <4> QED BY <4>1
    <3>6. Cardinality(own) = 1
      BY <1>9 DEF own
    <3>7. \E p : own = {p}
      <4>1. IsFiniteSet(own) => (Cardinality(own) = 1 <=> \E x : own = {x})
        BY FS_Singleton
      <4> QED BY <3>5, <3>6, <4>1
    <3> QED BY <3>7 DEF own
  <2>4. p \in Nat /\ p <= o /\ o + w <= p + 4096
    <3> HIDE DEF o, w, own
    <3>1. \A y : Overlaps(y, o, w) => y = p
      BY <2>2, <2>3
    <3> QED BY <1>4, <2>1, <3>1, OnePage
  <2>5. Within(CopyAt(uu, (k - 1) + 1), Page(p))
    <3>1. CopyAt(uu, (k - 1) + 1) = Span(o, w)
      BY <1>4 DEF CopyAt
    <3> HIDE DEF o, w
    <3> QED BY <2>4, <3>1 DEF Within, Span, Page
  <2>6. p \in BundlePages(uu)
    <3> DEFINE m == uu * nbr_stride
               kw == (k - 1) * w
               rw == raw.R * w
               bs == nbr_stride
    <3>1. m \in Nat /\ kw \in Nat /\ rw \in Nat /\ kw + w <= rw /\ rw <= bs /\ bs \in Nat /\ bs > 0 /\ BundleOff \in Nat
      <4>1. uu \in Nat /\ nbr_stride \in Nat /\ nbr_stride > 0 /\ BundleOff \in Nat /\ rw <= bs
        BY ImageIs, BundleIs
      <4>2. k - 1 \in Nat /\ k - 1 < raw.R
        BY <1>4
      <4> HIDE DEF w
      <4>3. kw + w <= rw
        BY <1>4, <4>2, RowsKept
      <4> QED BY <1>4, <4>1, <4>2, <4>3
    <3>2. Overlaps(p, o, w) /\ o = BundleOff + m + kw
      BY <2>1, <2>2, <2>3
    <3>3. Overlaps(p, BundleOff + m, bs)
      <4> HIDE DEF m, kw, rw, bs, o, w
      <4> QED BY <1>4, <3>1, <3>2 DEF Overlaps
    <3>4. bundle_slot(pl, uu, 0) = BundleOff + m
      <4>1. bundle_slot(pl, uu, 0) = BundleOff + m + 0 * w
        BY BundleIs
      <4>2. 0 * w = 0
        BY <1>4
      <4> HIDE DEF m, w
      <4> QED BY <3>1, <4>1, <4>2
    <3>5. p \in PagesOf(BundleOff + m, bs, 4096)
      <4> HIDE DEF m, bs
      <4>1. BundleOff + m \in Nat
        BY <3>1
      <4> QED BY <3>1, <3>3, <4>1, PagesAre
    <3> QED BY <3>4, <3>5 DEF BundlePages
  <2>7. k - 1 \in InBundlePage(pl, p, 4096)
    BY <1>4, <2>5, <2>6, InBundleIs
  <2>8. k - 1 \in W(On(p))
    <3> HIDE DEF On
    <3>1. k - 1 \in On(p)
      BY <1>3, <2>7
    <3>2. g[(k - 1) + 1] = v
      BY <1>4
    <3> HIDE DEF v
    <3> QED BY <3>1, <3>2
  <2> DEFINE own_v == hide_collect_vec_pages(pl, v, 4096)
  <2>9. own \subseteq ask \/ own_v \subseteq ask
    <3>1. V(k - 1) = own_v
      BY <1>6
    <3> HIDE DEF W, On, V, pages, own, own_v, ask
    <3>2. p \in thin => V(k - 1) \subseteq spare
      <4> HIDE DEF thin
      <4> QED BY <2>8
    <3> HIDE DEF thin, spare
    <3>3. p \in thin => own_v \subseteq ask
      BY <1>2, <3>1, <3>2
    <3>4. p \notin thin => own \subseteq ask
      BY <1>2, <1>7, <2>3
    <3> QED BY <3>3, <3>4
  <2> HIDE DEF own, ask, own_v
  <2> QED BY <2>9 DEF own, ask, own_v
<1> QED BY <1>8, <1>9

\* The index arithmetic of the server and of the packers agrees with what it means,
\* on every image any chain of tools writes, at every stride, whose bundle lies
\* behind its vectors: ids touching a page, ids contained in it (in a bundle too;
\* less the ones an odd stride hides), the pages of an id, and the pages asked for
\* a wanted copy.
THEOREM LayoutPages == LayoutSpec => [](BundleApart => PagesHold)
<1>1. LayoutInv => (BundleApart => PagesHold)
  <2> SUFFICES ASSUME LayoutInv, BundleApart, AtRest PROVE PagesHold
    <3>1. CASE AtRest
      BY <3>1
    <3>2. CASE ~AtRest
      BY <3>2 DEF PagesHold
    <3> QED BY <3>1, <3>2
  <2>1. \A p \in VectorPages : IdsOfPage(p)
    BY PageTouches, PageContains DEF IdsOfPage
  <2>2. \A i \in Vertices : PagesOfId(i)
    BY IdPages DEF PagesOfId
  <2>3. vec_stride(img.hdr) = raw.packed =>
          /\ \A q \in 0 .. Cardinality(VectorPages) - 1 : PageInside(q)
          /\ \A x, y \in Vertices : PageShared(x, y)
    <3>1. vec_stride(img.hdr) = raw.packed => \A q \in Nat : PageInside(q)
      BY PackedContains
    <3>2. \A q \in 0 .. Cardinality(VectorPages) - 1 : q \in Nat
      OBVIOUS
    <3> QED BY <3>1, <3>2, PackedShare
  <2>4. has_bundle(ImagePlacement) /\ img.hdr.version = 1 => \A uu \in Vertices :
          /\ \A p \in BundlePages(uu) : IdsOfBundlePage(uu, p)
          /\ \A k \in 1 .. raw.R, use \in {0, 60} : CopyAsked(uu, k, use)
    BY BundleContains, BundleAsks
  <2> QED BY <2>1, <2>2, <2>3, <2>4 DEF PagesHold
<1> QED BY <1>1, LayoutSafe, PTL
====
