--------------------------- MODULE HidePipeProofs ---------------------------
(***************************************************************************)
(* What the operations of a fill pipe preserve, for any number of pipes,   *)
(* slots and pages.  The proofs about the schedulers and the searches      *)
(* build on it.                                                            *)
(***************************************************************************)
EXTENDS HidePipe, FiniteSetTheorems, TLAPS

-----------------------------------------------------------------------------
(* The inductive invariant of the pipes.                                   *)

PageSet == {P \in SUBSET Int : IsFiniteSet(P)}
Issue == [active : BOOLEAN, tok : Nat, pages : PageSet, consumed : PageSet]
JobOf == Pipes \X Nat \X Int

\* Slots sl are a sound state of pipe h: tokens are in use at most once and
\* were given out, and a job that is still to run belongs to an active slot.
Owned(sl, j) == \E s \in Slots : sl[s].active /\ sl[s].tok = j[2] /\ j[3] \in sl[s].pages
Sound(h, sl) ==
  /\ sl \in [Slots -> Issue]
  /\ \A s \in Slots : sl[s].active => 0 < sl[s].tok /\ sl[s].tok < next_tok[h]
  /\ \A s, r \in Slots : sl[s].active /\ sl[r].active /\ sl[s].tok = sl[r].tok => s = r
  /\ \A j \in pending : j[1] = h => Owned(sl, j)

\* Outside the window mode no page is in two slots, unless extent runs put
\* pages into an issue that nobody asked for.
Tidy == use_window \/ ~ExtentRun
Apart(sl) ==
  ~use_window => \A s, r \in Slots : sl[s].active /\ sl[r].active /\ s # r
                                       => sl[s].pages \cap sl[r].pages = {}

JobsSound ==
  /\ pending \subseteq JobOf /\ finished \subseteq JobOf
  /\ pending \cap finished = {}
  /\ \A j \in pending \cup finished : j[2] < next_tok[j[1]]

PipesSound ==
  /\ opt \in Configs /\ Tidy
  /\ next_tok \in [Pipes -> Nat \ {0}]
  /\ slot \in [Pipes -> [Slots -> Issue]]
  /\ JobsSound
  /\ \A h \in Pipes : Sound(h, slot[h]) /\ Apart(slot[h])
-----------------------------------------------------------------------------
(* Facts about the sets a choice is made from.                             *)

\* A finite set of integers has a least member: descending chains of the
\* sets of smaller members end.
LEMMA MinIn ==
  ASSUME NEW S \in SUBSET Int, IsFiniteSet(S), S # {}
  PROVE  Min(S) \in S /\ \A y \in S : Min(S) <= y
<1> DEFINE Below(x) == {y \in S : y < x}
           F == {Below(x) : x \in S}
<1>1. F \subseteq FiniteSubsetsOf(S) /\ F # {}
  <2>1. \A x \in S : Below(x) \in SUBSET S /\ IsFiniteSet(Below(x))
    <3> SUFFICES ASSUME NEW x \in S PROVE Below(x) \in SUBSET S /\ IsFiniteSet(Below(x))
      OBVIOUS
    <3>1. Below(x) \in SUBSET S
      OBVIOUS
    <3> HIDE DEF Below
    <3> QED BY <3>1, FS_Subset
  <2> HIDE DEF Below
  <2> QED BY <2>1 DEF FiniteSubsetsOf
<1>2. IsWellFoundedOn(StrictSubsetOrdering(S), FiniteSubsetsOf(S))
  BY FS_StrictSubsetOrderingWellFounded
<1> HIDE DEF F
<1>3. PICK X \in F : \A Y \in F : ~(<<Y, X>> \in StrictSubsetOrdering(S))
  BY <1>1, <1>2, WFMin
<1>4. PICK x \in S : X = Below(x)
  BY DEF F
<1>5. \A y \in S : x <= y
  <2> SUFFICES ASSUME NEW y \in S, y < x PROVE FALSE
    OBVIOUS
  <2>1. \A z \in S : z < y => z < x
    OBVIOUS
  <2>2. Below(y) \in F /\ Below(y) \subseteq Below(x) /\ y \in Below(x) /\ y \notin Below(y)
    <3>1. ~(y < y)
      OBVIOUS
    <3>2. Below(y) \in F
      BY DEF F
    <3> QED BY <2>1, <3>1, <3>2
  <2>3. <<Below(y), Below(x)>> \in StrictSubsetOrdering(S)
    <3>1. Below(y) \in SUBSET S /\ Below(x) \in SUBSET S
      OBVIOUS
    <3> HIDE DEF Below
    <3> QED BY <3>1, <2>2 DEF StrictSubsetOrdering
  <2> QED BY <1>3, <1>4, <2>2, <2>3
<1> QED BY <1>5 DEF Min

\* The maximum of a finite set of integers is its largest member.
LEMMA MaxIn ==
  ASSUME NEW S \in SUBSET Int, IsFiniteSet(S), S # {}
  PROVE  Max(S) \in S /\ \A y \in S : Max(S) >= y
<1> DEFINE Above(x) == {y \in S : x < y}
           F == {Above(x) : x \in S}
<1>1. F \subseteq FiniteSubsetsOf(S) /\ F # {}
  <2>1. \A x \in S : Above(x) \in SUBSET S /\ IsFiniteSet(Above(x))
    <3> SUFFICES ASSUME NEW x \in S PROVE Above(x) \in SUBSET S /\ IsFiniteSet(Above(x))
      OBVIOUS
    <3>1. Above(x) \in SUBSET S
      OBVIOUS
    <3> HIDE DEF Above
    <3> QED BY <3>1, FS_Subset
  <2> HIDE DEF Above
  <2> QED BY <2>1 DEF FiniteSubsetsOf
<1>2. IsWellFoundedOn(StrictSubsetOrdering(S), FiniteSubsetsOf(S))
  BY FS_StrictSubsetOrderingWellFounded
<1> HIDE DEF F
<1>3. PICK X \in F : \A Y \in F : ~(<<Y, X>> \in StrictSubsetOrdering(S))
  BY <1>1, <1>2, WFMin
<1>4. PICK x \in S : X = Above(x)
  BY DEF F
<1>5. \A y \in S : x >= y
  <2> SUFFICES ASSUME NEW y \in S, x < y PROVE FALSE
    OBVIOUS
  <2>1. \A z \in S : y < z => x < z
    OBVIOUS
  <2>2. Above(y) \in F /\ Above(y) \subseteq Above(x) /\ y \in Above(x) /\ y \notin Above(y)
    <3>1. ~(y < y)
      OBVIOUS
    <3>2. Above(y) \in F
      BY DEF F
    <3> QED BY <2>1, <3>1, <3>2
  <2>3. <<Above(y), Above(x)>> \in StrictSubsetOrdering(S)
    <3>1. Above(y) \in SUBSET S /\ Above(x) \in SUBSET S
      OBVIOUS
    <3> HIDE DEF Above
    <3> QED BY <3>1, <2>2 DEF StrictSubsetOrdering
  <2> QED BY <1>3, <1>4, <2>2, <2>3
<1> QED BY <1>5 DEF Max

\* Slots are a finite set of numbers, and the first of some is one of them.
LEMMA SlotsNumbered ==
  ASSUME opt \in Configs
  PROVE  Slots \subseteq Int /\ IsFiniteSet(Slots) /\ \A S \in SUBSET Slots : S # {} => Min(S) \in S
<1>1. opt.nslots \in Nat \ {0}
  BY PipeConstants
<1>2. Slots \subseteq Int /\ IsFiniteSet(Slots)
  BY <1>1, FS_Interval DEF Slots, NSlots
<1>3. ASSUME NEW S \in SUBSET Slots, S # {} PROVE Min(S) \in S
  <2>1. S \in SUBSET Int /\ IsFiniteSet(S)
    BY <1>2, FS_Subset
  <2> QED BY <1>3, <2>1, MinIn
<1> QED BY <1>2, <1>3

-----------------------------------------------------------------------------
(* The operations of a pipe.                                               *)

\* A cleared slot is a slot, and inactive.
LEMMA NoIssueIs ==
  NoIssue \in Issue /\ NoIssue.active = FALSE
<1>1. {} \in PageSet
  BY FS_EmptySet DEF PageSet
<1> QED BY <1>1 DEF NoIssue, Issue

\* A pump moves nothing: the slots that stay active keep token and pages, and
\* outside the window mode all do.
LEMMA PumpedSlot ==
  ASSUME PipesSound, NEW h \in Pipes, NEW s \in Slots
  PROVE  LET x == slot[h][s]
             y == PumpedSlots(h)[s]
         IN  /\ y \in Issue
             /\ y.active => x.active /\ y.tok = x.tok /\ y.pages = x.pages
             /\ x.active /\ ~y.active => use_window /\ ReadyIn(h, x) = x.pages
<1> DEFINE x == slot[h][s]
           y == PumpedSlots(h)[s]
<1>1. x \in Issue
  BY DEF PipesSound, Sound
<1>2. ReadyIn(h, x) \in SUBSET x.pages
  BY DEF ReadyIn
<1>3. y = IF ~x.active THEN x
          ELSE IF use_window /\ ReadyIn(h, x) = x.pages THEN NoIssue
          ELSE [x EXCEPT !.consumed = ReadyIn(h, x)]
  BY DEF PumpedSlots
<1>4. ReadyIn(h, x) \in PageSet
  BY <1>1, <1>2, FS_Subset DEF Issue, PageSet
<1> HIDE DEF x, y
<1>5. /\ y \in Issue
      /\ y.active => x.active /\ y.tok = x.tok /\ y.pages = x.pages
      /\ x.active /\ ~y.active => use_window /\ ReadyIn(h, x) = x.pages
  <2>1. CASE ~x.active
    BY <1>1, <1>3, <2>1
  <2>2. CASE x.active /\ use_window /\ ReadyIn(h, x) = x.pages
    BY <1>3, <2>2, NoIssueIs
  <2>3. CASE x.active /\ ~(use_window /\ ReadyIn(h, x) = x.pages)
    <3>1. y = [x EXCEPT !.consumed = ReadyIn(h, x)]
      BY <1>3, <2>3
    <3> QED BY <1>1, <1>4, <2>3, <3>1 DEF Issue
  <2> QED BY <2>1, <2>2, <2>3
<1> QED BY <1>5 DEF x, y

\* Clearing slots whose pages have all landed leaves no job without memory.
LEMMA ClearedSound ==
  ASSUME PipesSound, NEW h \in Pipes, NEW sl \in [Slots -> Issue],
         \A s \in Slots : sl[s].active =>
           slot[h][s].active /\ sl[s].tok = slot[h][s].tok /\ sl[s].pages = slot[h][s].pages,
         \A s \in Slots : slot[h][s].active /\ ~sl[s].active => ReadyIn(h, slot[h][s]) = slot[h][s].pages
  PROVE  Sound(h, sl) /\ Apart(sl)
<1>1. Sound(h, slot[h]) /\ Apart(slot[h])
  BY DEF PipesSound
<1>2. ASSUME NEW j \in pending, j[1] = h PROVE Owned(sl, j)
  <2>1. PICK s \in Slots : slot[h][s].active /\ slot[h][s].tok = j[2] /\ j[3] \in slot[h][s].pages
    BY <1>1, <1>2 DEF Sound, Owned
  <2>2. j = <<h, slot[h][s].tok, j[3]>> /\ j \notin finished
    BY <1>2, <2>1 DEF PipesSound, JobsSound, JobOf
  <2>3. j[3] \notin ReadyIn(h, slot[h][s])
    BY <2>2 DEF ReadyIn
  <2>4. sl[s].active
    BY <2>1, <2>3
  <2> QED BY <2>1, <2>4 DEF Owned
<1>3. \A s \in Slots : sl[s].active => 0 < sl[s].tok /\ sl[s].tok < next_tok[h]
  BY <1>1 DEF Sound
<1>4. \A s, r \in Slots : sl[s].active /\ sl[r].active /\ sl[s].tok = sl[r].tok => s = r
  BY <1>1 DEF Sound
<1>5. Apart(sl)
  BY <1>1 DEF Apart
<1> QED BY <1>2, <1>3, <1>4, <1>5 DEF Sound

\* Pumping leaves every slot sound and their tokens apart.
LEMMA PumpedSound ==
  ASSUME PipesSound, NEW h \in Pipes
  PROVE  Sound(h, PumpedSlots(h)) /\ Apart(PumpedSlots(h))
<1> DEFINE sl == PumpedSlots(h)
<1>1. \A s \in Slots : sl[s] \in Issue
  BY PumpedSlot
<1>2. sl \in [Slots -> Issue]
  BY <1>1 DEF PumpedSlots
<1>3. \A s \in Slots : sl[s].active =>
        slot[h][s].active /\ sl[s].tok = slot[h][s].tok /\ sl[s].pages = slot[h][s].pages
  BY PumpedSlot
<1>4. \A s \in Slots : slot[h][s].active /\ ~sl[s].active => ReadyIn(h, slot[h][s]) = slot[h][s].pages
  BY PumpedSlot
<1> HIDE DEF sl
<1>5. Sound(h, sl) /\ Apart(sl)
  BY <1>2, <1>3, <1>4, ClearedSound
<1> QED BY <1>5 DEF sl

\* What depends on the command line alone.
LEMMA SamePipe ==
  ASSUME UNCHANGED opt
  PROVE  Slots' = Slots /\ (use_window' <=> use_window) /\ (Tidy' <=> Tidy)
BY DEF Slots, NSlots, use_window, Score, Tidy, ExtentRun

\* New slots for one pipe, without a new issue.
LEMMA SlotsStep ==
  ASSUME PipesSound, UNCHANGED opt, NEW h \in Pipes, NEW sl, Sound(h, sl), Apart(sl),
         slot' = [slot EXCEPT ![h] = sl], UNCHANGED <<next_tok, pending, finished>>
  PROVE  PipesSound'
<1>1. Slots' = Slots /\ (use_window' <=> use_window) /\ (Tidy' <=> Tidy)
  BY SamePipe
<1>2. sl \in [Slots -> Issue]
  BY DEF Sound
<1>3. slot' \in [Pipes -> [Slots -> Issue]]
      /\ \A g \in Pipes : slot'[g] = IF g = h THEN sl ELSE slot[g]
  BY <1>2 DEF PipesSound
<1>4. \A g \in Pipes : Sound(g, slot'[g]) /\ Apart(slot'[g])
  BY <1>3 DEF PipesSound
<1>5. ASSUME NEW g \in Pipes PROVE (Sound(g, slot[g]) /\ Apart(slot[g]))'
  BY <1>1, <1>4 DEF Sound, Apart, Owned
<1>6. JobsSound'
  BY DEF PipesSound, JobsSound
<1> QED BY <1>1, <1>3, <1>5, <1>6 DEF PipesSound

\* An extent run asks for pages, the given ones among them.
LEMMA ExtentRuns ==
  ASSUME NEW L \in SUBSET Pages
  PROVE  L \in PageSet /\ hide_extent_run(L) \in PageSet /\ L \subseteq hide_extent_run(L)
<1>1. L \in SUBSET Int /\ IsFiniteSet(L)
  <2>1. Pages \subseteq Int /\ IsFiniteSet(Pages)
    BY PipeConstants
  <2> QED BY <2>1, FS_Subset
<1>2. CASE L = {}
  <2>1. Cardinality(L) < 2
    BY <1>2, FS_EmptySet
  <2> QED BY <1>1, <1>2, <2>1 DEF hide_extent_run, PageSet
<1>3. CASE L # {}
  <2>1. Min(L) \in Int /\ Max(L) \in Int /\ \A p \in L : Min(L) <= p /\ p <= Max(L)
    BY <1>1, <1>3, MinIn, MaxIn
  <2>2. hide_extent_run(L) = L \/ hide_extent_run(L) = Min(L) .. Max(L)
    BY DEF hide_extent_run
  <2>3. Min(L) .. Max(L) \in PageSet /\ L \subseteq Min(L) .. Max(L)
    BY <1>1, <2>1, FS_Interval DEF PageSet
  <2> QED BY <1>1, <2>2, <2>3 DEF PageSet
<1> QED BY <1>2, <1>3

\* The pages an issue asks for: numbers, and outside the window mode all of the
\* miss list; without extent runs, nothing else.
LEMMA FetchedPages ==
  ASSUME NEW R, NEW miss \in SUBSET Pages
  PROVE  /\ Fetched(R, miss) \in PageSet
         /\ ~use_window => miss \subseteq Fetched(R, miss)
         /\ ~use_window /\ Tidy => Fetched(R, miss) = miss
<1> DEFINE left  == IF use_window THEN miss \ R ELSE miss
           asked == IF ExtentRun THEN hide_extent_run(left) ELSE left
<1>2. left \in SUBSET Pages
  OBVIOUS
<1> HIDE DEF left
<1>3. asked \in PageSet /\ left \subseteq asked
  BY <1>2, ExtentRuns
<1> HIDE DEF asked
<1>5. Fetched(R, miss) = asked
  BY DEF Fetched, left, asked
<1>6. ~use_window /\ Tidy => Fetched(R, miss) = miss
  BY <1>5 DEF Tidy, left, asked
<1>7. ~use_window => miss \subseteq Fetched(R, miss)
  BY <1>3, <1>5 DEF left
<1> QED BY <1>3, <1>5, <1>6, <1>7

\* What is reserved is asked for, and all of it outside the window mode.
LEMMA ReservedPages ==
  ASSUME NEW R, NEW asked \in PageSet, NEW busy, NEW XP \in Reserved(R, asked, busy)
  PROVE  XP[2] \in PageSet /\ (~use_window => XP[2] = asked)
<1>1. XP[2] \subseteq asked /\ (~use_window => XP[2] = asked)
  BY DEF Reserved
<1>2. IsFiniteSet(asked) /\ asked \in SUBSET Int
  BY DEF PageSet
<1>3. IsFiniteSet(XP[2])
  BY <1>1, <1>2, FS_Subset
<1> QED BY <1>1, <1>2, <1>3 DEF PageSet

\* A non-empty miss list is never cut to nothing, and not at all when it fits
\* in one issue.
LEMMA CappedNonempty ==
  ASSUME opt \in Configs, NEW miss \in SUBSET Pages, miss # {},
         NEW capped \in kSubset(Min({MaxIssue, Cardinality(miss)}), miss)
  PROVE  capped # {} /\ (Cardinality(miss) <= MaxIssue => capped = miss)
<1>1. MaxIssue \in Nat \ {0}
  BY PipeConstants DEF MaxIssue
<1>2. IsFiniteSet(miss) /\ Cardinality(miss) \in Nat /\ Cardinality(miss) # 0
  BY PipeConstants, FS_Subset, FS_CardinalityType, FS_EmptySet
<1> DEFINE S == {MaxIssue, Cardinality(miss)}
<1>3. S \in SUBSET Int /\ IsFiniteSet(S) /\ S # {} /\ 0 \notin S
  <2>1. IsFiniteSet({Cardinality(miss)})
    BY FS_Singleton
  <2>2. IsFiniteSet({Cardinality(miss)} \cup {MaxIssue})
    BY <2>1, FS_AddElement
  <2>3. S = {Cardinality(miss)} \cup {MaxIssue}
    OBVIOUS
  <2> QED BY <1>1, <1>2, <2>2, <2>3
<1> HIDE DEF S
<1>4. Min(S) # 0
  BY <1>3, MinIn
<1>5. Cardinality(capped) = Min(S) /\ capped \in SUBSET miss
  BY DEF kSubset, S
<1>6. capped # {}
  BY <1>4, <1>5, FS_EmptySet
<1>7. ASSUME Cardinality(miss) <= MaxIssue PROVE capped = miss
  <2>1. Min(S) \in S /\ Min(S) <= Cardinality(miss)
    BY <1>3, MinIn DEF S
  <2>2. Min(S) = Cardinality(miss)
    BY <1>1, <1>2, <1>7, <2>1 DEF S
  <2> QED BY <1>2, <1>5, <2>2, FS_Subset
<1> QED BY <1>6, <1>7

\* hide_issue into a free slot: a fresh token, jobs that the slot owns, pages
\* that no other slot lists.
LEMMA IssueSound ==
  ASSUME PipesSound, UNCHANGED opt, NEW h \in Pipes, NEW sl, Sound(h, sl), Apart(sl),
         NEW s \in Slots, ~sl[s].active, NEW P \in PageSet,
         ~use_window => P \cap InSlots(sl) = {},
         slot' = [slot EXCEPT ![h] = IssuedSlots(h, sl, s, P)],
         next_tok' = [next_tok EXCEPT ![h] = @ + 1],
         Pool!Submit(JobsOf(h, P))
  PROVE  PipesSound'
<1> DEFINE n  == next_tok[h]
           y  == [active |-> TRUE, tok |-> n, pages |-> P, consumed |-> {}]
           sn == [sl EXCEPT ![s] = y]
           J  == JobsOf(h, P)
<1>1. Slots' = Slots /\ (use_window' <=> use_window) /\ (Tidy' <=> Tidy)
  BY SamePipe
<1>2. n \in Nat \ {0} /\ sl \in [Slots -> Issue] /\ y \in Issue
  <2>1. {} \in PageSet
    BY FS_EmptySet DEF PageSet
  <2> QED BY <2>1 DEF PipesSound, Sound, Issue
<1>3. /\ sn \in [Slots -> Issue] /\ sn[s] = y
      /\ \A r \in Slots \ {s} : sn[r] = sl[r]
  BY <1>2
<1>4. /\ next_tok' \in [Pipes -> Nat \ {0}] /\ next_tok'[h] = n + 1
      /\ \A g \in Pipes \ {h} : next_tok'[g] = next_tok[g]
  BY <1>2 DEF PipesSound
<1>5. /\ slot' \in [Pipes -> [Slots -> Issue]] /\ slot'[h] = sn
      /\ \A g \in Pipes \ {h} : slot'[g] = slot[g]
  BY <1>3 DEF PipesSound, IssuedSlots
<1>6. /\ pending' = pending \cup J /\ finished' = finished /\ J \cap (pending \cup finished) = {}
  BY DEF Pool!Submit
<1>7. J \subseteq JobOf /\ \A j \in J : j[1] = h /\ j[2] = n /\ j[3] \in P
  BY <1>2 DEF JobsOf, JobOf, PageSet
<1>8. JobsSound'
  <2>1. pending' \subseteq JobOf /\ finished' \subseteq JobOf /\ pending' \cap finished' = {}
    BY <1>6, <1>7 DEF PipesSound, JobsSound
  <2>2. ASSUME NEW j \in pending \cup finished PROVE j[2] < next_tok'[j[1]]
    <3>1. j[1] \in Pipes /\ j[2] \in Nat /\ j[2] < next_tok[j[1]]
      BY <2>2 DEF PipesSound, JobsSound, JobOf
    <3> QED BY <1>2, <1>4, <3>1
  <2>3. ASSUME NEW j \in J PROVE j[2] < next_tok'[j[1]]
    BY <1>2, <1>4, <1>7, <2>3
  <2> QED BY <1>6, <2>1, <2>2, <2>3 DEF JobsSound
<1>9. ASSUME NEW g \in Pipes, g # h PROVE (Sound(g, slot[g]) /\ Apart(slot[g]))'
  <2>1. Sound(g, slot[g]) /\ Apart(slot[g])
    BY DEF PipesSound
  <2>2. \A j \in pending' : j[1] = g => j \in pending
    BY <1>6, <1>7, <1>9
  <2> QED BY <1>1, <1>4, <1>5, <1>9, <2>1, <2>2 DEF Sound, Apart, Owned
<1>10. (Sound(h, slot[h]))'
  <2>1. \A r \in Slots : sn[r].active => 0 < sn[r].tok /\ sn[r].tok < n + 1
    <3>1. ASSUME NEW r \in Slots \ {s}, sn[r].active PROVE 0 < sn[r].tok /\ sn[r].tok < n + 1
      <4>1. sl[r].tok \in Nat /\ 0 < sl[r].tok /\ sl[r].tok < n
        BY <1>2, <1>3, <3>1 DEF Sound, Issue
      <4> QED BY <1>2, <1>3, <4>1
    <3> QED BY <1>2, <1>3, <3>1
  <2>2. \A r \in Slots \ {s} : sn[r].active => sn[r].tok # n
    BY <1>2, <1>3 DEF Sound, Issue
  <2>3. \A r, q \in Slots : sn[r].active /\ sn[q].active /\ sn[r].tok = sn[q].tok => r = q
    BY <1>3, <2>2 DEF Sound
  <2>4. \A j \in pending : j[1] = h => Owned(sn, j)
    <3>1. ASSUME NEW j \in pending, j[1] = h PROVE Owned(sn, j)
      <4>1. PICK r \in Slots : sl[r].active /\ sl[r].tok = j[2] /\ j[3] \in sl[r].pages
        BY <3>1 DEF Sound, Owned
      <4> QED BY <1>3, <4>1 DEF Owned
    <3> QED BY <3>1
  <2>5. \A j \in J : Owned(sn, j)
    BY <1>3, <1>7 DEF Owned
  <2> HIDE DEF sn, J
  <2> QED BY <1>1, <1>3, <1>4, <1>5, <1>6, <2>1, <2>3, <2>4, <2>5 DEF Sound, Owned
<1>11. (Apart(slot[h]))'
  <2>1. ~use_window => \A r \in Slots \ {s} : sl[r].active => sl[r].pages \cap P = {}
    BY DEF InSlots
  <2>2. Apart(sn)
    BY <1>3, <2>1 DEF Apart
  <2> HIDE DEF sn
  <2> QED BY <1>1, <1>5, <2>2 DEF Apart
<1> QED BY <1>1, <1>4, <1>5, <1>8, <1>9, <1>10, <1>11 DEF PipesSound

\* The pages a query misses are among those it needs, and in no slot.
LEMMA MissingPages ==
  ASSUME NEW sl, NEW R, NEW need \in SUBSET Pages
  PROVE  Missing(sl, R, need) \in SUBSET need /\ Missing(sl, R, need) \in SUBSET Pages
         /\ Missing(sl, R, need) \cap InSlots(sl) = {}
BY DEF Missing

\* The tail of issue() in a free slot: the pipes stay sound; outside the window
\* mode a miss list is issued, under the next token.
LEMMA IssueIntoSound ==
  ASSUME PipesSound, UNCHANGED opt, NEW h \in Pipes, NEW sl, Sound(h, sl), Apart(sl),
         NEW s \in Slots, ~sl[s].active, NEW R, NEW miss \in SUBSET Pages,
         ~use_window => miss # {} /\ miss \cap InSlots(sl) = {},
         IssueInto(h, sl, s, R, miss)
  PROVE  /\ PipesSound'
         /\ next_tok' \in [Pipes -> Nat \ {0}] /\ next_tok'[h] >= next_tok[h]
         /\ next_tok' = next_tok \/ next_tok' = [next_tok EXCEPT ![h] = @ + 1]
         /\ ~use_window =>
              /\ next_tok'[h] = next_tok[h] + 1
              /\ \E P \in SUBSET miss : /\ P # {}
                                        /\ slot' = [slot EXCEPT ![h] = IssuedSlots(h, sl, s, P)]
<1>1. PICK capped \in kSubset(Min({MaxIssue, Cardinality(miss)}), miss) :
      \E XP \in Reserved(R, Fetched(R, capped), Filling(sl)) :
        LET P == XP[2]
        IN  IF P = {}
            THEN /\ slot' = [slot EXCEPT ![h] = sl]
                 /\ resident' = [resident EXCEPT ![h] = R]
                 /\ UNCHANGED <<next_tok, pending, finished>>
            ELSE /\ next_tok[h] <= MaxTok
                 /\ slot' = [slot EXCEPT ![h] = IssuedSlots(h, sl, s, P)]
                 /\ next_tok' = [next_tok EXCEPT ![h] = @ + 1]
                 /\ resident' = [resident EXCEPT ![h] = XP[1]]
                 /\ Pool!Submit(JobsOf(h, P))
  BY DEF IssueInto
<1>8. PICK XP \in Reserved(R, Fetched(R, capped), Filling(sl)) :
        IF XP[2] = {}
        THEN /\ slot' = [slot EXCEPT ![h] = sl]
             /\ UNCHANGED <<next_tok, pending, finished>>
        ELSE /\ slot' = [slot EXCEPT ![h] = IssuedSlots(h, sl, s, XP[2])]
             /\ next_tok' = [next_tok EXCEPT ![h] = @ + 1]
             /\ Pool!Submit(JobsOf(h, XP[2]))
  BY <1>1
<1> DEFINE P == XP[2]
<1>2. capped \in SUBSET miss /\ capped \in SUBSET Pages
  BY DEF kSubset
<1>3. P \in PageSet /\ (~use_window => P = capped)
  BY <1>2, FetchedPages, ReservedPages DEF PipesSound
<1>4. ~use_window => P # {} /\ P \in SUBSET miss /\ P \cap InSlots(sl) = {}
  <2>1. miss # {} => capped # {}
    BY CappedNonempty DEF PipesSound
  <2> QED BY <1>2, <1>3, <2>1
<1>5. next_tok \in [Pipes -> Nat \ {0}]
  BY DEF PipesSound
<1> HIDE DEF P
<1>6. CASE P = {}
  <2>1. slot' = [slot EXCEPT ![h] = sl] /\ UNCHANGED <<next_tok, pending, finished>>
    BY <1>8, <1>6 DEF P
  <2>2. PipesSound'
    BY <2>1, SlotsStep
  <2> QED BY <1>4, <1>5, <1>6, <2>1, <2>2
<1>7. CASE P # {}
  <2>1. /\ slot' = [slot EXCEPT ![h] = IssuedSlots(h, sl, s, P)]
        /\ next_tok' = [next_tok EXCEPT ![h] = @ + 1]
        /\ Pool!Submit(JobsOf(h, P))
    BY <1>8, <1>7 DEF P
  <2>2. PipesSound'
    BY <1>3, <1>4, <2>1, IssueSound
  <2>3. next_tok' \in [Pipes -> Nat \ {0}] /\ next_tok'[h] = next_tok[h] + 1
    BY <1>5, <2>1
  <2>4. next_tok'[h] >= next_tok[h]
    BY <1>5, <2>3
  <2> QED BY <1>4, <1>7, <2>1, <2>2, <2>3, <2>4
<1> QED BY <1>6, <1>7

\* issue() without a stall, when it issues: the pipes stay sound, and outside
\* the window mode the token names an active slot with needed pages in it.
LEMMA SubmitsSound ==
  ASSUME PipesSound, UNCHANGED opt, NEW h \in Pipes, NEW need \in SUBSET Pages, Submits(h, need)
  PROVE  /\ PipesSound'
         /\ next_tok' \in [Pipes -> Nat \ {0}] /\ next_tok'[h] >= next_tok[h]
         /\ ~use_window =>
              /\ next_tok'[h] = next_tok[h] + 1
              /\ \E s \in Slots, P \in SUBSET need :
                   /\ ~slot[h][s].active /\ P # {}
                   /\ slot' = [slot EXCEPT ![h] = IssuedSlots(h, PumpedSlots(h), s, P)]
<1> DEFINE sl == PumpedSlots(h)
           s  == FirstFree(sl)
<1>1. PICK R : /\ Missing(sl, R, need) # {} /\ ~Full(sl)
               /\ IssueInto(h, sl, s, R, Missing(sl, R, need))
  BY DEF Submits
<1> DEFINE miss == Missing(sl, R, need)
<1>2. Sound(h, sl) /\ Apart(sl)
  BY PumpedSound
<1>3. s \in Slots /\ ~sl[s].active
  <2> DEFINE F == {r \in Slots : ~sl[r].active}
  <2>1. F # {} /\ F \subseteq Slots
    BY <1>1 DEF Full
  <2>2. Min(F) \in F
    BY <2>1, SlotsNumbered DEF PipesSound
  <2> QED BY <2>2 DEF FirstFree
<1>4. miss \in SUBSET need /\ miss \in SUBSET Pages /\ miss \cap InSlots(sl) = {}
  BY MissingPages
<1>5. ~use_window => ~slot[h][s].active
  BY <1>3, PumpedSlot
<1>6. (~use_window => miss # {} /\ miss \cap InSlots(sl) = {}) /\ IssueInto(h, sl, s, R, miss)
  BY <1>1, <1>4
<1> HIDE DEF sl, s, miss
<1>7. /\ PipesSound'
      /\ next_tok' \in [Pipes -> Nat \ {0}] /\ next_tok'[h] >= next_tok[h]
      /\ ~use_window =>
           /\ next_tok'[h] = next_tok[h] + 1
           /\ \E P \in SUBSET miss : /\ P # {}
                                     /\ slot' = [slot EXCEPT ![h] = IssuedSlots(h, sl, s, P)]
  <2>1. miss \in SUBSET Pages
    BY <1>4
  <2>2. /\ PipesSound'
        /\ next_tok' \in [Pipes -> Nat \ {0}] /\ next_tok'[h] >= next_tok[h]
        /\ ~use_window => next_tok'[h] = next_tok[h] + 1
    BY <1>2, <1>3, <1>6, <2>1, IssueIntoSound, Zenon
  <2>3. ~use_window => \E P \in SUBSET miss : /\ P # {}
                                     /\ slot' = [slot EXCEPT ![h] = IssuedSlots(h, sl, s, P)]
    BY <1>2, <1>3, <1>6, <2>1, IssueIntoSound, SMTT(60)
  <2> QED BY <2>2, <2>3
<1> QED BY <1>3, <1>4, <1>5, <1>7 DEF sl

\* The slot a stalled issue waits for is one of the pipe's.
LEMMA StallSlotIn ==
  ASSUME PipesSound, NEW h \in Pipes
  PROVE  StallSlot(slot[h]) \in Slots
<1> DEFINE c(s) == Cardinality(slot[h][s].consumed)
           D == {c(s) : s \in Slots}
           M == {s \in Slots : \A r \in Slots : c(s) >= c(r)}
<1>1. Slots \in SUBSET Int /\ IsFiniteSet(Slots) /\ Slots # {}
  <2>1. opt.nslots \in Nat \ {0}
    BY PipeConstants DEF PipesSound
  <2>2. 0 \in Slots
    BY <2>1 DEF Slots, NSlots
  <2> QED BY <2>2, SlotsNumbered DEF PipesSound
<1>2. \A s \in Slots : c(s) \in Int
  <2>1. \A s \in Slots : IsFiniteSet(slot[h][s].consumed)
    BY DEF PipesSound, Issue, PageSet
  <2> QED BY <2>1, FS_CardinalityType
<1> HIDE DEF c
<1>3. D \in SUBSET Int /\ IsFiniteSet(D) /\ D # {}
  <2> DEFINE f == [s \in Slots |-> c(s)]
  <2>1. f \in Surjection(Slots, D)
    BY DEF Surjection
  <2>2. IsFiniteSet(D)
    BY <1>1, <2>1, FS_Surjection
  <2> QED BY <1>1, <1>2, <2>2
<1>4. Max(D) \in D /\ \A y \in D : Max(D) >= y
  BY <1>3, MaxIn
<1>5. M # {}
  BY <1>4
<1>6. M \in SUBSET Int /\ IsFiniteSet(M)
  BY <1>1, FS_Subset
<1>7. Max(M) \in M
  <2> HIDE DEF M
  <2> QED BY <1>5, <1>6, MaxIn
<1> QED BY <1>7 DEF StallSlot, c

\* A stalled issue goes on in a slot whose pages have all landed.
LEMMA StallEndsSound ==
  ASSUME PipesSound, UNCHANGED opt, NEW h \in Pipes, NEW s \in Slots, NEW miss \in SUBSET Pages,
         StallEnds(h, s, miss)
  PROVE  /\ PipesSound' /\ use_window
         /\ next_tok' = next_tok \/ next_tok' = [next_tok EXCEPT ![h] = @ + 1]
<1> DEFINE sl == [slot[h] EXCEPT ![s] = NoIssue]
<1>1. use_window /\ ReadyIn(h, slot[h][s]) = slot[h][s].pages
  BY DEF StallEnds
<1>2. PICK R : IssueInto(h, sl, s, R, miss)
  BY DEF StallEnds
<1>3. slot[h] \in [Slots -> Issue]
  BY DEF PipesSound
<1>4. /\ sl \in [Slots -> Issue] /\ sl[s] = NoIssue /\ ~sl[s].active
      /\ \A r \in Slots \ {s} : sl[r] = slot[h][r]
  BY <1>3, NoIssueIs
<1> HIDE DEF sl
<1>5. /\ \A r \in Slots : sl[r].active =>
           slot[h][r].active /\ sl[r].tok = slot[h][r].tok /\ sl[r].pages = slot[h][r].pages
      /\ \A r \in Slots : slot[h][r].active /\ ~sl[r].active => ReadyIn(h, slot[h][r]) = slot[h][r].pages
  BY <1>1, <1>4
<1>6. Sound(h, sl) /\ Apart(sl)
  BY <1>4, <1>5, ClearedSound
<1> QED BY <1>1, <1>2, <1>4, <1>6, IssueIntoSound

\* An issue that finds no free slot only pumps.
LEMMA RefusesSound ==
  ASSUME PipesSound, UNCHANGED opt, NEW h \in Pipes, NEW need, Refuses(h, need)
  PROVE  PipesSound' /\ next_tok' = next_tok /\ slot' = [slot EXCEPT ![h] = PumpedSlots(h)]
<1>1. slot' = [slot EXCEPT ![h] = PumpedSlots(h)] /\ UNCHANGED <<next_tok, pending, finished>>
  BY DEF Refuses
<1> QED BY <1>1, PumpedSound, SlotsStep

\* A pump keeps the pipes sound and hands out no token.
LEMMA PumpsSound ==
  ASSUME PipesSound, UNCHANGED opt, NEW h \in Pipes, Pumps(h)
  PROVE  PipesSound' /\ next_tok' = next_tok /\ slot' = [slot EXCEPT ![h] = PumpedSlots(h)]
<1>1. slot' = [slot EXCEPT ![h] = PumpedSlots(h)] /\ UNCHANGED <<next_tok, pending, finished>>
  BY DEF Pumps
<1> QED BY <1>1, PumpedSound, SlotsStep

\* A job that runs writes memory its slot owns, and leaves the rest alone.
LEMMA LandsSound ==
  ASSUME PipesSound, UNCHANGED opt, NEW j \in pending, Lands(j)
  PROVE  PipesSound' /\ UNCHANGED <<slot, next_tok>>
<1>1. /\ pending' = pending \ {j} /\ finished' = finished \cup {j}
      /\ UNCHANGED <<slot, resident, next_tok>>
  BY DEF Lands, Pool!Finish
<1>2. Slots' = Slots /\ (use_window' <=> use_window) /\ (Tidy' <=> Tidy)
  BY SamePipe
<1>3. JobsSound'
  BY <1>1 DEF PipesSound, JobsSound
<1>4. ASSUME NEW g \in Pipes PROVE (Sound(g, slot[g]) /\ Apart(slot[g]))'
  <2>1. Sound(g, slot[g]) /\ Apart(slot[g])
    BY <1>4 DEF PipesSound
  <2> QED BY <1>1, <1>2, <2>1 DEF Sound, Apart, Owned
<1> QED BY <1>1, <1>2, <1>3, <1>4 DEF PipesSound

\* The jobs that still run have their memory.
LEMMA SoundNoDangling ==
  ASSUME PipesSound
  PROVE  NoDanglingJob
BY DEF PipesSound, JobsSound, JobOf, Sound, Owned, NoDanglingJob

\* Outside the window mode a covered page has landed in the one slot that
\* lists it, the slot vec_src reads from.
LEMMA CoveredLanded ==
  ASSUME PipesSound, NEW h \in Pipes, NEW p, covers(h, p), ~use_window
  PROVE  \E s \in Slots : /\ slot[h][s].active /\ p \in slot[h][s].pages
                          /\ p \in ReadyIn(h, slot[h][s])
                          /\ Holding(slot[h], p) = {s} /\ bounce_page(h, p) = s
<1>1. PICK s \in Holding(slot[h], p) : p \in ReadyIn(h, slot[h][s])
  BY DEF covers, page_ready
<1>2. s \in Slots /\ slot[h][s].active /\ p \in slot[h][s].pages
  BY <1>1 DEF Holding
<1>3. Holding(slot[h], p) = {s}
  BY <1>2 DEF Holding, PipesSound, Apart
<1>4. Min({s}) = s
  <2>1. {s} # {} /\ {s} \subseteq Slots
    BY <1>2
  <2>2. Min({s}) \in {s}
    BY <2>1, SlotsNumbered DEF PipesSound
  <2> QED BY <2>2
<1> QED BY <1>1, <1>2, <1>3, <1>4 DEF bounce_page

\* So a covered candidate is scored from landed bytes, in every mode.
LEMMA ScoresLanded ==
  ASSUME PipesSound, NEW h \in Pipes, NEW need, coversAll(h, need)
  PROVE  \A p \in need : ReadsLanded(h, p)
<1>1. CASE use_window
  BY <1>1 DEF use_window, ReadsLanded
<1>2. CASE ~use_window
  <2>1. ASSUME NEW p \in need PROVE ReadsLanded(h, p)
    <3>1. covers(h, p)
      BY <2>1 DEF coversAll
    <3>2. PICK s \in Slots : /\ p \in ReadyIn(h, slot[h][s])
                             /\ Holding(slot[h], p) = {s} /\ bounce_page(h, p) = s
      BY <1>2, <3>1, CoveredLanded
    <3> QED BY <3>2 DEF ReadsLanded, page_in_slot
  <2> QED BY <2>1
<1> QED BY <1>1, <1>2

==============================================================================
