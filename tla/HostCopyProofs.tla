--------------------------- MODULE HostCopyProofs ---------------------------
(***************************************************************************)
(* What the server keeps of the device's pages in host memory is right:    *)
(* the residency window, for every number of frames, pages, pins and fills *)
(* that satisfies Headroom (WindowInv is inductive), and the staging pipe, *)
(* for any number of slots, workers, vectors, submissions and restarts     *)
(* (PipeInv is).                                                           *)
(***************************************************************************)
EXTENDS DramWindowRoom, PromotePipe, FunctionTheorems, SequenceTheorems, FiniteSetTheorems, TLAPS

-----------------------------------------------------------------------------
(* Facts about frames and soft-pin records.                                *)

\* There are NFrames frames (init: n_frames = capacity / page_bytes), and any
\* set of frames is finite.
LEMMA FramesFinite ==
  /\ IsFiniteSet(Frames)
  /\ Cardinality(Frames) = NFrames
  /\ \A S \in SUBSET Frames : IsFiniteSet(S) /\ Cardinality(S) \in Nat
<1>1. IsFiniteSet(Frames) /\ Cardinality(Frames) = NFrames
  BY FS_Interval, WindowConstants DEF Frames
<1>2. ASSUME NEW S \in SUBSET Frames PROVE IsFiniteSet(S) /\ Cardinality(S) \in Nat
  BY <1>1, FS_Subset, FS_CardinalityType
<1> QED BY <1>1, <1>2

\* One element more is at most one more in number.
LEMMA AddOne ==
  ASSUME NEW S, IsFiniteSet(S), NEW x
  PROVE  /\ IsFiniteSet(S \cup {x}) /\ Cardinality(S) \in Nat /\ Cardinality(S \cup {x}) \in Nat
         /\ Cardinality(S \cup {x}) <= Cardinality(S) + 1
<1>1. /\ IsFiniteSet(S \cup {x})
      /\ Cardinality(S \cup {x}) = IF x \in S THEN Cardinality(S) ELSE Cardinality(S) + 1
  BY FS_AddElement
<1>2. Cardinality(S) \in Nat /\ Cardinality(S \cup {x}) \in Nat
  BY <1>1, FS_CardinalityType
<1> QED BY <1>1, <1>2

\* A soft-pin record whose byte count is that of its soft-pinned frames.
SoftOK(s) ==
  /\ s \in SoftRecord
  /\ s.used = Cardinality(SoftFrames(s))
  /\ s.used <= SoftCap

\* clear_soft_ttl_unlocked keeps the count right and un-pins exactly f.
LEMMA ClearSoft ==
  ASSUME NEW s, SoftOK(s), NEW f \in Frames
  PROVE  /\ SoftOK(clear_soft_ttl(s, f))
         /\ SoftFrames(clear_soft_ttl(s, f)) = SoftFrames(s) \ {f}
<1> DEFINE t == clear_soft_ttl(s, f)
<1>1. CASE s.ttl[f] = 0
  BY <1>1 DEF clear_soft_ttl, SoftFrames, SoftOK
<1>2. CASE s.ttl[f] # 0
  <2>1. t = [ttl |-> [s.ttl EXCEPT ![f] = 0], used |-> Less(s.used), listed |-> s.listed]
    BY <1>2 DEF clear_soft_ttl
  <2>2. t.ttl = [s.ttl EXCEPT ![f] = 0] /\ t.used = Less(s.used) /\ t.listed = s.listed
        /\ t \in [ttl : [Frames -> Ttl], used : {Less(s.used)}, listed : [Frames -> Nat]]
    BY <2>1, WindowConstants DEF SoftOK, SoftRecord, Ttl
  <2>3. SoftFrames(t) = SoftFrames(s) \ {f} /\ f \in SoftFrames(s)
    BY <2>2, <1>2, WindowConstants DEF SoftFrames, SoftOK, SoftRecord, Ttl
  <2>4. Cardinality(SoftFrames(t)) = Cardinality(SoftFrames(s)) - 1
        /\ Cardinality(SoftFrames(t)) \in Nat
    <3>1. SoftFrames(s) \in SUBSET Frames /\ SoftFrames(t) \in SUBSET Frames
      BY DEF SoftFrames
    <3>2. IsFiniteSet(SoftFrames(s)) /\ Cardinality(SoftFrames(t)) \in Nat
      BY <3>1, FramesFinite
    <3> QED BY <2>3, <3>2, FS_RemoveElement
  <2>5. t.used = Cardinality(SoftFrames(t)) /\ t.used \in Nat /\ t.used <= SoftCap
    BY <2>2, <2>4, WindowConstants DEF SoftOK, SoftRecord, Less
  <2> QED BY <2>2, <2>3, <2>5 DEF SoftOK, SoftRecord
<1> QED BY <1>1, <1>2

\* set_soft_ttl_unlocked keeps the count right and within the cap, and pins
\* no frame but f.
LEMMA SetSoft ==
  ASSUME NEW s, SoftOK(s), NEW f \in Frames, NEW ttl \in Ttl, NEW pinned
  PROVE  /\ SoftOK(set_soft_ttl(s, f, ttl, pinned))
         /\ SoftFrames(set_soft_ttl(s, f, ttl, pinned)) \subseteq SoftFrames(s) \cup {f}
<1> DEFINE t == set_soft_ttl(s, f, ttl, pinned)
<1>1. CASE ttl = 0 \/ pinned[f] \/ (s.ttl[f] = 0 /\ s.used + 1 > SoftCap)
  BY <1>1 DEF set_soft_ttl
<1>2. CASE ~(ttl = 0 \/ pinned[f] \/ (s.ttl[f] = 0 /\ s.used + 1 > SoftCap)) /\ s.ttl[f] = 0
  <2>1. t = [ttl    |-> [s.ttl EXCEPT ![f] = ttl],
             used   |-> s.used + 1,
             listed |-> [s.listed EXCEPT ![f] = @ + 1]]
    BY <1>2 DEF set_soft_ttl
  <2>2. t \in SoftRecord /\ t.used = s.used + 1 /\ t.used <= SoftCap
    BY <2>1, <1>2, WindowConstants DEF SoftOK, SoftRecord, Ttl
  <2>3. SoftFrames(t) = SoftFrames(s) \cup {f} /\ f \notin SoftFrames(s)
    BY <2>1, <1>2, WindowConstants DEF SoftFrames, SoftOK, SoftRecord, Ttl
  <2>4. IsFiniteSet(SoftFrames(s))
    BY FramesFinite DEF SoftFrames
  <2>5. Cardinality(SoftFrames(t)) = Cardinality(SoftFrames(s)) + 1
    BY <2>3, <2>4, FS_AddElement
  <2> QED BY <2>2, <2>3, <2>5 DEF SoftOK
<1>3. CASE ~(ttl = 0 \/ pinned[f] \/ (s.ttl[f] = 0 /\ s.used + 1 > SoftCap)) /\ s.ttl[f] # 0
  <2>1. t = [ttl |-> [s.ttl EXCEPT ![f] = IF ttl > @ THEN ttl ELSE @],
             used |-> s.used, listed |-> s.listed]
    BY <1>3 DEF set_soft_ttl
  <2>2. t.ttl = [s.ttl EXCEPT ![f] = IF ttl > s.ttl[f] THEN ttl ELSE s.ttl[f]]
        /\ t.used = s.used /\ t \in SoftRecord
    BY <2>1, <1>3, WindowConstants DEF SoftOK, SoftRecord, Ttl
  <2>3. SoftFrames(t) = SoftFrames(s)
    BY <2>2, <1>3, WindowConstants DEF SoftFrames, SoftOK, SoftRecord, Ttl
  <2> QED BY <2>2, <2>3 DEF SoftOK
<1> QED BY <1>1, <1>2, <1>3

-----------------------------------------------------------------------------
(* Allocation.                                                             *)

\* The frames that fills reserve are no more than the fills outstanding.
LEMMA FillingFramesBounded ==
  ASSUME TypeOK, FillsIsolated, FillsBounded
  PROVE  /\ IsFiniteSet({f \in Frames : frame_filling[f]})
         /\ Cardinality({f \in Frames : frame_filling[f]}) <= MaxFills
<1> DEFINE S == {f \in Frames : frame_filling[f]}
           g == [x \in fills |-> x.frame]
<1>1. g \in Surjection(fills, S)
  <2>1. \A x \in fills : x.frame \in S
    BY DEF TypeOK, FillsIsolated, FillOf
  <2>2. \A f \in S : \E x \in fills : x.frame = f
    BY DEF FillsIsolated
  <2> QED BY <2>1, <2>2 DEF Surjection
<1>2. IsFiniteSet(S) /\ Cardinality(S) <= Cardinality(fills)
  BY <1>1, FS_Surjection DEF FillsBounded
<1>3. Cardinality(S) \in Nat /\ Cardinality(fills) \in Nat
  BY <1>2, FS_CardinalityType DEF FillsBounded
<1> QED BY <1>2, <1>3, WindowConstants DEF FillsBounded

\* With headroom the clock always finds a frame that is neither pinned nor
\* filling, so evict_frame_unlocked never reaches its final "return 0".
LEMMA SomeEvictable ==
  ASSUME Headroom, WindowInv
  PROVE  Evictable # {}
<1> DEFINE F == {f \in Frames : frame_filling[f]}
<1> SUFFICES ASSUME Evictable = {} PROVE FALSE
  OBVIOUS
<1>1. Frames = PinnedFrames \cup F
  BY DEF Evictable, PinnedFrames
<1>2. IsFiniteSet(PinnedFrames) /\ Cardinality(PinnedFrames) \in Nat
      /\ IsFiniteSet(F) /\ Cardinality(F) \in Nat
      /\ Cardinality(PinnedFrames \cap F) \in Nat
  BY FramesFinite DEF PinnedFrames
<1>3. NFrames <= Cardinality(PinnedFrames) + Cardinality(F)
  <2> HIDE DEF F
  <2>1. Cardinality(PinnedFrames \cup F)
          = Cardinality(PinnedFrames) + Cardinality(F) - Cardinality(PinnedFrames \cap F)
    BY <1>2, FS_Union
  <2>2. Cardinality(PinnedFrames \cup F) = NFrames
    BY <1>1, FramesFinite
  <2> QED BY <1>2, <2>1, <2>2, WindowConstants
<1>4. Cardinality(F) <= MaxFills
  BY FillingFramesBounded DEF WindowInv
<1>5. Cardinality(PinnedFrames) <= PinCap
  BY DEF WindowInv, PinAccounts
<1> QED BY <1>2, <1>3, <1>4, <1>5, WindowConstants DEF Headroom, FrameToSpare

\* The frame the clock chooses is neither pinned nor being filled.
LEMMA VictimEvictable ==
  ASSUME Headroom, WindowInv, NEW f \in Frames, Victim(f)
  PROVE  f \in Evictable
BY SomeEvictable DEF Victim, FirstFromHand, Unpinned

\* What an eviction leaves of the soft-pin record.
LEMMA EvictSoft ==
  ASSUME Headroom, WindowInv, NEW f \in Evictable
  PROVE  /\ SoftOK(EvictedSoft(f))
         /\ SoftFrames(EvictedSoft(f)) = SoftFrames(soft) \ {f}
<1>1. SoftOK(soft) /\ f \in Frames
  BY DEF WindowInv, SoftAccounts, SoftOK, TypeOK, Evictable
<1>2. CASE frame_key[f] # FreeKey
  BY <1>1, <1>2, ClearSoft DEF EvictedSoft
<1>3. CASE frame_key[f] = FreeKey
  BY <1>1, <1>3 DEF EvictedSoft, WindowInv, SoftAccounts
<1> QED BY <1>2, <1>3

\* Placing an absent page in a victim frame keeps map, keys, bytes and fills
\* in agreement, and moves no other page but the one the frame held.
LEMMA PlaceAgrees ==
  ASSUME Headroom, WindowInv, UNCHANGED direct, NEW p \in Pages, ~Mapped(p), NEW f \in Frames, Place(p, f, p),
         UNCHANGED <<frame_filling, fills>>,
         frame_pinned' \in [Frames -> BOOLEAN],
         \A g \in Frames \ {f} : frame_pinned'[g] = frame_pinned[g]
  PROVE  /\ f \in Evictable
         /\ map' \in [Pages -> Frames \cup {NoFrame}]
         /\ frame_key' \in [Frames -> Pages \cup {FreeKey}]
         /\ arena' \in [Frames -> Pages \cup {Garbage}]
         /\ clock_hand' \in Frames
         /\ map'[p] = f /\ frame_key'[f] = p
         /\ \A q \in Pages \ {p} : map'[q] = IF map[q] = f THEN NoFrame ELSE map[q]
         /\ \A g \in Frames \ {f} : frame_key'[g] = frame_key[g] /\ arena'[g] = arena[g]
         /\ MapAgrees' /\ BytesRight' /\ FillsIsolated'
<1>1. f \in Evictable
  BY VictimEvictable DEF Place
<1>2. ~frame_filling[f] /\ ~frame_pinned[f] /\ TypeOK /\ NoFrame \notin Frames /\ FreeKey \notin Pages
  BY <1>1, WindowConstants DEF Evictable, WindowInv, NoFrame, Frames, FreeKey
<1>3. /\ EvictedMap(f) \in [Pages -> Frames \cup {NoFrame}]
      /\ \A q \in Pages : EvictedMap(f)[q] = IF map[q] = f THEN NoFrame ELSE map[q]
  <2>1. CASE frame_key[f] = FreeKey
    <3>1. \A q \in Pages : map[q] # f
      BY <2>1, <1>2 DEF WindowInv, MapAgrees, Mapped, TypeOK
    <3> QED BY <2>1, <3>1, <1>2 DEF EvictedMap, TypeOK
  <2>2. CASE frame_key[f] # FreeKey
    <3>1. \A q \in Pages : map[q] = f <=> q = frame_key[f]
      BY <2>2, <1>2 DEF WindowInv, MapAgrees, Mapped, TypeOK
    <3>2. frame_key[f] \in Pages
      BY <2>2, <1>2 DEF TypeOK
    <3> QED BY <1>1, <2>2, <3>1, <3>2, <1>2 DEF EvictedMap, TypeOK
  <2> QED BY <2>1, <2>2
<1>4. /\ map' \in [Pages -> Frames \cup {NoFrame}]
      /\ map'[p] = f
      /\ \A q \in Pages \ {p} : map'[q] = IF map[q] = f THEN NoFrame ELSE map[q]
  BY <1>3 DEF Place
<1>5. /\ frame_key' \in [Frames -> Pages \cup {FreeKey}] /\ frame_key'[f] = p
      /\ arena' \in [Frames -> Pages \cup {Garbage}] /\ arena'[f] = p
      /\ \A g \in Frames \ {f} : frame_key'[g] = frame_key[g] /\ arena'[g] = arena[g]
  BY <1>2 DEF Place, TypeOK
<1>6. clock_hand' \in Frames
  BY <1>1, WindowConstants DEF Place, EvictedHand, NextHand, Frames
<1>7. MapAgrees'
  <2>1. ASSUME NEW q \in Pages, map'[q] # NoFrame
        PROVE  frame_key'[map'[q]] = q /\ ~frame_filling'[map'[q]]
    BY <2>1, <1>2, <1>4, <1>5 DEF WindowInv, MapAgrees, Mapped, TypeOK
  <2>2. ASSUME NEW g \in Frames, frame_key'[g] # FreeKey, ~frame_filling'[g]
        PROVE  map'[frame_key'[g]] = g
    BY <2>2, <1>2, <1>4, <1>5 DEF WindowInv, MapAgrees, Mapped, TypeOK
  <2> QED BY <2>1, <2>2 DEF MapAgrees, Mapped
<1>8. BytesRight'
  BY <1>2, <1>4, <1>5 DEF WindowInv, BytesRight, Mapped, TypeOK
<1>9. FillsIsolated'
  <2>1. \A x \in fills : x.frame \in Frames /\ x.frame # f
    BY <1>2 DEF TypeOK, FillOf, WindowInv, FillsIsolated
  <2> QED BY <2>1, <1>5 DEF WindowInv, FillsIsolated
<1> QED BY <1>1, <1>4, <1>5, <1>6, <1>7, <1>8, <1>9

\* Placing a page without pinning it leaves the pin account alone.
LEMMA PlaceUnpinned ==
  ASSUME Headroom, WindowInv, UNCHANGED direct, NEW p \in Pages, ~Mapped(p), NEW f \in Frames, Place(p, f, p),
         frame_pinned' = [frame_pinned EXCEPT ![f] = FALSE],
         UNCHANGED <<frame_filling, fills, pinned_pages, pin_used>>
  PROVE  PinAccounts' /\ frame_pinned' = frame_pinned
<1>1. frame_pinned \in [Frames -> BOOLEAN] /\ f \in Evictable
  BY VictimEvictable DEF Place, WindowInv, TypeOK
<1>2. frame_pinned' = frame_pinned
  BY <1>1 DEF Evictable
<1>3. /\ \A q \in Pages \ {p} : map'[q] = IF map[q] = f THEN NoFrame ELSE map[q]
      /\ \A g \in Frames \ {f} : frame_key'[g] = frame_key[g]
  BY <1>1, <1>2, PlaceAgrees, ZenonT(60)
<1>4. PinnedFrames' = PinnedFrames /\ f \notin PinnedFrames
  BY <1>1, <1>2 DEF PinnedFrames, Evictable
<1>5. \A q \in pinned_pages : q \in Pages \ {p} /\ map[q] \in PinnedFrames
  BY DEF WindowInv, TypeOK, PinAccounts, Mapped, PinnedFrames, NoFrame
<1> QED
  BY <1>2, <1>3, <1>4, <1>5 DEF WindowInv, PinAccounts, Mapped, PinnedFrames

-----------------------------------------------------------------------------
(* Promotion: promote_page_unlocked, with and without a pin.               *)

ReadRecord == [phase : {"idle", "promote", "copy"}, at : Pages \cup {NoPage},
               first : Pages \cup {NoPage}, last : Pages \cup {NoPage}]

\* WindowInv without what it says of the read that holds the mutex.
Consistent ==
  /\ TypeOK /\ MapAgrees /\ BytesRight /\ FillsIsolated /\ PinAccounts
  /\ SoftAccounts /\ ReadsRight /\ FillsBounded

\* A hit changes nothing but, within the budget, the pin of its own frame.
LEMMA PromoteHitStep ==
  ASSUME Headroom, WindowInv, UNCHANGED direct, NEW p \in Pages, NEW pin \in BOOLEAN, PromoteHit(p, pin),
         UNCHANGED <<fills, copied>>, rd' \in ReadRecord
  PROVE  Consistent' /\ Mapped(p)' /\ UNCHANGED <<map, arena>> /\ pinned_pages \subseteq pinned_pages'
<1> USE DEF WindowInv, PromoteHit
<1>1. map[p] \in Frames /\ frame_key[map[p]] = p /\ ~frame_filling[map[p]]
  BY DEF TypeOK, Mapped, MapAgrees
<1>2. MapAgrees' /\ BytesRight' /\ SoftAccounts' /\ ReadsRight' /\ FillsBounded' /\ Mapped(p)'
  BY DEF MapAgrees, BytesRight, SoftAccounts, ReadsRight, FillsBounded, Mapped
<1>3. CASE pin /\ ~frame_pinned[map[p]] /\ pin_used + 1 <= PinCap
  <2>1. TypeOK'
    <3>1. pinned_pages' \subseteq Pages /\ pin_used' \in Nat
      BY <1>1, <1>3 DEF TypeOK
    <3>2. frame_pinned' = [frame_pinned EXCEPT ![map[p]] = TRUE]
      BY <1>3
    <3>3. frame_pinned \in [Frames -> BOOLEAN]
      BY DEF TypeOK
    <3>4. frame_pinned' \in [Frames -> BOOLEAN]
      BY <3>2, <3>3, Zenon
    <3> QED BY <3>1, <3>4 DEF TypeOK, ReadRecord
  <2>2. PinnedFrames' = PinnedFrames \cup {map[p]} /\ map[p] \notin PinnedFrames
    BY <1>1, <1>3 DEF PinnedFrames, TypeOK
  <2>3. Cardinality(PinnedFrames') = Cardinality(PinnedFrames) + 1
    <3>1. IsFiniteSet(PinnedFrames)
      BY FramesFinite DEF PinnedFrames
    <3> QED BY <2>2, <3>1, FS_AddElement
  <2>4. \A q \in pinned_pages' : Mapped(q)' /\ frame_pinned'[map'[q]]
    BY <1>1, <1>3 DEF PinAccounts, Mapped, TypeOK
  <2>5. PinAccounts'
    BY <1>1, <1>3, <2>2, <2>3, <2>4 DEF PinAccounts
  <2>6. FillsIsolated'
    BY <1>1, <1>3 DEF FillsIsolated, TypeOK, FillOf
  <2> QED BY <1>2, <1>3, <2>1, <2>5, <2>6 DEF Consistent
<1>4. CASE ~(pin /\ ~frame_pinned[map[p]] /\ pin_used + 1 <= PinCap)
  <2>1. UNCHANGED <<frame_pinned, pinned_pages, pin_used>>
    BY <1>4
  <2>2. TypeOK'
    BY <2>1 DEF TypeOK, ReadRecord
  <2>3. FillsIsolated' /\ PinAccounts'
    BY <2>1 DEF FillsIsolated, PinAccounts, PinnedFrames, Mapped
  <2> QED BY <1>2, <2>1, <2>2, <2>3 DEF Consistent
<1> QED BY <1>3, <1>4

\* A miss places the page in an evictable frame; no pinned page moves.
LEMMA PromoteMissStep ==
  ASSUME Headroom, WindowInv, UNCHANGED direct, NEW p \in Pages, NEW pin \in BOOLEAN, PromoteMiss(p, pin),
         UNCHANGED <<fills, copied>>, rd' \in ReadRecord
  PROVE  Consistent' /\ Mapped(p)'
<1> PICK f \in Frames :
       /\ Place(p, f, p)
       /\ soft' = clear_soft_ttl(EvictedSoft(f), f)
       /\ IF pin /\ pin_used + 1 <= PinCap
          THEN /\ frame_pinned' = [frame_pinned EXCEPT ![f] = TRUE]
               /\ pinned_pages' = pinned_pages \cup {p}
               /\ pin_used' = pin_used + 1
          ELSE /\ frame_pinned' = [frame_pinned EXCEPT ![f] = FALSE]
               /\ UNCHANGED <<pinned_pages, pin_used>>
  BY DEF PromoteMiss
<1>1. ~Mapped(p) /\ UNCHANGED frame_filling /\ TypeOK
  BY DEF PromoteMiss, WindowInv
<1>2. frame_pinned' \in [Frames -> BOOLEAN]
      /\ \A g \in Frames \ {f} : frame_pinned'[g] = frame_pinned[g]
  BY <1>1 DEF TypeOK
<1>3. /\ f \in Evictable
      /\ map' \in [Pages -> Frames \cup {NoFrame}]
      /\ frame_key' \in [Frames -> Pages \cup {FreeKey}]
      /\ arena' \in [Frames -> Pages \cup {Garbage}]
      /\ clock_hand' \in Frames
      /\ map'[p] = f /\ frame_key'[f] = p
      /\ \A q \in Pages \ {p} : map'[q] = IF map[q] = f THEN NoFrame ELSE map[q]
      /\ \A g \in Frames \ {f} : frame_key'[g] = frame_key[g] /\ arena'[g] = arena[g]
      /\ MapAgrees' /\ BytesRight' /\ FillsIsolated'
  BY <1>1, <1>2, PlaceAgrees
<1>4. SoftOK(soft') /\ SoftFrames(soft') = SoftFrames(soft) \ {f}
  BY <1>3, EvictSoft, ClearSoft DEF Evictable
<1>5. SoftAccounts'
  BY <1>1, <1>3, <1>4 DEF SoftAccounts, SoftOK, SoftFrames, WindowInv
<1>6. PinAccounts'
  <2>1. CASE pin /\ pin_used + 1 <= PinCap
    <3>1. PinnedFrames' = PinnedFrames \cup {f} /\ f \notin PinnedFrames
      BY <1>1, <1>3, <2>1 DEF PinnedFrames, TypeOK, Evictable
    <3>2. Cardinality(PinnedFrames') = Cardinality(PinnedFrames) + 1
      <4>1. IsFiniteSet(PinnedFrames)
        BY FramesFinite DEF PinnedFrames
      <4> QED BY <3>1, <4>1, FS_AddElement
    <3>3. \A q \in pinned_pages : q \in Pages \ {p} /\ map[q] # f /\ map[q] \in PinnedFrames
      BY <1>1, <3>1 DEF WindowInv, TypeOK, PinAccounts, Mapped, PinnedFrames, NoFrame
    <3>4. \A q \in pinned_pages' : Mapped(q)' /\ frame_pinned'[map'[q]]
      BY <1>3, <2>1, <3>1, <3>3 DEF Mapped, PinnedFrames, NoFrame, Frames
    <3>5. \A g \in PinnedFrames' : frame_key'[g] \in pinned_pages'
      BY <1>3, <2>1, <3>1 DEF WindowInv, PinAccounts, PinnedFrames
    <3> QED BY <2>1, <3>2, <3>4, <3>5 DEF PinAccounts, WindowInv
  <2>2. CASE ~(pin /\ pin_used + 1 <= PinCap)
    BY <1>1, <2>2, PlaceUnpinned
  <2> QED BY <2>1, <2>2
<1>7. TypeOK'
  BY <1>1, <1>2, <1>3, <1>4 DEF TypeOK, SoftOK, ReadRecord
<1>8. ReadsRight' /\ FillsBounded' /\ Mapped(p)'
  BY <1>3 DEF WindowInv, ReadsRight, FillsBounded, Mapped, NoFrame, Frames
<1> QED BY <1>3, <1>5, <1>6, <1>7, <1>8 DEF Consistent

\* Pinning a page keeps the invariant.
LEMMA PinStep ==
  ASSUME Headroom, WindowInv, UNCHANGED direct, NEW p \in Pages, Pin(p)
  PROVE  WindowInv'
<1>1. rd' = rd /\ rd = Idle /\ rd' \in ReadRecord
  BY DEF Pin, Free, WindowInv, TypeOK, ReadRecord
<1>2. Consistent'
  BY <1>1, PromoteHitStep, PromoteMissStep DEF Pin
<1> QED BY <1>1, <1>2 DEF Consistent, WindowInv, ReadInProgress

\* Promoting the next page of a ranged read keeps the invariant.
LEMMA ReadPromotesStep ==
  ASSUME Headroom, WindowInv, UNCHANGED direct, ReadPromotes
  PROVE  WindowInv'
<1>1. /\ rd.phase = "promote" /\ rd.at \in Pages /\ rd.at = rd.first /\ rd.at = rd.last
      /\ rd \in ReadRecord
  BY DEF ReadPromotes, WindowInv, ReadInProgress, Idle, TypeOK, ReadRecord
<1>2. rd' = [rd EXCEPT !.phase = "copy", !.at = rd.first]
  BY <1>1 DEF ReadPromotes
<1>3. rd' \in ReadRecord /\ rd'.phase = "copy" /\ rd'.at = rd.at /\ rd'.last = rd.at
  BY <1>1, <1>2 DEF ReadRecord
<1>4. Consistent' /\ Mapped(rd.at)'
  BY <1>1, <1>3, PromoteHitStep, PromoteMissStep DEF ReadPromotes
<1>5. ReadInProgress'
  <2>1. rd.at \in Int
    <3>1. Pages \subseteq Int
      BY WindowConstants
    <3> QED BY <1>1, <3>1
  <2>2. \A q \in rd'.at .. rd'.last : q = rd.at
    BY <2>1, <1>3
  <2> QED BY <1>1, <1>3, <1>4, <2>1, <2>2 DEF ReadInProgress, Mapped
<1> QED BY <1>4, <1>5 DEF Consistent, WindowInv

-----------------------------------------------------------------------------
(* Installation of host pages and soft pins on resident ones.              *)

\* Soft-pinning resident pages changes only the soft-pin record.
LEMMA SoftPinStep ==
  ASSUME Headroom, WindowInv, UNCHANGED direct, NEW p \in Pages, NEW ttl \in Ttl, Mapped(p),
         soft' = set_soft_ttl(soft, map[p], ttl, frame_pinned),
         UNCHANGED <<map, frame_key, frame_pinned, frame_filling, pinned_pages, pin_used,
                     clock_hand, arena, fills, rd, copied>>
  PROVE  WindowInv'
<1>1. SoftOK(soft) /\ map[p] \in Frames /\ frame_key[map[p]] = p /\ ~frame_filling[map[p]]
  BY DEF WindowInv, SoftAccounts, SoftOK, TypeOK, Mapped, MapAgrees
<1>2. SoftOK(soft') /\ SoftFrames(soft') \subseteq SoftFrames(soft) \cup {map[p]}
  BY <1>1, SetSoft
<1>3. p # FreeKey
  BY WindowConstants DEF FreeKey
<1>4. SoftAccounts'
  BY <1>1, <1>2, <1>3 DEF SoftAccounts, SoftOK, WindowInv
<1>5. TypeOK'
  BY <1>2 DEF TypeOK, WindowInv, SoftOK
<1>6. MapAgrees' /\ BytesRight' /\ FillsIsolated' /\ ReadsRight' /\ FillsBounded'
  BY DEF WindowInv, MapAgrees, BytesRight, FillsIsolated, ReadsRight, FillsBounded, Mapped
<1>7. PinAccounts' /\ ReadInProgress'
  BY DEF WindowInv, PinAccounts, PinnedFrames, ReadInProgress, Mapped
<1> QED BY <1>4, <1>5, <1>6, <1>7 DEF WindowInv

\* Installing an absent page without a pin, whatever soft pins go with it, as
\* long as those are on frames that hold a committed page afterwards.
LEMMA PlaceStep ==
  ASSUME Headroom, WindowInv, UNCHANGED direct, NEW p \in Pages, ~Mapped(p), NEW f \in Frames, Place(p, f, p),
         frame_pinned' = [frame_pinned EXCEPT ![f] = FALSE],
         SoftOK(soft'),
         \A g \in SoftFrames(soft') : \/ g \in SoftFrames(soft) \ {f}
                                      \/ \E q \in Pages : map'[q] = g,
         UNCHANGED <<frame_filling, pinned_pages, pin_used, fills, rd, copied>>, rd = Idle
  PROVE  WindowInv'
<1>1. PinAccounts' /\ frame_pinned' = frame_pinned
  BY PlaceUnpinned
<1>2. /\ map' \in [Pages -> Frames \cup {NoFrame}]
      /\ frame_key' \in [Frames -> Pages \cup {FreeKey}]
      /\ arena' \in [Frames -> Pages \cup {Garbage}]
      /\ clock_hand' \in Frames
      /\ \A g \in Frames \ {f} : frame_key'[g] = frame_key[g]
      /\ MapAgrees' /\ BytesRight' /\ FillsIsolated'
  <2>1. frame_pinned' \in [Frames -> BOOLEAN]
    BY <1>1 DEF WindowInv, TypeOK
  <2>2. UNCHANGED <<frame_filling, fills>> /\ \A g \in Frames \ {f} : frame_pinned'[g] = frame_pinned[g]
    BY <1>1
  <2>3. /\ map' \in [Pages -> Frames \cup {NoFrame}]
        /\ frame_key' \in [Frames -> Pages \cup {FreeKey}]
        /\ arena' \in [Frames -> Pages \cup {Garbage}]
        /\ clock_hand' \in Frames
        /\ \A g \in Frames \ {f} : frame_key'[g] = frame_key[g] /\ arena'[g] = arena[g]
        /\ MapAgrees' /\ BytesRight' /\ FillsIsolated'
    BY <2>1, <2>2, PlaceAgrees
  <2> QED BY <2>3
<1>3. TypeOK'
  BY <1>1, <1>2 DEF TypeOK, WindowInv, SoftOK
<1>4. SoftAccounts'
  <2>1. ASSUME NEW g \in SoftFrames(soft') PROVE frame_key'[g] # FreeKey /\ ~frame_filling'[g]
    <3>1. g \in Frames
      BY DEF SoftFrames
    <3>2. CASE g \in SoftFrames(soft) \ {f}
      BY <1>2, <3>1, <3>2 DEF SoftAccounts, WindowInv
    <3>3. CASE \E q \in Pages : map'[q] = g
      <4> PICK q \in Pages : map'[q] = g
        BY <3>3
      <4>1. Mapped(q)' /\ q # FreeKey
        BY <3>1, WindowConstants DEF Mapped, Frames, NoFrame, FreeKey
      <4> QED BY <1>2, <4>1 DEF MapAgrees
    <3> QED BY <3>2, <3>3
  <2> QED BY <2>1 DEF SoftAccounts, SoftOK
<1>5. ReadsRight' /\ FillsBounded' /\ ReadInProgress'
  BY DEF WindowInv, ReadsRight, FillsBounded, ReadInProgress
<1> QED BY <1>1, <1>2, <1>3, <1>4, <1>5 DEF WindowInv

\* Installing a page that is not resident keeps the invariant.
LEMMA InstallMissStep ==
  ASSUME Headroom, WindowInv, UNCHANGED direct, NEW p \in Pages, NEW ttl \in Ttl, InstallMiss(p, ttl)
  PROVE  WindowInv'
<1> PICK f \in Frames :
       /\ Place(p, f, p)
       /\ frame_pinned' = [frame_pinned EXCEPT ![f] = FALSE]
       /\ soft' = InstalledSoft(p, f, ttl, map', frame_pinned')
  BY DEF InstallMiss
<1>1. rd = Idle /\ ~Mapped(p) /\ UNCHANGED <<frame_filling, pinned_pages, pin_used, fills, rd, copied>>
  BY DEF InstallMiss, Free
<1>2. f \in Evictable
  BY VictimEvictable DEF Place
<1>3. map' \in [Pages -> Frames \cup {NoFrame}] /\ map'[p] = f
  BY <1>1, PlaceAgrees, PlaceUnpinned DEF WindowInv, TypeOK
<1> DEFINE cleared == clear_soft_ttl(EvictedSoft(f), f)
           own     == set_soft_ttl(cleared, f, ttl, frame_pinned')
           prev    == IF SoftPinNeighbors /\ p - 1 \in Pages /\ map'[p - 1] # NoFrame
                      THEN set_soft_ttl(own, map'[p - 1], ttl, frame_pinned') ELSE own
           onMap(s) == SoftOK(s) /\ \A g \in SoftFrames(s) : \/ g \in SoftFrames(soft) \ {f}
                                                            \/ \E q \in Pages : map'[q] = g
<1>4. ASSUME NEW s, onMap(s), NEW q \in Pages, map'[q] # NoFrame
      PROVE  onMap(set_soft_ttl(s, map'[q], ttl, frame_pinned'))
  <2>1. map'[q] \in Frames
    BY <1>3, <1>4
  <2>2. /\ SoftOK(set_soft_ttl(s, map'[q], ttl, frame_pinned'))
        /\ SoftFrames(set_soft_ttl(s, map'[q], ttl, frame_pinned')) \subseteq SoftFrames(s) \cup {map'[q]}
    BY <1>4, <2>1, SetSoft
  <2> QED BY <1>4, <2>2
<1>5. onMap(cleared)
  BY <1>2, EvictSoft, ClearSoft
<1>6. onMap(own)
  <2>1. map'[p] # NoFrame
    BY <1>3 DEF NoFrame, Frames
  <2> HIDE DEF cleared, onMap
  <2> QED BY <1>3, <1>4, <1>5, <2>1
<1>7. onMap(prev)
  <2> HIDE DEF own, onMap
  <2> QED BY <1>4, <1>6
<1>8. onMap(soft')
  <2>1. soft' = IF SoftPinNeighbors /\ p + 1 \in Pages /\ map'[p + 1] # NoFrame
                THEN set_soft_ttl(prev, map'[p + 1], ttl, frame_pinned') ELSE prev
    BY DEF InstalledSoft
  <2> HIDE DEF prev, onMap
  <2> QED BY <1>4, <1>7, <2>1
<1> QED BY <1>1, <1>8, PlaceStep

\* Promoting a span keeps the invariant.
LEMMA PromoteSpanStep ==
  ASSUME Headroom, WindowInv, UNCHANGED direct, NEW p \in Pages, PromoteSpan(p)
  PROVE  WindowInv'
<1> PICK f \in Frames :
       /\ Place(p, f, p)
       /\ frame_pinned' = [frame_pinned EXCEPT ![f] = FALSE]
       /\ soft' = EvictedSoft(f)
  BY DEF PromoteSpan
<1>1. f \in Evictable
  BY VictimEvictable DEF Place
<1> QED BY <1>1, EvictSoft, PlaceStep DEF PromoteSpan, Free

\* Installing a page handed over by the host keeps the invariant.
LEMMA InstallHostStep ==
  ASSUME Headroom, WindowInv, UNCHANGED direct, NEW p \in Pages, NEW whole \in HostCovers, InstallHost(p, whole)
  PROVE  WindowInv'
<1>1. whole = TRUE /\ rd = Idle
      /\ UNCHANGED <<frame_filling, pinned_pages, pin_used, fills, rd, copied>>
  BY DEF InstallHost, Free, Headroom, WholePages
<1>2. CASE Mapped(p)
  <2>1. UNCHANGED <<map, frame_key, frame_pinned, soft, clock_hand>>
        /\ arena' = [arena EXCEPT ![map[p]] = p]
    BY <1>1, <1>2 DEF InstallHost
  <2>2. arena' = arena
    BY <1>2, <2>1 DEF WindowInv, BytesRight, TypeOK, Mapped
  <2>3. TypeOK'
    BY <1>1, <2>1, <2>2 DEF WindowInv, TypeOK
  <2>6. MapAgrees' /\ BytesRight' /\ FillsIsolated'
    BY <1>1, <2>1, <2>2 DEF WindowInv, MapAgrees, BytesRight, FillsIsolated, Mapped
  <2>4. PinAccounts' /\ SoftAccounts'
    BY <1>1, <2>1, <2>2 DEF WindowInv, PinAccounts, PinnedFrames, SoftAccounts, Mapped
  <2>5. ReadsRight' /\ ReadInProgress' /\ FillsBounded'
    BY <1>1 DEF WindowInv, ReadsRight, ReadInProgress, FillsBounded
  <2> QED BY <2>3, <2>4, <2>5, <2>6 DEF WindowInv
<1>3. CASE ~Mapped(p)
  <2> PICK f \in Frames :
         /\ Place(p, f, p)
         /\ frame_pinned' = [frame_pinned EXCEPT ![f] = FALSE]
         /\ soft' = EvictedSoft(f)
    BY <1>1, <1>3 DEF InstallHost
  <2>1. f \in Evictable
    BY VictimEvictable DEF Place
  <2> QED BY <1>1, <1>3, <2>1, EvictSoft, PlaceStep
<1> QED BY <1>2, <1>3

-----------------------------------------------------------------------------
(* Fills.                                                                  *)

\* Reserving a frame for a fill keeps the invariant.
LEMMA ReserveFillStep ==
  ASSUME Headroom, WindowInv, UNCHANGED direct, NEW p \in Pages, reserve_fill(p)
  PROVE  WindowInv'
<1> PICK f \in Frames :
       /\ Victim(f)
       /\ frame_filling' = [frame_filling EXCEPT ![f] = TRUE]
       /\ frame_key' = [frame_key EXCEPT ![f] = p]
       /\ map' = EvictedMap(f)
       /\ soft' = EvictedSoft(f)
       /\ clock_hand' = EvictedHand(f)
       /\ arena' = [arena EXCEPT ![f] = Garbage]
       /\ fills' = fills \cup {[page |-> p, frame |-> f, landed |-> FALSE]}
  BY DEF reserve_fill
<1> DEFINE x0 == [page |-> p, frame |-> f, landed |-> FALSE]
<1>1. /\ rd = Idle /\ ~Mapped(p) /\ Cardinality(fills) < MaxFills
      /\ UNCHANGED <<frame_pinned, pinned_pages, pin_used, rd, copied>>
  BY DEF reserve_fill, Free
<1>2. f \in Evictable /\ ~frame_filling[f] /\ ~frame_pinned[f] /\ TypeOK
      /\ NoFrame \notin Frames /\ FreeKey \notin Pages
  BY VictimEvictable, WindowConstants DEF Evictable, WindowInv, NoFrame, Frames, FreeKey
<1>3. /\ map' \in [Pages -> Frames \cup {NoFrame}]
      /\ \A q \in Pages : map'[q] = IF map[q] = f THEN NoFrame ELSE map[q]
  <2>1. CASE frame_key[f] = FreeKey
    <3>1. \A q \in Pages : map[q] # f
      BY <2>1, <1>2 DEF WindowInv, MapAgrees, Mapped, TypeOK
    <3> QED BY <2>1, <3>1, <1>2 DEF EvictedMap, TypeOK
  <2>2. CASE frame_key[f] # FreeKey
    <3>1. \A q \in Pages : map[q] = f <=> q = frame_key[f]
      BY <2>2, <1>2 DEF WindowInv, MapAgrees, Mapped, TypeOK
    <3>2. frame_key[f] \in Pages
      BY <2>2, <1>2 DEF TypeOK
    <3> QED BY <2>2, <3>1, <3>2, <1>2 DEF EvictedMap, TypeOK
  <2> QED BY <2>1, <2>2
<1>4. /\ frame_key' \in [Frames -> Pages \cup {FreeKey}] /\ frame_key'[f] = p
      /\ arena' \in [Frames -> Pages \cup {Garbage}]
      /\ \A g \in Frames \ {f} : frame_key'[g] = frame_key[g] /\ arena'[g] = arena[g]
  BY <1>2 DEF TypeOK
<1>5. /\ frame_filling' \in [Frames -> BOOLEAN] /\ frame_filling'[f]
      /\ \A g \in Frames \ {f} : frame_filling'[g] = frame_filling[g]
  BY <1>2 DEF TypeOK
<1>6. clock_hand' \in Frames
  BY <1>2, WindowConstants DEF EvictedHand, NextHand, Frames
<1>7. x0 \in FillOf /\ x0.frame = f /\ x0.page = p /\ ~x0.landed
  BY DEF FillOf
<1>8. \A x \in fills : x.frame \in Frames /\ x.frame # f
  BY <1>2 DEF TypeOK, FillOf, WindowInv, FillsIsolated
<1>9. SoftOK(soft') /\ SoftFrames(soft') = SoftFrames(soft) \ {f}
  BY <1>2, EvictSoft
<1>10. TypeOK'
  <2>1. fills' \subseteq FillOf
    BY <1>2, <1>7 DEF TypeOK
  <2> QED BY <1>1, <1>2, <1>3, <1>4, <1>5, <1>6, <1>9, <2>1 DEF TypeOK, SoftOK
<1>11. MapAgrees'
  BY <1>2, <1>3, <1>4, <1>5 DEF WindowInv, MapAgrees, Mapped, TypeOK
<1>12. BytesRight'
  BY <1>2, <1>3, <1>4 DEF WindowInv, BytesRight, Mapped, TypeOK
<1>13. FillsIsolated'
  <2>1. ASSUME NEW x \in fills'
        PROVE  /\ frame_filling'[x.frame] /\ ~frame_pinned'[x.frame]
               /\ frame_key'[x.frame] = x.page
               /\ x.landed => arena'[x.frame] = x.page
    BY <1>1, <1>2, <1>4, <1>5, <1>7, <1>8 DEF WindowInv, FillsIsolated
  <2>2. ASSUME NEW x \in fills', NEW y \in fills', x.frame = y.frame PROVE x = y
    BY <1>7, <1>8, <2>2 DEF WindowInv, FillsIsolated
  <2>3. ASSUME NEW g \in Frames, frame_filling'[g] PROVE \E x \in fills' : x.frame = g
    BY <1>5, <1>7, <2>3 DEF WindowInv, FillsIsolated
  <2> QED BY <2>1, <2>2, <2>3 DEF FillsIsolated
<1>14. PinAccounts'
  <2>1. PinnedFrames' = PinnedFrames /\ f \notin PinnedFrames
    BY <1>1, <1>2 DEF PinnedFrames
  <2>2. \A q \in pinned_pages : q \in Pages /\ map[q] # f /\ map'[q] = map[q]
    BY <1>2, <1>3 DEF WindowInv, TypeOK, PinAccounts
  <2> QED BY <1>1, <1>4, <2>1, <2>2 DEF WindowInv, PinAccounts, Mapped, PinnedFrames
<1>15. SoftAccounts'
  BY <1>4, <1>5, <1>9 DEF WindowInv, SoftAccounts, SoftOK, SoftFrames
<1>16. FillsBounded'
  <2>1. IsFiniteSet(fills') /\ Cardinality(fills') <= Cardinality(fills) + 1
        /\ Cardinality(fills) \in Nat /\ Cardinality(fills') \in Nat
    BY AddOne DEF WindowInv, FillsBounded
  <2> QED BY <1>1, <2>1, WindowConstants DEF FillsBounded
<1>17. ReadsRight' /\ ReadInProgress'
  BY <1>1 DEF WindowInv, ReadsRight, ReadInProgress
<1> QED BY <1>10, <1>11, <1>12, <1>13, <1>14, <1>15, <1>16, <1>17 DEF WindowInv

\* The device's write only touches the frame its fill owns, so it may even
\* run while a read holds the mutex.
LEMMA FillLandsStep ==
  ASSUME Headroom, WindowInv, UNCHANGED direct, NEW x \in fills, FillLands(x)
  PROVE  WindowInv'
<1> DEFINE y0 == [x EXCEPT !.landed = TRUE]
<1>1. /\ arena' = [arena EXCEPT ![x.frame] = x.page]
      /\ fills' = (fills \ {x}) \cup {y0}
      /\ UNCHANGED <<map, frame_key, frame_pinned, frame_filling, soft, pinned_pages,
                     pin_used, clock_hand, rd, copied>>
  BY DEF FillLands
<1>2. x \in FillOf /\ TypeOK
  BY DEF WindowInv, TypeOK
<1>3. y0 \in FillOf /\ y0.frame = x.frame /\ y0.page = x.page /\ x.frame \in Frames /\ x.page \in Pages
  BY <1>2 DEF FillOf
<1>4. /\ arena' \in [Frames -> Pages \cup {Garbage}] /\ arena'[x.frame] = x.page
      /\ \A g \in Frames \ {x.frame} : arena'[g] = arena[g]
  BY <1>1, <1>2, <1>3 DEF TypeOK
<1>5. TypeOK'
  <2>1. fills' \subseteq FillOf
    BY <1>1, <1>2, <1>3 DEF TypeOK
  <2> QED BY <1>1, <1>2, <1>4, <2>1 DEF TypeOK
<1>6. MapAgrees' /\ SoftAccounts' /\ ReadsRight'
  BY <1>1 DEF WindowInv, MapAgrees, SoftAccounts, ReadsRight, Mapped
<1>7. BytesRight'
  <2>1. \A q \in Pages : Mapped(q) => map[q] # x.frame /\ map[q] \in Frames
    BY <1>2 DEF WindowInv, FillsIsolated, MapAgrees, TypeOK, Mapped
  <2> QED BY <1>1, <1>4, <2>1 DEF WindowInv, BytesRight, Mapped
<1>8. FillsIsolated'
  <2>1. \A z \in fills : z.frame = x.frame => z = x
    BY DEF WindowInv, FillsIsolated
  <2>2. ASSUME NEW z \in fills'
        PROVE  /\ frame_filling'[z.frame] /\ ~frame_pinned'[z.frame]
               /\ frame_key'[z.frame] = z.page
               /\ z.landed => arena'[z.frame] = z.page
    <3>1. CASE z = y0
      BY <1>1, <1>3, <1>4, <3>1 DEF WindowInv, FillsIsolated
    <3>2. CASE z \in fills \ {x}
      <4>1. z.frame \in Frames /\ z.frame # x.frame
        BY <1>2, <2>1, <3>2 DEF TypeOK, FillOf
      <4> QED BY <1>1, <1>4, <3>2, <4>1 DEF WindowInv, FillsIsolated
    <3> QED BY <1>1, <3>1, <3>2
  <2>3. ASSUME NEW z \in fills', NEW w \in fills', z.frame = w.frame PROVE z = w
    BY <1>1, <1>3, <2>1, <2>3 DEF WindowInv, FillsIsolated
  <2>4. ASSUME NEW g \in Frames, frame_filling'[g] PROVE \E z \in fills' : z.frame = g
    <3> PICK z \in fills : z.frame = g
      BY <1>1, <2>4 DEF WindowInv, FillsIsolated
    <3>1. CASE z = x
      BY <1>1, <1>3, <3>1
    <3>2. CASE z # x
      BY <1>1, <3>2
    <3> QED BY <3>1, <3>2
  <2> QED BY <2>2, <2>3, <2>4 DEF FillsIsolated
<1>9. PinAccounts' /\ ReadInProgress'
  BY <1>1 DEF WindowInv, PinAccounts, PinnedFrames, ReadInProgress, Mapped
<1>10. FillsBounded'
  <2>1. IsFiniteSet(fills \ {x}) /\ Cardinality(fills \ {x}) = Cardinality(fills) - 1
        /\ Cardinality(fills) \in Nat
    BY FS_RemoveElement, FS_CardinalityType DEF WindowInv, FillsBounded
  <2>2. /\ IsFiniteSet(fills') /\ Cardinality(fills') <= Cardinality(fills \ {x}) + 1
        /\ Cardinality(fills') \in Nat
    BY <1>1, <2>1, AddOne
  <2> QED BY <2>1, <2>2, WindowConstants DEF WindowInv, FillsBounded
<1> QED BY <1>5, <1>6, <1>7, <1>8, <1>9, <1>10 DEF WindowInv

\* A fill that ends leaves the other fills as they were.
LEMMA FewerFills ==
  ASSUME Headroom, WindowInv, UNCHANGED direct, NEW x \in fills, fills' = fills \ {x}
  PROVE  FillsBounded' /\ fills' \subseteq FillOf
<1>1. IsFiniteSet(fills \ {x}) /\ Cardinality(fills \ {x}) = Cardinality(fills) - 1
      /\ Cardinality(fills) \in Nat
  BY FS_RemoveElement, FS_CardinalityType DEF WindowInv, FillsBounded
<1> QED BY <1>1, WindowConstants DEF WindowInv, FillsBounded, TypeOK

\* Committing a fill keeps the invariant.
LEMMA CommitFillStep ==
  ASSUME Headroom, WindowInv, UNCHANGED direct, NEW x \in fills, NEW ttl \in Ttl, commit_fill(x, ttl)
  PROVE  WindowInv'
<1>1. /\ rd = Idle /\ x.landed /\ fills' = fills \ {x}
      /\ UNCHANGED <<frame_pinned, pinned_pages, pin_used, clock_hand, arena, rd, copied>>
  BY DEF commit_fill, Free
<1>2. /\ TypeOK /\ x \in FillOf /\ x.frame \in Frames /\ x.page \in Pages
      /\ frame_filling[x.frame] /\ ~frame_pinned[x.frame] /\ frame_key[x.frame] = x.page
      /\ arena[x.frame] = x.page
      /\ NoFrame \notin Frames /\ FreeKey \notin Pages
  BY <1>1, WindowConstants DEF WindowInv, TypeOK, FillOf, FillsIsolated, NoFrame, Frames, FreeKey
<1>3. /\ frame_filling' = [frame_filling EXCEPT ![x.frame] = FALSE]
      /\ IF Mapped(x.page)
         THEN /\ frame_key' = [frame_key EXCEPT ![x.frame] = FreeKey]
              /\ UNCHANGED <<map, soft>>
         ELSE /\ frame_key' = [frame_key EXCEPT ![x.frame] = x.page]
              /\ map' = [map EXCEPT ![x.page] = x.frame]
              /\ soft' = set_soft_ttl(soft, x.frame, ttl, frame_pinned)
  BY <1>2 DEF commit_fill
<1>4. /\ frame_filling' \in [Frames -> BOOLEAN] /\ ~frame_filling'[x.frame]
      /\ \A g \in Frames \ {x.frame} : frame_filling'[g] = frame_filling[g]
      /\ frame_key' \in [Frames -> Pages \cup {FreeKey}]
      /\ \A g \in Frames \ {x.frame} : frame_key'[g] = frame_key[g]
  BY <1>2, <1>3 DEF TypeOK
<1>5. /\ \A q \in Pages : map[q] # x.frame
      /\ \A z \in fills' : z \in fills /\ z.frame \in Frames /\ z.frame # x.frame
  BY <1>1, <1>2 DEF WindowInv, MapAgrees, FillsIsolated, TypeOK, FillOf, Mapped
<1>6. FillsIsolated'
  <2>1. ASSUME NEW g \in Frames, frame_filling'[g] PROVE \E z \in fills' : z.frame = g
    <3>1. g # x.frame /\ frame_filling[g]
      BY <1>4, <2>1
    <3> QED BY <1>1, <3>1 DEF WindowInv, FillsIsolated
  <2> QED BY <1>1, <1>4, <1>5, <2>1 DEF WindowInv, FillsIsolated
<1>7. FillsBounded' /\ fills' \subseteq FillOf
  BY <1>1, FewerFills
<1>8. ReadsRight' /\ ReadInProgress'
  BY <1>1 DEF WindowInv, ReadsRight, ReadInProgress
<1>9. SoftOK(soft) /\ x.frame \notin SoftFrames(soft)
  BY <1>2 DEF WindowInv, SoftAccounts, SoftOK, TypeOK
<1>10. x.frame \notin PinnedFrames /\ PinnedFrames' = PinnedFrames
  BY <1>1, <1>2 DEF PinnedFrames
<1>11. CASE Mapped(x.page)
  <2>1. UNCHANGED <<map, soft>> /\ frame_key'[x.frame] = FreeKey
    BY <1>2, <1>3, <1>11 DEF TypeOK
  <2>2. TypeOK'
    BY <1>1, <1>2, <1>4, <1>7, <2>1 DEF TypeOK
  <2>3. MapAgrees'
    BY <1>2, <1>4, <1>5, <2>1 DEF WindowInv, MapAgrees, Mapped, TypeOK
  <2>4. BytesRight'
    BY <1>1, <2>1 DEF WindowInv, BytesRight, Mapped
  <2>5. PinAccounts'
    BY <1>1, <1>4, <1>10, <2>1 DEF WindowInv, PinAccounts, PinnedFrames, Mapped
  <2>6. SoftAccounts'
    BY <1>4, <1>9, <2>1 DEF WindowInv, SoftAccounts, SoftFrames
  <2> QED BY <1>6, <1>7, <1>8, <2>2, <2>3, <2>4, <2>5, <2>6 DEF WindowInv
<1>12. CASE ~Mapped(x.page)
  <2>1. /\ map' \in [Pages -> Frames \cup {NoFrame}] /\ map'[x.page] = x.frame
        /\ \A q \in Pages \ {x.page} : map'[q] = map[q]
        /\ frame_key'[x.frame] = x.page
    BY <1>2, <1>3, <1>12 DEF TypeOK
  <2>2. SoftOK(soft') /\ SoftFrames(soft') \subseteq SoftFrames(soft) \cup {x.frame}
    BY <1>2, <1>3, <1>9, <1>12, SetSoft
  <2>3. TypeOK'
    BY <1>1, <1>2, <1>4, <1>7, <2>1, <2>2 DEF TypeOK, SoftOK
  <2>4. MapAgrees'
    <3>1. ASSUME NEW q \in Pages, map'[q] # NoFrame
          PROVE  frame_key'[map'[q]] = q /\ ~frame_filling'[map'[q]]
      <4>1. CASE q = x.page
        BY <1>4, <2>1, <4>1
      <4>2. CASE q # x.page
        <5>1. map'[q] = map[q] /\ map[q] \in Frames \ {x.frame}
          BY <1>2, <1>5, <2>1, <3>1, <4>2 DEF TypeOK
        <5> QED BY <1>4, <3>1, <5>1 DEF WindowInv, MapAgrees, Mapped
      <4> QED BY <4>1, <4>2
    <3>2. ASSUME NEW g \in Frames, frame_key'[g] # FreeKey, ~frame_filling'[g]
          PROVE  map'[frame_key'[g]] = g
      <4>1. CASE g = x.frame
        BY <2>1, <4>1
      <4>2. CASE g # x.frame
        <5>1. /\ frame_key'[g] = frame_key[g] /\ map[frame_key[g]] = g
              /\ frame_key[g] \in Pages /\ frame_key[g] # x.page
          BY <1>2, <1>4, <1>12, <3>2, <4>2 DEF WindowInv, MapAgrees, Mapped, TypeOK
        <5> QED BY <2>1, <5>1
      <4> QED BY <4>1, <4>2
    <3> QED BY <3>1, <3>2 DEF MapAgrees, Mapped
  <2>5. BytesRight'
    BY <1>1, <1>2, <2>1 DEF WindowInv, BytesRight, Mapped
  <2>6. PinAccounts'
    <3>1. \A q \in pinned_pages : q \in Pages \ {x.page}
      BY <1>2, <1>12 DEF WindowInv, PinAccounts, TypeOK
    <3> QED BY <1>1, <1>4, <1>10, <2>1, <3>1 DEF WindowInv, PinAccounts, PinnedFrames, Mapped
  <2>7. SoftAccounts'
    <3>1. ASSUME NEW g \in SoftFrames(soft') PROVE frame_key'[g] # FreeKey /\ ~frame_filling'[g]
      <4>1. CASE g = x.frame
        BY <1>2, <1>4, <2>1, <4>1
      <4>2. CASE g # x.frame
        <5>1. g \in SoftFrames(soft) /\ g \in Frames
          BY <2>2, <4>2 DEF SoftFrames
        <5> QED BY <1>4, <4>2, <5>1 DEF WindowInv, SoftAccounts
      <4> QED BY <4>1, <4>2
    <3> QED BY <2>2, <3>1 DEF SoftAccounts, SoftOK
  <2> QED BY <1>6, <1>7, <1>8, <2>3, <2>4, <2>5, <2>6, <2>7 DEF WindowInv
<1> QED BY <1>11, <1>12

\* Giving a reserved frame back keeps the invariant.
LEMMA AbortFillStep ==
  ASSUME Headroom, WindowInv, UNCHANGED direct, NEW x \in fills, abort_fill(x)
  PROVE  WindowInv'
<1>1. /\ rd = Idle /\ fills' = fills \ {x}
      /\ UNCHANGED <<map, frame_pinned, soft, pinned_pages, pin_used, clock_hand, arena, rd, copied>>
  BY DEF abort_fill, Free
<1>2. /\ TypeOK /\ x \in FillOf /\ x.frame \in Frames /\ x.page \in Pages
      /\ frame_filling[x.frame] /\ ~frame_pinned[x.frame] /\ frame_key[x.frame] = x.page
      /\ NoFrame \notin Frames /\ FreeKey \notin Pages
  BY WindowConstants DEF WindowInv, TypeOK, FillOf, FillsIsolated, NoFrame, Frames, FreeKey
<1>3. /\ frame_filling' = [frame_filling EXCEPT ![x.frame] = FALSE]
      /\ frame_key' = [frame_key EXCEPT ![x.frame] = FreeKey]
  BY <1>2 DEF abort_fill
<1>4. /\ frame_filling' \in [Frames -> BOOLEAN] /\ ~frame_filling'[x.frame]
      /\ \A g \in Frames \ {x.frame} : frame_filling'[g] = frame_filling[g]
      /\ frame_key' \in [Frames -> Pages \cup {FreeKey}] /\ frame_key'[x.frame] = FreeKey
      /\ \A g \in Frames \ {x.frame} : frame_key'[g] = frame_key[g]
  BY <1>2, <1>3 DEF TypeOK
<1>5. /\ \A q \in Pages : map[q] # x.frame
      /\ \A z \in fills' : z \in fills /\ z.frame \in Frames /\ z.frame # x.frame
  BY <1>1, <1>2 DEF WindowInv, MapAgrees, FillsIsolated, TypeOK, FillOf, Mapped
<1>6. FillsIsolated'
  <2>1. ASSUME NEW g \in Frames, frame_filling'[g] PROVE \E z \in fills' : z.frame = g
    <3>1. g # x.frame /\ frame_filling[g]
      BY <1>4, <2>1
    <3> QED BY <1>1, <3>1 DEF WindowInv, FillsIsolated
  <2> QED BY <1>1, <1>4, <1>5, <2>1 DEF WindowInv, FillsIsolated
<1>7. FillsBounded' /\ fills' \subseteq FillOf
  BY <1>1, FewerFills
<1>8. ReadsRight' /\ ReadInProgress' /\ BytesRight'
  BY <1>1 DEF WindowInv, ReadsRight, ReadInProgress, BytesRight, Mapped
<1>9. TypeOK'
  BY <1>1, <1>2, <1>4, <1>7 DEF TypeOK
<1>10. MapAgrees'
  BY <1>1, <1>2, <1>4, <1>5 DEF WindowInv, MapAgrees, Mapped, TypeOK
<1>11. PinAccounts'
  <2>1. x.frame \notin PinnedFrames /\ PinnedFrames' = PinnedFrames
    BY <1>1, <1>2 DEF PinnedFrames
  <2> QED BY <1>1, <1>4, <2>1 DEF WindowInv, PinAccounts, PinnedFrames, Mapped
<1>12. SoftAccounts'
  <2>1. x.frame \notin SoftFrames(soft)
    BY <1>2 DEF WindowInv, SoftAccounts
  <2> QED BY <1>1, <1>4, <2>1 DEF WindowInv, SoftAccounts, SoftFrames
<1> QED BY <1>6, <1>7, <1>8, <1>9, <1>10, <1>11, <1>12 DEF WindowInv

-----------------------------------------------------------------------------
(* Ranged reads.                                                           *)

\* Starting a promoting read keeps the invariant.
LEMMA BeginReadStep ==
  ASSUME Headroom, WindowInv, UNCHANGED direct, NEW r \in PromoteRanges, BeginPromotingRead(r)
  PROVE  WindowInv'
<1>1. rd' = [phase |-> "promote", at |-> r[1], first |-> r[1], last |-> r[2]]
      /\ UNCHANGED <<map, frame_key, frame_pinned, frame_filling, soft, pinned_pages,
                     pin_used, clock_hand, arena, fills, copied>>
  BY DEF BeginPromotingRead
<1>2. r[1] \in Pages /\ r[2] = r[1]
  BY WindowConstants DEF Headroom, OnePageReads
<1>3. ReadInProgress' /\ rd' \in ReadRecord
  BY <1>1, <1>2 DEF ReadInProgress, ReadRecord
<1>4. TypeOK'
  BY <1>1, <1>3 DEF WindowInv, TypeOK, ReadRecord
<1>5. MapAgrees' /\ BytesRight' /\ FillsIsolated' /\ SoftAccounts' /\ ReadsRight' /\ FillsBounded'
  BY <1>1 DEF WindowInv, MapAgrees, BytesRight, FillsIsolated, SoftAccounts, ReadsRight, FillsBounded, Mapped
<1>6. PinAccounts'
  BY <1>1 DEF WindowInv, PinAccounts, PinnedFrames, Mapped
<1> QED BY <1>3, <1>4, <1>5, <1>6 DEF WindowInv

\* Copying resident pages out keeps the invariant.
LEMMA TryCopyStep ==
  ASSUME Headroom, WindowInv, UNCHANGED direct, NEW r \in CopyRanges, try_copy_resident(r)
  PROVE  WindowInv'
<1>1. /\ rd' = [phase |-> "copy", at |-> r[1], first |-> r[1], last |-> r[2]]
      /\ \A p \in r[1]..r[2] : Mapped(p)
      /\ UNCHANGED <<map, frame_key, frame_pinned, frame_filling, soft, pinned_pages,
                     pin_used, clock_hand, arena, fills, copied>>
  BY DEF try_copy_resident
<1>2. r[1] \in Pages /\ r[2] \in Pages /\ r[1] <= r[2]
  BY WindowConstants
<1>3. ReadInProgress' /\ rd' \in ReadRecord
  BY <1>1, <1>2 DEF ReadInProgress, ReadRecord, Mapped
<1>4. TypeOK'
  BY <1>1, <1>3 DEF WindowInv, TypeOK, ReadRecord
<1>5. MapAgrees' /\ BytesRight' /\ FillsIsolated' /\ SoftAccounts' /\ ReadsRight' /\ FillsBounded'
  BY <1>1 DEF WindowInv, MapAgrees, BytesRight, FillsIsolated, SoftAccounts, ReadsRight, FillsBounded, Mapped
<1>6. PinAccounts'
  BY <1>1 DEF WindowInv, PinAccounts, PinnedFrames, Mapped
<1> QED BY <1>3, <1>4, <1>5, <1>6 DEF WindowInv

\* A copy step reads a page that is still resident, so what it gets is what
\* it wanted and the map is not touched.
LEMMA ReadCopiesStep ==
  ASSUME Headroom, WindowInv, UNCHANGED direct, ReadCopies
  PROVE  /\ WindowInv' /\ map' = map
         /\ Mapped(rd.at) /\ copied' = [want |-> rd.at, got |-> rd.at]
<1>1. /\ rd.phase = "copy" /\ rd.at \in Pages /\ rd.last \in Pages /\ rd.at <= rd.last
      /\ \A p \in rd.at .. rd.last : Mapped(p)
  BY DEF ReadCopies, WindowInv, ReadInProgress, Idle
<1>2. rd.at \in Int /\ rd.last \in Int /\ Mapped(rd.at)
  <2>1. Pages \subseteq Int
    BY WindowConstants
  <2>2. rd.at \in Int /\ rd.last \in Int
    BY <1>1, <2>1
  <2>3. rd.at \in rd.at .. rd.last
    BY <1>1, <2>2
  <2> QED BY <1>1, <2>2, <2>3
<1>3. /\ map' = map /\ copied' = [want |-> rd.at, got |-> arena[map[rd.at]]]
      /\ rd' = IF rd.at = rd.last THEN Idle ELSE [rd EXCEPT !.at = rd.at + 1]
      /\ UNCHANGED <<frame_key, frame_pinned, frame_filling, soft, pinned_pages, pin_used,
                     clock_hand, arena, fills>>
  BY <1>2 DEF ReadCopies
<1>4. copied' = [want |-> rd.at, got |-> rd.at]
  BY <1>1, <1>2, <1>3 DEF WindowInv, BytesRight
<1>5. ReadsRight'
  BY <1>4 DEF ReadsRight
<1>6. ReadInProgress' /\ rd' \in ReadRecord
  <2>1. CASE rd.at = rd.last
    BY <1>3, <2>1 DEF ReadInProgress, Idle, ReadRecord
  <2>2. CASE rd.at # rd.last
    <3>1. rd \in ReadRecord
      BY DEF WindowInv, TypeOK, ReadRecord
    <3>2. rd.at + 1 \in rd.at .. rd.last
      BY <1>1, <1>2, <2>2
    <3>3. rd.at + 1 \in Pages
      BY <1>1, <3>2 DEF Mapped
    <3>4. /\ rd' \in ReadRecord /\ rd'.phase = "copy" /\ rd'.at = rd.at + 1 /\ rd'.last = rd.last
      BY <1>1, <1>3, <2>2, <3>1, <3>3 DEF ReadRecord
    <3>5. \A p \in rd'.at .. rd'.last : p \in rd.at .. rd.last
      BY <1>2, <3>4
    <3> QED BY <1>1, <1>2, <1>3, <3>2, <3>3, <3>4, <3>5 DEF ReadInProgress, Mapped
  <2> QED BY <2>1, <2>2
<1>7. TypeOK'
  BY <1>1, <1>3, <1>4, <1>6 DEF WindowInv, TypeOK, ReadRecord
<1>8. MapAgrees' /\ BytesRight' /\ FillsIsolated' /\ SoftAccounts' /\ FillsBounded'
  BY <1>3 DEF WindowInv, MapAgrees, BytesRight, FillsIsolated, SoftAccounts, FillsBounded, Mapped
<1>9. PinAccounts'
  BY <1>3 DEF WindowInv, PinAccounts, PinnedFrames, Mapped
<1> QED BY <1>2, <1>3, <1>4, <1>5, <1>6, <1>7, <1>8, <1>9 DEF WindowInv

-----------------------------------------------------------------------------
(* Flushing and ageing.                                                    *)

\* Removing a part of a finite set takes its size off the whole.
LEMMA DropSome ==
  ASSUME NEW S, IsFiniteSet(S), NEW T \in SUBSET S
  PROVE  /\ Cardinality(S \ T) = Cardinality(S) - Cardinality(T)
         /\ Cardinality(T) <= Cardinality(S)
         /\ Cardinality(S) \in Nat /\ Cardinality(T) \in Nat /\ Cardinality(S \ T) \in Nat
<1>1. IsFiniteSet(T) /\ IsFiniteSet(S \ T) /\ Cardinality(T) <= Cardinality(S)
  BY FS_Subset
<1>2. Cardinality(S) \in Nat /\ Cardinality(T) \in Nat /\ Cardinality(S \ T) \in Nat
  BY <1>1, FS_CardinalityType
<1>3. Cardinality((S \ T) \cup T)
        = Cardinality(S \ T) + Cardinality(T) - Cardinality((S \ T) \cap T)
  BY <1>1, FS_Union
<1>4. (S \ T) \cup T = S /\ (S \ T) \cap T = {}
  OBVIOUS
<1> QED BY <1>1, <1>2, <1>3, <1>4, FS_EmptySet

\* Un-pinning a set of soft-pinned frames and giving back its size.
LEMMA SoftDrop ==
  ASSUME SoftOK(soft), NEW D \in SUBSET SoftFrames(soft), NEW s \in SoftRecord,
         SoftFrames(s) = SoftFrames(soft) \ D,
         s.used = LessBy(soft.used, Cardinality(D))
  PROVE  SoftOK(s)
<1>1. IsFiniteSet(SoftFrames(soft))
  BY FramesFinite DEF SoftFrames
<1>2. /\ Cardinality(SoftFrames(s)) = Cardinality(SoftFrames(soft)) - Cardinality(D)
      /\ Cardinality(D) <= Cardinality(SoftFrames(soft))
      /\ Cardinality(SoftFrames(soft)) \in Nat /\ Cardinality(D) \in Nat
  BY <1>1, DropSome
<1> QED BY <1>2, WindowConstants DEF SoftOK, LessBy

\* flush keeps the invariant and exactly the hard-pinned pages.
LEMMA FlushStep ==
  ASSUME Headroom, WindowInv, UNCHANGED direct, flush
  PROVE  WindowInv' /\ \A p \in Pages : map'[p] = IF p \in pinned_pages THEN map[p] ELSE NoFrame
<1> DEFINE dropped == {f \in Frames \ Kept : soft.ttl[f] > 0}
<1>1. /\ rd = Idle
      /\ map' = [p \in Pages |->
                   IF \E f \in Frames \ Kept : frame_key[f] = p THEN NoFrame ELSE map[p]]
      /\ frame_key' = [f \in Frames |-> IF f \in Kept THEN frame_key[f] ELSE FreeKey]
      /\ soft' = [ttl    |-> [f \in Frames |-> IF f \in dropped THEN 0 ELSE soft.ttl[f]],
                  used   |-> LessBy(soft.used, Cardinality(dropped)),
                  listed |-> [f \in Frames |-> 0]]
      /\ clock_hand' = 0
      /\ UNCHANGED <<frame_pinned, frame_filling, pinned_pages, pin_used, arena, fills, rd, copied>>
  BY DEF flush, Free
<1>2. TypeOK /\ SoftOK(soft) /\ NoFrame \notin Frames /\ FreeKey \notin Pages /\ 0 \in Ttl
  BY WindowConstants DEF WindowInv, SoftAccounts, SoftOK, TypeOK, NoFrame, Frames, FreeKey, Ttl
<1>3. \A p \in Pages : map'[p] = IF p \in pinned_pages THEN map[p] ELSE NoFrame
  <2> TAKE p \in Pages
  <2>1. CASE p \in pinned_pages
    <3>1. map[p] \in Frames /\ frame_pinned[map[p]] /\ ~frame_filling[map[p]]
      BY <1>2, <2>1 DEF WindowInv, PinAccounts, Mapped, TypeOK, MapAgrees
    <3>2. \A f \in Frames \ Kept : frame_key[f] # p
      BY <1>2, <3>1 DEF WindowInv, MapAgrees, Kept
    <3> QED BY <1>1, <2>1, <3>2
  <2>2. CASE p \notin pinned_pages /\ map[p] = NoFrame
    BY <1>1, <2>2
  <2>3. CASE p \notin pinned_pages /\ map[p] # NoFrame
    <3>1. /\ map[p] \in Frames /\ frame_key[map[p]] = p /\ ~frame_filling[map[p]]
          /\ map[p] \notin PinnedFrames
      BY <1>2, <2>3 DEF WindowInv, MapAgrees, Mapped, TypeOK, PinAccounts
    <3> QED BY <1>1, <2>3, <3>1 DEF Kept, PinnedFrames
  <2> QED BY <2>1, <2>2, <2>3
<1>4. soft' \in SoftRecord /\ SoftFrames(soft') = SoftFrames(soft) \ dropped
      /\ dropped \in SUBSET SoftFrames(soft)
  <2>1. Cardinality(dropped) \in Nat
    BY FramesFinite
  <2>2. soft.used \in Nat /\ soft.ttl \in [Frames -> Ttl]
    BY <1>2 DEF SoftOK, SoftRecord
  <2>3. LessBy(soft.used, Cardinality(dropped)) \in Nat
    BY <2>1, <2>2 DEF LessBy
  <2>4. soft' \in SoftRecord
    BY <1>1, <1>2, <2>2, <2>3 DEF SoftRecord
  <2> QED BY <1>1, <2>2, <2>4 DEF SoftFrames
<1>5. SoftOK(soft')
  BY <1>1, <1>2, <1>4, SoftDrop
<1>6. TypeOK'
  <2>1. clock_hand' \in Frames
    BY <1>1, WindowConstants DEF Frames
  <2>2. map' \in [Pages -> Frames \cup {NoFrame}] /\ frame_key' \in [Frames -> Pages \cup {FreeKey}]
    BY <1>1, <1>2 DEF TypeOK
  <2> QED BY <1>1, <1>2, <1>4, <2>1, <2>2 DEF TypeOK
<1>7. \A f \in Frames : f \in Kept => frame_key'[f] = frame_key[f]
  BY <1>1
<1>8. MapAgrees'
  <2>1. ASSUME NEW p \in Pages, map'[p] # NoFrame
        PROVE  frame_key'[map'[p]] = p /\ ~frame_filling'[map'[p]]
    <3>1. p \in pinned_pages /\ map'[p] = map[p] /\ Mapped(p)
      BY <1>3, <2>1 DEF Mapped
    <3>2. map[p] \in Frames /\ map[p] \in Kept
      BY <1>2, <3>1 DEF WindowInv, PinAccounts, Kept, Mapped, TypeOK
    <3> QED BY <1>1, <1>7, <3>1, <3>2 DEF WindowInv, MapAgrees
  <2>2. ASSUME NEW f \in Frames, frame_key'[f] # FreeKey, ~frame_filling'[f]
        PROVE  map'[frame_key'[f]] = f
    <3>1. f \in Kept /\ frame_key'[f] = frame_key[f] /\ ~frame_filling[f]
      BY <1>1, <2>2
    <3>2. frame_pinned[f] /\ frame_key[f] \in pinned_pages /\ map[frame_key[f]] = f
      BY <2>2, <3>1 DEF Kept, WindowInv, PinAccounts, PinnedFrames, MapAgrees
    <3>3. frame_key[f] \in Pages
      BY <1>2, <3>2 DEF TypeOK
    <3> QED BY <1>3, <3>1, <3>2, <3>3
  <2> QED BY <2>1, <2>2 DEF MapAgrees, Mapped
<1>9. BytesRight'
  BY <1>1, <1>3 DEF WindowInv, BytesRight, Mapped
<1>10. FillsIsolated'
  <2>1. \A x \in fills : x.frame \in Kept /\ x.frame \in Frames
    BY <1>2 DEF WindowInv, FillsIsolated, Kept, TypeOK, FillOf
  <2> QED BY <1>1, <1>7, <2>1 DEF WindowInv, FillsIsolated
<1>11. PinAccounts'
  <2>1. PinnedFrames' = PinnedFrames /\ PinnedFrames \subseteq Kept
    BY <1>1 DEF PinnedFrames, Kept
  <2>2. \A p \in pinned_pages : p \in Pages /\ map'[p] = map[p]
    BY <1>2, <1>3 DEF TypeOK
  <2> QED BY <1>1, <1>7, <2>1, <2>2 DEF WindowInv, PinAccounts, PinnedFrames, Mapped
<1>12. SoftAccounts'
  <2>1. \A f \in SoftFrames(soft') : f \in SoftFrames(soft) /\ f \in Kept
    BY <1>4 DEF SoftFrames
  <2> QED BY <1>1, <1>5, <1>7, <2>1 DEF WindowInv, SoftAccounts, SoftOK, SoftFrames
<1>13. ReadsRight' /\ ReadInProgress' /\ FillsBounded'
  BY <1>1 DEF WindowInv, ReadsRight, ReadInProgress, FillsBounded
<1> QED BY <1>3, <1>6, <1>8, <1>9, <1>10, <1>11, <1>12, <1>13 DEF WindowInv

\* flush_all keeps the invariant.
LEMMA FlushAllStep ==
  ASSUME Headroom, WindowInv, UNCHANGED direct, flush_all
  PROVE  WindowInv'
<1>1. /\ rd = Idle /\ fills = {}
      /\ map' = [p \in Pages |-> NoFrame]
      /\ frame_key' = [f \in Frames |-> FreeKey]
      /\ frame_pinned' = [f \in Frames |-> FALSE]
      /\ frame_filling' = [f \in Frames |-> FALSE]
      /\ soft' = [ttl |-> [f \in Frames |-> 0], used |-> 0, listed |-> [f \in Frames |-> 0]]
      /\ pinned_pages' = {} /\ pin_used' = 0 /\ clock_hand' = 0
      /\ UNCHANGED <<arena, fills, rd, copied>>
  BY DEF flush_all, Free
<1>2. PinnedFrames' = {} /\ SoftFrames(soft') = {}
  BY <1>1 DEF PinnedFrames, SoftFrames
<1>3. Cardinality({}) = 0
  BY FS_EmptySet
<1>4. soft' \in SoftRecord
  BY <1>1, WindowConstants DEF SoftRecord, Ttl
<1>5. TypeOK'
  <2>1. clock_hand' \in Frames
    BY <1>1, WindowConstants DEF Frames
  <2> QED BY <1>1, <1>4, <2>1 DEF WindowInv, TypeOK
<1>6. MapAgrees' /\ BytesRight' /\ FillsIsolated'
  BY <1>1 DEF MapAgrees, BytesRight, FillsIsolated, Mapped
<1>7. PinAccounts' /\ SoftAccounts'
  <2>1. pin_used' = Cardinality(PinnedFrames') /\ pin_used' <= PinCap
    BY <1>1, <1>2, <1>3, WindowConstants
  <2>2. soft'.used = Cardinality(SoftFrames(soft')) /\ soft'.used <= SoftCap
    BY <1>1, <1>2, <1>3, WindowConstants, SMTT(30)
  <2>3. PinAccounts'
    BY <1>1, <1>2, <2>1 DEF PinAccounts
  <2>4. SoftAccounts'
    BY <1>2, <2>2 DEF SoftAccounts
  <2> QED BY <2>3, <2>4
<1>8. ReadsRight' /\ ReadInProgress' /\ FillsBounded'
  BY <1>1 DEF WindowInv, ReadsRight, ReadInProgress, FillsBounded
<1> QED BY <1>5, <1>6, <1>7, <1>8 DEF WindowInv

\* Ageing the soft pins keeps the invariant.
LEMMA TickStep ==
  ASSUME Headroom, WindowInv, UNCHANGED direct, tick_soft_pins
  PROVE  WindowInv'
<1> DEFINE spent == {f \in Frames : soft.ttl[f] > 0 /\ soft.listed[f] >= soft.ttl[f]}
<1>1. /\ soft' = [ttl    |-> [f \in Frames |-> LessBy(soft.ttl[f], soft.listed[f])],
                  used   |-> LessBy(soft.used, Cardinality(spent)),
                  listed |-> [f \in Frames |->
                                CASE soft.ttl[f] = 0 -> 0
                                  [] f \in spent -> soft.ttl[f] - 1
                                  [] OTHER -> soft.listed[f]]]
      /\ UNCHANGED <<map, frame_key, frame_pinned, frame_filling, pinned_pages, pin_used,
                     clock_hand, arena, fills, rd, copied>>
  BY DEF tick_soft_pins
<1>2. SoftOK(soft)
  BY DEF WindowInv, SoftAccounts, SoftOK, TypeOK
<1>3. /\ soft.used \in Nat /\ \A f \in Frames : soft.ttl[f] \in Nat /\ soft.ttl[f] <= MaxTtl
      /\ \A f \in Frames : soft.listed[f] \in Nat
  BY <1>2, WindowConstants DEF SoftOK, SoftRecord, Ttl
<1>4. soft' \in SoftRecord
  <2>1. Cardinality(spent) \in Nat
    BY FramesFinite
  <2>2. LessBy(soft.used, Cardinality(spent)) \in Nat
    BY <1>3, <2>1 DEF LessBy
  <2>3. \A f \in Frames : LessBy(soft.ttl[f], soft.listed[f]) \in Ttl
    BY <1>3, WindowConstants DEF LessBy, Ttl
  <2>4. \A f \in Frames : soft'.listed[f] \in Nat
    BY <1>1, <1>3
  <2> QED BY <1>1, <2>2, <2>3, <2>4 DEF SoftRecord
<1>5. SoftFrames(soft') = SoftFrames(soft) \ spent /\ spent \in SUBSET SoftFrames(soft)
  BY <1>1, <1>3 DEF SoftFrames, LessBy
<1>6. SoftOK(soft')
  BY <1>1, <1>2, <1>4, <1>5, SoftDrop
<1>7. SoftAccounts'
  BY <1>1, <1>5, <1>6 DEF WindowInv, SoftAccounts, SoftOK
<1>8. TypeOK'
  BY <1>1, <1>4 DEF WindowInv, TypeOK
<1>9. MapAgrees' /\ BytesRight' /\ FillsIsolated' /\ ReadsRight' /\ FillsBounded'
  BY <1>1 DEF WindowInv, MapAgrees, BytesRight, FillsIsolated, ReadsRight, FillsBounded, Mapped
<1>10. PinAccounts' /\ ReadInProgress'
  BY <1>1 DEF WindowInv, PinAccounts, PinnedFrames, ReadInProgress, Mapped
<1> QED BY <1>7, <1>8, <1>9, <1>10 DEF WindowInv

-----------------------------------------------------------------------------
(* The theorems.                                                           *)

\* init leaves an empty, consistent window.
LEMMA InitEstablishes == Init => WindowInv
<1> SUFFICES ASSUME Init PROVE WindowInv
  OBVIOUS
<1> USE DEF Init
<1>1. soft \in SoftRecord
  BY WindowConstants DEF SoftRecord, Ttl
<1>2. TypeOK
  <2>1. clock_hand \in Frames
    BY WindowConstants DEF Frames
  <2>2. rd \in ReadRecord /\ copied \in [want : Pages \cup {NoPage}, got : Pages \cup {Garbage}]
    BY DEF ReadRecord, Idle, NoPage, Garbage
  <2> QED BY <1>1, <2>1, <2>2 DEF TypeOK, ReadRecord
<1>3. MapAgrees /\ BytesRight /\ FillsIsolated /\ ReadsRight /\ ReadInProgress
  BY DEF MapAgrees, BytesRight, FillsIsolated, ReadsRight, ReadInProgress, Mapped
<1>4. PinnedFrames = {} /\ SoftFrames(soft) = {}
  BY DEF PinnedFrames, SoftFrames
<1>5. PinAccounts /\ SoftAccounts /\ FillsBounded
  <2>1. Cardinality({}) = 0 /\ IsFiniteSet({})
    BY FS_EmptySet
  <2>2. soft.used = 0 /\ 0 <= SoftCap /\ 0 <= PinCap /\ 0 <= MaxFills
    BY WindowConstants
  <2> QED BY <1>4, <2>1, <2>2 DEF PinAccounts, SoftAccounts, FillsBounded
<1> QED BY <1>2, <1>3, <1>5 DEF WindowInv

\* Every operation of the window preserves the invariant.
LEMMA NextPreserves ==
  ASSUME Headroom
  PROVE  WindowInv /\ [Next]_vars => WindowInv'
<1> SUFFICES ASSUME WindowInv, [Next]_vars PROVE WindowInv'
  OBVIOUS
<1> UNCHANGED direct
  BY DEF Next, vars
<1>1. ASSUME NEW p \in Pages, Pin(p) \/ PromoteSpan(p) \/ reserve_fill(p) PROVE WindowInv'
  BY <1>1, PinStep, PromoteSpanStep, ReserveFillStep
<1>2. ASSUME NEW p \in Pages, NEW t \in Ttl,
             InstallHit(p, t) \/ InstallMiss(p, t) \/ touch_soft_pin(p, t)
      PROVE  WindowInv'
  <2>1. CASE InstallHit(p, t)
    BY <2>1, SoftPinStep DEF InstallHit
  <2>2. CASE InstallMiss(p, t)
    BY <2>2, InstallMissStep
  <2>3. CASE touch_soft_pin(p, t)
    BY <2>3, SoftPinStep DEF touch_soft_pin
  <2> QED BY <1>2, <2>1, <2>2, <2>3
<1>3. ASSUME NEW p \in Pages, NEW w \in HostCovers, InstallHost(p, w) PROVE WindowInv'
  BY <1>3, InstallHostStep
<1>4. ASSUME NEW x \in fills, FillLands(x) \/ abort_fill(x) \/ \E t \in Ttl : commit_fill(x, t)
      PROVE  WindowInv'
  BY <1>4, FillLandsStep, AbortFillStep, CommitFillStep
<1>5. ASSUME NEW r \in PromoteRanges, BeginPromotingRead(r) PROVE WindowInv'
  BY <1>5, BeginReadStep
<1>6. ASSUME NEW r \in CopyRanges, try_copy_resident(r) PROVE WindowInv'
  BY <1>6, TryCopyStep
<1>7. CASE ReadPromotes
  BY <1>7, ReadPromotesStep
<1>8. CASE ReadCopies
  BY <1>8, ReadCopiesStep
<1>9. CASE flush
  BY <1>9, FlushStep
<1>10. CASE flush_all
  BY <1>10, FlushAllStep
<1>11. CASE tick_soft_pins
  BY <1>11, TickStep
<1>12. CASE UNCHANGED vars
  <2>1. TypeOK' /\ MapAgrees' /\ BytesRight' /\ FillsIsolated'
    BY <1>12 DEF vars, WindowInv, TypeOK, MapAgrees, BytesRight, FillsIsolated, Mapped
  <2>2. PinAccounts' /\ SoftAccounts' /\ ReadsRight' /\ ReadInProgress' /\ FillsBounded'
    BY <1>12 DEF vars, WindowInv, PinAccounts, PinnedFrames, SoftAccounts, ReadsRight,
                 ReadInProgress, FillsBounded, Mapped
  <2> QED BY <2>1, <2>2 DEF WindowInv
<1> QED
  BY <1>1, <1>2, <1>3, <1>4, <1>5, <1>6, <1>7, <1>8, <1>9, <1>10, <1>11, <1>12 DEF Next, Steps

\* Pinned pages stay pinned and where they are.
PinsStay == \A p \in pinned_pages : p \in pinned_pages' /\ map'[p] = map[p]

\* A placement moves only a page whose frame is not pinned.
LEMMA PlaceKeepsPins ==
  ASSUME Headroom, WindowInv, UNCHANGED direct, NEW p \in Pages, ~Mapped(p), NEW f \in Frames, Place(p, f, p),
         UNCHANGED <<frame_filling, fills>>,
         frame_pinned' \in [Frames -> BOOLEAN],
         \A g \in Frames \ {f} : frame_pinned'[g] = frame_pinned[g],
         pinned_pages \subseteq pinned_pages'
  PROVE  PinsStay
<1>1. f \in Evictable /\ \A q \in Pages \ {p} : map'[q] = IF map[q] = f THEN NoFrame ELSE map[q]
  BY PlaceAgrees
<1>2. \A q \in pinned_pages : q \in Pages \ {p} /\ map[q] # f
  BY <1>1 DEF WindowInv, TypeOK, PinAccounts, Evictable
<1> QED BY <1>1, <1>2 DEF PinsStay

\* Short of flush_all no operation unpins or moves a pinned page.
LEMMA StepKeepsPins ==
  ASSUME Headroom, WindowInv, UNCHANGED direct, Next, ~flush_all
  PROVE  PinsStay
<1>0. TypeOK
  BY DEF WindowInv
<1>1. ASSUME NEW p \in Pages, NEW pin \in BOOLEAN, PromoteMiss(p, pin), UNCHANGED fills
      PROVE  PinsStay
  <2> PICK f \in Frames :
       /\ Place(p, f, p)
       /\ IF pin /\ pin_used + 1 <= PinCap
          THEN /\ frame_pinned' = [frame_pinned EXCEPT ![f] = TRUE]
               /\ pinned_pages' = pinned_pages \cup {p}
          ELSE /\ frame_pinned' = [frame_pinned EXCEPT ![f] = FALSE]
               /\ UNCHANGED pinned_pages
    BY <1>1 DEF PromoteMiss
  <2>1. /\ frame_pinned' \in [Frames -> BOOLEAN]
        /\ \A g \in Frames \ {f} : frame_pinned'[g] = frame_pinned[g]
        /\ pinned_pages \subseteq pinned_pages'
    BY <1>0 DEF TypeOK
  <2> QED BY <1>1, <2>1, PlaceKeepsPins DEF PromoteMiss
<1>2. ASSUME NEW p \in Pages, NEW pin \in BOOLEAN, PromoteHit(p, pin)
      PROVE  PinsStay
  BY <1>2 DEF PromoteHit, PinsStay
<1>3. ASSUME NEW p \in Pages, ~Mapped(p), NEW f \in Frames, Place(p, f, p),
             frame_pinned' = [frame_pinned EXCEPT ![f] = FALSE],
             UNCHANGED <<frame_filling, fills, pinned_pages>>
      PROVE  PinsStay
  <2>1. /\ frame_pinned' \in [Frames -> BOOLEAN]
        /\ \A g \in Frames \ {f} : frame_pinned'[g] = frame_pinned[g]
    BY <1>0, <1>3 DEF TypeOK
  <2> QED BY <1>3, <2>1, PlaceKeepsPins
<1>4. ASSUME NEW p \in Pages, Pin(p) PROVE PinsStay
  BY <1>1, <1>2, <1>4 DEF Pin
<1>5. ASSUME NEW p \in Pages, PromoteSpan(p) PROVE PinsStay
  BY <1>3, <1>5 DEF PromoteSpan
<1>6. ASSUME NEW p \in Pages, reserve_fill(p) PROVE PinsStay
  <2> PICK f \in Frames : Victim(f) /\ map' = EvictedMap(f)
    BY <1>6 DEF reserve_fill
  <2>1. f \in Evictable
    BY VictimEvictable
  <2>2. \A q \in pinned_pages : q \in Pages /\ q # frame_key[f]
    <3>1. FreeKey \notin Pages
      BY WindowConstants DEF FreeKey
    <3>2. f \in Frames /\ ~frame_pinned[f] /\ ~frame_filling[f]
      BY <2>1 DEF Evictable
    <3> QED BY <1>0, <3>1, <3>2 DEF WindowInv, TypeOK, PinAccounts, MapAgrees
  <2> QED BY <1>0, <1>6, <2>2 DEF reserve_fill, EvictedMap, PinsStay, TypeOK
<1>7. ASSUME NEW p \in Pages, NEW t \in Ttl,
             InstallHit(p, t) \/ InstallMiss(p, t) \/ touch_soft_pin(p, t)
      PROVE  PinsStay
  <2>1. CASE InstallMiss(p, t)
    BY <1>3, <2>1 DEF InstallMiss
  <2> QED BY <1>7, <2>1 DEF InstallHit, touch_soft_pin, PinsStay
<1>8. ASSUME NEW p \in Pages, NEW w \in HostCovers, InstallHost(p, w) PROVE PinsStay
  <2>1. w = TRUE
    BY DEF Headroom, WholePages
  <2>2. CASE Mapped(p)
    BY <1>8, <2>2 DEF InstallHost, PinsStay
  <2>3. CASE ~Mapped(p)
    BY <1>3, <1>8, <2>1, <2>3 DEF InstallHost
  <2> QED BY <2>2, <2>3
<1>9. ASSUME NEW x \in fills, FillLands(x) \/ abort_fill(x) PROVE PinsStay
  BY <1>9 DEF FillLands, abort_fill, PinsStay
<1>10. ASSUME NEW x \in fills, NEW t \in Ttl, commit_fill(x, t) PROVE PinsStay
  <2>1. map' = map \/ (~Mapped(x.page) /\ map' = [map EXCEPT ![x.page] = x.frame])
    BY <1>10 DEF commit_fill
  <2>2. \A q \in pinned_pages : Mapped(q) /\ q \in Pages
    BY <1>0 DEF WindowInv, PinAccounts, TypeOK
  <2>3. pinned_pages' = pinned_pages
    BY <1>10 DEF commit_fill
  <2> QED BY <1>0, <2>1, <2>2, <2>3 DEF PinsStay, TypeOK
<1>11. ASSUME NEW r, BeginPromotingRead(r) \/ try_copy_resident(r) PROVE PinsStay
  BY <1>11 DEF BeginPromotingRead, try_copy_resident, PinsStay
<1>12. CASE ReadPromotes
  <2>1. rd.at \in Pages
    BY <1>12 DEF ReadPromotes, WindowInv, ReadInProgress, Idle
  <2> QED BY <1>1, <1>2, <1>12, <2>1 DEF ReadPromotes
<1>13. CASE ReadCopies
  <2>1. map' = map /\ pinned_pages' = pinned_pages
    BY <1>13, ReadCopiesStep DEF ReadCopies
  <2> QED BY <2>1 DEF PinsStay
<1>14. CASE flush
  <2>1. pinned_pages' = pinned_pages /\ pinned_pages \subseteq Pages
    BY <1>0, <1>14 DEF flush, TypeOK
  <2> QED BY <1>14, <2>1, FlushStep DEF PinsStay
<1>15. CASE tick_soft_pins
  BY <1>15 DEF tick_soft_pins, PinsStay
<1> QED
  BY <1>4, <1>5, <1>6, <1>7, <1>8, <1>9, <1>10, <1>11, <1>12, <1>13, <1>14, <1>15 DEF Next, Steps

\* In every reachable state of a window with headroom the whole invariant
\* holds: map and frames agree, hits read the right bytes, fills are isolated,
\* both pin accounts are exact and capped.
THEOREM WindowSafe == Headroom /\ Spec => []WindowInv
<1> SUFFICES ASSUME Headroom PROVE Spec => []WindowInv
  OBVIOUS
<1> QED BY InitEstablishes, NextPreserves, PTL DEF Spec

\* The window's fields keep their types.
THEOREM WindowTypes == Headroom /\ Spec => []TypeOK
<1>1. WindowInv => TypeOK
  BY DEF WindowInv
<1> QED BY <1>1, WindowSafe, PTL

\* A page found in the map is in a frame that holds its bytes, and no frame
\* serves two pages (map, frame_key and arena of dram_window.hpp).
THEOREM WindowAgreement == Headroom /\ Spec => [](MapAgrees /\ BytesRight)
<1>1. WindowInv => MapAgrees /\ BytesRight
  BY DEF WindowInv
<1> QED BY <1>1, WindowSafe, PTL

\* The bytes a locked read returns are those of the page asked for, although
\* device writes of fills interleave with it.
THEOREM WindowReads == Headroom /\ Spec => []ReadsRight
<1>1. WindowInv => ReadsRight
  BY DEF WindowInv
<1> QED BY <1>1, WindowSafe, PTL

\* The hard-pin and soft-pin byte counts are exact and within their caps.
THEOREM WindowAccounts == Headroom /\ Spec => [](PinAccounts /\ SoftAccounts)
<1>1. WindowInv => PinAccounts /\ SoftAccounts
  BY DEF WindowInv
<1> QED BY <1>1, WindowSafe, PTL

\* A device write never lands in a frame that serves reads.
THEOREM WindowFills == Headroom /\ Spec => []FillsIsolated
<1>1. WindowInv => FillsIsolated
  BY DEF WindowInv
<1> QED BY <1>1, WindowSafe, PTL

\* "1 = never evict (hard pin)" (frame_pinned in dram_window.hpp): with
\* headroom, only flush_all ever unmaps, moves or overwrites a pinned page.
THEOREM WindowPinsHold == Headroom /\ Spec => PinsHold
<1> SUFFICES ASSUME Headroom PROVE Spec => PinsHold
  OBVIOUS
<1>1. ASSUME WindowInv, WindowInv', [Next]_vars
      PROVE  [flush_all \/ \A p \in pinned_pages : p \in pinned_pages' /\ map'[p] = map[p]
                                                 /\ arena'[map[p]] = p]_vars
  <2>1. CASE UNCHANGED vars
    BY <2>1
  <2>2. CASE flush_all
    BY <2>2
  <2>3. CASE Next /\ ~flush_all
    <3>0. UNCHANGED direct
      BY <2>3 DEF Next
    <3>1. PinsStay
      BY <1>1, <2>3, <3>0, StepKeepsPins
    <3>2. \A p \in pinned_pages : p \in pinned_pages' /\ map'[p] = map[p] /\ p \in Pages
      BY <1>1, <3>1 DEF PinsStay, WindowInv, TypeOK
    <3>3. \A p \in pinned_pages : arena'[map'[p]] = p
      BY <1>1, <3>2 DEF WindowInv, BytesRight, PinAccounts
    <3> QED BY <3>2, <3>3
  <2> QED BY <1>1, <2>1, <2>2, <2>3
<1> QED BY <1>1, WindowSafe, PTL DEF Spec, PinsHold

\* soft_pin_bytes_used is the size of the frames with a positive ttl and
\* respects its cap (set_soft_ttl, clear_soft_ttl and the ticks).
THEOREM WindowSoftAccounts == Headroom /\ Spec => []SoftAccounts
<1>1. WindowInv => SoftAccounts
  BY DEF WindowInv
<1> QED BY <1>1, WindowSafe, PTL

-----------------------------------------------------------------------------
(* The clock evicts only when no frame is free, unless frames are reserved. *)

\* With a free frame, the clock's choice is the first of them.
LEMMA VictimFree ==
  ASSUME Headroom, WindowInv, FreeAhead, ~direct, NEW f \in Frames, Victim(f),
         NEW e \in Frames, frame_key[e] = FreeKey
  PROVE  frame_key[f] = FreeKey /\ clock_hand <= f /\ f <= e
<1>1. FreeKey \notin Pages /\ fills = {} /\ clock_hand \in Frames /\ soft \in SoftRecord
  BY WindowConstants DEF FreeKey, FreeAhead, WindowInv, TypeOK
<1>2. ~frame_pinned[e] /\ ~frame_filling[e]
  BY <1>1 DEF WindowInv, TypeOK, PinAccounts, PinnedFrames, FillsIsolated
<1>3. soft.ttl[e] = 0
  BY <1>1, WindowConstants DEF WindowInv, SoftAccounts, SoftFrames, SoftRecord, Ttl
<1>4. e \in Unpinned
  BY <1>2, <1>3 DEF Unpinned, Evictable
<1>5. f \in Unpinned /\ ClockDist(f) <= ClockDist(e)
  BY <1>4 DEF Victim, FirstFromHand, Unpinned
<1>6. ~frame_pinned[f]
  BY <1>5 DEF Unpinned, Evictable
<1>7. clock_hand <= e /\ (frame_key[f] # FreeKey => f < clock_hand)
  BY <1>6 DEF FreeAhead
<1>8. f \in Int /\ e \in Int /\ clock_hand \in Int /\ 0 <= f /\ e < NFrames /\ NFrames \in Int
  BY <1>1, WindowConstants DEF Frames
<1>9. frame_key[f] = FreeKey
  <2> SUFFICES ASSUME f < clock_hand PROVE FALSE
    BY <1>7
  <2> QED BY <1>5, <1>7, <1>8 DEF ClockDist
<1>10. clock_hand <= f
  BY <1>9 DEF FreeAhead
<1> QED BY <1>5, <1>7, <1>8, <1>9, <1>10 DEF ClockDist

\* A page placed keeps the free frames ahead of the hand.
LEMMA PlaceFree ==
  ASSUME Headroom, WindowInv, WindowInv', FreeAhead, ~direct, NEW p \in Pages, NEW f \in Frames,
         Place(p, f, p), UNCHANGED <<direct, fills>>,
         \A g \in Frames \ {f} : frame_pinned'[g] = frame_pinned[g]
  PROVE  FreeAhead'
<1>1. /\ frame_key \in [Frames -> Pages \cup {FreeKey}] /\ FreeKey \notin Pages
      /\ clock_hand \in Int /\ Frames \subseteq Int /\ \A e \in Frames : e < NFrames
  BY WindowConstants DEF WindowInv, TypeOK, FreeKey, Frames
<1>2. /\ Victim(f) /\ frame_key' = [frame_key EXCEPT ![f] = p] /\ clock_hand' = EvictedHand(f)
      /\ f \in Evictable
  BY VictimEvictable DEF Place
<1> SUFFICES ASSUME NEW e \in Frames, frame_key'[e] = FreeKey
             PROVE  /\ clock_hand' <= e
                    /\ \A g \in Frames : frame_key'[g] # FreeKey /\ ~frame_pinned'[g]
                         => g < clock_hand'
  BY DEF FreeAhead
<1>3. e # f /\ frame_key[e] = FreeKey
  BY <1>1, <1>2
<1>4. frame_key[f] = FreeKey /\ clock_hand <= f /\ f <= e
  BY <1>2, <1>3, VictimFree
<1>5. clock_hand' = f + 1 /\ f + 1 <= e
  BY <1>1, <1>2, <1>3, <1>4 DEF EvictedHand, NextHand
<1>6. ASSUME NEW g \in Frames, frame_key'[g] # FreeKey, ~frame_pinned'[g] PROVE g < f + 1
  <2>1. CASE g = f
    BY <1>1, <2>1
  <2>2. CASE g # f
    <3>1. frame_key[g] # FreeKey /\ ~frame_pinned[g]
      BY <1>1, <1>2, <1>6, <2>2
    <3>2. g < clock_hand
      BY <1>3, <3>1 DEF FreeAhead
    <3> QED BY <1>1, <1>4, <3>2
  <2> QED BY <2>1, <2>2
<1> QED BY <1>5, <1>6

\* A step that moves neither hand nor keys and unpins nothing.
LEMMA QuietFree ==
  ASSUME FreeAhead, UNCHANGED <<direct, frame_key, clock_hand>>, ~direct => UNCHANGED fills,
         \A g \in Frames : frame_pinned[g] => frame_pinned'[g]
  PROVE  FreeAhead'
BY DEF FreeAhead

\* Every step keeps the free frames ahead of the hand.
LEMMA FreeStays ==
  ASSUME Headroom, WindowInv, WindowInv', FreeAhead, [Next]_vars
  PROVE  FreeAhead'
<1> UNCHANGED direct
  BY DEF Next, vars
<1>0. TypeOK
  BY DEF WindowInv
<1> SUFFICES ASSUME ~direct PROVE FreeAhead'
  BY DEF FreeAhead
<1>e. fills = {}
  BY DEF FreeAhead
<1>1. ASSUME NEW p \in Pages, NEW f \in Frames, Place(p, f, p),
             frame_pinned' = [frame_pinned EXCEPT ![f] = FALSE], UNCHANGED fills
      PROVE  FreeAhead'
  BY <1>0, <1>1, PlaceFree DEF TypeOK
<1>2. ASSUME NEW p \in Pages, NEW pin \in BOOLEAN,
             PromoteHit(p, pin) \/ PromoteMiss(p, pin), UNCHANGED fills
      PROVE  FreeAhead'
  <2>1. CASE PromoteHit(p, pin)
    <3>1. \A g \in Frames : frame_pinned[g] => frame_pinned'[g]
      BY <1>0, <2>1 DEF PromoteHit, TypeOK
    <3> QED BY <1>2, <2>1, <3>1, QuietFree DEF PromoteHit
  <2>2. CASE PromoteMiss(p, pin)
    <3>1. PICK f \in Frames :
            /\ Place(p, f, p)
            /\ \/ frame_pinned' = [frame_pinned EXCEPT ![f] = TRUE]
               \/ frame_pinned' = [frame_pinned EXCEPT ![f] = FALSE]
      BY <2>2 DEF PromoteMiss
    <3>2. \A g \in Frames \ {f} : frame_pinned'[g] = frame_pinned[g]
      BY <1>0, <3>1 DEF TypeOK
    <3> QED BY <1>2, <3>1, <3>2, PlaceFree
  <2> QED BY <1>2, <2>1, <2>2
<1>3. ASSUME UNCHANGED <<frame_key, clock_hand, frame_pinned, fills>> PROVE FreeAhead'
  BY <1>3, QuietFree
<1>4. ASSUME NEW p \in Pages, Pin(p) \/ PromoteSpan(p) \/ reserve_fill(p) PROVE FreeAhead'
  <2>1. CASE Pin(p)
    BY <1>2, <2>1 DEF Pin
  <2>2. CASE PromoteSpan(p)
    BY <1>1, <2>2 DEF PromoteSpan
  <2> QED BY <1>4, <2>1, <2>2 DEF reserve_fill
<1>5. ASSUME NEW p \in Pages, NEW t \in Ttl,
             InstallHit(p, t) \/ InstallMiss(p, t) \/ touch_soft_pin(p, t)
      PROVE  FreeAhead'
  <2>1. CASE InstallMiss(p, t)
    BY <1>1, <2>1 DEF InstallMiss
  <2>2. CASE InstallHit(p, t) \/ touch_soft_pin(p, t)
    BY <1>3, <2>2 DEF InstallHit, touch_soft_pin
  <2> QED BY <1>5, <2>1, <2>2
<1>6. ASSUME NEW p \in Pages, NEW w \in HostCovers, InstallHost(p, w) PROVE FreeAhead'
  <2>1. w = TRUE
    BY DEF Headroom, WholePages
  <2>2. CASE Mapped(p)
    BY <1>3, <1>6, <2>2 DEF InstallHost
  <2>3. CASE ~Mapped(p)
    BY <1>1, <1>6, <2>1, <2>3 DEF InstallHost
  <2> QED BY <2>2, <2>3
<1>7. ASSUME NEW r, BeginPromotingRead(r) \/ try_copy_resident(r) PROVE FreeAhead'
  BY <1>3, <1>7 DEF BeginPromotingRead, try_copy_resident
<1>8. CASE ReadPromotes
  <2>1. rd.at \in Pages
    BY <1>8 DEF ReadPromotes, WindowInv, ReadInProgress, Idle
  <2> QED BY <1>2, <1>8, <2>1 DEF ReadPromotes
<1>9. CASE ReadCopies \/ tick_soft_pins
  BY <1>3, <1>9 DEF ReadCopies, tick_soft_pins
<1>10. CASE flush
  <2>1. \A f \in Frames : frame_key'[f] # FreeKey => frame_pinned'[f]
    BY <1>e, <1>10 DEF flush, Kept, WindowInv, FillsIsolated
  <2>2. clock_hand' = 0 /\ fills' = {} /\ \A f \in Frames : 0 <= f
    BY <1>e, <1>10, WindowConstants DEF flush, Frames
  <2> QED BY <2>1, <2>2 DEF FreeAhead
<1>11. CASE flush_all
  <2>1. \A f \in Frames : frame_key'[f] = FreeKey /\ 0 <= f
    BY <1>11, WindowConstants DEF flush_all, Frames
  <2>2. clock_hand' = 0 /\ fills' = {}
    BY <1>e, <1>11 DEF flush_all
  <2> QED BY <2>1, <2>2 DEF FreeAhead
<1>12. CASE UNCHANGED vars
  BY <1>3, <1>12 DEF vars
<1> QED BY <1>e, <1>4, <1>5, <1>6, <1>7, <1>8, <1>9, <1>10, <1>11, <1>12 DEF Next, Steps

\* Without reserved frames the free frames are always ahead of the clock hand and
\* the evictable ones behind it (evict_frame_unlocked, flush).
THEOREM WindowFreeAhead == Headroom /\ Spec => []FreeAhead
<1> SUFFICES ASSUME Headroom PROVE Spec => []FreeAhead
  OBVIOUS
<1>1. Init => FreeAhead
  BY WindowConstants DEF Init, FreeAhead, Frames
<1>2. WindowInv /\ WindowInv' /\ FreeAhead /\ [Next]_vars => FreeAhead'
  BY FreeStays
<1> QED BY <1>1, <1>2, WindowSafe, PTL DEF Spec

-----------------------------------------------------------------------------
(* The window implements ResidencySet: each operation is one step of the   *)
(* abstract set, or leaves it alone.                                       *)

Resident == {p \in Pages : Mapped(p)}
Bounded == Cardinality({p \in Pages : Mapped(p)}) <= NFrames
Visible == Residency!Next \/ UNCHANGED <<Resident, pinned_pages, copied>>
AbstractStep == [Residency!Next /\ Residency!Within]_<<Resident, pinned_pages, copied, direct>>

\* What an evictable frame holds may leave: at most one page, not pinned.
LEMMA MayLeave ==
  ASSUME Headroom, WindowInv, NEW f \in Evictable
  PROVE  {q \in Pages : map[q] = f} \in Residency!Leaving
<1> DEFINE out == {q \in Pages : map[q] = f}
<1>1. f \in Frames /\ ~frame_pinned[f] /\ ~frame_filling[f] /\ f # NoFrame
  BY WindowConstants DEF Evictable, Frames, NoFrame
<1>2. \A q \in out : q = frame_key[f] /\ Mapped(q) /\ q \notin pinned_pages
  BY <1>1 DEF WindowInv, MapAgrees, Mapped, PinAccounts
<1>3. CASE out = {}
  BY <1>3 DEF Residency!Leaving
<1>4. CASE out # {}
  <2>1. out = {frame_key[f]} /\ frame_key[f] \in Resident \ pinned_pages
    BY <1>2, <1>4 DEF Resident
  <2> HIDE DEF out
  <2>2. out \in {{q} : q \in {p \in Pages : Mapped(p)} \ pinned_pages}
    BY <2>1 DEF Resident
  <2>3. out \in Residency!Leaving
    BY <2>2 DEF Residency!Leaving
  <2> QED BY <2>3 DEF out
<1> QED BY <1>3, <1>4

\* A page gives way only in a full window, or one with reserved frames.
LEMMA FullWhenEvicting ==
  ASSUME Headroom, WindowInv, FreeAhead, NEW f \in Evictable, Victim(f), frame_key[f] # FreeKey
  PROVE  Residency!MayEvict
<1> SUFFICES ASSUME ~direct PROVE Cardinality({p \in Pages : Mapped(p)}) >= NFrames
  BY DEF Residency!MayEvict, Residency!Cardinality, Cardinality
<1> DEFINE S == {p \in Pages : Mapped(p)}
           k == [e \in Frames |-> frame_key[e]]
<1>1. \A e \in Frames : frame_key[e] # FreeKey /\ ~frame_filling[e]
  BY VictimFree DEF Evictable, FreeAhead, WindowInv, FillsIsolated
<1>2. \A e \in Frames : frame_key[e] \in Pages /\ map[frame_key[e]] = e
  BY <1>1 DEF WindowInv, TypeOK, MapAgrees
<1>3. NoFrame \notin Frames
  BY WindowConstants DEF NoFrame, Frames
<1>4. k \in [Frames -> S] /\ \A e, g \in Frames : k[e] = k[g] => e = g
  BY <1>2, <1>3 DEF Mapped
<1>5. IsFiniteSet(S)
  BY WindowConstants, FS_Subset
<1> HIDE DEF S, k
<1>6. k \in Injection(Frames, S)
  BY <1>4 DEF Injection, IsInjective
<1>7. Cardinality(Frames) <= Cardinality(S)
  BY <1>5, <1>6, FS_Injection
<1>8. Cardinality(S) \in Nat
  BY <1>5, FS_CardinalityType
<1>9. Cardinality(Frames) = NFrames
  BY FramesFinite
<1> QED BY <1>7, <1>8, <1>9, WindowConstants DEF S

\* A page put into the frame of at most one unpinned page enters the set.
LEMMA PlacedEnters ==
  ASSUME Headroom, WindowInv, FreeAhead, UNCHANGED direct,
         NEW p \in Pages, NEW f \in Evictable, Victim(f),
         map'[p] = f,
         \A q \in Pages \ {p} : map'[q] = IF map[q] = f THEN NoFrame ELSE map[q],
         pinned_pages' \in {pinned_pages, pinned_pages \cup {p}},
         UNCHANGED copied
  PROVE  Residency!Enter(p)
<1> DEFINE out == {q \in Pages : map[q] = f}
<1>1. f # NoFrame
  BY WindowConstants DEF Evictable, Frames, NoFrame
<1>2. {q \in Pages : Mapped(q)}' = ({q \in Pages : Mapped(q)} \ out) \cup {p}
  BY <1>1 DEF Mapped
<1>3. out \in Residency!Leaving
  BY MayLeave
<1>4. out # {} => Residency!MayEvict
  <2>1. out # {} => frame_key[f] # FreeKey
    BY <1>1, WindowConstants DEF WindowInv, MapAgrees, Mapped, FreeKey
  <2> QED BY <2>1, FullWhenEvicting
<1> HIDE DEF out
<1> QED BY <1>2, <1>3, <1>4 DEF Residency!Enter

\* The set never outgrows the frames: the map is injective.
LEMMA WithinFrames ==
  ASSUME Headroom, WindowInv
  PROVE  Bounded
<1> DEFINE S == {p \in Pages : Mapped(p)}
           g == [p \in S |-> map[p]]
<1>1. \A p \in S : map[p] \in Frames /\ frame_key[map[p]] = p
  BY DEF WindowInv, TypeOK, MapAgrees, Mapped
<1>2. g \in Injection(S, Frames)
  <2>1. g \in [S -> Frames] /\ \A p \in S : g[p] = map[p]
    BY <1>1
  <2> HIDE DEF g
  <2>2. \A p, q \in S : g[p] = g[q] => p = q
    BY <1>1, <2>1
  <2> QED BY <2>1, <2>2 DEF Injection, IsInjective
<1> HIDE DEF S, g
<1>3. Cardinality(S) <= Cardinality(Frames)
  BY <1>2, FramesFinite, FS_Injection
<1> QED BY <1>3, FramesFinite DEF S, Bounded

\* Steps that promote a page: pin, the promoting reads.
LEMMA PromoteMaps ==
  ASSUME Headroom, WindowInv, FreeAhead, UNCHANGED direct, NEW p \in Pages, NEW pin \in BOOLEAN,
         PromoteHit(p, pin) \/ PromoteMiss(p, pin),
         UNCHANGED <<fills, copied>>
  PROVE  Residency!Next \/ UNCHANGED <<Resident, pinned_pages, copied>>
<1>1. CASE PromoteHit(p, pin)
  <2>1. Mapped(p) /\ map' = map /\ pinned_pages' \in {pinned_pages, pinned_pages \cup {p}}
    BY <1>1 DEF PromoteHit
  <2>2. Resident' = Resident /\ p \in Resident
    BY <2>1 DEF Resident, Mapped
  <2>3. CASE pinned_pages' = pinned_pages
    BY <2>2, <2>3
  <2>4. CASE pinned_pages' = pinned_pages \cup {p}
    <3>1. Residency!PinResident(p)
      BY <2>2, <2>4 DEF Residency!PinResident, Resident
    <3> QED BY <3>1 DEF Residency!Next
  <2> QED BY <2>1, <2>3, <2>4
<1>2. CASE PromoteMiss(p, pin)
  <2>1. PICK f \in Frames :
          /\ Place(p, f, p)
          /\ IF pin /\ pin_used + 1 <= PinCap
             THEN /\ frame_pinned' = [frame_pinned EXCEPT ![f] = TRUE]
                  /\ pinned_pages' = pinned_pages \cup {p}
             ELSE /\ frame_pinned' = [frame_pinned EXCEPT ![f] = FALSE]
                  /\ UNCHANGED pinned_pages
    BY <1>2 DEF PromoteMiss
  <2>2. /\ frame_pinned' \in [Frames -> BOOLEAN]
        /\ \A g \in Frames \ {f} : frame_pinned'[g] = frame_pinned[g]
        /\ pinned_pages' \in {pinned_pages, pinned_pages \cup {p}}
    BY <2>1 DEF WindowInv, TypeOK
  <2>3. ~Mapped(p) /\ UNCHANGED <<frame_filling, fills>>
    BY <1>2 DEF PromoteMiss
  <2>4. /\ f \in Evictable /\ map'[p] = f
        /\ \A q \in Pages \ {p} : map'[q] = IF map[q] = f THEN NoFrame ELSE map[q]
    BY <2>1, <2>2, <2>3, PlaceAgrees
  <2>5. Residency!Enter(p)
    BY <2>1, <2>2, <2>4, PlacedEnters DEF Place
  <2> QED BY <2>5 DEF Residency!Next
<1> QED BY <1>1, <1>2

\* Steps that install a page without pinning it.
LEMMA InstallMaps ==
  ASSUME Headroom, WindowInv, FreeAhead, UNCHANGED direct, NEW p \in Pages, ~Mapped(p), NEW f \in Frames, Place(p, f, p),
         frame_pinned' = [frame_pinned EXCEPT ![f] = FALSE],
         UNCHANGED <<frame_filling, fills, pinned_pages, copied>>
  PROVE  Residency!Next
<1>1. /\ frame_pinned' \in [Frames -> BOOLEAN]
      /\ \A g \in Frames \ {f} : frame_pinned'[g] = frame_pinned[g]
  BY DEF WindowInv, TypeOK
<1>2. /\ f \in Evictable /\ map'[p] = f
      /\ \A q \in Pages \ {p} : map'[q] = IF map[q] = f THEN NoFrame ELSE map[q]
  BY <1>1, PlaceAgrees, ZenonT(60)
<1>3. Residency!Enter(p)
  BY <1>2, PlacedEnters DEF Place
<1> QED BY <1>3 DEF Residency!Next

\* A reservation evicts at most one unpinned page and shows nothing yet.
LEMMA ReserveMaps ==
  ASSUME Headroom, WindowInv, UNCHANGED direct, NEW p \in Pages, reserve_fill(p)
  PROVE  Residency!Next
<1> PICK f \in Frames : Victim(f) /\ map' = EvictedMap(f)
  BY DEF reserve_fill
<1>1. f \in Evictable /\ ~frame_filling[f] /\ TypeOK /\ f # NoFrame /\ FreeKey \notin Pages
  BY VictimEvictable, WindowConstants DEF Evictable, WindowInv, NoFrame, Frames, FreeKey
<1>2. \A q \in Pages : map'[q] = IF map[q] = f THEN NoFrame ELSE map[q]
  <2>1. CASE frame_key[f] = FreeKey
    <3>1. \A q \in Pages : map[q] # f
      BY <2>1, <1>1 DEF WindowInv, MapAgrees, Mapped, TypeOK
    <3> QED BY <2>1, <3>1, <1>1 DEF EvictedMap, TypeOK
  <2>2. CASE frame_key[f] # FreeKey
    <3>1. \A q \in Pages : map[q] = f <=> q = frame_key[f]
      BY <2>2, <1>1 DEF WindowInv, MapAgrees, Mapped, TypeOK
    <3> QED BY <1>1, <2>2, <3>1 DEF EvictedMap, TypeOK
  <2> QED BY <2>1, <2>2
<1> DEFINE out == {q \in Pages : map[q] = f}
<1>3. {q \in Pages : Mapped(q)}' = {q \in Pages : Mapped(q)} \ out
  BY <1>1, <1>2 DEF Mapped
<1>4. out \in Residency!Leaving
  BY <1>1, MayLeave
<1>5. UNCHANGED <<pinned_pages, copied>> /\ direct
  BY DEF reserve_fill
<1> HIDE DEF out
<1>6. Residency!Leave
  BY <1>3, <1>4, <1>5 DEF Residency!Leave
<1> QED BY <1>6 DEF Residency!Next

\* A commit shows the page unless another installer was faster.
LEMMA CommitMaps ==
  ASSUME Headroom, WindowInv, UNCHANGED direct, NEW x \in fills, NEW t \in Ttl, commit_fill(x, t)
  PROVE  Residency!Next \/ UNCHANGED <<Resident, pinned_pages, copied>>
<1>1. x.page \in Pages /\ x.frame \in Frames /\ x.frame # NoFrame /\ UNCHANGED <<pinned_pages, copied>>
  BY WindowConstants DEF WindowInv, TypeOK, FillOf, commit_fill, Frames, NoFrame
<1>2. CASE map' = map
  BY <1>1, <1>2 DEF Resident, Mapped
<1>3. CASE map' = [map EXCEPT ![x.page] = x.frame]
  <2>1. {q \in Pages : Mapped(q)}' = ({q \in Pages : Mapped(q)} \ {}) \cup {x.page}
    BY <1>1, <1>3 DEF Mapped, WindowInv, TypeOK
  <2>2. {} \in Residency!Leaving
    BY DEF Residency!Leaving
  <2>3. Residency!Enter(x.page)
    BY <1>1, <2>1, <2>2 DEF Residency!Enter
  <2> QED BY <1>1, <2>3 DEF Residency!Next
<1> QED BY <1>2, <1>3 DEF commit_fill

\* Every operation of the window is a step of the residency set or invisible.
LEMMA StepMaps ==
  ASSUME Headroom, WindowInv, FreeAhead, UNCHANGED direct, Next
  PROVE  Visible
<1>1. ASSUME UNCHANGED <<map, pinned_pages, copied>> PROVE Visible
  BY <1>1 DEF Visible, Resident, Mapped
<1>2. ASSUME NEW p \in Pages, Pin(p) PROVE Visible
  BY <1>2, PromoteMaps DEF Visible, Pin
<1>3. ASSUME NEW p \in Pages, PromoteSpan(p) PROVE Visible
  BY <1>3, InstallMaps DEF Visible, PromoteSpan
<1>4. ASSUME NEW p \in Pages, reserve_fill(p) PROVE Visible
  BY <1>4, ReserveMaps DEF Visible
<1>5. ASSUME NEW p \in Pages, NEW t \in Ttl,
             InstallHit(p, t) \/ InstallMiss(p, t) \/ touch_soft_pin(p, t)
      PROVE  Visible
  <2>1. CASE InstallMiss(p, t)
    BY <2>1, InstallMaps DEF Visible, InstallMiss
  <2>2. CASE InstallHit(p, t) \/ touch_soft_pin(p, t)
    BY <1>1, <2>2 DEF InstallHit, touch_soft_pin
  <2> QED BY <1>5, <2>1, <2>2
<1>6. ASSUME NEW p \in Pages, NEW w \in HostCovers, InstallHost(p, w) PROVE Visible
  <2>1. w = TRUE
    BY DEF Headroom, WholePages
  <2>2. CASE Mapped(p)
    BY <1>1, <1>6, <2>2 DEF InstallHost
  <2>3. CASE ~Mapped(p)
    BY <1>6, <2>1, <2>3, InstallMaps DEF Visible, InstallHost
  <2> QED BY <2>2, <2>3
<1>7. ASSUME NEW x \in fills, FillLands(x) \/ abort_fill(x) PROVE Visible
  BY <1>1, <1>7 DEF FillLands, abort_fill
<1>8. ASSUME NEW x \in fills, NEW t \in Ttl, commit_fill(x, t) PROVE Visible
  BY <1>8, CommitMaps DEF Visible
<1>9. ASSUME NEW r, BeginPromotingRead(r) \/ try_copy_resident(r) PROVE Visible
  BY <1>1, <1>9 DEF BeginPromotingRead, try_copy_resident
<1>10. CASE ReadPromotes
  <2>1. rd.at \in Pages
    BY <1>10 DEF ReadPromotes, WindowInv, ReadInProgress, Idle
  <2> QED BY <1>10, <2>1, PromoteMaps DEF Visible, ReadPromotes
<1>11. CASE ReadCopies
  <2>1. map' = map /\ Mapped(rd.at) /\ copied' = [want |-> rd.at, got |-> rd.at]
    BY <1>11, ReadCopiesStep
  <2>2. pinned_pages' = pinned_pages
    BY <1>11 DEF ReadCopies
  <2>3. rd.at \in Pages /\ {p \in Pages : Mapped(p)}' = {p \in Pages : Mapped(p)}
    BY <2>1 DEF Mapped
  <2>4. Residency!Read(rd.at)
    BY <2>1, <2>2, <2>3 DEF Residency!Read
  <2> QED BY <2>3, <2>4 DEF Visible, Residency!Next
<1>12. CASE flush
  <2>1. pinned_pages' = pinned_pages /\ pinned_pages \subseteq Pages /\ copied' = copied
    BY <1>12 DEF flush, WindowInv, TypeOK
  <2>2. \A p \in Pages : map'[p] = IF p \in pinned_pages THEN map[p] ELSE NoFrame
    BY <1>12, FlushStep
  <2>3. {p \in Pages : Mapped(p)}' = pinned_pages
    BY <2>1, <2>2 DEF Mapped, WindowInv, PinAccounts
  <2>4. Residency!Flush
    BY <2>1, <2>3 DEF Residency!Flush
  <2> QED BY <2>4 DEF Visible, Residency!Next
<1>13. CASE flush_all
  <2>1. {p \in Pages : Mapped(p)}' = {} /\ pinned_pages' = {} /\ copied' = copied
    BY <1>13 DEF flush_all, Mapped
  <2>2. Residency!Reset
    BY <2>1 DEF Residency!Reset
  <2> QED BY <2>2 DEF Visible, Residency!Next
<1>14. CASE tick_soft_pins
  BY <1>1, <1>14 DEF tick_soft_pins
<1> QED
  BY <1>2, <1>3, <1>4, <1>5, <1>6, <1>7, <1>8, <1>9, <1>10, <1>11, <1>12, <1>13, <1>14 DEF Next, Steps

\* The window of dram_window.hpp is a bounded set of resident pages to its
\* callers: a page enters alone, at most one unpinned page gives way to it, a
\* flush leaves exactly the pinned pages, a read returns the page asked for.
THEOREM WindowImplements == Headroom /\ Spec => ImplementsResidency
<1> SUFFICES ASSUME Headroom PROVE Spec => ImplementsResidency
  OBVIOUS
<1>1. Init => Residency!Init
  <2> SUFFICES ASSUME Init PROVE Residency!Init
    OBVIOUS
  <2>1. {p \in Pages : Mapped(p)} = {} /\ pinned_pages = {}
    BY DEF Init, Mapped
  <2>2. copied = [want |-> -1, got |-> -1]
    BY DEF Init, NoPage
  <2>3. direct \in BOOLEAN
    BY DEF Init
  <2> QED BY <2>1, <2>2, <2>3 DEF Residency!Init
<1>2. WindowInv /\ FreeAhead /\ Bounded' /\ [Next]_vars => AbstractStep
  <2> SUFFICES ASSUME WindowInv, FreeAhead, Bounded', [Next]_vars PROVE AbstractStep
    OBVIOUS
  <2> UNCHANGED direct
    BY DEF Next, vars
  <2>1. CASE UNCHANGED vars
    BY <2>1 DEF vars, AbstractStep, Resident, Mapped
  <2>2. CASE Next
    <3>1. Visible
      BY <2>2, StepMaps
    <3>2. Cardinality({p \in Pages : Mapped(p)}') <= NFrames
      BY DEF Bounded
    <3>3. Residency!Within
      BY <3>2 DEF Residency!Within, Residency!Cardinality, Cardinality
    <3> QED BY <3>1, <3>3 DEF AbstractStep, Visible
  <2> QED BY <2>1, <2>2
<1>3. AbstractStep <=> [Residency!Next /\ Residency!Within]_(Residency!vars)
  BY DEF AbstractStep, Residency!vars, Resident
<1>4. WindowInv => Bounded
  BY WithinFrames
<1> QED
  BY <1>1, <1>2, <1>3, <1>4, WindowSafe, WindowFreeAhead, PTL
     DEF Spec, ImplementsResidency, Residency!Spec

-----------------------------------------------------------------------------
(* The staging pipe.  Its inductive invariant does not need the pipe to be *)
(* started: what stop_join leaves behind is consistent too, so late        *)
(* releases are.                                                           *)

PipeTypes ==
  /\ state \in [Slots -> {"free", "queued", "done"}]
  /\ id \in [Slots -> Vecs \cup {None}] /\ host \in [Slots -> Vecs \cup {None}]
  /\ job_q \in Seq(Slots)
  /\ inflight \in Nat
  /\ worker \in [Slots -> [stage : {"off", "wait", "gone", "copy", "store", "notify"}, slot : 0 .. W]]
  /\ got \subseteq Slots

Carries(w, s) == worker[w].stage \in {"copy", "store"} /\ worker[w].slot = s
InQueue(s) == \E i \in 1 .. Len(job_q) : job_q[i] = s

\* A slot is queued once, or carried by one worker, exactly while its state
\* is Queued.
QueuedOnce == \A i, j \in 1 .. Len(job_q) : job_q[i] = job_q[j] => i = j
CarriedOnce == \A s \in Slots : \A v, w \in Slots : Carries(v, s) /\ Carries(w, s) => v = w
QueueApart == \A s \in Slots : InQueue(s) => \A w \in Slots : ~Carries(w, s)
QueuedState ==
  \A s \in Slots : state[s] = "queued" <=> InQueue(s) \/ \E w \in Slots : Carries(w, s)
CarriesSlot == \A w \in Slots : worker[w].stage \in {"copy", "store"} => worker[w].slot \in Slots

\* From the copy to the release, a slot's buffer holds what was asked for.
BuffersRight ==
  /\ \A w \in Slots : worker[w].stage = "store" => host[worker[w].slot] = id[worker[w].slot]
  /\ \A s \in Slots : state[s] = "done" => host[s] = id[s]
  /\ \A s \in got : state[s] = "done"

InUse == Slots \ FreeSlots
CountExact == inflight = Cardinality(InUse)

PipeInv ==
  /\ PipeTypes
  /\ QueuedOnce /\ CarriedOnce /\ QueueApart /\ QueuedState /\ CarriesSlot
  /\ BuffersRight
  /\ CountExact

-----------------------------------------------------------------------------
(* Lemmas.                                                                 *)

\* The sets of slots can be counted.
LEMMA SlotSets ==
  /\ IsFiniteSet(Slots)
  /\ \A S \in SUBSET Slots : IsFiniteSet(S) /\ Cardinality(S) \in Nat
<1>1. IsFiniteSet(Slots)
  BY FS_Interval, PipeConstants DEF Slots
<1>2. ASSUME NEW S \in SUBSET Slots PROVE IsFiniteSet(S) /\ Cardinality(S) \in Nat
  BY <1>1, FS_Subset, FS_CardinalityType
<1> QED BY <1>1, <1>2

\* A non-empty set of slots has a first one: descending chains of the sets
\* of smaller members end.
LEMMA FirstSlot ==
  ASSUME NEW S \in SUBSET Slots, S # {}
  PROVE  Min(S) \in S
<1> DEFINE Below(x) == {y \in S : y < x}
           F == {Below(x) : x \in S}
<1>1. S \subseteq Int
  BY PipeConstants DEF Slots
<1>2. F \subseteq FiniteSubsetsOf(S) /\ F # {}
  <2>1. \A x \in S : Below(x) \in SUBSET S /\ IsFiniteSet(Below(x))
    <3> SUFFICES ASSUME NEW x \in S PROVE Below(x) \in SUBSET S /\ IsFiniteSet(Below(x))
      OBVIOUS
    <3>1. Below(x) \in SUBSET S /\ Below(x) \in SUBSET Slots
      OBVIOUS
    <3> HIDE DEF Below
    <3> QED BY <3>1, SlotSets
  <2> HIDE DEF Below
  <2> QED BY <2>1 DEF FiniteSubsetsOf
<1>3. IsWellFoundedOn(StrictSubsetOrdering(S), FiniteSubsetsOf(S))
  BY FS_StrictSubsetOrderingWellFounded
<1> HIDE DEF F
<1>4. PICK X \in F : \A Y \in F : ~(<<Y, X>> \in StrictSubsetOrdering(S))
  BY <1>2, <1>3, WFMin
<1>5. PICK x \in S : X = Below(x)
  BY DEF F
<1>6. \A y \in S : x <= y
  <2> SUFFICES ASSUME NEW y \in S, y < x PROVE FALSE
    BY <1>1
  <2>1. Below(y) \in F /\ Below(y) \subseteq Below(x) /\ y \in Below(x) /\ y \notin Below(y)
    <3>1. x \in Int /\ y \in Int /\ \A z \in S : z \in Int
      BY <1>1
    <3>2. \A z \in S : z < y => z < x
      BY <3>1
    <3>3. ~(y < y)
      BY <3>1
    <3>4. Below(y) \in F
      BY DEF F
    <3> QED BY <3>2, <3>3, <3>4
  <2>2. <<Below(y), Below(x)>> \in StrictSubsetOrdering(S)
    <3>1. Below(y) \in SUBSET S /\ Below(x) \in SUBSET S
      OBVIOUS
    <3> HIDE DEF Below
    <3> QED BY <3>1, <2>1 DEF StrictSubsetOrdering
  <2> QED BY <1>4, <1>5, <2>1, <2>2
<1> QED BY <1>6 DEF Min

\* The fields of a worker's stage.
LEMMA StageShapes ==
  /\ \A st : Stage(st).stage = st /\ Stage(st).slot = 0
  /\ \A st, s : At(st, s).stage = st /\ At(st, s).slot = s
BY DEF Stage, At

\* A step that leaves the slots, the queue and the carriers alone.
LEMMA QuietStep ==
  ASSUME PipeInv, UNCHANGED <<state, id, host, job_q, inflight>>,
         worker' \in [Slots -> [stage : {"off", "wait", "gone", "copy", "store", "notify"}, slot : 0 .. W]],
         \A w \in Slots : \/ worker'[w] = worker[w]
                          \/ /\ worker[w].stage \notin {"copy", "store"}
                             /\ worker'[w].stage \notin {"copy", "store"},
         got' \subseteq Done
  PROVE  PipeInv'
<1>1. \A w, s \in Slots : Carries(w, s)' <=> Carries(w, s)
  BY DEF Carries
<1>2. \A s \in Slots : InQueue(s)' <=> InQueue(s)
  BY DEF InQueue
<1>3. PipeTypes'
  BY DEF PipeInv, PipeTypes, Done
<1>4. QueuedOnce' /\ CarriedOnce' /\ QueueApart' /\ QueuedState'
  <2>1. QueuedOnce'
    BY DEF PipeInv, QueuedOnce
  <2>2. CarriedOnce'
    BY <1>1 DEF PipeInv, CarriedOnce
  <2>3. QueueApart' /\ QueuedState'
    BY <1>1, <1>2 DEF PipeInv, QueueApart, QueuedState
  <2> QED BY <2>1, <2>2, <2>3
<1>5. CarriesSlot' /\ BuffersRight'
  BY DEF PipeInv, CarriesSlot, BuffersRight, Done
<1>6. CountExact'
  BY DEF PipeInv, CountExact, InUse, FreeSlots
<1> QED BY <1>3, <1>4, <1>5, <1>6 DEF PipeInv

-----------------------------------------------------------------------------
(* The client's steps.                                                     *)

\* start resets every slot and the queue, whatever the last run left.
LEMMA StartStep == PipeInv /\ start => PipeInv'
<1> SUFFICES ASSUME PipeInv, start PROVE PipeInv'
  OBVIOUS
<1>1. /\ state' = [s \in Slots |-> "free"] /\ host' = [s \in Slots |-> None]
      /\ job_q' = <<>> /\ inflight' = 0 /\ got' = {} /\ id' = id
      /\ worker' = [w \in Slots |-> Stage("wait")]
  BY DEF start
<1>2. job_q' \in Seq(Slots) /\ Len(job_q') = 0
  BY <1>1, EmptySeq
<1>3. \A w \in Slots : worker'[w].stage = "wait" /\ worker'[w].slot = 0
  BY <1>1, StageShapes
<1>4. worker' \in [Slots -> [stage : {"off", "wait", "gone", "copy", "store", "notify"}, slot : 0 .. W]]
  BY <1>1, PipeConstants DEF Stage, At
<1>5. PipeTypes'
  BY <1>1, <1>2, <1>4 DEF PipeInv, PipeTypes
<1>6. QueuedOnce' /\ CarriedOnce' /\ QueueApart' /\ QueuedState' /\ CarriesSlot'
  BY <1>1, <1>2, <1>3
  DEF QueuedOnce, CarriedOnce, QueueApart, QueuedState, CarriesSlot, Carries, InQueue
<1>7. BuffersRight'
  BY <1>1, <1>3 DEF BuffersRight
<1>8. CountExact'
  <2>1. InUse' = {}
    BY <1>1 DEF InUse, FreeSlots
  <2> QED BY <1>1, <2>1, FS_EmptySet DEF CountExact
<1> QED BY <1>5, <1>6, <1>7, <1>8 DEF PipeInv

\* try_submit takes a free slot: no queue entry, no worker and no result the
\* client knows of refers to it.
LEMMA SubmitStep ==
  ASSUME PipeInv, NEW v \in Vecs, try_submit(v)
  PROVE  PipeInv'
<1> DEFINE s == Min(FreeSlots)
<1>1. s \in Slots /\ state[s] = "free"
  BY FirstSlot DEF try_submit, FreeSlots
<1>2. /\ id' = [id EXCEPT ![s] = v] /\ state' = [state EXCEPT ![s] = "queued"]
      /\ job_q' = Append(job_q, s) /\ inflight' = inflight + 1
      /\ UNCHANGED <<host, worker, got>>
  BY DEF try_submit
<1> HIDE DEF s
<1>3. job_q \in Seq(Slots) /\ Len(job_q) \in Nat
  BY LenProperties DEF PipeInv, PipeTypes
<1>4. /\ job_q' \in Seq(Slots) /\ Len(job_q') = Len(job_q) + 1
      /\ \A i \in 1 .. Len(job_q) : job_q'[i] = job_q[i]
      /\ job_q'[Len(job_q) + 1] = s
  BY <1>1, <1>2, <1>3, AppendProperties
<1>5. ~InQueue(s) /\ \A w \in Slots : ~Carries(w, s)
  BY <1>1 DEF PipeInv, QueuedState
<1>6. \A r \in Slots : InQueue(r)' <=> InQueue(r) \/ r = s
  <2>1. 1 .. Len(job_q') = (1 .. Len(job_q)) \cup {Len(job_q) + 1}
    BY <1>3, <1>4
  <2> QED BY <1>4, <2>1 DEF InQueue
<1>7. \A w, r \in Slots : Carries(w, r)' <=> Carries(w, r)
  BY <1>2 DEF Carries
<1>8. PipeTypes'
  BY <1>1, <1>2, <1>4 DEF PipeInv, PipeTypes
<1>9. QueuedOnce'
  <2> SUFFICES ASSUME NEW i \in 1 .. Len(job_q) + 1, NEW j \in 1 .. Len(job_q) + 1,
                      job_q'[i] = job_q'[j]
               PROVE  i = j
    BY <1>4 DEF QueuedOnce
  <2>1. \A k \in 1 .. Len(job_q) : job_q'[k] # s
    BY <1>4, <1>5 DEF InQueue
  <2>2. CASE i = Len(job_q) + 1 \/ j = Len(job_q) + 1
    BY <1>3, <1>4, <2>1, <2>2
  <2>3. CASE i \in 1 .. Len(job_q) /\ j \in 1 .. Len(job_q)
    BY <1>4, <2>3 DEF PipeInv, QueuedOnce
  <2> QED BY <1>3, <2>2, <2>3
<1>10. CarriedOnce' /\ CarriesSlot'
  BY <1>2, <1>7 DEF PipeInv, CarriedOnce, CarriesSlot
<1>11. QueueApart' /\ QueuedState'
  <2>1. \A r \in Slots : state'[r] = IF r = s THEN "queued" ELSE state[r]
    BY <1>2 DEF PipeInv, PipeTypes
  <2> QED BY <1>5, <1>6, <1>7, <2>1 DEF PipeInv, QueueApart, QueuedState
<1>12. BuffersRight'
  <2>1. \A r \in Slots : r # s => state'[r] = state[r] /\ id'[r] = id[r]
    BY <1>2 DEF PipeInv, PipeTypes
  <2>2. \A w \in Slots : worker[w].stage = "store" => worker[w].slot \in Slots /\ worker[w].slot # s
    BY <1>5 DEF PipeInv, CarriesSlot, Carries
  <2>3. \A r \in Slots : state'[r] = "done" => r # s
    BY <1>1, <1>2 DEF PipeInv, PipeTypes
  <2>4. \A r \in got : r \in Slots /\ r # s
    BY <1>1 DEF PipeInv, PipeTypes, BuffersRight
  <2> QED BY <1>2, <2>1, <2>2, <2>3, <2>4 DEF PipeInv, BuffersRight
<1>13. CountExact'
  <2>1. InUse' = InUse \cup {s} /\ s \notin InUse
    BY <1>1, <1>2 DEF InUse, FreeSlots, PipeInv, PipeTypes
  <2>2. InUse \in SUBSET Slots
    BY DEF InUse
  <2> QED BY <1>2, <2>1, <2>2, SlotSets, FS_AddElement DEF PipeInv, CountExact
<1> QED BY <1>8, <1>9, <1>10, <1>11, <1>12, <1>13 DEF PipeInv

\* The count is positive while a slot is in use, so wait_done never resets it.
LEMMA NothingToHeal ==
  ASSUME PipeInv
  PROVE  Healed = inflight
<1>1. FreeSlots = Slots => inflight = 0
  BY FS_EmptySet DEF PipeInv, CountExact, InUse
<1> QED BY <1>1 DEF Healed, PipeInv, PipeTypes

\* Polls, waits, stop and join.
LEMMA ClientQuietStep ==
  PipeInv /\ (poll_done \/ wait_done \/ WaitTests \/ FallsAsleep \/ Spurious \/ stop_join \/ Joined)
    => PipeInv'
<1> SUFFICES ASSUME PipeInv,
                    poll_done \/ wait_done \/ WaitTests \/ FallsAsleep \/ Spurious \/ stop_join \/ Joined
             PROVE  PipeInv'
  OBVIOUS
<1>1. got \subseteq Done /\ worker \in [Slots -> [stage : {"off", "wait", "gone", "copy", "store", "notify"}, slot : 0 .. W]]
  BY DEF PipeInv, PipeTypes, BuffersRight, Done
<1>2. CASE poll_done \/ wait_done \/ FallsAsleep \/ Spurious \/ stop_join
  <2>1. UNCHANGED <<state, id, host, job_q, inflight, worker>> /\ got' \in {got, Done}
    BY <1>2 DEF poll_done, wait_done, FallsAsleep, Spurious, stop_join
  <2> QED BY <1>1, <2>1, QuietStep
<1>3. CASE WaitTests
  <2>1. UNCHANGED <<state, id, host, job_q, worker>> /\ got' \in {got, Done} /\ inflight' = inflight
    BY <1>3, NothingToHeal DEF WaitTests
  <2> QED BY <1>1, <2>1, QuietStep
<1>4. CASE Joined
  <2>1. UNCHANGED <<state, id, host, job_q, inflight, got>>
        /\ \A w \in Slots : worker[w] = Stage("gone") /\ worker'[w] = Stage("off")
    BY <1>4 DEF Joined
  <2>2. worker' \in [Slots -> [stage : {"off", "wait", "gone", "copy", "store", "notify"}, slot : 0 .. W]]
    BY <1>4, PipeConstants DEF Joined, Stage, At
  <2> QED BY <1>1, <2>1, <2>2, StageShapes, QuietStep
<1> QED BY <1>2, <1>3, <1>4

\* A release concerns a Done slot, which no queue entry or worker refers to.
LEMMA ReleaseStep ==
  ASSUME PipeInv, NEW s \in Slots, release(s)
  PROVE  PipeInv'
<1>1. s \in got /\ state[s] = "done" /\ s \in InUse
  BY DEF release, PipeInv, BuffersRight, InUse, FreeSlots
<1>2. InUse \in SUBSET Slots /\ IsFiniteSet(InUse) /\ Cardinality(InUse) \in Nat /\ inflight > 0
  <2>1. InUse \in SUBSET Slots
    BY DEF InUse
  <2>2. Cardinality(InUse) # 0
    BY <1>1, <2>1, SlotSets, FS_EmptySet
  <2> QED BY <2>1, <2>2, SlotSets DEF PipeInv, CountExact
<1>3. /\ state' = [state EXCEPT ![s] = "free"] /\ id' = [id EXCEPT ![s] = None]
      /\ got' = got \ {s} /\ inflight' = inflight - 1
      /\ UNCHANGED <<host, job_q, worker>>
  BY <1>1, <1>2 DEF release
<1>4. ~InQueue(s) /\ \A w \in Slots : ~Carries(w, s)
  BY <1>1 DEF PipeInv, QueuedState
<1>5. \A r \in Slots : (InQueue(r)' <=> InQueue(r)) /\ \A w \in Slots : Carries(w, r)' <=> Carries(w, r)
  BY <1>3 DEF InQueue, Carries
<1>6. \A r \in Slots : r # s => state'[r] = state[r] /\ id'[r] = id[r]
  BY <1>3 DEF PipeInv, PipeTypes
<1>7. state'[s] = "free"
  BY <1>3 DEF PipeInv, PipeTypes
<1>8. CountExact' /\ inflight' \in Nat
  <2>1. InUse' = InUse \ {s}
    BY <1>3 DEF InUse, FreeSlots, PipeInv, PipeTypes
  <2>2. Cardinality(InUse \ {s}) = Cardinality(InUse) - 1
    BY <1>1, <1>2, FS_RemoveElement
  <2> QED BY <1>2, <1>3, <2>1, <2>2 DEF PipeInv, CountExact
<1>9. PipeTypes'
  BY <1>3, <1>8 DEF PipeInv, PipeTypes
<1>10. QueuedOnce' /\ CarriedOnce' /\ CarriesSlot'
  <2>1. QueuedOnce'
    BY <1>3 DEF PipeInv, QueuedOnce
  <2> QED BY <1>3, <1>5, <2>1 DEF PipeInv, CarriedOnce, CarriesSlot
<1>11. QueueApart' /\ QueuedState'
  BY <1>4, <1>5, <1>6, <1>7 DEF PipeInv, QueueApart, QueuedState
<1>12. BuffersRight'
  <2>1. \A w \in Slots : worker[w].stage = "store" => worker[w].slot \in Slots /\ worker[w].slot # s
    BY <1>4 DEF PipeInv, CarriesSlot, Carries
  <2>2. \A r \in got' : r \in Slots /\ r # s /\ r \in got
    BY <1>3 DEF PipeInv, PipeTypes
  <2> QED BY <1>3, <1>6, <1>7, <2>1, <2>2 DEF PipeInv, BuffersRight
<1> QED BY <1>8, <1>9, <1>10, <1>11, <1>12 DEF PipeInv

-----------------------------------------------------------------------------
(* The workers' steps.                                                     *)

\* A worker takes the head of the queue: the slot goes from the one place to
\* the other.
LEMMA TakesStep ==
  ASSUME PipeInv, NEW w \in Slots, Takes(w)
  PROVE  PipeInv'
<1> DEFINE s == Head(job_q)
<1>1. job_q \in Seq(Slots) /\ Len(job_q) \in Nat \ {0} /\ s = job_q[1] /\ s \in Slots
  <2>1. job_q \in Seq(Slots) /\ job_q # <<>>
    BY DEF Takes, PipeInv, PipeTypes
  <2> QED BY <2>1, EmptySeq, HeadTailProperties
<1>2. /\ job_q' = Tail(job_q) /\ worker' = [worker EXCEPT ![w] = At("copy", s)]
      /\ worker[w].stage = "wait"
      /\ UNCHANGED <<state, id, host, inflight, got>>
  BY StageShapes DEF Takes
<1>3. /\ job_q' \in Seq(Slots) /\ Len(job_q') = Len(job_q) - 1
      /\ \A i \in 1 .. Len(job_q') : job_q'[i] = job_q[i + 1]
  BY <1>1, <1>2, HeadTailProperties, EmptySeq
<1> HIDE DEF s
<1>4. /\ worker'[w].stage = "copy" /\ worker'[w].slot = s
      /\ \A v \in Slots \ {w} : worker'[v] = worker[v]
      /\ worker' \in [Slots -> [stage : {"off", "wait", "gone", "copy", "store", "notify"}, slot : 0 .. W]]
  <2>1. At("copy", s) \in [stage : {"off", "wait", "gone", "copy", "store", "notify"}, slot : 0 .. W]
    BY <1>1, PipeConstants DEF At, Slots
  <2> QED BY <1>2, <2>1, StageShapes DEF PipeInv, PipeTypes
<1>5. \A v, r \in Slots : Carries(v, r)' <=> Carries(v, r) \/ (v = w /\ r = s)
  BY <1>2, <1>4 DEF Carries
<1>6. InQueue(s) /\ \A v \in Slots : ~Carries(v, s)
  <2>1. InQueue(s)
    BY <1>1 DEF InQueue
  <2> QED BY <1>1, <2>1 DEF PipeInv, QueueApart
<1>7. \A i \in 1 .. Len(job_q') : i + 1 \in 1 .. Len(job_q) /\ job_q'[i] # s
  <2> SUFFICES ASSUME NEW i \in 1 .. Len(job_q') PROVE i + 1 \in 1 .. Len(job_q) /\ job_q'[i] # s
    OBVIOUS
  <2>1. i + 1 \in 1 .. Len(job_q) /\ 1 \in 1 .. Len(job_q) /\ i + 1 # 1
    BY <1>1, <1>3
  <2>2. job_q[i + 1] # job_q[1]
    BY <2>1 DEF PipeInv, QueuedOnce
  <2> QED BY <1>1, <1>3, <2>1, <2>2
<1>8. \A r \in Slots : InQueue(r)' <=> InQueue(r) /\ r # s
  <2> SUFFICES ASSUME NEW r \in Slots PROVE InQueue(r)' <=> InQueue(r) /\ r # s
    OBVIOUS
  <2>1. ASSUME NEW i \in 1 .. Len(job_q'), job_q'[i] = r PROVE InQueue(r) /\ r # s
    BY <1>3, <1>7, <2>1 DEF InQueue
  <2>2. ASSUME NEW i \in 1 .. Len(job_q), job_q[i] = r, r # s PROVE InQueue(r)'
    <3>1. i # 1
      BY <1>1, <2>2
    <3>2. i - 1 \in 1 .. Len(job_q') /\ (i - 1) + 1 = i
      BY <1>1, <1>3, <3>1
    <3>3. job_q'[i - 1] = r
      BY <1>3, <2>2, <3>2
    <3> QED BY <3>2, <3>3 DEF InQueue
  <2> QED BY <2>1, <2>2 DEF InQueue
<1>9. PipeTypes'
  BY <1>2, <1>3, <1>4 DEF PipeInv, PipeTypes
<1>10. QueuedOnce'
  <2> SUFFICES ASSUME NEW i \in 1 .. Len(job_q'), NEW j \in 1 .. Len(job_q'), job_q'[i] = job_q'[j]
               PROVE  i = j
    BY DEF QueuedOnce
  <2>1. job_q[i + 1] = job_q[j + 1] /\ i + 1 \in 1 .. Len(job_q) /\ j + 1 \in 1 .. Len(job_q)
    BY <1>3, <1>7
  <2>2. i + 1 = j + 1
    BY <2>1 DEF PipeInv, QueuedOnce
  <2> QED BY <2>2
<1>11. CarriedOnce' /\ CarriesSlot'
  <2>1. CarriedOnce'
    BY <1>5, <1>6 DEF PipeInv, CarriedOnce
  <2> QED BY <1>1, <1>4, <2>1 DEF PipeInv, CarriesSlot
<1>12. QueueApart' /\ QueuedState'
  <2>1. QueueApart'
    BY <1>5, <1>8 DEF PipeInv, QueueApart
  <2>2. QueuedState'
    BY <1>1, <1>2, <1>5, <1>6, <1>8 DEF PipeInv, QueuedState
  <2> QED BY <2>1, <2>2
<1>13. BuffersRight'
  BY <1>2, <1>4 DEF PipeInv, BuffersRight
<1>14. CountExact'
  BY <1>2 DEF PipeInv, CountExact, InUse, FreeSlots
<1> QED BY <1>9, <1>10, <1>11, <1>12, <1>13, <1>14 DEF PipeInv

\* The copy writes the buffer of the one slot this worker carries.
LEMMA CopiesStep ==
  ASSUME PipeInv, NEW w \in Slots, Copies(w)
  PROVE  PipeInv'
<1> DEFINE s == worker[w].slot
<1>1. s \in Slots /\ Carries(w, s) /\ state[s] = "queued" /\ worker[w].stage = "copy"
  <2>1. worker[w].stage = "copy"
    BY DEF Copies
  <2>2. s \in Slots /\ Carries(w, s)
    BY <2>1 DEF PipeInv, CarriesSlot, Carries
  <2> QED BY <2>1, <2>2 DEF PipeInv, QueuedState
<1>2. /\ host' = [host EXCEPT ![s] = id[s]] /\ worker' = [worker EXCEPT ![w] = At("store", s)]
      /\ UNCHANGED <<state, id, job_q, inflight, got>>
  BY DEF Copies
<1> HIDE DEF s
<1>3. /\ worker'[w].stage = "store" /\ worker'[w].slot = s
      /\ \A v \in Slots \ {w} : worker'[v] = worker[v]
      /\ worker' \in [Slots -> [stage : {"off", "wait", "gone", "copy", "store", "notify"}, slot : 0 .. W]]
  <2>1. At("store", s) \in [stage : {"off", "wait", "gone", "copy", "store", "notify"}, slot : 0 .. W]
    BY <1>1, PipeConstants DEF At, Slots
  <2> QED BY <1>2, <2>1, StageShapes DEF PipeInv, PipeTypes
<1>4. \A v, r \in Slots : Carries(v, r)' <=> Carries(v, r)
  BY <1>1, <1>3 DEF Carries
<1>5. \A r \in Slots : InQueue(r)' <=> InQueue(r)
  BY <1>2 DEF InQueue
<1>6. host'[s] = id[s] /\ \A r \in Slots : r # s => host'[r] = host[r]
  BY <1>1, <1>2 DEF PipeInv, PipeTypes
<1>7. PipeTypes'
  BY <1>1, <1>2, <1>3 DEF PipeInv, PipeTypes
<1>8. QueuedOnce' /\ CarriedOnce' /\ CarriesSlot'
  <2>1. QueuedOnce'
    BY <1>2 DEF PipeInv, QueuedOnce
  <2>2. CarriedOnce'
    BY <1>4 DEF PipeInv, CarriedOnce
  <2> QED BY <1>1, <1>3, <2>1, <2>2 DEF PipeInv, CarriesSlot
<1>9. QueueApart' /\ QueuedState'
  BY <1>2, <1>4, <1>5 DEF PipeInv, QueueApart, QueuedState
<1>10. BuffersRight'
  <2>1. \A v \in Slots \ {w} : worker[v].stage = "store" => worker[v].slot \in Slots /\ worker[v].slot # s
    BY <1>1 DEF PipeInv, CarriesSlot, Carries, CarriedOnce
  <2>2. \A v \in Slots : worker'[v].stage = "store" => host'[worker'[v].slot] = id'[worker'[v].slot]
    BY <1>2, <1>3, <1>6, <2>1 DEF PipeInv, BuffersRight
  <2>3. \A r \in Slots : state'[r] = "done" => host'[r] = id'[r]
    BY <1>1, <1>2, <1>6 DEF PipeInv, BuffersRight
  <2> QED BY <1>2, <2>2, <2>3 DEF PipeInv, BuffersRight
<1>11. CountExact'
  BY <1>2 DEF PipeInv, CountExact, InUse, FreeSlots
<1> QED BY <1>7, <1>8, <1>9, <1>10, <1>11 DEF PipeInv

\* The store of Done, outside the mutex, is made by the only carrier.
LEMMA StoresStep ==
  ASSUME PipeInv, NEW w \in Slots, Stores(w)
  PROVE  PipeInv'
<1> DEFINE s == worker[w].slot
<1>1. s \in Slots /\ Carries(w, s) /\ state[s] = "queued" /\ worker[w].stage = "store" /\ host[s] = id[s]
  <2>1. worker[w].stage = "store"
    BY DEF Stores
  <2>2. s \in Slots /\ Carries(w, s)
    BY <2>1 DEF PipeInv, CarriesSlot, Carries
  <2> QED BY <2>1, <2>2 DEF PipeInv, QueuedState, BuffersRight
<1>2. /\ state' = [state EXCEPT ![s] = "done"] /\ worker' = [worker EXCEPT ![w] = Stage("notify")]
      /\ UNCHANGED <<id, host, job_q, inflight, got>>
  BY DEF Stores
<1> HIDE DEF s
<1>3. /\ worker'[w].stage = "notify"
      /\ \A v \in Slots \ {w} : worker'[v] = worker[v]
      /\ worker' \in [Slots -> [stage : {"off", "wait", "gone", "copy", "store", "notify"}, slot : 0 .. W]]
  <2>1. Stage("notify") \in [stage : {"off", "wait", "gone", "copy", "store", "notify"}, slot : 0 .. W]
    BY PipeConstants DEF Stage, At
  <2> QED BY <1>2, <2>1, StageShapes DEF PipeInv, PipeTypes
<1>4. \A v, r \in Slots : Carries(v, r)' <=> Carries(v, r) /\ v # w
  BY <1>3 DEF Carries
<1>5. \A r \in Slots : InQueue(r)' <=> InQueue(r)
  BY <1>2 DEF InQueue
<1>6. state'[s] = "done" /\ \A r \in Slots : r # s => state'[r] = state[r]
  BY <1>1, <1>2 DEF PipeInv, PipeTypes
<1>7. \A v \in Slots : Carries(v, s) => v = w
  BY <1>1 DEF PipeInv, CarriedOnce
<1>8. \A r \in Slots : Carries(w, r) => r = s
  BY <1>1 DEF Carries
<1>9. PipeTypes'
  BY <1>2, <1>3 DEF PipeInv, PipeTypes
<1>10. QueuedOnce' /\ CarriedOnce' /\ CarriesSlot'
  <2>1. QueuedOnce'
    BY <1>2 DEF PipeInv, QueuedOnce
  <2>2. CarriedOnce'
    BY <1>4 DEF PipeInv, CarriedOnce
  <2> QED BY <1>3, <2>1, <2>2 DEF PipeInv, CarriesSlot
<1>11. QueueApart' /\ QueuedState'
  <2>1. ~InQueue(s)
    BY <1>1 DEF PipeInv, QueueApart
  <2>2. QueueApart'
    BY <1>4, <1>5 DEF PipeInv, QueueApart
  <2>3. ASSUME NEW r \in Slots
        PROVE  state'[r] = "queued" <=> InQueue(r)' \/ \E v \in Slots : Carries(v, r)'
    <3>1. CASE r = s
      BY <1>4, <1>5, <1>6, <1>7, <2>1, <3>1
    <3>2. CASE r # s
      BY <1>4, <1>5, <1>6, <1>8, <3>2 DEF PipeInv, QueuedState
    <3> QED BY <3>1, <3>2
  <2> QED BY <2>2, <2>3 DEF QueuedState
<1>12. BuffersRight'
  BY <1>1, <1>2, <1>3, <1>6 DEF PipeInv, BuffersRight, PipeTypes
<1>13. CountExact'
  <2>1. InUse' = InUse
    BY <1>1, <1>6 DEF InUse, FreeSlots
  <2> QED BY <1>2, <2>1 DEF PipeInv, CountExact
<1> QED BY <1>9, <1>10, <1>11, <1>12, <1>13 DEF PipeInv

\* A worker that leaves, or notifies, changes no slot.
LEMMA WorkerQuietStep ==
  ASSUME PipeInv, NEW w \in Slots, Leaves(w) \/ Notifies(w)
  PROVE  PipeInv'
<1>1. PICK st \in {"gone", "wait"} : worker' = [worker EXCEPT ![w] = Stage(st)]
  BY DEF Leaves, Notifies
<1>2. UNCHANGED <<state, id, host, job_q, inflight, got>> /\ worker[w].stage \in {"wait", "notify"}
  BY StageShapes DEF Leaves, Notifies
<1>3. /\ worker'[w].stage = st
      /\ \A v \in Slots \ {w} : worker'[v] = worker[v]
      /\ worker' \in [Slots -> [stage : {"off", "wait", "gone", "copy", "store", "notify"}, slot : 0 .. W]]
  <2>1. Stage(st) \in [stage : {"off", "wait", "gone", "copy", "store", "notify"}, slot : 0 .. W]
    BY PipeConstants DEF Stage, At
  <2> QED BY <1>1, <2>1, StageShapes DEF PipeInv, PipeTypes
<1>4. got' \subseteq Done
  BY <1>2 DEF PipeInv, PipeTypes, BuffersRight, Done
<1> QED BY <1>2, <1>3, <1>4, QuietStep

-----------------------------------------------------------------------------
\* The invariant holds of a pipe not yet started.
LEMMA PipeInitially == StagingInit => PipeInv
<1> SUFFICES ASSUME StagingInit PROVE PipeInv
  OBVIOUS
<1>1. /\ state = [s \in Slots |-> "free"] /\ id = [s \in Slots |-> None]
      /\ host = [s \in Slots |-> None] /\ job_q = <<>> /\ inflight = 0 /\ got = {}
      /\ worker = [w \in Slots |-> Stage("off")]
  BY DEF StagingInit
<1>2. job_q \in Seq(Slots) /\ Len(job_q) = 0
  BY <1>1, EmptySeq
<1>3. \A w \in Slots : worker[w].stage = "off"
  BY <1>1, StageShapes
<1>4. worker \in [Slots -> [stage : {"off", "wait", "gone", "copy", "store", "notify"}, slot : 0 .. W]]
  BY <1>1, PipeConstants DEF Stage, At
<1>5. PipeTypes
  BY <1>1, <1>2, <1>4 DEF PipeTypes
<1>6. QueuedOnce /\ CarriedOnce /\ QueueApart /\ QueuedState /\ CarriesSlot
  BY <1>1, <1>2, <1>3
  DEF QueuedOnce, CarriedOnce, QueueApart, QueuedState, CarriesSlot, Carries, InQueue
<1>7. BuffersRight
  BY <1>1, <1>3 DEF BuffersRight
<1>8. CountExact
  <2>1. InUse = {}
    BY <1>1 DEF InUse, FreeSlots
  <2> QED BY <1>1, <2>1, FS_EmptySet DEF CountExact
<1> QED BY <1>5, <1>6, <1>7, <1>8 DEF PipeInv

\* Every step keeps the invariant.
LEMMA PipePreserved == PipeInv /\ [StagingNext]_stagingVars => PipeInv'
<1> SUFFICES ASSUME PipeInv, [StagingNext]_stagingVars PROVE PipeInv'
  OBVIOUS
<1>1. CASE UNCHANGED stagingVars
  <2>1. got' \subseteq Done
    BY <1>1 DEF stagingVars, PipeInv, PipeTypes, BuffersRight, Done
  <2>2. worker' \in [Slots -> [stage : {"off", "wait", "gone", "copy", "store", "notify"}, slot : 0 .. W]]
    BY <1>1 DEF stagingVars, PipeInv, PipeTypes
  <2> QED BY <1>1, <2>1, <2>2, QuietStep DEF stagingVars
<1>2. ASSUME NEW w \in Slots, WorkerSteps(w) PROVE PipeInv'
  BY <1>2, TakesStep, CopiesStep, StoresStep, WorkerQuietStep DEF WorkerSteps
<1> QED BY <1>1, <1>2, StartStep, ClientQuietStep, SubmitStep, ReleaseStep DEF StagingNext

-----------------------------------------------------------------------------
(* The theorems.                                                           *)

\* Every reachable state of the pipe satisfies the inductive invariant.
THEOREM PipeSafe == StagingSpec => []PipeInv
BY PipeInitially, PipePreserved, PTL DEF StagingSpec

\* The slot accounts of promote_pipe.hpp: the count is the number of slots in
\* use, the self-heal of wait_done never fires, a queued slot is in one place,
\* and a slot the client was told of holds the vector it asked for.
THEOREM PipeSlotsExact == StagingSpec => []SlotsExact
<1>1. PipeInv => SlotsExact
  <2> SUFFICES ASSUME PipeInv PROVE SlotsExact
    OBVIOUS
  <2>1. inflight = Cardinality(Slots \ FreeSlots)
    BY DEF PipeInv, CountExact, InUse
  <2>2. Healed = inflight
    BY NothingToHeal
  <2>3. ASSUME NEW s \in Slots
        PROVE  Cardinality(Asked(s)) + Cardinality(Holding(s)) = IF state[s] = "queued" THEN 1 ELSE 0
    <3>1. Holding(s) = {w \in Slots : Carries(w, s)}
      <4>1. ASSUME NEW w \in Slots PROVE worker[w] \in {At("copy", s), At("store", s)} <=> Carries(w, s)
        BY DEF PipeInv, PipeTypes, At, Carries
      <4> QED BY <4>1 DEF Holding
    <3>2. Asked(s) = {i \in 1 .. Len(job_q) : job_q[i] = s}
      BY LenProperties DEF Asked, PipeInv, PipeTypes
    <3>3. CASE InQueue(s)
      <4>1. PICK i \in 1 .. Len(job_q) : Asked(s) = {i}
        BY <3>2, <3>3 DEF InQueue, PipeInv, QueuedOnce
      <4>2. Holding(s) = {} /\ state[s] = "queued"
        BY <3>1, <3>3 DEF PipeInv, QueueApart, QueuedState
      <4>3. Cardinality(Asked(s)) = 1
        BY <4>1, FS_Singleton
      <4>4. Cardinality(Holding(s)) = 0
        BY <4>2, FS_EmptySet
      <4> QED BY <4>2, <4>3, <4>4
    <3>4. CASE ~InQueue(s) /\ \E w \in Slots : Carries(w, s)
      <4>1. PICK w \in Slots : Holding(s) = {w}
        BY <3>1, <3>4 DEF PipeInv, CarriedOnce
      <4>2. Asked(s) = {} /\ state[s] = "queued"
        BY <3>2, <3>4 DEF InQueue, PipeInv, QueuedState
      <4>3. Cardinality(Asked(s)) = 0
        BY <4>2, FS_EmptySet
      <4>4. Cardinality(Holding(s)) = 1
        BY <4>1, FS_Singleton
      <4> QED BY <4>2, <4>3, <4>4
    <3>5. CASE ~InQueue(s) /\ ~\E w \in Slots : Carries(w, s)
      <4>1. Asked(s) = {} /\ Holding(s) = {} /\ state[s] # "queued"
        BY <3>1, <3>2, <3>5 DEF InQueue, PipeInv, QueuedState
      <4> QED BY <4>1, FS_EmptySet
    <3> QED BY <3>3, <3>4, <3>5
  <2>4. \A s \in got : state[s] = "done" /\ host[s] = id[s]
    BY DEF PipeInv, PipeTypes, BuffersRight
  <2> QED BY <2>1, <2>2, <2>3, <2>4 DEF SlotsExact
<1> QED BY <1>1, PipeSafe, PTL
==============================================================================
