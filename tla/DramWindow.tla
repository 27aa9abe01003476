----------------------------- MODULE DramWindow -----------------------------
(***************************************************************************)
(* The DRAM residency window of src/serving/dram_window.hpp: a fixed arena *)
(* of page frames in front of the CXL-SSD, a page -> frame map, a clock    *)
(* hand, hard pins, time-limited soft pins, and frames reserved as the     *)
(* destination of an asynchronous page read (a "fill").                    *)
(*                                                                         *)
(* Every public operation runs under the window's one mutex, so it is one  *)
(* action here; an operation on a range of pages that reads what it has    *)
(* just promoted (copy_through, lookup_or_promote, try_copy_resident)      *)
(* takes one step per page while "rd" holds the mutex.  An operation on a  *)
(* range whose pages do not depend on each other (pin, install_full_pages, *)
(* install_host, promote_span) is a sequence of one-page actions.          *)
(*                                                                         *)
(* Bytes are counted in pages.  A frame's contents are the page whose      *)
(* bytes it holds, or Garbage.  The order of the soft_pin_frames vector    *)
(* has no effect, so it is a bag: the number of times a frame is listed.   *)
(***************************************************************************)
EXTENDS Integers, FiniteSets

CONSTANTS
  Pages,            \* page offsets of the SSD image, divided by the page size
  NFrames,          \* n_frames
  PinCap,           \* pin_bytes_cap, in pages
  SoftCap,          \* soft_pin_bytes_cap, in pages
  MaxTtl,           \* largest soft-pin time to live a caller passes
  SoftPinNeighbors, \* soft_pin_neighbors
  PromoteRanges,    \* <<first, last>> page ranges of promoting reads
  CopyRanges,       \* <<first, last>> page ranges of resident-only reads
  HostCovers,       \* whether install_host is given whole pages (set of BOOLEAN)
  MaxFills,         \* bound: fills outstanding at a time
  MaxListed         \* bound: times one frame may be listed in soft_pin_frames

ASSUME WindowConstants ==
  /\ Pages \subseteq Nat /\ IsFiniteSet(Pages)
  /\ NFrames \in Nat \ {0}
  /\ PinCap \in Nat /\ SoftCap \in Nat
  /\ MaxTtl \in Nat /\ MaxFills \in Nat /\ MaxListed \in Nat
  /\ SoftPinNeighbors \in BOOLEAN
  /\ PromoteRanges \subseteq {r \in Pages \X Pages : r[1] <= r[2] /\ r[1]..r[2] \subseteq Pages}
  /\ CopyRanges \subseteq {r \in Pages \X Pages : r[1] <= r[2] /\ r[1]..r[2] \subseteq Pages}
  /\ HostCovers \subseteq BOOLEAN

VARIABLES
  direct,        \* the pipe reads into reserved frames (direct_install)
  map,           \* page -> frame, NoFrame when the page is not in the map
  frame_key,     \* frame -> page, FreeKey for UINT64_MAX
  frame_pinned,  \* frame -> hard-pinned?
  frame_filling, \* frame -> destination of an outstanding fill?
  soft,          \* frame_soft_ttl, soft_pin_bytes_used and soft_pin_frames
  pinned_pages,
  pin_used,      \* pin_bytes_used, in pages
  clock_hand,    \* clock_hand % n_frames
  arena,         \* frame -> page whose bytes it holds, or Garbage
  fills,         \* fills handed out and not yet committed or aborted
  rd,            \* the ranged read that holds the mutex, if any
  copied         \* the last page copied out: which was asked for, which was got

vars == <<direct, map, frame_key, frame_pinned, frame_filling, soft, pinned_pages,
          pin_used, clock_hand, arena, fills, rd, copied>>

Frames  == 0 .. NFrames - 1
NoFrame == -1
FreeKey == -1
Garbage == -1
NoPage  == -1

Idle   == [phase |-> "idle", at |-> NoPage, first |-> NoPage, last |-> NoPage]
Ttl    == 0 .. MaxTtl
FillOf == [page : Pages, frame : Frames, landed : BOOLEAN]

Init ==
  /\ direct \in BOOLEAN
  /\ map = [p \in Pages |-> NoFrame]
  /\ frame_key = [f \in Frames |-> FreeKey]
  /\ frame_pinned = [f \in Frames |-> FALSE]
  /\ frame_filling = [f \in Frames |-> FALSE]
  /\ soft = [ttl |-> [f \in Frames |-> 0], used |-> 0, listed |-> [f \in Frames |-> 0]]
  /\ pinned_pages = {}
  /\ pin_used = 0
  /\ clock_hand = 0
  /\ arena = [f \in Frames |-> Garbage]
  /\ fills = {}
  /\ rd = Idle
  /\ copied = [want |-> NoPage, got |-> NoPage]

-----------------------------------------------------------------------------
(* Soft pins.  Both helpers map the soft-pin record to its next value.     *)

Mapped(p) == p \in Pages /\ map[p] # NoFrame

\* The saturating subtraction of one page from soft_pin_bytes_used.
Less(n) == IF n > 1 THEN n - 1 ELSE 0

\* Mutant: the released soft pin is not given back to the budget.
clear_soft_ttl_leaks(s, f) == [s EXCEPT !.ttl[f] = 0]

clear_soft_ttl(s, f) ==
  IF s.ttl[f] = 0
  THEN s
  ELSE [ttl |-> [s.ttl EXCEPT ![f] = 0], used |-> Less(s.used), listed |-> s.listed]

set_soft_ttl(s, f, ttl, pinned) ==
  IF ttl = 0 \/ pinned[f] \/ (s.ttl[f] = 0 /\ s.used + 1 > SoftCap)
  THEN s
  ELSE IF s.ttl[f] = 0
       THEN [ttl    |-> [s.ttl EXCEPT ![f] = ttl],
             used   |-> s.used + 1,
             listed |-> [s.listed EXCEPT ![f] = @ + 1]]
       ELSE [ttl |-> [s.ttl EXCEPT ![f] = IF ttl > @ THEN ttl ELSE @],
             used |-> s.used, listed |-> s.listed]

\* Bound on the vector, which the code lets grow without limit.
ListBounded(s) == \A f \in Frames : s.listed[f] <= MaxListed

-----------------------------------------------------------------------------
(* Clock allocation: evict_frame_unlocked.                                 *)

ClockDist(f) == IF f >= clock_hand THEN f - clock_hand ELSE f + NFrames - clock_hand
\* Mutants: the hand is not taken modulo n_frames; it stays on the frame.
NextHandUnwrapped(f) == f + 1
NextHandStays(f) == f

NextHand(f)  == IF f + 1 = NFrames THEN 0 ELSE f + 1

FirstFromHand(S, f) == f \in S /\ \A g \in S : ClockDist(f) <= ClockDist(g)

Evictable == {f \in Frames : ~frame_pinned[f] /\ ~frame_filling[f]}
Unpinned  == {f \in Evictable : soft.ttl[f] = 0}

\* First pass skips soft pins, second ignores them, and when every frame is
\* pinned or filling the function falls through to "return 0".
Victim(f) ==
  \/ FirstFromHand(Unpinned, f)
  \/ Unpinned = {} /\ FirstFromHand(Evictable, f)
  \/ Evictable = {} /\ f = 0

\* Mutant: the evicted page stays in the map.
EvictedMapKept(f) == map

\* What the eviction of frame f leaves of the map, the soft pins and the hand.
EvictedMap(f) ==
  IF f \in Evictable /\ frame_key[f] # FreeKey
  THEN [map EXCEPT ![frame_key[f]] = NoFrame]
  ELSE map

EvictedSoft(f) ==
  IF f \in Evictable /\ frame_key[f] # FreeKey THEN clear_soft_ttl(soft, f) ELSE soft

EvictedHand(f) == IF f \in Evictable THEN NextHand(f) ELSE clock_hand

\* Allocate frame f, write the bytes, record page p as its key and map it.
Place(p, f, bytes) ==
  /\ Victim(f)
  /\ arena' = [arena EXCEPT ![f] = bytes]
  /\ frame_key' = [frame_key EXCEPT ![f] = p]
  /\ map' = [EvictedMap(f) EXCEPT ![p] = f]
  /\ clock_hand' = EvictedHand(f)

-----------------------------------------------------------------------------
(* Promotion and installation.                                             *)

\* The mutex is free: no ranged read is under way.
Free == rd = Idle

\* Mutant: the cap is tested before the page is added.
PromoteHitOverCap(p, pin) ==
  /\ Mapped(p)
  /\ IF pin /\ ~frame_pinned[map[p]] /\ pin_used <= PinCap
     THEN /\ frame_pinned' = [frame_pinned EXCEPT ![map[p]] = TRUE]
          /\ pinned_pages' = pinned_pages \cup {p}
          /\ pin_used' = pin_used + 1
     ELSE UNCHANGED <<frame_pinned, pinned_pages, pin_used>>
  /\ UNCHANGED <<map, frame_key, frame_filling, soft, clock_hand, arena>>

\* promote_page_unlocked on a resident page.
PromoteHit(p, pin) ==
  /\ Mapped(p)
  /\ IF pin /\ ~frame_pinned[map[p]] /\ pin_used + 1 <= PinCap
     THEN /\ frame_pinned' = [frame_pinned EXCEPT ![map[p]] = TRUE]
          /\ pinned_pages' = pinned_pages \cup {p}
          /\ pin_used' = pin_used + 1
     ELSE UNCHANGED <<frame_pinned, pinned_pages, pin_used>>
  /\ UNCHANGED <<map, frame_key, frame_filling, soft, clock_hand, arena>>

\* promote_page_unlocked on an absent page: allocate, copy from the SSD, map.
PromoteMiss(p, pin) ==
  /\ ~Mapped(p)
  /\ \E f \in Frames :
       /\ Place(p, f, p)
       /\ soft' = clear_soft_ttl(EvictedSoft(f), f)
       /\ IF pin /\ pin_used + 1 <= PinCap
          THEN /\ frame_pinned' = [frame_pinned EXCEPT ![f] = TRUE]
               /\ pinned_pages' = pinned_pages \cup {p}
               /\ pin_used' = pin_used + 1
          ELSE /\ frame_pinned' = [frame_pinned EXCEPT ![f] = FALSE]
               /\ UNCHANGED <<pinned_pages, pin_used>>
  /\ UNCHANGED frame_filling

\* pin, pin_vec_ids: one page of the range.
Pin(p) ==
  /\ Free
  /\ PromoteHit(p, TRUE) \/ PromoteMiss(p, TRUE)
  /\ UNCHANGED <<fills, rd, copied>>

\* The soft pins install_full_page sets on a page it just placed in frame f,
\* and on the neighbouring pages when soft_pin_neighbors is on.
InstalledSoft(p, f, ttl, newmap, newpinned) ==
  LET cleared == clear_soft_ttl(EvictedSoft(f), f)
      own     == set_soft_ttl(cleared, f, ttl, newpinned)
      prev    == IF SoftPinNeighbors /\ p - 1 \in Pages /\ newmap[p - 1] # NoFrame
                 THEN set_soft_ttl(own, newmap[p - 1], ttl, newpinned) ELSE own
  IN  IF SoftPinNeighbors /\ p + 1 \in Pages /\ newmap[p + 1] # NoFrame
      THEN set_soft_ttl(prev, newmap[p + 1], ttl, newpinned) ELSE prev

\* install_full_page_unlocked: a page already fetched into host memory.
InstallHit(p, ttl) ==
  /\ Free /\ Mapped(p)
  /\ soft' = set_soft_ttl(soft, map[p], ttl, frame_pinned)
  /\ ListBounded(soft')
  /\ UNCHANGED <<map, frame_key, frame_pinned, frame_filling, pinned_pages, pin_used,
                 clock_hand, arena, fills, rd, copied>>

InstallMiss(p, ttl) ==
  /\ Free /\ ~Mapped(p)
  /\ \E f \in Frames :
       /\ Place(p, f, p)
       /\ frame_pinned' = [frame_pinned EXCEPT ![f] = FALSE]
       /\ soft' = InstalledSoft(p, f, ttl, map', frame_pinned')
  /\ ListBounded(soft')
  /\ UNCHANGED <<frame_filling, pinned_pages, pin_used, fills, rd, copied>>

\* promote_span: its unlocked look-up and SSD read have no effect on the
\* window; the second critical section looks again, then installs.
PromoteSpan(p) ==
  /\ Free /\ ~Mapped(p)
  /\ \E f \in Frames :
       /\ Place(p, f, p)
       /\ frame_pinned' = [frame_pinned EXCEPT ![f] = FALSE]
       /\ soft' = EvictedSoft(f)
  /\ UNCHANGED <<frame_filling, pinned_pages, pin_used, fills, rd, copied>>

\* install_host: host bytes that cover the page or only part of it.  A miss
\* zeroes the frame first, so a partial install leaves it part zeros.
InstallHost(p, whole) ==
  /\ Free
  /\ \/ /\ Mapped(p)
        /\ arena' = IF whole THEN [arena EXCEPT ![map[p]] = p] ELSE arena
        /\ UNCHANGED <<map, frame_key, frame_pinned, soft, clock_hand>>
     \/ /\ ~Mapped(p)
        /\ \E f \in Frames :
             /\ Place(p, f, IF whole THEN p ELSE Garbage)
             /\ frame_pinned' = [frame_pinned EXCEPT ![f] = FALSE]
             /\ soft' = EvictedSoft(f)
  /\ UNCHANGED <<frame_filling, pinned_pages, pin_used, fills, rd, copied>>

touch_soft_pin(p, ttl) ==
  /\ Free /\ Mapped(p) /\ ttl # 0
  /\ soft' = set_soft_ttl(soft, map[p], ttl, frame_pinned)
  /\ ListBounded(soft')
  /\ UNCHANGED <<map, frame_key, frame_pinned, frame_filling, pinned_pages, pin_used,
                 clock_hand, arena, fills, rd, copied>>

-----------------------------------------------------------------------------
(* Fills: reserve a frame, let the device write it, commit or abort.       *)

\* Only a pipe with direct_install reserves frames.
reserve_fill(p) ==
  /\ direct /\ Free /\ ~Mapped(p)
  /\ Cardinality(fills) < MaxFills
  /\ \E f \in Frames :
       /\ Victim(f)
       /\ frame_filling' = [frame_filling EXCEPT ![f] = TRUE]
       /\ frame_key' = [frame_key EXCEPT ![f] = p]
       /\ map' = EvictedMap(f)
       /\ soft' = EvictedSoft(f)
       /\ clock_hand' = EvictedHand(f)
       /\ arena' = [arena EXCEPT ![f] = Garbage]
       /\ fills' = fills \cup {[page |-> p, frame |-> f, landed |-> FALSE]}
  /\ UNCHANGED <<frame_pinned, pinned_pages, pin_used, rd, copied>>

\* The device, or the copy worker, writes the page.  It does not take the
\* mutex, so it may run in the middle of a ranged read.
FillLands(x) ==
  /\ ~x.landed
  /\ arena' = [arena EXCEPT ![x.frame] = x.page]
  /\ fills' = (fills \ {x}) \cup {[x EXCEPT !.landed = TRUE]}
  /\ UNCHANGED <<map, frame_key, frame_pinned, frame_filling, soft, pinned_pages,
                 pin_used, clock_hand, rd, copied>>

commit_fill(x, ttl) ==
  /\ Free /\ x.landed
  /\ fills' = fills \ {x}
  /\ IF ~frame_filling[x.frame]
     THEN UNCHANGED <<map, frame_key, frame_filling, soft>>
     ELSE /\ frame_filling' = [frame_filling EXCEPT ![x.frame] = FALSE]
          /\ IF Mapped(x.page)
             THEN /\ frame_key' = [frame_key EXCEPT ![x.frame] = FreeKey]
                  /\ UNCHANGED <<map, soft>>
             ELSE /\ frame_key' = [frame_key EXCEPT ![x.frame] = x.page]
                  /\ map' = [map EXCEPT ![x.page] = x.frame]
                  /\ soft' = set_soft_ttl(soft, x.frame, ttl, frame_pinned)
  /\ ListBounded(soft')
  /\ UNCHANGED <<frame_pinned, pinned_pages, pin_used, clock_hand, arena, rd, copied>>

abort_fill(x) ==
  /\ Free /\ x.landed
  /\ fills' = fills \ {x}
  /\ IF frame_filling[x.frame]
     THEN /\ frame_filling' = [frame_filling EXCEPT ![x.frame] = FALSE]
          /\ frame_key' = [frame_key EXCEPT ![x.frame] = FreeKey]
     ELSE UNCHANGED <<frame_filling, frame_key>>
  /\ UNCHANGED <<map, frame_pinned, soft, pinned_pages, pin_used, clock_hand, arena, rd, copied>>

-----------------------------------------------------------------------------
(* Ranged reads: copy_through and lookup_or_promote promote every page of  *)
(* the range, then copy them out; try_copy_resident only copies, and only  *)
(* when every page is already there.                                       *)

BeginPromotingRead(r) ==
  /\ Free
  /\ rd' = [phase |-> "promote", at |-> r[1], first |-> r[1], last |-> r[2]]
  /\ UNCHANGED <<map, frame_key, frame_pinned, frame_filling, soft, pinned_pages,
                 pin_used, clock_hand, arena, fills, copied>>

\* Mutant: only the first page of the range is looked up.
try_copy_resident_first(r) ==
  /\ Free /\ Mapped(r[1])
  /\ rd' = [phase |-> "copy", at |-> r[1], first |-> r[1], last |-> r[2]]
  /\ UNCHANGED <<map, frame_key, frame_pinned, frame_filling, soft, pinned_pages,
                 pin_used, clock_hand, arena, fills, copied>>

try_copy_resident(r) ==
  /\ Free
  /\ \A p \in r[1]..r[2] : Mapped(p)
  /\ rd' = [phase |-> "copy", at |-> r[1], first |-> r[1], last |-> r[2]]
  /\ UNCHANGED <<map, frame_key, frame_pinned, frame_filling, soft, pinned_pages,
                 pin_used, clock_hand, arena, fills, copied>>

ReadPromotes ==
  /\ rd.phase = "promote"
  /\ PromoteHit(rd.at, FALSE) \/ PromoteMiss(rd.at, FALSE)
  /\ rd' = IF rd.at = rd.last
           THEN [rd EXCEPT !.phase = "copy", !.at = rd.first]
           ELSE [rd EXCEPT !.at = rd.at + 1]
  /\ UNCHANGED <<fills, copied>>

\* "size_t fr = map[po]": on an absent key, operator[] inserts frame 0.
ReadCopies ==
  /\ rd.phase = "copy"
  /\ map' = IF Mapped(rd.at) THEN map ELSE [map EXCEPT ![rd.at] = 0]
  /\ copied' = [want |-> rd.at, got |-> arena[map'[rd.at]]]
  /\ rd' = IF rd.at = rd.last THEN Idle ELSE [rd EXCEPT !.at = rd.at + 1]
  /\ UNCHANGED <<frame_key, frame_pinned, frame_filling, soft, pinned_pages, pin_used,
                 clock_hand, arena, fills>>

-----------------------------------------------------------------------------
(* Flushing and ageing.                                                    *)

\* Mutant: a flush drops pinned pages.
KeptFilling == {f \in Frames : frame_filling[f]}

Kept == {f \in Frames : frame_pinned[f] \/ frame_filling[f]}

\* The saturating subtraction of k pages from soft_pin_bytes_used.
LessBy(n, k) == IF n > k THEN n - k ELSE 0

flush ==
  LET dropped == {f \in Frames \ Kept : soft.ttl[f] > 0}
  IN  /\ Free
      /\ map' = [p \in Pages |->
                   IF \E f \in Frames \ Kept : frame_key[f] = p THEN NoFrame ELSE map[p]]
      /\ frame_key' = [f \in Frames |-> IF f \in Kept THEN frame_key[f] ELSE FreeKey]
      /\ soft' = [ttl    |-> [f \in Frames |-> IF f \in dropped THEN 0 ELSE soft.ttl[f]],
                  used   |-> LessBy(soft.used, Cardinality(dropped)),
                  listed |-> [f \in Frames |-> 0]]
      /\ clock_hand' = 0
      /\ UNCHANGED <<frame_pinned, frame_filling, pinned_pages, pin_used, arena, fills, rd, copied>>

\* Callers must not reset the window while fills are outstanding; no caller
\* in the serving program resets it at all.
flush_all ==
  /\ Free /\ fills = {}
  /\ map' = [p \in Pages |-> NoFrame]
  /\ frame_key' = [f \in Frames |-> FreeKey]
  /\ frame_pinned' = [f \in Frames |-> FALSE]
  /\ frame_filling' = [f \in Frames |-> FALSE]
  /\ soft' = [ttl |-> [f \in Frames |-> 0], used |-> 0, listed |-> [f \in Frames |-> 0]]
  /\ pinned_pages' = {}
  /\ pin_used' = 0
  /\ clock_hand' = 0
  /\ UNCHANGED <<arena, fills, rd, copied>>

\* Each listing of a frame takes one hop off its ttl until that is zero; a
\* listing survives if the ttl is still positive after it.
\* tick_soft_pins_if_pressure tests the pressure under an earlier hold of the
\* mutex, so its tick, too, can happen in any state.
tick_soft_pins ==
  LET spent == {f \in Frames : soft.ttl[f] > 0 /\ soft.listed[f] >= soft.ttl[f]}
  IN  /\ Free
      /\ soft' = [ttl    |-> [f \in Frames |-> LessBy(soft.ttl[f], soft.listed[f])],
                  used   |-> LessBy(soft.used, Cardinality(spent)),
                  listed |-> [f \in Frames |->
                                CASE soft.ttl[f] = 0 -> 0
                                  [] f \in spent -> soft.ttl[f] - 1
                                  [] OTHER -> soft.listed[f]]]
      /\ UNCHANGED <<map, frame_key, frame_pinned, frame_filling, pinned_pages, pin_used,
                     clock_hand, arena, fills, rd, copied>>

-----------------------------------------------------------------------------
Steps ==
  \/ \E p \in Pages : Pin(p) \/ PromoteSpan(p) \/ reserve_fill(p)
  \/ \E p \in Pages, t \in Ttl :
        InstallHit(p, t) \/ InstallMiss(p, t) \/ touch_soft_pin(p, t)
  \/ \E p \in Pages, w \in HostCovers : InstallHost(p, w)
  \/ \E x \in fills : FillLands(x) \/ abort_fill(x) \/ \E t \in Ttl : commit_fill(x, t)
  \/ \E r \in PromoteRanges : BeginPromotingRead(r)
  \/ \E r \in CopyRanges : try_copy_resident(r)
  \/ ReadPromotes
  \/ ReadCopies
  \/ flush
  \/ flush_all
  \/ tick_soft_pins

Next == Steps /\ UNCHANGED direct

Spec == Init /\ [][Next]_vars
-----------------------------------------------------------------------------
(* Properties.                                                             *)

SoftRecord == [ttl : [Frames -> Ttl], used : Nat, listed : [Frames -> Nat]]

\* The window's fields have the shapes the class declares.
TypeOK ==
  /\ direct \in BOOLEAN
  /\ map \in [Pages -> Frames \cup {NoFrame}]
  /\ frame_key \in [Frames -> Pages \cup {FreeKey}]
  /\ frame_pinned \in [Frames -> BOOLEAN]
  /\ frame_filling \in [Frames -> BOOLEAN]
  /\ soft \in SoftRecord
  /\ pinned_pages \subseteq Pages
  /\ pin_used \in Nat
  /\ clock_hand \in Frames
  /\ arena \in [Frames -> Pages \cup {Garbage}]
  /\ fills \subseteq FillOf
  /\ rd \in [phase : {"idle", "promote", "copy"}, at : Pages \cup {NoPage},
              first : Pages \cup {NoPage}, last : Pages \cup {NoPage}]
  /\ copied \in [want : Pages \cup {NoPage}, got : Pages \cup {Garbage}]

\* The map and frame_key are inverse to each other on the frames that hold a
\* committed page: no frame serves two pages and no page is held by a frame
\* the map has forgotten (a leaked frame).
MapAgrees ==
  /\ \A p \in Pages : Mapped(p) => frame_key[map[p]] = p /\ ~frame_filling[map[p]]
  /\ \A f \in Frames : frame_key[f] # FreeKey /\ ~frame_filling[f] => map[frame_key[f]] = f

\* A resident page's frame holds that page's bytes: nothing a later promotion,
\* fill or install does changes what a hit reads.
BytesRight == \A p \in Pages : Mapped(p) => arena[map[p]] = p

\* An outstanding fill owns its frame: the device never writes into a frame
\* that is mapped, pinned, free or given to another fill.
FillsIsolated ==
  /\ \A x \in fills :
       /\ frame_filling[x.frame] /\ ~frame_pinned[x.frame]
       /\ frame_key[x.frame] = x.page
       /\ x.landed => arena[x.frame] = x.page
  /\ \A x, y \in fills : x.frame = y.frame => x = y
  /\ \A f \in Frames : frame_filling[f] => \E x \in fills : x.frame = f

PinnedFrames == {f \in Frames : frame_pinned[f]}

\* pin_bytes_used is the size of the pinned frames and respects the cap, and
\* pinned_pages are exactly the pages those frames hold.
PinAccounts ==
  /\ pin_used = Cardinality(PinnedFrames) /\ pin_used <= PinCap
  /\ \A p \in pinned_pages : Mapped(p) /\ frame_pinned[map[p]]
  /\ \A f \in PinnedFrames : frame_key[f] \in pinned_pages

SoftFrames(s) == {f \in Frames : s.ttl[f] > 0}

\* soft_pin_bytes_used is the size of the frames with a positive ttl (no
\* leak, no double release over evictions, flushes and ticks), respects the
\* cap, and only frames that hold a committed page are soft-pinned.
SoftAccounts ==
  /\ soft.used = Cardinality(SoftFrames(soft)) /\ soft.used <= SoftCap
  /\ \A f \in SoftFrames(soft) : frame_key[f] # FreeKey /\ ~frame_filling[f]

\* Every page a locked read copies out is the page that was asked for: what
\* copy_through, lookup_or_promote and try_copy_resident promise.  It holds when
\* the ranges they promote lie in one page (OnePageReads of DramWindowRoom); a
\* longer one may evict its own first page before it copies it.
ReadsRight == copied.want = copied.got

\* "1 = never evict (hard pin)": short of flush_all no step unmaps, moves or
\* overwrites a hard-pinned page.
PinsHold ==
  [][flush_all \/ \A p \in pinned_pages : p \in pinned_pages' /\ map'[p] = map[p]
                                           /\ arena'[map[p]] = p]_vars

-----------------------------------------------------------------------------
(* What the window promises its callers (module ResidencySet).             *)

Residency == INSTANCE ResidencySet WITH
               Capacity <- NFrames,
               early <- direct,
               resident <- {p \in Pages : Mapped(p)},
               pinned <- pinned_pages

\* The window implements a bounded set of resident pages in which pinned
\* pages stay and reads return the page asked for; without reserved frames no
\* page gives way while a frame is free, wherever pins, evictions and flushes
\* have left the clock hand.
ImplementsResidency == Residency!Spec
=============================================================================
