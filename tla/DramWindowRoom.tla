--------------------------- MODULE DramWindowRoom ---------------------------
(***************************************************************************)
(* The window under the conditions its safety rests on, and the inductive  *)
(* invariant that follows from them.                                       *)
(***************************************************************************)
EXTENDS DramWindow

\* Pins and fills leave a frame to evict.
FrameToSpare == PinCap + MaxFills < NFrames

\* Every range that a read promotes lies in one page: so the records and the
\* vectors of the page-aligned layouts, not those of a packed one.
OnePageReads == \A r \in PromoteRanges : r[1] = r[2]

\* Hosts hand over whole pages.
WholePages == HostCovers \subseteq {TRUE}

Headroom == FrameToSpare /\ OnePageReads /\ WholePages

\* The mutex holder of a ranged read is at a page it has yet to promote, or
\* every page it has yet to copy is resident.
ReadInProgress ==
  \/ rd = Idle
  \/ rd.phase = "promote" /\ rd.at \in Pages /\ rd.at = rd.first /\ rd.at = rd.last
  \/ /\ rd.phase = "copy" /\ rd.at \in Pages /\ rd.last \in Pages /\ rd.at <= rd.last
     /\ \A p \in rd.at .. rd.last : Mapped(p)

FillsBounded == IsFiniteSet(fills) /\ Cardinality(fills) <= MaxFills

\* Without reserved frames the clock fills the window in order: every free frame
\* is ahead of the hand and every frame it may evict behind, so it evicts only
\* when no frame is free.  Pinned frames may be anywhere.
FreeAhead == ~direct =>
  /\ fills = {}
  /\ \A f \in Frames : frame_key[f] = FreeKey =>
       /\ clock_hand <= f
       /\ \A g \in Frames : frame_key[g] # FreeKey /\ ~frame_pinned[g] => g < clock_hand

\* The conjunction that every step preserves: each account needs the others
\* (that an evictable frame exists needs the pin and fill accounts, that a
\* fresh frame has no ttl needs the soft-pin account, and so on).
WindowInv ==
  /\ TypeOK
  /\ MapAgrees
  /\ BytesRight
  /\ FillsIsolated
  /\ PinAccounts
  /\ SoftAccounts
  /\ ReadsRight
  /\ ReadInProgress
  /\ FillsBounded
=============================================================================
