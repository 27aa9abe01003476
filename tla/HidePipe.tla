------------------------------ MODULE HidePipe ------------------------------
(***************************************************************************)
(* The fill pipe of src/serving/hide_fill.hpp: up to kSlots outstanding    *)
(* issues of SSD pages, read by the copy pool into a host buffer (or into  *)
(* reserved window frames) and then installed in the DRAM window, or kept  *)
(* in the buffer until the query that scores from it releases it.          *)
(*                                                                         *)
(* The module gives the operations of a set of pipes, one per compute      *)
(* thread; the schedulers that call them extend it.  Only the owner of a   *)
(* pipe runs its operations, so each is one step; the pool's jobs run      *)
(* between the steps, as CopyService promises.                             *)
(*                                                                         *)
(* An issue is cut into jobs of Chunk pages.  A job reads its pages, then  *)
(* stores their ready flags in order, its last accesses to the slot's      *)
(* memory; the model follows the flags, one CopyService job per page.  A   *)
(* slot issue allocates that memory and clear() frees it, so the issue's   *)
(* token also names the allocation.  Of the window only the set of         *)
(* resident pages is kept (module ResidencySet).                           *)
(***************************************************************************)
EXTENDS Integers, FiniteSets, FiniteSetsExt

CONSTANTS
  Pipes,       \* owners of a HidePipe
  Pages,       \* page numbers of the SSD image
  MaxSpan,     \* widest extent that is filled up (32)
  MaxTok,      \* bound: issues per pipe
  Configs      \* command lines, with the limits a run scales down

\* The command line is chosen once, in the initial state.
VARIABLE opt

Score == opt.score           \* "Window", "Bounce" or "Vmem"
Direct == opt.direct         \* direct_install
ExtentRun == opt.extent      \* extent_run
NSlots == opt.nslots         \* kSlots (32)
Chunk == opt.chunk           \* pages of one job (32)
MaxIssue == opt.max_issue    \* pages of one issue (1024)
Capacity == opt.capacity     \* frames of a pipe's window
Pins == opt.pins             \* pages of the entry and the medoids, hard-pinned once read

\* The pins are within their cap, and direct installs have a frame for every
\* page in flight and one to spare (256k frames, 32 slots of 1024 pages).
ASSUME PipeConstants ==
  /\ IsFiniteSet(Pipes) /\ IsFiniteSet(Pages) /\ Pages \subseteq Nat
  /\ MaxSpan \in Nat /\ MaxTok \in Nat
  /\ \A c \in Configs :
       /\ c.score \in {"Window", "Bounce", "Vmem"}
       /\ c.direct \in BOOLEAN /\ c.extent \in BOOLEAN
       /\ {c.nslots, c.chunk, c.max_issue, c.capacity} \subseteq Nat \ {0}
       /\ c.pins \subseteq Pages /\ c.warmed \in BOOLEAN
       /\ Cardinality(c.pins) + (IF c.direct THEN c.nslots * Max({c.max_issue, MaxSpan}) ELSE 0)
            < c.capacity

VARIABLES
  slot,       \* pipe -> slot number -> HideInflight
  resident,   \* pipe -> pages in its window
  next_tok,   \* pipe -> next token
  pending,    \* the pool's outstanding jobs: <<pipe, token, page>>
  finished    \* the jobs whose ready flag is stored

pipeVars == <<slot, resident, next_tok, pending, finished>>

Slots == 0 .. NSlots - 1
use_window == Score = "Window"
Jobs == Pipes \X (1 .. MaxTok) \X Pages

Pool == INSTANCE CopyService

NoIssue == [active |-> FALSE, tok |-> 0, pages |-> {}, consumed |-> {}]

\* hide_warm_entry_ball may have read the pins in before the first query.
PipeInit ==
  /\ opt \in Configs
  /\ slot = [h \in Pipes |-> [s \in Slots |-> NoIssue]]
  /\ resident = [h \in Pipes |-> IF opt.warmed THEN Pins ELSE {}]
  /\ next_tok = [h \in Pipes |-> 1]
  /\ Pool!Init

-----------------------------------------------------------------------------
(* What a pipe's owner can see.                                            *)

ReadyIn(h, x) == {p \in x.pages : <<h, x.tok, p>> \in finished}
Holding(sl, p) == {s \in Slots : sl[s].active /\ p \in sl[s].pages}

page_in_slot(h, p) == Holding(slot[h], p) # {}
\* Mutant: a listed page counts as ready.
page_ready_listed(h, p) == page_in_slot(h, p)

page_ready(h, p) == \E s \in Holding(slot[h], p) : p \in ReadyIn(h, slot[h][s])

covers(h, p) == IF use_window THEN p \in resident[h] ELSE page_ready(h, p)
coversAll(h, need) == \A p \in need : covers(h, p)

\* vec_src and copy_vec read a bounce page from the first active slot that
\* lists it; in the other modes they read the window or the SSD itself.
bounce_page(h, p) == Min(Holding(slot[h], p))
ReadsLanded(h, p) ==
  Score = "Bounce" => /\ page_in_slot(h, p)
                      /\ p \in ReadyIn(h, slot[h][bounce_page(h, p)])

-----------------------------------------------------------------------------
(* Operations.  Each maps the slots or the resident set to a next value.   *)

\* The frames that fills in flight have reserved.
Filling(sl) ==
  Cardinality({x \in Slots \X Pages :
                 Direct /\ sl[x[1]].active /\ x[2] \in sl[x[1]].pages \ sl[x[1]].consumed})

\* The window takes the pages of N in beside busy reserved frames.  The clock
\* never evicts a hard pin and, without direct installs, nothing while a frame
\* is free (ResidencySet, which the window implements, promises both); a fill
\* dropped at its commit, or a flush beside fills, leaves free frames the clock
\* comes to late.
Installs(R, N, busy) ==
  IF N = {} THEN {R}
  ELSE {X \in SUBSET (R \cup N) :
          /\ X \cap N # {} /\ (R \cup N) \cap Pins \subseteq X
          /\ Cardinality(X) + busy <= Capacity
          /\ Direct \/ Cardinality(X) = Min({Capacity, Cardinality(R \cup N)})}

\* A read or a pin promotes what is missing.
Promotes(h, R, N) == Installs(R, N \ R, Filling(slot[h]))

\* hide_pump and HidePipe::pump: consume what is ready, install it, and in
\* window mode clear the slots that are complete.
NewlyReady(h) ==
  UNION {ReadyIn(h, slot[h][s]) \ slot[h][s].consumed : s \in {x \in Slots : slot[h][x].active}}

\* Mutants: a slot is cleared at its first ready page; or never.
PumpedSlots_early(h) ==
  [s \in Slots |->
     LET x == slot[h][s] IN
     IF ~x.active THEN x
     ELSE IF use_window /\ ReadyIn(h, x) # {} THEN NoIssue
     ELSE [x EXCEPT !.consumed = ReadyIn(h, x)]]

PumpedSlots_keep(h) ==
  [s \in Slots |->
     LET x == slot[h][s] IN
     IF ~x.active THEN x ELSE [x EXCEPT !.consumed = ReadyIn(h, x)]]

PumpedSlots(h) ==
  [s \in Slots |->
     LET x == slot[h][s] IN
     IF ~x.active THEN x
     ELSE IF use_window /\ ReadyIn(h, x) = x.pages THEN NoIssue
     ELSE [x EXCEPT !.consumed = ReadyIn(h, x)]]

\* Reserving frames (direct_install) makes room when the issue is made, so
\* the commit of a fill evicts nothing; a page that is resident by then is dropped.
Installed(R, N) ==
  IF ~use_window THEN {R} ELSE IF Direct THEN {R \cup N} ELSE Installs(R, N, 0)

PumpedResident(h) == Installed(resident[h], NewlyReady(h))

\* hide_extent_run: fill the holes of a tight span.
hide_extent_run(P) ==
  LET span == Max(P) - Min(P) + 1
  IN  IF Cardinality(P) < 2 \/ span > MaxSpan \/ Cardinality(P) * 2 < span
      THEN P
      ELSE Min(P) .. Max(P)

\* The pages hide_issue asks the device for, given the window's pages R.
Fetched(R, miss) ==
  LET left == IF use_window THEN miss \ R ELSE miss
  IN  IF ExtentRun THEN hide_extent_run(left) ELSE left

InSlots(sl) == UNION {sl[s].pages : s \in {x \in Slots : sl[x].active}}

\* The distinct pages of need that are neither resident nor in flight.
Missing(sl, R, need) == (need \ InSlots(sl)) \ (IF use_window THEN R ELSE {})

FirstFree(sl) == Min({s \in Slots : ~sl[s].active})
Full(sl) == \A s \in Slots : sl[s].active

\* hide_issue into slot s: a new allocation, one job per page (chunk).
IssuedSlots(h, sl, s, P) ==
  [sl EXCEPT ![s] = [active |-> TRUE, tok |-> next_tok[h], pages |-> P, consumed |-> {}]]
JobsOf(h, P) == {<<h, next_tok[h], p>> : p \in P}

\* reserve_fill for each page asked, beside the frames reserved before: what
\* stays resident and what is issued.  A resident page is skipped, unless the
\* reservation of one before it has evicted it.
Reserved(R, asked, busy) ==
  IF ~(use_window /\ Direct) THEN {<<R, asked>>}
  ELSE {XP \in (SUBSET R) \X (SUBSET asked) :
          /\ asked \ R \subseteq XP[2] /\ XP[1] \cap XP[2] = {} /\ R \cap Pins \subseteq XP[1]
          /\ Cardinality(R \ XP[1]) <= Cardinality(XP[2])
          /\ Cardinality(XP[1]) + busy + Cardinality(XP[2]) <= Capacity}

\* The tail of HidePipe::issue once it has a slot: cap the miss list, issue.
\* Nothing is left to fetch when all of it has become resident meanwhile.
IssueInto(h, sl, s, R, miss) ==
  \E capped \in kSubset(Min({MaxIssue, Cardinality(miss)}), miss) :
  \E XP \in Reserved(R, Fetched(R, capped), Filling(sl)) :
    LET P == XP[2]
    IN  IF P = {}
        THEN /\ slot' = [slot EXCEPT ![h] = sl]
             /\ resident' = [resident EXCEPT ![h] = R]
             /\ UNCHANGED <<next_tok, pending, finished>>
        ELSE /\ next_tok[h] <= MaxTok
             /\ slot' = [slot EXCEPT ![h] = IssuedSlots(h, sl, s, P)]
             /\ next_tok' = [next_tok EXCEPT ![h] = @ + 1]
             /\ resident' = [resident EXCEPT ![h] = XP[1]]
             /\ Pool!Submit(JobsOf(h, P))

\* issue(pages, stall_if_full = false), as PrefetchHub::submit calls it.
\* Returns the token, or 0 when there is nothing to fetch or no free slot.
Submits(h, need) ==
  \E R \in PumpedResident(h) :
    LET sl   == PumpedSlots(h)
        miss == Missing(sl, R, need)
    IN  /\ miss # {} /\ ~Full(sl)
        /\ IssueInto(h, sl, FirstFree(sl), R, miss)

Refuses(h, need) ==
  \E R \in PumpedResident(h) :
    LET sl == PumpedSlots(h)
    IN  /\ Missing(sl, R, need) = {} \/ Full(sl)
        /\ slot' = [slot EXCEPT ![h] = sl]
        /\ resident' = [resident EXCEPT ![h] = R]
        /\ UNCHANGED <<next_tok, pending, finished>>

\* issue(pages, stall_if_full = true) with every slot taken.  In window mode
\* it waits (hide_wait) for the slot with the most consumed pages, the last of
\* those, installs it and takes its place; hide_issue drops what has become
\* resident.  In the other modes it pumps until a slot is free.
Stalled(h, need) ==
  Full(PumpedSlots(h)) /\ \E R \in PumpedResident(h) : Missing(PumpedSlots(h), R, need) # {}

StallSlot(sl) ==
  Max({s \in Slots : \A r \in Slots : Cardinality(sl[s].consumed) >= Cardinality(sl[r].consumed)})

StallEnds(h, s, miss) ==
  /\ use_window /\ ReadyIn(h, slot[h][s]) = slot[h][s].pages
  /\ \E R \in Installed(resident[h], slot[h][s].pages \ slot[h][s].consumed) :
       IssueInto(h, [slot[h] EXCEPT ![s] = NoIssue], s, R, miss)

\* pump alone.
Pumps(h) ==
  /\ slot' = [slot EXCEPT ![h] = PumpedSlots(h)]
  /\ \E R \in PumpedResident(h) : resident' = [resident EXCEPT ![h] = R]
  /\ UNCHANGED <<next_tok, pending, finished>>

\* Mutant: a slot goes when it lists any page of need.
Released_any(sl, toks, need) ==
  [s \in Slots |->
     IF ~use_window /\ sl[s].active /\ (sl[s].tok \in toks \/ need \cap sl[s].pages # {})
     THEN NoIssue ELSE sl[s]]

\* Mutant: tokens are not released, only the slots that own every page.
Released_owners(sl, toks, need) ==
  [s \in Slots |->
     IF ~use_window /\ sl[s].active /\ need # {} /\ need \subseteq sl[s].pages
     THEN NoIssue ELSE sl[s]]

\* release_tok for each token, then release_pages(need): every slot that
\* lists all of need goes.  Both do nothing in window mode.
Released(sl, toks, need) ==
  [s \in Slots |->
     IF /\ ~use_window /\ sl[s].active
        /\ sl[s].tok \in toks \/ (need # {} /\ need \subseteq sl[s].pages)
     THEN NoIssue ELSE sl[s]]

\* The pages of the issue that job j belongs to, and j's place in it.
IssueOf(j) == {k[3] : k \in {k \in pending \cup finished : k[1] = j[1] /\ k[2] = j[2]}}
ChunkOf(j) == Cardinality({p \in IssueOf(j) : p < j[3]}) \div Chunk

\* A copy worker stores the next ready flag of a job.
Lands(j) ==
  /\ \A k \in pending :
       k[1] = j[1] /\ k[2] = j[2] /\ ChunkOf(k) = ChunkOf(j) => j[3] <= k[3]
  /\ Pool!Finish(j)
  /\ UNCHANGED <<slot, resident, next_tok>>

-----------------------------------------------------------------------------
(* Properties of the pipes, whoever calls them.                            *)

\* A job writes only memory that is still allocated: the slot it was issued
\* for is active and still holds the same issue.
NoDanglingJob ==
  \A j \in pending : \E s \in Slots : slot[j[1]][s].active /\ slot[j[1]][s].tok = j[2]
=============================================================================
