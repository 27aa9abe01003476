# A TLA+ development for the CXL-ANNS serving runtime

`src/serving` answers nearest-neighbour queries over a graph whose vectors live
on a CXL-attached SSD. A query walks the graph with compressed (PQ) codes held
in host memory, collects a candidate list, and needs the exact vectors of the
candidates only at the end. Their pages are read from the SSD by a pool of copy
threads while other queries walk; a DRAM window keeps recently read pages. The
development models the parts of this that share state, checks them with TLC on
small instances, and proves with TLAPS, for every size, the safety of the DRAM
window, the copy pool, the staging pipe, the code loader, the three schedulers,
the one-query searches and the tool that renumbers records. The tools under
`src/tools` that write the images the server reads are modelled too.

## 1. Inventory

| Part | Source | State | Operations | Correct when |
|---|---|---|---|---|
| DRAM window | `dram_window.hpp` | page map, frame keys, hard pins, soft-pin ttls and their list, byte counts, clock hand, arena, frames being filled | pin, promote, install, span and host installs, reserve / commit / abort of a fill, reads, flushes, ticks | map and frames are inverse, a mapped frame has its page's bytes, counts are exact, hard pins stay, reads give the page asked for |
| Copy pool | `page_copy_pool.hpp` | job vector with a head index, in-flight count, stop flag, sleeping workers | start, submit, submit_fn(s), loop, wait_idle, stop_join | a job runs once, none is lost, waits return only when the work is done |
| Fill pipe | `hide_fill.hpp` | up to 32 slots: pages, ready flags, buffer, token | issue with and without stall, pump, covers, wait_covering, release | no job outlives its slot, a scored page has landed |
| Parkable PQ query | `search_beam.cpp` (`PqQ`, `pqq_*`) | seat state, need, tokens | init, beam, issue, rank | ranked only when covered |
| Work-stealing scheduler | `search_beam.cpp` (`--steal-sched`, the default), `cont_batch.hpp` | seats per thread, shared ticket `next_q`, shared `nand_inflight` | fill, try_issue, rank, finish, pump | every query answered once; the wave count exact; threads leave nothing behind |
| Blocking scheduler | `search_beam.cpp` (pipe2, `--no-steal-sched`), `cont_batch.hpp` | seats per thread, strided queries | fill, submit_block, wait_covering, rank | as above, and the slots never run out |
| Shared scheduler | `search_beam.cpp` (`--cont-batch`) | seats shared by all workers under `sched_mu`, one pipe, one window | admit, pick, beam, issue, rank, finish, idle re-issue | a seat has one worker at a time; every query answered once |
| PQ table | `pq_table.hpp` | code rows, marks, scratch row | load_codes, lookups | rows end up under their new ids |
| Single-query PQ search | `search_beam.cpp` (`search_one_pq`) | candidate list, seen and expanded sets, a pipe | walk on codes, issue, wait, rank | every candidate ranked from bytes that arrived; ends |
| One-shot FP search | `search_beam.cpp` (`search_one_fp`) | the same, and the vertices pending a page | demand reads (P0, P1), scoring when resident (P2), committed waves (P3), scoring hop by hop | nothing seen is lost, the list holds the nearest of what was scored, ends |
| Demand-paged beam | `search_beam.cpp` (`search_one`) | beam, visited set | expand, rerank | answers in order |
| Prefetch policy, entry warm-up | `prefetch.hpp`, `hide_fill.hpp` | prefetch budget, pins | on_query_begin, on_expand, hide_warm_entry_ball | never changes an answer |
| Staging pipe | `promote_pipe.hpp` | slots, job queue, workers | start, try_submit, poll, wait_done, release, stop_join | slots and count agree, stopping ends (no caller starts it) |
| Placement | `placement.hpp`, `hide_collect_*` | header, slot map, bundle geometry | addresses of vectors, codes, rows, records, copies; ids of a page and pages of an id | addresses in their regions and apart; page arithmetic means what it says |
| Navigation graph | `nav_graph.hpp`, `build_nav_graph.cpp` | sampled records | sample, scan | samples are the records of their ids |
| Packing tools | `reorder_layout_bfs`, `pack_layout_*`, `pack_diskann_entry`, `pack_nbr_bundle`, `reorder_graph_degree` | input image, new order, output image, copying threads | choose an order, write header, codes, graph, vectors, entry list | the output is the raw data under new ids |
| Page remapping | `remap_diskann_pages.cpp` | mates, slots, map file, image | three pairings, extent moves, writing | the server reads each id's record through the map |
| Device interface | `vmem_prefetch.hpp` | - | batched ioctls | outside the program |
| Metrics, traces, hot set, score cache | `metrics.hpp`, `inflight_trace.hpp`, `hot_set.hpp`, `score_cache.hpp` | counters | - | no decision depends on them, or only tests call them |
| Experiments, PQ training, scripts, paper | `src/motivation_exps`, `build_diskann_pq.cpp`, `src/paper` | - | - | stand-alone programs and data |

**How the parts meet.** A compute thread owns seats and, except in the shared
scheduler, a pipe and a window. A seat's query beams on host data, then *issues*
its pages: the pipe keeps the ones that are neither in the window nor in flight,
takes a slot for them and hands chunks of pages to the copy pool. Pool threads
read the pages and set ready flags. The owner *pumps*: with window scoring the
ready pages are installed in the window and a complete slot is cleared; with
bounce or vmem scoring they stay in the slot until the query is ranked and
releases it. A query is *covered* when all its pages are in the window (or
ready in a slot); it is then ranked, answered and its seat emptied. The threads
share the pool, the ticket `next_q` and the count `nand_inflight` of waves. The
one-query searches run the same pipe from the inside of a query: they go on
expanding while the pages of earlier expansions are under way, keep the vertices
that wait for a page in a list, and score them when the page is resident, if it
still is. What they read was laid out by the packing tools, each of which takes
the image another one wrote.

**What is hard here.** Copy jobs write slot memory and window frames without a
lock while the owner pumps, releases and re-issues. Queries of one thread share
pages, so one query's release or eviction takes what another counts on. Seats
are parked and must be picked up again. The pool notifies outside its lock and
its queue is compacted between takes. The window is small compared with what is
pinned and filled, and a page can go again before its vector was scored. The
tools change ids, strides and record forms under each other. `PROJECT.json` lists
these hazards at their lines, with the properties that would catch them going wrong.

## 2. Modules

| Module | Models | Notes |
|---|---|---|
| `DramWindow` | every operation of `DramWindow` | one critical section of the mutex is one action; a ranged read takes one step per page while it holds the mutex, because it looks up what it promoted; `FillLands` is the device writing a frame without the lock |
| `ResidencySet` | what callers rely on: a bounded set of resident pages, pinned pages stay, reads are right | abstract specification of `DramWindow` |
| `DramWindowRoom` | the conditions under which the window is safe, and `WindowInv` | |
| `HostCopyProofs` | theorems about the window, refinement of `ResidencySet` included, and about the staging pipe | the two places where host memory holds copies of device pages |
| `PageCopyPool` | the pool, with its notifications, compaction, stop and restart | one critical section is one step; what the code does outside the mutex is a step of its own |
| `CopyService` | what a user of the pool relies on: a job runs exactly once and is never forgotten | abstract specification of `PageCopyPool`, and the form in which the schedulers see it; `Safety` is its part without fairness |
| `PageCopyPoolProofs` | theorems about the pool, `CopyService!Safety` included | |
| `HidePipe` | the fill pipe, operations only | of the window it keeps the set of resident pages, its pins and the frames reserved for fills in flight (`ResidencySet`), of the pool the pending jobs (`CopyService`). What `ResidencySet` promises is what `Installs` uses: pins stay, and a window without reserved frames evicts only when it is full; with direct installs the clock may evict early, and a reservation may push out a page that the same issue found resident |
| `PqSeats` | `PqQ` and `pqq_*` | extends `HidePipe`; the beam's outcome is an input: any member of `Cands[q]`. `Begins` is what admission does to the window: the flush, then the pinning of the entry and the medoids by `on_query_begin` |
| `StealSched`, `Pipe2Sched`, `ContBatch` | the three schedulers of `main` | each extends `PqSeats` |
| `HidePipeProofs` | lemmas about the pipe's operations, whoever calls them | extended by the proofs of the schedulers and the searches |
| `StealSchedProofs`, `Pipe2SchedProofs`, `ContBatchProofs` | theorems about the schedulers | |
| `PqCodes` | `load_codes` | |
| `Searches` | `search_one_pq`, `search_one_fp`, `search_one`, the prefetch policy and the entry warm-up | extends `HidePipe`: one query at a time, the pool landing pages between its steps and, with a shared window, other queries evicting them. Distances, by code and in full, are given; a vector is the set of pages it lies on. The vertices of a wave, and the vertices to be scored, take one step each |
| `SearchesProofs` | theorems about the searches | |
| `PromotePipe` | the staging pipe | locked blocks are steps; the copy, the store of Done and the notification are steps outside the mutex |
| `Placement` | `Placement` and the page arithmetic of `hide_fill.hpp` | operators on a header and a slot map; byte offsets are exact |
| `LayoutImage` | what the packing tools share: images, id assignment, the header's layout, copying threads, the entry list | an image is what stands at its offsets: a raw vector's number, a row, a code. A loop over a row or over all ids takes one step per id: `todo` is what it has still to go over |
| `ReorderBfs`, `PageBin`, `BundlePack`, `PageAlign`, `DiskannEntry`, `NbrBundle`, `NavGraph` | one tool each (`NbrBundle` also `reorder_graph_degree`) | extend `LayoutImage` |
| `LayoutTools` | any chain of the tools, and their properties | composes them |
| `PageRemap` | `remap_diskann_pages.cpp`, over `Placement` | jobs one after the other, a write may fail; each loop that pairs, assigns or moves is one step per edge, id or page |
| `IdMapProofs` | theorems about the programs that renumber: the remapping tool, `load_codes` and the packing tools | |
| `MC*` | instances | |

State keeps the source's names (`frame_key`, `soft_pin` as the record `soft`,
`q_head`, `next_q`, `nand_inflight`, `rr`, ...). Bytes are counted in pages, a
page's contents are the page's number or garbage, a vector's order is dropped
where nothing depends on it (`soft_pin_frames` is a bag). A slot's buffer and
flags are one allocation per issue, named by the issue's token, so that a job
that writes after `clear()` is visible (`NoDanglingJob`). Operators whose
comment starts with "Mutant" are deliberately wrong forms of the definition
that follows them; substituted for it, they must break the property they are
listed with in `PROJECT.json`.

Reading order: `DramWindow`, `DramWindowRoom`; `CopyService`, `PageCopyPool`;
`HidePipe`, `PqSeats`, `StealSched`; `Searches`; `Placement`, `LayoutImage`,
`LayoutTools`; then the rest.

## 3. Runs

All passing runs are exhaustive for their constants. A program's options
(scoring mode, direct installs, extent runs, slots, depth, policy, ...) are the
record `opt`, chosen in `Init` from the instance's `Configs`, so one run covers
several command lines.

| Run | Instance | What it shows |
|---|---|---|
| `window` | 4 pages, 3 frames, one hard pin, one soft pin, one fill, ttl up to 2, a frame listed at most twice, promoting reads of one page; windows with and without reserved frames | every operation in every order: `MapAgrees`, `PinAccounts`, `SoftAccounts`, `ReadsRight`, `PinsHold`, and refinement of `ResidencySet`. One pin and one fill in three frames leave exactly one frame to evict, the tightest case the code survives; two soft listings are what makes a tick age a frame twice |
| `window_span` (violation) | the same window, promoting reads of two pages | `ReadsRight` fails: the first page is a hit, which gives it no protection, the promotion of the second evicts it, and `map[po]` inserts frame 0 |
| `copy_pool` | 2 workers, 2 callers, 4 jobs, batches of 2, compaction above one consumed entry | single and batched submissions, compaction, sleeping, stop with jobs queued, restart: `InflightExact`, `IdleMeansDone`, `WorkNoticed`, `RunsOnce` (a job a worker runs is nobody else's, is not queued and has not run before, also through the compaction of the queue), `StopReturns`, refinement of `CopyService` with its fairness. Two workers suffice for a notification to reach the wrong one; the threshold is lowered from 1024 so that compaction happens |
| `steal` | 2 threads with 2 seats and 2 slots, one page of the first query pinned; 4 queries that have pages of their own, with window scoring and with bounce scoring and flushed windows; and 3 queries with *any* subsets of three pages, bounce scoring, windows flushed | `SeatedOnce`, `NandCounts`, `ScoredRight`, `NoDanglingJob`, `WaitersKeepSlots`, and `AnsweredApart`: every query is answered if queries share no page (`PagesApart`), no issue is cut or widened (`IssuedWhole`) and, with window scoring, a page stays once read and no query finds all its pages pinned (`PagesStay`). The first two configurations meet these conditions, one for each scoring mode; what happens without each is listed below |
| `steal_resident` (violation) | 1 thread, 2 queries with the same page, window scoring | `AllAnswered` fails: the second query gets no token because nothing is missing, goes on hold, and `steal_decide` issues it again for ever ahead of ranking |
| `pipe2` | bounce: 1 thread, 3 seats, 4 slots, 4 queries whose page sets overlap but none contains another; window: 2 threads, one slot, extent runs, a pinned page, 5 queries | `SeatedOnce`, `ScoredRight`, `NoDanglingJob`, `NeverSpins`, `AllAnswered`: orphaned pages are fetched again, stalled issues take over the slot, and the slots never run out (the code has 32 slots for 8 seats; the model is tighter) |
| `cont_batch` | 2 workers, 2 seats, 3 queries, shared pages, issues cut to one page, a window that holds every page, one of them pinned, at the start (`warmed`) or by the first query | `BusyExclusive`, `AllAnswered`: the idle re-issue brings in what an issue left out |
| `searches` | 6 vertices with padding, repeated and own neighbours, vectors that share and straddle pages; 20 command lines (4 of `search_one_pq`, 6 of P0, P1, P2 and the oracle, 7 of P3, 3 of `search_one`); windows down to two pages, one command line with direct installs, issues cut at 2 or 4 pages, one eviction by another query | `NoneLost`: a vertex seen is scored exactly once or waits exactly once, however its pages come and go. `AnswerRight`: the list holds the L nearest of what was scored, in whatever order scores arrive, and a search that is not cut short has expanded all of it. `SearchEnds` |
| `promote_pipe` | 2 slots and workers, 3 submissions, 2 starts | `SlotsExact` and `JoinEnds` with lost and spurious wake-ups; three submissions in two slots make a full pipe and a slot used again. The client may stop for good, so deadlock is not checked here |
| `layout_tools` | 3 raw inputs (4 or 6 vectors of 800, 3072 or 4096 bytes; rows with padding, repeated and unreachable ids), `--page-stride` 3500, 4096 or 8192, 2 copying threads, chunks of 2, chains of up to 4 tools | `ReadsBack`, `RegionsApart`, `PagesHold`, `EntryListRight`, `BestFirst`. 800 bytes make vectors straddle pages, 3072 leave a gap, 4096 fill a page; four tools are what it takes to pack, repack, add bundles and sample |
| `id_maps` | two programs in turn: remapping jobs on 6 records (5 in the modes that pair), traces with foreign ids and an empty list, chains of 3 jobs; and the load of the code rows under every one-to-one map of 5 rows, ids outside the table included | `ServedRight`, `PagesKept`, `GreedyMatching`, for every order of equal weights and with failing writes of the map or the image; `Remapped` |
| `remap_odd` (violation) | 5 records, extent mode after a pairing | `MapAccepted` fails: the page with one record is followed by one with two, an id gets slot n, and the server refuses the map |

The named bounds are `MaxFills`, `MaxListed`, `MaxTtl` (window), `MaxJobs`
(pool, remapping), `MaxTok` (issues per pipe; in the runs with a liveness
property no execution reaches it without having ended), `MaxOthers` (evictions
by other queries), `MaxSubmits`, `MaxStarts` (staging pipe) and `MaxTools`.
`MaxOthers` is one because a second eviction repeats the first: what it takes
away is asked for again. `CHECK_DEADLOCK` is on except in `promote_pipe`: a
finished program stutters in an action of its own.

**Other disagreements met.** Seen with TLC on the same modules, with the
constants given, or read in the code while modelling:

*Window and pipe*

- with every frame pinned the clock falls through to frame 0, pinned or not
  (`DramWindow` with 2 frames and `PinCap = 3`). Windows of the threads cap the
  pins at a quarter of their bytes; only the shared window of `main` has fixed
  budgets of 256 MiB or more, so it takes `--dram-bytes` of 256 MiB or less;
- `flush` empties `soft_pin_frames` over frames that keep a ttl because they are
  also hard-pinned; the byte counts stay exact;
- with extent runs, `release_pages` clears a waiting query's slot, and
  `bounce_page` reads the first slot that lists a page even if another is the
  ready one (`extent = TRUE`, `chunk = 3` in a bounce configuration);
- an issue is cut to 1024 pages and window-mode `wait_covering` fetches nothing
  (`pipe2`'s window configuration with `max_issue = 1`), and nobody issues again
  in the work-stealing scheduler either (`IssuedWhole`); a bounce issue of more
  pages than all slots hold would pump for ever;
- in pipe2, a query whose pages lie within another's clears the other's slot
  while its job runs (`NoDanglingJob`).

*Schedulers*

- `--flush-window` in the work-stealing scheduler empties the window under a
  seat that already has its token; with window scoring that seat then waits for
  ever (`PagesStay`). With bounce scoring the flush is harmless, and run;
- direct installs may evict while frames are free, because a dropped fill or a
  flush beside fills leaves free frames behind the clock hand; in pipe2 and the
  work-stealing scheduler nobody issues again for a waiter that loses a page so,
  and no answer is promised there;
- with bounce scoring in the work-stealing scheduler a page shared with a query
  that releases it is never fetched again, since only `wait_covering` looks for
  orphans;
- the queue depth `issue_qd` is tested and incremented separately, and can be
  exceeded by one wave per other thread; `NandCounts` is what does hold;
- in the shared scheduler a worker takes a pointer with `try_ptr_resident`,
  another one's pump evicts that page and installs its own in the frame, and the
  first scores the new bytes (`MCLine(2, FALSE)` of `MCContBatch`, invariant
  `ScoredRight`); `rr` is a signed counter advanced by every poll, and past
  INT_MAX its remainder is a negative index; with bounce or vmem scoring the
  workers read and clear slots without the hub's mutex.

*Searches*

- P3 with a limit of expansions may end with vertices seen and never scored;
  hop-by-hop scoring with frozen fills drops the misses. `NoneLost` excepts both;
- P3 in waves with frozen fills ends with reads under way and scores only what
  has landed, so the list may hold candidates that were never expanded;
  `AnswerRight` counts it among the searches that are cut short;
- an expansion without a fresh neighbour still issues the whole bundle, because
  an empty set of wanted ids means all of them;
- `search_one` collects neighbours of a round without removing repeats, so an
  answer may hold an id twice; `AnswerRight` claims no more for it than order;
- `search_one_pq` with extent runs and a pool that outlives it returns when the
  needed pages have landed, with reads of the holes under way into its buffers;
- the staging pipe stores Done and notifies without the mutex; `wait_done` can
  miss it and sleep until another worker finishes or it wakes by itself.

*Tools*

- a padding neighbour is written as id 0 and is an edge to vertex 0 from then on
  (`pack_layout_bundle.cpp:509`; the file says "Permute only" of itself);
  `ReadsBack` speaks of valid neighbours;
- `pack_layout_pagealign` reads its input at the packed stride whatever the
  header says; `pack_layout_bundle --eval-map` accepts a map with an id twice,
  and its 33 buckets do not suffice for R above 32; `build_nav_graph` knows no
  slot map and `NavGraph::load` takes elements to have 4 bytes; nothing ties a
  bundle file to the graph file it was packed from. The chains of the run avoid
  these inputs;
- `for_ids_contained_in_page` computes the last id of a page from whole strides
  (`placement.hpp:221`), so with a stride that is neither the packed size nor a
  divisor of 4096 it misses a vector that ends in the page while its stride does
  not, though its comment promises the "IDs whose full packed vector lies inside
  one page" (`placement.hpp:179`) and `pack_layout_pagealign` takes any stride from
  the packed size up. The run has such strides (3500 and 8192), and `PagesHold`
  says exactly which ids come back: all that lie in the page for the
  packed stride and strides that divide a page (`StrideFits`), and otherwise those
  whose whole stride lies in it, and id 0 (`StrideInPage`). Demanding the comment's promise of every stride,
  TLC finds an id missed;
- with a use threshold above 0, which no caller passes, a wanted copy astride
  two thin bundle pages is not asked for at all (`PagesHold` excepts it);
- the tools write a valid header before the data, and `remap_diskann_pages`
  replaces the map before the image: an interrupted tool leaves an image the
  server accepts. Nothing recovers from it, so no property is stated.

**Fairness.** Each compute thread, searching thread, and pool or staging worker
is weakly fair: they are operating-system threads in loops that never block
except where the model says so. The pool as the schedulers and the searches see
it is weakly fair because `copy_pool` checks that it implements `CopyService`
with that fairness. A worker of the shared scheduler is strongly fair: it takes
`sched_mu`, which others hold for short sections only, and a thread that keeps
asking for a mutex that is free again and again gets it. Callers of the pool and
the staging pipe's client are fair in finishing what they began, not in starting
anything; the evictions of other queries are not fair. `AllAnswered` in the
shared scheduler is claimed for a window that holds the pages in use; with a
smaller one the queries can evict each other's pages without end.

## 4. Proofs

*The window* (`HostCopyProofs`, for any number of pages and frames and any
budgets). Assumption: `WindowConstants` (types). Every theorem has the hypothesis
`Headroom`: pin budget plus outstanding fills is less than the number of frames
(`FrameToSpare`), a promoting read covers one page (`OnePageReads`), and hosts hand
over whole pages (`WholePages`). Each is needed: the pins over budget above
show the first, the run `window_span` the second, and the third excludes a
partial `install_host` on a miss, which leaves zeros in the rest of the frame. The
second is not a fact about the server: with a packed layout its vectors and rows
cross page boundaries, and nothing is proved about promoting reads of those.

`WindowInv` is the conjunction of the properties with two strengthenings,
`ReadInProgress` (the holder of a ranged read is at a page still to be promoted,
or everything left to copy is mapped) and `FillsBounded`. No part is inductive
alone: that the clock finds an evictable frame needs the pin and fill accounts
(counting pinned and filling frames against `Headroom`); that an eviction unmaps
exactly the right page needs `MapAgrees`; that a fresh frame may be soft-pinned
needs `SoftAccounts`. The proof first shows what a victim is, then treats the
evictions that all allocating operations share, then each action in turn.
Theorems: `WindowSafe` (`WindowInv` always holds), from which `WindowTypes`,
`WindowAgreement`, `WindowReads`, `WindowAccounts`, `WindowFills`; and the
action property `WindowPinsHold`. `WindowFreeAhead` (`FreeAhead`): in a window
without reserved frames every free frame is ahead of the clock hand and every
evictable one behind it, which is why such a window evicts only when it is full.

*The code loader* (the second part of `IdMapProofs`, any table and any one-to-one
map). `CodesInv` adds to `RowsSettled` that a marked row other than the start of
the current walk is the source of a marked row (`SeenClosed`) and that the walk
is at an unmarked row with the start's code saved (`WalkState`); injectivity then
says that the walk meets no marked row but its start. Theorems: `CodesRemapped`
and `CodesSettled`. An id map with two rows sent to one old id is outside the
assumption, and there the code's walk does not end.

*The remapping tool* (`IdMapProofs`, any number of records, traces, weights and
jobs, any of which may fail to write). `MatchInv` is about the three ways to
pair: mates are mutual and within the ids, what a pass has gone over is settled
(`PassedOver`, `RowsPaired`), and an edge already weighed has an end that is
taken by an edge at least as heavy (`Weighed`, `Outweighed`); the theorem
`RemapGreedy` (`GreedyMatching`) follows when the pass ends. `SlotInv` is about
handing out slots: the ids that have one have different ones, all below `next`,
and as many as `next` counts, so that a pair lies on one page and the image is
filled without a hole; for moves of whole pages, that a page goes to one place
and its records keep their order (`PagesApart`, `Kept`). That the map is a
permutation is then a matter of counting: injective below n, and n of them.
`RemapPlaced` says that the counts the tool checks before it writes are always
right; `RemapAccepted` (`MapAccepted`), `RemapServed` (`ServedRight`) and
`RemapPagesKept` (`PagesKept`) follow. The last four have the hypothesis
`EvenExtents`: an image whose pages are moved has an even number of records. It
is needed: `remap_odd` is what happens without it.

*The packing tools* (the last part of `IdMapProofs`: any raw data, chunk size,
number of copying threads, strides, bundle offset, samples and length of the
chain). Assumptions: a raw graph has a row for each id, and a map given with
`--eval-map` holds no id twice, as the maps the tools write do; the tool does not
check it (section 3). `LayoutInv` says of each stage what the tool has established
by then. Of the order: an id is in it once (`OnceOrdered`), so that an order of n
ids is a permutation and `old_to_new` its inverse. Of the copy: every id below the
ticket counter is written as it should be or lies in the chunk of a thread
(`Copying`), so that when all threads have left, nothing is missing. Of the images:
the one at rest, and the one that the running tool's output *will* be when the copy
is done (`Goal`), have headers the server can use (`HeaderOk`) and hold the raw data
under a renumbering (`DataOk`); the input stays in this form through renumbering,
restriding, and records without codes. That is the step from one tool to the next.
Theorems: `LayoutSafe`, `LayoutRegions` (`RegionsApart`), `LayoutReadsBack`
(`ReadsBack`).

`LayoutEntries` (`EntryListRight`) needs the state of the search for entries:
list and queue have no id in common or twice, all of both is marked, and each
queued id is a neighbour of a listed one (`Searching`, part of `EntriesInv`).
`LayoutBestFirst` (`BestFirst`) needs more than the counts being right between
blocks: while a block is placed, and then gone over edge by edge, a count lags
behind. `BlockInv` counts the places of a row that are unplaced *or* whose edge has
still to be gone over (`Left`), and exempts from being filed only the vertex whose
block it is (`InBlock`), which is filed again by its own edges. A row that holds an
id twice is counted down for each pair of places, hence "no more than" there. The
buckets are as many as R needs; the code has 33, enough for R up to 32.

`LayoutPages` (`PagesHold`) holds for every page stride, with the hypothesis
`BundleApart`: a bundle lies on a page boundary behind the vectors. Every state of
the run satisfies it. For strides that do not fit a page `PagesHold` claims of the
ids in the page those whose whole stride lies in it (and id 0) and no others, which
is what the code computes (section 3).
Records need no such condition: they fill their stride. Nothing but `LayoutInv` is
needed from the history. The rest is arithmetic: a quotient is compared by
multiplying (`QuotLe`, `CeilLe`), so that first and last indices become the ends of
spans (`TouchIndices`, `ScanIs`), and an offset into the bundles gives back its
vertex and place (`BundlePage`).

*The copy pool* (`PageCopyPoolProofs`, any workers, callers, jobs, batch sizes
and compaction threshold). `InflightExact` counts the jobs that are in a batch
already counted and not yet pushed, in the queue past `q_head`, or with a
worker. The count is right after a step only if a job moves from one of these
places to the next and is nowhere else, so `PoolInv` says that a job is in each
place at most once and in one place only (`QueuedOnce`, `HeldOnce`,
`CountedOnce`, `Apart`), that the numbered jobs are the finished and the
outstanding ones (`Settled`), and what stopping implies (`Phases`). Compaction
is then a renumbering of the same queue. Theorems: `PoolCounts`, `PoolIdle`
(what `wait_idle` and `stop_join` promise), `PoolNotices`, and `PoolServes`:
each step is a step of `CopyService` or a stutter, with the unfinished numbered
jobs as the pending ones. A second run of a finished job would be a stutter of
that specification, so the theorem also states `RunsOnce`: the job a worker
runs is held by no other, waits in no queue or batch and has not run before. The fairness of
`CopyService` is left to the run.

*The staging pipe* (`HostCopyProofs`, any slots, submissions and restarts).
`PipeInv` follows a slot through the queue and the workers: queued slots are
queued once or carried by one worker, carried slots are still in state queued
until Done is stored, and a worker past the copy left the right vector in the
buffer (`BuffersRight`). Theorem: `PipeSlotsExact`.

*The fill pipe* (`HidePipeProofs`). `PipesSound` is what every scheduler keeps:
tokens of active slots differ and were given out, a pending job has an active
slot with its token that lists its page (`Sound`), and without window scoring no
page is in two slots (`Apart`). A lemma per operation (pump, issue, refusal, the
end of a stall, release) says that it preserves this; releasing does so only for
slots whose pages have all landed, which the caller has to show. `Apart` needs
`Tidy`: window scoring, or no extent runs. It is what makes the first slot that
lists a page the one that is ready.

*Work stealing* (`StealSchedProofs`, any threads, seats, queries, slots, pages
and candidates; the bound `MaxTok` is any number). For every command line:
`StealNandCounts` and `StealSeatedOnce`, from `CountInv`, which ties the shared
count to the seats that hold a unit of it (between the halves of `try_issue`
only the thread's own step says so, hence `OnSeat` and `HeldRight`) and the
ticket to the queries seated or answered. With hypothesis `Tidy`:
`StealNoDangling`, `StealKeepsSlots`, `StealScoresRight`, from `StealInv`, whose
`SlotsOwned` says that a waiting seat has one slot, that it lists only pages the
seat needs, and that no other seat has its token. When the seat is ranked its
need is covered, so the slot has landed and its release frees no running job;
and another slot that lists all of need would share a page with it. The
hypothesis is needed: with extent runs and bounce scoring TLC finds all three
violated.

*Blocking scheduler* (`Pipe2SchedProofs`). For every command line:
`Pipe2SeatedOnce`, because the threads' strides partition the queries. With
hypothesis `Undisturbed` (`Tidy`, and with bounce or vmem scoring no query's
pages lie within another's): `Pipe2NoDangling` and `Pipe2ScoresRight`. Here a
query may collect several tokens, since orphans are fetched again, so
`SlotsOwned` is about slots: each active one belongs to a waiting seat that has
its token and needs its pages. `release_pages(need)` clears any slot that lists
all of need, hence the second part of the hypothesis, which the run satisfies;
without it TLC finds `NoDanglingJob` violated.

`Pipe2NeverSpins` (`NeverSpins`: an issue outside window mode never pumps for
ever with every slot taken) has the hypothesis `Roomy`: window scoring, or fewer
seats than slots and no query with more pages than one issue takes; the server
has 32 slots for at most 8 seats and issues of 1024 pages. "Every seat has one
slot" is not invariant: `wait_covering` may issue again what another seat's
release took along. `LeanInv` says when that can happen: only for the first seat,
while its thread waits for it, and then all it needs is in slots, no seat is
filled, and it is the next to be ranked (`Ending`). Nothing is asked of extent
runs or of how page sets overlap.

*Shared scheduler* (`ContBatchProofs`, any workers, seats and queries; window
scoring, as in the model): `ContBusyExclusive`, `ContSeatedOnce`,
`ContNoDangling`. A worker ranks outside `sched_mu`; what protects the seat is
its Busy state, so the invariant relates each worker's step to the state of the
seat it is on, and the seats to the next query. `ScoredRight` is not a theorem
here: with fewer frames than pages TLC finds it violated (section 3).

*The searches* (`SearchesProofs`, any graph, distances, list size, batch, window
and command line, any order in which copies land and pages leave).
`SearchNoneLost` (`NoneLost`) and, with hypothesis `Tidy`, `SearchAnswers`
(`AnswerRight`). `SearchInv` has four parts: where each search can be and where
it goes from there (`Control`); that a vertex is scored, or in one place of one
list, or not seen (`Once`); that the list holds the nearest of what was scored
(`Best`); and that a search which leaves its loop without being cut short has
nothing waiting and nothing left to expand (`Ended`), which is where the P3
branches differ: the loop is left from three places. That the ranking of
`search_one_pq` reads vectors that have arrived is about the pipe: `PagesInv` adds
that outside window mode each page it needs is still to be issued or covered
(`Covering`), until all are. `Tidy` is needed there only, because it is what makes
a covered page the one that is read. The lists of the model are defined by
counting (`Ranked`: the place of an element is the number of those before it), so
that sorting, cutting and inserting have lemmas that need no induction over a
list: a ranking is a bijection because ranks are injective and there are as many
places as elements.

*The window implements its abstraction.* `WindowImplements`: with the resident
set read off the page map, every operation of `DramWindow` is one of
`ResidencySet`'s steps or a stutter, under `Headroom`. The abstraction lets one
page give way to another, never a pinned one and, unless frames are reserved
(`early`), only when the window is full; the first uses `WindowInv`, the second
`FreeAhead`. This is the licence for `HidePipe` to keep a set of resident pages in
place of a window, and for the two rules of its `Installs`.

The inductive invariants were checked with TLC on the instances of the runs before
they were proved.

*Only model-checked.* Liveness under fairness (`AllAnswered`, `AnsweredApart`,
`StopReturns`, `SearchEnds`, `JoinEnds`, and the fairness of
`ImplementsService`), which the prover does not do. Every invariant of a passing
run is stated by a theorem; the theorems on page remapping that assume
`EvenExtents`, those on the window that assume `Headroom`, and `LayoutPages`, say
so in their statement. That `load_codes` ends is a property of one-to-one maps and
is not stated.

## 5. Not modelled, and the plan

Left out for good: the ioctl interface, metrics and traces, floating-point
scores and PQ training, command lines and the statistics the tools print,
scripts and results. The programs of `src/motivation_exps` measure the device
with a store of their own and share no code with the server. `hot_set.hpp` and
`score_cache.hpp` are called by tests only. Three pieces of the server have no
caller: the parkable FP query (`p3q_*`), whose waves are those of
`search_one_fp`; the asynchronous queue of `prefetch.hpp`; `hide_stripe_fill`.
In the shared scheduler, bounce and vmem scoring: the workers read and clear
slots there without the hub's mutex, a data race under which nothing can be
promised. The spill buffers of a spanning lookup hold copies and are not state
of the window. In `Searches` a pin reads its page and does not keep it: that
pins hold is shown for the window, and an evicted pin is the harder case. In the
schedulers the pins are kept, and `PipeConstants` takes them, with the frames of
all direct fills, to fit the window with a frame to spare (256k frames for 32 slots
of 1024 pages).

What is left to prove is action properties of the schedulers: an answered query
stays answered, a token is never given out twice.
