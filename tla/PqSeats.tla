------------------------------- MODULE PqSeats -------------------------------
(***************************************************************************)
(* Parkable PQ queries over a fill pipe (PqQ and the pqq_ functions of     *)
(* src/serving/search_beam.cpp).  A query beams on the host graph without  *)
(* touching the SSD, then needs the pages of its candidate list C_L,       *)
(* issues them, and is ranked when they are all covered.                   *)
(*                                                                         *)
(* The beam's outcome is an input: any member of Cands[q] may be the pages *)
(* of q's candidates.                                                      *)
(* The schedulers that own the seats extend this module.                   *)
(***************************************************************************)
EXTENDS HidePipe

Depth == opt.depth   \* seats per pipe
NQ == opt.nq         \* queries
Cands == opt.cands   \* query -> the possible page sets of its candidate list
FlushWindow == opt.flush   \* --flush-window: empty the window when a query is admitted

Queries == 0 .. NQ - 1

ASSUME SeatConstants ==
  \A c \in Configs :
    /\ c.depth \in Nat \ {0} /\ c.nq \in Nat /\ c.flush \in BOOLEAN
    /\ c.cands \in [0 .. c.nq - 1 -> SUBSET SUBSET Pages]

VARIABLES
  seat,       \* pipe -> seat number -> PqQ
  answered,   \* query -> times a result was recorded for it
  misread     \* a candidate was scored from bytes that had not landed

seatVars == <<seat, answered, misread>>

Seats   == 0 .. Depth - 1
NoQuery == -1

EmptySeat ==
  [st |-> "Empty", q |-> NoQuery, cand |-> {}, need |-> {}, toks |-> {}, held |-> FALSE]

SeatInit ==
  /\ seat = [h \in Pipes |-> [d \in Seats |-> EmptySeat]]
  /\ answered = [q \in Queries |-> 0]
  /\ misread = FALSE

\* pqq_init: the query takes the seat, its need not yet known.
pqq_init(q) == [EmptySeat EXCEPT !.st = "Ready", !.q = q]

\* Before it a flush keeps the hard pins (and the fills, which are not resident);
\* in it on_query_begin pins the entry and the medoids, once for each window:
\* later queries find the pins there.
Begins(h) ==
  \E R \in Promotes(h, IF FlushWindow THEN resident[h] \cap Pins ELSE resident[h], Pins) :
    resident' = [resident EXCEPT ![h] = R]

\* pqq_beam, which may pump the pipe now and then: the next seats of x.
pqq_beam(x) == {[x EXCEPT !.cand = c] : c \in Cands[x.q]}

\* pqq_issue on a seat that is not Busy: the need is known, tok is what
\* submit returned (0 for nothing issued).
pqq_issue(x, tok) ==
  [x EXCEPT !.need = x.cand,
            !.toks = IF tok = 0 THEN @ ELSE @ \cup {tok},
            !.st = IF x.cand = {} THEN "Ready" ELSE "Wait"]

\* pqq_rank of a covered seat: score every candidate, then release the slots.
pqq_rank(h, x) ==
  /\ coversAll(h, x.need)
  /\ misread' = (misread \/ \E p \in x.need : ~ReadsLanded(h, p))
  /\ slot' = [slot EXCEPT ![h] = Released(slot[h], x.toks, x.need)]
  /\ UNCHANGED <<resident, next_tok, pending, finished>>

-----------------------------------------------------------------------------
Seated(q) == {x \in Pipes \X Seats : seat[x[1]][x[2]].st # "Empty" /\ seat[x[1]][x[2]].q = q}

\* A query sits in one seat at a time, and never again once its result is
\* recorded.
SeatedOnce == \A q \in Queries : Cardinality(Seated(q)) + answered[q] <= 1

\* "keep the slot until release_pages": while a query waits for its pages, the
\* slots issued for it stay allocated; nobody else's release takes them.
WaitersKeepSlots ==
  ~use_window =>
    \A h \in Pipes, d \in Seats : seat[h][d].st = "Wait" =>
      \A k \in seat[h][d].toks : \E s \in Slots : slot[h][s].active /\ slot[h][s].tok = k

\* Every candidate is scored from bytes the device has delivered ("Score only
\* after install").
ScoredRight == ~misread
==============================================================================
