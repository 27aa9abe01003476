--------------------------- MODULE StealSchedProofs ---------------------------
(***************************************************************************)
(* The work-stealing scheduler, for any number of threads, seats, slots,   *)
(* queries and pages.  The counts need nothing of the pipes (CountInv);    *)
(* what the seats know of their slots needs that no page is in two slots   *)
(* (StealInv).                                                             *)
(***************************************************************************)
EXTENDS StealSched, HidePipeProofs

-----------------------------------------------------------------------------
(* Seats and queries.                                                      *)

\* Seats are a finite set of numbers, the first of them 0.
LEMMA Numbered ==
  ASSUME opt \in Configs
  PROVE  /\ Slots \subseteq Int /\ IsFiniteSet(Slots)
         /\ Seats \subseteq Int /\ IsFiniteSet(Seats) /\ 0 \in Seats
         /\ Queries \subseteq Nat
         /\ \A q \in Queries : Cands[q] \subseteq SUBSET Pages
<1>1. opt.depth \in Nat \ {0} /\ opt.nq \in Nat /\ opt.cands \in [0 .. opt.nq - 1 -> SUBSET SUBSET Pages]
  BY SeatConstants
<1>2. Seats \subseteq Int /\ IsFiniteSet(Seats) /\ 0 \in Seats
  BY <1>1, FS_Interval, SMTT(30) DEF Seats, Depth
<1>3. Queries \subseteq Nat /\ \A q \in Queries : Cands[q] \subseteq SUBSET Pages
  BY <1>1 DEF Queries, Cands, NQ
<1> QED BY <1>2, <1>3, SlotsNumbered

\* The first of a set of slots or seats is one of them.
LEMMA FirstOf ==
  ASSUME opt \in Configs, NEW S, S \subseteq Slots \/ S \subseteq Seats, S # {}
  PROVE  Min(S) \in S
<1>1. S \in SUBSET Int /\ IsFiniteSet(S)
  BY Numbered, FS_Subset
<1> QED BY <1>1, MinIn

\* What depends on the command line alone.
LEMMA SameLine ==
  ASSUME UNCHANGED opt
  PROVE  Slots' = Slots /\ Seats' = Seats /\ Queries' = Queries
         /\ (use_window' <=> use_window) /\ (Tidy' <=> Tidy)
BY SamePipe DEF Seats, Depth, Queries, NQ

-----------------------------------------------------------------------------
(* The inductive invariants.                                               *)

SeatOf ==
  [st : {"Empty", "Ready", "Hold", "Wait"}, q : Int, cand : SUBSET Pages,
   need : SUBSET Pages, toks : SUBSET Nat, held : BOOLEAN]
StepOf ==
  [at : {"loop", "Fill", "beam", "try", "add", "submit", "Rank", "exit"}, seat : Seats]

CountTypes ==
  /\ opt \in Configs
  /\ seat \in [Threads -> [Seats -> SeatOf]]
  /\ pc \in [Threads -> StepOf]
  /\ answered \in [Queries -> Nat]
  /\ next_q \in Nat

\* The seat a thread works on, and the step it is at.
Submitting(t, d) == pc[t].at = "submit" /\ pc[t].seat = d
OnSeat ==
  \A t \in Threads :
    LET x == seat[t][pc[t].seat]
    IN  /\ pc[t].at = "Fill" => x.st = "Empty"
        /\ pc[t].at \in {"beam", "try", "add", "submit"} => x.st \in {"Ready", "Hold"}
        /\ pc[t].at = "Rank" => x.st \in {"Wait", "Ready"}

\* A seat that does not wait holds a unit of queue depth only between the
\* two halves of try_issue, and has no tokens.
HeldRight ==
  \A t \in Threads, d \in Seats : seat[t][d].st # "Wait" =>
    /\ seat[t][d].held <=> Submitting(t, d)
    /\ seat[t][d].toks = {}
    /\ seat[t][d].st = "Ready" => seat[t][d].need = {}

\* Queries are seated once admitted, in one seat, until they are answered.
QueriesRight ==
  /\ \A t \in Threads, d \in Seats : seat[t][d].st # "Empty" =>
       /\ seat[t][d].q \in Queries /\ seat[t][d].q < next_q
       /\ answered[seat[t][d].q] = 0
       /\ \A u \in Threads, e \in Seats :
            seat[u][e].st # "Empty" /\ seat[u][e].q = seat[t][d].q => u = t /\ e = d
  /\ \A q \in Queries : answered[q] <= 1 /\ (q >= next_q => answered[q] = 0)

CountInv == CountTypes /\ OnSeat /\ HeldRight /\ QueriesRight /\ NandCounts

\* A waiting seat has the one token it was given, other seats have others,
\* and its slot holds pages it needs and nothing else.
OwnSlot(t, d) ==
  \E s \in Slots :
    /\ slot[t][s].active /\ seat[t][d].toks = {slot[t][s].tok}
    /\ slot[t][s].pages # {} /\ slot[t][s].pages \subseteq seat[t][d].need
SlotsOwned ==
  ~use_window => \A t \in Threads, d \in Seats : seat[t][d].st = "Wait" =>
    /\ OwnSlot(t, d)
    /\ \A e \in Seats \ {d} : seat[t][e].toks \cap seat[t][d].toks = {}

StealInv == CountInv /\ PipesSound /\ SlotsOwned /\ ~misread
-----------------------------------------------------------------------------
(* The counts: every step preserves CountInv.                              *)

\* The fields of a thread's step.
LEMMA AtIs ==
  \A a, d : At(a, d).at = a /\ At(a, d).seat = d
BY DEF At

\* What an empty seat and a freshly filled one look like.
LEMMA SeatShapes ==
  /\ EmptySeat \in SeatOf /\ EmptySeat.st = "Empty" /\ EmptySeat.toks = {} /\ EmptySeat.held = FALSE
  /\ \A q \in Int : /\ pqq_init(q) \in SeatOf /\ pqq_init(q).st = "Ready" /\ pqq_init(q).q = q
                    /\ pqq_init(q).toks = {} /\ pqq_init(q).held = FALSE /\ pqq_init(q).need = {}
<1>1. /\ EmptySeat.st = "Empty" /\ EmptySeat.toks = {} /\ EmptySeat.held = FALSE
  BY DEF EmptySeat
<1>2. EmptySeat \in SeatOf
  BY DEF EmptySeat, SeatOf, NoQuery
<1>3. ASSUME NEW q \in Int
      PROVE  /\ pqq_init(q) \in SeatOf /\ pqq_init(q).st = "Ready" /\ pqq_init(q).q = q
             /\ pqq_init(q).toks = {} /\ pqq_init(q).held = FALSE /\ pqq_init(q).need = {}
  <2>1. /\ pqq_init(q) \in SeatOf /\ pqq_init(q).st = "Ready" /\ pqq_init(q).q = q
        /\ pqq_init(q).toks = EmptySeat.toks /\ pqq_init(q).held = EmptySeat.held
        /\ pqq_init(q).need = EmptySeat.need
    BY <1>2, <1>3 DEF pqq_init, SeatOf
  <2>2. EmptySeat.need = {}
    BY DEF EmptySeat
  <2> QED BY <1>1, <2>1, <2>2
<1> QED BY <1>1, <1>2, <1>3

\* steal_decide picks a seat in the state the step it goes to expects.
LEMMA Decided ==
  ASSUME CountTypes, NEW t \in Threads, NEW cov, NEW more \in BOOLEAN, NEW ok \in BOOLEAN, NEW z,
         z = steal_decide([d \in Seats |-> seat[t][d].st], cov, more, ok)
  PROVE  /\ z \in StepOf /\ z.at \in {"loop", "Fill", "try", "Rank", "exit"}
         /\ z.at = "Fill" => seat[t][z.seat].st = "Empty"
         /\ z.at = "try" => seat[t][z.seat].st = "Hold"
         /\ z.at = "Rank" => seat[t][z.seat].st \in {"Wait", "Ready"}
<1> DEFINE st == [d \in Seats |-> seat[t][d].st]
           held    == {d \in Seats : ok /\ st[d] = "Hold"}
           empty   == {d \in Seats : more /\ st[d] = "Empty"}
           covered == {d \in Seats : st[d] \in {"Wait", "Ready"} /\ cov[d]}
           parked  == {d \in Seats : st[d] \in {"Wait", "Hold"}}
<1>0. opt \in Configs /\ 0 \in Seats
  BY Numbered DEF CountTypes
<1>1. z = IF held # {} THEN At("try", Min(held))
          ELSE IF empty # {} THEN At("Fill", Min(empty))
          ELSE IF covered # {} THEN At("Rank", Min(covered))
          ELSE IF parked # {} THEN At("loop", 0)
          ELSE At("exit", 0)
  BY DEF steal_decide
<1>2. held # {} => Min(held) \in held
  <2>1. held \subseteq Seats
    OBVIOUS
  <2> HIDE DEF held
  <2> QED BY <1>0, <2>1, FirstOf
<1>3. empty # {} => Min(empty) \in empty
  <2>1. empty \subseteq Seats
    OBVIOUS
  <2> HIDE DEF empty
  <2> QED BY <1>0, <2>1, FirstOf
<1>4. covered # {} => Min(covered) \in covered
  <2>1. covered \subseteq Seats
    OBVIOUS
  <2> HIDE DEF covered
  <2> QED BY <1>0, <2>1, FirstOf
<1>5. /\ \A d \in held : d \in Seats /\ seat[t][d].st = "Hold"
      /\ \A d \in empty : d \in Seats /\ seat[t][d].st = "Empty"
      /\ \A d \in covered : d \in Seats /\ seat[t][d].st \in {"Wait", "Ready"}
  OBVIOUS
<1> HIDE DEF held, empty, covered, parked
<1>6. \/ z = At("try", Min(held)) /\ held # {}
      \/ z = At("Fill", Min(empty)) /\ empty # {}
      \/ z = At("Rank", Min(covered)) /\ covered # {}
      \/ z = At("loop", 0) \/ z = At("exit", 0)
  BY <1>1
<1>7. \A d \in Seats : \A a \in {"loop", "Fill", "try", "Rank", "exit"} : At(a, d) \in StepOf
  BY DEF At, StepOf
<1> QED BY <1>0, <1>2, <1>3, <1>4, <1>5, <1>6, <1>7, AtIs, SMTT(30)

\* A step that changes only the program counter of thread t.
LEMMA PcStep ==
  ASSUME CountInv, UNCHANGED <<opt, seat, answered, next_q, nand_inflight>>,
         NEW t \in Threads, NEW z \in StepOf, pc' = [pc EXCEPT ![t] = z],
         pc[t].at # "submit", z.at # "submit",
         z.at = "Fill" => seat[t][z.seat].st = "Empty",
         z.at \in {"beam", "try", "add"} => seat[t][z.seat].st \in {"Ready", "Hold"},
         z.at = "Rank" => seat[t][z.seat].st \in {"Wait", "Ready"}
  PROVE  CountInv'
<1>1. Seats' = Seats /\ Queries' = Queries
  BY SameLine
<1>2. pc' \in [Threads -> StepOf] /\ pc'[t] = z /\ \A u \in Threads \ {t} : pc'[u] = pc[u]
  BY DEF CountInv, CountTypes
<1>3. CountTypes'
  BY <1>1, <1>2 DEF CountInv, CountTypes, SeatOf, StepOf
<1>4. OnSeat'
  BY <1>2 DEF CountInv, OnSeat
<1>5. HeldRight'
  <2>1. \A u \in Threads, d \in Seats : Submitting(u, d)' <=> Submitting(u, d)
    BY <1>2 DEF Submitting
  <2> QED BY <1>1, <2>1 DEF CountInv, HeldRight
<1>6. QueriesRight' /\ NandCounts'
  BY <1>1 DEF CountInv, QueriesRight, NandCounts, HeldSeats
<1> QED BY <1>3, <1>4, <1>5, <1>6 DEF CountInv

\* A step of thread t that gives seat d, the one it works on, the value y.
LEMMA SeatStep ==
  ASSUME CountInv, UNCHANGED opt,
         NEW t \in Threads, NEW d \in Seats, d = pc[t].seat,
         NEW y \in SeatOf, seat' = [seat EXCEPT ![t][d] = y],
         NEW z \in StepOf, pc' = [pc EXCEPT ![t] = z],
         z = At("loop", 0) \/ z.seat = d,
         z.at = "loop" \/
           (z.at \in {"beam", "try", "add", "submit"} /\ y.st \in {"Ready", "Hold"}),
         y.st # "Wait" => /\ y.held <=> z.at = "submit"
                          /\ y.toks = {}
                          /\ y.st = "Ready" => y.need = {}
  PROVE  /\ seat' \in [Threads -> [Seats -> SeatOf]] /\ pc' \in [Threads -> StepOf]
         /\ \A u \in Threads, e \in Seats :
              seat'[u][e] = IF u = t /\ e = d THEN y ELSE seat[u][e]
         /\ OnSeat' /\ HeldRight'
<1>1. Seats' = Seats
  BY SameLine
<1>2. seat \in [Threads -> [Seats -> SeatOf]] /\ pc \in [Threads -> StepOf]
  BY DEF CountInv, CountTypes
<1>3. seat' \in [Threads -> [Seats -> SeatOf]]
      /\ \A u \in Threads, e \in Seats : seat'[u][e] = IF u = t /\ e = d THEN y ELSE seat[u][e]
  BY <1>2
<1>4. pc' \in [Threads -> StepOf] /\ pc'[t] = z /\ \A u \in Threads \ {t} : pc'[u] = pc[u]
  BY <1>2
<1>5. OnSeat'
  <2>1. ASSUME NEW u \in Threads, u # t
        PROVE  LET x == seat'[u][pc'[u].seat]
               IN  /\ pc'[u].at = "Fill" => x.st = "Empty"
                   /\ pc'[u].at \in {"beam", "try", "add", "submit"} => x.st \in {"Ready", "Hold"}
                   /\ pc'[u].at = "Rank" => x.st \in {"Wait", "Ready"}
    <3>1. pc'[u] = pc[u] /\ pc[u].seat \in Seats /\ seat'[u][pc[u].seat] = seat[u][pc[u].seat]
      BY <1>2, <1>3, <1>4, <2>1 DEF StepOf
    <3> QED BY <3>1 DEF CountInv, OnSeat
  <2>2. z.at = "loop" \/ (seat'[t][z.seat] = y /\ z.at \in {"beam", "try", "add", "submit"} /\ y.st \in {"Ready", "Hold"})
    BY <1>3, AtIs
  <2> QED BY <1>4, <2>1, <2>2 DEF OnSeat
<1>6. HeldRight'
  <2>1. ASSUME NEW u \in Threads, NEW e \in Seats, ~(u = t /\ e = d)
        PROVE  Submitting(u, e)' <=> Submitting(u, e)
    <3>1. CASE u # t
      BY <1>4, <3>1 DEF Submitting
    <3>2. CASE u = t
      BY <1>4, <2>1, <3>2, AtIs DEF Submitting
    <3> QED BY <3>1, <3>2
  <2>2. Submitting(t, d)' <=> z.at = "submit"
    BY <1>4, AtIs DEF Submitting
  <2>3. ASSUME NEW u \in Threads, NEW e \in Seats, seat'[u][e].st # "Wait"
        PROVE  /\ seat'[u][e].held <=> Submitting(u, e)'
               /\ seat'[u][e].toks = {}
               /\ seat'[u][e].st = "Ready" => seat'[u][e].need = {}
    <3>1. CASE u = t /\ e = d
      BY <1>3, <2>2, <2>3, <3>1
    <3>2. CASE ~(u = t /\ e = d)
      BY <1>3, <2>1, <2>3, <3>2 DEF CountInv, HeldRight
    <3> QED BY <3>1, <3>2
  <2> QED BY <1>1, <2>3 DEF HeldRight
<1> QED BY <1>3, <1>4, <1>5, <1>6

\* Who sits where does not change.
LEMMA QueriesKept ==
  ASSUME CountInv, UNCHANGED <<opt, answered, next_q>>,
         \A u \in Threads, e \in Seats :
           seat'[u][e].q = seat[u][e].q /\ (seat'[u][e].st = "Empty" <=> seat[u][e].st = "Empty")
  PROVE  QueriesRight'
<1>1. Seats' = Seats /\ Queries' = Queries
  BY SameLine
<1> QED BY <1>1 DEF CountInv, QueriesRight

\* The seats that hold a unit of nand_inflight can be counted.
LEMMA HeldFinite ==
  ASSUME CountTypes
  PROVE  IsFiniteSet(HeldSeats) /\ Cardinality(HeldSeats) \in Nat
<1>1. IsFiniteSet(Threads) /\ IsFiniteSet(Seats)
  BY Numbered, PipeConstants DEF Threads, CountTypes
<1>2. IsFiniteSet(Threads \X Seats)
  BY <1>1, FS_Product
<1>3. HeldSeats \subseteq Threads \X Seats
  BY DEF HeldSeats
<1> QED BY <1>2, <1>3, FS_Subset, FS_CardinalityType

\* The count moves with a seat's flag.
CountMoves(new, old) ==
  /\ (new <=> old) => nand_inflight' = nand_inflight
  /\ new /\ ~old => nand_inflight' = nand_inflight + 1
  /\ ~new /\ old => nand_inflight' = nand_inflight - 1

\* The count follows the flag of the one seat that changes.
LEMMA HeldStep ==
  ASSUME CountInv, UNCHANGED opt, NEW t \in Threads, NEW d \in Seats, NEW y,
         y.held \in BOOLEAN,
         \A u \in Threads, e \in Seats :
           seat'[u][e] = IF u = t /\ e = d THEN y ELSE seat[u][e],
         CountMoves(y.held, seat[t][d].held)
  PROVE  NandCounts'
<1>1. Seats' = Seats
  BY SameLine
<1>2. CountTypes /\ seat[t][d].held \in BOOLEAN
  BY DEF CountInv, CountTypes, SeatOf
<1>3. IsFiniteSet(HeldSeats) /\ Cardinality(HeldSeats) \in Nat /\ nand_inflight = Cardinality(HeldSeats)
  BY <1>2, HeldFinite DEF CountInv, NandCounts
<1>4. CASE y.held <=> seat[t][d].held
  <2>1. \A x \in Threads \X Seats : seat'[x[1]][x[2]].held <=> seat[x[1]][x[2]].held
    BY <1>4
  <2>2. HeldSeats' = HeldSeats
    BY <1>1, <2>1 DEF HeldSeats
  <2> QED BY <1>3, <1>4, <2>2 DEF NandCounts, CountMoves
<1>5. CASE y.held /\ ~seat[t][d].held
  <2>1. HeldSeats' = HeldSeats \cup {<<t, d>>} /\ <<t, d>> \notin HeldSeats
    <3>1. \A x \in Threads \X Seats :
            seat'[x[1]][x[2]].held <=> seat[x[1]][x[2]].held \/ x = <<t, d>>
      BY <1>5
    <3> QED BY <1>1, <1>5, <3>1 DEF HeldSeats
  <2>2. Cardinality(HeldSeats') = Cardinality(HeldSeats) + 1
    BY <1>3, <2>1, FS_AddElement
  <2> QED BY <1>3, <1>5, <2>2 DEF NandCounts, CountMoves
<1>6. CASE ~y.held /\ seat[t][d].held
  <2>1. HeldSeats' = HeldSeats \ {<<t, d>>} /\ <<t, d>> \in HeldSeats
    <3>1. \A x \in Threads \X Seats :
            seat'[x[1]][x[2]].held <=> seat[x[1]][x[2]].held /\ x # <<t, d>>
      BY <1>6
    <3> QED BY <1>1, <1>6, <3>1 DEF HeldSeats
  <2>2. Cardinality(HeldSeats') = Cardinality(HeldSeats) - 1
    BY <1>3, <2>1, FS_RemoveElement
  <2> QED BY <1>3, <1>6, <2>2 DEF NandCounts, CountMoves
<1> QED BY <1>2, <1>4, <1>5, <1>6

\* A step that leaves seats, counters and program counters alone.
LEMMA CountSame ==
  ASSUME CountInv, UNCHANGED <<opt, seat, answered, next_q, nand_inflight, pc>>
  PROVE  CountInv'
<1>1. Seats' = Seats /\ Queries' = Queries
  BY SameLine
<1>2. CountTypes'
  BY <1>1 DEF CountInv, CountTypes, SeatOf, StepOf
<1>3. OnSeat' /\ HeldRight'
  BY <1>1 DEF CountInv, OnSeat, HeldRight, Submitting
<1>4. QueriesRight' /\ NandCounts'
  BY <1>1 DEF CountInv, QueriesRight, NandCounts, HeldSeats
<1> QED BY <1>2, <1>3, <1>4 DEF CountInv

\* Choosing a seat, and filling it, keeps the counts.
LEMMA DecidesCounts ==
  ASSUME CountInv, UNCHANGED opt, NEW t \in Threads, Decides(t)
  PROVE  CountInv'
<1> DEFINE cov == [d \in Seats |-> coversAll(t, seat[t][d].need)']
           more == next_q < NQ
           ok == issue_qd_ok(nand_inflight)
           z == steal_decide([d \in Seats |-> seat[t][d].st], cov, more, ok)
<1>1. pc[t].at = "loop" /\ UNCHANGED <<seat, answered, next_q, nand_inflight>>
      /\ pc' = [pc EXCEPT ![t] = z]
  BY DEF Decides, seatVars
<1>2. more \in BOOLEAN /\ ok \in BOOLEAN /\ CountTypes
  BY DEF issue_qd_ok, CountInv
<1> HIDE DEF cov, more, ok
<1>3. /\ z \in StepOf /\ z.at \in {"loop", "Fill", "try", "Rank", "exit"}
      /\ z.at = "Fill" => seat[t][z.seat].st = "Empty"
      /\ z.at = "try" => seat[t][z.seat].st = "Hold"
      /\ z.at = "Rank" => seat[t][z.seat].st \in {"Wait", "Ready"}
  BY <1>2, Decided
<1> HIDE DEF z
<1> QED BY <1>1, <1>3, PcStep

\* The steps a thread goes to are steps.
LEMMA LoopStep ==
  ASSUME CountTypes
  PROVE  /\ At("loop", 0) \in StepOf
         /\ \A d \in Seats, a \in {"beam", "try", "add", "submit"} : At(a, d) \in StepOf
<1>1. 0 \in Seats
  BY Numbered DEF CountTypes
<1> QED BY <1>1 DEF At, StepOf

\* Admission: a fresh query takes the empty seat the thread chose.
LEMMA AdmitsCounts ==
  ASSUME CountInv, UNCHANGED opt, NEW t \in Threads, Admits(t)
  PROVE  CountInv'
<1> DEFINE d == pc[t].seat
<1>0. CountTypes /\ d \in Seats /\ pc[t].at = "Fill" /\ seat[t][d].st = "Empty"
  BY DEF CountInv, CountTypes, StepOf, OnSeat, Admits
<1>1. Seats' = Seats /\ Queries' = Queries
  BY SameLine
<1>2. /\ next_q' = next_q + 1 /\ next_q \in Nat
      /\ UNCHANGED <<answered, nand_inflight>>
  BY <1>0 DEF Admits, Ticket, CountTypes
<1>3. CASE next_q >= NQ
  <2>1. pc' = [pc EXCEPT ![t] = At("loop", 0)] /\ UNCHANGED seat
    BY <1>3 DEF Admits
  <2>2. pc' \in [Threads -> StepOf] /\ pc'[t] = At("loop", 0) /\ \A u \in Threads \ {t} : pc'[u] = pc[u]
    BY <1>0, <2>1, LoopStep DEF CountTypes
  <2>3. CountTypes'
    BY <1>0, <1>1, <1>2, <2>1, <2>2 DEF CountTypes, SeatOf, StepOf
  <2>4. OnSeat'
    BY <2>1, <2>2, AtIs DEF CountInv, OnSeat
  <2>5. HeldRight'
    <3>1. \A u \in Threads, e \in Seats : Submitting(u, e)' <=> Submitting(u, e)
      BY <1>0, <2>2, AtIs DEF Submitting
    <3> QED BY <1>1, <2>1, <3>1 DEF CountInv, HeldRight
  <2>6. QueriesRight'
    <3>1. \A q \in Queries : q \in Int
      BY <1>0, Numbered DEF CountTypes
    <3>2. \A q \in Queries : q < next_q => q < next_q'
      BY <1>2, <3>1
    <3>3. \A q \in Queries : q >= next_q' => q >= next_q
      BY <1>2, <3>1
    <3> QED BY <1>1, <1>2, <2>1, <3>2, <3>3 DEF CountInv, QueriesRight
  <2>7. NandCounts'
    BY <1>1, <1>2, <2>1 DEF CountInv, NandCounts, HeldSeats
  <2> QED BY <2>3, <2>4, <2>5, <2>6, <2>7 DEF CountInv
<1>4. CASE ~(next_q >= NQ)
  <2> DEFINE y == pqq_init(next_q)
             z == At("beam", d)
  <2>1. seat' = [seat EXCEPT ![t][d] = y] /\ pc' = [pc EXCEPT ![t] = z]
    BY <1>4 DEF Admits
  <2>2. /\ y \in SeatOf /\ y.st = "Ready" /\ y.q = next_q /\ y.toks = {} /\ y.held = FALSE /\ y.need = {}
        /\ z \in StepOf /\ z.at = "beam" /\ z.seat = d
    BY <1>0, <1>2, SeatShapes, LoopStep, AtIs
  <2> HIDE DEF d, y, z
  <2>3. y.st # "Wait" => /\ y.held <=> z.at = "submit"
                         /\ y.toks = {}
                         /\ y.st = "Ready" => y.need = {}
    BY <2>2, Zenon
  <2>4. /\ seat' \in [Threads -> [Seats -> SeatOf]] /\ pc' \in [Threads -> StepOf]
        /\ \A u \in Threads, e \in Seats :
             seat'[u][e] = IF u = t /\ e = d THEN y ELSE seat[u][e]
        /\ OnSeat' /\ HeldRight'
    BY <1>0, <2>1, <2>2, <2>3, SeatStep DEF d
  <2>5. next_q \in Queries
    BY <1>0, <1>2, <1>4, SeatConstants DEF Queries, NQ, CountTypes
  <2>6. QueriesRight'
    <3>1. \A q \in Queries : q \in Int
      BY <1>0, Numbered DEF CountTypes
    <3>2. \A q \in Queries : /\ q < next_q => q < next_q' /\ q # next_q
                             /\ q >= next_q' => q >= next_q
      BY <1>2, <3>1
    <3>3. answered[next_q] = 0 /\ next_q < next_q' /\ next_q >= next_q
      BY <1>2, <2>5, <3>1 DEF CountInv, QueriesRight
    <3>4. ASSUME NEW u \in Threads, NEW e \in Seats, seat'[u][e].st # "Empty"
          PROVE  /\ seat'[u][e].q \in Queries /\ seat'[u][e].q < next_q'
                 /\ answered'[seat'[u][e].q] = 0
                 /\ seat'[u][e].q = next_q <=> (u = t /\ e = d)
      <4>1. CASE u = t /\ e = d
        BY <1>2, <2>2, <2>4, <2>5, <3>3, <4>1
      <4>2. CASE ~(u = t /\ e = d)
        BY <1>2, <2>4, <3>2, <3>4, <4>2 DEF CountInv, QueriesRight
      <4> QED BY <4>1, <4>2
    <3>5. ASSUME NEW u \in Threads, NEW e \in Seats, NEW v \in Threads, NEW f \in Seats,
                 seat'[u][e].st # "Empty", seat'[v][f].st # "Empty", seat'[v][f].q = seat'[u][e].q
          PROVE  v = u /\ f = e
      <4>1. CASE seat'[u][e].q = next_q
        BY <3>4, <3>5, <4>1
      <4>2. CASE seat'[u][e].q # next_q
        BY <2>4, <3>4, <3>5, <4>2 DEF CountInv, QueriesRight
      <4> QED BY <4>1, <4>2
    <3>6. \A q \in Queries : answered'[q] <= 1 /\ (q >= next_q' => answered'[q] = 0)
      BY <1>2, <3>2 DEF CountInv, QueriesRight
    <3> QED BY <1>1, <3>4, <3>5, <3>6 DEF QueriesRight
  <2>7. NandCounts'
    <3>1. y.held = seat[t][d].held /\ y.held \in BOOLEAN
      <4>1. seat[t][d].held \in BOOLEAN /\ ~seat[t][d].held
        BY <1>0 DEF CountInv, HeldRight, Submitting, CountTypes, SeatOf, d
      <4> QED BY <2>2, <4>1
    <3>2. CountMoves(y.held, seat[t][d].held)
      BY <1>2, <3>1 DEF CountMoves
    <3> QED BY <1>0, <2>4, <3>1, <3>2, HeldStep DEF d
  <2>8. CountTypes'
    BY <1>0, <1>1, <1>2, <2>4 DEF CountTypes, SeatOf, StepOf
  <2> QED BY <2>4, <2>6, <2>7, <2>8 DEF CountInv
<1> QED BY <1>3, <1>4

\* A step of thread t on the query in its seat, whichever way it moves the
\* count.
LEMMA WorkStep ==
  ASSUME CountInv, UNCHANGED <<opt, answered, next_q>>,
         NEW t \in Threads, NEW d \in Seats, d = pc[t].seat,
         NEW y \in SeatOf, seat' = [seat EXCEPT ![t][d] = y],
         NEW z \in StepOf, pc' = [pc EXCEPT ![t] = z],
         z = At("loop", 0) \/ z.seat = d,
         z.at = "loop" \/
           (z.at \in {"beam", "try", "add", "submit"} /\ y.st \in {"Ready", "Hold"}),
         y.st # "Wait" => /\ y.held <=> z.at = "submit"
                          /\ y.toks = {}
                          /\ y.st = "Ready" => y.need = {},
         seat[t][d].st # "Empty", y.st # "Empty", y.q = seat[t][d].q,
         CountMoves(y.held, seat[t][d].held)
  PROVE  CountInv'
<1>0. opt' = opt
  OBVIOUS
<1>1. /\ seat' \in [Threads -> [Seats -> SeatOf]] /\ pc' \in [Threads -> StepOf]
      /\ \A u \in Threads, e \in Seats :
           seat'[u][e] = IF u = t /\ e = d THEN y ELSE seat[u][e]
      /\ OnSeat' /\ HeldRight'
  BY <1>0, SeatStep, ZenonT(60)
<1>2. \A u \in Threads, e \in Seats :
        seat'[u][e].q = seat[u][e].q /\ (seat'[u][e].st = "Empty" <=> seat[u][e].st = "Empty")
  BY <1>1
<1>3. QueriesRight'
  BY <1>2, QueriesKept
<1>4. y.held \in BOOLEAN
  BY DEF SeatOf
<1>5. NandCounts'
  BY <1>0, <1>1, <1>4, HeldStep, SMTT(30)
<1>6. Seats' = Seats /\ Queries' = Queries
  BY SameLine
<1>7. CountTypes'
  BY <1>1, <1>6 DEF CountInv, CountTypes, SeatOf, StepOf
<1> QED BY <1>1, <1>3, <1>5, <1>7 DEF CountInv

\* The seat of a thread at work: taken, holding nothing but at "submit".
LEMMA AtWork ==
  ASSUME CountInv, NEW t \in Threads, pc[t].at \in {"beam", "try", "add", "submit"}
  PROVE  LET d == pc[t].seat
             x == seat[t][d]
         IN  /\ d \in Seats /\ x \in SeatOf /\ x.st \in {"Ready", "Hold"}
             /\ x.held \in BOOLEAN /\ x.q \in Queries /\ x.toks = {}
             /\ x.held <=> pc[t].at = "submit"
             /\ x.st = "Ready" => x.need = {}
             /\ \A a : [pc EXCEPT ![t].at = a] = [pc EXCEPT ![t] = At(a, d)]
<1> DEFINE d == pc[t].seat
           x == seat[t][d]
<1>1. pc[t] \in StepOf /\ d \in Seats /\ x \in SeatOf /\ x.held \in BOOLEAN
  BY DEF CountInv, CountTypes, StepOf, SeatOf
<1>2. x.st \in {"Ready", "Hold"}
  BY DEF CountInv, OnSeat
<1>3. x.q \in Queries
  BY <1>1, <1>2 DEF CountInv, QueriesRight
<1>4. (x.held <=> pc[t].at = "submit") /\ x.toks = {} /\ (x.st = "Ready" => x.need = {})
  BY <1>1, <1>2 DEF CountInv, HeldRight, Submitting
<1>5. ASSUME NEW a PROVE [pc EXCEPT ![t].at = a] = [pc EXCEPT ![t] = At(a, d)]
  <2>1. [pc[t] EXCEPT !.at = a] = At(a, d)
    BY <1>1 DEF StepOf, At
  <2> QED BY <2>1
<1> QED BY <1>1, <1>2, <1>3, <1>4, <1>5

\* A beam keeps the counts.
LEMMA BeamsCounts ==
  ASSUME CountInv, UNCHANGED opt, NEW t \in Threads, Beams(t)
  PROVE  CountInv'
<1> DEFINE d == pc[t].seat
           x == seat[t][d]
<1>1. pc[t].at = "beam" /\ UNCHANGED <<answered, next_q, nand_inflight>>
  BY DEF Beams
<1>2. /\ d \in Seats /\ x \in SeatOf /\ x.st \in {"Ready", "Hold"}
      /\ x.held \in BOOLEAN /\ x.q \in Queries /\ x.toks = {}
      /\ ~x.held
      /\ x.st = "Ready" => x.need = {}
      /\ \A a : [pc EXCEPT ![t].at = a] = [pc EXCEPT ![t] = At(a, d)]
  BY <1>1, AtWork
<1>3. CASE UNCHANGED <<seat, pc>>
  BY <1>1, <1>3, CountSame
<1>4. CASE /\ \E y \in pqq_beam(x) : seat' = [seat EXCEPT ![t][d] = y]
           /\ pc' = [pc EXCEPT ![t].at = "try"]
  <2>1. PICK c \in Cands[x.q] : seat' = [seat EXCEPT ![t][d] = [x EXCEPT !.cand = c]]
    BY <1>4 DEF pqq_beam
  <2>2. c \in SUBSET Pages
    BY <1>2, <2>1, Numbered DEF CountInv, CountTypes
  <2> DEFINE y == [x EXCEPT !.cand = c]
             z == At("try", d)
  <2>3. y \in SeatOf /\ y.st = x.st /\ y.q = x.q /\ y.held = x.held /\ y.toks = x.toks /\ y.need = x.need
    BY <1>2, <2>2 DEF SeatOf
  <2>4. z \in StepOf /\ z.at = "try" /\ z.seat = d /\ pc' = [pc EXCEPT ![t] = z]
    <3>1. z \in StepOf
      BY <1>2, LoopStep DEF CountInv
    <3>2. pc' = [pc EXCEPT ![t] = z]
      BY <1>2, <1>4
    <3> QED BY <3>1, <3>2, AtIs
  <2>5. seat' = [seat EXCEPT ![t][d] = y]
    BY <2>1
  <2> HIDE DEF y, z, x, d
  <2>6. seat[t][d] = x /\ d = pc[t].seat
    BY DEF x, d
  <2>7. CountMoves(y.held, seat[t][d].held)
    BY <1>1, <1>2, <2>3, <2>6 DEF CountMoves
  <2> QED BY <1>1, <1>2, <2>3, <2>4, <2>5, <2>6, <2>7, WorkStep
<1> QED BY <1>3, <1>4 DEF Beams

\* Reading nand_inflight keeps the counts.
LEMMA TryLooksCounts ==
  ASSUME CountInv, UNCHANGED opt, NEW t \in Threads, TryLooks(t)
  PROVE  CountInv'
<1> DEFINE d == pc[t].seat
           x == seat[t][d]
<1>1. pc[t].at = "try" /\ UNCHANGED <<answered, next_q, nand_inflight>>
  BY DEF TryLooks
<1>2. /\ d \in Seats /\ x \in SeatOf /\ x.st \in {"Ready", "Hold"}
      /\ x.held \in BOOLEAN /\ x.q \in Queries /\ x.toks = {}
      /\ ~x.held
      /\ \A a : [pc EXCEPT ![t].at = a] = [pc EXCEPT ![t] = At(a, d)]
  BY <1>1, AtWork
<1>3. CASE pc' = [pc EXCEPT ![t].at = "add"] /\ UNCHANGED seat
  <2> DEFINE z == At("add", d)
  <2>1. z \in StepOf /\ z.at = "add" /\ z.seat = d /\ pc' = [pc EXCEPT ![t] = z]
    <3>1. z \in StepOf
      BY <1>2, LoopStep DEF CountInv
    <3>2. pc' = [pc EXCEPT ![t] = z]
      BY <1>2, <1>3
    <3> QED BY <3>1, <3>2, AtIs
  <2> HIDE DEF z
  <2> QED BY <1>1, <1>2, <1>3, <2>1, PcStep
<1>4. CASE /\ pc' = [pc EXCEPT ![t] = At("loop", 0)]
           /\ seat' = [seat EXCEPT ![t][d].st = "Hold"]
  <2> DEFINE y == [x EXCEPT !.st = "Hold"]
             z == At("loop", 0)
  <2>1. y \in SeatOf /\ y.st = "Hold" /\ y.q = x.q /\ y.held = x.held /\ y.toks = x.toks
    BY <1>2 DEF SeatOf
  <2>2. z \in StepOf /\ z.at = "loop" /\ pc' = [pc EXCEPT ![t] = z] /\ z = At("loop", 0)
    BY <1>4, AtIs, LoopStep DEF CountInv
  <2>3. seat' = [seat EXCEPT ![t][d] = y]
    BY <1>4
  <2> HIDE DEF y, z, x, d
  <2>4. seat[t][d] = x /\ d = pc[t].seat
    BY DEF x, d
  <2>5. CountMoves(y.held, seat[t][d].held)
    BY <1>1, <1>2, <2>1, <2>4 DEF CountMoves
  <2> QED BY <1>1, <1>2, <2>1, <2>2, <2>3, <2>4, <2>5, WorkStep
<1> QED BY <1>3, <1>4 DEF TryLooks

\* Adding to nand_inflight, and marking the seat, keeps the counts.
LEMMA TryAddsCounts ==
  ASSUME CountInv, UNCHANGED opt, NEW t \in Threads, TryAdds(t)
  PROVE  CountInv'
<1> DEFINE d == pc[t].seat
           x == seat[t][d]
           y == [x EXCEPT !.held = TRUE]
           z == At("submit", d)
<1>1. /\ pc[t].at = "add" /\ UNCHANGED <<answered, next_q>>
      /\ nand_inflight' = nand_inflight + 1
      /\ pc' = [pc EXCEPT ![t].at = "submit"]
      /\ seat' = [seat EXCEPT ![t][d].held = TRUE]
  BY DEF TryAdds
<1>2. /\ d \in Seats /\ x \in SeatOf /\ x.st \in {"Ready", "Hold"}
      /\ x.held \in BOOLEAN /\ x.q \in Queries /\ x.toks = {}
      /\ ~x.held
      /\ x.st = "Ready" => x.need = {}
      /\ \A a : [pc EXCEPT ![t].at = a] = [pc EXCEPT ![t] = At(a, d)]
  BY <1>1, AtWork
<1>3. y \in SeatOf /\ y.st = x.st /\ y.q = x.q /\ y.toks = x.toks /\ y.need = x.need
  BY <1>2 DEF SeatOf
<1>4. y.held = TRUE
  BY <1>2 DEF SeatOf
<1>5. z \in StepOf /\ z.at = "submit" /\ z.seat = d /\ pc' = [pc EXCEPT ![t] = z]
  BY <1>1, <1>2, AtIs, LoopStep DEF CountInv
<1>6. seat' = [seat EXCEPT ![t][d] = y]
  BY <1>1
<1> HIDE DEF y, z, x, d
<1>7. seat[t][d] = x /\ d = pc[t].seat
  BY DEF x, d
<1>8. CountMoves(y.held, seat[t][d].held)
  BY <1>1, <1>2, <1>4, <1>7 DEF CountMoves
<1>9. y.st # "Wait" => /\ y.held <=> z.at = "submit"
                       /\ y.toks = {}
                       /\ y.st = "Ready" => y.need = {}
  BY <1>2, <1>3, <1>4, <1>5
<1>10. UNCHANGED <<opt, answered, next_q>> /\ x.st # "Empty" /\ y.st # "Empty"
  BY <1>1, <1>2, <1>3
<1>11. z.at \in {"beam", "try", "add", "submit"} /\ y.st \in {"Ready", "Hold"}
  BY <1>2, <1>3, <1>5
<1> QED BY <1>2, <1>3, <1>5, <1>6, <1>7, <1>8, <1>9, <1>10, <1>11, WorkStep, Zenon

\* What pqq_issue does to a seat.
LEMMA IssuedSeat ==
  ASSUME NEW x \in SeatOf, NEW tok \in Nat
  PROVE  LET y == pqq_issue(x, tok)
         IN  /\ y \in SeatOf /\ y.q = x.q /\ y.held = x.held /\ y.need = x.cand
             /\ y.toks = IF tok = 0 THEN x.toks ELSE x.toks \cup {tok}
             /\ y.st = IF x.cand = {} THEN "Ready" ELSE "Wait"
<1> DEFINE k == IF tok = 0 THEN x.toks ELSE x.toks \cup {tok}
           a == IF x.cand = {} THEN "Ready" ELSE "Wait"
<1>1. k \in SUBSET Nat /\ a \in {"Ready", "Wait"} /\ x.cand \in SUBSET Pages
  BY DEF SeatOf
<1>2. pqq_issue(x, tok) = [x EXCEPT !.need = x.cand, !.toks = k, !.st = a]
  BY DEF pqq_issue, SeatOf
<1> HIDE DEF k, a
<1>3. /\ pqq_issue(x, tok) \in SeatOf /\ pqq_issue(x, tok).q = x.q
      /\ pqq_issue(x, tok).held = x.held
      /\ pqq_issue(x, tok).need = x.cand /\ pqq_issue(x, tok).toks = k /\ pqq_issue(x, tok).st = a
  BY <1>1, <1>2 DEF SeatOf
<1> QED BY <1>3 DEF k, a

\* The seat after try_issue gives the unit back.
LEMMA ReturnedSeat ==
  ASSUME NEW x \in SeatOf
  PROVE  /\ LET y == [pqq_issue(x, 0) EXCEPT !.st = "Hold", !.held = FALSE]
            IN  y \in SeatOf /\ y.q = x.q /\ ~y.held /\ y.toks = x.toks /\ y.st = "Hold"
         /\ x.cand = {} =>
              LET y == [pqq_issue(x, 0) EXCEPT !.held = FALSE]
              IN  y \in SeatOf /\ y.q = x.q /\ ~y.held /\ y.toks = x.toks /\ y.st = "Ready" /\ y.need = {}
<1> DEFINE w == pqq_issue(x, 0)
<1>1. /\ w \in SeatOf /\ w.q = x.q /\ w.need = x.cand /\ w.toks = x.toks
      /\ w.st = IF x.cand = {} THEN "Ready" ELSE "Wait"
  BY IssuedSeat
<1> HIDE DEF w
<1> DEFINE y == [w EXCEPT !.st = "Hold", !.held = FALSE]
           v == [w EXCEPT !.held = FALSE]
<1>2. y \in SeatOf /\ y.q = w.q /\ y.toks = w.toks /\ y.st = "Hold"
  BY <1>1 DEF SeatOf
<1>3. ~y.held
  BY <1>1 DEF SeatOf
<1>4. v \in SeatOf /\ v.q = w.q /\ v.toks = w.toks /\ v.st = w.st /\ v.need = w.need
  BY <1>1 DEF SeatOf
<1>5. ~v.held
  BY <1>1 DEF SeatOf
<1>6. y.q = x.q /\ y.toks = x.toks /\ v.q = x.q /\ v.toks = x.toks
      /\ (x.cand = {} => v.st = "Ready" /\ v.need = {})
  BY <1>1, <1>2, <1>4
<1> HIDE DEF y, v
<1>7. x.cand = {} =>
        v \in SeatOf /\ v.q = x.q /\ ~v.held /\ v.toks = x.toks /\ v.st = "Ready" /\ v.need = {}
  BY <1>4, <1>5, <1>6
<1> QED BY <1>2, <1>3, <1>6, <1>7 DEF w, y, v

\* The three exits of try_issue.
LEMMA TrySubmitsCounts ==
  ASSUME CountInv, next_tok \in [Pipes -> Nat \ {0}], UNCHANGED opt, NEW t \in Threads, TrySubmits(t)
  PROVE  CountInv'
<1> DEFINE d == pc[t].seat
           x == seat[t][d]
           z == At("loop", 0)
<1>1. /\ pc[t].at = "submit" /\ UNCHANGED <<answered, next_q>>
      /\ pc' = [pc EXCEPT ![t] = z]
      /\ TryIssues(t, x) \/ TryHolds(t, x) \/ TryNeedsNothing(t, x)
  BY DEF TrySubmits
<1>2. /\ d \in Seats /\ x \in SeatOf /\ x.st \in {"Ready", "Hold"}
      /\ x.held /\ x.toks = {}
  BY <1>1, AtWork
<1>3. z \in StepOf /\ z.at = "loop" /\ z.at # "submit"
  BY AtIs, LoopStep DEF CountInv
<1>4. UNCHANGED <<opt, answered, next_q>> /\ seat[t][d].st # "Empty"
  BY <1>1, <1>2
<1>5. ASSUME NEW y \in SeatOf, seat' = [seat EXCEPT ![t][d] = y], y.q = x.q, y.st # "Empty",
             y.st # "Wait" => ~y.held /\ y.toks = {} /\ (y.st = "Ready" => y.need = {}),
             CountMoves(y.held, seat[t][d].held)
      PROVE  CountInv'
  <2>1. y.st # "Wait" => /\ y.held <=> z.at = "submit"
                         /\ y.toks = {}
                         /\ y.st = "Ready" => y.need = {}
    BY <1>3, <1>5
  <2> HIDE DEF z
  <2>2. z = At("loop", 0)
    BY DEF z
  <2> QED BY <1>1, <1>2, <1>3, <1>4, <1>5, <2>1, <2>2, WorkStep, Zenon
<1>6. CASE TryIssues(t, x)
  <2> DEFINE y == pqq_issue(x, next_tok[t])
  <2>1. x.cand # {} /\ seat' = [seat EXCEPT ![t][d] = y] /\ nand_inflight' = nand_inflight
    BY <1>6 DEF TryIssues
  <2>2. next_tok[t] \in Nat
    BY DEF Threads
  <2>3. y \in SeatOf /\ y.q = x.q /\ y.held = x.held /\ y.st = "Wait"
    BY <1>2, <2>1, <2>2, IssuedSeat
  <2> HIDE DEF y
  <2>4. CountMoves(y.held, seat[t][d].held)
    BY <2>1, <2>3 DEF CountMoves
  <2> QED BY <1>5, <2>1, <2>3, <2>4
<1>7. CASE TryHolds(t, x)
  <2> DEFINE y == [pqq_issue(x, 0) EXCEPT !.st = "Hold", !.held = FALSE]
  <2>1. seat' = [seat EXCEPT ![t][d] = y] /\ nand_inflight' = nand_inflight - 1
    BY <1>7 DEF TryHolds
  <2>2. y \in SeatOf /\ y.q = x.q /\ ~y.held /\ y.toks = {} /\ y.st = "Hold"
    BY <1>2, ReturnedSeat, Zenon
  <2> HIDE DEF y
  <2>3. CountMoves(y.held, seat[t][d].held)
    BY <1>2, <2>1, <2>2 DEF CountMoves
  <2> QED BY <1>5, <2>1, <2>2, <2>3
<1>8. CASE TryNeedsNothing(t, x)
  <2> DEFINE y == [pqq_issue(x, 0) EXCEPT !.held = FALSE]
  <2>1. x.cand = {} /\ seat' = [seat EXCEPT ![t][d] = y] /\ nand_inflight' = nand_inflight - 1
    BY <1>8 DEF TryNeedsNothing
  <2>2. y \in SeatOf /\ y.q = x.q /\ ~y.held /\ y.toks = {} /\ y.st = "Ready" /\ y.need = {}
    BY <1>2, <2>1, ReturnedSeat, Zenon
  <2> HIDE DEF y
  <2>3. CountMoves(y.held, seat[t][d].held)
    BY <1>2, <2>1, <2>2 DEF CountMoves
  <2> QED BY <1>5, <2>1, <2>2, <2>3
<1> QED BY <1>1, <1>6, <1>7, <1>8

\* Ranking and finish_local: the query is answered, and leaves.
LEMMA RanksCounts ==
  ASSUME CountInv, UNCHANGED opt, NEW t \in Threads, Ranks(t)
  PROVE  CountInv'
<1> DEFINE d == pc[t].seat
           x == seat[t][d]
           z == At("loop", 0)
<1>1. /\ pc[t].at = "Rank" /\ UNCHANGED next_q /\ pc' = [pc EXCEPT ![t] = z]
      /\ \/ /\ answered' = [answered EXCEPT ![x.q] = @ + 1]
            /\ nand_inflight' = GivenBack(x)
            /\ seat' = [seat EXCEPT ![t][d] = EmptySeat]
         \/ UNCHANGED <<seat, answered, nand_inflight>>
  BY DEF Ranks, seatVars
<1>2. /\ CountTypes /\ d \in Seats /\ x \in SeatOf /\ x.st \in {"Wait", "Ready"} /\ x.held \in BOOLEAN
      /\ x.q \in Queries /\ answered[x.q] = 0
      /\ \A u \in Threads, e \in Seats :
           seat[u][e].st # "Empty" /\ seat[u][e].q = x.q => u = t /\ e = d
  <2>1. CountTypes /\ d \in Seats /\ x \in SeatOf /\ x.held \in BOOLEAN
    BY DEF CountInv, CountTypes, StepOf, SeatOf
  <2>2. x.st \in {"Wait", "Ready"}
    BY <1>1 DEF CountInv, OnSeat
  <2> QED BY <2>1, <2>2 DEF CountInv, QueriesRight
<1>3. z \in StepOf /\ z.at = "loop" /\ z.at # "submit"
  BY AtIs, LoopStep DEF CountInv
<1>4. CASE UNCHANGED <<seat, answered, nand_inflight>>
  BY <1>1, <1>3, <1>4, PcStep
<1>5. CASE /\ answered' = [answered EXCEPT ![x.q] = @ + 1]
           /\ nand_inflight' = GivenBack(x)
           /\ seat' = [seat EXCEPT ![t][d] = EmptySeat]
  <2>1. /\ EmptySeat \in SeatOf /\ EmptySeat.st = "Empty" /\ EmptySeat.toks = {} /\ ~EmptySeat.held
    BY SeatShapes
  <2>2. EmptySeat.st # "Wait" => /\ EmptySeat.held <=> z.at = "submit"
                                 /\ EmptySeat.toks = {}
                                 /\ EmptySeat.st = "Ready" => EmptySeat.need = {}
    BY <1>3, <2>1
  <2> HIDE DEF z
  <2>3. z = At("loop", 0)
    BY DEF z
  <2>4. /\ seat' \in [Threads -> [Seats -> SeatOf]] /\ pc' \in [Threads -> StepOf]
        /\ \A u \in Threads, e \in Seats :
             seat'[u][e] = IF u = t /\ e = d THEN EmptySeat ELSE seat[u][e]
        /\ OnSeat' /\ HeldRight'
    BY <1>1, <1>2, <1>3, <1>5, <2>1, <2>2, <2>3, SeatStep, Zenon
  <2>5. CountMoves(EmptySeat.held, seat[t][d].held)
    BY <1>2, <1>5, <2>1 DEF CountMoves, GivenBack
  <2>6. NandCounts'
    <3> DEFINE y == EmptySeat
    <3>1. y.held \in BOOLEAN /\ CountMoves(y.held, seat[t][d].held)
      BY <2>1, <2>5 DEF SeatOf
    <3>2. \A u \in Threads, e \in Seats : seat'[u][e] = IF u = t /\ e = d THEN y ELSE seat[u][e]
      BY <2>4
    <3>3. d \in Seats
      BY <1>2
    <3> HIDE DEF d, y
    <3> QED BY <3>1, <3>2, <3>3, HeldStep
  <2>7. Seats' = Seats /\ Queries' = Queries
    BY SameLine
  <2>8. answered' \in [Queries -> Nat] /\ answered'[x.q] = 1
        /\ \A q \in Queries \ {x.q} : answered'[q] = answered[q]
    BY <1>2, <1>5 DEF CountTypes
  <2>9. CountTypes'
    BY <1>1, <1>2, <2>4, <2>7, <2>8 DEF CountTypes, SeatOf, StepOf
  <2>10. QueriesRight'
    <3>1. ASSUME NEW u \in Threads, NEW e \in Seats, seat'[u][e].st # "Empty"
          PROVE  seat'[u][e] = seat[u][e] /\ seat[u][e].q # x.q /\ seat[u][e].q \in Queries
      BY <1>2, <2>1, <2>4, <3>1 DEF CountInv, QueriesRight
    <3>2. ASSUME NEW u \in Threads, NEW e \in Seats, seat'[u][e].st # "Empty"
          PROVE  /\ seat'[u][e].q \in Queries /\ seat'[u][e].q < next_q'
                 /\ answered'[seat'[u][e].q] = 0
                 /\ \A v \in Threads, f \in Seats :
                      seat'[v][f].st # "Empty" /\ seat'[v][f].q = seat'[u][e].q => v = u /\ f = e
      BY <1>1, <2>8, <3>1, <3>2 DEF CountInv, QueriesRight
    <3>3. x.q < next_q /\ x.q \in Int /\ next_q \in Int
      BY <1>2, Numbered DEF CountInv, QueriesRight, CountTypes
    <3>4. \A q \in Queries : answered'[q] <= 1 /\ (q >= next_q => answered'[q] = 0)
      BY <1>2, <2>8, <3>3 DEF CountInv, QueriesRight
    <3> QED BY <1>1, <2>7, <3>2, <3>4 DEF QueriesRight
  <2> QED BY <2>4, <2>6, <2>9, <2>10 DEF CountInv
<1> QED BY <1>1, <1>4, <1>5

TokTypes == next_tok \in [Pipes -> Nat \ {0}]

\* An issue leaves the pipes' token counters numbers.
LEMMA IssueTokens ==
  ASSUME TokTypes, NEW h \in Pipes, NEW need, Submits(h, need)
  PROVE  TokTypes'
<1>1. next_tok' = next_tok \/ next_tok' = [next_tok EXCEPT ![h] = @ + 1]
  BY DEF Submits, IssueInto
<1> QED BY <1>1 DEF TokTypes

\* So does every step.
LEMMA StepTokens ==
  ASSUME TokTypes, Next
  PROVE  TokTypes'
<1>1. ASSUME NEW t \in Threads, TryIssues(t, seat[t][pc[t].seat]) PROVE TokTypes'
  BY <1>1, IssueTokens DEF TryIssues, Threads
<1>2. ASSUME NEW t \in Threads, TrySubmits(t) PROVE TokTypes'
  <2>1. CASE TryHolds(t, seat[t][pc[t].seat])
    BY <2>1 DEF TryHolds, Refuses, TokTypes
  <2>2. CASE TryNeedsNothing(t, seat[t][pc[t].seat])
    BY <2>2 DEF TryNeedsNothing, pipeVars, TokTypes
  <2> QED BY <1>1, <1>2, <2>1, <2>2 DEF TrySubmits
<1>3. ASSUME NEW t \in Threads,
             Decides(t) \/ Admits(t) \/ Beams(t) \/ TryLooks(t) \/ TryAdds(t) \/ Ranks(t)
      PROVE  UNCHANGED next_tok
  BY <1>3 DEF Decides, Admits, Beams, TryLooks, TryAdds, Ranks, Pumps, pipeVars, pqq_rank
<1>4. CASE PoolRuns \/ Finished
  BY <1>4 DEF PoolRuns, Lands, Finished, vars, pipeVars, TokTypes
<1> QED BY <1>2, <1>3, <1>4 DEF Next, Steps, TokTypes

\* Every step keeps the counts.
LEMMA StepCounts ==
  ASSUME CountInv, TokTypes, Next
  PROVE  CountInv'
<1>1. ASSUME NEW t \in Threads, Steps(t) PROVE CountInv'
  <2>1. opt' = opt
    BY <1>1 DEF Steps
  <2> QED BY <1>1, <2>1, DecidesCounts, AdmitsCounts, BeamsCounts, TryLooksCounts, TryAddsCounts,
             TrySubmitsCounts, RanksCounts DEF Steps, TokTypes
<1>2. CASE PoolRuns
  BY <1>2, CountSame DEF PoolRuns, seatVars
<1>3. CASE Finished
  BY <1>3, CountSame DEF Finished, vars, seatVars
<1> QED BY <1>1, <1>2, <1>3 DEF Next

\* The counts hold when the threads start.
LEMMA InitCounts == Init => CountInv /\ TokTypes
<1> SUFFICES ASSUME Init PROVE CountInv /\ TokTypes
  OBVIOUS
<1>1. opt \in Configs /\ TokTypes
  BY DEF Init, PipeInit, TokTypes
<1>2. 0 \in Seats /\ Queries \subseteq Nat
  BY <1>1, Numbered
<1>3. /\ seat \in [Threads -> [Seats -> SeatOf]]
      /\ \A t \in Threads, d \in Seats : seat[t][d] = EmptySeat
  BY SeatShapes DEF Init, SeatInit, Threads
<1>4. pc \in [Threads -> StepOf] /\ \A t \in Threads : pc[t].at = "loop"
  BY <1>2, AtIs DEF Init, At, StepOf
<1>5. answered \in [Queries -> Nat] /\ next_q = 0 /\ \A q \in Queries : answered[q] = 0
  BY DEF Init, SeatInit
<1>6. CountTypes
  BY <1>1, <1>3, <1>4, <1>5 DEF CountTypes
<1>7. OnSeat
  BY <1>4 DEF OnSeat
<1>8. HeldRight
  BY <1>3, <1>4, SeatShapes DEF HeldRight, Submitting
<1>9. QueriesRight
  BY <1>3, <1>5, SeatShapes DEF QueriesRight
<1>10. NandCounts
  <2>1. HeldSeats = {}
    BY <1>3, SeatShapes DEF HeldSeats
  <2> QED BY <2>1, FS_EmptySet DEF Init, NandCounts
<1> QED BY <1>1, <1>6, <1>7, <1>8, <1>9, <1>10 DEF CountInv

\* The counts of the scheduler hold whatever the command line.
THEOREM StealCountsSafe == Spec => [](CountInv /\ TokTypes)
<1>1. CountInv /\ TokTypes /\ [Next]_vars => (CountInv /\ TokTypes)'
  <2> SUFFICES ASSUME CountInv, TokTypes, [Next]_vars PROVE CountInv' /\ TokTypes'
    OBVIOUS
  <2>1. CASE Next
    BY <2>1, StepCounts, StepTokens
  <2>2. CASE UNCHANGED vars
    <3>1. UNCHANGED <<opt, seat, answered, next_q, nand_inflight, pc>> /\ UNCHANGED next_tok
      BY <2>2 DEF vars, seatVars, pipeVars
    <3> QED BY <3>1, CountSame DEF TokTypes
  <2> QED BY <2>1, <2>2
<1> QED BY <1>1, InitCounts, PTL DEF Spec

\* nand_inflight is the number of seats that hold a unit of queue depth, on
\* every path through try_issue and finish_local.
THEOREM StealNandCounts == Spec => []NandCounts
<1>1. CountInv => NandCounts
  BY DEF CountInv
<1> QED BY <1>1, StealCountsSafe, PTL

\* A query is in one seat of one thread, and in none once it is answered.
THEOREM StealSeatedOnce == Spec => []SeatedOnce
<1>1. CountInv => SeatedOnce
  <2> SUFFICES ASSUME CountInv, NEW q \in Queries
               PROVE  Cardinality(Seated(q)) + answered[q] <= 1
    BY DEF SeatedOnce
  <2>1. answered[q] \in Nat /\ answered[q] <= 1
    BY DEF CountInv, CountTypes, QueriesRight
  <2>2. CASE Seated(q) = {}
    <3>1. Cardinality(Seated(q)) = 0
      BY <2>2, FS_EmptySet
    <3> QED BY <2>1, <3>1
  <2>3. CASE Seated(q) # {}
    <3>1. PICK x \in Pipes \X Seats : seat[x[1]][x[2]].st # "Empty" /\ seat[x[1]][x[2]].q = q
      BY <2>3 DEF Seated
    <3>2. answered[q] = 0
      BY <3>1 DEF CountInv, QueriesRight, Threads
    <3>3. \A y \in Seated(q) : y = x
      BY <3>1 DEF CountInv, QueriesRight, Threads, Seated
    <3>4. Seated(q) = {x}
      BY <2>3, <3>3
    <3>5. Cardinality(Seated(q)) = 1
      BY <3>4, FS_Singleton
    <3> QED BY <3>2, <3>5
  <2> QED BY <2>2, <2>3
<1> QED BY <1>1, StealCountsSafe, PTL

-----------------------------------------------------------------------------
(* The slots: every step preserves StealInv.                               *)

\* Waiting seats keep what they had, and so do the slots outside the window
\* mode.
LEMMA OwnedKept ==
  ASSUME SlotsOwned, UNCHANGED opt,
         ~use_window => \A t \in Threads, s \in Slots : slot[t][s].active =>
           slot'[t][s].active /\ slot'[t][s].tok = slot[t][s].tok /\ slot'[t][s].pages = slot[t][s].pages,
         \A t \in Threads, d \in Seats : seat'[t][d].st = "Wait" =>
           seat[t][d].st = "Wait" /\ seat'[t][d].toks = seat[t][d].toks /\ seat'[t][d].need = seat[t][d].need,
         \A t \in Threads, d \in Seats : seat'[t][d].toks \subseteq seat[t][d].toks
  PROVE  SlotsOwned'
<1>1. Slots' = Slots /\ Seats' = Seats /\ (use_window' <=> use_window)
  BY SameLine
<1> SUFFICES ASSUME ~use_window, NEW t \in Threads, NEW d \in Seats, seat'[t][d].st = "Wait"
             PROVE  /\ OwnSlot(t, d)'
                    /\ \A e \in Seats \ {d} : seat'[t][e].toks \cap seat'[t][d].toks = {}
  BY <1>1 DEF SlotsOwned
<1>2. OwnSlot(t, d) /\ \A e \in Seats \ {d} : seat[t][e].toks \cap seat[t][d].toks = {}
  BY DEF SlotsOwned
<1>3. seat'[t][d].toks = seat[t][d].toks /\ seat'[t][d].need = seat[t][d].need
  OBVIOUS
<1>4. OwnSlot(t, d)'
  BY <1>1, <1>2, <1>3 DEF OwnSlot
<1> QED BY <1>2, <1>3, <1>4

\* A pump of thread t's pipe keeps every slot outside the window mode.
LEMMA PumpKeepsSlots ==
  ASSUME PipesSound, NEW t \in Threads, slot' = [slot EXCEPT ![t] = PumpedSlots(t)], ~use_window
  PROVE  \A u \in Threads, s \in Slots : slot[u][s].active =>
           slot'[u][s].active /\ slot'[u][s].tok = slot[u][s].tok /\ slot'[u][s].pages = slot[u][s].pages
<1>1. \A u \in Threads : slot'[u] = IF u = t THEN PumpedSlots(t) ELSE slot[u]
  BY DEF PipesSound, Threads
<1>2. \A s \in Slots : slot[t][s].active =>
        LET y == PumpedSlots(t)[s] IN y.active /\ y.tok = slot[t][s].tok /\ y.pages = slot[t][s].pages
  BY PumpedSlot DEF Threads
<1> QED BY <1>1, <1>2

\* A pump, or a refused issue, keeps the slots owned by the seats that wait on them.
LEMMA PumpStep ==
  ASSUME StealInv, UNCHANGED opt, NEW t \in Threads, Pumps(t) \/ \E need : Refuses(t, need),
         UNCHANGED misread,
         \A u \in Threads, d \in Seats : seat'[u][d].st = "Wait" =>
           seat[u][d].st = "Wait" /\ seat'[u][d].toks = seat[u][d].toks /\ seat'[u][d].need = seat[u][d].need,
         \A u \in Threads, d \in Seats : seat'[u][d].toks \subseteq seat[u][d].toks
  PROVE  PipesSound' /\ SlotsOwned' /\ ~misread'
<1>0. PipesSound /\ SlotsOwned
  BY DEF StealInv
<1>1. PipesSound' /\ slot' = [slot EXCEPT ![t] = PumpedSlots(t)]
  BY <1>0, PumpsSound, RefusesSound DEF Threads
<1>2. ~use_window => \A u \in Threads, s \in Slots : slot[u][s].active =>
        slot'[u][s].active /\ slot'[u][s].tok = slot[u][s].tok /\ slot'[u][s].pages = slot[u][s].pages
  BY <1>0, <1>1, PumpKeepsSlots
<1>3. SlotsOwned'
  BY <1>0, <1>2, OwnedKept
<1> QED BY <1>1, <1>3 DEF StealInv

\* A step that touches no pipe but, perhaps, what is resident.
LEMMA PipesSame ==
  ASSUME StealInv, UNCHANGED <<opt, slot, next_tok, pending, finished, misread>>,
         \A u \in Threads, d \in Seats : seat'[u][d].st = "Wait" =>
           seat[u][d].st = "Wait" /\ seat'[u][d].toks = seat[u][d].toks /\ seat'[u][d].need = seat[u][d].need,
         \A u \in Threads, d \in Seats : seat'[u][d].toks \subseteq seat[u][d].toks
  PROVE  PipesSound' /\ SlotsOwned' /\ ~misread'
<1>1. Slots' = Slots /\ (use_window' <=> use_window) /\ (Tidy' <=> Tidy)
  BY SameLine
<1>2. ASSUME NEW g \in Pipes PROVE (Sound(g, slot[g]) /\ Apart(slot[g]))'
  <2>1. Sound(g, slot[g]) /\ Apart(slot[g])
    BY <1>2 DEF StealInv, PipesSound
  <2> QED BY <1>1, <2>1 DEF Sound, Apart, Owned
<1>3. JobsSound'
  BY DEF StealInv, PipesSound, JobsSound
<1>4. PipesSound'
  BY <1>1, <1>2, <1>3 DEF StealInv, PipesSound
<1>5. SlotsOwned'
  BY OwnedKept DEF StealInv
<1> QED BY <1>4, <1>5 DEF StealInv

\* A new wave: the seat's token names the slot that holds the pages issued.
LEMMA IssuesOwned ==
  ASSUME StealInv, UNCHANGED <<opt, misread>>, NEW t \in Threads, pc[t].at = "submit",
         TryIssues(t, seat[t][pc[t].seat])
  PROVE  PipesSound' /\ SlotsOwned' /\ ~misread'
<1> DEFINE d == pc[t].seat
           x == seat[t][d]
           k == next_tok[t]
           y == pqq_issue(x, k)
<1>1. CountInv /\ PipesSound /\ SlotsOwned
  BY DEF StealInv
<1>2. /\ d \in Seats /\ x \in SeatOf /\ x.toks = {}
      /\ x.cand \in SUBSET Pages /\ x.cand # {} /\ k \in Nat \ {0} /\ t \in Pipes
  <2>1. d \in Seats /\ x \in SeatOf /\ x.toks = {}
    BY <1>1, AtWork
  <2>2. x.cand \in SUBSET Pages
    BY <2>1 DEF SeatOf
  <2>3. x.cand # {}
    BY DEF TryIssues
  <2> QED BY <1>1, <2>1, <2>2, <2>3 DEF PipesSound, Threads
<1>3. Submits(t, x.cand) /\ seat' = [seat EXCEPT ![t][d] = y]
  BY DEF TryIssues
<1>4. y.toks = {k} /\ y.need = x.cand /\ y.st = "Wait"
  <2> HIDE DEF x, k
  <2>1. k \in Nat /\ k # 0
    BY <1>2
  <2>2. /\ y.need = x.cand
        /\ y.toks = (IF k = 0 THEN x.toks ELSE x.toks \cup {k})
        /\ y.st = (IF x.cand = {} THEN "Ready" ELSE "Wait")
    BY <1>2, <2>1, IssuedSeat
  <2> HIDE DEF y
  <2> QED BY <1>2, <2>1, <2>2
<1>5. \A u \in Threads, e \in Seats : seat'[u][e] = IF u = t /\ e = d THEN y ELSE seat[u][e]
  BY <1>1, <1>2, <1>3 DEF CountInv, CountTypes
<1>6. PipesSound'
  BY <1>1, <1>2, <1>3, SubmitsSound
<1>7. Slots' = Slots /\ Seats' = Seats /\ (use_window' <=> use_window)
  BY SameLine
<1> HIDE DEF d, x, y
<1>8. SlotsOwned'
  <2> SUFFICES ASSUME ~use_window, NEW u \in Threads, NEW e \in Seats, seat'[u][e].st = "Wait"
               PROVE  /\ OwnSlot(u, e)'
                      /\ \A f \in Seats \ {e} : seat'[u][f].toks \cap seat'[u][e].toks = {}
    BY <1>7 DEF SlotsOwned
  <2>1. PICK s \in Slots, P \in SUBSET x.cand :
          /\ ~slot[t][s].active /\ P # {}
          /\ slot' = [slot EXCEPT ![t] = IssuedSlots(t, PumpedSlots(t), s, P)]
    BY <1>1, <1>2, <1>3, SubmitsSound
  <2>2. PumpedSlots(t) \in [Slots -> Issue] /\ slot \in [Pipes -> [Slots -> Issue]]
    BY <1>1, <1>2, PumpedSound DEF Sound, PipesSound
  <2>3. /\ slot'[t][s] = [active |-> TRUE, tok |-> k, pages |-> P, consumed |-> {}]
        /\ \A r \in Slots \ {s} : slot'[t][r] = PumpedSlots(t)[r]
        /\ \A v \in Threads \ {t} : slot'[v] = slot[v]
    BY <1>2, <2>1, <2>2 DEF IssuedSlots, Threads
  <2>4. slot'[t][s].active /\ slot'[t][s].tok = k /\ slot'[t][s].pages = P
    BY <2>3
  <2>5. \A v \in Threads, r \in Slots : slot[v][r].active =>
          slot'[v][r].active /\ slot'[v][r].tok = slot[v][r].tok /\ slot'[v][r].pages = slot[v][r].pages
    BY <1>1, <2>1, <2>3, PumpedSlot DEF Threads
  <2>6. ASSUME NEW f \in Seats, f # d PROVE k \notin seat[t][f].toks
    <3>1. CASE seat[t][f].st # "Wait"
      BY <1>1, <3>1 DEF CountInv, HeldRight
    <3>2. CASE seat[t][f].st = "Wait"
      <4>1. PICK r \in Slots : slot[t][r].active /\ seat[t][f].toks = {slot[t][r].tok}
        BY <1>1, <2>6, <3>2 DEF SlotsOwned, OwnSlot
      <4>2. slot[t][r].tok < k /\ slot[t][r].tok \in Nat
        BY <1>1, <1>2, <4>1 DEF PipesSound, Sound, Issue
      <4> QED BY <1>2, <4>1, <4>2
    <3> QED BY <3>1, <3>2
  <2>7. CASE u = t /\ e = d
    <3>1. seat'[u][e].toks = {k} /\ seat'[u][e].need = x.cand
      BY <1>4, <1>5, <2>7
    <3>2. OwnSlot(u, e)'
      BY <1>7, <2>1, <2>4, <2>7, <3>1 DEF OwnSlot
    <3>3. \A f \in Seats \ {e} : seat'[u][f].toks \cap seat'[u][e].toks = {}
      BY <1>5, <2>6, <2>7, <3>1
    <3> QED BY <3>2, <3>3
  <2>8. CASE ~(u = t /\ e = d)
    <3>1. seat'[u][e] = seat[u][e]
      BY <1>5, <2>8
    <3>2. OwnSlot(u, e) /\ \A f \in Seats \ {e} : seat[u][f].toks \cap seat[u][e].toks = {}
      BY <1>1, <3>1 DEF SlotsOwned
    <3>3. OwnSlot(u, e)'
      <4>1. PICK r \in Slots :
              /\ slot[u][r].active /\ seat[u][e].toks = {slot[u][r].tok}
              /\ slot[u][r].pages # {} /\ slot[u][r].pages \subseteq seat[u][e].need
        BY <3>2 DEF OwnSlot
      <4>2. /\ slot'[u][r].active /\ seat'[u][e].toks = {slot'[u][r].tok}
            /\ slot'[u][r].pages # {} /\ slot'[u][r].pages \subseteq seat'[u][e].need
        BY <2>5, <3>1, <4>1
      <4> QED BY <1>7, <4>2 DEF OwnSlot
    <3>4. ASSUME NEW f \in Seats \ {e} PROVE seat'[u][f].toks \cap seat'[u][e].toks = {}
      <4>1. CASE u = t /\ f = d
        BY <1>4, <1>5, <2>6, <2>8, <3>1, <4>1
      <4>2. CASE ~(u = t /\ f = d)
        BY <1>5, <3>1, <3>2, <3>4, <4>2
      <4> QED BY <4>1, <4>2
    <3> QED BY <3>3, <3>4
  <2> QED BY <2>7, <2>8
<1> QED BY <1>6, <1>8 DEF StealInv

\* Ranking releases the seat's own slot and no other, and that one has landed.
LEMMA ReleasesOwn ==
  ASSUME StealInv, NEW t \in Threads, NEW d \in Seats, seat[t][d].st \in {"Wait", "Ready"},
         coversAll(t, seat[t][d].need)
  PROVE  LET x  == seat[t][d]
             sl == Released(slot[t], x.toks, x.need)
         IN  /\ sl \in [Slots -> Issue]
             /\ \A s \in Slots : sl[s].active => sl[s] = slot[t][s] /\ slot[t][s].active
             /\ \A s \in Slots : slot[t][s].active /\ ~sl[s].active =>
                  /\ ~use_window /\ x.st = "Wait" /\ slot[t][s].tok \in x.toks
                  /\ ReadyIn(t, slot[t][s]) = slot[t][s].pages
<1> DEFINE x  == seat[t][d]
           sl == Released(slot[t], x.toks, x.need)
           Goes(s) == /\ ~use_window /\ slot[t][s].active
                      /\ slot[t][s].tok \in x.toks \/ (x.need # {} /\ x.need \subseteq slot[t][s].pages)
<1>1. CountInv /\ PipesSound /\ SlotsOwned /\ t \in Pipes
  BY DEF StealInv, Threads
<1>2. \A s \in Slots : slot[t][s] \in Issue
  BY <1>1 DEF PipesSound
<1>3. \A s \in Slots : sl[s] = IF Goes(s) THEN NoIssue ELSE slot[t][s]
  BY DEF Released
<1>4. sl \in [Slots -> Issue]
  <2>1. \A s \in Slots : sl[s] \in Issue
    BY <1>2, <1>3, NoIssueIs
  <2> QED BY <2>1 DEF Released
<1>5. ASSUME NEW s \in Slots, Goes(s)
      PROVE  x.st = "Wait" /\ slot[t][s].tok \in x.toks /\ ReadyIn(t, slot[t][s]) = slot[t][s].pages
  <2>1. x.st = "Wait"
    BY <1>1, <1>5 DEF CountInv, HeldRight
  <2>2. PICK r \in Slots :
          /\ slot[t][r].active /\ x.toks = {slot[t][r].tok}
          /\ slot[t][r].pages # {} /\ slot[t][r].pages \subseteq x.need
    BY <1>1, <1>5, <2>1 DEF SlotsOwned, OwnSlot
  <2>3. s = r
    <3>1. CASE slot[t][s].tok \in x.toks
      BY <1>1, <1>5, <2>2, <3>1 DEF PipesSound, Sound
    <3>2. CASE x.need \subseteq slot[t][s].pages
      BY <1>1, <1>5, <2>2, <3>2 DEF PipesSound, Apart
    <3> QED BY <1>5, <3>1, <3>2
  <2>4. ASSUME NEW p \in slot[t][r].pages PROVE p \in ReadyIn(t, slot[t][r])
    <3>1. covers(t, p)
      BY <2>2, <2>4 DEF coversAll
    <3>2. PICK q \in Slots : slot[t][q].active /\ p \in slot[t][q].pages /\ p \in ReadyIn(t, slot[t][q])
      BY <1>1, <1>5, <3>1, CoveredLanded
    <3>3. q = r
      BY <1>1, <1>5, <2>2, <2>4, <3>2 DEF PipesSound, Apart
    <3> QED BY <3>2, <3>3
  <2>5. ReadyIn(t, slot[t][r]) = slot[t][r].pages
    BY <2>4 DEF ReadyIn
  <2> QED BY <2>1, <2>2, <2>3, <2>5
<1>6. \A s \in Slots : sl[s].active => ~Goes(s)
  BY <1>3, NoIssueIs
<1>7. \A s \in Slots : slot[t][s].active /\ ~sl[s].active => Goes(s)
  BY <1>3
<1>8. \A s \in Slots : sl[s].active => sl[s] = slot[t][s] /\ slot[t][s].active
  BY <1>3, <1>6
<1>9. \A s \in Slots : slot[t][s].active /\ ~sl[s].active => ~use_window
  BY <1>7
<1> HIDE DEF Goes, sl
<1> QED BY <1>4, <1>5, <1>7, <1>8, <1>9 DEF sl

\* Ranking a query releases its own slots only, and scores landed pages.
LEMMA RanksOwned ==
  ASSUME StealInv, UNCHANGED opt, NEW t \in Threads, Ranks(t)
  PROVE  PipesSound' /\ SlotsOwned' /\ ~misread'
<1> DEFINE d == pc[t].seat
           x == seat[t][d]
           sl == Released(slot[t], x.toks, x.need)
<1>1. CountInv /\ PipesSound /\ SlotsOwned /\ ~misread /\ t \in Pipes
  BY DEF StealInv, Threads
<1>2. d \in Seats /\ x.st \in {"Wait", "Ready"}
  <2>1. pc[t].at = "Rank"
    BY DEF Ranks
  <2> QED BY <1>1, <2>1 DEF CountInv, CountTypes, StepOf, OnSeat
<1>3. CASE UNCHANGED <<pipeVars, seatVars>>
  <2>1. UNCHANGED <<opt, slot, next_tok, pending, finished, misread>> /\ UNCHANGED seat
    BY <1>3 DEF pipeVars, seatVars
  <2> QED BY <2>1, PipesSame
<1>4. CASE /\ coversAll(t, x.need) /\ pqq_rank(t, x)
           /\ seat' = [seat EXCEPT ![t][d] = EmptySeat]
  <2>1. /\ misread' = (misread \/ \E p \in x.need : ~ReadsLanded(t, p))
        /\ slot' = [slot EXCEPT ![t] = sl]
        /\ UNCHANGED <<resident, next_tok, pending, finished>>
    BY <1>4 DEF pqq_rank
  <2>2. ~misread'
    BY <1>1, <1>4, <2>1, ScoresLanded
  <2>3. /\ sl \in [Slots -> Issue]
        /\ \A s \in Slots : sl[s].active => sl[s] = slot[t][s] /\ slot[t][s].active
        /\ \A s \in Slots : slot[t][s].active /\ ~sl[s].active =>
             /\ ~use_window /\ x.st = "Wait" /\ slot[t][s].tok \in x.toks
             /\ ReadyIn(t, slot[t][s]) = slot[t][s].pages
    BY <1>2, <1>4, ReleasesOwn
  <2>4. \A u \in Threads, e \in Seats : seat'[u][e] = IF u = t /\ e = d THEN EmptySeat ELSE seat[u][e]
    BY <1>1, <1>2, <1>4 DEF CountInv, CountTypes
  <2>5. \A u \in Threads : slot'[u] = IF u = t THEN sl ELSE slot[u]
    BY <1>1, <2>1 DEF PipesSound, Threads
  <2> HIDE DEF sl, x, d
  <2>6. Sound(t, sl) /\ Apart(sl)
    BY <1>1, <2>3, ClearedSound
  <2>7. PipesSound'
    BY <1>1, <2>1, <2>6, SlotsStep
  <2>8. Slots' = Slots /\ Seats' = Seats /\ (use_window' <=> use_window)
    BY SameLine
  <2>9. SlotsOwned'
    <3> SUFFICES ASSUME ~use_window, NEW u \in Threads, NEW e \in Seats, seat'[u][e].st = "Wait"
                 PROVE  /\ OwnSlot(u, e)'
                        /\ \A f \in Seats \ {e} : seat'[u][f].toks \cap seat'[u][e].toks = {}
      BY <2>8 DEF SlotsOwned
    <3>1. seat'[u][e] = seat[u][e] /\ ~(u = t /\ e = d)
      BY <2>4, SeatShapes
    <3>2. OwnSlot(u, e) /\ \A f \in Seats \ {e} : seat[u][f].toks \cap seat[u][e].toks = {}
      BY <1>1, <3>1 DEF SlotsOwned
    <3>3. PICK r \in Slots :
            /\ slot[u][r].active /\ seat[u][e].toks = {slot[u][r].tok}
            /\ slot[u][r].pages # {} /\ slot[u][r].pages \subseteq seat[u][e].need
      BY <3>2 DEF OwnSlot
    <3>4. slot'[u][r] = slot[u][r]
      <4>1. CASE u # t
        BY <2>5, <4>1
      <4>2. CASE u = t
        <5>1. slot[t][r].tok \notin x.toks
          BY <1>2, <3>1, <3>2, <3>3, <4>2 DEF x
        <5>2. sl[r].active
          BY <2>3, <3>3, <4>2, <5>1
        <5> QED BY <2>3, <2>5, <4>2, <5>2
      <4> QED BY <4>1, <4>2
    <3>5. OwnSlot(u, e)'
      BY <2>8, <3>1, <3>3, <3>4 DEF OwnSlot
    <3>6. \A f \in Seats : seat'[u][f].toks \subseteq seat[u][f].toks
      BY <2>4, SeatShapes
    <3> QED BY <3>1, <3>2, <3>5, <3>6
  <2> QED BY <2>2, <2>7, <2>9
<1> QED BY <1>3, <1>4 DEF Ranks

\* The steps that write seats but no slot: a seat that waits afterwards is as
\* it was, and no seat gains a token.
LEMMA SeatOnly ==
  ASSUME CountInv, NEW t \in Threads, NEW y, seat' = [seat EXCEPT ![t][pc[t].seat] = y],
         y.st # "Wait" /\ y.toks = {}
  PROVE  /\ \A u \in Threads, d \in Seats : seat'[u][d].st = "Wait" =>
              seat[u][d].st = "Wait" /\ seat'[u][d].toks = seat[u][d].toks /\ seat'[u][d].need = seat[u][d].need
         /\ \A u \in Threads, d \in Seats : seat'[u][d].toks \subseteq seat[u][d].toks
<1>1. \A u \in Threads, d \in Seats :
        seat'[u][d] = IF u = t /\ d = pc[t].seat THEN y ELSE seat[u][d]
  BY DEF CountInv, CountTypes
<1> HIDE DEF CountInv
<1> QED BY <1>1

\* Every step of a thread preserves what the seats know of their slots.
LEMMA ThreadStep ==
  ASSUME StealInv, NEW t \in Threads, Steps(t)
  PROVE  PipesSound' /\ SlotsOwned' /\ ~misread'
<1> DEFINE x == seat[t][pc[t].seat]
<1>0. opt' = opt /\ CountInv /\ TokTypes
  BY DEF Steps, StealInv, PipesSound, TokTypes
<1>1. CASE Decides(t)
  <2>1. Pumps(t) /\ seat' = seat /\ misread' = misread
    BY <1>1 DEF Decides, seatVars
  <2> QED BY <1>0, <2>1, PumpStep
<1>2. CASE Admits(t)
  <2>1. UNCHANGED <<opt, slot, next_tok, pending, finished, misread>>
    BY <1>0, <1>2 DEF Admits
  <2>2. CASE seat' = seat
    BY <2>1, <2>2, PipesSame
  <2>3. CASE seat' = [seat EXCEPT ![t][pc[t].seat] = pqq_init(next_q)]
    <3>1. pqq_init(next_q).st # "Wait" /\ pqq_init(next_q).toks = {}
      BY <1>0, SeatShapes DEF CountInv, CountTypes
    <3> QED BY <1>0, <2>1, <2>3, <3>1, SeatOnly, PipesSame
  <2> QED BY <1>2, <2>2, <2>3 DEF Admits
<1>3. CASE Beams(t)
  <2>1. CASE Pumps(t) /\ seat' = seat
    BY <1>0, <1>3, <2>1, PumpStep DEF Beams
  <2>2. CASE /\ \E y \in pqq_beam(x) : seat' = [seat EXCEPT ![t][pc[t].seat] = y]
             /\ UNCHANGED pipeVars
    <3>1. PICK c \in Cands[x.q] :
            seat' = [seat EXCEPT ![t][pc[t].seat] = [x EXCEPT !.cand = c]]
      BY <2>2 DEF pqq_beam
    <3>2. UNCHANGED <<opt, slot, next_tok, pending, finished, misread>>
      BY <1>0, <1>3, <2>2 DEF Beams, pipeVars
    <3>3. x \in SeatOf /\ x.st # "Wait" /\ x.toks = {}
      BY <1>0, <1>3, AtWork DEF Beams
    <3>4. [x EXCEPT !.cand = c].st # "Wait" /\ [x EXCEPT !.cand = c].toks = {}
      BY <3>3 DEF SeatOf
    <3> QED BY <1>0, <3>1, <3>2, <3>4, SeatOnly, PipesSame
  <2> QED BY <1>3, <2>1, <2>2 DEF Beams
<1>4. CASE TryLooks(t) \/ TryAdds(t)
  <2>1. UNCHANGED <<opt, slot, next_tok, pending, finished, misread>>
    BY <1>0, <1>4 DEF TryLooks, TryAdds, pipeVars
  <2>2. x \in SeatOf /\ x.st # "Wait" /\ x.toks = {}
    BY <1>0, <1>4, AtWork DEF TryLooks, TryAdds
  <2>3. CASE seat' = seat
    BY <2>1, <2>3, PipesSame
  <2>4. CASE seat' = [seat EXCEPT ![t][pc[t].seat].st = "Hold"]
    <3>1. seat' = [seat EXCEPT ![t][pc[t].seat] = [x EXCEPT !.st = "Hold"]]
      BY <2>4
    <3>2. [x EXCEPT !.st = "Hold"].st # "Wait" /\ [x EXCEPT !.st = "Hold"].toks = {}
      BY <2>2 DEF SeatOf
    <3> QED BY <1>0, <2>1, <3>1, <3>2, SeatOnly, PipesSame
  <2>5. CASE seat' = [seat EXCEPT ![t][pc[t].seat].held = TRUE]
    <3>1. seat' = [seat EXCEPT ![t][pc[t].seat] = [x EXCEPT !.held = TRUE]]
      BY <2>5
    <3>2. [x EXCEPT !.held = TRUE].st # "Wait" /\ [x EXCEPT !.held = TRUE].toks = {}
      BY <2>2 DEF SeatOf
    <3> QED BY <1>0, <2>1, <3>1, <3>2, SeatOnly, PipesSame
  <2> QED BY <1>4, <2>3, <2>4, <2>5 DEF TryLooks, TryAdds
<1>5. CASE TrySubmits(t)
  <2>1. pc[t].at = "submit" /\ misread' = misread
    BY <1>5 DEF TrySubmits
  <2>2. x \in SeatOf /\ x.toks = {}
    BY <1>0, <2>1, AtWork
  <2>3. pqq_issue(x, 0) \in SeatOf /\ pqq_issue(x, 0).toks = {}
        /\ (x.cand = {} => pqq_issue(x, 0).st = "Ready")
    BY <2>2, IssuedSeat
  <2>4. CASE TryIssues(t, x)
    BY <1>0, <2>1, <2>4, IssuesOwned
  <2>5. CASE TryHolds(t, x)
    <3> DEFINE y == [pqq_issue(x, 0) EXCEPT !.st = "Hold", !.held = FALSE]
    <3>1. Refuses(t, x.cand) /\ seat' = [seat EXCEPT ![t][pc[t].seat] = y]
      BY <2>5 DEF TryHolds
    <3>2. y.st # "Wait" /\ y.toks = {}
      BY <2>3 DEF SeatOf
    <3> QED BY <1>0, <2>1, <3>1, <3>2, SeatOnly, PumpStep
  <2>6. CASE TryNeedsNothing(t, x)
    <3> DEFINE y == [pqq_issue(x, 0) EXCEPT !.held = FALSE]
    <3>1. /\ seat' = [seat EXCEPT ![t][pc[t].seat] = y] /\ x.cand = {}
          /\ UNCHANGED <<opt, slot, next_tok, pending, finished, misread>>
      BY <1>0, <2>1, <2>6 DEF TryNeedsNothing, pipeVars
    <3>2. y.st # "Wait" /\ y.toks = {}
      BY <2>3, <3>1 DEF SeatOf
    <3> QED BY <1>0, <3>1, <3>2, SeatOnly, PipesSame
  <2> QED BY <1>5, <2>4, <2>5, <2>6 DEF TrySubmits
<1>6. CASE Ranks(t)
  BY <1>0, <1>6, RanksOwned
<1> QED BY <1>1, <1>2, <1>3, <1>4, <1>5, <1>6 DEF Steps

\* Every step keeps the invariant.
LEMMA StealStep ==
  ASSUME StealInv, [Next]_vars
  PROVE  StealInv'
<1>0. CountInv /\ PipesSound /\ SlotsOwned /\ ~misread /\ TokTypes
  BY DEF StealInv, PipesSound, TokTypes
<1>1. ASSUME NEW t \in Threads, Steps(t) PROVE StealInv'
  <2>1. Next
    BY <1>1 DEF Next
  <2> QED BY <1>0, <1>1, <2>1, StepCounts, ThreadStep DEF StealInv
<1>2. CASE PoolRuns
  <2>1. PICK j \in pending : Lands(j)
    BY <1>2 DEF PoolRuns
  <2>2. opt' = opt /\ seat' = seat /\ misread' = misread
    BY <1>2 DEF PoolRuns, seatVars
  <2>3. PipesSound' /\ slot' = slot
    BY <1>0, <2>1, <2>2, LandsSound
  <2>4. SlotsOwned'
    BY <1>0, <2>2, <2>3, OwnedKept
  <2>5. CountInv'
    BY <1>0, <1>2, StepCounts DEF Next
  <2> QED BY <1>0, <2>2, <2>3, <2>4, <2>5 DEF StealInv
<1>3. CASE UNCHANGED vars
  <2>1. UNCHANGED <<opt, slot, next_tok, pending, finished, misread>> /\ seat' = seat
        /\ UNCHANGED <<opt, seat, answered, next_q, nand_inflight, pc>>
    BY <1>3 DEF vars, pipeVars, seatVars
  <2>2. CountInv'
    BY <1>0, <2>1, CountSame
  <2> QED BY <2>1, <2>2, PipesSame DEF StealInv
<1> QED BY <1>1, <1>2, <1>3 DEF Next, Finished

\* The invariant holds when the threads start.
LEMMA InitSteal ==
  ASSUME Init, Tidy
  PROVE  StealInv
<1>1. CountInv /\ opt \in Configs
  BY InitCounts DEF CountInv, CountTypes
<1>2. /\ next_tok = [h \in Pipes |-> 1] /\ pending = {} /\ finished = {} /\ ~misread
      /\ slot = [h \in Pipes |-> [s \in Slots |-> NoIssue]]
  BY DEF Init, PipeInit, SeatInit, Pool!Init
<1>3. \A h \in Pipes, s \in Slots : slot[h][s] = NoIssue /\ ~NoIssue.active /\ NoIssue \in Issue
  BY <1>2, NoIssueIs
<1>4. slot \in [Pipes -> [Slots -> Issue]]
  BY <1>2, <1>3
<1>5. PipesSound
  BY <1>1, <1>2, <1>3, <1>4 DEF PipesSound, Sound, Apart, JobsSound, JobOf
<1>6. \A t \in Threads, d \in Seats : seat[t][d].st # "Wait"
  BY SeatShapes DEF Init, SeatInit, Threads
<1> QED BY <1>1, <1>2, <1>5, <1>6 DEF StealInv, SlotsOwned

\* The invariant of the scheduler with its pipes: unless extent runs meet a
\* scoring mode that keeps slots, whatever the interleaving of threads and pool.
THEOREM StealSafe == Spec /\ Tidy => []StealInv
<1>1. Init /\ Tidy => StealInv
  BY InitSteal
<1>2. StealInv /\ [Next]_vars => StealInv'
  BY StealStep
<1> QED BY <1>1, <1>2, PTL DEF Spec

\* No job of the pool writes to a slot that was freed.
THEOREM StealNoDangling == Spec /\ Tidy => []NoDanglingJob
<1>1. StealInv => NoDanglingJob
  BY SoundNoDangling DEF StealInv
<1> QED BY <1>1, StealSafe, PTL

\* A waiting query's slots are released by nobody else.
THEOREM StealKeepsSlots == Spec /\ Tidy => []WaitersKeepSlots
<1>1. StealInv => WaitersKeepSlots
  BY DEF StealInv, SlotsOwned, OwnSlot, WaitersKeepSlots, Threads
<1> QED BY <1>1, StealSafe, PTL

\* Every candidate is scored from bytes that have landed.
THEOREM StealScoresRight == Spec /\ Tidy => []ScoredRight
<1>1. StealInv => ScoredRight
  BY DEF StealInv, ScoredRight
<1> QED BY <1>1, StealSafe, PTL
==============================================================================
