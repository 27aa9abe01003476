-------------------------- MODULE Pipe2SchedProofs --------------------------
(***************************************************************************)
(* The blocking per-thread scheduler, for any number of threads, seats,    *)
(* slots, queries and pages.  That a query has one seat needs nothing of   *)
(* the pipes (CountInv); that a release takes no slot but the query's own  *)
(* needs that no page is in two slots and no query's pages lie within      *)
(* another's (Pipe2Inv); that an issue outside the window mode finds a     *)
(* slot needs that seats have one each, but for the seat that is waited    *)
(* for (LeanInv).                                                          *)
(***************************************************************************)
EXTENDS Pipe2Sched, HidePipeProofs

-----------------------------------------------------------------------------
(* Seats and queries.                                                      *)

\* Seats are a finite set of numbers, the first of them 0.
LEMMA Numbered ==
  ASSUME opt \in Configs
  PROVE  /\ Slots \subseteq Int /\ IsFiniteSet(Slots)
         /\ Seats \subseteq Int /\ IsFiniteSet(Seats) /\ 0 \in Seats
         /\ Queries \subseteq Nat
         /\ \A q \in Queries : Cands[q] \subseteq SUBSET Pages
<1>1. opt.depth \in Nat \ {0} /\ opt.nq \in Nat /\ opt.cands \in [0 .. opt.nq - 1 -> SUBSET SUBSET Pages]
  BY SeatConstants
<1>2. Seats \subseteq Int /\ IsFiniteSet(Seats) /\ 0 \in Seats
  BY <1>1, FS_Interval, SMTT(30) DEF Seats, Depth
<1>3. Queries \subseteq Nat /\ \A q \in Queries : Cands[q] \subseteq SUBSET Pages
  BY <1>1 DEF Queries, Cands, NQ
<1> QED BY <1>2, <1>3, SlotsNumbered

\* The first of a set of slots or seats is one of them.
LEMMA FirstOf ==
  ASSUME opt \in Configs, NEW S, S \subseteq Slots \/ S \subseteq Seats, S # {}
  PROVE  Min(S) \in S
<1>1. S \in SUBSET Int /\ IsFiniteSet(S)
  BY Numbered, FS_Subset
<1> QED BY <1>1, MinIn

\* What depends on the command line alone.
LEMMA SameLine ==
  ASSUME UNCHANGED opt
  PROVE  Slots' = Slots /\ Seats' = Seats /\ Queries' = Queries
         /\ (use_window' <=> use_window) /\ (Tidy' <=> Tidy)
BY SamePipe DEF Seats, Depth, Queries, NQ

-----------------------------------------------------------------------------
(* The inductive invariants.                                               *)

SeatOf ==
  [st : {"Empty", "Ready", "Wait"}, q : Int, cand : SUBSET Pages,
   need : SUBSET Pages, toks : SUBSET Nat, held : BOOLEAN]
StepOf ==
  [at : {"loop", "Fill", "beam", "submit", "stall", "wait", "Rank", "exit"},
   seat : Seats, rest : SUBSET Pages, miss : SUBSET Pages]

\* Thread t's queries.
Stripe(t) == {n \in Nat : \E k \in Nat : n = t + k * opt.threads}

CountTypes ==
  /\ opt \in Configs
  /\ seat \in [Pipes -> [Seats -> SeatOf]]
  /\ pc \in [Threads -> StepOf]
  /\ answered \in [Queries -> Nat]
  /\ next_qi \in [Threads -> Nat]

\* The seat a thread works on, and the step it is at.
OnSeat ==
  \A t \in Threads :
    LET x == seat[t][pc[t].seat]
    IN  /\ pc[t].at = "Fill" => x.st = "Empty" /\ next_qi[t] < NQ
        /\ pc[t].at \in {"beam", "submit", "stall"} => x.st = "Ready"
        /\ pc[t].at = "stall" => x.cand # {}
        /\ pc[t].at = "wait" => x.st = "Wait" /\ pc[t].rest \subseteq x.need
        /\ pc[t].at = "Rank" => x.st \in {"Wait", "Ready"}

\* A seat that does not wait needs nothing and has no tokens.
WaitRight ==
  \A h \in Pipes, d \in Seats : seat[h][d].st # "Wait" => seat[h][d].need = {} /\ seat[h][d].toks = {}

\* A seated query is its thread's own, admitted, in no other seat and not
\* answered.
QueriesRight ==
  /\ \A h \in Pipes, d \in Seats : seat[h][d].st # "Empty" =>
       /\ h \in Threads /\ seat[h][d].q \in Stripe(h) \cap Queries /\ seat[h][d].q < next_qi[h]
       /\ answered[seat[h][d].q] = 0
       /\ \A e \in Seats : seat[h][e].st # "Empty" /\ seat[h][e].q = seat[h][d].q => e = d
  /\ \A t \in Threads : next_qi[t] \in Stripe(t)
  /\ \A q \in Queries : answered[q] <= 1
  /\ \A t \in Threads : \A q \in Stripe(t) \cap Queries : q >= next_qi[t] => answered[q] = 0

CountInv == CountTypes /\ OnSeat /\ WaitRight /\ QueriesRight

\* No page set of a query lies within one of another query.
NoneWithin ==
  \A q, r \in Queries : q # r =>
    \A c \in Cands[q], e \in Cands[r] : c # {} => ~(c \subseteq e)

\* A slot belongs to the waiting seat that has its token, and holds pages that
\* this seat needs; a token is in one seat.
SlotsOwned ==
  ~use_window =>
    /\ NoneWithin
    /\ \A t \in Threads, s \in Slots : slot[t][s].active =>
         \E d \in Seats : /\ seat[t][d].st = "Wait" /\ slot[t][s].tok \in seat[t][d].toks
                          /\ slot[t][s].pages \subseteq seat[t][d].need
    /\ \A t \in Threads, d, e \in Seats : d # e => seat[t][d].toks \cap seat[t][e].toks = {}
    /\ \A t \in Threads, d \in Seats : \A k \in seat[t][d].toks : k < next_tok[t]
    /\ \A t \in Threads, d \in Seats :
         /\ seat[t][d].st = "Wait" => seat[t][d].need # {} /\ seat[t][d].need \in Cands[seat[t][d].q]
         /\ pc[t].at = "submit" /\ pc[t].seat = d => seat[t][d].cand \in Cands[seat[t][d].q]

\* Command lines under which no query disturbs another's slots: window scoring,
\* or no extent runs and no page set within another query's.
Undisturbed == Tidy /\ (use_window \/ NoneWithin)

Pipe2Inv == CountInv /\ PipesSound /\ SlotsOwned /\ ~misread
TokTypes == next_tok \in [Pipes -> Nat \ {0}]
-----------------------------------------------------------------------------
(* The seats: every step preserves CountInv.                               *)

\* The threads are pipes, and Stride is their number.
LEMMA ThreadsAre ==
  ASSUME opt \in Configs
  PROVE  /\ Threads \subseteq Pipes /\ Threads \subseteq Nat
         /\ opt.threads \in Nat \ {0} /\ Stride = opt.threads
         /\ NQ \in Nat
         /\ \A t \in Threads : t < opt.threads
<1>1. Cardinality(Pipes) \in Nat
  BY PipeConstants, FS_CardinalityType
<1>2. opt.threads \in 1 .. Cardinality(Pipes) /\ Pipes = 0 .. Cardinality(Pipes) - 1
  BY Pipe2Constants
<1>3. Cardinality(0 .. opt.threads - 1) = opt.threads
  BY <1>1, <1>2, FS_Interval
<1> QED BY <1>1, <1>2, <1>3, SeatConstants DEF Threads, Stride, NQ

\* Two threads' queries are apart, and the next query of a thread is its own.
LEMMA Stripes ==
  ASSUME opt \in Configs
  PROVE  /\ \A t \in Threads : t \in Stripe(t)
         /\ \A t \in Threads : \A n \in Stripe(t) : n \in Nat /\ n + Stride \in Stripe(t)
         /\ \A t, u \in Threads : \A n \in Stripe(t) \cap Stripe(u) : t = u
<1> DEFINE T == opt.threads
<1>1. T \in Nat \ {0} /\ Stride = T /\ \A t \in Threads : t \in Nat /\ t < T
  BY ThreadsAre
<1> HIDE DEF T
<1>2. \A t : Stripe(t) = {n \in Nat : \E k \in Nat : n = t + k * T}
  BY DEF Stripe, T
<1>3. ASSUME NEW t \in Threads PROVE t \in Stripe(t)
  <2>1. t = t + 0 * T
    BY <1>1
  <2> QED BY <1>1, <1>2, <2>1
<1>4. ASSUME NEW t \in Threads, NEW n \in Stripe(t) PROVE n \in Nat /\ n + Stride \in Stripe(t)
  <2>1. n \in Nat
    BY <1>2
  <2>2. PICK k \in Nat : n = t + k * T
    BY <1>2
  <2>3. n + T = t + (k + 1) * T /\ n + T \in Nat /\ k + 1 \in Nat
    BY <1>1, <2>1, <2>2
  <2> QED BY <1>1, <1>2, <2>1, <2>3
<1>5. ASSUME NEW t \in Threads, NEW u \in Threads, NEW n \in Stripe(t) \cap Stripe(u) PROVE t = u
  <2>1. PICK k \in Nat : n = t + k * T
    BY <1>2
  <2>2. PICK j \in Nat : n = u + j * T
    BY <1>2
  <2>3. t \in Nat /\ u \in Nat /\ t < T /\ u < T
    BY <1>1
  <2>4. \A a, b \in Nat : a < b => (a + 1) * T <= b * T
    <3> SUFFICES ASSUME NEW a \in Nat, NEW b \in Nat, a < b PROVE (a + 1) * T <= b * T
      OBVIOUS
    <3>1. b - (a + 1) \in Nat
      OBVIOUS
    <3>2. (b - (a + 1)) * T >= 0
      BY <1>1, <3>1
    <3> QED BY <1>1, <3>2
  <2>5. \A a \in Nat : a * T \in Nat /\ (a + 1) * T = a * T + T
    BY <1>1
  <2>6. CASE k < j
    BY <1>1, <2>1, <2>2, <2>3, <2>4, <2>5, <2>6
  <2>7. CASE j < k
    BY <1>1, <2>1, <2>2, <2>3, <2>4, <2>5, <2>7
  <2>8. CASE k = j
    BY <2>1, <2>2, <2>3, <2>5, <2>8
  <2> QED BY <2>6, <2>7, <2>8
<1> QED BY <1>3, <1>4, <1>5

\* The fields of a thread's step.
LEMMA AtIs ==
  ASSUME NEW a, NEW d
  PROVE  /\ At(a, d).at = a /\ At(a, d).seat = d
         /\ a \in {"loop", "Fill", "beam", "submit", "stall", "wait", "Rank", "exit"} /\ d \in Seats
              => At(a, d) \in StepOf
BY DEF At, StepOf

\* What an empty seat and a freshly filled one look like.
LEMMA SeatShapes ==
  /\ EmptySeat \in SeatOf /\ EmptySeat.st = "Empty" /\ EmptySeat.toks = {} /\ EmptySeat.need = {}
  /\ \A q \in Int : /\ pqq_init(q) \in SeatOf /\ pqq_init(q).st = "Ready" /\ pqq_init(q).q = q
                    /\ pqq_init(q).toks = {} /\ pqq_init(q).need = {}
<1>1. EmptySeat.st = "Empty" /\ EmptySeat.toks = {} /\ EmptySeat.need = {}
  BY DEF EmptySeat
<1>2. EmptySeat \in SeatOf
  BY DEF EmptySeat, SeatOf, NoQuery
<1>3. ASSUME NEW q \in Int
      PROVE  /\ pqq_init(q) \in SeatOf /\ pqq_init(q).st = "Ready" /\ pqq_init(q).q = q
             /\ pqq_init(q).toks = EmptySeat.toks /\ pqq_init(q).need = EmptySeat.need
  BY <1>2, <1>3 DEF pqq_init, SeatOf
<1> QED BY <1>1, <1>2, <1>3

\* What a thread knows of the seat it works on.
LEMMA Mine ==
  ASSUME CountInv, NEW t \in Threads
  PROVE  /\ opt \in Configs /\ t \in Pipes /\ 0 \in Seats
         /\ pc[t] \in StepOf /\ pc[t].seat \in Seats /\ MySeat(t) \in SeatOf
         /\ MySeat(t) = seat[t][pc[t].seat]
         /\ pc[t].at \in {"beam", "submit", "stall"} =>
              MySeat(t).st = "Ready" /\ MySeat(t).need = {} /\ MySeat(t).toks = {}
<1>1. opt \in Configs /\ t \in Pipes /\ 0 \in Seats
  BY ThreadsAre, Numbered DEF CountInv, CountTypes
<1>2. pc[t] \in StepOf /\ pc[t].seat \in Seats
  BY DEF CountInv, CountTypes, StepOf
<1>3. MySeat(t) \in SeatOf /\ MySeat(t) = seat[t][pc[t].seat]
  BY <1>1, <1>2 DEF CountInv, CountTypes, MySeat
<1>4. ASSUME pc[t].at \in {"beam", "submit", "stall"}
      PROVE  MySeat(t).st = "Ready" /\ MySeat(t).need = {} /\ MySeat(t).toks = {}
  <2>1. MySeat(t).st = "Ready"
    BY <1>3, <1>4 DEF CountInv, OnSeat
  <2>2. MySeat(t).st # "Wait"
    BY <2>1
  <2> QED BY <1>1, <1>2, <1>3, <2>1, <2>2 DEF CountInv, WaitRight
<1> QED BY <1>1, <1>2, <1>3, <1>4

\* The step z fits the seat value x that thread t works on.
Fits(t, z, x) ==
  /\ z.at = "Fill" => x.st = "Empty" /\ next_qi[t] < NQ
  /\ z.at \in {"beam", "submit", "stall"} => x.st = "Ready"
  /\ z.at = "stall" => x.cand # {}
  /\ z.at = "wait" => x.st = "Wait" /\ z.rest \subseteq x.need
  /\ z.at = "Rank" => x.st \in {"Wait", "Ready"}

\* OnSeat, one thread at a time.
LEMMA OnSeatFits == OnSeat <=> \A t \in Threads : Fits(t, pc[t], seat[t][pc[t].seat])
BY DEF OnSeat, Fits

\* What depends on the command line alone, here.
LEMMA SameCommand ==
  ASSUME UNCHANGED opt
  PROVE  Threads' = Threads /\ NQ' = NQ /\ \A t : Stripe(t)' = Stripe(t)
BY DEF Threads, NQ, Stripe

\* A step that changes only the program counter of thread t.
LEMMA PcStep ==
  ASSUME CountInv, UNCHANGED <<opt, seat, answered, next_qi>>,
         NEW t \in Threads, NEW z \in StepOf, pc' = [pc EXCEPT ![t] = z],
         Fits(t, z, seat[t][z.seat])
  PROVE  CountInv'
<1>1. Seats' = Seats /\ Queries' = Queries /\ Threads' = Threads /\ NQ' = NQ
      /\ \A u : Stripe(u)' = Stripe(u)
  BY SameLine, SameCommand
<1>2. pc' \in [Threads -> StepOf] /\ pc'[t] = z /\ \A u \in Threads \ {t} : pc'[u] = pc[u]
  BY DEF CountInv, CountTypes
<1>3. CountTypes'
  BY <1>1, <1>2 DEF CountInv, CountTypes, SeatOf, StepOf
<1>4. OnSeat'
  <2>1. \A u \in Threads : Fits(u, pc'[u], seat[u][pc'[u].seat])
    BY <1>2, OnSeatFits DEF CountInv
  <2> QED BY <1>1, <2>1 DEF OnSeat, Fits
<1>5. WaitRight' /\ QueriesRight'
  BY <1>1 DEF CountInv, WaitRight, QueriesRight
<1> QED BY <1>3, <1>4, <1>5 DEF CountInv

\* Nothing of the seats changes.
LEMMA CountSame ==
  ASSUME CountInv, UNCHANGED <<opt, seat, answered, next_qi, pc>>
  PROVE  CountInv'
<1>1. Seats' = Seats /\ Queries' = Queries /\ Threads' = Threads /\ NQ' = NQ
      /\ \A u : Stripe(u)' = Stripe(u)
  BY SameLine, SameCommand
<1>2. CountTypes'
  BY <1>1 DEF CountInv, CountTypes, SeatOf, StepOf
<1>3. OnSeat'
  BY <1>1 DEF CountInv, OnSeat
<1>4. WaitRight' /\ QueriesRight'
  BY <1>1 DEF CountInv, WaitRight, QueriesRight
<1> QED BY <1>2, <1>3, <1>4 DEF CountInv

\* A step of thread t that gives the seat it works on the value y; it goes on
\* with step z on that seat, or back to its loop.
LEMMA SeatStep ==
  ASSUME CountInv, UNCHANGED opt, NEW t \in Threads,
         NEW y \in SeatOf, seat' = [seat EXCEPT ![t][pc[t].seat] = y],
         NEW z \in StepOf, pc' = [pc EXCEPT ![t] = z],
         z.at = "loop" \/ (z.seat = pc[t].seat /\ z.at \in {"beam", "submit", "wait"}
                            /\ Fits(t, z, y)),
         y.st # "Wait" => y.need = {} /\ y.toks = {},
         \A u \in Threads \ {t} : next_qi'[u] = next_qi[u]
  PROVE  /\ seat' \in [Pipes -> [Seats -> SeatOf]] /\ pc' \in [Threads -> StepOf]
         /\ \A h \in Pipes, e \in Seats :
              seat'[h][e] = IF h = t /\ e = pc[t].seat THEN y ELSE seat[h][e]
         /\ OnSeat' /\ WaitRight'
<1> DEFINE d == pc[t].seat
<1>1. Seats' = Seats /\ Threads' = Threads /\ NQ' = NQ
  BY SameLine, SameCommand
<1>2. /\ seat \in [Pipes -> [Seats -> SeatOf]] /\ pc \in [Threads -> StepOf]
      /\ d \in Seats /\ t \in Pipes /\ Threads \subseteq Pipes
  BY Mine, ThreadsAre DEF CountInv, CountTypes
<1>3. /\ seat' \in [Pipes -> [Seats -> SeatOf]]
      /\ \A h \in Pipes, e \in Seats : seat'[h][e] = IF h = t /\ e = d THEN y ELSE seat[h][e]
  BY <1>2
<1>4. pc' \in [Threads -> StepOf] /\ pc'[t] = z /\ \A u \in Threads \ {t} : pc'[u] = pc[u]
  BY <1>2
<1>5. OnSeat'
  <2>1. ASSUME NEW u \in Threads, u # t
        PROVE  Fits(u, pc'[u], seat'[u][pc'[u].seat]) /\ next_qi'[u] = next_qi[u]
    <3>1. pc'[u] = pc[u] /\ pc[u].seat \in Seats /\ u \in Pipes /\ seat'[u][pc[u].seat] = seat[u][pc[u].seat]
      BY <1>2, <1>3, <1>4, <2>1, Mine
    <3> QED BY <2>1, <3>1, OnSeatFits DEF CountInv
  <2>2. z.at # "Fill" /\ Fits(t, z, seat'[t][z.seat])
    <3>1. CASE z.at = "loop"
      BY <3>1 DEF Fits
    <3>2. CASE z.seat = d /\ z.at \in {"beam", "submit", "wait"} /\ Fits(t, z, y)
      BY <1>2, <1>3, <3>2
    <3> QED BY <3>1, <3>2
  <2>3. ASSUME NEW u \in Threads
        PROVE  LET x == seat'[u][pc'[u].seat]
               IN  /\ pc'[u].at = "Fill" => x.st = "Empty" /\ next_qi'[u] < NQ
                   /\ pc'[u].at \in {"beam", "submit", "stall"} => x.st = "Ready"
                   /\ pc'[u].at = "stall" => x.cand # {}
                   /\ pc'[u].at = "wait" => x.st = "Wait" /\ pc'[u].rest \subseteq x.need
                   /\ pc'[u].at = "Rank" => x.st \in {"Wait", "Ready"}
    <3>1. CASE u = t
      BY <1>4, <2>2, <3>1 DEF Fits
    <3>2. CASE u # t
      BY <2>1, <2>3, <3>2 DEF Fits
    <3> QED BY <3>1, <3>2
  <2> QED BY <1>1, <2>3 DEF OnSeat
<1>6. WaitRight'
  <2>1. \A h \in Pipes, e \in Seats :
          seat'[h][e].st # "Wait" => seat'[h][e].need = {} /\ seat'[h][e].toks = {}
    BY <1>3 DEF CountInv, WaitRight
  <2> QED BY <1>1, <2>1 DEF WaitRight
<1> QED BY <1>3, <1>4, <1>5, <1>6

\* The same, with the query still in its seat.
LEMMA WorkStep ==
  ASSUME CountInv, UNCHANGED <<opt, answered, next_qi>>, NEW t \in Threads,
         NEW y \in SeatOf, seat' = [seat EXCEPT ![t][pc[t].seat] = y],
         NEW z \in StepOf, pc' = [pc EXCEPT ![t] = z],
         z.at = "loop" \/ (z.seat = pc[t].seat /\ z.at \in {"beam", "submit", "wait"}
                            /\ Fits(t, z, y)),
         y.st # "Wait" => y.need = {} /\ y.toks = {},
         y.q = MySeat(t).q, y.st # "Empty", MySeat(t).st # "Empty"
  PROVE  CountInv'
<1>1. Seats' = Seats /\ Queries' = Queries /\ Threads' = Threads /\ \A u : Stripe(u)' = Stripe(u)
  BY SameLine, SameCommand
<1>2. /\ seat' \in [Pipes -> [Seats -> SeatOf]] /\ pc' \in [Threads -> StepOf]
      /\ \A h \in Pipes, e \in Seats :
           seat'[h][e] = IF h = t /\ e = pc[t].seat THEN y ELSE seat[h][e]
      /\ OnSeat' /\ WaitRight'
  BY SeatStep
<1>3. CountTypes'
  BY <1>1, <1>2 DEF CountInv, CountTypes, SeatOf, StepOf
<1>4. \A h \in Pipes, e \in Seats :
        seat'[h][e].q = seat[h][e].q /\ (seat'[h][e].st = "Empty" <=> seat[h][e].st = "Empty")
  BY <1>2, Mine
<1>5. QueriesRight'
  BY <1>1, <1>4 DEF CountInv, QueriesRight
<1> QED BY <1>2, <1>3, <1>5 DEF CountInv

\* pipe2_decide picks a seat in the state the step it goes to expects.
LEMMA Decided ==
  ASSUME CountInv, NEW t \in Threads, NEW cov, NEW z,
         \A d \in Seats : seat[t][d].need = {} => cov[d],
         z = pipe2_decide(seat[t], cov, next_qi[t] < NQ)
  PROVE  z \in StepOf /\ Fits(t, z, seat[t][z.seat])
<1> DEFINE more == next_qi[t] < NQ
           x == seat[t]
           empty   == {d \in Seats : more /\ x[d].st = "Empty"}
           taken   == {d \in Seats : x[d].st \in {"Wait", "Ready"}}
           covered == {d \in taken : cov[d]}
           w == [At("wait", Min(taken)) EXCEPT !.rest = x[Min(taken)].need]
<1>0. opt \in Configs /\ 0 \in Seats /\ x \in [Seats -> SeatOf]
  BY Mine DEF CountInv, CountTypes
<1>1. z = IF empty # {} THEN At("Fill", Min(empty))
          ELSE IF covered # {} THEN At("Rank", Min(covered))
          ELSE IF taken # {} THEN w
          ELSE At("exit", 0)
  BY DEF pipe2_decide
<1>2. empty # {} => Min(empty) \in empty
  <2>1. empty \subseteq Seats
    OBVIOUS
  <2> HIDE DEF empty
  <2> QED BY <1>0, <2>1, FirstOf
<1>3. covered # {} => Min(covered) \in covered
  <2>1. covered \subseteq Seats
    OBVIOUS
  <2> HIDE DEF covered
  <2> QED BY <1>0, <2>1, FirstOf
<1>4. taken # {} => Min(taken) \in taken
  <2>1. taken \subseteq Seats
    OBVIOUS
  <2> HIDE DEF taken
  <2> QED BY <1>0, <2>1, FirstOf
<1>5. /\ \A d \in empty : d \in Seats /\ x[d].st = "Empty" /\ more
      /\ \A d \in covered : d \in Seats /\ x[d].st \in {"Wait", "Ready"} /\ d \in taken /\ cov[d]
      /\ \A d \in taken : d \in Seats /\ x[d].st \in {"Wait", "Ready"}
  OBVIOUS
<1>6. \A d \in taken : covered = {} => x[d].st = "Wait"
  <2>1. \A d \in taken : x[d].st # "Wait" => x[d].need = {}
    BY <1>5, Mine DEF CountInv, WaitRight
  <2> QED BY <2>1
<1> HIDE DEF empty, covered, taken, more
<1>7. CASE empty # {}
  <2>1. z = At("Fill", Min(empty)) /\ Min(empty) \in Seats /\ x[Min(empty)].st = "Empty" /\ more
    BY <1>1, <1>2, <1>5, <1>7
  <2> QED BY <2>1, AtIs DEF Fits, more
<1>8. CASE empty = {} /\ covered # {}
  <2>1. z = At("Rank", Min(covered)) /\ Min(covered) \in Seats /\ x[Min(covered)].st \in {"Wait", "Ready"}
    BY <1>1, <1>3, <1>5, <1>8
  <2> QED BY <2>1, AtIs DEF Fits
<1>9. CASE empty = {} /\ covered = {} /\ taken # {}
  <2>1. Min(taken) \in Seats /\ x[Min(taken)].st = "Wait" /\ z = w
    BY <1>1, <1>4, <1>5, <1>6, <1>9
  <2>2. x[Min(taken)].need \in SUBSET Pages
    BY <1>0, <2>1 DEF SeatOf
  <2>3. At("wait", Min(taken)) \in StepOf /\ At("wait", Min(taken)).at = "wait"
        /\ At("wait", Min(taken)).seat = Min(taken)
    BY <2>1, AtIs
  <2>4. w \in StepOf /\ w.at = "wait" /\ w.seat = Min(taken) /\ w.rest = x[Min(taken)].need
    BY <2>2, <2>3 DEF StepOf
  <2> HIDE DEF w
  <2> QED BY <2>1, <2>4 DEF Fits
<1>10. CASE empty = {} /\ covered = {} /\ taken = {}
  BY <1>0, <1>1, <1>10, AtIs DEF Fits
<1> QED BY <1>7, <1>8, <1>10, <1>9

\* Choosing and filling a seat keeps the counts.
LEMMA DecidesCounts ==
  ASSUME CountInv, UNCHANGED opt, NEW t \in Threads, Decides(t)
  PROVE  CountInv'
<1> DEFINE cov == [d \in Seats |-> coversAll(t, seat[t][d].need)']
           z == pipe2_decide(seat[t], cov, next_qi[t] < NQ)
<1>1. UNCHANGED <<seat, answered, next_qi>> /\ pc' = [pc EXCEPT ![t] = z]
  BY DEF Decides, seatVars, Goes
<1>2. \A d \in Seats : seat[t][d].need = {} => cov[d]
  BY <1>1 DEF coversAll
<1> HIDE DEF cov
<1>3. z \in StepOf /\ Fits(t, z, seat[t][z.seat])
  BY <1>2, Decided
<1> HIDE DEF z
<1> QED BY <1>1, <1>3, PcStep

\* Admission: the thread's next query takes the empty seat it chose.
LEMMA FillsCounts ==
  ASSUME CountInv, UNCHANGED opt, NEW t \in Threads, Fills(t)
  PROVE  CountInv'
<1> DEFINE d == pc[t].seat
           n == next_qi[t]
           y == pqq_init(n)
           z == At("beam", d)
<1>1. /\ next_qi' = [next_qi EXCEPT ![t] = @ + Stride] /\ answered' = answered
      /\ seat' = [seat EXCEPT ![t][d] = y] /\ pc' = [pc EXCEPT ![t] = z] /\ pc[t].at = "Fill"
  BY DEF Fills, Goes
<1>2. opt \in Configs /\ t \in Pipes /\ d \in Seats /\ Threads \subseteq Pipes
  BY Mine, ThreadsAre
<1>3. seat[t][d].st = "Empty" /\ n < NQ /\ NQ \in Nat /\ Stride \in Nat \ {0}
  BY <1>1, <1>2, ThreadsAre DEF CountInv, OnSeat
<1>4. /\ \A u \in Threads : next_qi[u] \in Stripe(u)
      /\ \A u \in Threads : \A k \in Stripe(u) : k \in Nat /\ k + Stride \in Stripe(u)
      /\ \A u, v \in Threads : \A k \in Stripe(u) \cap Stripe(v) : u = v
  BY <1>2, Stripes DEF CountInv, QueriesRight
<1>5. n \in Stripe(t) \cap Queries /\ n \in Nat /\ answered[n] = 0
  <2>1. n \in Stripe(t) /\ n \in Nat
    BY <1>4
  <2>2. n \in Queries /\ n >= n
    BY <1>3, <2>1 DEF Queries
  <2> QED BY <2>1, <2>2 DEF CountInv, QueriesRight
<1>6. /\ y \in SeatOf /\ y.st = "Ready" /\ y.q = n /\ y.toks = {} /\ y.need = {}
      /\ z \in StepOf /\ z.at = "beam" /\ z.seat = d
  BY <1>2, <1>5, SeatShapes, AtIs
<1>7. next_qi' \in [Threads -> Nat] /\ next_qi'[t] = n + Stride
      /\ \A u \in Threads \ {t} : next_qi'[u] = next_qi[u]
  BY <1>1, <1>3, <1>5 DEF CountInv, CountTypes
<1>8. Seats' = Seats /\ Queries' = Queries /\ Threads' = Threads /\ \A u : Stripe(u)' = Stripe(u)
  BY SameLine, SameCommand
<1> HIDE DEF y, z
<1>9. Fits(t, z, y)
  BY <1>6 DEF Fits
<1>10. /\ seat' \in [Pipes -> [Seats -> SeatOf]] /\ pc' \in [Threads -> StepOf]
       /\ \A h \in Pipes, e \in Seats : seat'[h][e] = IF h = t /\ e = d THEN y ELSE seat[h][e]
       /\ OnSeat' /\ WaitRight'
  <2>1. z.at = "loop" \/ (z.seat = d /\ z.at \in {"beam", "submit", "wait"} /\ Fits(t, z, y))
    BY <1>6, <1>9
  <2> QED BY <1>1, <1>6, <1>7, <2>1, SeatStep
<1>11. CountTypes'
  BY <1>1, <1>2, <1>7, <1>8, <1>10 DEF CountInv, CountTypes, SeatOf, StepOf
<1> HIDE DEF d, n
<1>12. QueriesRight'
  <2>1. \A h \in Threads, k \in Nat : /\ k < next_qi[h] => k < next_qi'[h]
                                      /\ k >= next_qi'[h] => k >= next_qi[h]
    BY <1>3, <1>5, <1>7 DEF n, CountInv, CountTypes
  <2>2. \A k \in Queries : k \in Nat
    BY <1>2, Numbered
  <2>3. ASSUME NEW h \in Pipes, NEW e \in Seats, seat[h][e].st # "Empty"
        PROVE  /\ h \in Threads /\ seat[h][e].q \in Stripe(h) \cap Queries
               /\ seat[h][e].q < next_qi[h] /\ answered[seat[h][e].q] = 0
               /\ seat[h][e].q # n
    <3>1. /\ h \in Threads /\ seat[h][e].q \in Stripe(h) \cap Queries
          /\ seat[h][e].q < next_qi[h] /\ answered[seat[h][e].q] = 0
      BY <2>3 DEF CountInv, QueriesRight
    <3>2. seat[h][e].q # n
      <4>1. CASE h = t
        BY <1>5, <2>2, <3>1, <4>1 DEF n
      <4>2. CASE h # t
        BY <1>4, <1>5, <3>1, <4>2
      <4> QED BY <4>1, <4>2
    <3> QED BY <3>1, <3>2
  <2>4. ASSUME NEW h \in Pipes, NEW e \in Seats, seat'[h][e].st # "Empty"
        PROVE  /\ h \in Threads /\ seat'[h][e].q \in Stripe(h) \cap Queries
               /\ seat'[h][e].q < next_qi'[h] /\ answered[seat'[h][e].q] = 0
               /\ seat'[h][e].q = n <=> (h = t /\ e = d)
    <3>1. CASE h = t /\ e = d
      <4>1. seat'[h][e] = y
        BY <1>10, <2>4, <3>1
      <4>2. n < n + Stride
        BY <1>3, <1>5
      <4> QED BY <1>5, <1>6, <1>7, <3>1, <4>1, <4>2
    <3>2. CASE ~(h = t /\ e = d)
      <4>1. seat'[h][e] = seat[h][e]
        BY <1>10, <2>4, <3>2
      <4>2. /\ h \in Threads /\ seat[h][e].q \in Stripe(h) \cap Queries
            /\ seat[h][e].q < next_qi[h] /\ answered[seat[h][e].q] = 0
            /\ seat[h][e].q # n
        BY <2>3, <2>4, <4>1
      <4> QED BY <2>1, <2>2, <3>2, <4>1, <4>2
    <3> QED BY <3>1, <3>2
  <2>5. ASSUME NEW h \in Pipes, NEW e \in Seats, NEW f \in Seats,
               seat'[h][e].st # "Empty", seat'[h][f].st # "Empty", seat'[h][f].q = seat'[h][e].q
        PROVE  f = e
    <3>1. CASE seat'[h][e].q = n
      BY <2>4, <2>5, <3>1
    <3>2. CASE seat'[h][e].q # n
      <4>1. seat'[h][e] = seat[h][e] /\ seat'[h][f] = seat[h][f]
        BY <1>10, <2>4, <2>5, <3>2
      <4> QED BY <2>5, <4>1 DEF CountInv, QueriesRight
    <3> QED BY <3>1, <3>2
  <2>6. \A u \in Threads : next_qi'[u] \in Stripe(u)
    BY <1>4, <1>5, <1>7
  <2>7. /\ \A q \in Queries : answered[q] <= 1
        /\ \A u \in Threads : \A q \in Stripe(u) \cap Queries : q >= next_qi'[u] => answered[q] = 0
    BY <2>1, <2>2 DEF CountInv, QueriesRight
  <2> QED BY <1>1, <1>8, <2>4, <2>5, <2>6, <2>7 DEF QueriesRight
<1> QED BY <1>10, <1>11, <1>12 DEF CountInv

\* A result is recorded, and the query leaves its seat.
LEMMA RanksCounts ==
  ASSUME CountInv, UNCHANGED opt, NEW t \in Threads, Ranks(t)
  PROVE  CountInv'
<1> DEFINE d == pc[t].seat
           k == MySeat(t).q
           z == At("loop", 0)
<1>1. /\ answered' = [answered EXCEPT ![k] = @ + 1] /\ next_qi' = next_qi
      /\ seat' = [seat EXCEPT ![t][d] = EmptySeat] /\ pc' = [pc EXCEPT ![t] = z] /\ pc[t].at = "Rank"
  BY DEF Ranks, Goes
<1>2. opt \in Configs /\ t \in Pipes /\ d \in Seats /\ z \in StepOf /\ z.at = "loop"
      /\ MySeat(t) = seat[t][d] /\ Threads \subseteq Pipes
  BY Mine, AtIs, ThreadsAre
<1>3. seat[t][d].st # "Empty" /\ seat[t][d].q = k
  BY <1>1, <1>2 DEF CountInv, OnSeat
<1>4. /\ k \in Stripe(t) \cap Queries /\ k < next_qi[t] /\ answered[k] = 0
      /\ \A e \in Seats : seat[t][e].st # "Empty" /\ seat[t][e].q = k => e = d
  BY <1>2, <1>3 DEF CountInv, QueriesRight
<1>5. Seats' = Seats /\ Queries' = Queries /\ Threads' = Threads /\ \A u : Stripe(u)' = Stripe(u)
  BY SameLine, SameCommand
<1>6. /\ EmptySeat \in SeatOf /\ EmptySeat.st = "Empty" /\ EmptySeat.toks = {} /\ EmptySeat.need = {}
  BY SeatShapes
<1> HIDE DEF z
<1>7. /\ seat' \in [Pipes -> [Seats -> SeatOf]] /\ pc' \in [Threads -> StepOf]
      /\ \A h \in Pipes, e \in Seats : seat'[h][e] = IF h = t /\ e = d THEN EmptySeat ELSE seat[h][e]
      /\ OnSeat' /\ WaitRight'
  BY <1>1, <1>2, <1>6, SeatStep
<1>8. /\ answered' \in [Queries -> Nat] /\ answered'[k] = 1
      /\ \A q \in Queries \ {k} : answered'[q] = answered[q]
  BY <1>1, <1>4 DEF CountInv, CountTypes
<1>9. CountTypes'
  BY <1>1, <1>5, <1>7, <1>8 DEF CountInv, CountTypes, SeatOf, StepOf
<1> HIDE DEF d, k
<1>10. QueriesRight'
  <2>1. /\ \A u, v \in Threads : \A n \in Stripe(u) \cap Stripe(v) : u = v
        /\ \A q \in Queries : q \in Nat
    BY <1>2, Stripes, Numbered
  <2>2. ASSUME NEW h \in Pipes, NEW e \in Seats, seat'[h][e].st # "Empty"
        PROVE  seat'[h][e] = seat[h][e] /\ seat[h][e].q # k
    <3>1. seat'[h][e] = seat[h][e] /\ ~(h = t /\ e = d)
      BY <1>6, <1>7, <2>2
    <3>2. h \in Threads /\ seat[h][e].q \in Stripe(h)
      BY <2>2, <3>1 DEF CountInv, QueriesRight
    <3> QED BY <1>4, <2>1, <2>2, <3>1, <3>2
  <2>3. ASSUME NEW h \in Pipes, NEW e \in Seats, seat'[h][e].st # "Empty"
        PROVE  /\ h \in Threads /\ seat'[h][e].q \in Stripe(h) \cap Queries
               /\ seat'[h][e].q < next_qi[h] /\ answered'[seat'[h][e].q] = 0
               /\ \A f \in Seats : seat'[h][f].st # "Empty" /\ seat'[h][f].q = seat'[h][e].q => f = e
    <3>1. seat'[h][e] = seat[h][e] /\ seat[h][e].q # k
      BY <2>2, <2>3
    <3>2. /\ h \in Threads /\ seat[h][e].q \in Stripe(h) \cap Queries
          /\ seat[h][e].q < next_qi[h] /\ answered[seat[h][e].q] = 0
          /\ \A f \in Seats : seat[h][f].st # "Empty" /\ seat[h][f].q = seat[h][e].q => f = e
      BY <2>3, <3>1 DEF CountInv, QueriesRight
    <3> QED BY <1>8, <2>2, <3>1, <3>2
  <2>4. \A q \in Queries : answered'[q] <= 1
    BY <1>8 DEF CountInv, QueriesRight
  <2>5. ASSUME NEW u \in Threads, NEW q \in Stripe(u) \cap Queries, q >= next_qi[u]
        PROVE  answered'[q] = 0
    <3>1. answered[q] = 0
      BY <2>5 DEF CountInv, QueriesRight
    <3>2. q # k
      <4>1. CASE u = t
        <5>1. q \in Nat /\ k \in Nat /\ next_qi[t] \in Nat
          BY <1>4, <2>1, <2>5 DEF CountInv, CountTypes
        <5> QED BY <1>4, <2>5, <4>1, <5>1
      <4>2. CASE u # t
        BY <1>4, <2>1, <2>5, <4>2
      <4> QED BY <4>1, <4>2
    <3> QED BY <1>8, <2>5, <3>1, <3>2
  <2>6. \A u \in Threads : next_qi[u] \in Stripe(u)
    BY DEF CountInv, QueriesRight
  <2> QED BY <1>1, <1>5, <2>3, <2>4, <2>5, <2>6 DEF QueriesRight
<1> QED BY <1>7, <1>9, <1>10 DEF CountInv

\* A step that only changes pipes, with the thread back in its loop or not.
LEMMA BackToLoop ==
  ASSUME CountInv, UNCHANGED <<opt, seat, answered, next_qi>>,
         NEW t \in Threads, pc' = [pc EXCEPT ![t] = At("loop", 0)]
  PROVE  CountInv'
<1> DEFINE z == At("loop", 0)
<1>1. z \in StepOf /\ z.at = "loop"
  BY Mine, AtIs
<1> HIDE DEF z
<1>2. Fits(t, z, seat[t][z.seat])
  BY <1>1 DEF Fits
<1> QED BY <1>1, <1>2, PcStep DEF z

\* A beam keeps the counts.
LEMMA BeamsCounts ==
  ASSUME CountInv, UNCHANGED opt, NEW t \in Threads, Beams(t)
  PROVE  CountInv'
<1> DEFINE x == MySeat(t)
           z == At("submit", pc[t].seat)
<1>1. pc[t].at = "beam" /\ UNCHANGED <<answered, next_qi>>
  BY DEF Beams
<1>2. CASE UNCHANGED <<seat, pc>>
  BY <1>1, <1>2, CountSame
<1>3. CASE /\ \E y \in pqq_beam(x) : seat' = [seat EXCEPT ![t][pc[t].seat] = y]
           /\ pc' = [pc EXCEPT ![t] = z]
  <2>1. PICK c \in Cands[x.q] : seat' = [seat EXCEPT ![t][pc[t].seat] = [x EXCEPT !.cand = c]]
    BY <1>3 DEF pqq_beam
  <2> DEFINE y == [x EXCEPT !.cand = c]
  <2>2. /\ opt \in Configs /\ t \in Pipes /\ pc[t].seat \in Seats /\ x \in SeatOf
        /\ x.st = "Ready" /\ x.need = {} /\ x.toks = {} /\ x = seat[t][pc[t].seat]
    BY <1>1, Mine
  <2>3. x.q \in Queries
    BY <2>2 DEF CountInv, QueriesRight
  <2>4. c \in SUBSET Pages
    BY <2>2, <2>3, Numbered
  <2> HIDE DEF x
  <2>5. y \in SeatOf /\ y.q = x.q /\ y.st = x.st /\ y.need = x.need /\ y.toks = x.toks
    BY <2>2, <2>4 DEF SeatOf
  <2>6. z \in StepOf /\ z.at = "submit" /\ z.seat = pc[t].seat
    BY <2>2, AtIs
  <2>7. seat' = [seat EXCEPT ![t][pc[t].seat] = y] /\ pc' = [pc EXCEPT ![t] = z]
    BY <1>3, <2>1
  <2>8. y.st = "Ready" /\ y.need = {} /\ y.toks = {} /\ y.q = MySeat(t).q /\ MySeat(t).st # "Empty"
    BY <2>2, <2>5 DEF x
  <2> HIDE DEF y, z
  <2>9. Fits(t, z, y)
    BY <2>6, <2>8 DEF Fits
  <2> QED BY <1>1, <2>5, <2>6, <2>7, <2>8, <2>9, WorkStep
<1> QED BY <1>2, <1>3 DEF Beams, Goes

\* The seat after pqq_issue.
LEMMA IssuedSeat ==
  ASSUME NEW x \in SeatOf, NEW tok \in Nat
  PROVE  LET y == pqq_issue(x, tok)
         IN  /\ y \in SeatOf /\ y.q = x.q /\ y.need = x.cand
             /\ y.toks = IF tok = 0 THEN x.toks ELSE x.toks \cup {tok}
             /\ y.st = IF x.cand = {} THEN "Ready" ELSE "Wait"
<1> DEFINE k == IF tok = 0 THEN x.toks ELSE x.toks \cup {tok}
           a == IF x.cand = {} THEN "Ready" ELSE "Wait"
<1>1. k \in SUBSET Nat /\ a \in {"Ready", "Wait"} /\ x.cand \in SUBSET Pages
  BY DEF SeatOf
<1>2. pqq_issue(x, tok) = [x EXCEPT !.need = x.cand, !.toks = k, !.st = a]
  BY DEF pqq_issue, SeatOf
<1> HIDE DEF k, a
<1>3. /\ pqq_issue(x, tok) \in SeatOf /\ pqq_issue(x, tok).q = x.q
      /\ pqq_issue(x, tok).need = x.cand /\ pqq_issue(x, tok).toks = k /\ pqq_issue(x, tok).st = a
  BY <1>1, <1>2 DEF SeatOf
<1> QED BY <1>3 DEF k, a

\* pqq_issue ends and the thread goes back to its loop.
LEMMA IssueEnds ==
  ASSUME CountInv, UNCHANGED <<opt, answered, next_qi>>, NEW t \in Threads,
         pc[t].at \in {"submit", "stall"}, NEW tok \in Nat,
         MySeat(t).cand = {} => tok = 0,
         seat' = [seat EXCEPT ![t][pc[t].seat] = pqq_issue(MySeat(t), tok)],
         pc' = [pc EXCEPT ![t] = At("loop", 0)]
  PROVE  CountInv'
<1> DEFINE x == MySeat(t)
           y == pqq_issue(x, tok)
           z == At("loop", 0)
<1>1. 0 \in Seats /\ x \in SeatOf /\ x.st = "Ready" /\ x.need = {} /\ x.toks = {}
  BY Mine
<1>2. /\ y \in SeatOf /\ y.q = x.q /\ y.need = x.cand
      /\ y.toks = IF tok = 0 THEN x.toks ELSE x.toks \cup {tok}
      /\ y.st = IF x.cand = {} THEN "Ready" ELSE "Wait"
  BY <1>1, IssuedSeat
<1>3. z \in StepOf /\ z.at = "loop"
  BY <1>1, AtIs
<1>4. y.st # "Empty" /\ x.st # "Empty" /\ (y.st # "Wait" => y.need = {} /\ y.toks = {})
  BY <1>1, <1>2
<1> HIDE DEF y, z
<1>5. seat' = [seat EXCEPT ![t][pc[t].seat] = y] /\ pc' = [pc EXCEPT ![t] = z]
  BY DEF y, z
<1> QED BY <1>2, <1>3, <1>4, <1>5, WorkStep

\* A blocking submission keeps the counts.
LEMMA SubmitsCounts ==
  ASSUME CountInv, TokTypes, UNCHANGED opt, NEW t \in Threads, SubmitsBlock(t)
  PROVE  CountInv'
<1> DEFINE x == MySeat(t)
<1>1. /\ pc[t].at = "submit" /\ UNCHANGED <<answered, next_qi>>
      /\ SubmitIssues(t, x) \/ SubmitNothing(t, x) \/ SubmitStalls(t, x)
  BY DEF SubmitsBlock
<1>2. t \in Pipes /\ pc[t].seat \in Seats /\ x \in SeatOf /\ x = seat[t][pc[t].seat] /\ x.st = "Ready"
  BY <1>1, Mine
<1>3. CASE SubmitIssues(t, x)
  <2>1. next_tok[t] \in Nat
    BY <1>2 DEF TokTypes
  <2>2. /\ x.cand # {} /\ seat' = [seat EXCEPT ![t][pc[t].seat] = pqq_issue(x, next_tok[t])]
        /\ pc' = [pc EXCEPT ![t] = At("loop", 0)]
    BY <1>3 DEF SubmitIssues, Goes
  <2> QED BY <1>1, <2>1, <2>2, IssueEnds
<1>4. CASE SubmitNothing(t, x)
  <2>1. /\ seat' = [seat EXCEPT ![t][pc[t].seat] = pqq_issue(x, 0)]
        /\ pc' = [pc EXCEPT ![t] = At("loop", 0)]
    BY <1>4 DEF SubmitNothing, Goes
  <2>2. 0 \in Nat
    OBVIOUS
  <2> QED BY <1>1, <2>1, <2>2, IssueEnds
<1>5. CASE SubmitStalls(t, x)
  <2> DEFINE m == Missing(slot'[t], resident'[t], x.cand)
             w == At("stall", pc[t].seat)
             z == [w EXCEPT !.miss = m]
  <2>1. seat' = seat /\ pc' = [pc EXCEPT ![t] = z] /\ Stalled(t, x.cand)
    BY <1>5 DEF SubmitStalls, Goes
  <2>2. m \in SUBSET Pages
    <3>1. x.cand \in SUBSET Pages
      BY <1>2 DEF SeatOf
    <3> QED BY <3>1 DEF Missing
  <2>3. x.cand # {}
    BY <2>1 DEF Stalled, Missing
  <2>4. w \in StepOf /\ w.at = "stall" /\ w.seat = pc[t].seat
    BY <1>2, AtIs
  <2> HIDE DEF m, w
  <2>5. z \in StepOf /\ z.at = "stall" /\ z.seat = pc[t].seat
    BY <2>2, <2>4 DEF StepOf
  <2> HIDE DEF z
  <2>6. Fits(t, z, seat[t][z.seat])
    BY <1>2, <2>3, <2>5 DEF Fits
  <2> QED BY <1>1, <2>1, <2>5, <2>6, PcStep
<1> QED BY <1>1, <1>3, <1>4, <1>5

\* Taking over the slot of a stalled issue keeps the counts.
LEMMA UnstallsCounts ==
  ASSUME CountInv, TokTypes, UNCHANGED opt, NEW t \in Threads, Unstalls(t)
  PROVE  CountInv'
<1> DEFINE tok == IF next_tok' = next_tok THEN 0 ELSE next_tok[t]
<1>1. /\ pc[t].at = "stall" /\ UNCHANGED <<answered, next_qi>>
      /\ seat' = [seat EXCEPT ![t][pc[t].seat] = pqq_issue(MySeat(t), tok)]
      /\ pc' = [pc EXCEPT ![t] = At("loop", 0)]
  BY DEF Unstalls, Goes
<1>2. t \in Pipes /\ MySeat(t) = seat[t][pc[t].seat]
  BY Mine
<1>3. MySeat(t).cand # {}
  BY <1>1, <1>2 DEF CountInv, OnSeat
<1>4. tok \in Nat
  BY <1>2 DEF TokTypes
<1> HIDE DEF tok
<1> QED BY <1>1, <1>3, <1>4, IssueEnds

\* A round of wait_covering keeps the counts.
LEMMA WaitsCounts ==
  ASSUME CountInv, TokTypes, UNCHANGED opt, NEW t \in Threads, WaitsCovering(t)
  PROVE  CountInv'
<1> DEFINE x == MySeat(t)
<1>1. /\ pc[t].at = "wait" /\ UNCHANGED <<answered, next_qi>>
      /\ WaitTurn(t) \/ WaitReissues(t)
  BY DEF WaitsCovering
<1>2. /\ t \in Pipes /\ pc[t] \in StepOf /\ pc[t].seat \in Seats
      /\ x \in SeatOf /\ x = seat[t][pc[t].seat]
  BY Mine
<1>3. x.st = "Wait" /\ pc[t].rest \subseteq x.need
  BY <1>1, <1>2 DEF CountInv, OnSeat
<1>4. ASSUME NEW rest \in SUBSET pc[t].rest
      PROVE  LET z == [pc[t] EXCEPT !.rest = rest]
             IN  z \in StepOf /\ z.at = "wait" /\ z.seat = pc[t].seat /\ z.rest = rest
                 /\ rest \subseteq x.need
  BY <1>1, <1>2, <1>3, <1>4 DEF StepOf
<1>5. CASE WaitTurn(t)
  <2> DEFINE rest == {p \in pc[t].rest : ~covers(t, p)'}
             z == [pc[t] EXCEPT !.rest = rest]
  <2>1. seat' = seat /\ (pc' = [pc EXCEPT ![t] = At("loop", 0)] \/ pc' = [pc EXCEPT ![t] = z])
    BY <1>5 DEF WaitTurn, Goes
  <2>2. rest \in SUBSET pc[t].rest
    OBVIOUS
  <2> HIDE DEF rest
  <2>3. z \in StepOf /\ z.at = "wait" /\ z.seat = pc[t].seat /\ z.rest \subseteq x.need
    BY <1>4, <2>2
  <2> HIDE DEF z
  <2>4. Fits(t, z, seat[t][z.seat])
    BY <1>2, <1>3, <2>3 DEF Fits
  <2> QED BY <1>1, <2>1, <2>3, <2>4, PcStep, BackToLoop
<1>6. CASE WaitReissues(t)
  <2> DEFINE y == [x EXCEPT !.toks = @ \cup {next_tok[t]}]
             z == [pc[t] EXCEPT !.rest = Left(t)]
  <2>1. seat' = [seat EXCEPT ![t][pc[t].seat] = y] /\ pc' = [pc EXCEPT ![t] = z]
    BY <1>2, <1>6 DEF WaitReissues, Goes
  <2>2. Left(t) \in SUBSET pc[t].rest
    BY DEF Left
  <2>3. z \in StepOf /\ z.at = "wait" /\ z.seat = pc[t].seat /\ z.rest \subseteq x.need
    BY <1>4, <2>2
  <2>4. next_tok[t] \in Nat
    BY <1>2 DEF TokTypes
  <2>5. y \in SeatOf /\ y.st = x.st /\ y.q = x.q /\ y.need = x.need
    <3> HIDE DEF x
    <3> QED BY <1>2, <2>4 DEF SeatOf
  <2> HIDE DEF y, z
  <2>6. Fits(t, z, y) /\ y.st = "Wait" /\ y.st # "Empty" /\ MySeat(t).st # "Empty" /\ y.q = MySeat(t).q
    BY <1>3, <2>3, <2>5 DEF Fits
  <2> QED BY <1>1, <2>1, <2>3, <2>5, <2>6, WorkStep
<1> QED BY <1>1, <1>5, <1>6

\* Tokens stay positive numbers.
LEMMA StepTokens ==
  ASSUME TokTypes, opt \in Configs, Next
  PROVE  TokTypes'
<1>1. ASSUME NEW h \in Pipes, NEW sl, NEW s, NEW R, NEW miss, IssueInto(h, sl, s, R, miss)
      PROVE  TokTypes'
  <2>1. next_tok' = next_tok \/ next_tok' = [next_tok EXCEPT ![h] = @ + 1]
    BY <1>1 DEF IssueInto
  <2> QED BY <2>1 DEF TokTypes
<1>2. ASSUME NEW t \in Pipes, NEW need, Submits(t, need) PROVE TokTypes'
  <2> DEFINE sl == PumpedSlots(t)
  <2>1. PICK R : IssueInto(t, sl, FirstFree(sl), R, Missing(sl, R, need))
    BY <1>2 DEF Submits
  <2> HIDE DEF sl
  <2> QED BY <1>1, <2>1
<1>3. ASSUME NEW t \in Pipes, SubmitsBlock(t) PROVE TokTypes'
  <2> DEFINE x == MySeat(t)
  <2>1. CASE SubmitIssues(t, x)
    BY <1>2, <2>1 DEF SubmitIssues
  <2>2. CASE SubmitNothing(t, x) \/ SubmitStalls(t, x)
    <3>1. next_tok' = next_tok
      BY <2>2 DEF SubmitNothing, SubmitStalls, Refuses, Pumps, pipeVars
    <3> QED BY <3>1 DEF TokTypes
  <2> QED BY <1>3, <2>1, <2>2 DEF SubmitsBlock
<1>4. ASSUME NEW t \in Pipes, Unstalls(t) PROVE TokTypes'
  <2> DEFINE s == StallSlot(slot[t])
             sl == [slot[t] EXCEPT ![s] = NoIssue]
  <2>1. PICK R : IssueInto(t, sl, s, R, pc[t].miss)
    BY <1>4 DEF Unstalls, StallEnds
  <2> HIDE DEF sl, s
  <2> QED BY <1>1, <2>1
<1>5. ASSUME NEW t \in Pipes, WaitsCovering(t) PROVE TokTypes'
  <2>1. CASE WaitTurn(t)
    BY <2>1 DEF WaitTurn, Pumps, TokTypes
  <2>2. CASE WaitReissues(t)
    BY <1>2, <2>2 DEF WaitReissues
  <2> QED BY <1>5, <2>1, <2>2 DEF WaitsCovering
<1>6. ASSUME NEW t \in Pipes, Decides(t) \/ Fills(t) \/ Beams(t) \/ Ranks(t) PROVE TokTypes'
  <2>1. next_tok' = next_tok
    BY <1>6 DEF Decides, Fills, Beams, Ranks, Pumps, pipeVars, pqq_rank
  <2> QED BY <2>1 DEF TokTypes
<1>7. CASE PoolRuns \/ Finished
  BY <1>7 DEF PoolRuns, Lands, Finished, vars, pipeVars, TokTypes
<1> QED BY <1>3, <1>4, <1>5, <1>6, <1>7 DEF Next, Steps

\* Every step preserves what the seats are in.
LEMMA StepCounts ==
  ASSUME CountInv, TokTypes, Next
  PROVE  CountInv'
<1>1. ASSUME NEW t \in Pipes, Steps(t) PROVE CountInv'
  <2>1. opt' = opt /\ t \in Threads
    BY <1>1 DEF Steps
  <2> QED BY <1>1, <2>1, DecidesCounts, FillsCounts, BeamsCounts, SubmitsCounts, UnstallsCounts,
             WaitsCounts, RanksCounts DEF Steps
<1>2. CASE PoolRuns
  BY <1>2, CountSame DEF PoolRuns, seatVars
<1>3. CASE Finished
  BY <1>3, CountSame DEF Finished, vars, seatVars
<1> QED BY <1>1, <1>2, <1>3 DEF Next

\* The counts hold when the threads start.
LEMMA InitCounts == Init => CountInv /\ TokTypes
<1> SUFFICES ASSUME Init PROVE CountInv /\ TokTypes
  OBVIOUS
<1>1. opt \in Configs /\ TokTypes
  BY DEF Init, PipeInit, TokTypes
<1>2. 0 \in Seats /\ Queries \subseteq Nat /\ Threads \subseteq Nat
  BY <1>1, Numbered, ThreadsAre
<1>3. /\ seat \in [Pipes -> [Seats -> SeatOf]]
      /\ \A h \in Pipes, d \in Seats : seat[h][d].st = "Empty" /\ seat[h][d].need = {} /\ seat[h][d].toks = {}
  BY SeatShapes DEF Init, SeatInit
<1>4. pc \in [Threads -> StepOf] /\ \A t \in Threads : pc[t].at = "loop"
  <2>1. At("loop", 0) \in StepOf /\ At("loop", 0).at = "loop"
    BY <1>2, AtIs
  <2> QED BY <2>1 DEF Init
<1>5. /\ answered \in [Queries -> Nat] /\ \A q \in Queries : answered[q] = 0
      /\ next_qi \in [Threads -> Nat] /\ \A t \in Threads : next_qi[t] = t
  BY <1>2 DEF Init, SeatInit
<1>6. CountTypes
  BY <1>1, <1>3, <1>4, <1>5 DEF CountTypes
<1>7. OnSeat
  BY <1>4 DEF OnSeat
<1>8. WaitRight
  BY <1>3 DEF WaitRight
<1>9. QueriesRight
  BY <1>1, <1>3, <1>5, Stripes DEF QueriesRight
<1> QED BY <1>1, <1>6, <1>7, <1>8, <1>9 DEF CountInv

\* Seats and stripes of queries are right whatever the command line: every
\* thread seats the queries of its own stripe, in order, each in one seat.
THEOREM Pipe2CountsSafe == Spec => [](CountInv /\ TokTypes)
<1>1. CountInv /\ TokTypes /\ [Next]_vars => (CountInv /\ TokTypes)'
  <2> SUFFICES ASSUME CountInv, TokTypes, [Next]_vars PROVE CountInv' /\ TokTypes'
    OBVIOUS
  <2>1. CASE Next
    BY <2>1, StepCounts, StepTokens DEF CountInv, CountTypes
  <2>2. CASE UNCHANGED vars
    <3>1. UNCHANGED <<opt, seat, answered, next_qi, pc>> /\ UNCHANGED next_tok
      BY <2>2 DEF vars, seatVars, pipeVars
    <3> QED BY <3>1, CountSame DEF TokTypes
  <2> QED BY <2>1, <2>2
<1> QED BY <1>1, InitCounts, PTL DEF Spec

\* A query is in one seat of one thread, and in none once it is answered: the
\* stripes of next_qi never meet.
THEOREM Pipe2SeatedOnce == Spec => []SeatedOnce
<1>1. CountInv => SeatedOnce
  <2> SUFFICES ASSUME CountInv, NEW q \in Queries
               PROVE  Cardinality(Seated(q)) + answered[q] <= 1
    BY DEF SeatedOnce
  <2>1. answered[q] \in Nat /\ answered[q] <= 1
    BY DEF CountInv, CountTypes, QueriesRight
  <2>2. CASE Seated(q) = {}
    <3>1. Cardinality(Seated(q)) = 0
      BY <2>2, FS_EmptySet
    <3> QED BY <2>1, <3>1
  <2>3. CASE Seated(q) # {}
    <3>1. PICK x \in Pipes \X Seats : seat[x[1]][x[2]].st # "Empty" /\ seat[x[1]][x[2]].q = q
      BY <2>3 DEF Seated
    <3>2. answered[q] = 0 /\ x[1] \in Threads /\ q \in Stripe(x[1])
      BY <3>1 DEF CountInv, QueriesRight
    <3>3. ASSUME NEW y \in Seated(q) PROVE y = x
      <4>1. y \in Pipes \X Seats /\ seat[y[1]][y[2]].st # "Empty" /\ seat[y[1]][y[2]].q = q
        BY <3>3 DEF Seated
      <4>2. y[1] \in Threads /\ q \in Stripe(y[1])
        BY <4>1 DEF CountInv, QueriesRight
      <4>3. y[1] = x[1]
        BY <3>2, <4>2, Stripes DEF CountInv, CountTypes
      <4>4. y[2] = x[2]
        BY <3>1, <4>1, <4>3 DEF CountInv, QueriesRight
      <4> QED BY <3>1, <4>1, <4>3, <4>4
    <3>4. Seated(q) = {x}
      BY <2>3, <3>3
    <3>5. Cardinality(Seated(q)) = 1
      BY <3>4, FS_Singleton
    <3> QED BY <3>2, <3>5
  <2> QED BY <2>2, <2>3
<1> QED BY <1>1, Pipe2CountsSafe, PTL

-----------------------------------------------------------------------------
(* The slots: every step preserves Pipe2Inv.                               *)

\* What SlotsOwned says about the window mode, and what it rests on.
LEMMA SameSlots ==
  ASSUME UNCHANGED opt
  PROVE  /\ Slots' = Slots /\ Seats' = Seats /\ Threads' = Threads /\ Cands' = Cands
         /\ (use_window' <=> use_window) /\ (NoneWithin' <=> NoneWithin)
         /\ use_window => SlotsOwned'
<1>1. /\ Slots' = Slots /\ Seats' = Seats /\ Queries' = Queries /\ (use_window' <=> use_window)
      /\ Threads' = Threads /\ Cands' = Cands
  BY SameLine, SameCommand DEF Cands
<1>2. NoneWithin' <=> NoneWithin
  BY <1>1 DEF NoneWithin
<1> QED BY <1>1, <1>2 DEF SlotsOwned

\* The seats of the next state, as far as the tokens and needs go.
SeatsFit ==
  /\ \A t \in Threads, d \in Seats :
       seat'[t][d].st = "Wait" => seat'[t][d].need # {} /\ seat'[t][d].need \in Cands[seat'[t][d].q]
  /\ \A t \in Threads, d \in Seats :
       pc'[t].at = "submit" /\ pc'[t].seat = d => seat'[t][d].cand \in Cands[seat'[t][d].q]

\* No slot is filled, no seat stops waiting, no token is added.
LEMMA OwnedKept ==
  ASSUME SlotsOwned, UNCHANGED <<opt, next_tok>>,
         ~use_window => \A t \in Threads, s \in Slots : slot'[t][s].active =>
           slot[t][s].active /\ slot'[t][s].tok = slot[t][s].tok /\ slot'[t][s].pages = slot[t][s].pages,
         \A t \in Threads, d \in Seats : seat[t][d].st = "Wait" => seat'[t][d] = seat[t][d],
         \A t \in Threads, d \in Seats : seat'[t][d].toks \subseteq seat[t][d].toks,
         ~use_window => SeatsFit
  PROVE  SlotsOwned'
<1>1. /\ Slots' = Slots /\ Seats' = Seats /\ Threads' = Threads /\ Cands' = Cands
      /\ (use_window' <=> use_window) /\ (NoneWithin' <=> NoneWithin)
      /\ use_window => SlotsOwned'
  BY SameSlots
<1> SUFFICES ASSUME ~use_window PROVE SlotsOwned'
  BY <1>1
<1>2. NoneWithin
  BY DEF SlotsOwned
<1>3. ASSUME NEW t \in Threads, NEW s \in Slots, slot'[t][s].active
      PROVE  \E d \in Seats : /\ seat'[t][d].st = "Wait" /\ slot'[t][s].tok \in seat'[t][d].toks
                              /\ slot'[t][s].pages \subseteq seat'[t][d].need
  <2>1. slot[t][s].active /\ slot'[t][s].tok = slot[t][s].tok /\ slot'[t][s].pages = slot[t][s].pages
    BY <1>3
  <2>2. PICK d \in Seats : /\ seat[t][d].st = "Wait" /\ slot[t][s].tok \in seat[t][d].toks
                           /\ slot[t][s].pages \subseteq seat[t][d].need
    BY <1>3, <2>1 DEF SlotsOwned
  <2> QED BY <1>3, <2>1, <2>2
<1>4. \A t \in Threads, d, e \in Seats : d # e => seat'[t][d].toks \cap seat'[t][e].toks = {}
  BY DEF SlotsOwned
<1>5. \A t \in Threads, d \in Seats : \A k \in seat'[t][d].toks : k < next_tok[t]
  BY DEF SlotsOwned
<1>6. SeatsFit
  OBVIOUS
<1> QED BY <1>1, <1>2, <1>3, <1>4, <1>5, <1>6 DEF SlotsOwned, SeatsFit

\* The seats still fit when only seat d of thread t changes, to y.
LEMMA FitKept ==
  ASSUME SlotsOwned, CountInv, ~use_window, NEW t \in Threads, NEW y, NEW z,
         seat' = [seat EXCEPT ![t][pc[t].seat] = y], pc' = [pc EXCEPT ![t] = z],
         y.st = "Wait" => y.need # {} /\ y.need \in Cands[y.q],
         z.at = "submit" => z.seat = pc[t].seat /\ y.cand \in Cands[y.q]
  PROVE  SeatsFit
<1> DEFINE d == pc[t].seat
<1>1. /\ d \in Seats /\ t \in Pipes /\ Threads \subseteq Pipes
      /\ seat \in [Pipes -> [Seats -> SeatOf]] /\ pc \in [Threads -> StepOf]
  BY Mine, ThreadsAre DEF CountInv, CountTypes
<1>2. /\ \A u \in Threads, e \in Seats : seat'[u][e] = IF u = t /\ e = d THEN y ELSE seat[u][e]
      /\ \A u \in Threads : pc'[u] = IF u = t THEN z ELSE pc[u]
  BY <1>1
<1> HIDE DEF CountInv, d
<1>3. ASSUME NEW u \in Threads, NEW e \in Seats
      PROVE  /\ seat'[u][e].st = "Wait" => seat'[u][e].need # {} /\ seat'[u][e].need \in Cands[seat'[u][e].q]
             /\ pc'[u].at = "submit" /\ pc'[u].seat = e => seat'[u][e].cand \in Cands[seat'[u][e].q]
  <2>1. CASE u = t /\ e = d
    BY <1>2, <1>3, <2>1 DEF d
  <2>2. CASE ~(u = t /\ e = d)
    <3>1. seat'[u][e] = seat[u][e]
      BY <1>2, <1>3, <2>2
    <3>2. pc'[u].at = "submit" /\ pc'[u].seat = e => pc'[u] = pc[u]
      BY <1>2, <1>3, <2>2 DEF d
    <3> QED BY <1>3, <3>1, <3>2 DEF SlotsOwned
  <2> QED BY <2>1, <2>2
<1> QED BY <1>3 DEF SeatsFit

\* And when no seat changes.
LEMMA FitSame ==
  ASSUME SlotsOwned, CountInv, ~use_window, UNCHANGED seat, NEW t \in Threads, NEW z,
         pc' = pc \/ (pc' = [pc EXCEPT ![t] = z] /\ z.at # "submit")
  PROVE  SeatsFit
<1>1. \A u \in Threads : pc'[u] = pc[u] \/ pc'[u].at # "submit"
  BY DEF CountInv, CountTypes
<1> QED BY <1>1 DEF SlotsOwned, SeatsFit

\* A pump keeps every slot outside the window mode.
LEMMA PumpKeepsSlots ==
  ASSUME PipesSound, NEW t \in Threads, slot' = [slot EXCEPT ![t] = PumpedSlots(t)]
  PROVE  \A u \in Threads, s \in Slots : slot'[u][s].active =>
           slot[u][s].active /\ slot'[u][s].tok = slot[u][s].tok /\ slot'[u][s].pages = slot[u][s].pages
<1>1. t \in Pipes /\ Threads \subseteq Pipes
  BY ThreadsAre DEF PipesSound
<1>2. \A u \in Threads : slot'[u] = IF u = t THEN PumpedSlots(t) ELSE slot[u]
  BY <1>1 DEF PipesSound
<1>3. \A s \in Slots : PumpedSlots(t)[s].active =>
        LET y == PumpedSlots(t)[s]
        IN  slot[t][s].active /\ y.tok = slot[t][s].tok /\ y.pages = slot[t][s].pages
  BY <1>1, PumpedSlot
<1> QED BY <1>2, <1>3

\* A pump of thread t, with or without an issue that had nothing to fetch.
LEMMA PumpStep ==
  ASSUME Pipe2Inv, UNCHANGED opt, NEW t \in Threads, Pumps(t) \/ \E need : Refuses(t, need),
         UNCHANGED misread,
         \A u \in Threads, d \in Seats : seat[u][d].st = "Wait" => seat'[u][d] = seat[u][d],
         \A u \in Threads, d \in Seats : seat'[u][d].toks \subseteq seat[u][d].toks,
         ~use_window => SeatsFit
  PROVE  PipesSound' /\ SlotsOwned' /\ ~misread'
<1>0. PipesSound /\ SlotsOwned /\ t \in Pipes
  BY ThreadsAre DEF Pipe2Inv, PipesSound
<1>1. PipesSound' /\ next_tok' = next_tok /\ slot' = [slot EXCEPT ![t] = PumpedSlots(t)]
  BY <1>0, PumpsSound, RefusesSound
<1>2. \A u \in Threads, s \in Slots : slot'[u][s].active =>
        slot[u][s].active /\ slot'[u][s].tok = slot[u][s].tok /\ slot'[u][s].pages = slot[u][s].pages
  BY <1>0, <1>1, PumpKeepsSlots
<1>3. SlotsOwned'
  BY <1>0, <1>1, <1>2, OwnedKept
<1> QED BY <1>1, <1>3 DEF Pipe2Inv

\* A step that touches no pipe but, perhaps, what is resident.
LEMMA PipesSame ==
  ASSUME Pipe2Inv, UNCHANGED <<opt, slot, next_tok, pending, finished, misread>>,
         \A u \in Threads, d \in Seats : seat[u][d].st = "Wait" => seat'[u][d] = seat[u][d],
         \A u \in Threads, d \in Seats : seat'[u][d].toks \subseteq seat[u][d].toks,
         ~use_window => SeatsFit
  PROVE  PipesSound' /\ SlotsOwned' /\ ~misread'
<1>1. Slots' = Slots /\ (use_window' <=> use_window) /\ (Tidy' <=> Tidy)
  BY SameLine
<1>2. ASSUME NEW g \in Pipes PROVE (Sound(g, slot[g]) /\ Apart(slot[g]))'
  <2>1. Sound(g, slot[g]) /\ Apart(slot[g])
    BY <1>2 DEF Pipe2Inv, PipesSound
  <2> QED BY <1>1, <2>1 DEF Sound, Apart, Owned
<1>3. JobsSound'
  BY DEF Pipe2Inv, PipesSound, JobsSound
<1>4. PipesSound'
  BY <1>1, <1>2, <1>3 DEF Pipe2Inv, PipesSound
<1>5. SlotsOwned'
  BY OwnedKept DEF Pipe2Inv
<1> QED BY <1>4, <1>5 DEF Pipe2Inv

\* An issue for the seat thread t works on: its new token names the slot with
\* the pages issued, which the seat needs.
LEMMA IssuesOwned ==
  ASSUME Pipe2Inv, UNCHANGED <<opt, misread>>, NEW t \in Threads, NEW need \in SUBSET Pages,
         Submits(t, need), NEW y, seat' = [seat EXCEPT ![t][pc[t].seat] = y],
         y.st = "Wait", need \subseteq y.need, y.toks = MySeat(t).toks \cup {next_tok[t]},
         MySeat(t).st = "Wait" => y.need = MySeat(t).need,
         ~use_window => SeatsFit
  PROVE  PipesSound' /\ SlotsOwned' /\ ~misread'
<1> DEFINE d == pc[t].seat
           x == MySeat(t)
           k == next_tok[t]
<1>1. CountInv /\ PipesSound /\ SlotsOwned /\ ~misread
  BY DEF Pipe2Inv
<1>2. d \in Seats /\ t \in Pipes /\ Threads \subseteq Pipes /\ x = seat[t][d]
  BY <1>1, Mine, ThreadsAre
<1>3. /\ PipesSound'
      /\ ~use_window =>
           /\ next_tok'[t] = next_tok[t] + 1
           /\ \E s \in Slots, P \in SUBSET need :
                /\ ~slot[t][s].active /\ P # {}
                /\ slot' = [slot EXCEPT ![t] = IssuedSlots(t, PumpedSlots(t), s, P)]
  BY <1>1, <1>2, SubmitsSound
<1>4. /\ Slots' = Slots /\ Seats' = Seats /\ Threads' = Threads /\ Cands' = Cands
      /\ (use_window' <=> use_window) /\ (NoneWithin' <=> NoneWithin)
      /\ use_window => SlotsOwned'
  BY SameSlots
<1>5. \A u \in Threads, e \in Seats : seat'[u][e] = IF u = t /\ e = d THEN y ELSE seat[u][e]
  BY <1>1, <1>2 DEF CountInv, CountTypes
<1>6. next_tok \in [Pipes -> Nat \ {0}] /\ next_tok' \in [Pipes -> Nat \ {0}]
      /\ \A u \in Threads \ {t} : next_tok'[u] = next_tok[u]
  <2>1. next_tok \in [Pipes -> Nat \ {0}] /\ next_tok' \in [Pipes -> Nat \ {0}]
    BY <1>1, <1>3 DEF PipesSound
  <2>2. next_tok' = next_tok \/ next_tok' = [next_tok EXCEPT ![t] = @ + 1]
    BY DEF Submits, IssueInto
  <2> QED BY <1>2, <2>1, <2>2
<1>7. ASSUME ~use_window PROVE SlotsOwned'
  <2>1. PICK s \in Slots, P \in SUBSET need :
          /\ ~slot[t][s].active /\ P # {}
          /\ slot' = [slot EXCEPT ![t] = IssuedSlots(t, PumpedSlots(t), s, P)]
    BY <1>3, <1>7
  <2> DEFINE sl == PumpedSlots(t)
  <2>2. sl \in [Slots -> Issue] /\ slot \in [Pipes -> [Slots -> Issue]]
    BY <1>1, <1>2, PumpedSound DEF Sound, PipesSound
  <2>3. /\ slot'[t][s].tok = k /\ slot'[t][s].pages = P
        /\ \A r \in Slots \ {s} : slot'[t][r] = sl[r]
        /\ \A u \in Threads \ {t} : slot'[u] = slot[u]
    <3> DEFINE new == [active |-> TRUE, tok |-> next_tok[t], pages |-> P, consumed |-> {}]
    <3>1. slot' = [slot EXCEPT ![t] = [sl EXCEPT ![s] = new]]
      BY <2>1 DEF IssuedSlots
    <3>2. new.tok = k /\ new.pages = P
      OBVIOUS
    <3> HIDE DEF sl, new
    <3> QED BY <1>2, <2>2, <3>1, <3>2
  <2>4. \A r \in Slots : sl[r].active =>
          slot[t][r].active /\ sl[r].tok = slot[t][r].tok /\ sl[r].pages = slot[t][r].pages
    BY <1>1, <1>2, PumpedSlot
  <2>5. NoneWithin
    BY <1>1, <1>7 DEF SlotsOwned
  <2> HIDE DEF sl, k, d, x
  <2>6. y.toks = x.toks \cup {k} /\ need \subseteq y.need /\ (x.st = "Wait" => y.need = x.need)
    BY DEF x, k
  <2>7. /\ k \in Nat /\ next_tok'[t] = k + 1
        /\ \A u \in Threads, e \in Seats : \A j \in seat[u][e].toks : j \in Nat /\ j < next_tok[u]
    <3>1. \A u \in Threads, e \in Seats : seat[u][e].toks \in SUBSET Nat
      BY <1>1, <1>2 DEF CountInv, CountTypes, SeatOf
    <3> QED BY <1>1, <1>2, <1>3, <1>6, <1>7, <3>1 DEF SlotsOwned, k
  <2>8. ASSUME NEW u \in Threads, NEW r \in Slots, slot'[u][r].active
        PROVE  \E e \in Seats : /\ seat'[u][e].st = "Wait" /\ slot'[u][r].tok \in seat'[u][e].toks
                                /\ slot'[u][r].pages \subseteq seat'[u][e].need
    <3>1. CASE u = t /\ r = s
      <4>1. slot'[u][r].tok = k /\ slot'[u][r].pages = P /\ seat'[u][d] = y
        BY <1>2, <1>5, <2>3, <3>1
      <4> QED BY <1>2, <2>1, <2>6, <4>1
    <3>2. CASE ~(u = t /\ r = s)
      <4>1. slot[u][r].active /\ slot'[u][r].tok = slot[u][r].tok /\ slot'[u][r].pages = slot[u][r].pages
        BY <2>3, <2>4, <2>8, <3>2
      <4>2. PICK e \in Seats : /\ seat[u][e].st = "Wait" /\ slot[u][r].tok \in seat[u][e].toks
                               /\ slot[u][r].pages \subseteq seat[u][e].need
        BY <1>1, <1>7, <2>8, <4>1 DEF SlotsOwned
      <4>3. CASE u = t /\ e = d
        <5>1. seat[u][e] = x /\ seat'[u][e] = y
          BY <1>2, <1>5, <4>3
        <5> QED BY <2>6, <4>1, <4>2, <5>1
      <4>4. CASE ~(u = t /\ e = d)
        BY <1>5, <2>8, <4>1, <4>2, <4>4
      <4> QED BY <4>3, <4>4
    <3> QED BY <3>1, <3>2
  <2>9. \A u \in Threads, e \in Seats : \A j \in seat'[u][e].toks :
          j \in seat[u][e].toks \/ (u = t /\ e = d /\ j = k)
    BY <1>2, <1>5, <2>6
  <2>10. \A u \in Threads, e, f \in Seats : e # f => seat'[u][e].toks \cap seat'[u][f].toks = {}
    <3> SUFFICES ASSUME NEW u \in Threads, NEW e \in Seats, NEW f \in Seats, e # f,
                        NEW j \in seat'[u][e].toks, j \in seat'[u][f].toks
                 PROVE  FALSE
      OBVIOUS
    <3>1. ~(k < k)
      BY <2>7
    <3>2. u = t => k \notin seat[u][e].toks /\ k \notin seat[u][f].toks
      BY <2>7, <3>1 DEF k
    <3>3. ~(j \in seat[u][e].toks /\ j \in seat[u][f].toks)
      BY <1>1, <1>7 DEF SlotsOwned
    <3> QED BY <2>9, <3>2, <3>3
  <2>11. ASSUME NEW u \in Threads, NEW e \in Seats, NEW j \in seat'[u][e].toks
         PROVE  j < next_tok'[u]
    <3>1. CASE u = t /\ j = k
      BY <2>7, <3>1
    <3>2. CASE ~(u = t /\ j = k)
      <4>1. j \in Nat /\ j < next_tok[u]
        BY <2>7, <2>9, <2>11, <3>2
      <4>2. CASE u = t
        BY <2>7, <4>1, <4>2 DEF k
      <4>3. CASE u # t
        BY <1>6, <2>11, <4>1, <4>3
      <4> QED BY <4>2, <4>3
    <3> QED BY <3>1, <3>2
  <2>12. SeatsFit
    BY <1>7
  <2> QED BY <1>4, <2>5, <2>8, <2>10, <2>11, <2>12 DEF SlotsOwned, SeatsFit
<1> QED BY <1>1, <1>3, <1>4, <1>7

\* Ranking releases the seat's own slots and no others, and those have landed.
LEMMA ReleasesOwn ==
  ASSUME Pipe2Inv, NEW t \in Threads, NEW d \in Seats, seat[t][d].st \in {"Wait", "Ready"},
         coversAll(t, seat[t][d].need)
  PROVE  LET x  == seat[t][d]
             sl == Released(slot[t], x.toks, x.need)
         IN  /\ sl \in [Slots -> Issue]
             /\ \A s \in Slots : sl[s].active => sl[s] = slot[t][s] /\ slot[t][s].active
                                                 /\ (~use_window => slot[t][s].tok \notin x.toks)
             /\ \A s \in Slots : slot[t][s].active /\ ~sl[s].active =>
                  ReadyIn(t, slot[t][s]) = slot[t][s].pages
<1> DEFINE x  == seat[t][d]
           sl == Released(slot[t], x.toks, x.need)
           Frees(s) == /\ ~use_window /\ slot[t][s].active
                       /\ slot[t][s].tok \in x.toks \/ (x.need # {} /\ x.need \subseteq slot[t][s].pages)
<1>1. CountInv /\ PipesSound /\ SlotsOwned /\ t \in Pipes
  BY Mine DEF Pipe2Inv
<1>2. \A s \in Slots : slot[t][s] \in Issue
  BY <1>1 DEF PipesSound
<1>3. \A s \in Slots : sl[s] = IF Frees(s) THEN NoIssue ELSE slot[t][s]
  BY DEF Released
<1>4. sl \in [Slots -> Issue]
  <2>1. \A s \in Slots : sl[s] \in Issue
    BY <1>2, <1>3, NoIssueIs
  <2> QED BY <2>1 DEF Released
<1>5. ASSUME NEW s \in Slots, Frees(s) PROVE ReadyIn(t, slot[t][s]) = slot[t][s].pages
  <2>1. ~use_window /\ slot[t][s].active
    BY <1>5
  <2>2. x.st = "Wait"
    BY <1>1, <1>5 DEF CountInv, WaitRight
  <2>3. PICK e \in Seats : /\ seat[t][e].st = "Wait" /\ slot[t][s].tok \in seat[t][e].toks
                           /\ slot[t][s].pages \subseteq seat[t][e].need
    BY <1>1, <2>1 DEF SlotsOwned
  <2>4. e = d
    <3> SUFFICES ASSUME e # d PROVE FALSE
      OBVIOUS
    <3>1. slot[t][s].tok \notin x.toks
      BY <1>1, <2>1, <2>3 DEF SlotsOwned
    <3>2. x.need # {} /\ x.need \subseteq seat[t][e].need
      BY <1>5, <2>3, <3>1
    <3>3. x.need \in Cands[x.q] /\ seat[t][e].need \in Cands[seat[t][e].q]
      BY <1>1, <2>1, <2>2, <2>3 DEF SlotsOwned
    <3>4. x.q \in Queries /\ seat[t][e].q \in Queries /\ x.q # seat[t][e].q
      BY <1>1, <2>2, <2>3 DEF CountInv, QueriesRight
    <3>5. NoneWithin
      BY <1>1, <2>1 DEF SlotsOwned
    <3> HIDE DEF x
    <3> QED BY <3>2, <3>3, <3>4, <3>5 DEF NoneWithin
  <2>5. ASSUME NEW p \in slot[t][s].pages PROVE p \in ReadyIn(t, slot[t][s])
    <3>1. covers(t, p)
      BY <2>3, <2>4, <2>5 DEF coversAll
    <3>2. PICK q \in Slots : slot[t][q].active /\ p \in slot[t][q].pages /\ p \in ReadyIn(t, slot[t][q])
      BY <1>1, <2>1, <3>1, CoveredLanded
    <3>3. q = s
      BY <1>1, <2>1, <2>5, <3>2 DEF PipesSound, Apart
    <3> QED BY <3>2, <3>3
  <2> QED BY <2>5 DEF ReadyIn
<1>6. \A s \in Slots : sl[s].active => ~Frees(s)
  BY <1>3, NoIssueIs
<1>7. \A s \in Slots : slot[t][s].active /\ ~sl[s].active => Frees(s)
  BY <1>3
<1>8. \A s \in Slots : sl[s].active => sl[s] = slot[t][s] /\ slot[t][s].active
                                       /\ (~use_window => slot[t][s].tok \notin x.toks)
  BY <1>3, <1>6
<1> HIDE DEF Frees, sl
<1> QED BY <1>4, <1>5, <1>7, <1>8 DEF sl

\* Ranking scores landed bytes and leaves the other seats their slots.
LEMMA RanksOwned ==
  ASSUME Pipe2Inv, UNCHANGED opt, NEW t \in Threads, Ranks(t)
  PROVE  PipesSound' /\ SlotsOwned' /\ ~misread'
<1> DEFINE d == pc[t].seat
           x == seat[t][d]
           sl == Released(slot[t], x.toks, x.need)
           z == At("loop", 0)
<1>1. CountInv /\ PipesSound /\ SlotsOwned /\ ~misread
  BY DEF Pipe2Inv
<1>2. /\ t \in Pipes /\ Threads \subseteq Pipes /\ d \in Seats /\ x.st \in {"Wait", "Ready"}
      /\ MySeat(t) = x
  <2>1. pc[t].at = "Rank"
    BY DEF Ranks
  <2> QED BY <1>1, <2>1, Mine, ThreadsAre DEF CountInv, OnSeat
<1>3. /\ coversAll(t, x.need)
      /\ misread' = (misread \/ \E p \in x.need : ~ReadsLanded(t, p))
      /\ slot' = [slot EXCEPT ![t] = sl]
      /\ UNCHANGED <<next_tok, pending, finished>>
      /\ seat' = [seat EXCEPT ![t][d] = EmptySeat] /\ pc' = [pc EXCEPT ![t] = z]
  BY <1>2 DEF Ranks, pqq_rank, Goes
<1>4. ~misread'
  BY <1>1, <1>2, <1>3, ScoresLanded
<1>5. /\ sl \in [Slots -> Issue]
      /\ \A s \in Slots : sl[s].active => sl[s] = slot[t][s] /\ slot[t][s].active
                                          /\ (~use_window => slot[t][s].tok \notin x.toks)
      /\ \A s \in Slots : slot[t][s].active /\ ~sl[s].active =>
           ReadyIn(t, slot[t][s]) = slot[t][s].pages
  BY <1>2, <1>3, ReleasesOwn
<1>6. \A u \in Threads, e \in Seats : seat'[u][e] = IF u = t /\ e = d THEN EmptySeat ELSE seat[u][e]
  BY <1>1, <1>2, <1>3 DEF CountInv, CountTypes
<1>7. \A u \in Threads : slot'[u] = IF u = t THEN sl ELSE slot[u]
  BY <1>1, <1>2, <1>3 DEF PipesSound
<1>8. EmptySeat.st = "Empty" /\ EmptySeat.toks = {} /\ z.at = "loop"
  BY SeatShapes, AtIs
<1>9. ~use_window => SeatsFit
  BY <1>1, <1>3, <1>8, FitKept
<1> HIDE DEF sl, x, d, z
<1>10. PipesSound'
  <2>1. Sound(t, sl) /\ Apart(sl)
    BY <1>1, <1>2, <1>5, ClearedSound
  <2> QED BY <1>1, <1>2, <1>3, <2>1, SlotsStep
<1>11. /\ Slots' = Slots /\ Seats' = Seats /\ Threads' = Threads /\ Cands' = Cands
       /\ (use_window' <=> use_window) /\ (NoneWithin' <=> NoneWithin)
       /\ use_window => SlotsOwned'
  BY SameSlots
<1>12. ASSUME ~use_window PROVE SlotsOwned'
  <2>1. ASSUME NEW u \in Threads, NEW s \in Slots, slot'[u][s].active
        PROVE  \E e \in Seats : /\ seat'[u][e].st = "Wait" /\ slot'[u][s].tok \in seat'[u][e].toks
                                /\ slot'[u][s].pages \subseteq seat'[u][e].need
    <3>1. slot'[u][s] = slot[u][s] /\ slot[u][s].active /\ (u = t => slot[u][s].tok \notin x.toks)
      BY <1>5, <1>7, <1>12, <2>1
    <3>2. PICK e \in Seats : /\ seat[u][e].st = "Wait" /\ slot[u][s].tok \in seat[u][e].toks
                             /\ slot[u][s].pages \subseteq seat[u][e].need
      BY <1>1, <1>12, <2>1, <3>1 DEF SlotsOwned
    <3>3. ~(u = t /\ e = d)
      BY <3>1, <3>2 DEF x
    <3> QED BY <1>6, <2>1, <3>1, <3>2, <3>3
  <2>2. \A u \in Threads, e \in Seats : seat'[u][e].toks \subseteq seat[u][e].toks
    BY <1>6, <1>8
  <2>3. \A u \in Threads, e, f \in Seats : e # f => seat'[u][e].toks \cap seat'[u][f].toks = {}
    BY <1>1, <1>12, <2>2 DEF SlotsOwned
  <2>4. \A u \in Threads, e \in Seats : \A j \in seat'[u][e].toks : j < next_tok[u]
    BY <1>1, <1>12, <2>2 DEF SlotsOwned
  <2>5. NoneWithin /\ SeatsFit
    BY <1>1, <1>9, <1>12 DEF SlotsOwned
  <2> QED BY <1>3, <1>11, <2>1, <2>3, <2>4, <2>5 DEF SlotsOwned, SeatsFit
<1> QED BY <1>4, <1>10, <1>11, <1>12

\* The seat a thread works on changes and did not wait: no waiting seat
\* changes, and no seat gains a token.
LEMMA SeatOnly ==
  ASSUME CountInv, NEW t \in Threads, NEW y, seat' = [seat EXCEPT ![t][pc[t].seat] = y],
         seat[t][pc[t].seat].st # "Wait", y.toks = {}
  PROVE  /\ \A u \in Threads, d \in Seats : seat[u][d].st = "Wait" => seat'[u][d] = seat[u][d]
         /\ \A u \in Threads, d \in Seats : seat'[u][d].toks \subseteq seat[u][d].toks
<1>1. Threads \subseteq Pipes
  BY ThreadsAre DEF CountInv, CountTypes
<1>2. \A u \in Threads, d \in Seats :
        seat'[u][d] = IF u = t /\ d = pc[t].seat THEN y ELSE seat[u][d]
  BY <1>1 DEF CountInv, CountTypes
<1> HIDE DEF CountInv
<1> QED BY <1>2

\* submit_block: the candidates become the need, and are issued or in flight.
LEMMA SubmitOwned ==
  ASSUME Pipe2Inv, UNCHANGED opt, NEW t \in Threads, SubmitsBlock(t)
  PROVE  PipesSound' /\ SlotsOwned' /\ ~misread'
<1> DEFINE x == MySeat(t)
           z == At("loop", 0)
<1>1. CountInv /\ PipesSound /\ SlotsOwned
  BY DEF Pipe2Inv
<1>2. /\ pc[t].at = "submit" /\ misread' = misread
      /\ SubmitIssues(t, x) \/ SubmitNothing(t, x) \/ SubmitStalls(t, x)
  BY DEF SubmitsBlock
<1>3. /\ t \in Pipes /\ pc[t].seat \in Seats /\ x \in SeatOf /\ x = seat[t][pc[t].seat]
      /\ x.st = "Ready" /\ x.toks = {} /\ x.cand \in SUBSET Pages
  <2>1. /\ t \in Pipes /\ pc[t].seat \in Seats /\ x \in SeatOf /\ x = seat[t][pc[t].seat]
        /\ x.st = "Ready" /\ x.toks = {}
    BY <1>1, <1>2, Mine
  <2> QED BY <2>1 DEF SeatOf
<1>4. ~use_window => x.cand \in Cands[x.q]
  BY <1>1, <1>2, <1>3 DEF SlotsOwned
<1>5. z.at = "loop" /\ z.at # "submit"
  BY AtIs
<1>6. CASE SubmitIssues(t, x)
  <2> DEFINE y == pqq_issue(x, next_tok[t])
  <2>1. /\ x.cand # {} /\ Submits(t, x.cand) /\ seat' = [seat EXCEPT ![t][pc[t].seat] = y]
        /\ pc' = [pc EXCEPT ![t] = z]
    BY <1>6 DEF SubmitIssues, Goes
  <2>2. next_tok[t] \in Nat /\ next_tok[t] # 0
    BY <1>1, <1>3 DEF PipesSound
  <2>3. /\ y.q = x.q /\ y.need = x.cand /\ y.toks = x.toks \cup {next_tok[t]} /\ y.st = "Wait"
    BY <1>3, <2>1, <2>2, IssuedSeat
  <2> HIDE DEF y, z
  <2>4. ~use_window => y.need # {} /\ y.need \in Cands[y.q]
    BY <1>4, <2>1, <2>3
  <2>5. ~use_window => SeatsFit
    BY <1>1, <1>5, <2>1, <2>4, FitKept
  <2>6. x.cand \subseteq y.need /\ (x.st = "Wait" => y.need = x.need)
    BY <1>3, <2>3
  <2> QED BY <1>2, <1>3, <2>1, <2>3, <2>5, <2>6, IssuesOwned
<1>7. CASE SubmitNothing(t, x)
  <2> DEFINE y == pqq_issue(x, 0)
  <2>1. /\ UNCHANGED pipeVars \/ Refuses(t, x.cand)
        /\ seat' = [seat EXCEPT ![t][pc[t].seat] = y] /\ pc' = [pc EXCEPT ![t] = z]
    BY <1>7 DEF SubmitNothing, Goes
  <2>2. /\ y.q = x.q /\ y.need = x.cand /\ y.toks = {}
        /\ y.st = IF x.cand = {} THEN "Ready" ELSE "Wait"
    BY <1>3, IssuedSeat
  <2> HIDE DEF y, z
  <2>3. ~use_window /\ y.st = "Wait" => y.need # {} /\ y.need \in Cands[y.q]
    BY <1>4, <2>2
  <2>4. ~use_window => SeatsFit
    BY <1>1, <1>5, <2>1, <2>3, FitKept
  <2>5. /\ \A u \in Threads, d \in Seats : seat[u][d].st = "Wait" => seat'[u][d] = seat[u][d]
        /\ \A u \in Threads, d \in Seats : seat'[u][d].toks \subseteq seat[u][d].toks
    BY <1>1, <1>3, <2>1, <2>2, SeatOnly
  <2>6. CASE UNCHANGED pipeVars
    <3>1. UNCHANGED <<opt, slot, next_tok, pending, finished, misread>>
      BY <1>2, <2>6 DEF pipeVars
    <3> QED BY <2>4, <2>5, <3>1, PipesSame
  <2>7. CASE Refuses(t, x.cand)
    BY <1>2, <2>4, <2>5, <2>7, PumpStep
  <2> QED BY <2>1, <2>6, <2>7
<1>8. CASE SubmitStalls(t, x)
  <2>1. use_window /\ Pumps(t) /\ seat' = seat
    BY <1>8 DEF SubmitStalls
  <2> QED BY <1>2, <2>1, PumpStep
<1> QED BY <1>2, <1>6, <1>7, <1>8

\* A turn of wait_covering: pages that lost their slot are issued again, under
\* one more token of the same seat.
LEMMA WaitOwned ==
  ASSUME Pipe2Inv, UNCHANGED opt, NEW t \in Threads, WaitsCovering(t)
  PROVE  PipesSound' /\ SlotsOwned' /\ ~misread'
<1> DEFINE x == MySeat(t)
<1>1. CountInv /\ PipesSound /\ SlotsOwned
  BY DEF Pipe2Inv
<1>2. pc[t].at = "wait" /\ misread' = misread /\ (WaitTurn(t) \/ WaitReissues(t))
  BY DEF WaitsCovering
<1>3. /\ t \in Pipes /\ pc[t] \in StepOf /\ pc[t].seat \in Seats /\ x \in SeatOf
      /\ x = seat[t][pc[t].seat]
  BY <1>1, Mine
<1>4. x.st = "Wait" /\ pc[t].rest \subseteq x.need /\ x.need \in SUBSET Pages
  BY <1>1, <1>2, <1>3 DEF CountInv, OnSeat, SeatOf
<1>5. CASE WaitTurn(t)
  <2> DEFINE rest == {p \in pc[t].rest : ~covers(t, p)'}
             z == IF rest = {} \/ (\A s \in Slots : ~slot'[t][s].active)
                  THEN At("loop", 0) ELSE [pc[t] EXCEPT !.rest = rest]
  <2>1. Pumps(t) /\ seat' = seat /\ pc' = [pc EXCEPT ![t] = z]
    BY <1>5 DEF WaitTurn, Goes
  <2>2. z.at # "submit"
    <3>1. [pc[t] EXCEPT !.rest = rest].at = "wait"
      BY <1>2, <1>3 DEF StepOf
    <3> QED BY <3>1, AtIs
  <2> HIDE DEF z
  <2>3. ~use_window => SeatsFit
    BY <1>1, <2>1, <2>2, FitSame
  <2> QED BY <1>2, <2>1, <2>3, PumpStep
<1>6. CASE WaitReissues(t)
  <2> DEFINE need == Orphans(t, Left(t))
             y == [x EXCEPT !.toks = @ \cup {next_tok[t]}]
             z == [pc[t] EXCEPT !.rest = Left(t)]
  <2>1. /\ Submits(t, need) /\ seat' = [seat EXCEPT ![t][pc[t].seat] = y]
        /\ pc' = [pc EXCEPT ![t] = z]
    BY <1>3, <1>6 DEF WaitReissues, Goes
  <2>2. need \subseteq x.need
    BY <1>4 DEF Orphans, Left
  <2>3. y.st = x.st /\ y.q = x.q /\ y.need = x.need /\ y.toks = x.toks \cup {next_tok[t]}
    <3> HIDE DEF x
    <3> QED BY <1>3 DEF SeatOf
  <2>4. z.at = "wait" /\ z.at # "submit"
    BY <1>2, <1>3 DEF StepOf
  <2> HIDE DEF need, y, z
  <2>5. ~use_window => x.need # {} /\ x.need \in Cands[x.q]
    BY <1>1, <1>3, <1>4 DEF SlotsOwned
  <2>6. ~use_window => y.need # {} /\ y.need \in Cands[y.q]
    BY <2>3, <2>5
  <2>7. ~use_window => SeatsFit
    BY <1>1, <2>1, <2>4, <2>6, FitKept
  <2>8. /\ need \in SUBSET Pages /\ y.st = "Wait" /\ need \subseteq y.need
        /\ (x.st = "Wait" => y.need = x.need)
    BY <1>4, <2>2, <2>3
  <2> QED BY <1>2, <2>1, <2>3, <2>7, <2>8, IssuesOwned
<1> QED BY <1>2, <1>5, <1>6

\* Every step of a thread preserves what the seats know of their slots.
LEMMA ThreadStep ==
  ASSUME Pipe2Inv, NEW t \in Threads, Steps(t)
  PROVE  PipesSound' /\ SlotsOwned' /\ ~misread'
<1> DEFINE x == MySeat(t)
<1>0. opt' = opt /\ CountInv /\ PipesSound /\ SlotsOwned /\ ~misread
  BY DEF Steps, Pipe2Inv
<1>1. /\ t \in Pipes /\ pc[t] \in StepOf /\ pc[t].seat \in Seats /\ x \in SeatOf
      /\ x = seat[t][pc[t].seat] /\ opt \in Configs
  BY <1>0, Mine
<1>2. CASE Decides(t)
  <2> DEFINE cov == [d \in Seats |-> coversAll(t, seat[t][d].need)']
             z == pipe2_decide(seat[t], cov, next_qi[t] < NQ)
  <2>1. Pumps(t) /\ seat' = seat /\ misread' = misread /\ pc' = [pc EXCEPT ![t] = z]
    BY <1>2 DEF Decides, seatVars, Goes
  <2>2. z.at # "submit"
    <3>1. \A d, r : [At("wait", d) EXCEPT !.rest = r].at = "wait"
      BY DEF At
    <3> HIDE DEF cov
    <3> QED BY <3>1, AtIs DEF pipe2_decide
  <2> HIDE DEF z
  <2>3. ~use_window => SeatsFit
    BY <1>0, <2>1, <2>2, FitSame
  <2> QED BY <1>0, <2>1, <2>3, PumpStep
<1>3. CASE Fills(t)
  <2> DEFINE y == pqq_init(next_qi[t])
             z == At("beam", pc[t].seat)
  <2>1. /\ UNCHANGED <<opt, slot, next_tok, pending, finished, misread>> /\ pc[t].at = "Fill"
        /\ seat' = [seat EXCEPT ![t][pc[t].seat] = y] /\ pc' = [pc EXCEPT ![t] = z]
    BY <1>0, <1>3 DEF Fills, Goes
  <2>2. y.st = "Ready" /\ y.toks = {} /\ z.at = "beam"
    BY <1>0, SeatShapes, AtIs DEF CountInv, CountTypes
  <2>3. seat[t][pc[t].seat].st # "Wait"
    BY <1>0, <2>1 DEF CountInv, OnSeat
  <2> HIDE DEF y, z
  <2>4. ~use_window => SeatsFit
    BY <1>0, <2>1, <2>2, FitKept
  <2> QED BY <1>0, <2>1, <2>2, <2>3, <2>4, SeatOnly, PipesSame
<1>4. CASE Beams(t)
  <2>1. pc[t].at = "beam" /\ misread' = misread
    BY <1>4 DEF Beams
  <2>2. x.st = "Ready" /\ x.toks = {}
    BY <1>0, <2>1, Mine
  <2>3. CASE Pumps(t) /\ UNCHANGED <<seat, pc>>
    <3>1. ~use_window => SeatsFit
      BY <1>0, <2>3, FitSame
    <3> QED BY <1>0, <2>1, <2>3, <3>1, PumpStep
  <2>4. CASE /\ \E y \in pqq_beam(x) : seat' = [seat EXCEPT ![t][pc[t].seat] = y]
             /\ Goes(t, At("submit", pc[t].seat))
             /\ UNCHANGED pipeVars
    <3>1. PICK c \in Cands[x.q] : seat' = [seat EXCEPT ![t][pc[t].seat] = [x EXCEPT !.cand = c]]
      BY <2>4 DEF pqq_beam
    <3> DEFINE y == [x EXCEPT !.cand = c]
               z == At("submit", pc[t].seat)
    <3>2. UNCHANGED <<opt, slot, next_tok, pending, finished, misread>> /\ pc' = [pc EXCEPT ![t] = z]
      BY <1>0, <2>1, <2>4 DEF pipeVars, Goes
    <3>3. y.st = x.st /\ y.toks = x.toks /\ y.q = x.q /\ y.cand = c
      <4> HIDE DEF x
      <4> QED BY <1>1 DEF SeatOf
    <3>4. z.at = "submit" /\ z.seat = pc[t].seat
      BY AtIs
    <3>5. seat' = [seat EXCEPT ![t][pc[t].seat] = y]
      BY <3>1
    <3> HIDE DEF y, z
    <3>6. y.st # "Wait" /\ y.toks = {} /\ y.cand \in Cands[y.q] /\ seat[t][pc[t].seat].st # "Wait"
      BY <1>1, <2>2, <3>3
    <3>7. ~use_window => SeatsFit
      BY <1>0, <3>2, <3>4, <3>5, <3>6, FitKept
    <3> QED BY <1>0, <3>2, <3>5, <3>6, <3>7, SeatOnly, PipesSame
  <2> QED BY <1>4, <2>3, <2>4 DEF Beams
<1>5. CASE SubmitsBlock(t)
  BY <1>0, <1>5, SubmitOwned
<1>6. CASE Unstalls(t)
  <2> DEFINE s == StallSlot(slot[t])
             miss == pc[t].miss
  <2>1. StallEnds(t, s, miss) /\ misread' = misread
    BY <1>6 DEF Unstalls
  <2>2. s \in Slots /\ miss \in SUBSET Pages
    BY <1>0, <1>1, StallSlotIn DEF StepOf
  <2> HIDE DEF s, miss
  <2>3. PipesSound' /\ use_window
    BY <1>0, <1>1, <2>1, <2>2, StallEndsSound
  <2> QED BY <1>0, <2>1, <2>3, SameSlots
<1>7. CASE WaitsCovering(t)
  BY <1>0, <1>7, WaitOwned
<1>8. CASE Ranks(t)
  BY <1>0, <1>8, RanksOwned
<1> QED BY <1>2, <1>3, <1>4, <1>5, <1>6, <1>7, <1>8 DEF Steps

\* Every step preserves the invariant.
LEMMA Pipe2Step ==
  ASSUME Pipe2Inv, [Next]_vars
  PROVE  Pipe2Inv'
<1>0. CountInv /\ PipesSound /\ SlotsOwned /\ ~misread /\ TokTypes
  BY DEF Pipe2Inv, PipesSound, TokTypes
<1>1. ASSUME NEW t \in Pipes, Steps(t) PROVE Pipe2Inv'
  <2>1. Next /\ t \in Threads
    BY <1>1 DEF Next, Steps
  <2> QED BY <1>0, <1>1, <2>1, StepCounts, ThreadStep DEF Pipe2Inv
<1>2. CASE PoolRuns
  <2>1. PICK j \in pending : Lands(j)
    BY <1>2 DEF PoolRuns
  <2>2. opt' = opt /\ seat' = seat /\ misread' = misread /\ pc' = pc
    BY <1>2 DEF PoolRuns, seatVars
  <2>3. PipesSound' /\ slot' = slot /\ next_tok' = next_tok
    BY <1>0, <2>1, <2>2, LandsSound
  <2>4. ~use_window => SeatsFit
    BY <1>0, <2>2 DEF SlotsOwned, SeatsFit
  <2>5. SlotsOwned'
    BY <1>0, <2>2, <2>3, <2>4, OwnedKept
  <2>6. CountInv'
    BY <1>0, <1>2, StepCounts DEF Next
  <2> QED BY <1>0, <2>2, <2>3, <2>5, <2>6 DEF Pipe2Inv
<1>3. CASE UNCHANGED vars
  <2>1. UNCHANGED <<opt, slot, next_tok, pending, finished, misread>> /\ seat' = seat
        /\ UNCHANGED <<opt, seat, answered, next_qi, pc>>
    BY <1>3 DEF vars, pipeVars, seatVars
  <2>2. CountInv'
    BY <1>0, <2>1, CountSame
  <2>3. ~use_window => SeatsFit
    BY <1>0, <2>1 DEF SlotsOwned, SeatsFit
  <2> QED BY <2>1, <2>2, <2>3, PipesSame DEF Pipe2Inv
<1> QED BY <1>1, <1>2, <1>3 DEF Next, Finished

\* The initial state satisfies it.
LEMMA InitPipe2 ==
  ASSUME Init, Undisturbed
  PROVE  Pipe2Inv
<1>1. CountInv /\ opt \in Configs
  BY InitCounts DEF CountInv, CountTypes
<1>2. /\ next_tok = [h \in Pipes |-> 1] /\ pending = {} /\ finished = {} /\ ~misread
      /\ slot = [h \in Pipes |-> [s \in Slots |-> NoIssue]]
  BY DEF Init, PipeInit, SeatInit, Pool!Init
<1>3. \A h \in Pipes, s \in Slots : slot[h][s] = NoIssue /\ ~NoIssue.active /\ NoIssue \in Issue
  BY <1>2, NoIssueIs
<1>4. slot \in [Pipes -> [Slots -> Issue]]
  BY <1>2, <1>3
<1>5. PipesSound
  BY <1>1, <1>2, <1>3, <1>4 DEF PipesSound, Sound, Apart, JobsSound, JobOf, Undisturbed
<1>6. Threads \subseteq Pipes
  BY <1>1, ThreadsAre
<1>7. \A t \in Threads, d \in Seats : seat[t][d].st = "Empty" /\ seat[t][d].toks = {}
  BY <1>6, SeatShapes DEF Init, SeatInit
<1>8. \A t \in Threads : pc[t].at = "loop"
  BY AtIs DEF Init
<1>9. SlotsOwned
  BY <1>3, <1>6, <1>7, <1>8 DEF SlotsOwned, Undisturbed
<1> QED BY <1>1, <1>2, <1>5, <1>9 DEF Pipe2Inv

\* The invariant of the scheduler with its pipes, stalled issues and re-issues
\* included, whatever the interleaving of threads and pool.
THEOREM Pipe2Safe == Spec /\ Undisturbed => []Pipe2Inv
<1>1. Init /\ Undisturbed => Pipe2Inv
  BY InitPipe2
<1>2. Pipe2Inv /\ [Next]_vars => Pipe2Inv'
  BY Pipe2Step
<1> QED BY <1>1, <1>2, PTL DEF Spec

\* No job of the pool writes to a slot that was freed: a release takes only the
\* query's own slots, all of whose pages have landed, and a stalled issue takes
\* over a slot only when it is complete.
THEOREM Pipe2NoDangling == Spec /\ Undisturbed => []NoDanglingJob
<1>1. Pipe2Inv => NoDanglingJob
  BY SoundNoDangling DEF Pipe2Inv
<1> QED BY <1>1, Pipe2Safe, PTL

\* Every candidate is scored from bytes that have landed.
THEOREM Pipe2ScoresRight == Spec /\ Undisturbed => []ScoredRight
<1>1. Pipe2Inv => ScoredRight
  BY DEF Pipe2Inv, ScoredRight
<1> QED BY <1>1, Pipe2Safe, PTL
-----------------------------------------------------------------------------
(* Outside the window mode the slots suffice.  A seat has one slot, except *)
(* the first one while its thread waits for it: then a re-issue may have   *)
(* given it a second, after which its whole need is in slots and it is the *)
(* next to be ranked.  Nothing is asked here of extent runs or of how the  *)
(* queries' page sets overlap.                                             *)

\* The limits of the code leave room: more slots than seats (32 for 8), and no
\* query needs more pages than one issue takes (1024).
Roomy ==
  use_window \/ (Depth < NSlots /\ \A q \in Queries : \A c \in Cands[q] : Cardinality(c) <= MaxIssue)

SlotOf == [active : BOOLEAN, tok : Nat, pages : SUBSET Int, consumed : SUBSET Int]

\* Every slot in use was issued for a seat.
Tokened(t) ==
  /\ \A s \in Slots : slot[t][s].active =>
       slot[t][s].tok < next_tok[t] /\ \E d \in Seats : slot[t][s].tok \in seat[t][d].toks
  /\ \A d \in Seats : \A k \in seat[t][d].toks : k < next_tok[t]

\* What a query needs fits in one issue.
Small(t) ==
  /\ \A d \in Seats : seat[t][d].st = "Wait" => Cardinality(seat[t][d].need) <= MaxIssue
  /\ pc[t].at = "submit" => Cardinality(seat[t][pc[t].seat].cand) <= MaxIssue

\* At most one slot was issued for seat d.
Single(t, d) ==
  \A s, r \in Slots :
    /\ slot[t][s].active /\ slot[t][r].active
    /\ slot[t][s].tok \in seat[t][d].toks /\ slot[t][r].tok \in seat[t][d].toks
    => s = r

\* pipe2_decide would choose no seat before d, and fill none.
First(t, d) ==
  /\ \A e \in Seats : seat[t][e].st \in {"Wait", "Ready"} => d <= e
  /\ next_qi[t] < NQ => \A e \in Seats : seat[t][e].st # "Empty"

\* Seat d lacks no slot, and its thread waits for it or is about to rank it.
Ending(t, d) ==
  /\ First(t, d) /\ seat[t][d].need \subseteq InSlots(slot[t])
  /\ \/ pc[t].at \in {"wait", "Rank"} /\ pc[t].seat = d
     \/ pc[t].at = "loop" /\ coversAll(t, seat[t][d].need)

\* wait_covering is about the first seat, and dropped only covered pages.
WaitsFirst(t) ==
  pc[t].at = "wait" =>
    /\ First(t, pc[t].seat)
    /\ \A p \in seat[t][pc[t].seat].need \ pc[t].rest : covers(t, p)

Lean(t) ==
  Tokened(t) /\ Small(t) /\ WaitsFirst(t) /\ \A d \in Seats : Single(t, d) \/ Ending(t, d)

LeanInv ==
  /\ CountInv /\ TokTypes /\ Roomy
  /\ ~use_window => slot \in [Pipes -> [Slots -> SlotOf]] /\ \A t \in Threads : Lean(t)

\* A cleared slot.
LEMMA NoSlot == NoIssue \in SlotOf /\ NoIssue.active = FALSE
BY DEF NoIssue, SlotOf

\* What a pump does to a slot: outside the window mode nothing that matters here.
LEMMA PumpedShape ==
  ASSUME slot \in [Pipes -> [Slots -> SlotOf]], NEW h \in Pipes
  PROVE  /\ PumpedSlots(h) \in [Slots -> SlotOf]
         /\ ~use_window => \A s \in Slots :
              LET y == PumpedSlots(h)[s]
              IN  y.active = slot[h][s].active /\ y.tok = slot[h][s].tok /\ y.pages = slot[h][s].pages
<1>1. ASSUME NEW s \in Slots
      PROVE  LET y == PumpedSlots(h)[s]
             IN  /\ y \in SlotOf
                 /\ ~use_window => y.active = slot[h][s].active /\ y.tok = slot[h][s].tok
                                   /\ y.pages = slot[h][s].pages
  <2> DEFINE x == slot[h][s]
             y == PumpedSlots(h)[s]
             c == ReadyIn(h, x)
  <2>1. x \in SlotOf
    OBVIOUS
  <2>2. c \in SUBSET Int
    BY <2>1 DEF ReadyIn, SlotOf
  <2>3. y = IF ~x.active THEN x
            ELSE IF use_window /\ c = x.pages THEN NoIssue ELSE [x EXCEPT !.consumed = c]
    BY DEF PumpedSlots
  <2> HIDE DEF x, y, c
  <2>4. [x EXCEPT !.consumed = c] \in SlotOf /\ [x EXCEPT !.consumed = c].active = x.active
        /\ [x EXCEPT !.consumed = c].tok = x.tok /\ [x EXCEPT !.consumed = c].pages = x.pages
    BY <2>1, <2>2 DEF SlotOf
  <2>5. y \in SlotOf /\ (~use_window => y.active = x.active /\ y.tok = x.tok /\ y.pages = x.pages)
    BY <2>1, <2>3, <2>4, NoSlot
  <2> QED BY <2>5 DEF x, y
<1>2. PumpedSlots(h) \in [Slots -> SlotOf]
  BY <1>1 DEF PumpedSlots
<1> QED BY <1>1, <1>2

\* The slots of pipe h list the same pages under the same tokens.
SameIssues(h) ==
  \A s \in Slots : /\ slot'[h][s].active = slot[h][s].active /\ slot'[h][s].tok = slot[h][s].tok
                   /\ slot'[h][s].pages = slot[h][s].pages

\* Pages stay in slots, and covered, as long as no slot is cleared.
LEMMA StaysCovered ==
  ASSUME UNCHANGED opt, ~use_window, finished \subseteq finished', NEW h,
         \A s \in Slots : slot[h][s].active =>
           /\ slot'[h][s].active /\ slot'[h][s].tok = slot[h][s].tok
           /\ slot'[h][s].pages = slot[h][s].pages
  PROVE  /\ InSlots(slot[h]) \subseteq InSlots(slot[h])'
         /\ \A p : covers(h, p) => covers(h, p)'
<1>1. Slots' = Slots /\ ~use_window'
  BY SameLine
<1>2. InSlots(slot[h]) \subseteq InSlots(slot[h])'
  BY <1>1 DEF InSlots
<1>3. ASSUME NEW p, covers(h, p) PROVE covers(h, p)'
  <2>1. PICK s \in Slots : /\ slot[h][s].active /\ p \in slot[h][s].pages
                           /\ <<h, slot[h][s].tok, p>> \in finished
    BY <1>3 DEF covers, page_ready, Holding, ReadyIn
  <2>2. slot'[h][s].active /\ p \in slot'[h][s].pages /\ <<h, slot'[h][s].tok, p>> \in finished'
    BY <2>1
  <2> QED BY <1>1, <2>2 DEF covers, page_ready, Holding, ReadyIn
<1> QED BY <1>2, <1>3

\* A covered page is in a slot.
LEMMA CoveredIn ==
  ASSUME ~use_window, NEW h, NEW p, covers(h, p)
  PROVE  p \in InSlots(slot[h])
BY DEF covers, page_ready, Holding, ReadyIn, InSlots

\* Of the command line.
LEMMA SameLimits ==
  ASSUME UNCHANGED opt
  PROVE  /\ Slots' = Slots /\ Seats' = Seats /\ Queries' = Queries /\ Threads' = Threads
         /\ NQ' = NQ /\ MaxIssue' = MaxIssue /\ (use_window' <=> use_window) /\ (Roomy' <=> Roomy)
<1>1. /\ Slots' = Slots /\ Seats' = Seats /\ Queries' = Queries /\ Threads' = Threads
      /\ NQ' = NQ /\ MaxIssue' = MaxIssue /\ (use_window' <=> use_window)
  BY SameLine, SameCommand DEF MaxIssue
<1>2. Depth' = Depth /\ NSlots' = NSlots /\ Cands' = Cands
  BY DEF Depth, NSlots, Cands
<1> QED BY <1>1, <1>2 DEF Roomy

\* A step that issues nothing and clears no slot of pipe t.
LEMMA QuietStep ==
  ASSUME UNCHANGED opt, NEW t \in Threads, Lean(t), next_tok'[t] = next_tok[t], SameIssues(t),
         \A d \in Seats : seat'[t][d].toks = seat[t][d].toks,
         Small(t)', WaitsFirst(t)',
         \A d \in Seats : Ending(t, d) => Ending(t, d)'
  PROVE  Lean(t)'
<1>1. Slots' = Slots /\ Seats' = Seats
  BY SameLimits
<1>2. Tokened(t)'
  BY <1>1 DEF Lean, Tokened, SameIssues
<1>3. ASSUME NEW d \in Seats PROVE (Single(t, d) \/ Ending(t, d))'
  <2>1. Single(t, d) => Single(t, d)'
    BY <1>1 DEF Single, SameIssues
  <2> QED BY <2>1 DEF Lean
<1> QED BY <1>1, <1>2, <1>3 DEF Lean

\* Nothing of thread u changes, but pages may land.
LEMMA LeanSame ==
  ASSUME UNCHANGED opt, ~use_window, finished \subseteq finished', NEW u \in Threads, Lean(u),
         SameIssues(u), seat'[u] = seat[u], next_tok'[u] = next_tok[u], pc'[u] = pc[u],
         next_qi'[u] = next_qi[u]
  PROVE  Lean(u)'
<1>1. Slots' = Slots /\ Seats' = Seats /\ NQ' = NQ /\ MaxIssue' = MaxIssue
  BY SameLimits
<1>2. InSlots(slot[u]) \subseteq InSlots(slot[u])' /\ \A p : covers(u, p) => covers(u, p)'
  BY StaysCovered DEF SameIssues
<1>3. Small(u)'
  BY <1>1 DEF Lean, Small
<1>4. \A d \in Seats : First(u, d) => First(u, d)'
  BY <1>1 DEF First
<1>5. WaitsFirst(u)'
  <2> SUFFICES ASSUME pc'[u].at = "wait"
               PROVE  (/\ First(u, pc[u].seat)
                       /\ \A p \in seat[u][pc[u].seat].need \ pc[u].rest : covers(u, p))'
    BY DEF WaitsFirst
  <2>1. /\ First(u, pc[u].seat) /\ \A p \in seat[u][pc[u].seat].need \ pc[u].rest : covers(u, p)
    BY DEF Lean, WaitsFirst
  <2>2. First(u, pc[u].seat)'
    BY <1>1, <2>1 DEF First
  <2> QED BY <1>2, <2>1, <2>2
<1>6. ASSUME NEW d \in Seats, Ending(u, d) PROVE Ending(u, d)'
  <2>1. First(u, d)' /\ seat'[u][d].need \subseteq InSlots(slot[u])'
    BY <1>2, <1>4, <1>6 DEF Ending
  <2>2. coversAll(u, seat[u][d].need) => coversAll(u, seat[u][d].need)'
    BY <1>2 DEF coversAll
  <2> QED BY <1>6, <2>1, <2>2 DEF Ending
<1> QED BY <1>3, <1>5, <1>6, QuietStep

\* The seat pipe2_decide waits for is the first, and a first seat that is
\* covered is the one it ranks.
LEMMA DecidedFirst ==
  ASSUME CountInv, NEW t \in Threads, NEW cov, NEW z,
         z = pipe2_decide(seat[t], cov, next_qi[t] < NQ)
  PROVE  /\ z.at # "submit"
         /\ z.at = "wait" => First(t, z.seat) /\ z.rest = seat[t][z.seat].need
         /\ \A d \in Seats : First(t, d) /\ seat[t][d].st = "Wait" /\ cov[d]
                             => z.at = "Rank" /\ z.seat = d
<1> DEFINE more == next_qi[t] < NQ
           x == seat[t]
           empty   == {d \in Seats : more /\ x[d].st = "Empty"}
           taken   == {d \in Seats : x[d].st \in {"Wait", "Ready"}}
           covered == {d \in taken : cov[d]}
           w == [At("wait", Min(taken)) EXCEPT !.rest = x[Min(taken)].need]
<1>0. opt \in Configs /\ Seats \in SUBSET Int /\ IsFiniteSet(Seats)
  BY Mine, Numbered
<1>1. z = IF empty # {} THEN At("Fill", Min(empty))
          ELSE IF covered # {} THEN At("Rank", Min(covered))
          ELSE IF taken # {} THEN w
          ELSE At("exit", 0)
  BY DEF pipe2_decide
<1>2. \A S \in SUBSET Seats : S # {} => Min(S) \in S /\ \A d \in S : Min(S) <= d
  <2> SUFFICES ASSUME NEW S \in SUBSET Seats, S # {} PROVE Min(S) \in S /\ \A d \in S : Min(S) <= d
    OBVIOUS
  <2>1. S \in SUBSET Int /\ IsFiniteSet(S)
    BY <1>0, FS_Subset
  <2> QED BY <2>1, MinIn
<1>3. /\ covered \in SUBSET Seats /\ taken \in SUBSET Seats /\ covered \subseteq taken
      /\ \A d \in Seats : d \in taken <=> x[d].st \in {"Wait", "Ready"}
      /\ \A d \in Seats : d \in covered <=> d \in taken /\ cov[d]
      /\ \A d \in Seats : d \in empty <=> more /\ x[d].st = "Empty"
      /\ empty \in SUBSET Seats
  OBVIOUS
<1>4. w.at = "wait" /\ w.seat = Min(taken) /\ w.rest = x[Min(taken)].need
  BY DEF At
<1> HIDE DEF empty, covered, taken, w
<1>5. z.at # "submit"
  BY <1>1, <1>4, AtIs
<1>6. ASSUME z.at = "wait" PROVE First(t, z.seat) /\ z.rest = x[z.seat].need
  <2>1. empty = {} /\ covered = {} /\ taken # {} /\ z = w
    BY <1>1, <1>6, AtIs
  <2>2. \A e \in Seats : x[e].st \in {"Wait", "Ready"} => Min(taken) <= e
    BY <1>2, <1>3, <2>1
  <2>3. more => \A e \in Seats : x[e].st # "Empty"
    BY <1>3, <2>1
  <2> QED BY <1>4, <2>1, <2>2, <2>3 DEF First
<1>7. ASSUME NEW d \in Seats, First(t, d), x[d].st = "Wait", cov[d]
      PROVE  z.at = "Rank" /\ z.seat = d
  <2>1. empty = {}
    BY <1>3, <1>7 DEF First
  <2>2. d \in covered
    BY <1>3, <1>7
  <2>3. Min(covered) \in covered /\ Min(covered) <= d /\ Min(covered) \in taken
    BY <1>2, <1>3, <2>2
  <2>4. d <= Min(covered)
    BY <1>3, <1>7, <2>3 DEF First
  <2>5. Min(covered) = d
    BY <1>0, <1>3, <2>3, <2>4
  <2> QED BY <1>1, <2>1, <2>2, <2>5, AtIs
<1> QED BY <1>5, <1>6, <1>7

\* What holds of thread t outside the window mode.
LEMMA LeanMine ==
  ASSUME LeanInv, ~use_window, NEW t \in Threads
  PROVE  /\ CountInv /\ TokTypes /\ opt \in Configs /\ Lean(t) /\ t \in Pipes
         /\ slot \in [Pipes -> [Slots -> SlotOf]]
         /\ Depth < NSlots /\ \A q \in Queries : \A c \in Cands[q] : Cardinality(c) <= MaxIssue
         /\ pc[t].at \notin {"loop", "wait", "Rank"} => \A d \in Seats : ~Ending(t, d)
<1>1. CountInv /\ TokTypes /\ Lean(t) /\ slot \in [Pipes -> [Slots -> SlotOf]]
  BY DEF LeanInv
<1>2. opt \in Configs /\ t \in Pipes
  BY <1>1, Mine
<1>3. Depth < NSlots /\ \A q \in Queries : \A c \in Cands[q] : Cardinality(c) <= MaxIssue
  BY DEF LeanInv, Roomy
<1> QED BY <1>1, <1>2, <1>3 DEF Ending

\* The slots after a pump.
LEMMA PumpsShape ==
  ASSUME slot \in [Pipes -> [Slots -> SlotOf]], ~use_window, NEW t \in Pipes,
         slot' = [slot EXCEPT ![t] = PumpedSlots(t)]
  PROVE  slot' \in [Pipes -> [Slots -> SlotOf]] /\ \A u \in Pipes : SameIssues(u)
<1>1. /\ PumpedSlots(t) \in [Slots -> SlotOf]
      /\ \A s \in Slots :
           LET y == PumpedSlots(t)[s]
           IN  y.active = slot[t][s].active /\ y.tok = slot[t][s].tok /\ y.pages = slot[t][s].pages
  BY PumpedShape
<1>2. \A u \in Pipes : slot'[u] = IF u = t THEN PumpedSlots(t) ELSE slot[u]
  OBVIOUS
<1>3. slot' \in [Pipes -> [Slots -> SlotOf]]
  BY <1>1
<1> QED BY <1>1, <1>2, <1>3 DEF SameIssues

\* Deciding: a seat with two slots is ranked next.
LEMMA DecidesLean ==
  ASSUME LeanInv, UNCHANGED opt, ~use_window, NEW t \in Threads, Decides(t)
  PROVE  Lean(t)'
<1> DEFINE cov == [d \in Seats |-> coversAll(t, seat[t][d].need)']
           z == pipe2_decide(seat[t], cov, next_qi[t] < NQ)
<1>1. /\ UNCHANGED <<seat, next_qi, next_tok, finished>> /\ pc' = [pc EXCEPT ![t] = z]
      /\ slot' = [slot EXCEPT ![t] = PumpedSlots(t)] /\ pc[t].at = "loop"
  BY DEF Decides, seatVars, Goes, Pumps
<1>2. CountInv /\ Lean(t) /\ t \in Pipes /\ SameIssues(t)
  BY <1>1, LeanMine, PumpsShape
<1>3. Slots' = Slots /\ Seats' = Seats /\ NQ' = NQ /\ MaxIssue' = MaxIssue /\ ~use_window'
  BY SameLimits
<1>4. /\ z.at # "submit"
      /\ z.at = "wait" => First(t, z.seat) /\ z.rest = seat[t][z.seat].need
      /\ \A d \in Seats : First(t, d) /\ seat[t][d].st = "Wait" /\ cov[d]
                          => z.at = "Rank" /\ z.seat = d
  BY <1>2, DecidedFirst
<1>5. \A d \in Seats : cov[d] = coversAll(t, seat[t][d].need)'
  OBVIOUS
<1> HIDE DEF cov, z
<1>6. pc'[t] = z
  BY <1>1, <1>2 DEF CountInv, CountTypes
<1>7. InSlots(slot[t]) \subseteq InSlots(slot[t])' /\ \A p : covers(t, p) => covers(t, p)'
  BY <1>1, <1>2, StaysCovered DEF SameIssues
<1>8. \A d : First(t, d) <=> First(t, d)'
  BY <1>1, <1>3 DEF First
<1>9. Small(t)'
  BY <1>1, <1>2, <1>3, <1>4, <1>6 DEF Lean, Small
<1>10. WaitsFirst(t)'
  <2> SUFFICES ASSUME pc'[t].at = "wait"
               PROVE  (/\ First(t, pc[t].seat)
                       /\ \A p \in seat[t][pc[t].seat].need \ pc[t].rest : covers(t, p))'
    BY DEF WaitsFirst
  <2>1. PICK e : e = z.seat
    OBVIOUS
  <2>2. First(t, e) /\ z.rest = seat[t][e].need
    BY <1>4, <1>6, <2>1
  <2>3. First(t, e)'
    BY <1>8, <2>2
  <2>4. First(t, pc[t].seat)'
    BY <1>6, <2>1, <2>3 DEF First
  <2>5. seat'[t][pc'[t].seat].need \ pc'[t].rest = {}
    BY <1>1, <1>6, <2>1, <2>2
  <2> QED BY <2>4, <2>5
<1>11. \A d \in Seats : seat'[t][d].toks = seat[t][d].toks
  BY <1>1
<1>12. ASSUME NEW d \in Seats, Ending(t, d), seat[t][d].st = "Wait" PROVE Ending(t, d)'
  <2>1. First(t, d) /\ seat[t][d].need \subseteq InSlots(slot[t]) /\ coversAll(t, seat[t][d].need)
    BY <1>1, <1>12 DEF Ending
  <2>2. coversAll(t, seat[t][d].need)'
    BY <1>1, <1>7, <2>1 DEF coversAll
  <2>3. z.at = "Rank" /\ z.seat = d
    BY <1>4, <1>5, <1>12, <2>1, <2>2
  <2>4. First(t, d)' /\ seat'[t][d].need \subseteq InSlots(slot[t])'
    BY <1>1, <1>7, <1>8, <2>1
  <2> QED BY <1>6, <2>3, <2>4 DEF Ending
<1>13. Tokened(t)'
  BY <1>1, <1>2, <1>3 DEF Lean, Tokened, SameIssues
<1>14. ASSUME NEW d \in Seats PROVE (Single(t, d) \/ Ending(t, d))'
  <2>1. Single(t, d) => Single(t, d)'
    BY <1>1, <1>2, <1>3 DEF Single, SameIssues
  <2>2. ~Single(t, d) => Ending(t, d) /\ seat[t][d].st = "Wait"
    <3>1. ~Single(t, d) => seat[t][d].toks # {}
      BY DEF Single
    <3> QED BY <1>2, <3>1 DEF Lean, CountInv, WaitRight
  <2> QED BY <1>12, <2>1, <2>2
<1> QED BY <1>3, <1>9, <1>10, <1>13, <1>14 DEF Lean

\* Steps of a thread whose seat neither waits nor is ranked: every seat has one
\* slot, and keeps it.
LEMMA WorkLean ==
  ASSUME LeanInv, UNCHANGED <<opt, next_tok>>, ~use_window, NEW t \in Threads,
         pc[t].at \in {"Fill", "beam", "submit"}, SameIssues(t), NEW y,
         seat' = seat \/ (seat' = [seat EXCEPT ![t][pc[t].seat] = y] /\ y.toks = {}
                          /\ (y.st = "Wait" => Cardinality(y.need) <= MaxIssue)),
         pc'[t].at \in {"beam", "submit", "loop"},
         pc'[t].at = "submit" => Cardinality(seat'[t][pc'[t].seat].cand) <= MaxIssue
  PROVE  Lean(t)'
<1> DEFINE d == pc[t].seat
<1>1. CountInv /\ Lean(t) /\ t \in Pipes /\ d \in Seats /\ \A e \in Seats : ~Ending(t, e)
  BY LeanMine, Mine
<1>2. Slots' = Slots /\ Seats' = Seats /\ NQ' = NQ /\ MaxIssue' = MaxIssue
  BY SameLimits
<1>3. seat[t][d].toks = {}
  BY <1>1 DEF CountInv, OnSeat, WaitRight
<1>4. \A e \in Seats : seat'[t][e] = seat[t][e]
        \/ (e = d /\ seat'[t][e] = y /\ y.toks = {} /\ (y.st = "Wait" => Cardinality(y.need) <= MaxIssue))
  BY <1>1 DEF CountInv, CountTypes
<1>5. \A e \in Seats : seat'[t][e].toks = seat[t][e].toks
  BY <1>3, <1>4
<1>6. \A e \in Seats : seat'[t][e].st = "Wait" => Cardinality(seat'[t][e].need) <= MaxIssue
  BY <1>1, <1>4 DEF Lean, Small
<1>7. Small(t)'
  BY <1>2, <1>6 DEF Small
<1>8. WaitsFirst(t)'
  BY DEF WaitsFirst
<1> QED BY <1>1, <1>5, <1>7, <1>8, QuietStep

\* An issue that fits: one more slot, in which every page asked for is, unless
\* a slot listed it already.
LEMMA IssueShape ==
  ASSUME slot \in [Pipes -> [Slots -> SlotOf]], TokTypes, opt \in Configs, ~use_window,
         NEW t \in Pipes, NEW need \in SUBSET Pages, Cardinality(need) <= MaxIssue, Submits(t, need)
  PROVE  /\ slot' \in [Pipes -> [Slots -> SlotOf]] /\ finished' = finished
         /\ next_tok' = [next_tok EXCEPT ![t] = @ + 1]
         /\ \A u \in Pipes \ {t} : slot'[u] = slot[u]
         /\ \E s \in Slots :
              /\ ~slot[t][s].active /\ slot'[t][s].active /\ slot'[t][s].tok = next_tok[t]
              /\ need \ InSlots(slot[t]) \subseteq slot'[t][s].pages
              /\ \A r \in Slots \ {s} :
                   /\ slot'[t][r].active = slot[t][r].active /\ slot'[t][r].tok = slot[t][r].tok
                   /\ slot'[t][r].pages = slot[t][r].pages
<1> DEFINE sl == PumpedSlots(t)
           s  == FirstFree(sl)
<1>1. /\ sl \in [Slots -> SlotOf]
      /\ \A r \in Slots : sl[r].active = slot[t][r].active /\ sl[r].tok = slot[t][r].tok
                          /\ sl[r].pages = slot[t][r].pages
  BY PumpedShape
<1>2. PICK R : /\ Missing(sl, R, need) # {} /\ ~Full(sl)
               /\ IssueInto(t, sl, s, R, Missing(sl, R, need))
  BY DEF Submits
<1> DEFINE miss == Missing(sl, R, need)
<1> HIDE DEF sl
<1>3. s \in Slots /\ ~sl[s].active
  <2> DEFINE F == {r \in Slots : ~sl[r].active}
  <2>1. F # {} /\ F \subseteq Slots
    BY <1>2 DEF Full
  <2>2. Min(F) \in F
    BY <2>1, FirstOf
  <2> QED BY <2>2 DEF FirstFree
<1>4. miss = need \ InSlots(slot[t]) /\ miss \in SUBSET Pages /\ miss # {}
  <2>1. InSlots(sl) = InSlots(slot[t])
    BY <1>1 DEF InSlots
  <2>2. miss = need \ InSlots(slot[t])
    BY <2>1 DEF Missing
  <2>3. miss # {}
    BY <1>2
  <2> QED BY <2>2, <2>3
<1>5. Cardinality(miss) <= MaxIssue
  <2>1. IsFiniteSet(need) /\ MaxIssue \in Int
    <3>1. opt.max_issue \in Nat \ {0} /\ IsFiniteSet(Pages)
      BY PipeConstants
    <3> QED BY <3>1, FS_Subset DEF MaxIssue
  <2>2. miss \in SUBSET need
    BY <1>4
  <2>3. IsFiniteSet(miss) /\ Cardinality(miss) <= Cardinality(need)
    BY <2>1, <2>2, FS_Subset
  <2>4. Cardinality(miss) \in Nat /\ Cardinality(need) \in Nat
    BY <2>1, <2>3, FS_CardinalityType
  <2> HIDE DEF miss
  <2> QED BY <2>1, <2>3, <2>4
<1>6. IssueInto(t, sl, s, R, miss)
  BY <1>2
<1> HIDE DEF s, miss
<1>7. PICK capped \in kSubset(Min({MaxIssue, Cardinality(miss)}), miss) :
      \E XP \in Reserved(R, Fetched(R, capped), Filling(sl)) :
        XP[2] # {} => /\ slot' = [slot EXCEPT ![t] = IssuedSlots(t, sl, s, XP[2])]
                      /\ next_tok' = [next_tok EXCEPT ![t] = @ + 1]
                      /\ Pool!Submit(JobsOf(t, XP[2]))
  BY <1>6 DEF IssueInto
<1>8. capped = miss
  BY <1>4, <1>5, CappedNonempty
<1> DEFINE P == Fetched(R, miss)
<1>9. P \in PageSet /\ miss \subseteq P
  BY <1>4, FetchedPages
<1>10. P # {} /\ P \in SUBSET Int
  BY <1>4, <1>9 DEF PageSet
<1> HIDE DEF P
<1>11. /\ slot' = [slot EXCEPT ![t] = IssuedSlots(t, sl, s, P)]
       /\ next_tok' = [next_tok EXCEPT ![t] = @ + 1]
       /\ finished' = finished
  <2>1. \A XP \in Reserved(R, P, Filling(sl)) : XP[2] = P
    BY DEF Reserved
  <2> QED BY <1>7, <1>8, <1>10, <2>1 DEF P, Pool!Submit
<1> DEFINE new == [active |-> TRUE, tok |-> next_tok[t], pages |-> P, consumed |-> {}]
<1>12. new \in SlotOf /\ new.active /\ new.tok = next_tok[t] /\ new.pages = P
  BY <1>10 DEF SlotOf, TokTypes
<1>13. slot' = [slot EXCEPT ![t] = [sl EXCEPT ![s] = new]]
  BY <1>11 DEF IssuedSlots
<1> HIDE DEF new
<1>14. /\ slot' \in [Pipes -> [Slots -> SlotOf]] /\ slot'[t][s] = new
       /\ \A r \in Slots \ {s} : slot'[t][r] = sl[r]
       /\ \A u \in Pipes \ {t} : slot'[u] = slot[u]
  BY <1>1, <1>3, <1>12, <1>13
<1>15. /\ ~slot[t][s].active /\ slot'[t][s].active /\ slot'[t][s].tok = next_tok[t]
       /\ need \ InSlots(slot[t]) \subseteq slot'[t][s].pages
       /\ \A r \in Slots \ {s} :
            /\ slot'[t][r].active = slot[t][r].active /\ slot'[t][r].tok = slot[t][r].tok
            /\ slot'[t][r].pages = slot[t][r].pages
  BY <1>1, <1>3, <1>4, <1>9, <1>12, <1>14
<1> QED BY <1>3, <1>11, <1>14, <1>15

\* A new slot for seat d: the other seats have no slot more, and d only this
\* one if it had none.
LEMMA IssueLean ==
  ASSUME LeanInv, UNCHANGED opt, ~use_window, NEW t \in Threads, NEW d \in Seats,
         next_tok'[t] = next_tok[t] + 1, NEW s \in Slots, slot'[t][s].tok = next_tok[t],
         ~slot[t][s].active,
         \A r \in Slots \ {s} :
           slot'[t][r].active = slot[t][r].active /\ slot'[t][r].tok = slot[t][r].tok,
         \A e \in Seats \ {d} : seat'[t][e] = seat[t][e],
         seat'[t][d].toks = seat[t][d].toks \cup {next_tok[t]}
  PROVE  /\ Tokened(t)'
         /\ \A e \in Seats : Single(t, e) /\ (e = d => seat[t][e].toks = {}) => Single(t, e)'
<1>1. CountInv /\ Lean(t) /\ t \in Pipes /\ next_tok[t] \in Nat /\ slot[t] \in [Slots -> SlotOf]
  BY LeanMine DEF TokTypes
<1>2. Slots' = Slots /\ Seats' = Seats
  BY SameLimits
<1>3. \A e \in Seats : seat[t][e].toks \in SUBSET Nat
  BY <1>1 DEF CountInv, CountTypes, SeatOf
<1>4. \A e \in Seats : \A k \in seat[t][e].toks : k \in Nat /\ k < next_tok[t]
  BY <1>1, <1>3 DEF Lean, Tokened
<1>5. \A e \in Seats : \A k \in seat'[t][e].toks : k \in seat[t][e].toks \/ (e = d /\ k = next_tok[t])
  OBVIOUS
<1>6. \A e \in Seats : next_tok[t] \notin seat[t][e].toks
  BY <1>1, <1>4
<1>7. ASSUME NEW r \in Slots, slot'[t][r].active
      PROVE  slot'[t][r].tok < next_tok'[t] /\ \E e \in Seats : slot'[t][r].tok \in seat'[t][e].toks
  <2>1. CASE r = s
    BY <1>1, <2>1
  <2>2. CASE r # s
    <3>1. slot[t][r].active /\ slot'[t][r].tok = slot[t][r].tok
      BY <1>7, <2>2
    <3>2. PICK e \in Seats : slot[t][r].tok \in seat[t][e].toks
      BY <1>1, <3>1 DEF Lean, Tokened
    <3>3. slot'[t][r].tok \in seat'[t][e].toks
      BY <3>1, <3>2
    <3>4. slot'[t][r].tok < next_tok'[t]
      BY <1>1, <1>4, <3>1, <3>2
    <3> QED BY <3>3, <3>4
  <2> QED BY <2>1, <2>2
<1>8. \A e \in Seats : \A k \in seat'[t][e].toks : k < next_tok'[t]
  BY <1>1, <1>4, <1>5
<1>9. Tokened(t)'
  BY <1>2, <1>7, <1>8 DEF Tokened
<1>10. ASSUME NEW e \in Seats, Single(t, e), e = d => seat[t][e].toks = {} PROVE Single(t, e)'
  <2>1. ASSUME NEW q \in Slots, NEW r \in Slots, slot'[t][q].active, slot'[t][r].active,
               slot'[t][q].tok \in seat'[t][e].toks, slot'[t][r].tok \in seat'[t][e].toks
        PROVE  q = r
    <3>1. CASE e = d
      <4>1. slot'[t][q].tok = next_tok[t] /\ slot'[t][r].tok = next_tok[t]
        BY <1>5, <1>10, <2>1, <3>1
      <4>2. \A w \in Slots \ {s} : slot'[t][w].active => slot'[t][w].tok # next_tok[t]
        <5> SUFFICES ASSUME NEW w \in Slots \ {s}, slot'[t][w].active PROVE slot'[t][w].tok # next_tok[t]
          OBVIOUS
        <5>1. slot[t][w].active /\ slot'[t][w].tok = slot[t][w].tok
          OBVIOUS
        <5>2. PICK f \in Seats : slot[t][w].tok \in seat[t][f].toks
          BY <1>1, <5>1 DEF Lean, Tokened
        <5> QED BY <1>6, <5>1, <5>2
      <4> QED BY <2>1, <4>1, <4>2
    <3>2. CASE e # d
      <4>1. q # s /\ r # s
        BY <1>6, <2>1, <3>2
      <4> QED BY <1>10, <2>1, <3>2, <4>1 DEF Single
    <3> QED BY <3>1, <3>2
  <2> QED BY <1>2, <2>1 DEF Single
<1> QED BY <1>9, <1>10

\* submit_block gives a seat without tokens its one slot.
LEMMA SubmitLean ==
  ASSUME LeanInv, UNCHANGED opt, ~use_window, NEW t \in Threads, SubmitsBlock(t)
  PROVE  /\ Lean(t)' /\ slot' \in [Pipes -> [Slots -> SlotOf]] /\ finished' = finished
         /\ \A u \in Pipes \ {t} : SameIssues(u) /\ next_tok'[u] = next_tok[u]
<1> DEFINE x == MySeat(t)
           d == pc[t].seat
           z == At("loop", 0)
<1>0. /\ CountInv /\ TokTypes /\ opt \in Configs /\ Lean(t) /\ t \in Pipes
      /\ slot \in [Pipes -> [Slots -> SlotOf]] /\ pc[t].at = "submit"
      /\ \A e \in Seats : ~Ending(t, e)
  BY LeanMine DEF SubmitsBlock
<1>1. /\ d \in Seats /\ x \in SeatOf /\ x = seat[t][d] /\ x.toks = {}
      /\ next_tok[t] \in Nat \ {0}
  BY <1>0, Mine DEF TokTypes
<1>2. Cardinality(x.cand) <= MaxIssue /\ x.cand \in SUBSET Pages
  BY <1>0, <1>1 DEF Lean, Small, SeatOf
<1>3. z.at = "loop"
  BY AtIs
<1>4. Slots' = Slots /\ Seats' = Seats /\ MaxIssue' = MaxIssue
  BY SameLimits
<1>5. CASE SubmitIssues(t, x)
  <2> DEFINE y == pqq_issue(x, next_tok[t])
  <2>1. /\ x.cand # {} /\ Submits(t, x.cand) /\ seat' = [seat EXCEPT ![t][d] = y]
        /\ pc' = [pc EXCEPT ![t] = z]
    BY <1>5 DEF SubmitIssues, Goes
  <2>2. y.need = x.cand /\ y.toks = {next_tok[t]}
    BY <1>1, IssuedSeat
  <2> HIDE DEF x, y, z
  <2>3. /\ seat'[t][d] = y /\ \A e \in Seats \ {d} : seat'[t][e] = seat[t][e]
        /\ pc'[t] = z
    BY <1>0, <1>1, <2>1 DEF CountInv, CountTypes
  <2>4. /\ slot' \in [Pipes -> [Slots -> SlotOf]] /\ finished' = finished
        /\ next_tok' = [next_tok EXCEPT ![t] = @ + 1]
        /\ \A u \in Pipes \ {t} : slot'[u] = slot[u]
    BY <1>0, <1>2, <2>1, IssueShape
  <2>5. PICK s \in Slots :
          /\ ~slot[t][s].active /\ slot'[t][s].active /\ slot'[t][s].tok = next_tok[t]
          /\ \A r \in Slots \ {s} :
               /\ slot'[t][r].active = slot[t][r].active /\ slot'[t][r].tok = slot[t][r].tok
               /\ slot'[t][r].pages = slot[t][r].pages
    BY <1>0, <1>2, <2>1, IssueShape
  <2>6. next_tok'[t] = next_tok[t] + 1 /\ \A u \in Pipes \ {t} : next_tok'[u] = next_tok[u]
    BY <1>0, <2>4 DEF TokTypes
  <2>7. seat'[t][d].toks = seat[t][d].toks \cup {next_tok[t]} /\ seat[t][d].toks = {}
    BY <1>1, <2>2, <2>3
  <2>8. /\ Tokened(t)'
        /\ \A e \in Seats : Single(t, e) /\ (e = d => seat[t][e].toks = {}) => Single(t, e)'
    BY <1>1, <2>3, <2>5, <2>6, <2>7, IssueLean
  <2>9. Small(t)'
    BY <1>0, <1>2, <1>3, <1>4, <2>2, <2>3 DEF Lean, Small
  <2>10. WaitsFirst(t)'
    BY <1>3, <2>3 DEF WaitsFirst
  <2>11. \A e \in Seats : Single(t, e)'
    BY <1>0, <2>7, <2>8 DEF Lean
  <2>12. Lean(t)'
    BY <1>4, <2>8, <2>9, <2>10, <2>11 DEF Lean
  <2> QED BY <2>4, <2>6, <2>12 DEF SameIssues
<1>6. CASE SubmitNothing(t, x)
  <2> DEFINE y == pqq_issue(x, 0)
  <2>1. /\ UNCHANGED pipeVars \/ Refuses(t, x.cand)
        /\ seat' = [seat EXCEPT ![t][d] = y] /\ pc' = [pc EXCEPT ![t] = z]
    BY <1>6 DEF SubmitNothing, Goes
  <2>2. y.need = x.cand /\ y.toks = {}
    BY <1>1, IssuedSeat
  <2> HIDE DEF y, z
  <2>3. UNCHANGED <<next_tok, finished>> /\ (slot' = slot \/ slot' = [slot EXCEPT ![t] = PumpedSlots(t)])
    BY <2>1 DEF pipeVars, Refuses
  <2>4. slot' \in [Pipes -> [Slots -> SlotOf]] /\ \A u \in Pipes : SameIssues(u)
    BY <1>0, <2>3, PumpsShape DEF SameIssues
  <2>5. pc'[t] = z
    BY <1>0, <2>1 DEF CountInv, CountTypes
  <2>6. Lean(t)'
    BY <1>0, <1>2, <1>3, <2>1, <2>2, <2>3, <2>4, <2>5, WorkLean
  <2> QED BY <2>3, <2>4, <2>6
<1>7. ~SubmitStalls(t, x)
  BY DEF SubmitStalls
<1> QED BY <1>5, <1>6, <1>7 DEF SubmitsBlock

\* A turn of wait_covering.  When it ends every page of the seat is covered,
\* unless the seat had one slot only.
LEMMA TurnLean ==
  ASSUME LeanInv, UNCHANGED <<opt, next_qi>>, ~use_window, NEW t \in Threads,
         pc[t].at = "wait", WaitTurn(t)
  PROVE  Lean(t)'
<1> DEFINE d == pc[t].seat
           rest == {p \in pc[t].rest : ~covers(t, p)'}
           idle == \A s \in Slots : ~slot'[t][s].active
           z == IF rest = {} \/ idle THEN At("loop", 0) ELSE [pc[t] EXCEPT !.rest = rest]
<1>1. /\ UNCHANGED <<seat, next_tok, finished>> /\ pc' = [pc EXCEPT ![t] = z]
      /\ slot' = [slot EXCEPT ![t] = PumpedSlots(t)]
  BY DEF WaitTurn, Goes, Pumps
<1>2. CountInv /\ Lean(t) /\ t \in Pipes /\ SameIssues(t) /\ pc[t] \in StepOf /\ d \in Seats
  BY <1>1, LeanMine, PumpsShape, Mine
<1>3. Slots' = Slots /\ Seats' = Seats /\ NQ' = NQ /\ MaxIssue' = MaxIssue /\ ~use_window'
  BY SameLimits
<1>4. InSlots(slot[t]) \subseteq InSlots(slot[t])' /\ \A p : covers(t, p) => covers(t, p)'
  BY <1>1, <1>2, StaysCovered DEF SameIssues
<1>5. First(t, d) /\ \A p \in seat[t][d].need \ pc[t].rest : covers(t, p)
  BY <1>2 DEF Lean, WaitsFirst
<1>6. \A e : First(t, e) <=> First(t, e)'
  BY <1>1, <1>3 DEF First
<1>7. \A p \in seat[t][d].need \ rest : covers(t, p)'
  BY <1>4, <1>5
<1>8. rest \in SUBSET Pages
  BY <1>2 DEF StepOf
<1>9. idle => InSlots(slot[t])' = {}
  BY <1>3 DEF InSlots
<1>10. \/ z.at = "loop" /\ (rest = {} \/ idle)
       \/ z.at = "wait" /\ z.seat = d /\ z.rest = rest
  <2>1. [pc[t] EXCEPT !.rest = rest].at = "wait" /\ [pc[t] EXCEPT !.rest = rest].seat = d
        /\ [pc[t] EXCEPT !.rest = rest].rest = rest
    BY <1>2, <1>8 DEF StepOf
  <2> HIDE DEF rest, idle
  <2> QED BY <2>1, AtIs
<1> HIDE DEF rest, idle, z
<1>11. pc'[t] = z
  BY <1>1, <1>2 DEF CountInv, CountTypes
<1>12. Small(t)'
  BY <1>1, <1>2, <1>3, <1>10, <1>11 DEF Lean, Small
<1>13. WaitsFirst(t)'
  <2> SUFFICES ASSUME pc'[t].at = "wait"
               PROVE  (/\ First(t, pc[t].seat)
                       /\ \A p \in seat[t][pc[t].seat].need \ pc[t].rest : covers(t, p))'
    BY DEF WaitsFirst
  <2>1. pc'[t].seat = d /\ pc'[t].rest = rest
    BY <1>10, <1>11
  <2>2. PICK e : e = d
    OBVIOUS
  <2>3. First(t, e)'
    BY <1>5, <1>6, <2>2
  <2>4. First(t, pc[t].seat)'
    BY <2>1, <2>2, <2>3 DEF First
  <2> QED BY <1>1, <1>7, <2>1, <2>4
<1>14. ASSUME NEW e \in Seats, Ending(t, e) PROVE Ending(t, e)'
  <2>1. e = d /\ First(t, e)' /\ seat[t][e].need \subseteq InSlots(slot[t])'
    BY <1>4, <1>6, <1>14 DEF Ending
  <2>2. CASE z.at = "wait"
    BY <1>1, <1>10, <1>11, <2>1, <2>2 DEF Ending
  <2>3. CASE z.at # "wait"
    <3>1. z.at = "loop" /\ (rest = {} \/ idle)
      BY <1>10, <2>3
    <3>2. \A p \in seat[t][e].need : covers(t, p)'
      BY <1>7, <1>9, <2>1, <3>1
    <3>3. coversAll(t, seat[t][e].need)'
      BY <1>1, <3>2 DEF coversAll
    <3> QED BY <1>1, <1>11, <2>1, <3>1, <3>3 DEF Ending
  <2> QED BY <2>2, <2>3
<1> QED BY <1>1, <1>2, <1>12, <1>13, <1>14, QuietStep

\* A re-issue of wait_covering: the seat had one slot, and now lacks none.
LEMMA ReissueLean ==
  ASSUME LeanInv, UNCHANGED <<opt, next_qi>>, ~use_window, NEW t \in Threads,
         pc[t].at = "wait", WaitReissues(t)
  PROVE  /\ Lean(t)' /\ slot' \in [Pipes -> [Slots -> SlotOf]] /\ finished' = finished
         /\ \A u \in Pipes \ {t} : SameIssues(u) /\ next_tok'[u] = next_tok[u]
<1> DEFINE d == pc[t].seat
           x == MySeat(t)
           left == Left(t)
           need == Orphans(t, left)
           y == [x EXCEPT !.toks = @ \cup {next_tok[t]}]
           z == [pc[t] EXCEPT !.rest = left]
<1>0. /\ CountInv /\ TokTypes /\ opt \in Configs /\ Lean(t) /\ t \in Pipes
      /\ slot \in [Pipes -> [Slots -> SlotOf]]
  BY LeanMine
<1>1. d \in Seats /\ x \in SeatOf /\ x = seat[t][d] /\ pc[t] \in StepOf /\ next_tok[t] \in Nat
  BY <1>0, Mine DEF TokTypes
<1>2. x.st = "Wait" /\ pc[t].rest \subseteq x.need /\ x.need \in SUBSET Pages
      /\ Cardinality(x.need) <= MaxIssue
  BY <1>0, <1>1 DEF CountInv, OnSeat, SeatOf, Lean, Small
<1>3. /\ need # {} /\ Submits(t, need)
      /\ seat' = [seat EXCEPT ![t][d] = y] /\ pc' = [pc EXCEPT ![t] = z]
  BY <1>1 DEF WaitReissues, Goes
<1>4. left = {p \in pc[t].rest : ~covers(t, p)} /\ need = left \ InSlots(slot[t])
  BY DEF Left, Orphans
<1>5. y.st = x.st /\ y.need = x.need /\ y.toks = x.toks \cup {next_tok[t]}
  <2> HIDE DEF x
  <2> QED BY <1>1 DEF SeatOf
<1>6. z.at = "wait" /\ z.seat = d /\ z.rest = left
  <2>1. left \in SUBSET Pages
    BY <1>1, <1>4 DEF StepOf
  <2> HIDE DEF left
  <2> QED BY <1>1, <2>1 DEF StepOf
<1>7. need \in SUBSET Pages /\ Cardinality(need) <= MaxIssue
  <2>1. need \in SUBSET x.need
    BY <1>2, <1>4
  <2>2. IsFiniteSet(x.need) /\ MaxIssue \in Int
    <3>1. opt.max_issue \in Nat \ {0} /\ IsFiniteSet(Pages)
      BY <1>0, PipeConstants
    <3> QED BY <1>2, <3>1, FS_Subset DEF MaxIssue
  <2>3. IsFiniteSet(need) /\ Cardinality(need) <= Cardinality(x.need)
    BY <2>1, <2>2, FS_Subset
  <2>4. Cardinality(need) \in Nat /\ Cardinality(x.need) \in Nat
    BY <2>2, <2>3, FS_CardinalityType
  <2> HIDE DEF need, x
  <2> QED BY <1>2, <2>1, <2>2, <2>3, <2>4
<1> HIDE DEF x, y, z, left, need
<1>8. /\ seat'[t][d] = y /\ (\A e \in Seats \ {d} : seat'[t][e] = seat[t][e]) /\ pc'[t] = z
  BY <1>0, <1>1, <1>3 DEF CountInv, CountTypes
<1>9. /\ slot' \in [Pipes -> [Slots -> SlotOf]] /\ finished' = finished
      /\ next_tok' = [next_tok EXCEPT ![t] = @ + 1]
      /\ \A u \in Pipes \ {t} : slot'[u] = slot[u]
  BY <1>0, <1>3, <1>7, IssueShape
<1>10. PICK s \in Slots :
         /\ ~slot[t][s].active /\ slot'[t][s].active /\ slot'[t][s].tok = next_tok[t]
         /\ need \ InSlots(slot[t]) \subseteq slot'[t][s].pages
         /\ \A r \in Slots \ {s} :
              /\ slot'[t][r].active = slot[t][r].active /\ slot'[t][r].tok = slot[t][r].tok
              /\ slot'[t][r].pages = slot[t][r].pages
  BY <1>0, <1>3, <1>7, IssueShape
<1>11. next_tok'[t] = next_tok[t] + 1 /\ \A u \in Pipes \ {t} : next_tok'[u] = next_tok[u]
  BY <1>0, <1>9 DEF TokTypes
<1>12. Slots' = Slots /\ Seats' = Seats /\ NQ' = NQ /\ MaxIssue' = MaxIssue
  BY SameLimits
<1>13. InSlots(slot[t]) \subseteq InSlots(slot[t])' /\ \A p : covers(t, p) => covers(t, p)'
  BY <1>9, <1>10, StaysCovered
<1>14. First(t, d) /\ \A p \in x.need \ pc[t].rest : covers(t, p)
  BY <1>0, <1>1 DEF Lean, WaitsFirst
<1>15. x.need \subseteq InSlots(slot[t])'
  <2>1. \A p \in need : p \in InSlots(slot[t])'
    <3>1. \A p \in need : p \in slot'[t][s].pages
      BY <1>4, <1>10
    <3> QED BY <1>10, <1>12, <3>1 DEF InSlots
  <2>2. \A p \in x.need : covers(t, p) \/ p \in left
    BY <1>4, <1>14
  <2> QED BY <1>4, <1>13, <2>1, <2>2, CoveredIn
<1>16. PICK k \in Seats : k = d
  BY <1>1
<1>17. First(t, k)'
  <2>1. \A e \in Seats : seat'[t][e].st = seat[t][e].st
    BY <1>1, <1>5, <1>8
  <2> QED BY <1>12, <1>14, <1>16, <2>1 DEF First
<1>18. Ending(t, k)'
  <2>1. seat'[t][k].need \subseteq InSlots(slot[t])'
    BY <1>5, <1>8, <1>15, <1>16
  <2> QED BY <1>6, <1>8, <1>16, <1>17, <2>1 DEF Ending
<1>19. seat'[t][k].toks = seat[t][k].toks \cup {next_tok[t]}
  BY <1>1, <1>5, <1>8, <1>16
<1>20. /\ Tokened(t)'
       /\ \A e \in Seats : Single(t, e) /\ (e = k => seat[t][e].toks = {}) => Single(t, e)'
  BY <1>8, <1>10, <1>11, <1>16, <1>19, IssueLean
<1>21. \A e \in Seats : e # k => Single(t, e)
  BY <1>0, <1>16 DEF Lean, Ending
<1>22. Small(t)'
  BY <1>0, <1>2, <1>5, <1>6, <1>8, <1>12 DEF Lean, Small
<1>23. WaitsFirst(t)'
  <2>1. First(t, pc[t].seat)'
    BY <1>6, <1>8, <1>16, <1>17 DEF First
  <2>2. \A p \in x.need \ left : covers(t, p)'
    BY <1>4, <1>13, <1>14
  <2>3. seat'[t][pc'[t].seat].need = x.need /\ pc'[t].rest = left
    BY <1>5, <1>6, <1>8
  <2> QED BY <2>1, <2>2, <2>3 DEF WaitsFirst
<1>24. Lean(t)'
  BY <1>12, <1>18, <1>20, <1>21, <1>22, <1>23 DEF Lean
<1> QED BY <1>9, <1>11, <1>24 DEF SameIssues

\* Ranking clears every slot of the seat.
LEMMA RankLean ==
  ASSUME LeanInv, UNCHANGED opt, ~use_window, NEW t \in Threads, Ranks(t)
  PROVE  /\ Lean(t)' /\ slot' \in [Pipes -> [Slots -> SlotOf]]
         /\ \A u \in Pipes \ {t} : SameIssues(u)
<1> DEFINE d == pc[t].seat
           x == MySeat(t)
           sl == Released(slot[t], x.toks, x.need)
           z == At("loop", 0)
<1>0. /\ CountInv /\ TokTypes /\ opt \in Configs /\ Lean(t) /\ t \in Pipes
      /\ slot \in [Pipes -> [Slots -> SlotOf]]
  BY LeanMine
<1>1. d \in Seats /\ x \in SeatOf /\ x = seat[t][d]
  BY <1>0, Mine
<1>2. /\ pc[t].at = "Rank" /\ UNCHANGED <<next_tok, next_qi>>
      /\ seat' = [seat EXCEPT ![t][d] = EmptySeat] /\ pc' = [pc EXCEPT ![t] = z]
      /\ slot' = [slot EXCEPT ![t] = sl]
  BY DEF Ranks, pqq_rank, Goes
<1>3. Slots' = Slots /\ Seats' = Seats /\ MaxIssue' = MaxIssue
  BY SameLimits
<1>4. z.at = "loop" /\ EmptySeat.st = "Empty" /\ EmptySeat.toks = {}
  BY AtIs, SeatShapes
<1>5. ASSUME NEW s \in Slots
      PROVE  /\ sl[s] \in SlotOf
             /\ sl[s].active => sl[s] = slot[t][s] /\ slot[t][s].tok \notin x.toks
  <2>1. sl[s] = NoIssue \/ (sl[s] = slot[t][s] /\ (slot[t][s].active => slot[t][s].tok \notin x.toks))
    BY DEF Released
  <2> HIDE DEF sl
  <2> QED BY <1>0, <2>1, NoSlot
<1>6. sl \in [Slots -> SlotOf]
  BY <1>5 DEF Released
<1> HIDE DEF sl, x, z
<1>7. /\ slot' \in [Pipes -> [Slots -> SlotOf]] /\ slot'[t] = sl
      /\ \A u \in Pipes \ {t} : slot'[u] = slot[u]
  BY <1>0, <1>2, <1>6
<1>8. /\ seat'[t][d] = EmptySeat /\ (\A e \in Seats \ {d} : seat'[t][e] = seat[t][e]) /\ pc'[t] = z
  BY <1>0, <1>1, <1>2 DEF CountInv, CountTypes
<1>9. ASSUME NEW s \in Slots, slot'[t][s].active
      PROVE  /\ slot[t][s].active /\ slot'[t][s].tok = slot[t][s].tok
             /\ slot'[t][s].tok < next_tok'[t]
             /\ \E e \in Seats : slot'[t][s].tok \in seat'[t][e].toks
  <2>1. slot'[t][s] = slot[t][s] /\ slot[t][s].active /\ slot[t][s].tok \notin x.toks
    BY <1>5, <1>7, <1>9
  <2>2. PICK e \in Seats : slot[t][s].tok \in seat[t][e].toks
    BY <1>0, <2>1 DEF Lean, Tokened
  <2>3. slot'[t][s].tok \in seat'[t][e].toks
    BY <1>1, <1>8, <2>1, <2>2
  <2>4. slot[t][s].tok < next_tok[t]
    BY <1>0, <2>1 DEF Lean, Tokened
  <2> QED BY <1>2, <2>1, <2>3, <2>4
<1>10. \A e \in Seats : seat'[t][e].toks \subseteq seat[t][e].toks
  BY <1>4, <1>8
<1>11. Tokened(t)'
  <2>1. \A e \in Seats : \A k \in seat'[t][e].toks : k < next_tok'[t]
    BY <1>0, <1>2, <1>10 DEF Lean, Tokened
  <2> QED BY <1>3, <1>9, <2>1 DEF Tokened
<1>12. Small(t)'
  BY <1>0, <1>3, <1>4, <1>8 DEF Lean, Small
<1>13. WaitsFirst(t)'
  BY <1>4, <1>8 DEF WaitsFirst
<1>14. ASSUME NEW e \in Seats PROVE Single(t, e)'
  <2>1. CASE e = d
    BY <1>3, <1>4, <1>8, <2>1 DEF Single
  <2>2. CASE e # d
    <3>1. Single(t, e)
      BY <1>0, <1>2, <2>2 DEF Lean, Ending
    <3> QED BY <1>3, <1>9, <1>10, <3>1 DEF Single
  <2> QED BY <2>1, <2>2
<1>15. Lean(t)'
  BY <1>3, <1>11, <1>12, <1>13, <1>14 DEF Lean
<1> QED BY <1>7, <1>15 DEF SameIssues

\* Every step of a thread keeps its own pipe lean, and the other pipes as they
\* are.
LEMMA ThreadLean ==
  ASSUME LeanInv, ~use_window, NEW t \in Threads, Steps(t)
  PROVE  /\ Lean(t)' /\ slot' \in [Pipes -> [Slots -> SlotOf]] /\ finished' = finished
         /\ \A u \in Pipes \ {t} : SameIssues(u) /\ next_tok'[u] = next_tok[u]
<1>0. /\ CountInv /\ TokTypes /\ opt \in Configs /\ Lean(t) /\ t \in Pipes
      /\ slot \in [Pipes -> [Slots -> SlotOf]] /\ opt' = opt
  BY LeanMine DEF Steps
<1>1. pc[t].seat \in Seats /\ MySeat(t) \in SeatOf /\ MySeat(t) = seat[t][pc[t].seat]
      /\ pc \in [Threads -> StepOf]
  BY <1>0, Mine DEF CountInv, CountTypes
<1>2. CASE Decides(t)
  <2>1. slot' = [slot EXCEPT ![t] = PumpedSlots(t)] /\ UNCHANGED <<next_tok, finished>>
    BY <1>2 DEF Decides, Pumps
  <2> QED BY <1>0, <1>2, <2>1, PumpsShape, DecidesLean
<1>3. CASE Fills(t)
  <2> DEFINE y == pqq_init(next_qi[t])
             z == At("beam", pc[t].seat)
  <2>1. /\ UNCHANGED <<slot, next_tok, finished>> /\ pc[t].at = "Fill"
        /\ seat' = [seat EXCEPT ![t][pc[t].seat] = y] /\ pc' = [pc EXCEPT ![t] = z]
    BY <1>3 DEF Fills, Goes
  <2>2. y.st = "Ready" /\ y.toks = {} /\ z.at = "beam"
    BY <1>0, SeatShapes, AtIs DEF CountInv, CountTypes
  <2> HIDE DEF y, z
  <2>3. pc'[t] = z /\ \A u \in Pipes : SameIssues(u)
    BY <1>1, <2>1 DEF SameIssues
  <2>4. Lean(t)'
    BY <1>0, <2>1, <2>2, <2>3, WorkLean
  <2> QED BY <1>0, <2>1, <2>3, <2>4
<1>4. CASE Beams(t)
  <2>1. pc[t].at = "beam"
    BY <1>4 DEF Beams
  <2>2. CASE Pumps(t) /\ UNCHANGED <<seat, pc>>
    <3>1. slot' = [slot EXCEPT ![t] = PumpedSlots(t)] /\ UNCHANGED <<next_tok, finished>>
      BY <2>2 DEF Pumps
    <3>2. slot' \in [Pipes -> [Slots -> SlotOf]] /\ \A u \in Pipes : SameIssues(u)
      BY <1>0, <3>1, PumpsShape
    <3>3. Lean(t)'
      BY <1>0, <2>1, <2>2, <3>1, <3>2, WorkLean
    <3> QED BY <3>1, <3>2, <3>3
  <2>3. CASE /\ \E y \in pqq_beam(MySeat(t)) : seat' = [seat EXCEPT ![t][pc[t].seat] = y]
             /\ Goes(t, At("submit", pc[t].seat))
             /\ UNCHANGED pipeVars
    <3> DEFINE x == MySeat(t)
               z == At("submit", pc[t].seat)
    <3>1. PICK c \in Cands[x.q] : seat' = [seat EXCEPT ![t][pc[t].seat] = [x EXCEPT !.cand = c]]
      BY <2>3 DEF pqq_beam
    <3> DEFINE y == [x EXCEPT !.cand = c]
    <3>2. UNCHANGED <<slot, next_tok, finished>> /\ pc' = [pc EXCEPT ![t] = z]
      BY <2>3 DEF pipeVars, Goes
    <3>3. x.st = "Ready" /\ x.toks = {} /\ x.q \in Queries
      BY <1>0, <1>1, <2>1, Mine DEF CountInv, QueriesRight
    <3>4. y.st = x.st /\ y.toks = x.toks /\ y.cand = c
      <4> HIDE DEF x
      <4> QED BY <1>1 DEF SeatOf
    <3>5. Cardinality(c) <= MaxIssue
      BY <3>3, LeanMine
    <3>6. z.at = "submit" /\ z.seat = pc[t].seat
      BY AtIs
    <3>7. seat' = [seat EXCEPT ![t][pc[t].seat] = y]
      BY <3>1
    <3> HIDE DEF x, y, z
    <3>8. pc'[t] = z /\ seat'[t][pc[t].seat] = y /\ \A u \in Pipes : SameIssues(u)
      BY <1>0, <1>1, <3>2, <3>7 DEF SameIssues, CountInv, CountTypes
    <3>9. Cardinality(seat'[t][pc'[t].seat].cand) <= MaxIssue /\ pc'[t].at = "submit"
          /\ y.toks = {} /\ y.st # "Wait"
      BY <3>3, <3>4, <3>5, <3>6, <3>8
    <3>10. Lean(t)'
      BY <1>0, <2>1, <3>2, <3>7, <3>8, <3>9, WorkLean
    <3> QED BY <1>0, <3>2, <3>8, <3>10
  <2> QED BY <1>4, <2>2, <2>3 DEF Beams
<1>5. CASE SubmitsBlock(t)
  BY <1>0, <1>5, SubmitLean
<1>6. ~Unstalls(t)
  BY DEF Unstalls, StallEnds
<1>7. CASE WaitsCovering(t)
  <2>1. pc[t].at = "wait" /\ next_qi' = next_qi
    BY <1>7 DEF WaitsCovering
  <2>2. CASE WaitTurn(t)
    <3>1. slot' = [slot EXCEPT ![t] = PumpedSlots(t)] /\ UNCHANGED <<next_tok, finished>>
      BY <2>2 DEF WaitTurn, Pumps
    <3> QED BY <1>0, <2>1, <2>2, <3>1, PumpsShape, TurnLean
  <2>3. CASE WaitReissues(t)
    BY <1>0, <2>1, <2>3, ReissueLean
  <2> QED BY <1>7, <2>2, <2>3 DEF WaitsCovering
<1>8. CASE Ranks(t)
  <2>1. UNCHANGED <<next_tok, finished>>
    BY <1>8 DEF Ranks, pqq_rank
  <2> QED BY <1>0, <1>8, <2>1, RankLean
<1> QED BY <1>2, <1>3, <1>4, <1>5, <1>6, <1>7, <1>8 DEF Steps

\* A thread's step leaves the seats and program counters of the others alone.
LEMMA OthersSame ==
  ASSUME CountInv, NEW t \in Threads, Steps(t)
  PROVE  \A u \in Threads \ {t} : seat'[u] = seat[u] /\ pc'[u] = pc[u] /\ next_qi'[u] = next_qi[u]
<1>1. /\ seat \in [Pipes -> [Seats -> SeatOf]] /\ pc \in [Threads -> StepOf] /\ t \in Pipes
      /\ Threads \subseteq Pipes /\ next_qi \in [Threads -> Nat]
  BY Mine, ThreadsAre DEF CountInv, CountTypes
<1>2. seat' = seat \/ \E y : seat' = [seat EXCEPT ![t][pc[t].seat] = y]
  <2>1. CASE Decides(t) \/ Fills(t) \/ Beams(t) \/ Unstalls(t) \/ Ranks(t)
    BY <2>1 DEF Decides, Fills, Beams, Unstalls, Ranks, seatVars
  <2>2. CASE SubmitsBlock(t)
    BY <2>2 DEF SubmitsBlock, SubmitIssues, SubmitNothing, SubmitStalls
  <2>3. CASE WaitsCovering(t)
    <3>1. CASE WaitTurn(t)
      BY <3>1 DEF WaitTurn
    <3>2. CASE WaitReissues(t)
      <4>1. seat' = [seat EXCEPT ![t][pc[t].seat] = [seat[t][pc[t].seat] EXCEPT !.toks = @ \cup {next_tok[t]}]]
        BY <3>2 DEF WaitReissues
      <4> QED BY <4>1
    <3> QED BY <2>3, <3>1, <3>2 DEF WaitsCovering
  <2> QED BY <2>1, <2>2, <2>3 DEF Steps
<1>3. pc' = pc \/ \E z : pc' = [pc EXCEPT ![t] = z]
  BY DEF Steps, Decides, Fills, Beams, SubmitsBlock, SubmitIssues, SubmitNothing, SubmitStalls,
         Unstalls, WaitsCovering, WaitTurn, WaitReissues, Ranks, Goes
<1>4. next_qi' = next_qi \/ \E n : next_qi' = [next_qi EXCEPT ![t] = n]
  BY DEF Steps, Decides, Fills, Beams, SubmitsBlock, Unstalls, WaitsCovering, Ranks
<1> QED BY <1>1, <1>2, <1>3, <1>4

\* Every step preserves the invariant.
LEMMA LeanStep ==
  ASSUME LeanInv, [Next]_vars
  PROVE  LeanInv'
<1>0. CountInv /\ TokTypes /\ Roomy /\ opt \in Configs
  BY DEF LeanInv, CountInv, CountTypes
<1>1. CountInv' /\ TokTypes' /\ opt' = opt
  <2>1. CASE Next
    BY <1>0, <2>1, StepCounts, StepTokens DEF Next, Steps, PoolRuns, Finished, vars
  <2>2. CASE UNCHANGED vars
    <3>1. UNCHANGED <<opt, seat, answered, next_qi, pc>> /\ UNCHANGED next_tok
      BY <2>2 DEF vars, seatVars, pipeVars
    <3> QED BY <1>0, <3>1, CountSame DEF TokTypes
  <2> QED BY <2>1, <2>2
<1>2. Slots' = Slots /\ Threads' = Threads /\ (use_window' <=> use_window) /\ (Roomy' <=> Roomy)
  BY <1>1, SameLimits
<1>3. ASSUME ~use_window
      PROVE  slot' \in [Pipes -> [Slots -> SlotOf]] /\ \A u \in Threads : Lean(u)'
  <2>0. Threads \subseteq Pipes /\ slot \in [Pipes -> [Slots -> SlotOf]]
        /\ \A u \in Threads : Lean(u)
    BY <1>0, <1>3, ThreadsAre DEF LeanInv
  <2>1. CASE \E t \in Pipes : Steps(t)
    <3>1. PICK t \in Threads : Steps(t)
      BY <2>1 DEF Steps
    <3>2. /\ Lean(t)' /\ slot' \in [Pipes -> [Slots -> SlotOf]] /\ finished' = finished
          /\ \A u \in Pipes \ {t} : SameIssues(u) /\ next_tok'[u] = next_tok[u]
      BY <1>3, <3>1, ThreadLean
    <3>3. \A u \in Threads \ {t} : seat'[u] = seat[u] /\ pc'[u] = pc[u] /\ next_qi'[u] = next_qi[u]
      BY <1>0, <3>1, OthersSame
    <3>4. ASSUME NEW u \in Threads, u # t PROVE Lean(u)'
      BY <1>1, <1>3, <2>0, <3>2, <3>3, <3>4, LeanSame
    <3> QED BY <3>2, <3>4
  <2>2. CASE PoolRuns \/ UNCHANGED vars
    <3>1. UNCHANGED <<slot, seat, next_tok, pc, next_qi>> /\ finished \subseteq finished'
      BY <2>2 DEF PoolRuns, Lands, Pool!Finish, seatVars, pipeVars, vars
    <3>2. \A u \in Threads : SameIssues(u)
      BY <3>1 DEF SameIssues
    <3>3. ASSUME NEW u \in Threads PROVE Lean(u)'
      BY <1>1, <1>3, <2>0, <3>1, <3>2, LeanSame
    <3> QED BY <2>0, <3>1, <3>3
  <2> QED BY <2>1, <2>2 DEF Next, Finished
<1> QED BY <1>0, <1>1, <1>2, <1>3 DEF LeanInv

\* The initial state satisfies it.
LEMMA InitLean ==
  ASSUME Init, Roomy
  PROVE  LeanInv
<1>1. CountInv /\ TokTypes /\ Threads \subseteq Pipes
  BY InitCounts, ThreadsAre DEF CountInv, CountTypes
<1>2. slot = [h \in Pipes |-> [s \in Slots |-> NoIssue]]
  BY DEF Init, PipeInit
<1>3. slot \in [Pipes -> [Slots -> SlotOf]] /\ \A h \in Pipes, s \in Slots : ~slot[h][s].active
  BY <1>2, NoSlot
<1>4. \A t \in Threads, d \in Seats : seat[t][d].st = "Empty" /\ seat[t][d].toks = {}
  BY <1>1, SeatShapes DEF Init, SeatInit
<1>5. \A t \in Threads : pc[t].at = "loop"
  BY AtIs DEF Init
<1>6. \A t \in Threads : Lean(t)
  BY <1>1, <1>3, <1>4, <1>5 DEF Lean, Tokened, Small, WaitsFirst, Single
<1> QED BY <1>1, <1>3, <1>6 DEF LeanInv

\* Seats with one slot each leave a slot free: there are more slots than seats.
LEMMA NotFull ==
  ASSUME LeanInv, ~use_window, NEW t \in Threads, \A d \in Seats : Single(t, d)
  PROVE  ~Full(PumpedSlots(t))
<1>1. /\ CountInv /\ opt \in Configs /\ Lean(t) /\ t \in Pipes
      /\ slot \in [Pipes -> [Slots -> SlotOf]] /\ Depth < NSlots
  BY LeanMine
<1> SUFFICES ASSUME Full(PumpedSlots(t)) PROVE FALSE
  OBVIOUS
<1>2. \A s \in Slots : slot[t][s].active
  BY <1>1, PumpedShape DEF Full
<1>3. \A s \in Slots : \E d \in Seats : slot[t][s].tok \in seat[t][d].toks
  BY <1>1, <1>2 DEF Lean, Tokened
<1> DEFINE f == [s \in Slots |-> CHOOSE d \in Seats : slot[t][s].tok \in seat[t][d].toks]
<1>4. \A s \in Slots : f[s] \in Seats /\ slot[t][s].tok \in seat[t][f[s]].toks
  BY <1>3
<1>5. f \in [Slots -> Seats]
  BY <1>4
<1>6. IsFiniteSet(Slots) /\ IsFiniteSet(Seats) /\ Cardinality(Seats) < Cardinality(Slots)
  <2>1. opt.nslots \in Nat \ {0} /\ opt.depth \in Nat \ {0}
    BY <1>1, PipeConstants, SeatConstants
  <2>2. ASSUME NEW n \in Nat \ {0} PROVE Cardinality(0 .. n - 1) = n /\ IsFiniteSet(0 .. n - 1)
    <3>1. 0 \in Int /\ n - 1 \in Int /\ ~(0 > n - 1) /\ (n - 1) - 0 + 1 = n
      OBVIOUS
    <3> DEFINE b == n - 1
    <3> HIDE DEF b
    <3>2. IsFiniteSet(0 .. b) /\ Cardinality(0 .. b) = IF 0 > b THEN 0 ELSE b - 0 + 1
      BY <3>1, FS_Interval DEF b
    <3> QED BY <3>1, <3>2 DEF b
  <2> QED BY <1>1, <2>1, <2>2 DEF Slots, NSlots, Seats, Depth
<1> HIDE DEF f
<1>7. PICK s, r \in Slots : s # r /\ f[s] = f[r]
  BY <1>5, <1>6, FS_PigeonHole
<1> QED BY <1>2, <1>4, <1>7 DEF Single

\* A bounce or vmem issue never finds every slot taken, in submit_block or in a
\* re-issue of wait_covering: the thread, the only one that could free a slot,
\* never spins for one.
THEOREM Pipe2NeverSpins == Spec /\ Roomy => []NeverSpins
<1>1. Init /\ Roomy => LeanInv
  BY InitLean
<1>2. LeanInv /\ [Next]_vars => LeanInv'
  BY LeanStep
<1>3. LeanInv => NeverSpins
  <2> SUFFICES ASSUME LeanInv, ~use_window, NEW t \in Threads
               PROVE  /\ pc[t].at = "submit" => ~Stalled(t, MySeat(t).cand)
                      /\ pc[t].at = "wait" => ~Stalled(t, Orphans(t, Left(t)))
    BY DEF NeverSpins
  <2>1. CountInv /\ Lean(t) /\ opt \in Configs
    BY LeanMine
  <2>2. ASSUME pc[t].at = "submit" PROVE ~Stalled(t, MySeat(t).cand)
    <3>1. \A d \in Seats : Single(t, d)
      BY <2>1, <2>2 DEF Lean, Ending
    <3> QED BY <3>1, NotFull DEF Stalled
  <2>3. ASSUME pc[t].at = "wait", Stalled(t, Orphans(t, Left(t))) PROVE FALSE
    <3>1. Orphans(t, Left(t)) # {} /\ Full(PumpedSlots(t))
      BY <2>3 DEF Stalled, Missing
    <3>2. Left(t) \subseteq seat[t][pc[t].seat].need
      BY <2>1, <2>3 DEF Left, CountInv, OnSeat
    <3>3. ~(seat[t][pc[t].seat].need \subseteq InSlots(slot[t]))
      BY <3>1, <3>2 DEF Orphans
    <3>4. \A d \in Seats : ~Ending(t, d)
      BY <2>3, <3>3 DEF Ending
    <3> QED BY <2>1, <3>1, <3>4, NotFull DEF Lean
  <2> QED BY <2>2, <2>3
<1> QED BY <1>1, <1>2, <1>3, PTL DEF Spec
=============================================================================
