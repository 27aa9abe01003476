--------------------------- MODULE ContBatchProofs ---------------------------
(***************************************************************************)
(* The shared scheduler, for any number of workers, seats, slots, queries  *)
(* and pages: no seat has two workers, no query two seats, and no job      *)
(* outlives its slot.                                                      *)
(***************************************************************************)
EXTENDS ContBatch, HidePipeProofs

-----------------------------------------------------------------------------
(* Seats and queries.                                                      *)

\* Seats are a finite set of numbers, the first of them 0.
LEMMA Numbered ==
  ASSUME opt \in Configs
  PROVE  /\ Slots \subseteq Int /\ IsFiniteSet(Slots)
         /\ Seats \subseteq Int /\ IsFiniteSet(Seats) /\ 0 \in Seats
         /\ Queries \subseteq Nat
         /\ \A q \in Queries : Cands[q] \subseteq SUBSET Pages
<1>1. opt.depth \in Nat \ {0} /\ opt.nq \in Nat /\ opt.cands \in [0 .. opt.nq - 1 -> SUBSET SUBSET Pages]
  BY SeatConstants
<1>2. Seats \subseteq Int /\ IsFiniteSet(Seats) /\ 0 \in Seats
  BY <1>1, FS_Interval, SMTT(30) DEF Seats, Depth
<1>3. Queries \subseteq Nat /\ \A q \in Queries : Cands[q] \subseteq SUBSET Pages
  BY <1>1 DEF Queries, Cands, NQ
<1> QED BY <1>2, <1>3, SlotsNumbered

\* The first of a set of slots or seats is one of them.
LEMMA FirstOf ==
  ASSUME opt \in Configs, NEW S, S \subseteq Slots \/ S \subseteq Seats, S # {}
  PROVE  Min(S) \in S
<1>1. S \in SUBSET Int /\ IsFiniteSet(S)
  BY Numbered, FS_Subset
<1> QED BY <1>1, MinIn

\* What depends on the command line alone.
LEMMA SameLine ==
  ASSUME UNCHANGED opt
  PROVE  Slots' = Slots /\ Seats' = Seats /\ Queries' = Queries
         /\ (use_window' <=> use_window) /\ (Tidy' <=> Tidy)
BY SamePipe DEF Seats, Depth, Queries, NQ

-----------------------------------------------------------------------------
(* The inductive invariant.                                                *)

SeatOf ==
  [st : {"Empty", "Ready", "Busy", "Wait"}, q : Int, cand : SUBSET Pages,
   need : SUBSET Pages, toks : SUBSET Nat, held : BOOLEAN]
StepOf ==
  [at : {"pump", "pick", "idle", "lock", "resubmit", "exit"} \cup Working,
   seat : Seats, rest : SUBSET Pages, ptr : Int]

ContTypes ==
  /\ opt \in Configs
  /\ seat \in [Pipes -> [Seats -> SeatOf]]
  /\ pc \in [Workers -> StepOf]
  /\ answered \in [Queries -> Nat]
  /\ next_q \in Nat /\ next_q <= NQ
  /\ rr \in Nat

\* A seated query was admitted, is in no other seat and is not answered.
QueriesRight ==
  /\ \A d \in Seats : seat[hub][d].st # "Empty" =>
       /\ seat[hub][d].q \in Queries /\ seat[hub][d].q < next_q
       /\ answered[seat[hub][d].q] = 0
       /\ \A e \in Seats :
            seat[hub][e].st # "Empty" /\ seat[hub][e].q = seat[hub][d].q => e = d
  /\ \A q \in Queries : answered[q] <= 1 /\ (q >= next_q => answered[q] = 0)

\* The seats; then the pipe.
SeatsInv == ContTypes /\ BusyExclusive /\ QueriesRight
ContInv == SeatsInv /\ PipesSound
-----------------------------------------------------------------------------
(* The seats: every step preserves SeatsInv.                               *)

\* What an empty seat and a freshly admitted one look like.
LEMMA SeatShapes ==
  /\ EmptySeat \in SeatOf /\ EmptySeat.st = "Empty" /\ hub \in Pipes
  /\ \A q \in Int : pqq_init(q) \in SeatOf /\ pqq_init(q).st = "Ready" /\ pqq_init(q).q = q
<1>1. EmptySeat \in SeatOf /\ EmptySeat.st = "Empty"
  BY DEF EmptySeat, SeatOf, NoQuery
<1> QED BY <1>1, ContConstants DEF pqq_init, SeatOf

\* The fields of a worker's step.
LEMMA AtIs ==
  ASSUME NEW a \in {"pump", "pick", "idle", "lock", "resubmit", "exit"} \cup Working, NEW d \in Seats
  PROVE  At(a, d) \in StepOf /\ At(a, d).at = a /\ At(a, d).seat = d
BY DEF At, StepOf, NoPage

\* The seat of a working worker.
LEMMA Mine ==
  ASSUME SeatsInv, NEW w \in Workers, pc[w].at \in Working
  PROVE  /\ pc[w].seat \in Seats /\ MySeat(w) \in SeatOf /\ MySeat(w).st = "Busy"
         /\ MySeat(w).q \in Queries /\ answered[MySeat(w).q] = 0 /\ MySeat(w).q < next_q
<1>1. pc[w].seat \in Seats
  BY DEF SeatsInv, ContTypes, StepOf
<1>2. MySeat(w) \in SeatOf
  BY <1>1, SeatShapes DEF SeatsInv, ContTypes, MySeat
<1>3. MySeat(w).st = "Busy"
  BY DEF SeatsInv, BusyExclusive
<1> QED BY <1>1, <1>2, <1>3 DEF SeatsInv, QueriesRight, MySeat

\* A step that changes no seat: worker w stays on its seat or leaves it.
LEMMA PcStep ==
  ASSUME SeatsInv, UNCHANGED <<opt, seat, answered, next_q>>, rr' = rr,
         NEW w \in Workers, NEW z \in StepOf, pc' = [pc EXCEPT ![w] = z],
         z.at \in Working => pc[w].at \in Working /\ z.seat = pc[w].seat
  PROVE  SeatsInv'
<1>1. Seats' = Seats /\ Queries' = Queries /\ NQ' = NQ
  BY SameLine DEF NQ
<1>2. pc' \in [Workers -> StepOf] /\ pc'[w] = z /\ \A v \in Workers \ {w} : pc'[v] = pc[v]
  BY DEF SeatsInv, ContTypes
<1>3. ContTypes'
  BY <1>1, <1>2 DEF SeatsInv, ContTypes, SeatOf, StepOf
<1>4. BusyExclusive'
  BY <1>2 DEF SeatsInv, BusyExclusive, MySeat
<1>5. QueriesRight'
  BY <1>1 DEF SeatsInv, QueriesRight
<1> QED BY <1>3, <1>4, <1>5 DEF SeatsInv

\* A step of worker w on its own seat, which keeps its query.
LEMMA SeatStep ==
  ASSUME SeatsInv, UNCHANGED <<opt, answered, next_q>>, rr' = rr,
         NEW w \in Workers, pc[w].at \in Working,
         NEW y \in SeatOf, y.st # "Empty", y.q = MySeat(w).q,
         seat' = [seat EXCEPT ![hub][pc[w].seat] = y],
         NEW z \in StepOf, pc' = [pc EXCEPT ![w] = z],
         z.at \in Working => y.st = "Busy" /\ z.seat = pc[w].seat
  PROVE  SeatsInv'
<1> DEFINE d == pc[w].seat
<1>1. Seats' = Seats /\ Queries' = Queries /\ NQ' = NQ
  BY SameLine DEF NQ
<1>2. /\ pc' \in [Workers -> StepOf] /\ pc'[w] = z /\ \A v \in Workers \ {w} : pc'[v] = pc[v]
      /\ d \in Seats /\ \A v \in Workers : pc[v].seat \in Seats
  BY DEF SeatsInv, ContTypes, StepOf
<1>3. /\ seat' \in [Pipes -> [Seats -> SeatOf]]
      /\ \A e \in Seats : seat'[hub][e] = IF e = d THEN y ELSE seat[hub][e]
  BY <1>2, SeatShapes DEF SeatsInv, ContTypes
<1>4. ContTypes'
  BY <1>1, <1>2, <1>3 DEF SeatsInv, ContTypes, SeatOf, StepOf
<1>5. MySeat(w).st = "Busy" /\ MySeat(w).q \in Queries /\ MySeat(w) = seat[hub][d]
  BY Mine DEF MySeat
<1>6. BusyExclusive'
  <2> SUFFICES ASSUME NEW u \in Workers, pc'[u].at \in Working
               PROVE  /\ seat'[hub][pc'[u].seat].st = "Busy" /\ seat'[hub][pc'[u].seat].q # NoQuery
                      /\ \A v \in Workers \ {u} : pc'[v].at \in Working => pc'[v].seat # pc'[u].seat
    BY DEF BusyExclusive, MySeat
  <2>1. pc[u].at \in Working /\ pc'[u].seat = pc[u].seat
    BY <1>2
  <2>2. /\ seat[hub][pc[u].seat].st = "Busy" /\ seat[hub][pc[u].seat].q # NoQuery
        /\ \A v \in Workers \ {u} : pc[v].at \in Working => pc[v].seat # pc[u].seat
    BY <2>1 DEF SeatsInv, BusyExclusive, MySeat
  <2>3. \A v \in Workers \ {u} : pc'[v].at \in Working => pc'[v].seat # pc'[u].seat
    BY <1>2, <2>1, <2>2
  <2>4. CASE u = w
    BY <1>2, <1>3, <1>5, <2>1, <2>2, <2>3, <2>4
  <2>5. CASE u # w
    BY <1>2, <1>3, <2>1, <2>2, <2>3, <2>5
  <2> QED BY <2>4, <2>5
<1> HIDE DEF d
<1>7. QueriesRight'
  <2>1. \A e \in Seats : seat'[hub][e].q = seat[hub][e].q
                         /\ (seat'[hub][e].st # "Empty" <=> seat[hub][e].st # "Empty")
    BY <1>3, <1>5
  <2> QED BY <1>1, <2>1 DEF SeatsInv, QueriesRight
<1> QED BY <1>4, <1>6, <1>7 DEF SeatsInv

\* The worker answers its query and empties its seat.
LEMMA FinishStep ==
  ASSUME SeatsInv, UNCHANGED opt, NEW w \in Workers, FinishesSlot(w)
  PROVE  SeatsInv'
<1> DEFINE d == pc[w].seat
           k == MySeat(w).q
<1>1. Seats' = Seats /\ Queries' = Queries /\ NQ' = NQ /\ 0 \in Seats
  BY SameLine, Numbered DEF NQ, SeatsInv, ContTypes
<1>2. pc[w].at \in Working /\ pc' = [pc EXCEPT ![w] = At("pump", 0)]
  BY DEF FinishesSlot, Working, Goes
<1>3. At("pump", 0) \in StepOf /\ At("pump", 0).at = "pump" /\ "pump" \notin Working
  BY <1>1, AtIs DEF Working
<1>4. /\ pc' \in [Workers -> StepOf] /\ pc'[w].at \notin Working
      /\ \A v \in Workers \ {w} : pc'[v] = pc[v]
      /\ \A v \in Workers : pc[v].seat \in Seats
  BY <1>2, <1>3 DEF SeatsInv, ContTypes, StepOf
<1>5. d \in Seats /\ k \in Queries /\ answered[k] = 0 /\ k < next_q /\ seat[hub][d].st = "Busy"
      /\ seat[hub][d].q = k
  BY <1>2, Mine DEF MySeat
<1>6. /\ seat' \in [Pipes -> [Seats -> SeatOf]]
      /\ \A e \in Seats : seat'[hub][e] = IF e = d THEN EmptySeat ELSE seat[hub][e]
  BY <1>5, SeatShapes DEF FinishesSlot, SetSeat, SeatsInv, ContTypes
<1>7. /\ answered' \in [Queries -> Nat]
      /\ \A q \in Queries : answered'[q] = IF q = k THEN 1 ELSE answered[q]
  BY <1>5 DEF FinishesSlot, SeatsInv, ContTypes
<1>8. next_q' = next_q /\ rr' = rr
  BY DEF FinishesSlot
<1>9. ContTypes'
  BY <1>1, <1>4, <1>6, <1>7, <1>8 DEF SeatsInv, ContTypes, SeatOf, StepOf
<1>10. BusyExclusive'
  <2> SUFFICES ASSUME NEW u \in Workers, pc'[u].at \in Working
               PROVE  /\ seat'[hub][pc'[u].seat].st = "Busy" /\ seat'[hub][pc'[u].seat].q # NoQuery
                      /\ \A v \in Workers \ {u} : pc'[v].at \in Working => pc'[v].seat # pc'[u].seat
    BY DEF BusyExclusive, MySeat
  <2>1. u # w /\ pc'[u] = pc[u]
    BY <1>4
  <2>2. /\ seat[hub][pc[u].seat].st = "Busy" /\ seat[hub][pc[u].seat].q # NoQuery
        /\ \A v \in Workers \ {u} : pc[v].at \in Working => pc[v].seat # pc[u].seat
    BY <2>1 DEF SeatsInv, BusyExclusive, MySeat
  <2>3. pc[u].seat # d
    BY <1>2, <2>1, <2>2
  <2> QED BY <1>4, <1>6, <2>1, <2>2, <2>3
<1> HIDE DEF d, k
<1>11. QueriesRight'
  <2>1. \A e \in Seats : seat'[hub][e].st # "Empty" =>
          e # d /\ seat'[hub][e] = seat[hub][e] /\ seat[hub][e].q # k
    BY <1>5, <1>6, SeatShapes DEF SeatsInv, QueriesRight
  <2>2. \A q \in Queries : answered'[q] <= 1 /\ (q >= next_q => answered'[q] = 0)
    <3>1. \A q \in Queries : q \in Int /\ answered[q] <= 1 /\ (q >= next_q => answered[q] = 0)
      BY DEF SeatsInv, QueriesRight, Queries
    <3>2. next_q \in Int
      BY DEF SeatsInv, ContTypes
    <3> QED BY <1>5, <1>7, <3>1, <3>2
  <2> QED BY <1>1, <1>7, <1>8, <2>1, <2>2 DEF SeatsInv, QueriesRight
<1> QED BY <1>9, <1>10, <1>11 DEF SeatsInv

\* A proper subset of a finite set has fewer elements.
LEMMA Smaller ==
  ASSUME NEW T, IsFiniteSet(T), NEW S, S \subseteq T, S # T
  PROVE  Cardinality(S) \in Nat /\ Cardinality(S) < Cardinality(T)
<1>1. /\ IsFiniteSet(S) /\ Cardinality(S) <= Cardinality(T)
      /\ Cardinality(S) # Cardinality(T)
  BY FS_Subset
<1>2. Cardinality(S) \in Nat /\ Cardinality(T) \in Nat
  BY <1>1, FS_CardinalityType
<1> QED BY <1>1, <1>2

\* Two empty seats take different queries, below what next_q becomes.
LEMMA Ranked ==
  ASSUME ContTypes
  PROVE  /\ Cardinality(Empties) \in Nat
         /\ \A d \in Empties : Rank(d) \in Nat /\ Rank(d) < Cardinality(Empties)
         /\ \A d, e \in Empties : d < e => Rank(d) < Rank(e)
<1> DEFINE B(d) == {e \in Empties : e < d}
<1>1. Empties \subseteq Int /\ IsFiniteSet(Empties)
  <2>1. Empties \subseteq Seats
    BY DEF Empties
  <2> QED BY <2>1, Numbered, FS_Subset DEF ContTypes
<1>2. \A d \in Empties : B(d) \subseteq Empties /\ IsFiniteSet(B(d)) /\ d \notin B(d)
  <2>1. \A d \in Empties : B(d) \subseteq Empties /\ d \notin B(d)
    BY <1>1
  <2> HIDE DEF B
  <2> QED BY <1>1, <2>1, FS_Subset
<1>3. \A d, e \in Empties : d < e => B(d) \subseteq B(e) /\ d \in B(e)
  <2> SUFFICES ASSUME NEW d \in Empties, NEW e \in Empties, d < e
               PROVE  B(d) \subseteq B(e) /\ d \in B(e)
    OBVIOUS
  <2>1. \A f \in Empties : f < d => f < e
    BY <1>1
  <2> QED BY <2>1
<1>4. \A d : Rank(d) = Cardinality(B(d))
  BY DEF Rank
<1> HIDE DEF B
<1>5. \A d \in Empties : Cardinality(B(d)) \in Nat /\ Cardinality(B(d)) < Cardinality(Empties)
  <2> TAKE d \in Empties
  <2>1. B(d) # Empties
    BY <1>2
  <2> QED BY <1>1, <1>2, <2>1, Smaller
<1>6. \A d, e \in Empties : d < e => Cardinality(B(d)) < Cardinality(B(e))
  <2> SUFFICES ASSUME NEW d \in Empties, NEW e \in Empties, d < e
               PROVE  Cardinality(B(d)) < Cardinality(B(e))
    OBVIOUS
  <2>1. B(d) # B(e) /\ B(d) \subseteq B(e) /\ IsFiniteSet(B(e))
    BY <1>2, <1>3
  <2> QED BY <2>1, Smaller
<1> QED BY <1>1, <1>4, <1>5, <1>6, FS_CardinalityType

\* admit: a seat stays as it is, or was empty and takes a query of its own.
LEMMA Admission ==
  ASSUME SeatsInv
  PROVE  /\ AdmittedNext \in Nat /\ next_q <= AdmittedNext /\ AdmittedNext <= NQ
         /\ Admitted \in [Seats -> SeatOf]
         /\ \A d \in Seats :
              \/ Admitted[d] = seat[hub][d]
              \/ /\ seat[hub][d].st = "Empty" /\ Admitted[d].st = "Ready"
                 /\ Admitted[d].q = next_q + Rank(d)
                 /\ Admitted[d].q \in Queries /\ next_q <= Admitted[d].q
                 /\ Admitted[d].q < AdmittedNext
         /\ \A d, e \in Seats :
              /\ seat[hub][d].st = "Empty" /\ seat[hub][e].st = "Empty"
              /\ next_q + Rank(d) = next_q + Rank(e)
              => d = e
<1> DEFINE c == Cardinality(Empties)
           S == {c, NQ - next_q}
<1>0. /\ next_q \in Nat /\ next_q <= NQ /\ NQ \in Nat /\ seat[hub] \in [Seats -> SeatOf]
      /\ opt \in Configs
  BY SeatShapes, SeatConstants DEF SeatsInv, ContTypes, NQ
<1>1. /\ c \in Nat
      /\ \A d \in Empties : Rank(d) \in Nat /\ Rank(d) < c
      /\ \A d, e \in Empties : d < e => Rank(d) < Rank(e)
  BY Ranked DEF SeatsInv
<1> HIDE DEF c
<1>2. Min(S) \in S /\ Min(S) <= c /\ Min(S) <= NQ - next_q
  <2>1. S = {c} \cup {NQ - next_q}
    OBVIOUS
  <2>2. IsFiniteSet(S)
    <3>1. IsFiniteSet({c})
      BY FS_Singleton
    <3> QED BY <2>1, <3>1, FS_AddElement
  <2>3. S \in SUBSET Int /\ S # {}
    BY <1>0, <1>1
  <2>4. c \in S /\ NQ - next_q \in S
    OBVIOUS
  <2> HIDE DEF S
  <2> QED BY <2>2, <2>3, <2>4, MinIn
<1>3. AdmittedNext = next_q + Min(S)
  BY DEF AdmittedNext, c
<1>4. AdmittedNext \in Nat /\ next_q <= AdmittedNext /\ AdmittedNext <= NQ
  BY <1>0, <1>1, <1>2, <1>3
<1>5. \A n \in Int : n < next_q + c /\ n < NQ => n < AdmittedNext
  BY <1>0, <1>1, <1>2, <1>3
<1> HIDE DEF S
<1>6. ASSUME NEW d \in Seats
      PROVE  /\ Admitted[d] \in SeatOf
             /\ \/ Admitted[d] = seat[hub][d]
                \/ /\ seat[hub][d].st = "Empty" /\ Admitted[d].st = "Ready"
                   /\ Admitted[d].q = next_q + Rank(d)
                   /\ Admitted[d].q \in Queries /\ next_q <= Admitted[d].q
                   /\ Admitted[d].q < AdmittedNext
  <2>1. CASE d \in Empties /\ next_q + Rank(d) < NQ
    <3>1. Admitted[d] = pqq_init(next_q + Rank(d))
      BY <1>6, <2>1 DEF Admitted
    <3>2. Rank(d) \in Nat /\ Rank(d) < c /\ seat[hub][d].st = "Empty"
      BY <1>1, <2>1 DEF Empties
    <3>3. next_q + Rank(d) \in Queries /\ next_q <= next_q + Rank(d)
          /\ next_q + Rank(d) < AdmittedNext
      BY <1>0, <1>1, <1>5, <2>1, <3>2 DEF Queries
    <3> QED BY <1>0, <3>1, <3>2, <3>3, SeatShapes
  <2>2. CASE ~(d \in Empties /\ next_q + Rank(d) < NQ)
    BY <1>0, <1>6, <2>2 DEF Admitted
  <2> QED BY <2>1, <2>2
<1>7. Admitted \in [Seats -> SeatOf]
  BY <1>6 DEF Admitted
<1>8. ASSUME NEW d \in Seats, NEW e \in Seats,
             seat[hub][d].st = "Empty" /\ seat[hub][e].st = "Empty"
             /\ next_q + Rank(d) = next_q + Rank(e)
      PROVE  d = e
  <2>1. d \in Empties /\ e \in Empties /\ d \in Int /\ e \in Int
    BY <1>0, <1>8, Numbered DEF Empties
  <2>2. Rank(d) \in Nat /\ Rank(e) \in Nat /\ Rank(d) = Rank(e)
    BY <1>0, <1>1, <1>8, <2>1
  <2> QED BY <1>1, <2>1, <2>2
<1> QED BY <1>4, <1>6, <1>7, <1>8

\* pick_pq picks a seat that nobody works on.
LEMMA Picked ==
  ASSUME ContTypes, NEW sl
  PROVE  \/ pick_pq(sl) = -1
         \/ pick_pq(sl) \in Seats /\ sl[pick_pq(sl)].st \in {"Ready", "Wait"}
<1> DEFINE kind == IF Offsets(sl, "Ready") # {} THEN "Ready" ELSE "Wait"
           off == Min(Offsets(sl, kind))
<1>1. pick_pq(sl) = IF Offsets(sl, kind) = {} THEN -1 ELSE IndexFrom(rr, off)
  BY DEF pick_pq
<1>2. kind \in {"Ready", "Wait"}
  OBVIOUS
<1> HIDE DEF kind
<1>3. CASE Offsets(sl, kind) # {}
  <2>1. Offsets(sl, kind) \subseteq Seats
    BY DEF Offsets
  <2>2. off \in Offsets(sl, kind)
    BY <1>3, <2>1, FirstOf DEF ContTypes
  <2>3. off \in Seats /\ Wanted(sl, kind, off)
    BY <2>2 DEF Offsets
  <2>4. sl[IndexFrom(rr, off)].st \in {"Ready", "Wait"}
    BY <1>2, <2>3 DEF Wanted
  <2>5. IndexFrom(rr, off) \in Seats
    <3>1. Depth \in Nat \ {0} /\ rr \in Nat
      BY SeatConstants DEF ContTypes, Depth
    <3>2. off \in Nat
      BY <2>3, <3>1 DEF Seats
    <3> HIDE DEF off
    <3> QED BY <3>1, <3>2 DEF IndexFrom, Seats
  <2> QED BY <1>1, <1>3, <2>4, <2>5
<1> QED BY <1>1, <1>3

\* Admission and pick, and the Busy mark.
LEMMA PicksStep ==
  ASSUME SeatsInv, UNCHANGED opt, NEW w \in Workers, Picks(w)
  PROVE  SeatsInv'
<1> DEFINE sl == Admitted
           i  == pick_pq(sl)
           picked == i # -1
           z  == IF ~picked THEN At("idle", 0)
                 ELSE At(IF sl[i].need = {} THEN "beam" ELSE "covers", i)
<1>1. Seats' = Seats /\ Queries' = Queries /\ NQ' = NQ /\ 0 \in Seats
  BY SameLine, Numbered DEF NQ, SeatsInv, ContTypes
<1>2. picked => i \in Seats /\ sl[i].st \in {"Ready", "Wait"}
  BY Picked DEF SeatsInv
<1>3. /\ AdmittedNext \in Nat /\ next_q <= AdmittedNext /\ AdmittedNext <= NQ
      /\ sl \in [Seats -> SeatOf]
      /\ \A d \in Seats :
           \/ sl[d] = seat[hub][d]
           \/ /\ seat[hub][d].st = "Empty" /\ sl[d].st = "Ready" /\ sl[d].q = next_q + Rank(d)
              /\ sl[d].q \in Queries /\ next_q <= sl[d].q /\ sl[d].q < AdmittedNext
      /\ \A d, e \in Seats : seat[hub][d].st = "Empty" /\ seat[hub][e].st = "Empty"
                             /\ next_q + Rank(d) = next_q + Rank(e) => d = e
  BY Admission
<1>4. /\ next_q' = AdmittedNext /\ rr' = NextRr(rr) /\ answered' = answered
      /\ pc' = [pc EXCEPT ![w] = z] /\ pc[w].at = "pick"
  BY DEF Picks, Goes
<1>5. z \in StepOf /\ (picked => z.seat = i) /\ (z.at \in Working => picked)
  <2>1. CASE ~picked
    <3>1. z = At("idle", 0)
      BY <2>1
    <3> HIDE DEF z
    <3> QED BY <1>1, <2>1, <3>1, AtIs DEF Working
  <2>2. CASE picked
    <3>1. \/ z = At("beam", i)
          \/ z = At("covers", i)
      BY <2>2
    <3> HIDE DEF z, i
    <3> QED BY <1>2, <2>2, <3>1, AtIs DEF Working
  <2> QED BY <2>1, <2>2
<1> HIDE DEF sl, i, picked, z
<1>6. /\ seat' \in [Pipes -> [Seats -> SeatOf]]
      /\ \A d \in Seats :
           seat'[hub][d] = IF picked /\ d = i THEN [sl[i] EXCEPT !.st = "Busy"] ELSE sl[d]
  <2>1. CASE ~picked
    <3>1. seat' = [seat EXCEPT ![hub] = sl]
      BY <2>1 DEF Picks, picked, i, sl
    <3> QED BY <1>3, <2>1, <3>1, SeatShapes DEF SeatsInv, ContTypes
  <2>2. CASE picked
    <3>1. seat' = [seat EXCEPT ![hub] = [sl EXCEPT ![i].st = "Busy"]]
      BY <2>2 DEF Picks, picked, i, sl
    <3>2. sl[i] \in SeatOf /\ [sl[i] EXCEPT !.st = "Busy"] \in SeatOf
      BY <1>2, <1>3, <2>2 DEF SeatOf
    <3>3. [sl EXCEPT ![i].st = "Busy"] \in [Seats -> SeatOf]
      BY <1>3, <3>2
    <3>4. seat' \in [Pipes -> [Seats -> SeatOf]] /\ seat'[hub] = [sl EXCEPT ![i].st = "Busy"]
      BY <3>1, <3>3, SeatShapes DEF SeatsInv, ContTypes
    <3> QED BY <1>2, <1>3, <2>2, <3>4
  <2> QED BY <2>1, <2>2
<1>7. \A d \in Seats : /\ seat'[hub][d].q = sl[d].q
                       /\ (seat'[hub][d].st # "Empty" <=> sl[d].st # "Empty")
  <2> TAKE d \in Seats
  <2>1. CASE picked /\ d = i
    BY <1>2, <1>3, <1>6, <2>1 DEF SeatOf
  <2>2. CASE ~(picked /\ d = i)
    BY <1>3, <1>6, <2>2
  <2> QED BY <2>1, <2>2
<1>8. /\ pc' \in [Workers -> StepOf] /\ pc'[w] = z /\ \A v \in Workers \ {w} : pc'[v] = pc[v]
      /\ \A v \in Workers : pc[v].seat \in Seats
  BY <1>4, <1>5 DEF SeatsInv, ContTypes, StepOf
<1>9. ContTypes'
  <2>1. rr' \in Nat
    <3>1. Depth \in Nat \ {0} /\ rr \in Nat
      BY SeatConstants DEF SeatsInv, ContTypes, Depth
    <3> QED BY <1>4, <3>1 DEF NextRr
  <2>2. opt' \in Configs /\ answered' \in [Queries -> Nat]
    BY <1>4 DEF SeatsInv, ContTypes
  <2> QED BY <1>1, <1>3, <1>4, <1>6, <1>8, <2>1, <2>2 DEF ContTypes, SeatOf, StepOf
<1>10. ASSUME NEW v \in Workers, v # w, pc[v].at \in Working
       PROVE  /\ seat'[hub][pc[v].seat] = seat[hub][pc[v].seat]
              /\ seat[hub][pc[v].seat].st = "Busy" /\ (picked => pc[v].seat # i)
  <2> DEFINE e == pc[v].seat
  <2>1. e \in Seats /\ seat[hub][e].st = "Busy"
    BY <1>8, <1>10 DEF SeatsInv, BusyExclusive, MySeat
  <2> HIDE DEF e
  <2>2. sl[e] = seat[hub][e]
    BY <1>3, <2>1
  <2>3. picked => e # i
    BY <1>2, <2>1, <2>2
  <2>4. seat'[hub][e] = seat[hub][e]
    BY <1>6, <2>1, <2>2, <2>3
  <2> QED BY <2>1, <2>3, <2>4 DEF e
<1>11. BusyExclusive'
  <2> SUFFICES ASSUME NEW u \in Workers, pc'[u].at \in Working
               PROVE  /\ seat'[hub][pc'[u].seat].st = "Busy" /\ seat'[hub][pc'[u].seat].q # NoQuery
                      /\ \A v \in Workers \ {u} : pc'[v].at \in Working => pc'[v].seat # pc'[u].seat
    BY DEF BusyExclusive, MySeat
  <2>1. CASE u = w
    <3>1. picked /\ pc'[u].seat = i /\ i \in Seats
      BY <1>2, <1>5, <1>8, <2>1
    <3>2. seat'[hub][i].st = "Busy"
      BY <1>3, <1>6, <3>1 DEF SeatOf
    <3>3. sl[i].q \in Int /\ sl[i].q # NoQuery
      <4>1. sl[i].q \in Queries
        BY <1>2, <1>3, <3>1 DEF SeatsInv, QueriesRight
      <4> QED BY <4>1, Numbered DEF NoQuery, SeatsInv, ContTypes
    <3>4. \A v \in Workers \ {u} : pc'[v].at \in Working => pc'[v].seat # i
      BY <1>8, <1>10, <2>1, <3>1
    <3> QED BY <1>7, <3>1, <3>2, <3>3, <3>4
  <2>2. CASE u # w
    <3>1. pc'[u] = pc[u]
      BY <1>8, <2>2
    <3>2. /\ seat'[hub][pc[u].seat] = seat[hub][pc[u].seat]
          /\ seat[hub][pc[u].seat].st = "Busy" /\ (picked => pc[u].seat # i)
      BY <1>10, <2>2, <3>1
    <3>3. /\ seat[hub][pc[u].seat].q # NoQuery
          /\ \A v \in Workers \ {u} : pc[v].at \in Working => pc[v].seat # pc[u].seat
      BY <3>1 DEF SeatsInv, BusyExclusive, MySeat
    <3>4. \A v \in Workers \ {u} : pc'[v].at \in Working => pc'[v].seat # pc[u].seat
      BY <1>5, <1>8, <3>2, <3>3
    <3> QED BY <3>1, <3>2, <3>3, <3>4
  <2> QED BY <2>1, <2>2
<1>12. QueriesRight'
  <2>0. next_q \in Nat /\ AdmittedNext \in Nat /\ next_q <= AdmittedNext
        /\ Queries \subseteq Nat
        /\ \A q \in Queries : answered[q] <= 1 /\ (q >= next_q => answered[q] = 0)
    BY <1>3, Numbered DEF SeatsInv, ContTypes, QueriesRight
  <2>1. ASSUME NEW d \in Seats, sl[d].st # "Empty"
        PROVE  /\ sl[d].q \in Queries /\ sl[d].q < AdmittedNext /\ answered[sl[d].q] = 0
               /\ \A e \in Seats : sl[e].st # "Empty" /\ sl[e].q = sl[d].q => e = d
    <3>1. CASE sl[d] = seat[hub][d]
      <4>1. /\ sl[d].q \in Queries /\ sl[d].q < next_q /\ answered[sl[d].q] = 0
            /\ \A e \in Seats : seat[hub][e].st # "Empty" /\ seat[hub][e].q = sl[d].q => e = d
        BY <2>1, <3>1 DEF SeatsInv, QueriesRight
      <4>2. sl[d].q \in Nat /\ sl[d].q < AdmittedNext
        BY <2>0, <4>1
      <4>3. \A e \in Seats : sl[e].q = sl[d].q => sl[e] = seat[hub][e]
        <5> SUFFICES ASSUME NEW e \in Seats, sl[e].q = sl[d].q, next_q <= sl[e].q PROVE FALSE
          BY <1>3
        <5> QED BY <2>0, <4>1, <4>2
      <4> QED BY <4>1, <4>2, <4>3
    <3>2. CASE sl[d] # seat[hub][d]
      <4>1. /\ seat[hub][d].st = "Empty" /\ sl[d].q = next_q + Rank(d)
            /\ sl[d].q \in Queries /\ next_q <= sl[d].q /\ sl[d].q < AdmittedNext
        BY <1>3, <2>1, <3>2
      <4>2. answered[sl[d].q] = 0
        BY <2>0, <4>1
      <4>3. ASSUME NEW e \in Seats, sl[e].st # "Empty", sl[e].q = sl[d].q PROVE e = d
        <5>1. sl[e] # seat[hub][e]
          <6> SUFFICES ASSUME sl[e] = seat[hub][e] PROVE FALSE
            OBVIOUS
          <6>1. sl[e].q < next_q
            BY <4>3 DEF SeatsInv, QueriesRight
          <6>2. sl[e].q \in Nat /\ next_q <= sl[e].q
            BY <2>0, <4>1, <4>3
          <6> QED BY <2>0, <6>1, <6>2
        <5>2. seat[hub][e].st = "Empty" /\ sl[e].q = next_q + Rank(e)
          BY <1>3, <4>3, <5>1
        <5>3. next_q + Rank(d) = next_q + Rank(e)
          BY <4>1, <4>3, <5>2
        <5> QED BY <1>3, <2>1, <4>1, <4>3, <5>2, <5>3
      <4> QED BY <4>1, <4>2, <4>3
    <3> QED BY <3>1, <3>2
  <2>2. \A q \in Queries : answered[q] <= 1 /\ (q >= AdmittedNext => answered[q] = 0)
    BY <2>0
  <2>3. \A d \in Seats : seat'[hub][d].st # "Empty" =>
          /\ seat'[hub][d].q \in Queries /\ seat'[hub][d].q < AdmittedNext
          /\ answered[seat'[hub][d].q] = 0
          /\ \A e \in Seats : seat'[hub][e].st # "Empty" /\ seat'[hub][e].q = seat'[hub][d].q => e = d
    BY <1>7, <2>1
  <2> QED BY <1>1, <1>4, <2>2, <2>3 DEF QueriesRight
<1> QED BY <1>9, <1>11, <1>12 DEF SeatsInv

\* The seat that pqq_beam or pqq_issue leaves, on Busy seat x.
LEMMA BusySeats ==
  ASSUME NEW x \in SeatOf, x.st = "Busy"
  PROVE  /\ \A c \in SUBSET Pages :
              LET y == [x EXCEPT !.cand = c] IN y \in SeatOf /\ y.st = "Busy" /\ y.q = x.q
         /\ \A k \in Nat :
              LET y == IssuedBusy(x, k) IN y \in SeatOf /\ y.st = "Busy" /\ y.q = x.q
         /\ LET y == [x EXCEPT !.st = "Wait"] IN y \in SeatOf /\ y.st = "Wait" /\ y.q = x.q
<1>1. ASSUME NEW k \in Nat
      PROVE  LET y == IssuedBusy(x, k) IN y \in SeatOf /\ y.st = "Busy" /\ y.q = x.q
  <2> DEFINE K == IF k = 0 THEN x.toks ELSE x.toks \cup {k}
             a == IF x.cand = {} THEN "Ready" ELSE "Wait"
             p == pqq_issue(x, k)
  <2>1. K \in SUBSET Nat /\ a \in {"Ready", "Wait"} /\ x.cand \in SUBSET Pages
    BY <1>1 DEF SeatOf
  <2>2. p = [x EXCEPT !.need = x.cand, !.toks = K, !.st = a]
    BY DEF pqq_issue, SeatOf
  <2> HIDE DEF K, a
  <2>3. p \in SeatOf /\ p.q = x.q
    BY <2>1, <2>2 DEF SeatOf
  <2> HIDE DEF p
  <2>4. [p EXCEPT !.st = "Busy"] \in SeatOf /\ [p EXCEPT !.st = "Busy"].st = "Busy"
        /\ [p EXCEPT !.st = "Busy"].q = x.q
    BY <2>3 DEF SeatOf
  <2> QED BY <2>4 DEF IssuedBusy, p
<1> QED BY <1>1 DEF SeatOf

\* A worker's step keeps the seats exclusive and seated once.
LEMMA SeatsKept ==
  ASSUME SeatsInv, NEW w \in Workers, Steps(w), next_tok \in [Pipes -> Nat]
  PROVE  SeatsInv'
<1> DEFINE x == MySeat(w)
           d == pc[w].seat
<1>0. /\ opt' = opt /\ opt \in Configs /\ d \in Seats /\ 0 \in Seats /\ pc[w] \in StepOf
      /\ \A a \in {"pump", "pick", "idle", "lock", "resubmit", "exit"} \cup Working, e \in Seats :
           At(a, e) \in StepOf /\ At(a, e).at = a /\ At(a, e).seat = e
  BY AtIs, Numbered DEF Steps, SeatsInv, ContTypes, StepOf
<1>1. {"pump", "pick", "idle", "lock", "resubmit", "exit"} \cap Working = {}
  BY DEF Working
<1>2. CASE PumpsHub(w) \/ Idles(w) \/ LocksIdle(w)
  <2>1. UNCHANGED <<opt, seat, answered, next_q>> /\ rr' = rr
    BY <1>0, <1>2 DEF PumpsHub, Idles, LocksIdle, seatVars
  <2>2. PICK a \in {"pump", "pick", "idle", "lock", "resubmit", "exit"} : pc' = [pc EXCEPT ![w] = At(a, 0)]
    BY <1>2 DEF PumpsHub, Idles, LocksIdle, Goes
  <2>3. At(a, 0) \in StepOf /\ At(a, 0).at \notin Working
    BY <1>0, <1>1, <2>2
  <2> QED BY <2>1, <2>2, <2>3, PcStep
<1>3. CASE Picks(w)
  BY <1>0, <1>3, PicksStep
<1>4. CASE IdleSubmits(w)
  <2>1. UNCHANGED <<opt, seat, answered, next_q>> /\ rr' = rr
    BY <1>0, <1>4 DEF IdleSubmits, seatVars
  <2>2. PICK z : /\ pc' = [pc EXCEPT ![w] = z]
                 /\ z = At("pump", 0) \/ (d # Depth - 1 /\ z = At("resubmit", d + 1))
    BY <1>4 DEF IdleSubmits, Goes
  <2>3. d # Depth - 1 => d + 1 \in Seats
    BY <1>0, SeatConstants DEF Seats, Depth
  <2> HIDE DEF d
  <2>4. z \in StepOf /\ z.at \notin Working
    BY <1>0, <1>1, <2>2, <2>3
  <2> QED BY <2>1, <2>2, <2>4, PcStep
<1>5. CASE Beams(w)
  <2>1. pc[w].at \in Working /\ UNCHANGED <<opt, answered, next_q>> /\ rr' = rr
    BY <1>0, <1>5 DEF Beams, Working
  <2>2. CASE seat' = seat /\ pc' = pc
    <3>1. pc' = [pc EXCEPT ![w] = pc[w]]
      BY <2>2 DEF SeatsInv, ContTypes
    <3> QED BY <1>0, <2>1, <2>2, <3>1, PcStep
  <2>3. CASE /\ \E y \in pqq_beam(x) : SetSeat(d, y)
             /\ Goes(w, At("issue", d))
    <3>1. x \in SeatOf /\ x.st = "Busy" /\ x.q \in Queries
      BY <2>1, Mine
    <3>2. PICK c \in Cands[x.q] : SetSeat(d, [x EXCEPT !.cand = c])
      BY <2>3 DEF pqq_beam
    <3>3. c \in SUBSET Pages
      BY <1>0, <3>1, <3>2, Numbered
    <3> DEFINE y == [x EXCEPT !.cand = c]
    <3> HIDE DEF x
    <3>4. y \in SeatOf /\ y.st = "Busy" /\ y.q = x.q
      BY <3>1, <3>3, BusySeats
    <3>5. seat' = [seat EXCEPT ![hub][pc[w].seat] = y] /\ y.q = MySeat(w).q
          /\ pc' = [pc EXCEPT ![w] = At("issue", d)]
      BY <2>3, <3>2, <3>4 DEF SetSeat, Goes, x
    <3>6. At("issue", d) \in StepOf /\ At("issue", d).seat = pc[w].seat
      BY <1>0 DEF Working
    <3> HIDE DEF y, d
    <3> QED BY <2>1, <3>4, <3>5, <3>6, SeatStep
  <2> QED BY <1>5, <2>2, <2>3 DEF Beams
<1>6. CASE IssuesBusy(w)
  <2>1. pc[w].at \in Working /\ UNCHANGED <<opt, answered, next_q>> /\ rr' = rr
    BY <1>0, <1>6 DEF IssuesBusy, Working
  <2>2. PICK k \in Nat : SetSeat(d, IssuedBusy(x, k)) /\ Goes(w, At("covers", d))
    <3>1. next_tok[hub] \in Nat /\ 0 \in Nat
      BY SeatShapes
    <3> QED BY <1>6, <3>1 DEF IssuesBusy
  <2>3. x \in SeatOf /\ x.st = "Busy"
    BY <2>1, Mine
  <2> DEFINE y == IssuedBusy(x, k)
  <2> HIDE DEF x
  <2>4. y \in SeatOf /\ y.st = "Busy" /\ y.q = x.q
    BY <2>3, BusySeats
  <2>5. seat' = [seat EXCEPT ![hub][pc[w].seat] = y] /\ y.q = MySeat(w).q
        /\ pc' = [pc EXCEPT ![w] = At("covers", d)]
    BY <2>2, <2>4 DEF SetSeat, Goes, x
  <2>6. At("covers", d) \in StepOf /\ At("covers", d).seat = pc[w].seat
    BY <1>0 DEF Working
  <2> HIDE DEF y, d
  <2> QED BY <2>1, <2>4, <2>5, <2>6, SeatStep
<1>7. CASE ChecksCover(w) \/ LooksUp(w) \/ ReadsVector(w)
  <2>1. pc[w].at \in Working /\ UNCHANGED <<opt, seat, answered, next_q>> /\ rr' = rr
    BY <1>0, <1>7 DEF ChecksCover, LooksUp, ReadsVector, Working, seatVars
  <2>2. x \in SeatOf
    BY <2>1, Mine
  <2>3. PICK z \in StepOf : pc' = [pc EXCEPT ![w] = z] /\ z.seat = d
    <3>1. CASE ChecksCover(w)
      <4>1. CASE pc' = [pc EXCEPT ![w] = [At("score", d) EXCEPT !.rest = x.need]]
        <5> DEFINE z == [At("score", d) EXCEPT !.rest = x.need]
        <5>1. x.need \in SUBSET Pages
          BY <2>2 DEF SeatOf
        <5> HIDE DEF x
        <5>2. z \in StepOf /\ z.seat = d
          BY <1>0, <5>1 DEF At, StepOf, Working, NoPage
        <5> QED BY <4>1, <5>2 DEF x
      <4>2. CASE pc' = [pc EXCEPT ![w] = At("park", d)]
        BY <1>0, <4>2 DEF Working
      <4> QED BY <3>1, <4>1, <4>2 DEF ChecksCover, Goes
    <3>2. CASE LooksUp(w)
      <4>1. CASE \E a \in {"finish", "park"} : pc' = [pc EXCEPT ![w] = At(a, d)]
        <5>1. PICK a \in {"finish", "park"} : pc' = [pc EXCEPT ![w] = At(a, d)]
          BY <4>1
        <5>2. At(a, d) \in StepOf /\ At(a, d).seat = d
          BY <1>0 DEF Working
        <5> QED BY <5>1, <5>2
      <4>2. CASE \E p \in pc[w].rest : pc' = [pc EXCEPT ![w] = [pc[w] EXCEPT !.rest = @ \ {p}, !.ptr = p]]
        <5>1. PICK p \in pc[w].rest : pc' = [pc EXCEPT ![w] = [pc[w] EXCEPT !.rest = @ \ {p}, !.ptr = p]]
          BY <4>2
        <5>2. p \in Int /\ pc[w].rest \ {p} \in SUBSET Pages
          <6>1. pc[w].rest \in SUBSET Pages
            BY <1>0 DEF StepOf
          <6> QED BY <5>1, <6>1, PipeConstants
        <5>3. [pc[w] EXCEPT !.rest = @ \ {p}, !.ptr = p] \in StepOf
              /\ [pc[w] EXCEPT !.rest = @ \ {p}, !.ptr = p].seat = d
          BY <1>0, <5>2 DEF StepOf
        <5> QED BY <5>1, <5>3
      <4> QED BY <3>2, <4>1, <4>2 DEF LooksUp, Goes
    <3>3. CASE ReadsVector(w)
      <4>1. [pc[w] EXCEPT !.ptr = NoPage] \in StepOf /\ [pc[w] EXCEPT !.ptr = NoPage].seat = d
        BY <1>0 DEF StepOf, NoPage
      <4> QED BY <3>3, <4>1 DEF ReadsVector, Goes
    <3> QED BY <1>7, <3>1, <3>2, <3>3
  <2> QED BY <2>1, <2>3, PcStep
<1>8. CASE FinishesSlot(w)
  BY <1>0, <1>8, FinishStep
<1>9. CASE Parks(w)
  <2>1. pc[w].at \in Working /\ UNCHANGED <<opt, answered, next_q>> /\ rr' = rr
    BY <1>0, <1>9 DEF Parks, Working
  <2>2. SetSeat(d, [x EXCEPT !.st = "Wait"]) /\ Goes(w, At("pump", 0))
    BY <1>9 DEF Parks
  <2>3. x \in SeatOf /\ x.st = "Busy"
    BY <2>1, Mine
  <2> DEFINE y == [x EXCEPT !.st = "Wait"]
  <2> HIDE DEF x
  <2>4. y \in SeatOf /\ y.st = "Wait" /\ y.q = x.q
    BY <2>3, BusySeats
  <2>5. seat' = [seat EXCEPT ![hub][pc[w].seat] = y] /\ y.q = MySeat(w).q
        /\ pc' = [pc EXCEPT ![w] = At("pump", 0)]
    BY <2>2, <2>4 DEF SetSeat, Goes, x
  <2>6. At("pump", 0) \in StepOf /\ At("pump", 0).at \notin Working
    BY <1>0, <1>1
  <2> HIDE DEF y, d
  <2> QED BY <2>1, <2>4, <2>5, <2>6, SeatStep
<1> QED BY <1>2, <1>3, <1>4, <1>5, <1>6, <1>7, <1>8, <1>9 DEF Steps
-----------------------------------------------------------------------------
(* The pipe, and the theorems.                                             *)

\* A step that leaves the slots, the tokens and the jobs alone.
LEMMA PipesSame ==
  ASSUME PipesSound, UNCHANGED <<opt, slot, next_tok, pending, finished>>
  PROVE  PipesSound'
<1>1. Slots' = Slots /\ (use_window' <=> use_window) /\ (Tidy' <=> Tidy)
  BY SameLine
<1>2. ASSUME NEW g \in Pipes PROVE (Sound(g, slot[g]) /\ Apart(slot[g]))'
  <2>1. Sound(g, slot[g]) /\ Apart(slot[g])
    BY <1>2 DEF PipesSound
  <2> QED BY <1>1, <2>1 DEF Sound, Apart, Owned
<1>3. JobsSound'
  BY DEF PipesSound, JobsSound
<1> QED BY <1>1, <1>2, <1>3 DEF PipesSound

\* A worker's step keeps the shared pipe sound: no copy job without its slot.
LEMMA PipeKept ==
  ASSUME ContInv, NEW w \in Workers, Steps(w)
  PROVE  PipesSound'
<1>0. opt' = opt /\ SeatsInv /\ PipesSound /\ hub \in Pipes
  BY SeatShapes DEF Steps, ContInv
<1>1. MySeat(w) \in SeatOf /\ MySeat(w).cand \in SUBSET Pages /\ MySeat(w).need \in SUBSET Pages
  <2>1. MySeat(w) \in SeatOf
    BY <1>0 DEF SeatsInv, ContTypes, StepOf, MySeat
  <2> QED BY <2>1 DEF SeatOf
<1>2. CASE PumpsHub(w) \/ Beams(w)
  <2>1. Pumps(hub) \/ UNCHANGED <<slot, next_tok, pending, finished>>
    BY <1>2 DEF PumpsHub, Beams, pipeVars
  <2> QED BY <1>0, <2>1, PumpsSound, PipesSame
<1>3. CASE IdleSubmits(w) \/ IssuesBusy(w)
  <2>1. PICK need \in SUBSET Pages :
          Submits(hub, need) \/ Refuses(hub, need) \/ UNCHANGED <<slot, next_tok, pending, finished>>
    BY <1>1, <1>3 DEF IdleSubmits, IssuesBusy, pipeVars
  <2> QED BY <1>0, <2>1, SubmitsSound, RefusesSound, PipesSame
<1>4. CASE \/ Picks(w) \/ Idles(w) \/ LocksIdle(w) \/ ChecksCover(w) \/ LooksUp(w)
           \/ ReadsVector(w) \/ FinishesSlot(w) \/ Parks(w)
  <2>1. UNCHANGED <<slot, next_tok, pending, finished>>
    BY <1>4 DEF Picks, Idles, LocksIdle, ChecksCover, LooksUp, ReadsVector, FinishesSlot, Parks,
                pipeVars
  <2> QED BY <1>0, <2>1, PipesSame
<1> QED BY <1>2, <1>3, <1>4 DEF Steps

\* Every step keeps the invariant.
LEMMA ContStep ==
  ASSUME ContInv, [Next]_vars
  PROVE  ContInv'
<1>0. SeatsInv /\ PipesSound /\ next_tok \in [Pipes -> Nat]
  BY DEF ContInv, PipesSound
<1>1. ASSUME NEW w \in Workers, Steps(w) PROVE ContInv'
  BY <1>0, <1>1, SeatsKept, PipeKept DEF ContInv
<1>2. ASSUME UNCHANGED <<opt, seat, answered, next_q, rr, pc>> PROVE SeatsInv'
  <2>1. Seats' = Seats /\ Queries' = Queries /\ NQ' = NQ
    BY <1>2, SameLine DEF NQ
  <2> QED BY <1>0, <1>2, <2>1 DEF SeatsInv, ContTypes, SeatOf, StepOf, BusyExclusive, MySeat,
             QueriesRight
<1>3. CASE PoolRuns
  <2>1. PICK j \in pending : Lands(j)
    BY <1>3 DEF PoolRuns
  <2>2. UNCHANGED <<opt, seat, answered, next_q, rr, pc>> /\ opt' = opt
    BY <1>3 DEF PoolRuns, seatVars
  <2> QED BY <1>0, <1>2, <2>1, <2>2, LandsSound DEF ContInv
<1>4. CASE UNCHANGED vars
  <2>1. UNCHANGED <<opt, seat, answered, next_q, rr, pc>>
        /\ UNCHANGED <<opt, slot, next_tok, pending, finished>>
    BY <1>4 DEF vars, pipeVars, seatVars
  <2> QED BY <1>0, <1>2, <2>1, PipesSame DEF ContInv
<1> QED BY <1>1, <1>3, <1>4 DEF Next, Finished

\* The invariant holds when the workers start.
LEMMA InitCont ==
  ASSUME Init
  PROVE  ContInv
<1>1. opt \in Configs /\ Tidy
  BY ContConstants DEF Init, PipeInit, Tidy, use_window, Score
<1>2. 0 \in Seats /\ NQ \in Nat
  BY <1>1, Numbered, SeatConstants DEF NQ
<1>3. /\ seat \in [Pipes -> [Seats -> SeatOf]]
      /\ \A d \in Seats : seat[hub][d] = EmptySeat
  BY SeatShapes DEF Init, SeatInit
<1>4. pc \in [Workers -> StepOf] /\ \A w \in Workers : pc[w].at \notin Working
  <2>1. At("pump", 0) \in StepOf /\ At("pump", 0).at = "pump" /\ "pump" \notin Working
    BY <1>2, AtIs DEF Working
  <2> QED BY <2>1 DEF Init
<1>5. /\ answered \in [Queries -> Nat] /\ next_q = 0 /\ rr = 0
      /\ \A q \in Queries : answered[q] = 0
  BY DEF Init, SeatInit
<1>6. SeatsInv
  BY <1>1, <1>2, <1>3, <1>4, <1>5, SeatShapes DEF SeatsInv, ContTypes, BusyExclusive, QueriesRight
<1>7. /\ next_tok = [h \in Pipes |-> 1] /\ pending = {} /\ finished = {}
      /\ slot = [h \in Pipes |-> [s \in Slots |-> NoIssue]]
  BY DEF Init, PipeInit, Pool!Init
<1>8. \A h \in Pipes, s \in Slots : slot[h][s] = NoIssue /\ ~NoIssue.active /\ NoIssue \in Issue
  BY <1>7, NoIssueIs
<1>9. slot \in [Pipes -> [Slots -> Issue]]
  BY <1>7, <1>8
<1> QED BY <1>1, <1>6, <1>7, <1>8, <1>9 DEF ContInv, PipesSound, Sound, Apart, JobsSound, JobOf

\* The invariant of the shared scheduler and its pipe, whatever the
\* interleaving of the workers and the pool.
THEOREM ContSafe == Spec => []ContInv
<1>1. Init => ContInv
  BY InitCont
<1>2. ContInv /\ [Next]_vars => ContInv'
  BY ContStep
<1> QED BY <1>1, <1>2, PTL DEF Spec

\* No two workers work on the same seat, and a seat that is worked on is Busy.
THEOREM ContBusyExclusive == Spec => []BusyExclusive
<1>1. ContInv => BusyExclusive
  BY DEF ContInv, SeatsInv
<1> QED BY <1>1, ContSafe, PTL

\* A query is in one seat, and in none once it is answered: no worker finishes
\* a query that another one has.
THEOREM ContSeatedOnce == Spec => []SeatedOnce
<1>1. ContInv => SeatedOnce
  <2> SUFFICES ASSUME ContInv, NEW q \in Queries
               PROVE  Cardinality(Seated(q)) + answered[q] <= 1
    BY DEF SeatedOnce
  <2>1. answered[q] \in Nat /\ answered[q] <= 1
    BY DEF ContInv, SeatsInv, ContTypes, QueriesRight
  <2>2. CASE Seated(q) = {}
    <3>1. Cardinality(Seated(q)) = 0
      BY <2>2, FS_EmptySet
    <3> QED BY <2>1, <3>1
  <2>3. CASE Seated(q) # {}
    <3>1. PICK x \in Pipes \X Seats : seat[x[1]][x[2]].st # "Empty" /\ seat[x[1]][x[2]].q = q
      BY <2>3 DEF Seated
    <3>2. x[1] = hub /\ x[2] \in Seats
      BY <3>1, ContConstants
    <3>3. answered[q] = 0 /\ \A e \in Seats : seat[hub][e].st # "Empty" /\ seat[hub][e].q = q => e = x[2]
      BY <3>1, <3>2 DEF ContInv, SeatsInv, QueriesRight
    <3>4. \A y \in Seated(q) : y = x
      BY <3>1, <3>2, <3>3, ContConstants DEF Seated
    <3>5. Seated(q) = {x}
      BY <2>3, <3>4
    <3>6. Cardinality(Seated(q)) = 1
      BY <3>5, FS_Singleton
    <3> QED BY <3>3, <3>6
  <2> QED BY <2>2, <2>3
<1> QED BY <1>1, ContSafe, PTL

\* No job of the pool writes to a slot that was freed, although any worker may
\* pump and clear the slots of the one pipe.
THEOREM ContNoDangling == Spec => []NoDanglingJob
<1>1. ContInv => NoDanglingJob
  BY SoundNoDangling DEF ContInv
<1> QED BY <1>1, ContSafe, PTL
=============================================================================
