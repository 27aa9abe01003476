--------------------------- MODULE SearchesProofs ---------------------------
(***************************************************************************)
(* One query's search, for every graph, command line, window and schedule  *)
(* of the copies: no vertex is lost or scored twice, and the candidates    *)
(* are the nearest of what was scored.                                     *)
(***************************************************************************)
EXTENDS Searches, HidePipeProofs, SequenceTheorems

-----------------------------------------------------------------------------
(* The inductive invariants, of a search x.                                *)

Fields ==
  {"at", "then", "back", "cand", "seen", "expanded", "expands", "scored", "pend", "hits", "batch",
   "waves", "want", "miss", "toks", "budget", "misread", "out"}
Pend == [id : Nodes, pages : SUBSET Pages]

SearchTypes(x) ==
  /\ DOMAIN x = Fields
  /\ x.cand \in Seq(Nodes) /\ x.hits \in Seq(Nodes) /\ x.batch \in Seq(Nodes)
  /\ x.pend \in Seq(Pend)
  /\ x.seen \subseteq Nodes /\ x.expands \in Nat /\ x.scored \in [Nodes -> Nat]
  /\ x.want \in SUBSET Pages /\ x.miss \in SUBSET Pages

\* Which search it is, and where each can be.
Host == Algo = "pq" \/ (Algo = "fp" /\ opt.oracle)
Paged == Algo = "fp" /\ ~opt.oracle
InHost == {"host", "insert", "issue", "stall", "cover", "all", "rank", "done"}
InP3 == {"P3", "wave", "hop", "hits", "issue", "stall", "cover", "all", "drain", "last", "insert", "end", "done"}

Places(x) ==
  \/ x.at \in {"warm", "begin"}
  \/ Algo = "beam" /\ x.at \in {"iter", "done"}
  \/ Host /\ x.at \in InHost
  \/ Paged /\ Policy \in {"P0", "P1"} /\ x.at \in {Policy, "score", "done"}
  \/ Paged /\ Policy = "P2" /\ x.at \in {"P2", "pick", "ready", "bound", "score", "done"}
  \/ Paged /\ Policy = "P3" /\ x.at \in InP3

\* Where it goes from there.
Turns(x) ==
  /\ x.at = "score" => IF Policy = "P2" THEN x.back \in {"pick", "bound"} ELSE x.back = Policy
  /\ x.at = "insert" => IF Host THEN x.back = "host" ELSE x.back \in {"P3", "hop", "end"}
  /\ x.at \in {"issue", "stall"} => IF Host THEN x.then = "cover" ELSE x.then \in {"P3", "hits", "cover"}
  /\ x.at = "all" => IF Host THEN x.then = "rank" ELSE x.then \in {"last", "drain"}
  /\ x.at = "drain" => x.then = "P3"
  /\ x.at = "wave" => x.batch # <<>> /\ ~OneByOne
  /\ x.at \in {"hop", "hits"} => OneByOne
  /\ x.at \in {"issue", "stall"} /\ x.then = "hits" => OneByOne
  /\ x.at = "insert" /\ x.back = "hop" => OneByOne
  /\ x.at \in {"issue", "stall", "cover", "all", "rank"} => ~(Host /\ opt.oracle)

\* What the lists hold.
Distinct(s) == \A i, j \in DOMAIN s : s[i] = s[j] => i = j
PendIds(x) == Range(Ids(x.pend))
HitIds(x) == Range(x.hits)

\* A list to score exists only on the way to scoring it.
HitsHeld(x) ==
  /\ x.at \in {"insert", "score"} => x.hits # <<>>
  /\ x.hits # <<>> =>
       x.at \in {"insert", "score", "hits"} \/ (x.at \in {"issue", "stall"} /\ x.then = "hits")

\* Vertices wait only in P2 and P3.
PendHeld(x) == x.pend # <<>> => Paged /\ Policy \in {"P2", "P3"} /\ ~Frozen

Unbegun(x) ==
  x.at \in {"warm", "begin"} =>
    /\ x.cand = <<>> /\ x.seen = {} /\ x.pend = <<>> /\ x.hits = <<>>
    /\ \A v \in Nodes : x.scored[v] = 0

\* A vertex is scored, or in one place of one list, or not seen.
Once(x) ==
  /\ Distinct(Ids(x.pend)) /\ Distinct(x.hits) /\ PendIds(x) \cap HitIds(x) = {}
  /\ \A v \in Nodes : x.scored[v] = 0 \/ (x.scored[v] = 1 /\ v \notin PendIds(x) \cup HitIds(x))
  /\ \A v \in Nodes : x.scored[v] = 1 \/ v \in PendIds(x) \cup HitIds(x) => v \in x.seen
  /\ ~Frozen => \A v \in x.seen : x.scored[v] = 1 \/ v \in PendIds(x) \cup HitIds(x)

\* c is a list of the nearest of V: at most L, and what is left out is no
\* nearer than what is listed.
NearestOf(c, V) ==
  /\ Distinct(c) /\ Len(c) <= opt.L /\ Range(c) \subseteq V
  /\ \A v \in V \ Range(c) : Len(c) = opt.L /\ \A e \in Range(c) : Dist(e) <= Dist(v)

ScoredSet(x) == {v \in Nodes : x.scored[v] > 0}
Best(x) == NearestOf(x.cand, ScoredSet(x))

AllExpanded(x) == Range(x.cand) \subseteq x.expanded

\* A search that leaves its loop, and is not cut short, has nothing left to
\* expand and nothing waiting.
Ended(x) ==
  /\ (x.at = "all" /\ x.then = "last") \/ x.at \in {"last", "end"} =>
       CutShort \/ (x.pend = <<>> /\ AllExpanded(x))
  /\ x.at = "insert" /\ x.back = "end" => CutShort
  /\ Host /\ x.at \in {"issue", "stall", "cover", "all", "rank"} => CutShort \/ AllExpanded(x)
  /\ x.at = "done" /\ Algo # "beam" =>
       /\ CutShort \/ AllExpanded(x)
       /\ (opt.iters = 0 \/ Policy = "P2") /\ ~opt.freeze => x.pend = <<>>

\* The answer, but for the bytes it was computed from.
Answer(x) ==
  x.at = "done" =>
    /\ Len(x.out) = Min({opt.k, Len(x.cand)})
    /\ LET d == IF Algo = "beam" /\ ~opt.rerank THEN opt.code ELSE opt.fp
       IN  \A i, j \in DOMAIN x.out : i < j => d[x.out[i]] <= d[x.out[j]]

Control(x) == Places(x) /\ Turns(x)
Lists(x) == HitsHeld(x) /\ PendHeld(x) /\ Once(x) /\ Best(x) /\ Ended(x)

SearchInv(x) ==
  /\ opt \in Configs /\ SearchTypes(x) /\ Control(x) /\ Unbegun(x) /\ Answer(x)
  /\ Algo # "beam" => Lists(x)

\* search_one_pq outside the window mode: what it needs is asked for, and on
\* its way from the list of what is left to the slots.
Need == VecPages(Range(q.cand))
Covering ==
  Algo = "pq" /\ ~use_window =>
    /\ q.at # "stall"
    /\ q.at = "issue" => q.want = Need
    /\ q.at = "cover" => \A p \in Need \ q.want : covers(Me, p)
    /\ q.at \in {"all", "rank"} => coversAll(Me, Need)

PagesInv ==
  /\ SearchInv(q) /\ ~q.misread
  /\ q.at # "done" => PipesSound /\ Covering

-----------------------------------------------------------------------------
(* Ranking.                                                                *)

StrictOrder(I, before) ==
  /\ \A j \in I : <<j, j>> \notin before
  /\ \A i, j, k \in I : <<i, j>> \in before /\ <<j, k>> \in before => <<i, k>> \in before
  /\ \A j, k \in I : j = k \/ <<j, k>> \in before \/ <<k, j>> \in before

\* The places of a finite set, each once, in a strict order of them.
LEMMA RankedIs ==
  ASSUME NEW I, IsFiniteSet(I), NEW before, StrictOrder(I, before)
  PROVE  LET n == Cardinality(I)
             at == Ranked(I, before)
         IN  /\ n \in Nat /\ at \in [1 .. n -> I]
             /\ \A r, t \in 1 .. n : at[r] = at[t] => r = t
             /\ \A k \in I : \E r \in 1 .. n : at[r] = k
             /\ \A r, t \in 1 .. n : r < t => <<at[r], at[t]>> \in before
<1> DEFINE n == Cardinality(I)
           low(k) == {j \in I : <<j, k>> \in before}
           c == [k \in I |-> Cardinality(low(k))]
           T == 0 .. n - 1
<1>1. n \in Nat /\ IsFiniteSet(T) /\ Cardinality(T) = n
  <2>1. n \in Nat
    BY FS_CardinalityType
  <2>2. IsFiniteSet(0 .. n - 1) /\ Cardinality(0 .. n - 1) = IF 0 > n - 1 THEN 0 ELSE n - 1 - 0 + 1
    BY <2>1, FS_Interval
  <2> QED BY <2>1, <2>2
<1>2. \A j, k \in I : <<j, k>> \in before => c[j] < c[k]
  <2> SUFFICES ASSUME NEW j \in I, NEW k \in I, <<j, k>> \in before PROVE c[j] < c[k]
    OBVIOUS
  <2>1. low(j) \in SUBSET low(k) /\ low(k) \in SUBSET I /\ j \in low(k) /\ j \notin low(j)
    BY DEF StrictOrder
  <2>2. IsFiniteSet(low(k)) /\ Cardinality(low(k)) \in Nat
    <3> HIDE DEF low
    <3> QED BY <2>1, FS_Subset, FS_CardinalityType
  <2>3. IsFiniteSet(low(j)) /\ Cardinality(low(j)) \in Nat /\ Cardinality(low(j)) <= Cardinality(low(k))
        /\ (Cardinality(low(k)) = Cardinality(low(j)) => low(k) = low(j))
    <3> HIDE DEF low
    <3> QED BY <2>1, <2>2, FS_Subset, FS_CardinalityType
  <2>4. Cardinality(low(j)) < Cardinality(low(k))
    <3> HIDE DEF low
    <3> QED BY <2>1, <2>2, <2>3
  <2> QED BY <2>4
<1>3. \A k \in I : c[k] \in T
  <2> SUFFICES ASSUME NEW k \in I PROVE c[k] \in T
    OBVIOUS
  <2>1. low(k) \in SUBSET I /\ k \notin low(k)
    BY DEF StrictOrder
  <2>2. Cardinality(low(k)) \in Nat /\ Cardinality(low(k)) <= n /\ Cardinality(low(k)) # n
    <3> HIDE DEF low
    <3> QED BY <2>1, FS_Subset, FS_CardinalityType
  <2>3. Cardinality(low(k)) \in T
    <3> HIDE DEF low
    <3> QED BY <2>2, <1>1
  <2> QED BY <2>3
<1>4. c \in [I -> T]
  BY <1>3
<1>5. \A r \in 1 .. n : \E k \in I : c[k] = r - 1
  <2> HIDE DEF c
  <2>1. \A j, k \in I : c[j] = c[k] => j = k
    <3> SUFFICES ASSUME NEW j \in I, NEW k \in I, c[j] = c[k], j # k PROVE FALSE
      OBVIOUS
    <3>1. <<j, k>> \in before \/ <<k, j>> \in before
      BY DEF StrictOrder
    <3>2. c[j] \in Int /\ c[k] \in Int
      BY <1>1, <1>4
    <3> QED BY <3>1, <3>2, <1>2
  <2>2. c \in Injection(I, T)
    BY <1>4, <2>1 DEF Injection, IsInjective
  <2>3. c \in Surjection(I, T)
    <3> HIDE DEF T
    <3> QED BY <1>1, <2>2, FS_Injection
  <2> QED BY <1>1, <2>3 DEF Surjection
<1> DEFINE at == Ranked(I, before)
<1>6. \A r \in 1 .. n : at[r] \in I /\ c[at[r]] = r - 1
  <2> SUFFICES ASSUME NEW r \in 1 .. n PROVE at[r] \in I /\ c[at[r]] = r - 1
    OBVIOUS
  <2>1. \E k \in I : Cardinality(low(k)) = r - 1
    BY <1>5
  <2>2. at[r] = CHOOSE k \in I : Cardinality(low(k)) = r - 1
    BY DEF Ranked
  <2>3. at[r] \in I /\ Cardinality(low(at[r])) = r - 1
    <3> HIDE DEF low, at
    <3> QED BY <2>1, <2>2
  <2> QED BY <2>3
<1>7. at \in [1 .. n -> I]
  <2> DEFINE e(r) == CHOOSE k \in I : Cardinality(low(k)) = r - 1
  <2>1. at = [r \in 1 .. n |-> e(r)]
    BY DEF Ranked
  <2>2. \A r \in 1 .. n : e(r) \in I
    BY <1>6, <2>1
  <2> HIDE DEF at, e
  <2> QED BY <2>1, <2>2
<1> HIDE DEF at, c
<1>8. \A r, t \in 1 .. n : at[r] = at[t] => r = t
  <2> SUFFICES ASSUME NEW r \in 1 .. n, NEW t \in 1 .. n, at[r] = at[t] PROVE r = t
    OBVIOUS
  <2>1. r - 1 = t - 1
    BY <1>6
  <2> QED BY <1>1, <2>1
<1>9. \A k \in I : \E r \in 1 .. n : at[r] = k
  <2> SUFFICES ASSUME NEW k \in I PROVE \E r \in 1 .. n : at[r] = k
    OBVIOUS
  <2>1. c[k] \in Int /\ c[k] + 1 \in 1 .. n
    BY <1>1, <1>4
  <2>2. PICK r \in 1 .. n : r = c[k] + 1
    BY <2>1
  <2>3. at[r] \in I /\ c[at[r]] = c[k]
    BY <2>1, <2>2, <1>6
  <2>4. at[r] = k
    <3> SUFFICES ASSUME at[r] # k PROVE FALSE
      OBVIOUS
    <3>1. <<at[r], k>> \in before \/ <<k, at[r]>> \in before
      BY <2>3 DEF StrictOrder
    <3> QED BY <3>1, <1>2, <2>1, <2>3
  <2> QED BY <2>4
<1>10. \A r, t \in 1 .. n : r < t => <<at[r], at[t]>> \in before
  <2> SUFFICES ASSUME NEW r \in 1 .. n, NEW t \in 1 .. n, r < t PROVE <<at[r], at[t]>> \in before
    OBVIOUS
  <2>1. at[r] \in I /\ at[t] \in I /\ c[at[r]] = r - 1 /\ c[at[t]] = t - 1 /\ r \in Int /\ t \in Int
    BY <1>1, <1>6
  <2>2. at[r] # at[t]
    BY <1>8
  <2>3. <<at[r], at[t]>> \in before \/ <<at[t], at[r]>> \in before
    BY <2>1, <2>2 DEF StrictOrder
  <2>4. ~(<<at[t], at[r]>> \in before)
    BY <2>1, <1>2
  <2> QED BY <2>3, <2>4
<1> QED BY <1>1, <1>7, <1>8, <1>9, <1>10 DEF at

\* t is what s holds at the places I, in a strict order of them.
TakenFrom(X, s, I, before, t) ==
  /\ t \in Seq(X) /\ Len(t) = Cardinality(I) /\ (t = <<>> <=> I = {})
  /\ \A k \in I : s[k] \in Range(t)
  /\ \A e \in Range(t) : \E k \in I : e = s[k]
  /\ (\A j, k \in I : s[j] = s[k] => j = k) => Distinct(t)
  /\ \A r, u \in DOMAIN t : r < u =>
       \E j, k \in I : t[r] = s[j] /\ t[u] = s[k] /\ <<j, k>> \in before

LEMMA TakenIs ==
  ASSUME NEW X, NEW s \in Seq(X), NEW I \in SUBSET DOMAIN s, NEW before, StrictOrder(I, before)
  PROVE  TakenFrom(X, s, I, before, Taken(s, I, before))
<1> DEFINE n == Cardinality(I)
           at == Ranked(I, before)
           t == Taken(s, I, before)
<1>1. DOMAIN s = 1 .. Len(s) /\ Len(s) \in Nat /\ \A k \in DOMAIN s : s[k] \in X
  OBVIOUS
<1>2. IsFiniteSet(I)
  <2>1. IsFiniteSet(1 .. Len(s))
    BY <1>1, FS_Interval
  <2> QED BY <1>1, <2>1, FS_Subset
<1>3. /\ n \in Nat /\ at \in [1 .. n -> I]
      /\ \A r, u \in 1 .. n : at[r] = at[u] => r = u
      /\ \A k \in I : \E r \in 1 .. n : at[r] = k
      /\ \A r, u \in 1 .. n : r < u => <<at[r], at[u]>> \in before
  BY <1>2, RankedIs
<1>4. n = 0 <=> I = {}
  BY <1>2, FS_EmptySet
<1>5. t = [r \in DOMAIN at |-> s[at[r]]]
  BY DEF Taken
<1> HIDE DEF at, t, n
<1>6. DOMAIN t = 1 .. n /\ \A r \in 1 .. n : t[r] = s[at[r]] /\ at[r] \in I
  BY <1>3, <1>5
<1>7. t \in Seq(X) /\ Len(t) = n
  <2>1. t \in [1 .. n -> X]
    BY <1>1, <1>3, <1>5
  <2> QED BY <1>3, <2>1
<1>8. t = <<>> <=> I = {}
  BY <1>3, <1>4, <1>7
<1>9. (\A k \in I : s[k] \in Range(t)) /\ \A e \in Range(t) : \E k \in I : e = s[k]
  BY <1>3, <1>6 DEF Range
<1>10. ASSUME \A j, k \in I : s[j] = s[k] => j = k PROVE Distinct(t)
  BY <1>3, <1>6, <1>10 DEF Distinct
<1>11. ASSUME NEW r \in DOMAIN t, NEW u \in DOMAIN t, r < u
       PROVE  \E j, k \in I : t[r] = s[j] /\ t[u] = s[k] /\ <<j, k>> \in before
  BY <1>3, <1>6, <1>11
<1>12. TakenFrom(X, s, I, before, t)
  BY <1>7, <1>8, <1>9, <1>10, <1>11 DEF TakenFrom, n
<1> QED BY <1>12 DEF t

LEMMA AscendingOrder ==
  ASSUME NEW I \in SUBSET Int
  PROVE  StrictOrder(I, Ascending(I))
BY DEF StrictOrder, Ascending

LEMMA NearerOrder ==
  ASSUME NEW s, NEW d, NEW I \in SUBSET Int, \A k \in I : d[s[k]] \in Int
  PROVE  /\ StrictOrder(I, Nearer(s, d, I))
         /\ \A j, k \in I : <<j, k>> \in Nearer(s, d, I) => d[s[j]] <= d[s[k]]
<1> DEFINE a(k) == d[s[k]]
<1>1. \A j, k \in I : <<j, k>> \in Nearer(s, d, I) <=> (a(j) < a(k) \/ (a(j) = a(k) /\ j < k))
  BY DEF Nearer
<1>2. \A k \in I : a(k) \in Int /\ k \in Int
  OBVIOUS
<1>3. ASSUME NEW j \in I, NEW k \in I PROVE <<j, k>> \in Nearer(s, d, I) => d[s[j]] <= d[s[k]]
  BY <1>1, <1>2
<1> HIDE DEF a
<1>4. StrictOrder(I, Nearer(s, d, I))
  BY <1>1, <1>2 DEF StrictOrder
<1> QED BY <1>3, <1>4

LEMMA AtIs ==
  ASSUME NEW X, NEW s \in Seq(X), NEW I \in SUBSET DOMAIN s
  PROVE  /\ At(s, I) \in Seq(X) /\ (At(s, I) = <<>> <=> I = {})
         /\ \A k \in I : s[k] \in Range(At(s, I))
         /\ \A e \in Range(At(s, I)) : \E k \in I : e = s[k]
         /\ (\A j, k \in I : s[j] = s[k] => j = k) => Distinct(At(s, I))
<1>1. I \in SUBSET Int
  <2>1. DOMAIN s = 1 .. Len(s) /\ Len(s) \in Nat
    OBVIOUS
  <2> QED BY <2>1
<1>2. StrictOrder(I, Ascending(I))
  BY <1>1, AscendingOrder
<1>3. TakenFrom(X, s, I, Ascending(I), Taken(s, I, Ascending(I)))
  BY <1>2, TakenIs
<1>4. TakenFrom(X, s, I, Ascending(I), At(s, I))
  BY <1>3 DEF At
<1> QED BY <1>4 DEF TakenFrom

\* A list in order of d.
LEMMA SortedIs ==
  ASSUME NEW X, NEW s \in Seq(X), NEW d, \A v \in X : d[v] \in Int
  PROVE  /\ Sorted(s, d) \in Seq(X) /\ Len(Sorted(s, d)) = Len(s)
         /\ \A i, j \in DOMAIN Sorted(s, d) : i < j => d[Sorted(s, d)[i]] <= d[Sorted(s, d)[j]]
<1> DEFINE I == DOMAIN s
<1>1. I = 1 .. Len(s) /\ Len(s) \in Nat /\ \A k \in I : s[k] \in X
  OBVIOUS
<1>2. I \in SUBSET Int /\ IsFiniteSet(I) /\ Cardinality(I) = Len(s)
  <2>1. IsFiniteSet(1 .. Len(s)) /\ Cardinality(1 .. Len(s)) = IF 1 > Len(s) THEN 0 ELSE Len(s) - 1 + 1
    BY <1>1, FS_Interval
  <2> QED BY <1>1, <2>1
<1>3. /\ StrictOrder(I, Nearer(s, d, I))
      /\ \A j, k \in I : <<j, k>> \in Nearer(s, d, I) => d[s[j]] <= d[s[k]]
  <2>1. \A k \in I : d[s[k]] \in Int
    BY <1>1
  <2> HIDE DEF I
  <2> QED BY <1>2, <2>1, NearerOrder
<1> DEFINE t == Taken(s, I, Nearer(s, d, I))
<1>4. TakenFrom(X, s, I, Nearer(s, d, I), t)
  <2>1. I \in SUBSET DOMAIN s
    OBVIOUS
  <2> HIDE DEF I
  <2> QED BY <1>3, <2>1, TakenIs
<1>5. t = Sorted(s, d)
  BY DEF Sorted
<1> HIDE DEF t, I
<1>6. ASSUME NEW i \in DOMAIN t, NEW j \in DOMAIN t, i < j PROVE d[t[i]] <= d[t[j]]
  <2>1. PICK k, l \in I : t[i] = s[k] /\ t[j] = s[l] /\ <<k, l>> \in Nearer(s, d, I)
    BY <1>4, <1>6 DEF TakenFrom
  <2> QED BY <1>3, <2>1
<1> QED BY <1>2, <1>4, <1>5, <1>6 DEF TakenFrom

LEMMA CutIs ==
  ASSUME NEW X, NEW s \in Seq(X), NEW m \in Nat
  PROVE  /\ Cut(s, m) \in Seq(X) /\ Len(Cut(s, m)) = (IF m < Len(s) THEN m ELSE Len(s))
         /\ \A i \in DOMAIN Cut(s, m) : i \in DOMAIN s /\ Cut(s, m)[i] = s[i]
BY DEF Cut

-----------------------------------------------------------------------------
(* The graph, and the lists of a search.                                   *)

LEMMA ConfigIs ==
  ASSUME opt \in Configs
  PROVE  /\ opt.n \in Nat /\ opt.L \in Nat \ {0} /\ opt.ebatch \in Nat \ {0}
         /\ opt.k \in Nat /\ opt.iters \in Nat /\ opt.entry \in Nodes
         /\ Algo \in {"pq", "fp", "beam"} /\ Policy \in {"P0", "P1", "P2", "P3"}
         /\ \A v \in Nodes : /\ v \in Nat /\ Row(v) \in Seq(Nat) /\ Len(opt.bpages[v]) = Len(Row(v))
                             /\ opt.bpages[v] \in Seq(SUBSET Pages) /\ opt.vpages[v] \in SUBSET Pages
                             /\ Dist(v) \in Int /\ opt.fp[v] \in Int /\ opt.code[v] \in Int
<1>1. /\ opt.algo \in {"pq", "fp", "beam"} /\ opt.policy \in {"P0", "P1", "P2", "P3"}
      /\ {opt.n, opt.L, opt.ebatch, opt.ahead} \subseteq Nat \ {0} /\ {opt.k, opt.iters} \subseteq Nat
      /\ opt.entry \in 0 .. opt.n - 1 /\ opt.nbrs \in [0 .. opt.n - 1 -> Seq(Nat)]
      /\ opt.fp \in [0 .. opt.n - 1 -> Int] /\ opt.code \in [0 .. opt.n - 1 -> Int]
      /\ opt.vpages \in [0 .. opt.n - 1 -> SUBSET Pages]
      /\ opt.bpages \in [0 .. opt.n - 1 -> Seq(SUBSET Pages)]
      /\ \A v \in 0 .. opt.n - 1 : Len(opt.bpages[v]) = Len(opt.nbrs[v])
  BY SearchConstants
<1>2. opt.n \in Nat /\ opt.L \in Nat \ {0} /\ opt.ebatch \in Nat \ {0} /\ opt.k \in Nat /\ opt.iters \in Nat
  BY <1>1
<1>3. Algo \in {"pq", "fp", "beam"} /\ Policy \in {"P0", "P1", "P2", "P3"} /\ opt.entry \in Nodes
  BY <1>1 DEF Algo, Policy, Nodes
<1>4. ASSUME NEW v \in Nodes
      PROVE  /\ v \in Nat /\ Row(v) \in Seq(Nat) /\ Len(opt.bpages[v]) = Len(Row(v))
             /\ opt.bpages[v] \in Seq(SUBSET Pages) /\ opt.vpages[v] \in SUBSET Pages
             /\ opt.fp[v] \in Int /\ opt.code[v] \in Int
  <2>1. v \in 0 .. opt.n - 1 /\ v \in Nat
    BY <1>2 DEF Nodes
  <2>2. opt.nbrs[v] \in Seq(Nat) /\ opt.bpages[v] \in Seq(SUBSET Pages) /\ opt.vpages[v] \in SUBSET Pages
    BY <1>1, <2>1
  <2>3. opt.fp[v] \in Int /\ opt.code[v] \in Int
    BY <1>1, <2>1
  <2>4. Len(opt.bpages[v]) = Len(opt.nbrs[v])
    BY <1>1, <2>1
  <2> QED BY <2>1, <2>2, <2>3, <2>4 DEF Row
<1>5. ASSUME NEW v \in Nodes PROVE Dist(v) \in Int
  BY <1>4 DEF Dist, dist
<1> QED BY <1>2, <1>3, <1>4, <1>5

LEMMA SeqInto ==
  ASSUME NEW X, NEW Y, NEW s \in Seq(X), Range(s) \subseteq Y
  PROVE  s \in Seq(Y)
BY SeqOfRange, SeqMonotonic

LEMMA Items ==
  ASSUME NEW X, NEW s \in Seq(X)
  PROVE  /\ DOMAIN s = 1 .. Len(s) /\ Len(s) \in Nat /\ (Len(s) = 0 <=> s = <<>>)
         /\ (Range(s) = {} <=> s = <<>>) /\ Range(s) \subseteq X
         /\ \A i \in DOMAIN s : s[i] \in Range(s)
         /\ \A e \in Range(s) : \E i \in DOMAIN s : e = s[i]
<1>1. DOMAIN s = 1 .. Len(s) /\ Len(s) \in Nat /\ (Len(s) = 0 <=> s = <<>>)
  OBVIOUS
<1>2. (\A i \in DOMAIN s : s[i] \in Range(s)) /\ \A e \in Range(s) : \E i \in DOMAIN s : e = s[i]
  BY DEF Range
<1>3. Range(s) \subseteq X
  BY <1>1, <1>2
<1>4. Range(s) = {} <=> s = <<>>
  <2>1. CASE s = <<>>
    BY <1>1, <1>2, <2>1
  <2>2. CASE s # <<>>
    <3>1. 1 \in DOMAIN s
      BY <1>1, <2>2
    <3> QED BY <1>2, <2>2, <3>1
  <2> QED BY <2>1, <2>2
<1> QED BY <1>1, <1>2, <1>3, <1>4

\* A list without its head.
LEMMA TailIs ==
  ASSUME NEW X, NEW s \in Seq(X), s # <<>>
  PROVE  /\ Head(s) \in Range(s) /\ Head(s) \in X /\ Tail(s) \in Seq(X)
         /\ (Tail(s) = <<>> <=> Len(s) = 1)
         /\ Range(s) = Range(Tail(s)) \cup {Head(s)}
         /\ Distinct(s) => Distinct(Tail(s)) /\ Head(s) \notin Range(Tail(s))
<1>1. /\ DOMAIN s = 1 .. Len(s) /\ Len(s) \in Nat \ {0} /\ Head(s) = s[1] /\ s[1] \in X
      /\ Tail(s) \in Seq(X) /\ Len(Tail(s)) = Len(s) - 1 /\ DOMAIN Tail(s) = 1 .. Len(s) - 1
      /\ \A i \in 1 .. Len(s) - 1 : Tail(s)[i] = s[i + 1]
  BY HeadTailProperties
<1> DEFINE t == Tail(s)
<1> HIDE DEF t
<1>2. /\ t \in Seq(X) /\ Len(t) = Len(s) - 1 /\ DOMAIN t = 1 .. Len(s) - 1
      /\ \A i \in 1 .. Len(s) - 1 : t[i] = s[i + 1]
  BY <1>1 DEF t
<1>3. t = <<>> <=> Len(s) = 1
  BY <1>1, <1>2
<1>4. Head(s) \in Range(s) /\ Head(s) \in X
  BY <1>1 DEF Range
<1>5. Range(t) \subseteq Range(s)
  BY <1>1, <1>2 DEF Range
<1>6. ASSUME NEW e \in Range(s), e # Head(s) PROVE e \in Range(t)
  <2>1. PICK i \in 1 .. Len(s) : e = s[i]
    BY <1>1 DEF Range
  <2>2. i - 1 \in 1 .. Len(s) - 1 /\ t[i - 1] = s[(i - 1) + 1] /\ (i - 1) + 1 = i
    BY <1>1, <1>2, <1>6, <2>1
  <2> QED BY <1>2, <2>1, <2>2 DEF Range
<1>7. ASSUME Distinct(s) PROVE Distinct(t)
  <2> SUFFICES ASSUME NEW i \in DOMAIN t, NEW j \in DOMAIN t, t[i] = t[j] PROVE i = j
    BY DEF Distinct
  <2>1. i + 1 \in DOMAIN s /\ j + 1 \in DOMAIN s /\ s[i + 1] = s[j + 1]
    BY <1>1, <1>2
  <2>2. i + 1 = j + 1
    BY <1>7, <2>1 DEF Distinct
  <2> QED BY <1>1, <1>2, <2>2
<1>8. ASSUME Distinct(s), Head(s) \in Range(t) PROVE FALSE
  <2>1. PICK i \in 1 .. Len(s) - 1 : Head(s) = t[i]
    BY <1>2, <1>8 DEF Range
  <2>2. i + 1 \in DOMAIN s /\ 1 \in DOMAIN s /\ s[i + 1] = s[1] /\ i + 1 # 1
    BY <1>1, <1>2, <2>1
  <2> QED BY <1>8, <2>2 DEF Distinct
<1> QED BY <1>2, <1>3, <1>4, <1>5, <1>6, <1>7, <1>8 DEF t

\* max_element finds a worst candidate.
LEMMA WorstIs ==
  ASSUME opt \in Configs, NEW c \in Seq(Nodes), c # <<>>
  PROVE  LET w == Min({i \in DOMAIN c : \A j \in DOMAIN c : Dist(c[j]) <= Dist(c[i])})
         IN  w \in DOMAIN c /\ \A j \in DOMAIN c : Dist(c[j]) <= Dist(c[w])
<1> DEFINE D == DOMAIN c
           f == [i \in D |-> Dist(c[i])]
           T == {f[i] : i \in D}
           W == {i \in D : \A j \in D : Dist(c[j]) <= Dist(c[i])}
<1>1. D = 1 .. Len(c) /\ Len(c) \in Nat \ {0} /\ \A i \in D : c[i] \in Nodes
  OBVIOUS
<1>2. IsFiniteSet(D)
  BY <1>1, FS_Interval
<1>3. \A i \in D : f[i] = Dist(c[i]) /\ f[i] \in Int
  BY <1>1, ConfigIs
<1>4. T \in SUBSET Int /\ IsFiniteSet(T) /\ T # {}
  <2>1. f \in Surjection(D, T)
    <3> HIDE DEF f
    <3>1. f \in [D -> T]
      BY DEF f
    <3> QED BY <3>1 DEF Surjection
  <2>2. IsFiniteSet(T)
    <3> HIDE DEF f, T, D
    <3> QED BY <1>2, <2>1, FS_Surjection
  <2>3. T \in SUBSET Int /\ T # {}
    <3> HIDE DEF f
    <3> QED BY <1>1, <1>3
  <2> QED BY <2>2, <2>3
<1>5. PICK m \in D : f[m] = Max(T) /\ \A y \in T : Max(T) >= y
  <2>1. Max(T) \in T /\ \A y \in T : Max(T) >= y
    <3> HIDE DEF T
    <3> QED BY <1>4, MaxIn
  <2> HIDE DEF f
  <2> QED BY <2>1
<1>6. m \in W
  <2> HIDE DEF f
  <2>1. \A j \in D : f[j] \in T
    OBVIOUS
  <2>2. ASSUME NEW j \in D PROVE Dist(c[j]) <= Dist(c[m])
    BY <1>3, <1>5, <2>1
  <2> QED BY <2>2
<1>7. W \in SUBSET Int /\ IsFiniteSet(W) /\ W \subseteq D
  <2>1. W \in SUBSET D
    OBVIOUS
  <2>2. IsFiniteSet(W)
    <3> HIDE DEF W, D
    <3> QED BY <2>1, <1>2, FS_Subset
  <2> QED BY <1>1, <2>1, <2>2
<1>8. Min(W) \in W
  <2> HIDE DEF W
  <2> QED BY <1>6, <1>7, MinIn
<1> DEFINE w == Min(W)
<1>9. w \in W
  BY <1>8
<1> HIDE DEF w
<1>10. w \in DOMAIN c /\ \A j \in DOMAIN c : Dist(c[j]) <= Dist(c[w])
  BY <1>9
<1> QED BY <1>10 DEF w

\* A vertex inserted in the list of the nearest of V.
LEMMA InsertIs ==
  ASSUME opt \in Configs, NEW c \in Seq(Nodes), NEW V \in SUBSET Nodes, NearestOf(c, V),
         NEW v \in Nodes, v \notin V
  PROVE  insert_cand(c, v) \in Seq(Nodes) /\ NearestOf(insert_cand(c, v), V \cup {v})
<1> DEFINE t == insert_cand(c, v)
           w == Min({i \in DOMAIN c : \A j \in DOMAIN c : Dist(c[j]) <= Dist(c[i])})
<1>1. t = IF Len(c) < opt.L THEN Append(c, v)
          ELSE IF Dist(v) >= Dist(c[w]) THEN c ELSE [c EXCEPT ![w] = v]
  BY DEF insert_cand
<1>2. c # <<>> => w \in DOMAIN c /\ \A j \in DOMAIN c : Dist(c[j]) <= Dist(c[w])
  BY WorstIs
<1> HIDE DEF t, w
<1>3. /\ opt.L \in Nat \ {0} /\ DOMAIN c = 1 .. Len(c) /\ Len(c) \in Nat
      /\ \A i \in DOMAIN c : c[i] \in Nodes /\ c[i] # v /\ c[i] \in Range(c)
      /\ \A e \in Range(c) : \E i \in DOMAIN c : e = c[i]
  BY ConfigIs, Items DEF NearestOf
<1>4. \A u \in Nodes : Dist(u) \in Int
  BY ConfigIs
<1>5. CASE Len(c) < opt.L
  <2>1. /\ t \in Seq(Nodes) /\ Len(t) = Len(c) + 1 /\ DOMAIN t = 1 .. Len(c) + 1
        /\ \A i \in DOMAIN c : t[i] = c[i]
        /\ t[Len(c) + 1] = v
    BY <1>1, <1>3, <1>5
  <2>2. Range(t) = Range(c) \cup {v}
    BY <1>3, <2>1 DEF Range
  <2>3. Distinct(t)
    <3> SUFFICES ASSUME NEW i \in DOMAIN t, NEW j \in DOMAIN t, t[i] = t[j] PROVE i = j
      BY DEF Distinct
    <3>1. (i \in DOMAIN c \/ i = Len(c) + 1) /\ (j \in DOMAIN c \/ j = Len(c) + 1)
      BY <1>3, <2>1
    <3> QED BY <1>3, <2>1, <3>1 DEF NearestOf, Distinct
  <2>4. V \subseteq Range(c)
    BY <1>3, <1>5 DEF NearestOf
  <2>5. NearestOf(t, V \cup {v})
    BY <1>3, <1>5, <2>1, <2>2, <2>3, <2>4 DEF NearestOf
  <2> QED BY <2>1, <2>5 DEF t
<1>6. CASE ~(Len(c) < opt.L)
  <2>1. Len(c) = opt.L /\ c # <<>>
    BY <1>3, <1>6 DEF NearestOf
  <2>2. w \in DOMAIN c /\ \A j \in DOMAIN c : Dist(c[j]) <= Dist(c[w])
    BY <1>2, <2>1
  <2>3. \A e \in Range(c) : Dist(e) <= Dist(c[w])
    BY <1>3, <2>2
  <2>4. CASE Dist(v) >= Dist(c[w])
    <3>1. t = c
      BY <1>1, <1>6, <2>4
    <3>2. \A e \in Range(c) : Dist(e) <= Dist(v)
      <4> SUFFICES ASSUME NEW e \in Range(c) PROVE Dist(e) <= Dist(v)
        OBVIOUS
      <4>1. e \in Nodes /\ c[w] \in Nodes
        BY <1>3, <2>2
      <4> QED BY <1>4, <2>3, <2>4, <4>1
    <3>3. NearestOf(t, V \cup {v})
      BY <2>1, <3>1, <3>2 DEF NearestOf
    <3> QED BY <3>1, <3>3 DEF t
  <2>5. CASE ~(Dist(v) >= Dist(c[w]))
    <3>1. /\ t \in Seq(Nodes) /\ Len(t) = Len(c) /\ DOMAIN t = DOMAIN c /\ t[w] = v
          /\ \A i \in DOMAIN c : i # w => t[i] = c[i]
      BY <1>1, <1>3, <1>6, <2>2, <2>5
    <3>2. Distinct(t)
      BY <1>3, <3>1 DEF NearestOf, Distinct
    <3>3. Range(t) \subseteq Range(c) \cup {v} /\ v \in Range(t)
      BY <1>3, <2>2, <3>1 DEF Range
    <3>4. \A u \in Range(c) : u = c[w] \/ u \in Range(t)
      BY <1>3, <3>1 DEF Range
    <3>5. \A e \in Range(t) : Dist(e) <= Dist(c[w])
      BY <1>3, <1>4, <2>2, <2>3, <2>5, <3>3
    <3>6. ASSUME NEW u \in (V \cup {v}) \ Range(t), NEW e \in Range(t) PROVE Dist(e) <= Dist(u)
      <4>1. CASE u = c[w]
        BY <3>5, <4>1
      <4>2. CASE u # c[w]
        <5>1. u \in V \ Range(c)
          BY <3>3, <3>4, <3>6, <4>2
        <5>2. Dist(c[w]) <= Dist(u) /\ u \in Nodes /\ c[w] \in Nodes /\ e \in Nodes
          BY <1>3, <2>2, <3>1, <3>3, <5>1 DEF NearestOf
        <5> QED BY <1>4, <3>5, <5>2
      <4> QED BY <4>1, <4>2
    <3>7. NearestOf(t, V \cup {v})
      BY <2>1, <3>1, <3>2, <3>3, <3>6 DEF NearestOf
    <3> QED BY <3>1, <3>7 DEF t
  <2> QED BY <2>4, <2>5
<1> QED BY <1>5, <1>6

\* What can be expanded is a candidate; nothing can when all are expanded.
LEMMA FrontierIs ==
  ASSUME opt \in Configs, NEW x, x.cand \in Seq(Nodes)
  PROVE  /\ Frontier(x) \in Seq(Nodes) /\ (Frontier(x) = <<>> => AllExpanded(x))
         /\ Frontier(x) # <<>> => Head(Frontier(x)) \in Nodes
<1> DEFINE c == x.cand
           I == Open(x)
           B == Nearer(c, dist, I)
<1>1. I \in SUBSET DOMAIN c /\ I \in SUBSET Int
  <2>1. DOMAIN c = 1 .. Len(c) /\ Len(c) \in Nat
    OBVIOUS
  <2> QED BY <2>1 DEF Open
<1>2. \A k \in I : dist[c[k]] \in Int
  <2>1. \A k \in I : c[k] \in Nodes
    BY <1>1
  <2> QED BY <2>1, ConfigIs DEF Dist
<1>3. StrictOrder(I, B)
  <2> HIDE DEF c, I
  <2> QED BY <1>1, <1>2, NearerOrder
<1>4. TakenFrom(Nodes, c, I, B, Taken(c, I, B))
  <2>1. c \in Seq(Nodes)
    OBVIOUS
  <2> HIDE DEF c, I, B
  <2> QED BY <1>1, <1>3, <2>1, TakenIs
<1>5. TakenFrom(Nodes, c, I, B, Frontier(x))
  BY <1>4 DEF Frontier
<1>6. Frontier(x) \in Seq(Nodes) /\ (Frontier(x) = <<>> <=> I = {})
  BY <1>5 DEF TakenFrom
<1>7. I = {} => AllExpanded(x)
  BY DEF Open, AllExpanded, Range
<1>8. Frontier(x) # <<>> => Head(Frontier(x)) \in Nodes
  BY <1>6, HeadTailProperties
<1> QED BY <1>6, <1>7, <1>8

LEMMA PickIs ==
  ASSUME opt \in Configs, NEW x, x.cand \in Seq(Nodes), x.expands \in Nat
  PROVE  /\ pick_batch(x, opt.ebatch) \in Seq(Nodes)
         /\ pick_batch(x, opt.ebatch) = <<>> /\ opt.iters = 0 => AllExpanded(x)
<1> DEFINE m == IF opt.iters = 0 THEN opt.ebatch ELSE Min({opt.ebatch, opt.iters - x.expands})
           f == Frontier(x)
           n == IF m < Len(f) THEN m ELSE Len(f)
<1>1. f \in Seq(Nodes) /\ (f = <<>> => AllExpanded(x))
  BY FrontierIs
<1>2. opt.ebatch \in Nat \ {0} /\ opt.iters \in Nat
  BY ConfigIs
<1>3. m \in Int
  <2>1. CASE opt.iters = 0
    BY <1>2, <2>1
  <2>2. CASE opt.iters # 0
    <3> DEFINE M == {opt.ebatch, opt.iters - x.expands}
    <3>1. M \in SUBSET Int /\ M # {}
      BY <1>2
    <3>2. IsFiniteSet(M)
      <4>1. IsFiniteSet({opt.ebatch} \cup {opt.iters - x.expands})
        BY FS_Singleton, FS_Union
      <4>2. M = {opt.ebatch} \cup {opt.iters - x.expands}
        OBVIOUS
      <4> QED BY <4>1, <4>2
    <3>3. Min(M) \in M
      <4> HIDE DEF M
      <4> QED BY <3>1, <3>2, MinIn
    <3> QED BY <2>2, <3>1, <3>3
  <2> QED BY <2>1, <2>2
<1>4. pick_batch(x, opt.ebatch) = SubSeq(f, 1, n)
  BY DEF pick_batch, Cut
<1> HIDE DEF m, f
<1>5. Len(f) \in Nat /\ n \in Int /\ n <= Len(f) /\ \A i \in 1 .. n : f[i] \in Nodes
  BY <1>1, <1>3
<1>6. /\ SubSeq(f, 1, n) \in Seq(Nodes)
      /\ Len(SubSeq(f, 1, n)) = IF 1 <= n THEN n - 1 + 1 ELSE 0
  <2> HIDE DEF n
  <2> QED BY <1>5, SubSeqProperties
<1>7. ASSUME SubSeq(f, 1, n) = <<>>, opt.iters = 0 PROVE AllExpanded(x)
  <2>1. m = opt.ebatch
    BY <1>7 DEF m
  <2>2. n = 0 \/ n < 0
    BY <1>5, <1>6, <1>7
  <2>3. Len(f) = 0
    BY <1>2, <1>5, <2>1, <2>2
  <2> QED BY <1>1, <2>3
<1> QED BY <1>4, <1>6, <1>7

\* The nodes among the neighbours, at some places.
LEMMA NodesAt ==
  ASSUME opt \in Configs, NEW v \in Nodes, NEW I \in SUBSET DOMAIN Row(v), \A k \in I : Row(v)[k] \in Nodes
  PROVE  /\ At(Row(v), I) \in Seq(Nodes)
         /\ \A e \in Range(At(Row(v), I)) : \E k \in I : e = Row(v)[k]
         /\ (\A j, k \in I : Row(v)[j] = Row(v)[k] => j = k) => Distinct(At(Row(v), I))
<1>1. Row(v) \in Seq(Nat)
  BY ConfigIs
<1> DEFINE r == Row(v)
           t == At(r, I)
<1> HIDE DEF r
<1>2. /\ t \in Seq(Nat) /\ (\A e \in Range(t) : \E k \in I : e = r[k])
      /\ (\A j, k \in I : r[j] = r[k] => j = k) => Distinct(t)
  BY <1>1, AtIs DEF r
<1> HIDE DEF t
<1>3. Range(t) \subseteq Nodes
  BY <1>2 DEF r
<1>4. t \in Seq(Nodes)
  BY <1>2, <1>3, SeqInto
<1> QED BY <1>2, <1>4 DEF t, r

LEMMA FreshIs ==
  ASSUME opt \in Configs, NEW v \in Nodes, NEW seen \in SUBSET Nodes
  PROVE  /\ Fresh(v, seen) \in Seq(Nodes) /\ Distinct(Fresh(v, seen)) /\ Range(Fresh(v, seen)) \subseteq Nodes
         /\ Range(Fresh(v, seen)) \cap seen = {} /\ Range(Fresh(v, seen)) \subseteq Range(Row(v))
<1> DEFINE r == Row(v)
           I == FreshAt(r, seen)
<1>1. I \in SUBSET DOMAIN r /\ \A k \in I : r[k] \in Nodes \ seen
  BY DEF FreshAt
<1>2. \A j, k \in I : r[j] = r[k] => j = k
  <2> SUFFICES ASSUME NEW j \in I, NEW k \in I, r[j] = r[k], j # k PROVE FALSE
    OBVIOUS
  <2>1. r \in Seq(Nat)
    BY ConfigIs
  <2> HIDE DEF r
  <2>2. j \in Nat \ {0} /\ k \in Nat \ {0}
    BY <1>1, <2>1
  <2>3. j \in 1 .. k - 1 \/ k \in 1 .. j - 1
    BY <2>2
  <2> QED BY <2>3 DEF FreshAt
<1> HIDE DEF I
<1>3. /\ At(r, I) \in Seq(Nodes) /\ Distinct(At(r, I))
      /\ \A e \in Range(At(r, I)) : \E k \in I : e = r[k]
  BY <1>1, <1>2, NodesAt
<1>4. Fresh(v, seen) = At(r, I)
  BY DEF Fresh, I
<1>5. Range(At(r, I)) \cap seen = {} /\ Range(At(r, I)) \subseteq Nodes /\ Range(At(r, I)) \subseteq Range(r)
  BY <1>1, <1>3 DEF Range
<1> QED BY <1>3, <1>4, <1>5

-----------------------------------------------------------------------------
(* What waits.                                                             *)

LEMMA IdsIs ==
  ASSUME NEW s \in Seq(Pend)
  PROVE  /\ Ids(s) \in Seq(Nodes) /\ DOMAIN Ids(s) = DOMAIN s /\ Len(Ids(s)) = Len(s)
         /\ \A i \in DOMAIN s : Ids(s)[i] = s[i].id /\ s[i].id \in Range(Ids(s)) /\ s[i].id \in Nodes
         /\ \A e \in Range(Ids(s)) : \E i \in DOMAIN s : e = s[i].id
         /\ Range(Ids(s)) \subseteq Nodes /\ (Range(Ids(s)) = {} <=> s = <<>>)
<1> DEFINE t == Ids(s)
<1>1. t = [i \in DOMAIN s |-> s[i].id]
  BY DEF Ids
<1>2. DOMAIN s = 1 .. Len(s) /\ Len(s) \in Nat /\ \A i \in DOMAIN s : s[i] \in Pend
  OBVIOUS
<1>3. \A i \in DOMAIN s : s[i].id \in Nodes
  BY <1>2 DEF Pend
<1> HIDE DEF t
<1>4. t \in Seq(Nodes) /\ DOMAIN t = DOMAIN s /\ Len(t) = Len(s)
  <2>1. t \in [1 .. Len(s) -> Nodes]
    BY <1>1, <1>2, <1>3
  <2> QED BY <1>2, <2>1
<1>5. \A i \in DOMAIN s : t[i] = s[i].id
  BY <1>1
<1>6. /\ Range(t) \subseteq Nodes /\ (Range(t) = {} <=> t = <<>>)
      /\ (\A i \in DOMAIN t : t[i] \in Range(t)) /\ \A e \in Range(t) : \E i \in DOMAIN t : e = t[i]
  BY <1>4, Items
<1>7. t = <<>> <=> s = <<>>
  BY <1>4
<1> QED BY <1>3, <1>4, <1>5, <1>6, <1>7 DEF t

LEMMA NoIds ==
  Range(<<>>) = {} /\ Ids(<<>>) = <<>> /\ Distinct(<<>>)
BY DEF Range, Ids, Distinct

\* Ids are listed once when the list has each at one place.
LEMMA IdsOnce ==
  ASSUME NEW s \in Seq(Pend)
  PROVE  Distinct(Ids(s)) <=> \A i, j \in DOMAIN s : s[i].id = s[j].id => i = j
BY IdsIs DEF Distinct

\* Some places of what waits.
LEMMA WaitingAt ==
  ASSUME NEW s \in Seq(Pend), NEW I \in SUBSET DOMAIN s, Distinct(Ids(s))
  PROVE  /\ At(s, I) \in Seq(Pend) /\ Distinct(Ids(At(s, I)))
         /\ \A v : v \in Range(Ids(At(s, I))) <=> \E k \in I : v = s[k].id
         /\ s = <<>> => At(s, I) = <<>>
<1> DEFINE t == At(s, I)
<1>1. /\ t \in Seq(Pend) /\ (t = <<>> <=> I = {})
      /\ \A k \in I : s[k] \in Range(t)
      /\ \A e \in Range(t) : \E k \in I : e = s[k]
      /\ (\A j, k \in I : s[j] = s[k] => j = k) => Distinct(t)
  BY AtIs
<1> HIDE DEF t
<1>2. \A j, k \in DOMAIN s : s[j].id = s[k].id => j = k
  BY IdsOnce
<1>3. Distinct(t)
  BY <1>1, <1>2
<1>4. \A i \in DOMAIN t : \E k \in I : t[i] = s[k]
  BY <1>1 DEF Range
<1>5. Distinct(Ids(t))
  <2>1. ASSUME NEW i \in DOMAIN t, NEW j \in DOMAIN t, t[i].id = t[j].id PROVE i = j
    <3>1. PICK k \in I : t[i] = s[k]
      BY <1>4
    <3>2. PICK l \in I : t[j] = s[l]
      BY <1>4
    <3>3. k = l
      BY <1>2, <2>1, <3>1, <3>2
    <3> QED BY <1>3, <3>1, <3>2, <3>3 DEF Distinct
  <2> QED BY <1>1, <2>1, IdsOnce
<1>6. ASSUME NEW v, v \in Range(Ids(t)) PROVE \E k \in I : v = s[k].id
  <2>1. PICK i \in DOMAIN t : v = t[i].id
    BY <1>1, <1>6, IdsIs
  <2> QED BY <1>4, <2>1
<1>7. ASSUME NEW k \in I PROVE s[k].id \in Range(Ids(t))
  <2>1. PICK i \in DOMAIN t : s[k] = t[i]
    BY <1>1 DEF Range
  <2> QED BY <1>1, <2>1, IdsIs
<1>8. s = <<>> => t = <<>>
  BY <1>1
<1> QED BY <1>1, <1>5, <1>6, <1>7, <1>8 DEF t

\* What is resident and what stays are the queue, in two parts.
LEMMA SplitIs ==
  ASSUME NEW s \in Seq(Pend), NEW R, Distinct(Ids(s))
  PROVE  /\ StillPending(s, R) \in Seq(Pend) /\ Distinct(Ids(StillPending(s, R)))
         /\ Ready(s, R) \in Seq(Nodes) /\ Distinct(Ready(s, R))
         /\ Range(Ids(StillPending(s, R))) \cap Range(Ready(s, R)) = {}
         /\ Range(Ids(s)) = Range(Ids(StillPending(s, R))) \cup Range(Ready(s, R))
         /\ s = <<>> => StillPending(s, R) = <<>> /\ Ready(s, R) = <<>>
<1> DEFINE I == {i \in DOMAIN s : ~(s[i].pages \subseteq R)}
           J == {i \in DOMAIN s : s[i].pages \subseteq R}
           a == At(s, I)
           b == At(s, J)
<1>1. I \in SUBSET DOMAIN s /\ J \in SUBSET DOMAIN s /\ I \cap J = {} /\ DOMAIN s = I \cup J
  OBVIOUS
<1>2. StillPending(s, R) = a /\ Ready(s, R) = Ids(b)
  BY DEF StillPending, Ready
<1> HIDE DEF I, J
<1>3. /\ a \in Seq(Pend) /\ Distinct(Ids(a)) /\ (s = <<>> => a = <<>>)
      /\ \A v : v \in Range(Ids(a)) <=> \E k \in I : v = s[k].id
  BY <1>1, WaitingAt
<1>4. /\ b \in Seq(Pend) /\ Distinct(Ids(b)) /\ (s = <<>> => b = <<>>)
      /\ \A v : v \in Range(Ids(b)) <=> \E k \in J : v = s[k].id
  BY <1>1, WaitingAt
<1> HIDE DEF a, b
<1>5. Ids(b) \in Seq(Nodes) /\ (b = <<>> => Ids(b) = <<>>)
  BY <1>4, IdsIs
<1>6. \A j, k \in DOMAIN s : s[j].id = s[k].id => j = k
  BY IdsOnce
<1>7. Range(Ids(a)) \cap Range(Ids(b)) = {}
  BY <1>1, <1>3, <1>4, <1>6
<1>8. \A v : v \in Range(Ids(s)) <=> v \in Range(Ids(a)) \cup Range(Ids(b))
  <2>1. \A v : v \in Range(Ids(s)) <=> \E k \in DOMAIN s : v = s[k].id
    BY IdsIs
  <2> QED BY <1>1, <1>3, <1>4, <2>1
<1> QED BY <1>2, <1>3, <1>4, <1>5, <1>7, <1>8

\* Queues without a common vertex, joined.
LEMMA JoinIs ==
  ASSUME NEW s \in Seq(Pend), NEW t \in Seq(Pend), Distinct(Ids(s)), Distinct(Ids(t)),
         Range(Ids(s)) \cap Range(Ids(t)) = {}
  PROVE  /\ s \o t \in Seq(Pend) /\ Distinct(Ids(s \o t))
         /\ Range(Ids(s \o t)) = Range(Ids(s)) \cup Range(Ids(t))
<1> DEFINE u == s \o t
           m == Len(s)
<1>1. /\ u \in Seq(Pend) /\ m \in Nat /\ Len(t) \in Nat /\ DOMAIN u = 1 .. m + Len(t)
      /\ DOMAIN s = 1 .. m /\ DOMAIN t = 1 .. Len(t)
      /\ \A i \in DOMAIN s : u[i] = s[i]
      /\ \A i \in DOMAIN u : i \notin DOMAIN s => u[i] = t[i - m] /\ i - m \in DOMAIN t
      /\ \A i \in DOMAIN t : u[i + m] = t[i] /\ i + m \in DOMAIN u
  OBVIOUS
<1> HIDE DEF u, m
<1>2. /\ \A i \in DOMAIN s : s[i].id \in Range(Ids(s))
      /\ \A e \in Range(Ids(s)) : \E i \in DOMAIN s : e = s[i].id
      /\ \A i \in DOMAIN t : t[i].id \in Range(Ids(t))
      /\ \A e \in Range(Ids(t)) : \E i \in DOMAIN t : e = t[i].id
      /\ \A i \in DOMAIN u : u[i].id \in Range(Ids(u))
      /\ \A e \in Range(Ids(u)) : \E i \in DOMAIN u : e = u[i].id
  BY <1>1, IdsIs
<1>3. /\ \A i, j \in DOMAIN s : s[i].id = s[j].id => i = j
      /\ \A i, j \in DOMAIN t : t[i].id = t[j].id => i = j
  BY IdsOnce
<1>4. ASSUME NEW i \in DOMAIN u, NEW j \in DOMAIN u, u[i].id = u[j].id PROVE i = j
  <2>1. i \in Int /\ j \in Int /\ m \in Int
    BY <1>1
  <2>2. CASE i \in DOMAIN s /\ j \in DOMAIN s
    BY <1>1, <1>3, <1>4, <2>2
  <2>3. CASE i \notin DOMAIN s /\ j \notin DOMAIN s
    <3>1. i - m = j - m
      BY <1>1, <1>3, <1>4, <2>3
    <3> QED BY <2>1, <3>1
  <2>4. CASE i \in DOMAIN s /\ j \notin DOMAIN s
    BY <1>1, <1>2, <1>4, <2>4
  <2>5. CASE i \notin DOMAIN s /\ j \in DOMAIN s
    BY <1>1, <1>2, <1>4, <2>5
  <2> QED BY <2>2, <2>3, <2>4, <2>5
<1>5. Distinct(Ids(u))
  BY <1>1, <1>4, IdsOnce
<1>6. Range(Ids(u)) \subseteq Range(Ids(s)) \cup Range(Ids(t))
  <2> SUFFICES ASSUME NEW e \in Range(Ids(u)) PROVE e \in Range(Ids(s)) \cup Range(Ids(t))
    OBVIOUS
  <2>1. PICK i \in DOMAIN u : e = u[i].id
    BY <1>2
  <2>2. CASE i \in DOMAIN s
    BY <1>1, <1>2, <2>1, <2>2
  <2>3. CASE i \notin DOMAIN s
    BY <1>1, <1>2, <2>1, <2>3
  <2> QED BY <2>2, <2>3
<1>7. Range(Ids(s)) \subseteq Range(Ids(u))
  BY <1>1, <1>2
<1>8. Range(Ids(t)) \subseteq Range(Ids(u))
  BY <1>1, <1>2
<1> QED BY <1>1, <1>5, <1>6, <1>7, <1>8 DEF u

\* New vertices, each with the pages it waits for.
LEMMA QueuedIs ==
  ASSUME NEW new \in Seq(Nodes), Distinct(new), NEW w, w \in [DOMAIN new -> Pend],
         \A i \in DOMAIN new : w[i].id = new[i]
  PROVE  w \in Seq(Pend) /\ Distinct(Ids(w)) /\ Ids(w) = new
<1>1. DOMAIN new = 1 .. Len(new) /\ Len(new) \in Nat
  OBVIOUS
<1>2. w \in Seq(Pend) /\ Len(w) = Len(new) /\ DOMAIN w = DOMAIN new
  BY <1>1
<1>3. Ids(w) \in Seq(Nodes) /\ Len(Ids(w)) = Len(w) /\ \A i \in DOMAIN w : Ids(w)[i] = w[i].id
  BY <1>2, IdsIs
<1>4. Ids(w) = new
  <2> DEFINE t == Ids(w)
  <2>1. t \in Seq(Nodes) /\ Len(t) = Len(new) /\ \A i \in 1 .. Len(t) : t[i] = new[i]
    BY <1>1, <1>2, <1>3
  <2> HIDE DEF t
  <2>2. t = new
    BY <2>1, SeqEqual
  <2> QED BY <2>2 DEF t
<1> QED BY <1>2, <1>4

\* The first one leaves.
LEMMA NextWaiting ==
  ASSUME NEW s \in Seq(Pend), s # <<>>, Distinct(Ids(s))
  PROVE  /\ Head(s).id \in Range(Ids(s)) /\ Head(s).id \in Nodes
         /\ Tail(s) \in Seq(Pend) /\ Distinct(Ids(Tail(s)))
         /\ Range(Ids(Tail(s))) = Range(Ids(s)) \ {Head(s).id}
<1>1. /\ Tail(s) \in Seq(Pend) /\ Range(s) = Range(Tail(s)) \cup {Head(s)} /\ Head(s) \in Range(s)
      /\ Distinct(s) => Distinct(Tail(s)) /\ Head(s) \notin Range(Tail(s))
  BY TailIs
<1> DEFINE t == Tail(s)
           h == Head(s)
<1> HIDE DEF t, h
<1>2. \A i, j \in DOMAIN s : s[i].id = s[j].id => i = j
  BY IdsOnce
<1>3. Distinct(s)
  BY <1>2 DEF Distinct
<1>4. /\ t \in Seq(Pend) /\ Range(s) = Range(t) \cup {h} /\ h \in Range(s)
      /\ Distinct(t) /\ h \notin Range(t)
  BY <1>1, <1>3 DEF t, h
<1>5. \A a, b \in Range(s) : a.id = b.id => a = b
  BY <1>2 DEF Range
<1>6. /\ \A v : v \in Range(Ids(s)) <=> \E a \in Range(s) : v = a.id
      /\ \A v : v \in Range(Ids(t)) <=> \E a \in Range(t) : v = a.id
  <2>1. \A v : v \in Range(Ids(s)) <=> \E i \in DOMAIN s : v = s[i].id
    BY IdsIs
  <2>2. \A v : v \in Range(Ids(t)) <=> \E i \in DOMAIN t : v = t[i].id
    BY <1>4, IdsIs
  <2> QED BY <2>1, <2>2 DEF Range
<1>7. Distinct(Ids(t))
  <2>1. ASSUME NEW i \in DOMAIN t, NEW j \in DOMAIN t, t[i].id = t[j].id PROVE i = j
    <3>1. t[i] \in Range(s) /\ t[j] \in Range(s)
      BY <1>4 DEF Range
    <3>2. t[i] = t[j]
      BY <1>5, <2>1, <3>1
    <3> QED BY <1>4, <3>2 DEF Distinct
  <2> QED BY <1>4, <2>1, IdsOnce
<1>8. Range(Ids(t)) = Range(Ids(s)) \ {h.id} /\ h.id \in Range(Ids(s))
  BY <1>4, <1>5, <1>6
<1>9. h.id \in Nodes
  BY <1>8, IdsIs
<1> QED BY <1>4, <1>7, <1>8, <1>9 DEF t, h

-----------------------------------------------------------------------------
(* Steps of a search.                                                      *)

\* y differs from x in the fields S alone.
Keeps(x, y, S) == DOMAIN x = Fields /\ DOMAIN y = Fields /\ \A f \in Fields \ S : y[f] = x[f]

\* Vertices of N are seen, and listed, or dropped when fills are frozen.
LEMMA OnceListed ==
  ASSUME NEW x, NEW y, SearchTypes(x), SearchTypes(y), Once(x),
         NEW N \in SUBSET Nodes, N \cap x.seen = {}, y.seen = x.seen \cup N, y.scored = x.scored,
         Distinct(Ids(y.pend)), Distinct(y.hits), PendIds(y) \cap HitIds(y) = {},
         PendIds(y) \cup HitIds(y) \subseteq PendIds(x) \cup HitIds(x) \cup N,
         ~Frozen => PendIds(x) \cup HitIds(x) \cup N \subseteq PendIds(y) \cup HitIds(y)
  PROVE  Once(y)
<1> DEFINE X == PendIds(x) \cup HitIds(x)
           Y == PendIds(y) \cup HitIds(y)
<1>1. /\ \A v \in Nodes : x.scored[v] = 0 \/ (x.scored[v] = 1 /\ v \notin X)
      /\ \A v \in Nodes : x.scored[v] = 1 \/ v \in X => v \in x.seen
      /\ ~Frozen => \A v \in x.seen : x.scored[v] = 1 \/ v \in X
  BY DEF Once
<1>2. Y \subseteq X \cup N /\ (~Frozen => X \cup N \subseteq Y)
  OBVIOUS
<1> HIDE DEF X, Y
<1>3. \A v \in Nodes : x.scored[v] = 0 \/ (x.scored[v] = 1 /\ v \notin Y)
  <2> SUFFICES ASSUME NEW v \in Nodes, x.scored[v] # 0 PROVE x.scored[v] = 1 /\ v \notin Y
    OBVIOUS
  <2>1. x.scored[v] = 1 /\ v \notin X /\ v \in x.seen
    BY <1>1
  <2> QED BY <1>2, <2>1
<1>4. \A v \in Nodes : x.scored[v] = 1 \/ v \in Y => v \in y.seen
  BY <1>1, <1>2
<1>5. ~Frozen => \A v \in y.seen : x.scored[v] = 1 \/ v \in Y
  BY <1>1, <1>2
<1> QED BY <1>3, <1>4, <1>5 DEF Once, Y

\* One vertex is scored.
LEMMA OnceScored ==
  ASSUME opt \in Configs, NEW x, NEW y, SearchTypes(x), SearchTypes(y), Once(x), Best(x),
         NEW v \in Nodes, x.scored[v] = 0, y.seen = x.seen \cup {v},
         y.scored = [x.scored EXCEPT ![v] = @ + 1], y.cand = insert_cand(x.cand, v),
         Distinct(Ids(y.pend)), Distinct(y.hits), PendIds(y) \cap HitIds(y) = {},
         PendIds(y) \cup HitIds(y) = (PendIds(x) \cup HitIds(x)) \ {v}
  PROVE  Once(y) /\ Best(y)
<1> DEFINE X == PendIds(x) \cup HitIds(x)
           Y == PendIds(y) \cup HitIds(y)
<1>1. /\ \A u \in Nodes : x.scored[u] = 0 \/ (x.scored[u] = 1 /\ u \notin X)
      /\ \A u \in Nodes : x.scored[u] = 1 \/ u \in X => u \in x.seen
      /\ ~Frozen => \A u \in x.seen : x.scored[u] = 1 \/ u \in X
  BY DEF Once
<1>2. Y = X \ {v}
  OBVIOUS
<1>3. x.scored \in [Nodes -> Nat] /\ x.seen \subseteq Nodes
  BY DEF SearchTypes
<1>4. y.scored[v] = 1 /\ \A u \in Nodes : u # v => y.scored[u] = x.scored[u]
  BY <1>3
<1> HIDE DEF X, Y
<1>5. \A u \in Nodes : y.scored[u] = 0 \/ (y.scored[u] = 1 /\ u \notin Y)
  BY <1>1, <1>2, <1>4
<1>6. \A u \in Nodes : y.scored[u] = 1 \/ u \in Y => u \in y.seen
  BY <1>1, <1>2, <1>4
<1>7. ~Frozen => \A u \in y.seen : y.scored[u] = 1 \/ u \in Y
  BY <1>1, <1>2, <1>3, <1>4
<1>8. Once(y)
  BY <1>5, <1>6, <1>7 DEF Once, Y
<1>9. ScoredSet(y) = ScoredSet(x) \cup {v}
  BY <1>4 DEF ScoredSet
<1>10. x.cand \in Seq(Nodes) /\ NearestOf(x.cand, ScoredSet(x)) /\ ScoredSet(x) \in SUBSET Nodes
  BY DEF SearchTypes, Best, ScoredSet
<1>11. v \notin ScoredSet(x)
  BY DEF ScoredSet
<1>12. NearestOf(y.cand, ScoredSet(x) \cup {v})
  BY <1>10, <1>11, InsertIs
<1> QED BY <1>8, <1>9, <1>12 DEF Best

LEMMA ScoredIs ==
  ASSUME NEW x, DOMAIN x = Fields, NEW v
  PROVE  /\ Keeps(x, Scored(x, v), {"cand", "scored"})
         /\ Scored(x, v).cand = insert_cand(x.cand, v)
         /\ Scored(x, v).scored = [x.scored EXCEPT ![v] = @ + 1]
BY DEF Scored, Keeps, Fields

\* The next one of the list is scored.
LEMMA ScoresHeadIs ==
  ASSUME NEW x, DOMAIN x = Fields
  PROVE  LET y == ScoresHead(x)
         IN  /\ Keeps(x, y, {"cand", "scored", "hits", "at"})
             /\ y.cand = insert_cand(x.cand, Head(x.hits)) /\ y.hits = Tail(x.hits)
             /\ y.scored = [x.scored EXCEPT ![Head(x.hits)] = @ + 1]
             /\ y.at = IF Len(x.hits) = 1 THEN x.back ELSE x.at
<1> DEFINE h == Head(x.hits)
           s == Scored(x, h)
           y == ScoresHead(x)
<1> HIDE DEF h
<1>0. Keeps(x, s, {"cand", "scored"}) /\ s.cand = insert_cand(x.cand, h) /\ s.scored = [x.scored EXCEPT ![h] = @ + 1]
  BY ScoredIs
<1>1. /\ DOMAIN s = Fields /\ \A f \in Fields \ {"cand", "scored"} : s[f] = x[f]
      /\ s.cand = insert_cand(x.cand, Head(x.hits))
      /\ s.scored = [x.scored EXCEPT ![Head(x.hits)] = @ + 1]
  BY <1>0 DEF Keeps, h
<1>2. y = [s EXCEPT !.hits = Tail(@), !.at = IF Len(x.hits) = 1 THEN x.back ELSE @]
  BY DEF ScoresHead, h
<1> HIDE DEF s, y
<1>3. s.hits = x.hits /\ s.at = x.at
  BY <1>1 DEF Fields
<1>4. DOMAIN y = Fields /\ \A f \in Fields \ {"cand", "scored", "hits", "at"} : y[f] = x[f]
  BY <1>1, <1>2
<1>5. y.hits = Tail(x.hits) /\ y.at = (IF Len(x.hits) = 1 THEN x.back ELSE x.at)
      /\ y.cand = s.cand /\ y.scored = s.scored
  BY <1>1, <1>2, <1>3 DEF Fields
<1> QED BY <1>1, <1>4, <1>5 DEF Keeps, y

LEMMA ScoredTypes ==
  ASSUME opt \in Configs, NEW x, SearchTypes(x), Best(x), NEW v \in Nodes, x.scored[v] = 0
  PROVE  insert_cand(x.cand, v) \in Seq(Nodes) /\ [x.scored EXCEPT ![v] = @ + 1] \in [Nodes -> Nat]
<1>1. x.cand \in Seq(Nodes) /\ x.scored \in [Nodes -> Nat]
  BY DEF SearchTypes
<1>2. v \notin ScoredSet(x) /\ ScoredSet(x) \in SUBSET Nodes /\ NearestOf(x.cand, ScoredSet(x))
  BY DEF ScoredSet, Best
<1>3. insert_cand(x.cand, v) \in Seq(Nodes)
  BY <1>1, <1>2, InsertIs
<1>4. [x.scored EXCEPT ![v] = @ + 1] \in [Nodes -> Nat]
  BY <1>1
<1> QED BY <1>3, <1>4

\* A list is scored from its head, wherever the search came from.
LEMMA HeadScored ==
  ASSUME NEW x, NEW y, SearchInv(x), x.at \in {"insert", "score"}, y = ScoresHead(x)
  PROVE  SearchInv(y)
<1>1. opt \in Configs /\ SearchTypes(x) /\ Places(x) /\ Turns(x) /\ DOMAIN x = Fields
  BY DEF SearchInv, Control, SearchTypes
<1>2. \/ Host /\ x.at = "insert" /\ x.back = "host"
      \/ Paged /\ Policy = "P3" /\ x.at = "insert" /\ x.back \in {"P3", "hop", "end"}
      \/ Paged /\ Policy = "P2" /\ x.at = "score" /\ x.back \in {"pick", "bound"}
      \/ Paged /\ Policy \in {"P0", "P1"} /\ x.at = "score" /\ x.back = Policy
  BY <1>1 DEF Places, Turns, InHost, InP3, Host, Paged
<1>3. Algo # "beam" /\ HitsHeld(x) /\ PendHeld(x) /\ Once(x) /\ Best(x) /\ Ended(x)
  BY <1>2 DEF SearchInv, Lists, Host, Paged
<1>4. x.hits \in Seq(Nodes) /\ x.hits # <<>>
  BY <1>1, <1>3 DEF HitsHeld, SearchTypes
<1> DEFINE v == Head(x.hits)
           t == Tail(x.hits)
<1>5. /\ v \in Range(x.hits) /\ v \in Nodes /\ t \in Seq(Nodes) /\ (t = <<>> <=> Len(x.hits) = 1)
      /\ Distinct(t) /\ v \notin Range(t) /\ Range(x.hits) = Range(t) \cup {v}
  BY <1>3, <1>4, TailIs DEF Once
<1>6. /\ Keeps(x, y, {"cand", "scored", "hits", "at"})
      /\ y.cand = insert_cand(x.cand, v) /\ y.hits = t
      /\ y.scored = [x.scored EXCEPT ![v] = @ + 1]
      /\ y.at = IF Len(x.hits) = 1 THEN x.back ELSE x.at
  BY <1>1, ScoresHeadIs
<1> HIDE DEF v, t
<1>7. /\ y.then = x.then /\ y.back = x.back /\ y.seen = x.seen /\ y.expanded = x.expanded
      /\ y.expands = x.expands /\ y.pend = x.pend /\ y.batch = x.batch /\ y.want = x.want
      /\ y.miss = x.miss /\ DOMAIN y = Fields
  BY <1>6 DEF Keeps, Fields
<1>8. x.scored[v] = 0 /\ v \in x.seen /\ v \notin PendIds(x)
  BY <1>3, <1>5 DEF Once, HitIds
<1>9. SearchTypes(y)
  <2>1. y.cand \in Seq(Nodes) /\ y.scored \in [Nodes -> Nat]
    BY <1>1, <1>3, <1>5, <1>6, <1>8, ScoredTypes
  <2> QED BY <1>1, <1>5, <1>6, <1>7, <2>1 DEF SearchTypes
<1>10. Once(y) /\ Best(y)
  <2>1. y.seen = x.seen \cup {v}
    BY <1>7, <1>8
  <2>2. PendIds(y) = PendIds(x) /\ HitIds(y) = HitIds(x) \ {v}
    BY <1>5, <1>6, <1>7 DEF PendIds, HitIds
  <2>3. Distinct(Ids(y.pend)) /\ Distinct(y.hits) /\ PendIds(y) \cap HitIds(y) = {}
        /\ PendIds(y) \cup HitIds(y) = (PendIds(x) \cup HitIds(x)) \ {v}
    BY <1>3, <1>5, <1>6, <1>7, <1>8, <2>2 DEF Once
  <2> QED BY <1>1, <1>3, <1>5, <1>6, <1>8, <1>9, <2>1, <2>3, OnceScored
<1>11. Places(y)
  BY <1>2, <1>6 DEF Places, InHost, InP3
<1>12. Turns(y)
  BY <1>1, <1>2, <1>6, <1>7 DEF Turns
<1>13. HitsHeld(y)
  BY <1>2, <1>5, <1>6 DEF HitsHeld
<1>14. PendHeld(y)
  BY <1>3, <1>7 DEF PendHeld
<1>15. Ended(y)
  BY <1>2, <1>3, <1>6, <1>7 DEF Ended
<1>16. Unbegun(y) /\ Answer(y)
  BY <1>2, <1>6 DEF Unbegun, Answer
<1> QED BY <1>1, <1>9, <1>10, <1>11, <1>12, <1>13, <1>14, <1>15, <1>16 DEF SearchInv, Control, Lists

\* A list is set up to be scored.
LEMMA ScoresIs ==
  ASSUME NEW x, DOMAIN x = Fields, NEW ids, NEW how, NEW back
  PROVE  /\ Keeps(x, Scores(x, ids, how, back), {"hits", "at", "back"})
         /\ ids = <<>> => Scores(x, ids, how, back).at = back /\ Scores(x, ids, how, back).hits = x.hits
         /\ ids # <<>> => /\ Scores(x, ids, how, back).at = how /\ Scores(x, ids, how, back).hits = ids
                          /\ Scores(x, ids, how, back).back = back
<1> DEFINE y == Scores(x, ids, how, back)
<1>1. CASE ids = <<>>
  <2>1. y = [x EXCEPT !.at = back]
    BY <1>1 DEF Scores
  <2> HIDE DEF y
  <2>2. Keeps(x, y, {"hits", "at", "back"}) /\ y.at = back /\ y.hits = x.hits
    BY <2>1 DEF Keeps, Fields
  <2> QED BY <1>1, <2>2 DEF y
<1>2. CASE ids # <<>>
  <2>1. y = [x EXCEPT !.hits = ids, !.at = how, !.back = back]
    BY <1>2 DEF Scores
  <2> HIDE DEF y
  <2>2. Keeps(x, y, {"hits", "at", "back"}) /\ y.at = how /\ y.hits = ids /\ y.back = back
    BY <2>1 DEF Keeps, Fields
  <2> QED BY <1>2, <2>2 DEF y
<1> QED BY <1>1, <1>2

\* Committing a batch, and seeing what it discovers.
LEMMA CommitsIs ==
  ASSUME NEW x, DOMAIN x = Fields, NEW b, NEW new
  PROVE  /\ Keeps(x, Commits(x, b), {"expanded", "expands"})
         /\ Commits(x, b).expands = x.expands + Len(b) /\ Commits(x, b).expanded = x.expanded \cup Range(b)
         /\ Keeps(x, Sees(x, new), {"seen"}) /\ Sees(x, new).seen = x.seen \cup Range(new)
         /\ Keeps(x, Sees(Commits(x, b), new), {"expanded", "expands", "seen"})
         /\ Sees(Commits(x, b), new).expands = x.expands + Len(b)
         /\ Sees(Commits(x, b), new).expanded = x.expanded \cup Range(b)
         /\ Sees(Commits(x, b), new).seen = x.seen \cup Range(new)
<1> DEFINE y == Commits(x, b)
           z == Sees(y, new)
           w == Sees(x, new)
<1>1. y = [x EXCEPT !.expanded = @ \cup Range(b), !.expands = @ + Len(b)]
  BY DEF Commits
<1>2. z = [y EXCEPT !.seen = @ \cup Range(new)]
  BY DEF Sees
<1>3. w = [x EXCEPT !.seen = @ \cup Range(new)]
  BY DEF Sees
<1> HIDE DEF y, z, w
<1>4. /\ DOMAIN y = Fields /\ \A f \in Fields \ {"expanded", "expands"} : y[f] = x[f]
      /\ y.expands = x.expands + Len(b) /\ y.expanded = x.expanded \cup Range(b) /\ y.seen = x.seen
  BY <1>1 DEF Fields
<1>5. /\ DOMAIN z = Fields /\ (\A f \in Fields \ {"seen"} : z[f] = y[f]) /\ z.seen = x.seen \cup Range(new)
      /\ z.expands = y.expands /\ z.expanded = y.expanded
  BY <1>2, <1>4 DEF Fields
<1>6. DOMAIN w = Fields /\ (\A f \in Fields \ {"seen"} : w[f] = x[f]) /\ w.seen = x.seen \cup Range(new)
  BY <1>3 DEF Fields
<1>7. \A f \in Fields \ {"expanded", "expands", "seen"} : z[f] = x[f]
  BY <1>4, <1>5
<1> QED BY <1>4, <1>5, <1>6, <1>7 DEF Keeps, y, z, w

\* An expansion in host memory, or on demand: the new neighbours are listed.
LEMMA ExpandedKept ==
  ASSUME NEW x, NEW y, NEW how, SearchInv(x), Frontier(x) # <<>>, y = Expanded(x, how),
         (x.at = "host" /\ how = "insert") \/ (x.at \in {"P0", "P1"} /\ how = "score")
  PROVE  SearchInv(y)
<1>1. opt \in Configs /\ SearchTypes(x) /\ Places(x) /\ DOMAIN x = Fields
  BY DEF SearchInv, Control, SearchTypes
<1>2. \/ Host /\ x.at = "host" /\ how = "insert"
      \/ Paged /\ Policy \in {"P0", "P1"} /\ x.at = Policy /\ how = "score"
  BY <1>1 DEF Places, InHost, InP3, Host, Paged
<1>3. Algo # "beam" /\ HitsHeld(x) /\ PendHeld(x) /\ Once(x) /\ Best(x)
  BY <1>2 DEF SearchInv, Lists, Host, Paged
<1>4. x.hits = <<>> /\ HitIds(x) = {} /\ x.pend = <<>> /\ PendIds(x) = {}
  <2>1. x.hits = <<>> /\ x.pend = <<>>
    BY <1>2, <1>3 DEF HitsHeld, PendHeld, Host, Paged
  <2>2. x.hits \in Seq(Nodes) /\ x.pend \in Seq(Pend)
    BY <1>1 DEF SearchTypes
  <2> QED BY <2>1, <2>2, Items, IdsIs DEF HitIds, PendIds
<1> DEFINE v == Head(Frontier(x))
           new == Fresh(v, x.seen)
           b == <<v>>
           z == Sees(Commits(x, b), new)
<1>5. v \in Nodes
  BY <1>1, FrontierIs DEF SearchTypes
<1>6. new \in Seq(Nodes) /\ Distinct(new) /\ Range(new) \subseteq Nodes /\ Range(new) \cap x.seen = {}
  <2> HIDE DEF v
  <2> QED BY <1>1, <1>5, FreshIs DEF SearchTypes
<1>7. y = Scores(z, new, how, x.at)
  BY DEF Expanded
<1> HIDE DEF v, new, b
<1>8. /\ Keeps(x, z, {"expanded", "expands", "seen"})
      /\ z.expands = x.expands + Len(b) /\ z.seen = x.seen \cup Range(new)
  BY <1>1, CommitsIs
<1> HIDE DEF z
<1>9. /\ DOMAIN z = Fields /\ z.cand = x.cand /\ z.scored = x.scored /\ z.pend = x.pend /\ z.hits = x.hits
      /\ z.batch = x.batch /\ z.want = x.want /\ z.miss = x.miss
  BY <1>8 DEF Keeps, Fields
<1>10. /\ Keeps(z, y, {"hits", "at", "back"})
       /\ new = <<>> => y.at = x.at /\ y.hits = x.hits
       /\ new # <<>> => y.at = how /\ y.hits = new /\ y.back = x.at
  BY <1>7, <1>9, ScoresIs
<1>11. /\ DOMAIN y = Fields /\ y.cand = x.cand /\ y.scored = x.scored /\ y.pend = x.pend
       /\ y.batch = x.batch /\ y.want = x.want /\ y.miss = x.miss
       /\ y.expands = x.expands + 1 /\ y.seen = x.seen \cup Range(new) /\ y.hits = new
  <2>1. /\ DOMAIN y = Fields /\ y.cand = z.cand /\ y.scored = z.scored /\ y.pend = z.pend
        /\ y.batch = z.batch /\ y.want = z.want /\ y.miss = z.miss /\ y.expands = z.expands /\ y.seen = z.seen
    BY <1>10 DEF Keeps, Fields
  <2>2. Len(b) = 1
    BY DEF b
  <2> QED BY <1>4, <1>8, <1>9, <1>10, <2>1, <2>2
<1>12. SearchTypes(y)
  BY <1>1, <1>6, <1>11 DEF SearchTypes
<1>13. PendIds(y) = {} /\ HitIds(y) = Range(new)
  BY <1>4, <1>11 DEF PendIds, HitIds
<1>14. Once(y)
  <2>1. Distinct(Ids(y.pend)) /\ Distinct(y.hits)
    BY <1>3, <1>6, <1>11 DEF Once
  <2> QED BY <1>1, <1>3, <1>4, <1>6, <1>11, <1>12, <1>13, <2>1, OnceListed
<1>15. Best(y)
  BY <1>3, <1>11 DEF Best, ScoredSet
<1>16. Places(y) /\ Turns(y)
  BY <1>2, <1>10 DEF Places, Turns, InHost, Host, Paged
<1>17. HitsHeld(y) /\ PendHeld(y)
  BY <1>2, <1>4, <1>10, <1>11 DEF HitsHeld, PendHeld
<1>18. Ended(y) /\ Unbegun(y) /\ Answer(y)
  BY <1>2, <1>10 DEF Ended, Unbegun, Answer
<1> QED BY <1>1, <1>12, <1>14, <1>15, <1>16, <1>17, <1>18 DEF SearchInv, Control, Lists

LEMMA MinTwo ==
  ASSUME NEW a \in Int, NEW b \in Int
  PROVE  Min({a, b}) = IF a < b THEN a ELSE b
<1> DEFINE M == {a, b}
<1>1. M \in SUBSET Int /\ M # {}
  OBVIOUS
<1>2. IsFiniteSet(M)
  <2>1. IsFiniteSet({a} \cup {b})
    BY FS_Singleton, FS_Union
  <2>2. M = {a} \cup {b}
    OBVIOUS
  <2> QED BY <2>1, <2>2
<1>3. Min(M) \in M /\ \A y \in M : Min(M) <= y
  <2> HIDE DEF M
  <2> QED BY <1>1, <1>2, MinIn
<1> DEFINE m == Min(M)
<1> HIDE DEF m
<1>4. (m = a \/ m = b) /\ m <= a /\ m <= b
  BY <1>3 DEF m
<1>5. m = IF a < b THEN a ELSE b
  BY <1>4
<1> QED BY <1>5 DEF m

\* The first k of a list in order.
LEMMA FirstK ==
  ASSUME NEW s \in Seq(Nodes), NEW d, \A v \in Nodes : d[v] \in Int, NEW k \in Nat
  PROVE  LET out == Cut(Sorted(s, d), k)
         IN  /\ out \in Seq(Nodes) /\ Len(out) = Min({k, Len(s)})
             /\ \A i, j \in DOMAIN out : i < j => d[out[i]] <= d[out[j]]
<1> DEFINE t == Sorted(s, d)
           out == Cut(t, k)
<1>1. t \in Seq(Nodes) /\ Len(t) = Len(s) /\ \A i, j \in DOMAIN t : i < j => d[t[i]] <= d[t[j]]
  BY SortedIs
<1> HIDE DEF t
<1>2. /\ out \in Seq(Nodes) /\ Len(out) = (IF k < Len(t) THEN k ELSE Len(t))
      /\ \A i \in DOMAIN out : i \in DOMAIN t /\ out[i] = t[i]
  BY <1>1, CutIs
<1> HIDE DEF out
<1>3. Len(s) \in Int /\ k \in Int
  OBVIOUS
<1>4. Len(out) = Min({k, Len(s)})
  BY <1>1, <1>2, <1>3, MinTwo
<1>5. \A i, j \in DOMAIN out : i < j => d[out[i]] <= d[out[j]]
  BY <1>1, <1>2
<1> QED BY <1>2, <1>4, <1>5 DEF out, t

LEMMA AnsweredIs ==
  ASSUME opt \in Configs, NEW x, DOMAIN x = Fields, x.cand \in Seq(Nodes)
  PROVE  LET y == Answered(x)
         IN  /\ Keeps(x, y, {"at", "out"}) /\ y.at = "done"
             /\ Len(y.out) = Min({opt.k, Len(x.cand)})
             /\ \A i, j \in DOMAIN y.out : i < j => opt.fp[y.out[i]] <= opt.fp[y.out[j]]
<1> DEFINE o == Cut(Sorted(x.cand, opt.fp), opt.k)
           y == Answered(x)
<1>1. (\A v \in Nodes : opt.fp[v] \in Int) /\ opt.k \in Nat
  BY ConfigIs
<1>2. Len(o) = Min({opt.k, Len(x.cand)}) /\ \A i, j \in DOMAIN o : i < j => opt.fp[o[i]] <= opt.fp[o[j]]
  BY <1>1, FirstK
<1>3. y = [x EXCEPT !.at = "done", !.out = o]
  BY DEF Answered
<1> HIDE DEF o, y
<1>4. Keeps(x, y, {"at", "out"}) /\ y.at = "done" /\ y.out = o
  BY <1>3 DEF Keeps, Fields
<1> QED BY <1>2, <1>4 DEF y

\* The same lists and sets.
LEMMA SameLists ==
  ASSUME NEW x, NEW y, y.cand = x.cand, y.scored = x.scored, y.seen = x.seen, y.pend = x.pend, y.hits = x.hits
  PROVE  (Once(x) => Once(y)) /\ (Best(x) => Best(y)) /\ (PendHeld(x) => PendHeld(y))
BY DEF Once, Best, PendHeld, ScoredSet, PendIds, HitIds

\* A search that answers.
LEMMA AnswerKept ==
  ASSUME NEW x, NEW y, SearchInv(x), Algo # "beam", x.at \notin {"warm", "begin"}, x.hits = <<>>,
         CutShort \/ AllExpanded(x),
         (opt.iters = 0 \/ Policy = "P2") /\ ~opt.freeze => x.pend = <<>>,
         Keeps(x, y, {"at", "out", "misread"}), y.at = "done",
         Len(y.out) = Min({opt.k, Len(x.cand)}),
         \A i, j \in DOMAIN y.out : i < j => opt.fp[y.out[i]] <= opt.fp[y.out[j]]
  PROVE  SearchInv(y)
<1>1. /\ opt \in Configs /\ SearchTypes(x) /\ Places(x) /\ Turns(x)
      /\ PendHeld(x) /\ Once(x) /\ Best(x)
  BY DEF SearchInv, Control, Lists
<1>2. /\ y.cand = x.cand /\ y.scored = x.scored /\ y.seen = x.seen /\ y.pend = x.pend /\ y.hits = x.hits
      /\ y.batch = x.batch /\ y.want = x.want /\ y.miss = x.miss /\ y.expands = x.expands
      /\ y.expanded = x.expanded /\ DOMAIN y = Fields
  BY DEF Keeps, Fields
<1>3. SearchTypes(y)
  BY <1>1, <1>2 DEF SearchTypes
<1>4. PendHeld(y) /\ Once(y) /\ Best(y)
  BY <1>1, <1>2, SameLists
<1>5. Places(y) /\ Turns(y)
  BY <1>1 DEF Places, Turns, InHost, InP3
<1>6. Ended(y)
  BY <1>2 DEF Ended, AllExpanded
<1>7. HitsHeld(y)
  BY <1>2 DEF HitsHeld
<1>8. Unbegun(y)
  BY DEF Unbegun
<1>9. Answer(y)
  BY <1>2 DEF Answer
<1> QED BY <1>1, <1>3, <1>4, <1>5, <1>6, <1>7, <1>8, <1>9 DEF SearchInv, Control, Lists

\* A step that scores and discovers nothing.
LEMMA QuietKept ==
  ASSUME NEW x, NEW y, SearchInv(x), Algo # "beam",
         y.cand = x.cand, y.scored = x.scored, y.seen = x.seen, y.pend = x.pend, y.hits = x.hits,
         SearchTypes(y), Control(y), HitsHeld(y), Ended(y), y.at \notin {"warm", "begin", "done"}
  PROVE  SearchInv(y)
<1>1. opt \in Configs /\ PendHeld(x) /\ Once(x) /\ Best(x)
  BY DEF SearchInv, Lists
<1>2. PendHeld(y) /\ Once(y) /\ Best(y)
  BY <1>1, SameLists
<1>3. Unbegun(y) /\ Answer(y)
  BY DEF Unbegun, Answer
<1> QED BY <1>1, <1>2, <1>3 DEF SearchInv, Lists

-----------------------------------------------------------------------------
(* One lemma for each action: the search's own state.                      *)

LEMMA WarmKept ==
  ASSUME SearchInv(q), hide_warm_entry_ball
  PROVE  SearchInv(q')
<1>1. q.at = "warm" /\ q' = [q EXCEPT !.at = "begin"] /\ DOMAIN q = Fields
  BY DEF hide_warm_entry_ball, SearchInv, SearchTypes
<1>2. /\ q'.at = "begin" /\ DOMAIN q' = Fields /\ q'.cand = q.cand /\ q'.scored = q.scored /\ q'.seen = q.seen
      /\ q'.pend = q.pend /\ q'.hits = q.hits /\ q'.batch = q.batch /\ q'.want = q.want /\ q'.miss = q.miss
      /\ q'.expands = q.expands
  BY <1>1 DEF Fields
<1>3. SearchTypes(q')
  BY <1>2 DEF SearchInv, SearchTypes
<1>4. Control(q') /\ Answer(q')
  BY <1>2 DEF Control, Places, Turns, Answer
<1>5. Unbegun(q')
  BY <1>1, <1>2 DEF SearchInv, Unbegun
<1>6. ASSUME Algo # "beam" PROVE Lists(q')
  <2>1. HitsHeld(q') /\ Ended(q')
    BY <1>2, <1>5 DEF HitsHeld, Ended, Unbegun
  <2>2. PendHeld(q') /\ Once(q') /\ Best(q')
    BY <1>2, <1>6, SameLists DEF SearchInv, Lists
  <2> QED BY <2>1, <2>2 DEF Lists
<1> QED BY <1>3, <1>4, <1>5, <1>6 DEF SearchInv

LEMMA StartsAt ==
  ASSUME opt \in Configs
  PROVE  /\ Algo = "beam" => Starts = "iter"
         /\ Algo # "beam" => (Host /\ Starts = "host") \/ (Paged /\ Starts = Policy)
<1>1. Algo \in {"pq", "fp", "beam"}
  BY ConfigIs
<1>2. CASE Algo = "beam"
  BY <1>2 DEF Starts
<1>3. CASE Algo # "beam" /\ (Algo = "pq" \/ opt.oracle)
  <2>1. Starts = "host"
    BY <1>3 DEF Starts
  <2> QED BY <1>1, <1>3, <2>1 DEF Host
<1>4. CASE Algo # "beam" /\ ~(Algo = "pq" \/ opt.oracle)
  <2>1. Starts = Policy
    BY <1>4 DEF Starts
  <2> QED BY <1>1, <1>4, <2>1 DEF Paged
<1> QED BY <1>2, <1>3, <1>4

LEMMA BeginKept ==
  ASSUME SearchInv(q), on_query_begin
  PROVE  SearchInv(q')
<1> DEFINE e == opt.entry
<1>1. /\ opt \in Configs /\ SearchTypes(q) /\ DOMAIN q = Fields /\ q.at = "begin" /\ e \in Nodes
      /\ q.cand = <<>> /\ q.seen = {} /\ q.pend = <<>> /\ q.hits = <<>> /\ \A v \in Nodes : q.scored[v] = 0
  BY ConfigIs DEF on_query_begin, SearchInv, SearchTypes, Unbegun
<1>2. PICK b : q' = LET x == [q EXCEPT !.at = Starts, !.budget = b]
                    IN  IF Algo = "beam" THEN [x EXCEPT !.cand = <<e>>, !.batch = <<e>>] ELSE ScoresEntry(x)
  BY DEF on_query_begin
<1> DEFINE x == [q EXCEPT !.at = Starts, !.budget = b]
<1>3. q' = IF Algo = "beam" THEN [x EXCEPT !.cand = <<e>>, !.batch = <<e>>] ELSE ScoresEntry(x)
  BY <1>2
<1>4. /\ DOMAIN x = Fields /\ x.at = Starts /\ x.cand = q.cand /\ x.scored = q.scored /\ x.seen = q.seen
      /\ x.pend = q.pend /\ x.hits = q.hits /\ x.batch = q.batch /\ x.want = q.want /\ x.miss = q.miss
      /\ x.expands = q.expands
  BY <1>1 DEF Fields
<1> HIDE DEF x, e
<1>5. CASE Algo = "beam"
  <2>1. q' = [x EXCEPT !.cand = <<e>>, !.batch = <<e>>] /\ Starts = "iter"
    BY <1>1, <1>3, <1>5, StartsAt
  <2>2. /\ q'.at = "iter" /\ DOMAIN q' = Fields /\ q'.cand = <<e>> /\ q'.batch = <<e>> /\ q'.scored = q.scored
        /\ q'.seen = q.seen /\ q'.pend = q.pend /\ q'.hits = q.hits /\ q'.want = q.want /\ q'.miss = q.miss
        /\ q'.expands = q.expands
    BY <1>4, <2>1 DEF Fields
  <2>3. <<e>> \in Seq(Nodes)
    BY <1>1
  <2>4. SearchTypes(q')
    BY <1>1, <2>2, <2>3 DEF SearchTypes
  <2>5. Control(q') /\ Answer(q') /\ Unbegun(q')
    BY <1>5, <2>2 DEF Control, Places, Turns, Answer, Unbegun
  <2> QED BY <1>1, <1>5, <2>4, <2>5 DEF SearchInv
<1>6. CASE Algo # "beam"
  <2> DEFINE l == <<e>>
             z == Sees(x, l)
  <2>1. q' = Scored(z, e) /\ Once(q) /\ Best(q)
    BY <1>3, <1>6 DEF ScoresEntry, SearchInv, Lists, e
  <2>2. Range(l) = {e}
    BY DEF Range
  <2> HIDE DEF l
  <2>3. Keeps(x, z, {"seen"}) /\ z.seen = x.seen \cup Range(l)
    BY <1>4, CommitsIs
  <2> HIDE DEF z
  <2>4. /\ DOMAIN z = Fields /\ z.at = Starts /\ z.cand = q.cand /\ z.scored = q.scored /\ z.seen = {e}
        /\ z.pend = q.pend /\ z.hits = q.hits /\ z.batch = q.batch /\ z.want = q.want /\ z.miss = q.miss
        /\ z.expands = q.expands
    BY <1>1, <1>4, <2>2, <2>3 DEF Keeps, Fields
  <2>5. /\ Keeps(z, q', {"cand", "scored"}) /\ q'.cand = insert_cand(z.cand, e)
        /\ q'.scored = [z.scored EXCEPT ![e] = @ + 1]
    BY <2>1, <2>4, ScoredIs
  <2>6. /\ DOMAIN q' = Fields /\ q'.at = Starts /\ q'.seen = q.seen \cup {e} /\ q'.pend = <<>> /\ q'.hits = <<>>
        /\ q'.batch = q.batch /\ q'.want = q.want /\ q'.miss = q.miss /\ q'.expands = q.expands
        /\ q'.cand = insert_cand(q.cand, e) /\ q'.scored = [q.scored EXCEPT ![e] = @ + 1]
    BY <1>1, <2>4, <2>5 DEF Keeps, Fields
  <2>7. SearchTypes(q')
    <3>1. q'.cand \in Seq(Nodes) /\ q'.scored \in [Nodes -> Nat]
      BY <1>1, <2>1, <2>6, ScoredTypes
    <3> QED BY <1>1, <2>6, <3>1 DEF SearchTypes
  <2>8. PendIds(q) = {} /\ HitIds(q) = {} /\ PendIds(q') = {} /\ HitIds(q') = {}
    BY <1>1, <2>6, NoIds DEF PendIds, HitIds
  <2>9. Once(q') /\ Best(q')
    <3>1. Distinct(Ids(q'.pend)) /\ Distinct(q'.hits)
      BY <1>1, <2>1, <2>6 DEF Once
    <3> QED BY <1>1, <2>1, <2>6, <2>7, <2>8, <3>1, OnceScored
  <2>10. (Host /\ q'.at = "host") \/ (Paged /\ q'.at = Policy /\ Policy \in {"P0", "P1", "P2", "P3"})
    BY <1>1, <1>6, <2>6, StartsAt, ConfigIs
  <2>11. Places(q') /\ Turns(q')
    BY <2>10 DEF Places, Turns, InHost, InP3
  <2>12. HitsHeld(q') /\ PendHeld(q') /\ Ended(q') /\ Unbegun(q') /\ Answer(q')
    BY <2>6, <2>10 DEF HitsHeld, PendHeld, Ended, Unbegun, Answer
  <2> QED BY <1>1, <2>7, <2>9, <2>11, <2>12 DEF SearchInv, Control, Lists
<1> QED BY <1>5, <1>6

LEMMA AnswersKept ==
  ASSUME NEW x, NEW y, SearchInv(x), Algo # "beam", x.at \notin {"warm", "begin"}, x.hits = <<>>,
         CutShort \/ AllExpanded(x),
         (opt.iters = 0 \/ Policy = "P2") /\ ~opt.freeze => x.pend = <<>>,
         y = Answered(x)
  PROVE  SearchInv(y)
<1>1. opt \in Configs /\ DOMAIN x = Fields /\ x.cand \in Seq(Nodes)
  BY DEF SearchInv, SearchTypes
<1>2. /\ Keeps(x, y, {"at", "out"}) /\ y.at = "done"
      /\ Len(y.out) = Min({opt.k, Len(x.cand)})
      /\ \A i, j \in DOMAIN y.out : i < j => opt.fp[y.out[i]] <= opt.fp[y.out[j]]
  BY <1>1, AnsweredIs
<1>3. Keeps(x, y, {"at", "out", "misread"})
  BY <1>2 DEF Keeps
<1> QED BY <1>2, <1>3, AnswerKept

\* Nothing to expand, or the limit reached.
LEMMA LoopEnds ==
  ASSUME NEW x, SearchInv(x), Frontier(x) = <<>> \/ ItersDone(x)
  PROVE  CutShort \/ AllExpanded(x)
<1>1. opt \in Configs /\ x.cand \in Seq(Nodes)
  BY DEF SearchInv, SearchTypes
<1> QED BY <1>1, FrontierIs DEF ItersDone, CutShort

LEMMA HostEndsKept ==
  ASSUME SearchInv(q), HostEnds
  PROVE  SearchInv(q')
<1>1. /\ opt \in Configs /\ SearchTypes(q) /\ Places(q) /\ DOMAIN q = Fields /\ q.at = "host"
      /\ Frontier(q) = <<>> \/ ItersDone(q)
  BY DEF SearchInv, Control, SearchTypes, HostEnds
<1>2. Host
  BY <1>1 DEF Places, InP3, Paged
<1>3. Algo # "beam" /\ HitsHeld(q) /\ PendHeld(q) /\ q.hits = <<>> /\ q.pend = <<>>
  BY <1>1, <1>2 DEF SearchInv, Lists, HitsHeld, PendHeld, Host, Paged
<1>4. CutShort \/ AllExpanded(q)
  BY <1>1, LoopEnds
<1>5. CASE opt.oracle
  <2>1. q' = Answered(q)
    BY <1>5 DEF HostEnds
  <2> QED BY <1>1, <1>3, <1>4, <2>1, AnswersKept
<1>6. CASE ~opt.oracle
  <2> DEFINE w == VecPages(Range(q.cand))
  <2>1. q' = [q EXCEPT !.at = "issue", !.then = "cover", !.want = w]
    BY <1>6 DEF HostEnds
  <2>2. w \in SUBSET Pages
    <3>1. Range(q.cand) \subseteq Nodes
      BY <1>1, Items DEF SearchTypes
    <3> QED BY <1>1, <3>1, ConfigIs DEF VecPages
  <2> HIDE DEF w
  <2>3. /\ q'.at = "issue" /\ q'.then = "cover" /\ q'.want = w /\ DOMAIN q' = Fields /\ q'.cand = q.cand
        /\ q'.scored = q.scored /\ q'.seen = q.seen /\ q'.pend = q.pend /\ q'.hits = q.hits
        /\ q'.batch = q.batch /\ q'.miss = q.miss /\ q'.expands = q.expands /\ q'.expanded = q.expanded
    BY <1>1, <2>1 DEF Fields
  <2>4. SearchTypes(q')
    BY <1>1, <2>2, <2>3 DEF SearchTypes
  <2>5. Control(q')
    BY <1>2, <1>6, <2>3 DEF Control, Places, Turns, InHost
  <2>6. HitsHeld(q') /\ Ended(q')
    BY <1>3, <1>4, <2>3 DEF HitsHeld, Ended, AllExpanded
  <2> QED BY <1>3, <2>3, <2>4, <2>5, <2>6, QuietKept
<1> QED BY <1>5, <1>6

LEMMA RanksKept ==
  ASSUME SearchInv(q), RanksVectors
  PROVE  SearchInv(q')
<1>1. opt \in Configs /\ SearchTypes(q) /\ Places(q) /\ DOMAIN q = Fields /\ q.at = "rank" /\ q.cand \in Seq(Nodes)
  BY DEF SearchInv, Control, SearchTypes, RanksVectors
<1>2. Host
  BY <1>1 DEF Places, InP3
<1>3. Algo # "beam" /\ q.hits = <<>> /\ q.pend = <<>> /\ (CutShort \/ AllExpanded(q))
  BY <1>1, <1>2 DEF SearchInv, Lists, HitsHeld, PendHeld, Ended, Host, Paged
<1> DEFINE y == Answered(q)
<1>4. PICK m : q' = [y EXCEPT !.misread = m]
  BY DEF RanksVectors
<1>5. /\ Keeps(q, y, {"at", "out"}) /\ y.at = "done"
      /\ Len(y.out) = Min({opt.k, Len(q.cand)})
      /\ \A i, j \in DOMAIN y.out : i < j => opt.fp[y.out[i]] <= opt.fp[y.out[j]]
  BY <1>1, AnsweredIs
<1> HIDE DEF y
<1>6. Keeps(q, q', {"at", "out", "misread"}) /\ q'.at = "done" /\ q'.out = y.out
  BY <1>4, <1>5 DEF Keeps, Fields
<1> QED BY <1>1, <1>3, <1>5, <1>6, AnswerKept

LEMMA DemandEndsKept ==
  ASSUME SearchInv(q), DemandEnds
  PROVE  SearchInv(q')
<1>1. /\ Places(q) /\ q.at \in {"P0", "P1"} /\ (Frontier(q) = <<>> \/ ItersDone(q)) /\ q' = Answered(q)
  BY DEF SearchInv, Control, DemandEnds
<1>2. Paged /\ Policy = q.at
  BY <1>1 DEF Places, InHost, InP3
<1>3. Algo # "beam" /\ q.hits = <<>> /\ q.pend = <<>>
  BY <1>1, <1>2 DEF SearchInv, Lists, HitsHeld, PendHeld, Paged
<1>4. CutShort \/ AllExpanded(q)
  BY <1>1, LoopEnds
<1> QED BY <1>1, <1>3, <1>4, AnswersKept

\* The queue is drained of what is resident: the rest stays, in order.
LEMMA DrainedIs ==
  ASSUME NEW x, NEW y, NEW R, NEW how, NEW back, SearchTypes(x), PendHeld(x), Once(x), Best(x), x.hits = <<>>,
         y = Drained(x, R, how, back)
  PROVE  /\ Keeps(x, y, {"pend", "hits", "at", "back"})
         /\ SearchTypes(y) /\ PendHeld(y) /\ Once(y) /\ Best(y)
         /\ (y.hits = <<>> /\ y.at = back) \/ (y.hits # <<>> /\ y.at = how /\ y.back = back)
         /\ x.pend = <<>> => y.pend = <<>> /\ y.at = back
<1> DEFINE p == StillPending(x.pend, R)
           r == Ready(x.pend, R)
           z == [x EXCEPT !.pend = p]
<1>1. x.pend \in Seq(Pend) /\ Distinct(Ids(x.pend)) /\ DOMAIN x = Fields
  BY DEF SearchTypes, Once
<1>2. /\ p \in Seq(Pend) /\ Distinct(Ids(p)) /\ r \in Seq(Nodes) /\ Distinct(r)
      /\ Range(Ids(p)) \cap Range(r) = {} /\ Range(Ids(x.pend)) = Range(Ids(p)) \cup Range(r)
      /\ x.pend = <<>> => p = <<>> /\ r = <<>>
  BY <1>1, SplitIs
<1>3. y = Scores(z, r, how, back)
  BY DEF Drained
<1> HIDE DEF p, r
<1>4. Keeps(x, z, {"pend"}) /\ z.pend = p /\ z.hits = x.hits /\ DOMAIN z = Fields
  BY <1>1 DEF Keeps, Fields
<1> HIDE DEF z
<1>5. /\ Keeps(z, y, {"hits", "at", "back"})
      /\ r = <<>> => y.at = back /\ y.hits = z.hits
      /\ r # <<>> => y.at = how /\ y.hits = r /\ y.back = back
  BY <1>3, <1>4, ScoresIs
<1>6. Keeps(x, y, {"pend", "hits", "at", "back"}) /\ y.pend = p /\ y.hits = r
  BY <1>4, <1>5 DEF Keeps, Fields
<1>7. /\ y.cand = x.cand /\ y.scored = x.scored /\ y.seen = x.seen /\ y.batch = x.batch /\ y.want = x.want
      /\ y.miss = x.miss /\ y.expands = x.expands /\ DOMAIN y = Fields
  BY <1>6 DEF Keeps, Fields
<1>8. SearchTypes(y)
  BY <1>2, <1>6, <1>7 DEF SearchTypes
<1>9. Once(y)
  <2>1. PendIds(y) = Range(Ids(p)) /\ HitIds(y) = Range(r) /\ PendIds(x) = Range(Ids(p)) \cup Range(r) /\ HitIds(x) = {}
    BY <1>2, <1>6, NoIds DEF PendIds, HitIds
  <2>2. /\ {} \in SUBSET Nodes /\ {} \cap x.seen = {} /\ y.seen = x.seen \cup {}
        /\ Distinct(Ids(y.pend)) /\ Distinct(y.hits) /\ PendIds(y) \cap HitIds(y) = {}
        /\ PendIds(y) \cup HitIds(y) \subseteq PendIds(x) \cup HitIds(x) \cup {}
        /\ PendIds(x) \cup HitIds(x) \cup {} \subseteq PendIds(y) \cup HitIds(y)
    BY <1>2, <1>6, <1>7, <2>1
  <2> QED BY <1>7, <1>8, <2>2, OnceListed
<1>10. Best(y)
  BY <1>7 DEF Best, ScoredSet
<1>11. PendHeld(y)
  BY <1>2, <1>6 DEF PendHeld
<1> QED BY <1>2, <1>5, <1>6, <1>8, <1>9, <1>10, <1>11

\* The first of the queue is scored, its pages read in.
Forced(x, at) == [Scored(x, Head(x.pend).id) EXCEPT !.pend = Tail(@), !.at = at]

LEMMA ForcedIs ==
  ASSUME opt \in Configs, NEW x, NEW y, NEW at, SearchTypes(x), PendHeld(x), Once(x), Best(x), x.pend # <<>>,
         y = Forced(x, at)
  PROVE  /\ Keeps(x, y, {"cand", "scored", "pend", "at"}) /\ y.at = at
         /\ SearchTypes(y) /\ PendHeld(y) /\ Once(y) /\ Best(y)
<1> DEFINE v == Head(x.pend).id
           t == Tail(x.pend)
           s == Scored(x, v)
<1>1. x.pend \in Seq(Pend) /\ Distinct(Ids(x.pend)) /\ DOMAIN x = Fields
  BY DEF SearchTypes, Once
<1>2. /\ v \in Range(Ids(x.pend)) /\ v \in Nodes /\ t \in Seq(Pend) /\ Distinct(Ids(t))
      /\ Range(Ids(t)) = Range(Ids(x.pend)) \ {v}
  BY <1>1, NextWaiting
<1>3. y = [s EXCEPT !.pend = Tail(@), !.at = at]
  BY DEF Forced
<1> HIDE DEF v
<1>4. Keeps(x, s, {"cand", "scored"}) /\ s.cand = insert_cand(x.cand, v) /\ s.scored = [x.scored EXCEPT ![v] = @ + 1]
  BY <1>1, ScoredIs
<1> HIDE DEF s
<1>5. /\ DOMAIN s = Fields /\ s.pend = x.pend /\ s.hits = x.hits /\ s.seen = x.seen /\ s.batch = x.batch
      /\ s.want = x.want /\ s.miss = x.miss /\ s.expands = x.expands
      /\ \A f \in Fields \ {"cand", "scored"} : s[f] = x[f]
  BY <1>4 DEF Keeps, Fields
<1>6. /\ DOMAIN y = Fields /\ y.at = at /\ y.pend = t /\ y.hits = s.hits /\ y.seen = s.seen
      /\ y.batch = s.batch /\ y.want = s.want /\ y.miss = s.miss /\ y.expands = s.expands
      /\ y.cand = s.cand /\ y.scored = s.scored /\ \A f \in Fields \ {"pend", "at"} : y[f] = s[f]
  BY <1>3, <1>5 DEF Fields
<1>7. Keeps(x, y, {"cand", "scored", "pend", "at"})
  BY <1>1, <1>5, <1>6 DEF Keeps
<1> HIDE DEF t
<1>8. x.scored[v] = 0 /\ v \in x.seen /\ v \notin HitIds(x)
  BY <1>2 DEF Once, PendIds
<1>9. SearchTypes(y)
  <2>1. y.cand \in Seq(Nodes) /\ y.scored \in [Nodes -> Nat]
    BY <1>2, <1>4, <1>6, <1>8, ScoredTypes
  <2> QED BY <1>2, <1>5, <1>6, <2>1 DEF SearchTypes
<1>10. Once(y) /\ Best(y)
  <2>1. PendIds(y) = PendIds(x) \ {v} /\ HitIds(y) = HitIds(x)
    BY <1>2, <1>5, <1>6 DEF PendIds, HitIds
  <2>2. /\ y.seen = x.seen \cup {v} /\ y.cand = insert_cand(x.cand, v)
        /\ y.scored = [x.scored EXCEPT ![v] = @ + 1]
    BY <1>4, <1>5, <1>6, <1>8
  <2>3. /\ Distinct(Ids(y.pend)) /\ Distinct(y.hits) /\ PendIds(y) \cap HitIds(y) = {}
        /\ PendIds(y) \cup HitIds(y) = (PendIds(x) \cup HitIds(x)) \ {v}
    BY <1>2, <1>5, <1>6, <1>8, <2>1 DEF Once
  <2> QED BY <1>2, <1>8, <1>9, <2>2, <2>3, OnceScored
<1>11. PendHeld(y)
  BY DEF PendHeld
<1> QED BY <1>6, <1>7, <1>9, <1>10, <1>11

\* New vertices join the queue.
LEMMA JoinedIs ==
  ASSUME NEW x, NEW y, SearchTypes(x), Once(x), NEW new \in Seq(Nodes), Distinct(new),
         Range(new) \cap x.seen = {}, NEW w \in Seq(Pend), Ids(w) = new,
         DOMAIN y = Fields, y.cand = x.cand, y.scored = x.scored, y.seen = x.seen \cup Range(new),
         y.pend = x.pend \o w, y.hits = x.hits, y.batch \in Seq(Nodes), y.expands \in Nat,
         y.want \in SUBSET Pages, y.miss = x.miss
  PROVE  SearchTypes(y) /\ Once(y) /\ (Best(x) => Best(y))
<1>1. /\ x.pend \in Seq(Pend) /\ Distinct(Ids(x.pend)) /\ Distinct(x.hits) /\ PendIds(x) \cap HitIds(x) = {}
      /\ x.seen \subseteq Nodes
  BY DEF SearchTypes, Once
<1>2. PendIds(x) \cup HitIds(x) \subseteq x.seen
  <2>1. PendIds(x) \subseteq Nodes /\ HitIds(x) \subseteq Nodes
    BY <1>1, IdsIs, Items DEF PendIds, HitIds, SearchTypes
  <2> QED BY <2>1 DEF Once
<1>3. Range(new) \subseteq Nodes
  BY Items
<1>4. Range(Ids(x.pend)) \cap Range(Ids(w)) = {} /\ Distinct(Ids(w))
  BY <1>2 DEF PendIds
<1>5. /\ y.pend \in Seq(Pend) /\ Distinct(Ids(y.pend))
      /\ Range(Ids(y.pend)) = Range(Ids(x.pend)) \cup Range(Ids(w))
  BY <1>1, <1>4, JoinIs
<1>6. SearchTypes(y)
  BY <1>1, <1>3, <1>5 DEF SearchTypes
<1>7. PendIds(y) = PendIds(x) \cup Range(new) /\ HitIds(y) = HitIds(x)
  BY <1>5 DEF PendIds, HitIds
<1>8. Once(y)
  <2>1. PendIds(y) \cap HitIds(y) = {}
    BY <1>1, <1>2, <1>7
  <2> QED BY <1>1, <1>3, <1>5, <1>6, <1>7, <2>1, OnceListed
<1>9. Best(x) => Best(y)
  BY DEF Best, ScoredSet
<1> QED BY <1>6, <1>8, <1>9

LEMMA RunsOn ==
  ASSUME NEW y, opt \in Configs, SearchTypes(y), Control(y), HitsHeld(y), PendHeld(y), Once(y), Best(y), Ended(y),
         y.at \notin {"warm", "begin", "done"}
  PROVE  SearchInv(y)
BY DEF SearchInv, Lists, Unbegun, Answer

\* What is known at a place of P2 or P3 where no list is being scored.
LEMMA AtP2 ==
  ASSUME SearchInv(q), q.at \in {"P2", "pick", "ready", "bound"}
  PROVE  /\ opt \in Configs /\ SearchTypes(q) /\ DOMAIN q = Fields /\ Algo # "beam" /\ Paged /\ Policy = "P2"
         /\ PendHeld(q) /\ Once(q) /\ Best(q) /\ q.hits = <<>> /\ ~Frozen
<1>1. Places(q) /\ opt \in Configs /\ SearchTypes(q) /\ DOMAIN q = Fields
  BY DEF SearchInv, Control, SearchTypes
<1>2. Paged /\ Policy = "P2" /\ Algo # "beam"
  BY <1>1 DEF Places, InHost, InP3, Paged
<1>3. PendHeld(q) /\ Once(q) /\ Best(q) /\ HitsHeld(q)
  BY <1>2 DEF SearchInv, Lists
<1>4. q.hits = <<>>
  BY <1>3 DEF HitsHeld
<1>5. ~Frozen
  BY <1>2 DEF Frozen
<1> QED BY <1>1, <1>2, <1>3, <1>4, <1>5

LEMMA DrainReadyKept ==
  ASSUME SearchInv(q), drain_ready
  PROVE  SearchInv(q')
<1> DEFINE back == IF q.at = "P2" THEN "pick" ELSE "bound"
<1>1. q.at \in {"P2", "ready"} /\ q' = Drained(q, Window, "score", back)
  BY DEF drain_ready
<1>2. /\ opt \in Configs /\ SearchTypes(q) /\ Paged /\ Policy = "P2"
      /\ PendHeld(q) /\ Once(q) /\ Best(q) /\ q.hits = <<>>
  BY <1>1, AtP2
<1>3. back \in {"pick", "bound"}
  OBVIOUS
<1> HIDE DEF back
<1>4. /\ SearchTypes(q') /\ PendHeld(q') /\ Once(q') /\ Best(q')
      /\ (q'.hits = <<>> /\ q'.at = back) \/ (q'.hits # <<>> /\ q'.at = "score" /\ q'.back = back)
  BY <1>1, <1>2, DrainedIs
<1>5. Control(q') /\ HitsHeld(q') /\ Ended(q')
  BY <1>2, <1>3, <1>4 DEF Control, Places, Turns, HitsHeld, Ended
<1> QED BY <1>2, <1>3, <1>4, <1>5, RunsOn

LEMMA ForceKept ==
  ASSUME SearchInv(q), q.at \in {"pick", "bound"}, NEW at \in {"P2", "pick", "bound"}, force_one_pending(at)
  PROVE  SearchInv(q')
<1>1. /\ opt \in Configs /\ SearchTypes(q) /\ Paged /\ Policy = "P2"
      /\ PendHeld(q) /\ Once(q) /\ Best(q) /\ q.hits = <<>>
  BY AtP2
<1>2. q.pend # <<>> /\ q' = Forced(q, at)
  BY DEF force_one_pending, Forced
<1>3. /\ Keeps(q, q', {"cand", "scored", "pend", "at"}) /\ q'.at = at
      /\ SearchTypes(q') /\ PendHeld(q') /\ Once(q') /\ Best(q')
  BY <1>1, <1>2, ForcedIs
<1>4. q'.hits = <<>>
  BY <1>1, <1>3 DEF Keeps, Fields
<1>5. Control(q') /\ HitsHeld(q') /\ Ended(q')
  BY <1>1, <1>3, <1>4 DEF Control, Places, Turns, HitsHeld, Ended
<1> QED BY <1>1, <1>3, <1>5, RunsOn

LEMMA P2EndsKept ==
  ASSUME SearchInv(q), P2Ends
  PROVE  SearchInv(q')
<1>1. q.at = "pick" /\ q.pend = <<>> /\ (Frontier(q) = <<>> \/ ItersDone(q)) /\ q' = Answered(q)
  BY DEF P2Ends
<1>2. Algo # "beam" /\ q.hits = <<>>
  BY <1>1, AtP2
<1>3. CutShort \/ AllExpanded(q)
  BY <1>1, LoopEnds
<1> QED BY <1>1, <1>2, <1>3, AnswersKept

\* The pages each new vertex waits for are its vector's own.
LEMMA VectorQueue ==
  ASSUME opt \in Configs, NEW new \in Seq(Nodes), Distinct(new)
  PROVE  LET w == [i \in DOMAIN new |-> Waiting(new[i], opt.vpages[new[i]])]
         IN  w \in Seq(Pend) /\ Distinct(Ids(w)) /\ Ids(w) = new
<1> DEFINE w == [i \in DOMAIN new |-> Waiting(new[i], opt.vpages[new[i]])]
<1>1. \A i \in DOMAIN new : new[i] \in Nodes
  OBVIOUS
<1>2. \A i \in DOMAIN new : opt.vpages[new[i]] \in SUBSET Pages
  BY <1>1, ConfigIs
<1>3. \A i \in DOMAIN new : Waiting(new[i], opt.vpages[new[i]]) \in Pend /\ w[i].id = new[i]
  BY <1>1, <1>2 DEF Waiting, Pend
<1>4. w \in [DOMAIN new -> Pend] /\ \A i \in DOMAIN new : w[i].id = new[i]
  BY <1>3
<1> HIDE DEF w
<1>5. w \in Seq(Pend) /\ Distinct(Ids(w)) /\ Ids(w) = new
  BY <1>4, QueuedIs
<1> QED BY <1>5 DEF w

LEMMA P2ExpandsKept ==
  ASSUME SearchInv(q), P2Expands
  PROVE  SearchInv(q')
<1> DEFINE v == Head(Frontier(q))
           b == <<v>>
           new == Fresh(v, q.seen)
           w == [i \in DOMAIN new |-> Waiting(new[i], opt.vpages[new[i]])]
           z == Sees(Commits(q, b), new)
<1>1. q.at = "pick" /\ Frontier(q) # <<>> /\ q' = [z EXCEPT !.pend = @ \o w, !.at = "ready"]
  BY DEF P2Expands
<1>2. /\ opt \in Configs /\ SearchTypes(q) /\ DOMAIN q = Fields /\ Paged /\ Policy = "P2"
      /\ PendHeld(q) /\ Once(q) /\ Best(q) /\ q.hits = <<>> /\ ~Frozen
  BY <1>1, AtP2
<1>3. v \in Nodes
  BY <1>1, <1>2, FrontierIs DEF SearchTypes
<1>4. new \in Seq(Nodes) /\ Distinct(new) /\ Range(new) \cap q.seen = {}
  <2> HIDE DEF v
  <2> QED BY <1>2, <1>3, FreshIs DEF SearchTypes
<1>5. w \in Seq(Pend) /\ Ids(w) = new
  <2> HIDE DEF new
  <2> QED BY <1>2, <1>4, VectorQueue
<1>6. Len(b) = 1
  OBVIOUS
<1> HIDE DEF v, new, w, b
<1>7. /\ Keeps(q, z, {"expanded", "expands", "seen"})
      /\ z.expands = q.expands + Len(b) /\ z.seen = q.seen \cup Range(new)
  BY <1>2, CommitsIs
<1> HIDE DEF z
<1>8. /\ DOMAIN z = Fields /\ z.cand = q.cand /\ z.scored = q.scored /\ z.pend = q.pend /\ z.hits = q.hits
      /\ z.batch = q.batch /\ z.want = q.want /\ z.miss = q.miss
  BY <1>7 DEF Keeps, Fields
<1>9. /\ DOMAIN q' = Fields /\ q'.at = "ready" /\ q'.cand = z.cand /\ q'.scored = z.scored /\ q'.seen = z.seen
      /\ q'.pend = z.pend \o w /\ q'.hits = z.hits /\ q'.batch = z.batch /\ q'.expands = z.expands
      /\ q'.want = z.want /\ q'.miss = z.miss
  BY <1>1, <1>8 DEF Fields
<1>10. q'.batch \in Seq(Nodes) /\ q'.expands \in Nat /\ q'.want \in SUBSET Pages
  BY <1>2, <1>6, <1>7, <1>8, <1>9 DEF SearchTypes
<1>11. /\ q'.cand = q.cand /\ q'.scored = q.scored /\ q'.seen = q.seen \cup Range(new) /\ q'.pend = q.pend \o w
       /\ q'.hits = q.hits /\ q'.miss = q.miss
  BY <1>7, <1>8, <1>9
<1>12. SearchTypes(q') /\ Once(q') /\ Best(q')
  BY <1>2, <1>4, <1>5, <1>9, <1>10, <1>11, JoinedIs
<1>13. Control(q') /\ HitsHeld(q') /\ PendHeld(q') /\ Ended(q')
  BY <1>2, <1>9, <1>11 DEF Control, Places, Turns, HitsHeld, PendHeld, Ended
<1> QED BY <1>2, <1>9, <1>12, <1>13, RunsOn

LEMMA P2BoundsKept ==
  ASSUME SearchInv(q), P2Bounds
  PROVE  SearchInv(q')
<1>1. q.at = "bound"
  BY DEF P2Bounds
<1>2. CASE force_one_pending("bound") \/ force_one_pending("P2")
  <2>1. CASE force_one_pending("bound")
    BY <1>1, <2>1, ForceKept
  <2>2. CASE force_one_pending("P2")
    BY <1>1, <2>2, ForceKept
  <2> QED BY <1>2, <2>1, <2>2
<1>3. CASE q' = [q EXCEPT !.at = "P2"]
  <2>1. /\ opt \in Configs /\ SearchTypes(q) /\ DOMAIN q = Fields /\ Paged /\ Policy = "P2" /\ Algo # "beam"
        /\ q.hits = <<>>
    BY <1>1, AtP2
  <2>2. /\ q'.at = "P2" /\ DOMAIN q' = Fields /\ q'.cand = q.cand /\ q'.scored = q.scored /\ q'.seen = q.seen
        /\ q'.pend = q.pend /\ q'.hits = q.hits /\ q'.batch = q.batch /\ q'.want = q.want /\ q'.miss = q.miss
        /\ q'.expands = q.expands
    BY <1>3, <2>1 DEF Fields
  <2>3. SearchTypes(q')
    BY <2>1, <2>2 DEF SearchTypes
  <2>4. Control(q') /\ HitsHeld(q') /\ Ended(q')
    BY <2>1, <2>2 DEF Control, Places, Turns, HitsHeld, Ended
  <2> QED BY <2>1, <2>2, <2>3, <2>4, QuietKept
<1> QED BY <1>2, <1>3 DEF P2Bounds

\* What is known in P3 outside its pipe.
LEMMA AtP3 ==
  ASSUME SearchInv(q), q.at \in {"P3", "wave", "hop", "hits", "drain", "last", "end"}
  PROVE  /\ opt \in Configs /\ SearchTypes(q) /\ DOMAIN q = Fields /\ Algo # "beam" /\ Paged /\ Policy = "P3" /\ ~Host
         /\ PendHeld(q) /\ Once(q) /\ Best(q) /\ Ended(q) /\ Turns(q) /\ (q.at # "hits" => q.hits = <<>>)
<1>1. Places(q) /\ Turns(q) /\ opt \in Configs /\ SearchTypes(q) /\ DOMAIN q = Fields
  BY DEF SearchInv, Control, SearchTypes
<1>2. Policy \in {"P0", "P1", "P2", "P3"}
  BY <1>1, ConfigIs
<1>3. Paged /\ Policy = "P3"
  BY <1>1, <1>2 DEF Places, InHost
<1>4. Algo # "beam" /\ ~Host
  BY <1>3 DEF Paged, Host
<1>5. PendHeld(q) /\ Once(q) /\ Best(q) /\ HitsHeld(q) /\ Ended(q)
  BY <1>4 DEF SearchInv, Lists
<1>6. q.at # "hits" => q.hits = <<>>
  BY <1>5 DEF HitsHeld
<1> QED BY <1>1, <1>3, <1>4, <1>5, <1>6

\* A batch is committed.
LEMMA P3WavesKept ==
  ASSUME SearchInv(q), P3Waves
  PROVE  SearchInv(q')
<1> DEFINE b == pick_batch(q, opt.ebatch)
           x == Commits(q, b)
           to == IF OneByOne THEN "hop" ELSE "wave"
<1>1. q.at = "P3" /\ b # <<>> /\ q' = [x EXCEPT !.batch = b, !.want = {}, !.at = to]
  BY DEF P3Waves
<1>2. /\ opt \in Configs /\ SearchTypes(q) /\ DOMAIN q = Fields /\ Algo # "beam" /\ Paged /\ Policy = "P3"
      /\ q.hits = <<>>
  BY <1>1, AtP3
<1>3. b \in Seq(Nodes)
  BY <1>2, PickIs DEF SearchTypes
<1> HIDE DEF b
<1>4. Keeps(q, x, {"expanded", "expands"}) /\ x.expands = q.expands + Len(b)
  BY <1>2, CommitsIs
<1> HIDE DEF x
<1>5. /\ DOMAIN x = Fields /\ x.cand = q.cand /\ x.scored = q.scored /\ x.seen = q.seen /\ x.pend = q.pend
      /\ x.hits = q.hits /\ x.miss = q.miss
  BY <1>4 DEF Keeps, Fields
<1>6. /\ DOMAIN q' = Fields /\ q'.at = to /\ q'.cand = x.cand /\ q'.scored = x.scored /\ q'.seen = x.seen
      /\ q'.pend = x.pend /\ q'.hits = x.hits /\ q'.batch = b /\ q'.expands = x.expands
      /\ q'.want = {} /\ q'.miss = x.miss
  BY <1>1, <1>5 DEF Fields
<1>7. SearchTypes(q')
  <2>1. q.expands + Len(b) \in Nat
    BY <1>2, <1>3 DEF SearchTypes
  <2> QED BY <1>2, <1>3, <1>4, <1>5, <1>6, <2>1 DEF SearchTypes
<1>8. Control(q') /\ HitsHeld(q') /\ Ended(q') /\ q'.at \notin {"warm", "begin", "done"}
  BY <1>1, <1>2, <1>5, <1>6 DEF Control, Places, Turns, HitsHeld, Ended, InP3
<1> QED BY <1>2, <1>5, <1>6, <1>7, <1>8, QuietKept

\* The pages a vertex of a wave waits for, and those the wave asks for.
LEMMA WavePagesIs ==
  ASSUME opt \in Configs, NEW v \in Nodes, NEW new \in Seq(Nodes), Range(new) \subseteq Range(Row(v))
  PROVE  /\ WavePages(v, new) \in SUBSET Pages
         /\ \A nb \in Range(new) : SlotPages(v, nb) \in SUBSET Pages
<1>1. /\ Row(v) \in Seq(Nat) /\ opt.bpages[v] \in Seq(SUBSET Pages) /\ Len(opt.bpages[v]) = Len(Row(v))
      /\ \A u \in Nodes : opt.vpages[u] \in SUBSET Pages
  BY ConfigIs
<1>2. Range(new) \subseteq Nodes
  BY Items
<1>3. DOMAIN Row(v) = 1 .. Len(Row(v)) /\ Len(Row(v)) \in Nat /\ \A k \in DOMAIN Row(v) : opt.bpages[v][k] \in SUBSET Pages
  BY <1>1
<1>4. WavePages(v, new) \in SUBSET Pages
  BY <1>1, <1>2, <1>3 DEF WavePages, VecPages
<1>5. ASSUME NEW nb \in Range(new) PROVE SlotPages(v, nb) \in SUBSET Pages
  <2>1. CASE opt.bundled
    <3> DEFINE K == {k \in DOMAIN Row(v) : Row(v)[k] = nb}
    <3>1. K # {} /\ K \in SUBSET DOMAIN Row(v)
      BY DEF Range
    <3>2. IsFiniteSet(DOMAIN Row(v)) /\ DOMAIN Row(v) \in SUBSET Int
      <4>1. IsFiniteSet(1 .. Len(Row(v)))
        BY <1>3, FS_Interval
      <4> QED BY <1>3, <4>1
    <3> HIDE DEF K
    <3>3. IsFiniteSet(K) /\ K \in SUBSET Int
      BY <3>1, <3>2, FS_Subset
    <3>4. Min(K) \in DOMAIN Row(v)
      BY <3>1, <3>3, MinIn
    <3>5. SlotPages(v, nb) = opt.bpages[v][Min(K)]
      BY <2>1 DEF SlotPages, K
    <3> QED BY <1>3, <3>4, <3>5
  <2>2. CASE ~opt.bundled
    BY <1>1, <1>2, <2>2 DEF SlotPages
  <2> QED BY <2>1, <2>2
<1> QED BY <1>4, <1>5

\* The next vertex of a wave is expanded.
LEMMA WaveExpandsKept ==
  ASSUME SearchInv(q), WaveExpands
  PROVE  SearchInv(q')
<1> DEFINE v == Head(q.batch)
           t == Tail(q.batch)
           new == Fresh(v, q.seen)
           w == [i \in DOMAIN new |-> Waiting(new[i], SlotPages(v, new[i]))]
           z == Sees(q, new)
           x == [[z EXCEPT !.pend = @ \o w, !.want = @ \cup WavePages(v, new)] EXCEPT !.batch = Tail(@)]
<1>1. q.at = "wave" /\ q' = IF x.batch # <<>> THEN x ELSE [x EXCEPT !.at = "issue", !.then = "P3", !.waves = @ + 1]
  BY DEF WaveExpands, Discovers
<1>2. /\ opt \in Configs /\ SearchTypes(q) /\ DOMAIN q = Fields /\ Algo # "beam" /\ Paged /\ Policy = "P3" /\ ~Host
      /\ PendHeld(q) /\ Once(q) /\ Best(q) /\ q.hits = <<>> /\ q.batch # <<>> /\ ~OneByOne
  BY <1>1, AtP3 DEF Turns
<1>3. v \in Nodes /\ t \in Seq(Nodes)
  BY <1>2, TailIs DEF SearchTypes
<1>4. /\ new \in Seq(Nodes) /\ Distinct(new) /\ Range(new) \cap q.seen = {} /\ Range(new) \subseteq Range(Row(v))
  <2> HIDE DEF v
  <2> QED BY <1>2, <1>3, FreshIs DEF SearchTypes
<1>5. WavePages(v, new) \in SUBSET Pages /\ \A nb \in Range(new) : SlotPages(v, nb) \in SUBSET Pages
  <2> HIDE DEF v, new
  <2> QED BY <1>2, <1>3, <1>4, WavePagesIs
<1>6. w \in Seq(Pend) /\ Ids(w) = new
  <2> HIDE DEF v, new
  <2>1. \A i \in DOMAIN new : new[i] \in Nodes /\ new[i] \in Range(new)
    BY <1>4, Items
  <2>2. \A i \in DOMAIN new : Waiting(new[i], SlotPages(v, new[i])) \in Pend /\ w[i].id = new[i]
    BY <1>5, <2>1 DEF Waiting, Pend
  <2>3. w \in [DOMAIN new -> Pend] /\ \A i \in DOMAIN new : w[i].id = new[i]
    BY <2>2
  <2> HIDE DEF w
  <2> QED BY <1>4, <2>3, QueuedIs
<1> DEFINE P == WavePages(v, new)
<1> HIDE DEF v, new, w, t, P
<1>7. Keeps(q, z, {"seen"}) /\ z.seen = q.seen \cup Range(new)
  BY <1>2, CommitsIs
<1> HIDE DEF z
<1>8. /\ DOMAIN z = Fields /\ z.cand = q.cand /\ z.scored = q.scored /\ z.pend = q.pend /\ z.hits = q.hits
      /\ z.batch = q.batch /\ z.want = q.want /\ z.miss = q.miss /\ z.expands = q.expands /\ z.at = q.at
  BY <1>7 DEF Keeps, Fields
<1>9. x = [[z EXCEPT !.pend = @ \o w, !.want = @ \cup P] EXCEPT !.batch = Tail(@)]
  BY DEF P
<1> HIDE DEF x
<1>10. /\ DOMAIN x = Fields /\ x.cand = z.cand /\ x.scored = z.scored /\ x.pend = z.pend \o w /\ x.hits = z.hits
       /\ x.batch = t /\ x.want = z.want \cup P /\ x.miss = z.miss /\ x.expands = z.expands /\ x.at = z.at
       /\ x.seen = z.seen
  BY <1>8, <1>9 DEF Fields, t
<1>11. SearchTypes(x) /\ Once(x) /\ Best(x)
  <2>1. x.batch \in Seq(Nodes) /\ x.expands \in Nat /\ x.want \in SUBSET Pages
    BY <1>2, <1>3, <1>5, <1>8, <1>10 DEF SearchTypes, P, t
  <2>2. /\ x.cand = q.cand /\ x.scored = q.scored /\ x.seen = q.seen \cup Range(new) /\ x.pend = q.pend \o w
        /\ x.hits = q.hits /\ x.miss = q.miss
    BY <1>7, <1>8, <1>10
  <2> QED BY <1>2, <1>4, <1>6, <1>10, <2>1, <2>2, JoinedIs
<1>12. PendHeld(x) /\ x.hits = <<>> /\ x.at = "wave"
  BY <1>1, <1>2, <1>8, <1>10 DEF PendHeld, Frozen
<1>13. CASE x.batch # <<>>
  <2>1. q' = x
    BY <1>1, <1>13
  <2>2. Control(x) /\ HitsHeld(x) /\ Ended(x)
    BY <1>2, <1>12, <1>13 DEF Control, Places, Turns, HitsHeld, Ended, InP3
  <2> QED BY <1>2, <1>11, <1>12, <2>1, <2>2, RunsOn
<1>14. CASE x.batch = <<>>
  <2>1. q' = [x EXCEPT !.at = "issue", !.then = "P3", !.waves = @ + 1]
    BY <1>1, <1>14
  <2>2. /\ DOMAIN q' = Fields /\ q'.at = "issue" /\ q'.then = "P3" /\ q'.cand = x.cand /\ q'.scored = x.scored
        /\ q'.seen = x.seen /\ q'.pend = x.pend /\ q'.hits = x.hits /\ q'.batch = x.batch /\ q'.want = x.want
        /\ q'.miss = x.miss /\ q'.expands = x.expands
    BY <1>10, <2>1 DEF Fields
  <2>3. SearchTypes(q')
    BY <1>11, <2>2 DEF SearchTypes
  <2>4. Once(q') /\ Best(q') /\ PendHeld(q')
    BY <1>11, <1>12, <2>2, SameLists
  <2>5. Control(q') /\ HitsHeld(q') /\ Ended(q')
    BY <1>2, <1>12, <2>2 DEF Control, Places, Turns, HitsHeld, Ended, InP3
  <2> QED BY <1>2, <2>2, <2>3, <2>4, <2>5, RunsOn
<1> QED BY <1>13, <1>14

\* A step of the control and the pipe.
LEMMA PipeStep ==
  ASSUME NEW x, NEW y, SearchInv(x), Algo # "beam", Keeps(x, y, {"at", "then", "waves", "want", "miss", "toks"}),
         y.want \in SUBSET Pages, y.miss \in SUBSET Pages,
         Control(y), HitsHeld(y), Ended(y), y.at \notin {"warm", "begin", "done"}
  PROVE  SearchInv(y)
<1>1. /\ DOMAIN y = Fields /\ y.cand = x.cand /\ y.scored = x.scored /\ y.seen = x.seen
      /\ y.pend = x.pend /\ y.hits = x.hits /\ y.batch = x.batch /\ y.expands = x.expands
  BY DEF Keeps, Fields
<1>2. SearchTypes(y)
  BY <1>1 DEF SearchInv, SearchTypes
<1> QED BY <1>1, <1>2, QuietKept

LEMMA P3WavesEndKept ==
  ASSUME SearchInv(q), P3WavesEnd
  PROVE  SearchInv(q')
<1>1. q.at = "P3" /\ q' = [q EXCEPT !.at = "drain", !.then = "P3", !.waves = 0]
  BY DEF P3WavesEnd
<1>2. SearchTypes(q) /\ DOMAIN q = Fields /\ Algo # "beam" /\ Paged /\ Policy = "P3" /\ ~Host /\ q.hits = <<>>
  BY <1>1, AtP3
<1>3. /\ Keeps(q, q', {"at", "then", "waves", "want", "miss", "toks"}) /\ q'.at = "drain" /\ q'.then = "P3"
      /\ q'.want = q.want /\ q'.miss = q.miss /\ q'.hits = q.hits
  BY <1>1, <1>2 DEF Keeps, Fields
<1>4. Control(q') /\ HitsHeld(q') /\ Ended(q')
  BY <1>2, <1>3 DEF Control, Places, Turns, HitsHeld, Ended, InP3
<1> QED BY <1>2, <1>3, <1>4, PipeStep DEF SearchTypes

\* P3 leaves its loop: at the limit, or with nothing to expand and nothing that
\* waits; what waits when fills are frozen is cut short.
LEMMA LeavesKept ==
  ASSUME SearchInv(q), q.at = "P3", Keeps(q, q', {"at", "then"}), q'.at = "all", q'.then = "last",
         CutShort \/ (q.pend = <<>> /\ AllExpanded(q))
  PROVE  SearchInv(q')
<1>2. SearchTypes(q) /\ DOMAIN q = Fields /\ Algo # "beam" /\ Paged /\ Policy = "P3" /\ ~Host /\ q.hits = <<>>
  BY AtP3
<1>3. /\ Keeps(q, q', {"at", "then", "waves", "want", "miss", "toks"}) /\ q'.at = "all" /\ q'.then = "last"
      /\ q'.want = q.want /\ q'.miss = q.miss /\ q'.hits = q.hits /\ q'.pend = q.pend /\ q'.cand = q.cand
      /\ q'.expanded = q.expanded
  BY <1>2 DEF Keeps, Fields
<1>4. Control(q') /\ HitsHeld(q') /\ Ended(q')
  BY <1>2, <1>3 DEF Control, Places, Turns, HitsHeld, Ended, InP3, AllExpanded
<1>5. q'.want \in SUBSET Pages /\ q'.miss \in SUBSET Pages /\ q'.at \notin {"warm", "begin", "done"}
  BY <1>2, <1>3 DEF SearchTypes
<1> QED BY <1>2, <1>3, <1>4, <1>5, PipeStep

LEMMA P3StuckKept ==
  ASSUME SearchInv(q), P3Stuck
  PROVE  SearchInv(q')
<1>1. /\ q.at = "P3" /\ pick_batch(q, opt.ebatch) = <<>>
      /\ q' = IF q.pend = <<>> \/ opt.freeze THEN [q EXCEPT !.at = "all", !.then = "last"]
              ELSE [q EXCEPT !.at = "issue", !.then = "cover", !.want = StuckNeeds]
  BY DEF P3Stuck
<1>2. /\ opt \in Configs /\ SearchTypes(q) /\ DOMAIN q = Fields /\ Algo # "beam" /\ Paged /\ Policy = "P3" /\ ~Host
      /\ q.hits = <<>> /\ PendHeld(q)
  BY <1>1, AtP3
<1>3. CASE q.pend = <<>> \/ opt.freeze
  <2>1. opt.iters = 0 => AllExpanded(q)
    BY <1>1, <1>2, PickIs DEF SearchTypes
  <2>2. CutShort \/ (q.pend = <<>> /\ AllExpanded(q))
    BY <1>2, <1>3, <2>1 DEF CutShort, PendHeld, Frozen, Paged
  <2>3. Keeps(q, q', {"at", "then"}) /\ q'.at = "all" /\ q'.then = "last"
    BY <1>1, <1>2, <1>3 DEF Keeps, Fields
  <2> QED BY <1>1, <2>2, <2>3, LeavesKept
<1>4. CASE ~(q.pend = <<>> \/ opt.freeze)
  <2>1. q' = [q EXCEPT !.at = "issue", !.then = "cover", !.want = StuckNeeds]
    BY <1>1, <1>4
  <2>2. StuckNeeds \in SUBSET Pages
    <3>1. \A i \in DOMAIN q.pend : q.pend[i] \in Pend
      BY <1>2 DEF SearchTypes
    <3>2. \A i \in DOMAIN q.pend : q.pend[i].pages \in SUBSET Pages
      BY <3>1 DEF Pend
    <3> QED BY <3>2 DEF StuckNeeds
  <2>3. /\ Keeps(q, q', {"at", "then", "waves", "want", "miss", "toks"}) /\ q'.at = "issue" /\ q'.then = "cover"
        /\ q'.want = StuckNeeds /\ q'.miss = q.miss /\ q'.hits = q.hits
    BY <1>2, <2>1 DEF Keeps, Fields
  <2>4. Control(q') /\ HitsHeld(q') /\ Ended(q')
    BY <1>2, <2>3 DEF Control, Places, Turns, HitsHeld, Ended, InP3
  <2> QED BY <1>2, <2>2, <2>3, <2>4, PipeStep DEF SearchTypes
<1> QED BY <1>3, <1>4

LEMMA P3EndsKept ==
  ASSUME SearchInv(q), P3Ends
  PROVE  SearchInv(q')
<1>1. q.at = "P3" /\ ItersDone(q) /\ q' = [q EXCEPT !.at = "all", !.then = "last"]
  BY DEF P3Ends, P3Stops
<1>2. CutShort
  BY <1>1 DEF ItersDone, CutShort
<1>3. Keeps(q, q', {"at", "then"}) /\ q'.at = "all" /\ q'.then = "last"
  <2>1. DOMAIN q = Fields
    BY <1>1, AtP3
  <2> QED BY <1>1, <2>1 DEF Keeps, Fields
<1> QED BY <1>1, <1>2, <1>3, LeavesKept

LEMMA DrainPendingKept ==
  ASSUME SearchInv(q), drain_pending
  PROVE  SearchInv(q')
<1> DEFINE back == CASE q.at = "drain" -> q.then [] q.at = "hits" -> "hop" [] q.at = "last" -> "end"
<1>1. (q.at \in {"drain", "last"} \/ (q.at = "hits" /\ q.hits = <<>>)) /\ \E R : q' = Drained(q, R, "insert", back)
  BY DEF drain_pending
<1>2. PICK R : q' = Drained(q, R, "insert", back)
  BY <1>1
<1>3. /\ opt \in Configs /\ SearchTypes(q) /\ DOMAIN q = Fields /\ Paged /\ Policy = "P3" /\ ~Host
      /\ PendHeld(q) /\ Once(q) /\ Best(q) /\ Ended(q) /\ Turns(q) /\ q.hits = <<>>
  BY <1>1, AtP3
<1>4. \/ q.at = "drain" /\ back = "P3"
      \/ q.at = "hits" /\ back = "hop" /\ OneByOne
      \/ q.at = "last" /\ back = "end"
  BY <1>1, <1>3 DEF Turns
<1> HIDE DEF back
<1>5. /\ Keeps(q, q', {"pend", "hits", "at", "back"})
      /\ SearchTypes(q') /\ PendHeld(q') /\ Once(q') /\ Best(q')
      /\ (q'.hits = <<>> /\ q'.at = back) \/ (q'.hits # <<>> /\ q'.at = "insert" /\ q'.back = back)
      /\ q.pend = <<>> => q'.pend = <<>> /\ q'.at = back
  BY <1>2, <1>3, DrainedIs
<1>6. q'.cand = q.cand /\ q'.expanded = q.expanded
  BY <1>5 DEF Keeps, Fields
<1>7. Control(q') /\ HitsHeld(q')
  BY <1>3, <1>4, <1>5 DEF Control, Places, Turns, HitsHeld, InP3
<1>8. Ended(q')
  BY <1>3, <1>4, <1>5, <1>6 DEF Ended, AllExpanded
<1> QED BY <1>3, <1>4, <1>5, <1>7, <1>8, RunsOn

LEMMA P3AnswersKept ==
  ASSUME SearchInv(q), P3Answers
  PROVE  SearchInv(q')
<1>1. q.at = "end" /\ q' = Answered(q)
  BY DEF P3Answers
<1>2. Algo # "beam" /\ q.hits = <<>> /\ Paged /\ Policy = "P3" /\ Ended(q)
  BY <1>1, AtP3
<1>3. CutShort \/ (q.pend = <<>> /\ AllExpanded(q))
  BY <1>1, <1>2 DEF Ended
<1>4. (opt.iters = 0 \/ Policy = "P2") /\ ~opt.freeze => q.pend = <<>>
  BY <1>2, <1>3 DEF CutShort
<1> QED BY <1>1, <1>2, <1>3, <1>4, AnswersKept

LEMMA ResidentKept ==
  ASSUME SearchInv(q), score_resident
  PROVE  SearchInv(q')
<1> DEFINE v == Head(q.hits)
           t == Tail(q.hits)
           s == Scored(q, v)
<1>1. q.at = "hits" /\ q.hits # <<>> /\ q' = [s EXCEPT !.hits = Tail(@)]
  BY DEF score_resident
<1>2. /\ opt \in Configs /\ SearchTypes(q) /\ DOMAIN q = Fields /\ Paged /\ Policy = "P3" /\ ~Host
      /\ PendHeld(q) /\ Once(q) /\ Best(q) /\ Turns(q)
  BY <1>1, AtP3
<1>3. /\ v \in Range(q.hits) /\ v \in Nodes /\ t \in Seq(Nodes)
      /\ Distinct(t) /\ v \notin Range(t) /\ Range(q.hits) = Range(t) \cup {v}
  BY <1>1, <1>2, TailIs DEF Once, SearchTypes
<1> HIDE DEF v
<1>4. Keeps(q, s, {"cand", "scored"}) /\ s.cand = insert_cand(q.cand, v) /\ s.scored = [q.scored EXCEPT ![v] = @ + 1]
  BY <1>2, ScoredIs
<1> HIDE DEF s
<1>5. /\ DOMAIN s = Fields /\ s.hits = q.hits /\ s.at = q.at /\ s.seen = q.seen /\ s.pend = q.pend
      /\ s.batch = q.batch /\ s.want = q.want /\ s.miss = q.miss /\ s.expands = q.expands
  BY <1>4 DEF Keeps, Fields
<1>6. /\ DOMAIN q' = Fields /\ q'.hits = t /\ q'.at = s.at /\ q'.cand = s.cand /\ q'.scored = s.scored
      /\ q'.seen = s.seen /\ q'.pend = s.pend /\ q'.batch = s.batch /\ q'.want = s.want /\ q'.miss = s.miss
      /\ q'.expands = s.expands
  BY <1>1, <1>5 DEF Fields, t
<1> HIDE DEF t
<1>7. q.scored[v] = 0 /\ v \in q.seen /\ v \notin PendIds(q)
  BY <1>2, <1>3 DEF Once, HitIds
<1>8. SearchTypes(q')
  <2>1. q'.cand \in Seq(Nodes) /\ q'.scored \in [Nodes -> Nat]
    BY <1>2, <1>3, <1>4, <1>6, <1>7, ScoredTypes
  <2> QED BY <1>2, <1>3, <1>5, <1>6, <2>1 DEF SearchTypes
<1>9. Once(q') /\ Best(q')
  <2>1. PendIds(q') = PendIds(q) /\ HitIds(q') = HitIds(q) \ {v}
    BY <1>3, <1>5, <1>6 DEF PendIds, HitIds
  <2>2. /\ q'.seen = q.seen \cup {v} /\ q'.cand = insert_cand(q.cand, v)
        /\ q'.scored = [q.scored EXCEPT ![v] = @ + 1]
    BY <1>4, <1>5, <1>6, <1>7
  <2>3. /\ Distinct(Ids(q'.pend)) /\ Distinct(q'.hits) /\ PendIds(q') \cap HitIds(q') = {}
        /\ PendIds(q') \cup HitIds(q') = (PendIds(q) \cup HitIds(q)) \ {v}
    BY <1>2, <1>3, <1>5, <1>6, <1>7, <2>1 DEF Once
  <2> QED BY <1>2, <1>3, <1>7, <1>8, <2>2, <2>3, OnceScored
<1>10. PendHeld(q')
  BY <1>2, <1>5, <1>6 DEF PendHeld
<1>11. Control(q') /\ HitsHeld(q') /\ Ended(q')
  BY <1>1, <1>2, <1>5, <1>6 DEF Control, Places, Turns, HitsHeld, Ended, InP3
<1> QED BY <1>1, <1>2, <1>5, <1>6, <1>8, <1>9, <1>10, <1>11, RunsOn

\* The next vertex of a synchronous hop: what is resident is scored, what is not
\* waits, or is dropped when fills are frozen.
LEMMA HopKept ==
  ASSUME SearchInv(q), hop_hide_score
  PROVE  SearchInv(q')
<1> DEFINE v == Head(q.batch)
           t == Tail(q.batch)
           new == Fresh(v, q.seen)
           all == [i \in DOMAIN new |-> Waiting(new[i], opt.vpages[new[i]])]
           R == resident'[Me]
           miss == StillPending(all, R)
           ready == Ready(all, R)
           z == Sees(q, new)
           x == [z EXCEPT !.batch = Tail(@), !.hits = ready]
           P == VecPages(Range(Ids(miss)))
<1>1. /\ q.at = "hop" /\ q.batch # <<>>
      /\ q' = IF opt.freeze \/ miss = <<>> THEN [x EXCEPT !.at = "hits"]
              ELSE [x EXCEPT !.pend = @ \o miss, !.want = P, !.at = "issue", !.then = "hits"]
  BY DEF hop_hide_score
<1>2. /\ opt \in Configs /\ SearchTypes(q) /\ DOMAIN q = Fields /\ Algo # "beam" /\ Paged /\ Policy = "P3" /\ ~Host
      /\ PendHeld(q) /\ Once(q) /\ Best(q) /\ q.hits = <<>> /\ OneByOne
  BY <1>1, AtP3 DEF Turns
<1>3. v \in Nodes /\ t \in Seq(Nodes)
  BY <1>1, <1>2, TailIs DEF SearchTypes
<1>4. new \in Seq(Nodes) /\ Distinct(new) /\ Range(new) \cap q.seen = {} /\ Range(new) \subseteq Nodes
  <2> HIDE DEF v
  <2> QED BY <1>2, <1>3, FreshIs DEF SearchTypes
<1>5. all \in Seq(Pend) /\ Distinct(Ids(all)) /\ Ids(all) = new
  <2> HIDE DEF new
  <2> QED BY <1>2, <1>4, VectorQueue
<1> HIDE DEF v, new, t, all, R
<1>6. /\ miss \in Seq(Pend) /\ Distinct(Ids(miss)) /\ ready \in Seq(Nodes) /\ Distinct(ready)
      /\ Range(Ids(miss)) \cap Range(ready) = {} /\ Range(new) = Range(Ids(miss)) \cup Range(ready)
  BY <1>5, SplitIs
<1> HIDE DEF miss, ready
<1>7. P \in SUBSET Pages /\ Range(Ids(miss)) \subseteq Nodes /\ (Range(Ids(miss)) = {} <=> miss = <<>>)
  <2>1. Range(Ids(miss)) \subseteq Nodes /\ (Range(Ids(miss)) = {} <=> miss = <<>>)
    BY <1>6, IdsIs
  <2>2. \A u \in Nodes : opt.vpages[u] \in SUBSET Pages
    BY <1>2, ConfigIs
  <2> QED BY <2>1, <2>2 DEF VecPages
<1> HIDE DEF P
<1>8. Keeps(q, z, {"seen"}) /\ z.seen = q.seen \cup Range(new)
  BY <1>2, CommitsIs
<1> HIDE DEF z
<1>9. /\ DOMAIN z = Fields /\ z.cand = q.cand /\ z.scored = q.scored /\ z.pend = q.pend /\ z.hits = q.hits
      /\ z.batch = q.batch /\ z.want = q.want /\ z.miss = q.miss /\ z.expands = q.expands /\ z.at = q.at
  BY <1>8 DEF Keeps, Fields
<1>10. /\ DOMAIN x = Fields /\ x.cand = z.cand /\ x.scored = z.scored /\ x.pend = z.pend /\ x.hits = ready
       /\ x.batch = t /\ x.want = z.want /\ x.miss = z.miss /\ x.expands = z.expands /\ x.seen = z.seen
  BY <1>9 DEF Fields, t
<1> HIDE DEF x
<1>11. PendIds(q) \subseteq q.seen /\ HitIds(q) = {}
  <2>1. PendIds(q) \subseteq Nodes
    BY <1>2, IdsIs DEF SearchTypes, PendIds
  <2>2. HitIds(q) = {}
    BY <1>2, NoIds DEF HitIds
  <2> QED BY <1>2, <2>1, <2>2 DEF Once
<1>12. CASE opt.freeze \/ miss = <<>>
  <2>1. q' = [x EXCEPT !.at = "hits"]
    BY <1>1, <1>12
  <2>2. /\ DOMAIN q' = Fields /\ q'.at = "hits" /\ q'.cand = q.cand /\ q'.scored = q.scored
        /\ q'.seen = q.seen \cup Range(new) /\ q'.pend = q.pend /\ q'.hits = ready /\ q'.batch = t
        /\ q'.want = q.want /\ q'.miss = q.miss /\ q'.expands = q.expands
    BY <1>8, <1>9, <1>10, <2>1 DEF Fields
  <2>3. SearchTypes(q')
    BY <1>2, <1>3, <1>4, <1>6, <2>2 DEF SearchTypes
  <2>4. PendIds(q') = PendIds(q) /\ HitIds(q') = Range(ready)
    BY <2>2 DEF PendIds, HitIds
  <2>5. ~Frozen => Range(ready) = Range(new)
    BY <1>2, <1>6, <1>7, <1>12 DEF Frozen, Paged
  <2>6. Once(q')
    <3>1. /\ Distinct(Ids(q'.pend)) /\ Distinct(q'.hits) /\ PendIds(q') \cap HitIds(q') = {}
          /\ PendIds(q') \cup HitIds(q') \subseteq PendIds(q) \cup HitIds(q) \cup Range(new)
          /\ ~Frozen => PendIds(q) \cup HitIds(q) \cup Range(new) \subseteq PendIds(q') \cup HitIds(q')
      <4>1. Distinct(Ids(q.pend))
        BY <1>2 DEF Once
      <4> QED BY <1>4, <1>6, <1>11, <2>2, <2>4, <2>5, <4>1
    <3> QED BY <1>2, <1>4, <2>2, <2>3, <3>1, OnceListed
  <2>7. Best(q') /\ PendHeld(q')
    BY <1>2, <2>2 DEF Best, ScoredSet, PendHeld
  <2>8. Control(q') /\ HitsHeld(q') /\ Ended(q')
    BY <1>2, <2>2 DEF Control, Places, Turns, HitsHeld, Ended, InP3
  <2> QED BY <1>2, <2>2, <2>3, <2>6, <2>7, <2>8, RunsOn
<1>13. CASE ~(opt.freeze \/ miss = <<>>)
  <2>1. q' = [x EXCEPT !.pend = @ \o miss, !.want = P, !.at = "issue", !.then = "hits"]
    BY <1>1, <1>13
  <2>2. /\ DOMAIN q' = Fields /\ q'.at = "issue" /\ q'.then = "hits" /\ q'.cand = q.cand /\ q'.scored = q.scored
        /\ q'.seen = q.seen \cup Range(new) /\ q'.pend = q.pend \o miss /\ q'.hits = ready /\ q'.batch = t
        /\ q'.want = P /\ q'.miss = q.miss /\ q'.expands = q.expands
    BY <1>8, <1>9, <1>10, <2>1 DEF Fields
  <2>3. /\ q.pend \o miss \in Seq(Pend) /\ Distinct(Ids(q.pend \o miss))
        /\ Range(Ids(q.pend \o miss)) = PendIds(q) \cup Range(Ids(miss))
    <3>1. q.pend \in Seq(Pend) /\ Distinct(Ids(q.pend)) /\ Range(Ids(q.pend)) \cap Range(Ids(miss)) = {}
      BY <1>2, <1>4, <1>6, <1>11 DEF SearchTypes, Once, PendIds
    <3> QED BY <1>6, <3>1, JoinIs DEF PendIds
  <2>4. SearchTypes(q')
    BY <1>2, <1>3, <1>4, <1>6, <1>7, <2>2, <2>3 DEF SearchTypes
  <2>5. PendIds(q') = PendIds(q) \cup Range(Ids(miss)) /\ HitIds(q') = Range(ready)
    BY <2>2, <2>3 DEF PendIds, HitIds
  <2>6. Once(q')
    <3>1. /\ Distinct(Ids(q'.pend)) /\ Distinct(q'.hits) /\ PendIds(q') \cap HitIds(q') = {}
          /\ PendIds(q') \cup HitIds(q') \subseteq PendIds(q) \cup HitIds(q) \cup Range(new)
          /\ PendIds(q) \cup HitIds(q) \cup Range(new) \subseteq PendIds(q') \cup HitIds(q')
      BY <1>4, <1>6, <1>11, <2>2, <2>3, <2>5
    <3> QED BY <1>2, <1>4, <2>2, <2>4, <3>1, OnceListed
  <2>7. Best(q') /\ PendHeld(q')
    BY <1>2, <1>13, <2>2 DEF Best, ScoredSet, PendHeld, Frozen
  <2>8. Control(q') /\ HitsHeld(q') /\ Ended(q')
    BY <1>2, <2>2 DEF Control, Places, Turns, HitsHeld, Ended, InP3
  <2> QED BY <1>2, <2>2, <2>4, <2>6, <2>7, <2>8, RunsOn
<1> QED BY <1>12, <1>13

LEMMA HopsEndKept ==
  ASSUME SearchInv(q), HopsEnd
  PROVE  SearchInv(q')
<1>1. q.at = "hop" /\ q' = [q EXCEPT !.at = "P3", !.waves = @ + 1]
  BY DEF HopsEnd
<1>2. SearchTypes(q) /\ DOMAIN q = Fields /\ Algo # "beam" /\ Paged /\ Policy = "P3" /\ ~Host /\ q.hits = <<>>
  BY <1>1, AtP3
<1>3. /\ Keeps(q, q', {"at", "then", "waves", "want", "miss", "toks"}) /\ q'.at = "P3"
      /\ q'.want = q.want /\ q'.miss = q.miss /\ q'.hits = q.hits
  BY <1>1, <1>2 DEF Keeps, Fields
<1>4. Control(q') /\ HitsHeld(q') /\ Ended(q')
  BY <1>2, <1>3 DEF Control, Places, Turns, HitsHeld, Ended, InP3
<1>5. q'.want \in SUBSET Pages /\ q'.miss \in SUBSET Pages /\ q'.at \notin {"warm", "begin", "done"}
  BY <1>2, <1>3 DEF SearchTypes
<1> QED BY <1>2, <1>3, <1>4, <1>5, PipeStep

\* What is known while the pipe works for the search.
LEMMA AtPipe ==
  ASSUME SearchInv(q), q.at \in {"issue", "stall", "cover", "all"}
  PROVE  /\ opt \in Configs /\ SearchTypes(q) /\ DOMAIN q = Fields /\ Algo # "beam" /\ Turns(q) /\ HitsHeld(q) /\ Ended(q)
         /\ (Host /\ Algo = "pq" /\ ~opt.oracle /\ ~Paged) \/ (Paged /\ Policy = "P3" /\ ~Host)
<1>1. Places(q) /\ Turns(q) /\ opt \in Configs /\ SearchTypes(q) /\ DOMAIN q = Fields
  BY DEF SearchInv, Control, SearchTypes
<1>2. Policy \in {"P0", "P1", "P2", "P3"}
  BY <1>1, ConfigIs
<1>3. Host \/ (Paged /\ Policy = "P3")
  BY <1>1, <1>2 DEF Places, InHost, InP3
<1>4. (Host /\ Algo = "pq" /\ ~opt.oracle /\ ~Paged) \/ (Paged /\ Policy = "P3" /\ ~Host)
  BY <1>1, <1>3 DEF Turns, Host, Paged
<1>5. Algo # "beam"
  BY <1>4 DEF Paged
<1>6. HitsHeld(q) /\ Ended(q)
  BY <1>5 DEF SearchInv, Lists
<1> QED BY <1>1, <1>4, <1>5, <1>6

\* An issue, with or without a stall, and then the search goes on.
LEMMA IssuedKept ==
  ASSUME SearchInv(q), q.at \in {"issue", "stall"}, Keeps(q, q', {"at", "miss", "toks"}),
         q'.at = q.then \/ q'.at = "stall", q'.miss \in SUBSET Pages
  PROVE  SearchInv(q')
<1>1. /\ SearchTypes(q) /\ Algo # "beam" /\ Turns(q) /\ HitsHeld(q) /\ Ended(q)
      /\ (Host /\ ~opt.oracle /\ ~Paged) \/ (Paged /\ Policy = "P3" /\ ~Host)
  BY AtPipe
<1>2. /\ q'.then = q.then /\ q'.want = q.want /\ q'.hits = q.hits /\ q'.cand = q.cand /\ q'.expanded = q.expanded
      /\ Keeps(q, q', {"at", "then", "waves", "want", "miss", "toks"})
  BY DEF Keeps, Fields
<1>3. q'.at \in {"stall", "cover", "P3", "hits"} /\ (Host => q'.at \in {"stall", "cover"})
  BY <1>1 DEF Turns
<1>4. Control(q')
  BY <1>1, <1>2, <1>3 DEF Control, Places, Turns, InHost, InP3
<1>5. HitsHeld(q')
  BY <1>1, <1>2, <1>3 DEF HitsHeld
<1>6. Ended(q')
  BY <1>1, <1>2, <1>3 DEF Ended, AllExpanded
<1>7. q'.want \in SUBSET Pages /\ q'.at \notin {"warm", "begin", "done"}
  BY <1>1, <1>2, <1>3 DEF SearchTypes
<1> QED BY <1>1, <1>2, <1>4, <1>5, <1>6, <1>7, PipeStep

LEMMA IssuesKept ==
  ASSUME SearchInv(q), Issues \/ IssuesNothing \/ Stalls \/ Unstalls
  PROVE  SearchInv(q')
<1>2. q.at \in {"issue", "stall"}
  BY DEF Issues, IssuesNothing, Stalls, Unstalls
<1>3. DOMAIN q = Fields /\ q.want \in SUBSET Pages /\ q.miss \in SUBSET Pages
  BY <1>2, AtPipe DEF SearchTypes
<1>4. CASE Issues
  <2>1. PICK T : q' = [q EXCEPT !.at = q.then, !.toks = T]
    BY <1>4 DEF Issues
  <2>2. Keeps(q, q', {"at", "miss", "toks"}) /\ q'.at = q.then /\ q'.miss = q.miss
    BY <1>3, <2>1 DEF Keeps, Fields
  <2> QED BY <1>2, <1>3, <2>2, IssuedKept
<1>5. CASE IssuesNothing
  <2>1. q' = [q EXCEPT !.at = q.then]
    BY <1>5 DEF IssuesNothing
  <2>2. Keeps(q, q', {"at", "miss", "toks"}) /\ q'.at = q.then /\ q'.miss = q.miss
    BY <1>3, <2>1 DEF Keeps, Fields
  <2> QED BY <1>2, <1>3, <2>2, IssuedKept
<1>6. CASE Stalls
  <2> DEFINE M == Missing(slot'[Me], resident'[Me], q.want)
  <2>1. q' = [q EXCEPT !.at = "stall", !.miss = M]
    BY <1>6 DEF Stalls
  <2>2. M \in SUBSET q.want
    BY <1>3, MissingPages
  <2> HIDE DEF M
  <2>3. Keeps(q, q', {"at", "miss", "toks"}) /\ q'.at = "stall" /\ q'.miss = M
    BY <1>3, <2>1 DEF Keeps, Fields
  <2> QED BY <1>2, <1>3, <2>2, <2>3, IssuedKept
<1>7. CASE Unstalls
  <2>1. q' = [q EXCEPT !.at = q.then, !.miss = {}]
    BY <1>7 DEF Unstalls
  <2>2. Keeps(q, q', {"at", "miss", "toks"}) /\ q'.at = q.then /\ q'.miss = {}
    BY <1>3, <2>1 DEF Keeps, Fields
  <2> QED BY <1>2, <2>2, IssuedKept
<1> QED BY <1>4, <1>5, <1>6, <1>7

\* A turn of the wait for what covers the search, or for all the slots.
LEMMA CoveredKept ==
  ASSUME SearchInv(q), q.at = "cover", Keeps(q, q', {"at", "then", "want", "toks"}), q'.want \in SUBSET Pages,
         \/ q'.at = Covered /\ q'.then = "P3"
         \/ q'.at = "all" /\ q'.then = Covered
         \/ q'.at = "cover" /\ q'.then = q.then
  PROVE  SearchInv(q')
<1>1. /\ SearchTypes(q) /\ Algo # "beam" /\ Turns(q) /\ HitsHeld(q) /\ Ended(q)
      /\ (Host /\ Algo = "pq" /\ ~opt.oracle /\ ~Paged) \/ (Paged /\ Policy = "P3" /\ ~Host)
  BY AtPipe
<1>2. /\ q'.miss = q.miss /\ q'.hits = q.hits /\ q'.cand = q.cand /\ q'.expanded = q.expanded
      /\ Keeps(q, q', {"at", "then", "waves", "want", "miss", "toks"})
  BY DEF Keeps, Fields
<1>3. Covered = IF Host THEN "rank" ELSE "drain"
  BY <1>1 DEF Covered, Host, Paged
<1>4. Control(q')
  BY <1>1, <1>2, <1>3 DEF Control, Places, Turns, InHost, InP3
<1>5. HitsHeld(q')
  BY <1>1, <1>2, <1>3 DEF HitsHeld
<1>6. Ended(q')
  BY <1>1, <1>2, <1>3 DEF Ended, AllExpanded
<1>7. q'.miss \in SUBSET Pages /\ q'.at \notin {"warm", "begin", "done"}
  BY <1>1, <1>2, <1>3 DEF SearchTypes
<1> QED BY <1>1, <1>2, <1>4, <1>5, <1>6, <1>7, PipeStep

LEMMA WaitsCoveringKept ==
  ASSUME SearchInv(q), WaitsCovering
  PROVE  SearchInv(q')
<1> DEFINE left == {p \in q.want : ~covers(Me, p)'}
<1>1. /\ q.at = "cover"
      /\ \/ q' = [[q EXCEPT !.want = left, !.then = "P3"] EXCEPT !.at = Covered]
         \/ q' = [[q EXCEPT !.want = left, !.then = "P3"] EXCEPT !.at = "all", !.then = Covered]
         \/ q' = [q EXCEPT !.want = left]
  BY DEF WaitsCovering
<1>2. DOMAIN q = Fields /\ q.want \in SUBSET Pages
  BY <1>1, AtPipe DEF SearchTypes
<1>3. left \in SUBSET Pages
  BY <1>2
<1> HIDE DEF left
<1>4. /\ Keeps(q, q', {"at", "then", "want", "toks"}) /\ q'.want = left
      /\ \/ q'.at = Covered /\ q'.then = "P3"
         \/ q'.at = "all" /\ q'.then = Covered
         \/ q'.at = "cover" /\ q'.then = q.then
  <2>1. CASE q' = [[q EXCEPT !.want = left, !.then = "P3"] EXCEPT !.at = Covered]
    BY <1>2, <2>1 DEF Keeps, Fields
  <2>2. CASE q' = [[q EXCEPT !.want = left, !.then = "P3"] EXCEPT !.at = "all", !.then = Covered]
    BY <1>2, <2>2 DEF Keeps, Fields
  <2>3. CASE q' = [q EXCEPT !.want = left]
    BY <1>1, <1>2, <2>3 DEF Keeps, Fields
  <2> QED BY <1>1, <2>1, <2>2, <2>3
<1> QED BY <1>1, <1>3, <1>4, CoveredKept

LEMMA CoverIssuesKept ==
  ASSUME SearchInv(q), CoverIssues
  PROVE  SearchInv(q')
<1> DEFINE left == {p \in q.want : ~covers(Me, p)}
<1>1. q.at = "cover" /\ \E T : q' = [q EXCEPT !.want = left, !.toks = T]
  BY DEF CoverIssues
<1>2. DOMAIN q = Fields /\ q.want \in SUBSET Pages
  BY <1>1, AtPipe DEF SearchTypes
<1>3. left \in SUBSET Pages
  BY <1>2
<1> HIDE DEF left
<1>4. PICK T : q' = [q EXCEPT !.want = left, !.toks = T]
  BY <1>1
<1>5. Keeps(q, q', {"at", "then", "want", "toks"}) /\ q'.want = left /\ q'.at = "cover" /\ q'.then = q.then
  BY <1>1, <1>2, <1>4 DEF Keeps, Fields
<1> QED BY <1>1, <1>3, <1>5, CoveredKept

LEMMA WaitsAllKept ==
  ASSUME SearchInv(q), WaitsAll
  PROVE  SearchInv(q')
<1>1. q.at = "all" /\ q' = [q EXCEPT !.at = q.then, !.then = "P3"]
  BY DEF WaitsAll
<1>2. /\ SearchTypes(q) /\ DOMAIN q = Fields /\ Algo # "beam" /\ Turns(q) /\ HitsHeld(q) /\ Ended(q)
      /\ (Host /\ ~opt.oracle /\ ~Paged) \/ (Paged /\ Policy = "P3" /\ ~Host)
  BY <1>1, AtPipe
<1>3. /\ Keeps(q, q', {"at", "then", "waves", "want", "miss", "toks"}) /\ q'.at = q.then /\ q'.then = "P3"
      /\ q'.miss = q.miss /\ q'.hits = q.hits /\ q'.cand = q.cand /\ q'.expanded = q.expanded /\ q'.want = q.want
      /\ q'.pend = q.pend
  BY <1>1, <1>2 DEF Keeps, Fields
<1>4. q.then \in {"rank", "last", "drain"} /\ (Host => q.then = "rank") /\ (~Host => q.then # "rank")
  BY <1>1, <1>2 DEF Turns
<1>5. Control(q') /\ HitsHeld(q')
  BY <1>1, <1>2, <1>3, <1>4 DEF Control, Places, Turns, InHost, InP3, HitsHeld
<1>6. Ended(q')
  BY <1>1, <1>2, <1>3, <1>4 DEF Ended, AllExpanded
<1>7. q'.want \in SUBSET Pages /\ q'.miss \in SUBSET Pages /\ q'.at \notin {"warm", "begin", "done"}
  BY <1>2, <1>3, <1>4 DEF SearchTypes
<1> QED BY <1>2, <1>3, <1>5, <1>6, <1>7, PipeStep

-----------------------------------------------------------------------------
(* search_one's beam: only its lists' types and its answer.                *)

LEMMA AtIter ==
  ASSUME SearchInv(q), q.at = "iter"
  PROVE  opt \in Configs /\ SearchTypes(q) /\ DOMAIN q = Fields /\ Algo = "beam"
<1>1. Places(q) /\ opt \in Configs /\ SearchTypes(q) /\ DOMAIN q = Fields
  BY DEF SearchInv, Control, SearchTypes
<1>2. Policy \in {"P0", "P1", "P2", "P3"}
  BY <1>1, ConfigIs
<1> QED BY <1>1, <1>2 DEF Places, InHost, InP3

LEMMA IterKept ==
  ASSUME NEW y, opt \in Configs, Algo = "beam", SearchTypes(y), y.at = "iter"
  PROVE  SearchInv(y)
<1>1. Control(y)
  BY DEF Control, Places, Turns
<1> QED BY <1>1 DEF SearchInv, Unbegun, Answer

LEMMA BeamExpandsKept ==
  ASSUME SearchInv(q), BeamExpands
  PROVE  SearchInv(q')
<1> DEFINE v == Head(q.batch)
           I == {i \in DOMAIN Row(v) : Row(v)[i] \in Nodes \ (q.seen \cup {v})}
           next == At(Row(v), I)
<1>1. /\ q.at = "iter" /\ q.batch # <<>>
      /\ \E b : q' = [q EXCEPT !.batch = Tail(@), !.hits = @ \o next, !.seen = @ \cup {v}, !.budget = b]
  BY DEF BeamExpands
<1>2. opt \in Configs /\ SearchTypes(q) /\ DOMAIN q = Fields /\ Algo = "beam"
  BY <1>1, AtIter
<1>3. v \in Nodes /\ Tail(q.batch) \in Seq(Nodes)
  BY <1>1, <1>2, TailIs DEF SearchTypes
<1>4. next \in Seq(Nodes)
  <2> HIDE DEF v
  <2>1. I \in SUBSET DOMAIN Row(v) /\ \A k \in I : Row(v)[k] \in Nodes
    OBVIOUS
  <2> HIDE DEF I
  <2> QED BY <1>2, <1>3, <2>1, NodesAt
<1> HIDE DEF v, next
<1>5. PICK b : q' = [q EXCEPT !.batch = Tail(@), !.hits = @ \o next, !.seen = @ \cup {v}, !.budget = b]
  BY <1>1
<1>6. /\ DOMAIN q' = Fields /\ q'.at = "iter" /\ q'.cand = q.cand /\ q'.hits = q.hits \o next /\ q'.batch = Tail(q.batch)
      /\ q'.pend = q.pend /\ q'.seen = q.seen \cup {v} /\ q'.expands = q.expands /\ q'.scored = q.scored
      /\ q'.want = q.want /\ q'.miss = q.miss
  BY <1>1, <1>2, <1>5 DEF Fields
<1>7. q.hits \o next \in Seq(Nodes)
  BY <1>2, <1>4, ConcatProperties DEF SearchTypes
<1>8. SearchTypes(q')
  BY <1>2, <1>3, <1>6, <1>7 DEF SearchTypes
<1> QED BY <1>2, <1>6, <1>8, IterKept

LEMMA BeamSkipsKept ==
  ASSUME SearchInv(q), BeamSkips
  PROVE  SearchInv(q')
<1>1. q.at = "iter" /\ q.batch # <<>> /\ q' = [q EXCEPT !.batch = Tail(@)]
  BY DEF BeamSkips
<1>2. opt \in Configs /\ SearchTypes(q) /\ DOMAIN q = Fields /\ Algo = "beam"
  BY <1>1, AtIter
<1>3. Tail(q.batch) \in Seq(Nodes)
  BY <1>1, <1>2, TailIs DEF SearchTypes
<1>4. /\ DOMAIN q' = Fields /\ q'.at = "iter" /\ q'.cand = q.cand /\ q'.hits = q.hits /\ q'.batch = Tail(q.batch)
      /\ q'.pend = q.pend /\ q'.seen = q.seen /\ q'.expands = q.expands /\ q'.scored = q.scored
      /\ q'.want = q.want /\ q'.miss = q.miss
  BY <1>1, <1>2 DEF Fields
<1>5. SearchTypes(q')
  BY <1>2, <1>3, <1>4 DEF SearchTypes
<1> QED BY <1>2, <1>4, <1>5, IterKept

LEMMA BeamTurnsKept ==
  ASSUME SearchInv(q), BeamTurns
  PROVE  SearchInv(q')
<1> DEFINE sorted == Sorted(q.hits, opt.code)
           next == Cut(sorted, opt.L)
<1>1. /\ q.at = "iter"
      /\ q' = [q EXCEPT !.cand = next, !.batch = next, !.hits = <<>>, !.expands = @ + 1]
  BY DEF BeamTurns
<1>2. opt \in Configs /\ SearchTypes(q) /\ DOMAIN q = Fields /\ Algo = "beam"
  BY <1>1, AtIter
<1>3. next \in Seq(Nodes)
  <2>1. opt.L \in Nat /\ \A v \in Nodes : opt.code[v] \in Int
    BY <1>2, ConfigIs
  <2>2. sorted \in Seq(Nodes)
    BY <1>2, <2>1, SortedIs DEF SearchTypes
  <2> HIDE DEF sorted
  <2> QED BY <2>1, <2>2, CutIs
<1> HIDE DEF next
<1>4. /\ DOMAIN q' = Fields /\ q'.at = "iter" /\ q'.cand = next /\ q'.hits = <<>> /\ q'.batch = next
      /\ q'.pend = q.pend /\ q'.seen = q.seen /\ q'.expands = q.expands + 1 /\ q'.scored = q.scored
      /\ q'.want = q.want /\ q'.miss = q.miss
  BY <1>1, <1>2 DEF Fields
<1>5. SearchTypes(q')
  BY <1>2, <1>3, <1>4 DEF SearchTypes
<1> QED BY <1>2, <1>4, <1>5, IterKept

LEMMA BeamEndsKept ==
  ASSUME SearchInv(q), BeamEnds
  PROVE  SearchInv(q')
<1> DEFINE m == Max({5 * opt.k, opt.L})
           sorted == Sorted(q.cand, opt.code)
           pool == Cut(sorted, m)
           z == [q EXCEPT !.cand = pool]
           cut == Cut(pool, opt.k)
<1>1. /\ q.at = "iter"
      /\ q' = IF opt.rerank THEN Answered(z) ELSE [q EXCEPT !.cand = pool, !.at = "done", !.out = cut]
  BY DEF BeamEnds
<1>2. opt \in Configs /\ SearchTypes(q) /\ DOMAIN q = Fields /\ Algo = "beam"
  BY <1>1, AtIter
<1>3. opt.k \in Nat /\ opt.L \in Nat /\ \A v \in Nodes : opt.code[v] \in Int
  BY <1>2, ConfigIs
<1>4. m \in Nat
  <2> DEFINE a == 5 * opt.k
             b == opt.L
  <2>1. a \in Nat /\ b \in Nat
    BY <1>3
  <2> HIDE DEF a, b
  <2>2. \E x \in {a, b} : \A y \in {a, b} : x >= y
    BY <2>1
  <2>3. Max({a, b}) \in {a, b}
    BY <2>2 DEF Max
  <2> QED BY <2>1, <2>3 DEF a, b
<1>5. /\ sorted \in Seq(Nodes)
      /\ \A i, j \in DOMAIN sorted : i < j => opt.code[sorted[i]] <= opt.code[sorted[j]]
  BY <1>2, <1>3, SortedIs DEF SearchTypes
<1> HIDE DEF m, sorted
<1>6. pool \in Seq(Nodes) /\ \A i \in DOMAIN pool : i \in DOMAIN sorted /\ pool[i] = sorted[i]
  BY <1>4, <1>5, CutIs
<1> HIDE DEF pool
<1>7. CASE opt.rerank
  <2>1. DOMAIN z = Fields /\ z.cand = pool /\ Keeps(q, z, {"cand"})
    BY <1>2 DEF Fields, Keeps
  <2> HIDE DEF z
  <2>2. /\ Keeps(z, q', {"at", "out"}) /\ q'.at = "done" /\ Len(q'.out) = Min({opt.k, Len(z.cand)})
        /\ \A i, j \in DOMAIN q'.out : i < j => opt.fp[q'.out[i]] <= opt.fp[q'.out[j]]
    <3>1. q' = Answered(z)
      BY <1>1, <1>7
    <3> QED BY <1>2, <1>6, <2>1, <3>1, AnsweredIs
  <2>3. /\ DOMAIN q' = Fields /\ q'.cand = pool /\ q'.hits = q.hits /\ q'.batch = q.batch
        /\ q'.pend = q.pend /\ q'.seen = q.seen /\ q'.expands = q.expands /\ q'.scored = q.scored
        /\ q'.want = q.want /\ q'.miss = q.miss
    BY <2>1, <2>2 DEF Keeps, Fields
  <2>4. SearchTypes(q')
    BY <1>2, <1>6, <2>3 DEF SearchTypes
  <2>5. Control(q')
    BY <1>2, <2>2 DEF Control, Places, Turns
  <2>6. Answer(q')
    BY <1>7, <2>1, <2>2, <2>3 DEF Answer
  <2> QED BY <1>2, <2>2, <2>4, <2>5, <2>6 DEF SearchInv, Unbegun
<1>8. CASE ~opt.rerank
  <2>1. /\ cut \in Seq(Nodes) /\ Len(cut) = IF opt.k < Len(pool) THEN opt.k ELSE Len(pool)
        /\ \A i \in DOMAIN cut : i \in DOMAIN pool /\ cut[i] = pool[i]
    BY <1>3, <1>6, CutIs
  <2>2. Len(cut) = Min({opt.k, Len(pool)})
    <3>1. Len(pool) \in Nat
      BY <1>6
    <3> QED BY <1>3, <2>1, <3>1, MinTwo
  <2>3. \A i, j \in DOMAIN cut : i < j => opt.code[cut[i]] <= opt.code[cut[j]]
    <3>1. \A i \in DOMAIN cut : i \in DOMAIN sorted /\ cut[i] = sorted[i]
      BY <1>6, <2>1
    <3> HIDE DEF cut
    <3> QED BY <1>5, <3>1
  <2> HIDE DEF cut
  <2>4. /\ DOMAIN q' = Fields /\ q'.at = "done" /\ q'.cand = pool /\ q'.hits = q.hits /\ q'.batch = q.batch
        /\ q'.pend = q.pend /\ q'.seen = q.seen /\ q'.expands = q.expands /\ q'.scored = q.scored
        /\ q'.want = q.want /\ q'.miss = q.miss /\ q'.out = cut
    BY <1>1, <1>2, <1>8 DEF Fields
  <2>5. SearchTypes(q')
    BY <1>2, <1>6, <2>4 DEF SearchTypes
  <2>6. Control(q')
    BY <1>2, <2>4 DEF Control, Places, Turns
  <2>7. Answer(q')
    BY <1>2, <1>8, <2>2, <2>3, <2>4 DEF Answer
  <2> QED BY <1>2, <2>4, <2>5, <2>6, <2>7 DEF SearchInv, Unbegun
<1> QED BY <1>7, <1>8

-----------------------------------------------------------------------------
(* The lists, along every behaviour.                                       *)

\* A step of the search keeps what is known of it.
LEMMA StepsKept ==
  ASSUME SearchInv(q), Steps
  PROVE  SearchInv(q')
<1>1. CASE hide_warm_entry_ball
  BY <1>1, WarmKept
<1>2. CASE on_query_begin
  BY <1>2, BeginKept
<1>3. CASE PqExpands
  BY <1>3, ExpandedKept DEF PqExpands
<1>4. CASE OracleExpands
  BY <1>4, ExpandedKept DEF OracleExpands
<1>5. CASE Inserts
  BY <1>5, HeadScored DEF Inserts
<1>6. CASE HostEnds
  BY <1>6, HostEndsKept
<1>7. CASE RanksVectors
  BY <1>7, RanksKept
<1>8. CASE DemandExpands
  BY <1>8, ExpandedKept DEF DemandExpands
<1>9. CASE score_id
  BY <1>9, HeadScored DEF score_id
<1>10. CASE DemandEnds
  BY <1>10, DemandEndsKept
<1>11. CASE drain_ready
  BY <1>11, DrainReadyKept
<1>12. CASE P2Forces
  <2>1. q.at = "pick" /\ (force_one_pending("P2") \/ force_one_pending("pick"))
    BY <1>12 DEF P2Forces
  <2>2. CASE force_one_pending("P2")
    BY <2>1, <2>2, ForceKept
  <2>3. CASE force_one_pending("pick")
    BY <2>1, <2>3, ForceKept
  <2> QED BY <2>1, <2>2, <2>3
<1>13. CASE P2Ends
  BY <1>13, P2EndsKept
<1>14. CASE P2Expands
  BY <1>14, P2ExpandsKept
<1>15. CASE P2Bounds
  BY <1>15, P2BoundsKept
<1>16. CASE P3Waves
  BY <1>16, P3WavesKept
<1>17. CASE WaveExpands
  BY <1>17, WaveExpandsKept
<1>18. CASE P3WavesEnd
  BY <1>18, P3WavesEndKept
<1>19. CASE P3Stuck
  BY <1>19, P3StuckKept
<1>20. CASE P3Ends
  BY <1>20, P3EndsKept
<1>21. CASE drain_pending
  BY <1>21, DrainPendingKept
<1>22. CASE P3Answers
  BY <1>22, P3AnswersKept
<1>23. CASE hop_hide_score
  BY <1>23, HopKept
<1>24. CASE score_resident
  BY <1>24, ResidentKept
<1>25. CASE HopsEnd
  BY <1>25, HopsEndKept
<1>26. CASE Issues \/ IssuesNothing \/ Stalls \/ Unstalls
  BY <1>26, IssuesKept
<1>27. CASE WaitsCovering
  BY <1>27, WaitsCoveringKept
<1>28. CASE CoverIssues
  BY <1>28, CoverIssuesKept
<1>29. CASE WaitsAll
  BY <1>29, WaitsAllKept
<1>30. CASE BeamExpands
  BY <1>30, BeamExpandsKept
<1>31. CASE BeamSkips
  BY <1>31, BeamSkipsKept
<1>32. CASE BeamTurns
  BY <1>32, BeamTurnsKept
<1>33. CASE BeamEnds
  BY <1>33, BeamEndsKept
<1> QED BY <1>1, <1>2, <1>3, <1>4, <1>5, <1>6, <1>7, <1>8, <1>9, <1>10, <1>11, <1>12, <1>13, <1>14, <1>15, <1>16,
           <1>17, <1>18, <1>19, <1>20, <1>21, <1>22, <1>23, <1>24, <1>25, <1>26, <1>27, <1>28, <1>29, <1>30, <1>31,
           <1>32, <1>33 DEF Steps

\* A new search.
LEMMA InitSearch ==
  ASSUME Init
  PROVE  SearchInv(q)
<1>1. /\ opt \in Configs
      /\ q = [at |-> IF opt.warm THEN "warm" ELSE "begin", then |-> "none", back |-> "none",
              cand |-> <<>>, seen |-> {}, expanded |-> {}, expands |-> 0,
              scored |-> [v \in Nodes |-> 0], pend |-> <<>>, hits |-> <<>>, batch |-> <<>>,
              waves |-> 0, want |-> {}, miss |-> {}, toks |-> {}, budget |-> 0, misread |-> FALSE, out |-> <<>>]
  BY DEF Init
<1>2. /\ DOMAIN q = Fields /\ q.at \in {"warm", "begin"} /\ q.cand = <<>> /\ q.seen = {} /\ q.expands = 0
      /\ q.scored = [v \in Nodes |-> 0] /\ q.pend = <<>> /\ q.hits = <<>> /\ q.batch = <<>> /\ q.want = {} /\ q.miss = {}
  BY <1>1 DEF Fields
<1>3. SearchTypes(q)
  BY <1>2 DEF SearchTypes
<1>4. Control(q) /\ Unbegun(q) /\ Answer(q)
  BY <1>2 DEF Control, Places, Turns, Unbegun, Answer
<1>5. HitsHeld(q) /\ PendHeld(q) /\ Ended(q)
  BY <1>2 DEF HitsHeld, PendHeld, Ended
<1>6. Once(q)
  <2>1. Range(q.hits) = {} /\ Ids(q.pend) = <<>> /\ Range(Ids(q.pend)) = {} /\ Distinct(<<>>)
    BY <1>2, NoIds
  <2>2. \A v \in Nodes : q.scored[v] = 0
    BY <1>2
  <2> QED BY <1>2, <2>1, <2>2 DEF Once, PendIds, HitIds
<1>7. Best(q)
  <2>1. ScoredSet(q) = {}
    BY <1>2 DEF ScoredSet
  <2>2. Range(q.cand) = {} /\ Distinct(q.cand)
    BY <1>2, NoIds
  <2>3. Len(q.cand) <= opt.L
    BY <1>1, <1>2, ConfigIs
  <2> QED BY <2>1, <2>2, <2>3 DEF Best, NearestOf
<1> QED BY <1>1, <1>3, <1>4, <1>5, <1>6, <1>7 DEF SearchInv, Lists

\* The command line stays, so what holds of the next search holds next.
LEMMA SearchInvNext ==
  ASSUME SearchInv(q'), opt' = opt
  PROVE  SearchInv(q)'
<1>1. Nodes' = Nodes /\ Algo' = Algo /\ Policy' = Policy
  BY DEF Nodes, Algo, Policy
<1>2. Pend' = Pend
  BY <1>1 DEF Pend
<1>3. dist' = dist
  BY <1>1 DEF dist
<1>4. Host' = Host /\ Paged' = Paged /\ OneByOne' = OneByOne
  BY <1>1 DEF Host, Paged, OneByOne
<1>5. Frozen' = Frozen /\ CutShort' = CutShort
  BY <1>1, <1>4 DEF Frozen, CutShort
<1>6. SearchTypes(q)'
  BY <1>1, <1>2 DEF SearchInv, SearchTypes
<1>7. Places(q)'
  BY <1>1, <1>4 DEF SearchInv, Control, Places
<1>8. Turns(q)'
  BY <1>1, <1>4 DEF SearchInv, Control, Turns
<1>9. Unbegun(q)'
  BY <1>1 DEF SearchInv, Unbegun
<1>10. Answer(q)'
  BY <1>1 DEF SearchInv, Answer
<1>11. ASSUME Algo # "beam" PROVE Lists(q)'
  <2>1. HitsHeld(q') /\ PendHeld(q') /\ Once(q') /\ Best(q') /\ Ended(q')
    BY <1>11 DEF SearchInv, Lists
  <2>2. HitsHeld(q)' /\ PendHeld(q)'
    BY <1>1, <1>4, <1>5, <2>1 DEF HitsHeld, PendHeld
  <2>3. Once(q)'
    BY <1>1, <1>5, <2>1 DEF Once, PendIds, HitIds
  <2>4. Best(q)'
    BY <1>1, <1>3, <2>1 DEF Best, NearestOf, ScoredSet, Dist
  <2>5. Ended(q)'
    BY <1>1, <1>4, <1>5, <2>1 DEF Ended, AllExpanded
  <2> QED BY <2>2, <2>3, <2>4, <2>5 DEF Lists
<1>12. (opt \in Configs)'
  BY DEF SearchInv
<1> QED BY <1>1, <1>6, <1>7, <1>8, <1>9, <1>10, <1>11, <1>12 DEF SearchInv, Control

LEMMA SearchInvStep ==
  ASSUME SearchInv(q), [Next]_vars
  PROVE  SearchInv(q)'
<1>1. opt' = opt
  BY DEF Next, Steps, PoolRuns, OtherEvicts, Finished, vars
<1>2. SearchInv(q')
  <2>1. CASE Steps
    BY <2>1, StepsKept
  <2>2. CASE q' = q
    BY <2>2
  <2> QED BY <2>1, <2>2 DEF Next, PoolRuns, OtherEvicts, Finished, vars
<1> QED BY <1>1, <1>2, SearchInvNext

\* An element of a list without repetition is there once.
LEMMA CountOnce ==
  ASSUME NEW X, NEW s \in Seq(X), Distinct(s), NEW v
  PROVE  Cardinality({i \in DOMAIN s : s[i] = v}) = IF v \in Range(s) THEN 1 ELSE 0
<1>1. CASE v \in Range(s)
  <2>1. PICK i \in DOMAIN s : v = s[i]
    BY <1>1, Items
  <2>2. {k \in DOMAIN s : s[k] = v} = {i}
    BY <2>1 DEF Distinct
  <2> QED BY <1>1, <2>2, FS_Singleton
<1>2. CASE v \notin Range(s)
  <2>1. {k \in DOMAIN s : s[k] = v} = {}
    BY <1>2, Items
  <2> QED BY <1>2, <2>1, FS_EmptySet
<1> QED BY <1>1, <1>2

\* The length of a list without repetition.
LEMMA DistinctLength ==
  ASSUME NEW X, NEW s \in Seq(X), Distinct(s)
  PROVE  Cardinality(Range(s)) = Len(s)
<1> DEFINE D == 1 .. Len(s)
<1>1. DOMAIN s = D /\ Len(s) \in Nat /\ s \in [D -> Range(s)]
  BY Items DEF Range
<1>2. s \in Bijection(D, Range(s))
  BY <1>1 DEF Bijection, Injection, Surjection, Distinct, Range, IsInjective
<1>3. IsFiniteSet(D) /\ Cardinality(D) = Len(s)
  BY <1>1, FS_Interval
<1> HIDE DEF D
<1>4. ExistsBijection(D, Range(s))
  BY <1>2 DEF ExistsBijection
<1> QED BY <1>3, <1>4, FS_Bijection

\* What is known of a search gives the properties.
LEMMA ListsGive ==
  ASSUME SearchInv(q)
  PROVE  NoneLost /\ (Algo # "beam" => Nearest)
<1> SUFFICES ASSUME Algo # "beam" PROVE NoneLost /\ Nearest
  BY DEF NoneLost
<1>1. SearchTypes(q) /\ Once(q) /\ Best(q) /\ Ended(q) /\ opt \in Configs
  BY DEF SearchInv, Lists
<1>2. ASSUME NEW v \in Nodes
      PROVE  LET n == q.scored[v] + Listed(v)
             IN  IF v \in q.seen THEN n = 1 \/ (Frozen /\ n = 0) ELSE n = 0
  <2> DEFINE cp == Cardinality({i \in DOMAIN q.pend : q.pend[i].id = v})
             ch == Cardinality({i \in DOMAIN q.hits : q.hits[i] = v})
  <2>1. /\ Ids(q.pend) \in Seq(Nodes) /\ DOMAIN Ids(q.pend) = DOMAIN q.pend
        /\ \A i \in DOMAIN q.pend : Ids(q.pend)[i] = q.pend[i].id
    BY <1>1, IdsIs DEF SearchTypes
  <2>2. {i \in DOMAIN q.pend : q.pend[i].id = v} = {i \in DOMAIN Ids(q.pend) : Ids(q.pend)[i] = v}
    BY <2>1
  <2>3. cp = IF v \in PendIds(q) THEN 1 ELSE 0
    BY <1>1, <2>1, <2>2, CountOnce DEF Once, PendIds
  <2>4. ch = IF v \in HitIds(q) THEN 1 ELSE 0
    BY <1>1, CountOnce DEF Once, HitIds, SearchTypes
  <2>5. Listed(v) = cp + ch
    BY DEF Listed
  <2> HIDE DEF cp, ch
  <2>6. PendIds(q) \cap HitIds(q) = {}
    BY <1>1 DEF Once
  <2>7. /\ q.scored[v] = 0 \/ (q.scored[v] = 1 /\ v \notin PendIds(q) \cup HitIds(q))
        /\ q.scored[v] = 1 \/ v \in PendIds(q) \cup HitIds(q) => v \in q.seen
        /\ ~Frozen /\ v \in q.seen => q.scored[v] = 1 \/ v \in PendIds(q) \cup HitIds(q)
    BY <1>1 DEF Once
  <2> QED BY <2>3, <2>4, <2>5, <2>6, <2>7
<1>3. q.at = "done" /\ (opt.iters = 0 \/ Policy = "P2") /\ ~opt.freeze => q.pend = <<>>
  BY <1>1 DEF Ended
<1>4. Cardinality(Range(q.cand)) = Len(q.cand)
  BY <1>1, DistinctLength DEF SearchTypes, Best, NearestOf
<1>5. ASSUME NEW v \in Nodes \ Range(q.cand), q.scored[v] > 0
      PROVE  Len(q.cand) = opt.L /\ \A c \in Range(q.cand) : Dist(c) <= Dist(v)
  BY <1>1, <1>5 DEF Best, NearestOf, ScoredSet
<1> QED BY <1>2, <1>3, <1>4, <1>5 DEF NoneLost, Nearest

(* A vertex that was seen is scored once, or waits to be scored once, in every  *)
(* search of search_beam.cpp, for every graph, list size, batch, window and     *)
(* order in which pages land and leave; and a search without a limit of         *)
(* expansions ends with none waiting.                                           *)
THEOREM SearchNoneLost == Spec => []NoneLost
<1>1. Init => SearchInv(q)
  BY InitSearch
<1>2. SearchInv(q) /\ [Next]_vars => SearchInv(q)'
  BY SearchInvStep
<1>3. SearchInv(q) => NoneLost
  BY ListsGive
<1> QED BY <1>1, <1>2, <1>3, PTL DEF Spec

-----------------------------------------------------------------------------
(* The pages: what the answer is computed from.                            *)

\* The parts of a step leave the note of a misread alone.
LEMMA NoteKept ==
  ASSUME NEW x, DOMAIN x = Fields
  PROVE  /\ \A v : DOMAIN Scored(x, v) = Fields /\ Scored(x, v).misread = x.misread
         /\ \A b : DOMAIN Commits(x, b) = Fields /\ Commits(x, b).misread = x.misread
         /\ \A new : DOMAIN Sees(x, new) = Fields /\ Sees(x, new).misread = x.misread
         /\ \A ids, how, back : Scores(x, ids, how, back).misread = x.misread
         /\ ScoresHead(x).misread = x.misread /\ Answered(x).misread = x.misread
<1>1. \A v : DOMAIN Scored(x, v) = Fields /\ Scored(x, v).misread = x.misread
  BY DEF Scored, Fields
<1>2. \A b : DOMAIN Commits(x, b) = Fields /\ Commits(x, b).misread = x.misread
  BY DEF Commits, Fields
<1>3. \A new : DOMAIN Sees(x, new) = Fields /\ Sees(x, new).misread = x.misread
  BY DEF Sees, Fields
<1>4. ASSUME NEW ids, NEW how, NEW back PROVE Scores(x, ids, how, back).misread = x.misread
  BY DEF Scores, Fields
<1>5. ScoresHead(x).misread = x.misread
  BY <1>1 DEF ScoresHead, Fields
<1>6. Answered(x).misread = x.misread
  BY DEF Answered, Fields
<1> QED BY <1>1, <1>2, <1>3, <1>4, <1>5, <1>6

LEMMA ExpandedNote ==
  ASSUME NEW x, DOMAIN x = Fields, NEW how
  PROVE  Expanded(x, how).misread = x.misread
<1> DEFINE b == <<Head(Frontier(x))>>
           new == Fresh(Head(Frontier(x)), x.seen)
           y == Commits(x, b)
           z == Sees(y, new)
<1>1. DOMAIN y = Fields /\ y.misread = x.misread
  BY NoteKept
<1> HIDE DEF y
<1>2. DOMAIN z = Fields /\ z.misread = y.misread
  BY <1>1, NoteKept
<1> HIDE DEF z
<1>3. Scores(z, new, how, x.at).misread = z.misread
  BY <1>2, NoteKept
<1>4. Expanded(x, how) = Scores(z, new, how, x.at)
  BY DEF Expanded, z, y
<1> QED BY <1>1, <1>2, <1>3, <1>4

LEMMA DrainedNote ==
  ASSUME NEW x, DOMAIN x = Fields, NEW R, NEW how, NEW back
  PROVE  Drained(x, R, how, back).misread = x.misread
<1> DEFINE y == [x EXCEPT !.pend = StillPending(@, R)]
<1>1. DOMAIN y = Fields /\ y.misread = x.misread
  BY DEF Fields
<1>2. Drained(x, R, how, back) = Scores(y, Ready(x.pend, R), how, back)
  BY DEF Drained
<1> HIDE DEF y
<1>3. Scores(y, Ready(x.pend, R), how, back).misread = y.misread
  BY <1>1, NoteKept
<1> QED BY <1>1, <1>2, <1>3

\* Only the ranking notes one.
LEMMA MisreadKept ==
  ASSUME SearchInv(q), Steps, ~RanksVectors
  PROVE  q'.misread = q.misread
<1>1. DOMAIN q = Fields
  BY DEF SearchInv, SearchTypes
<1>2. CASE hide_warm_entry_ball
  BY <1>1, <1>2 DEF hide_warm_entry_ball, Fields
<1>3. CASE on_query_begin
  <2>1. PICK b : LET x == [q EXCEPT !.at = Starts, !.budget = b]
                 IN  q' = IF Algo = "beam" THEN [x EXCEPT !.cand = <<opt.entry>>, !.batch = <<opt.entry>>]
                          ELSE ScoresEntry(x)
    BY <1>3 DEF on_query_begin
  <2> DEFINE x == [q EXCEPT !.at = Starts, !.budget = b]
             y == Sees(x, <<opt.entry>>)
  <2>2. DOMAIN x = Fields /\ x.misread = q.misread
    BY <1>1 DEF Fields
  <2>3. q' = IF Algo = "beam" THEN [x EXCEPT !.cand = <<opt.entry>>, !.batch = <<opt.entry>>] ELSE Scored(y, opt.entry)
    BY <2>1 DEF ScoresEntry
  <2> HIDE DEF x
  <2>4. DOMAIN y = Fields /\ y.misread = x.misread
    BY <2>2, NoteKept
  <2> HIDE DEF y
  <2>5. Scored(y, opt.entry).misread = y.misread
    BY <2>4, NoteKept
  <2>6. [x EXCEPT !.cand = <<opt.entry>>, !.batch = <<opt.entry>>].misread = x.misread
    BY <2>2 DEF Fields
  <2> QED BY <2>2, <2>3, <2>4, <2>5, <2>6
<1>4. CASE PqExpands \/ OracleExpands \/ DemandExpands
  BY <1>1, <1>4, ExpandedNote DEF PqExpands, OracleExpands, DemandExpands
<1>5. CASE Inserts \/ score_id
  BY <1>1, <1>5, NoteKept DEF Inserts, score_id
<1>6. CASE HostEnds
  <2>1. CASE opt.oracle
    BY <1>1, <1>6, <2>1, NoteKept DEF HostEnds
  <2>2. CASE ~opt.oracle
    BY <1>1, <1>6, <2>2 DEF HostEnds, Fields
  <2> QED BY <2>1, <2>2
<1>7. CASE DemandEnds \/ P2Ends \/ P3Answers
  BY <1>1, <1>7, NoteKept DEF DemandEnds, P2Ends, P3Answers
<1>8. CASE drain_ready
  BY <1>1, <1>8, DrainedNote DEF drain_ready
<1>9. ASSUME NEW at, force_one_pending(at) PROVE q'.misread = q.misread
  <2> DEFINE s == Scored(q, Head(q.pend).id)
  <2>1. DOMAIN s = Fields /\ s.misread = q.misread
    BY <1>1, NoteKept
  <2>2. q' = [s EXCEPT !.pend = Tail(@), !.at = at]
    BY <1>9 DEF force_one_pending
  <2> HIDE DEF s
  <2> QED BY <2>1, <2>2 DEF Fields
<1>10. CASE P2Forces
  BY <1>9, <1>10 DEF P2Forces
<1>11. CASE P2Bounds
  <2>1. CASE q' = [q EXCEPT !.at = "P2"]
    BY <1>1, <2>1 DEF Fields
  <2> QED BY <1>9, <1>11, <2>1 DEF P2Bounds
<1>12. CASE P2Expands
  <2>1. PICK b, new, w : q' = [Sees(Commits(q, b), new) EXCEPT !.pend = w, !.at = "ready"]
    BY <1>12 DEF P2Expands
  <2> DEFINE y == Commits(q, b)
             z == Sees(y, new)
  <2>2. DOMAIN y = Fields /\ y.misread = q.misread
    BY <1>1, NoteKept
  <2> HIDE DEF y
  <2>3. DOMAIN z = Fields /\ z.misread = y.misread
    BY <2>2, NoteKept
  <2>4. q' = [z EXCEPT !.pend = w, !.at = "ready"]
    BY <2>1 DEF y
  <2> HIDE DEF z
  <2> QED BY <2>2, <2>3, <2>4 DEF Fields
<1>13. CASE P3Waves
  <2>1. PICK b, to : q' = [Commits(q, b) EXCEPT !.batch = b, !.want = {}, !.at = to]
    BY <1>13 DEF P3Waves
  <2> DEFINE y == Commits(q, b)
  <2>2. DOMAIN y = Fields /\ y.misread = q.misread
    BY <1>1, NoteKept
  <2> HIDE DEF y
  <2> QED BY <2>1, <2>2 DEF Fields, y
<1>14. CASE WaveExpands
  <2>1. PICK new, w, P :
          LET x == [[Sees(q, new) EXCEPT !.pend = w, !.want = P] EXCEPT !.batch = Tail(@)]
          IN  q' = x \/ q' = [x EXCEPT !.at = "issue", !.then = "P3", !.waves = @ + 1]
    BY <1>14 DEF WaveExpands, Discovers
  <2> DEFINE y == Sees(q, new)
             x == [[y EXCEPT !.pend = w, !.want = P] EXCEPT !.batch = Tail(@)]
  <2>2. DOMAIN y = Fields /\ y.misread = q.misread
    BY <1>1, NoteKept
  <2>3. q' = x \/ q' = [x EXCEPT !.at = "issue", !.then = "P3", !.waves = @ + 1]
    BY <2>1
  <2> HIDE DEF y
  <2>4. DOMAIN x = Fields /\ x.misread = y.misread
    BY <2>2 DEF Fields
  <2> HIDE DEF x
  <2> QED BY <2>2, <2>3, <2>4 DEF Fields
<1>15. CASE P3WavesEnd \/ P3Stuck \/ P3Ends
  BY <1>1, <1>15 DEF P3WavesEnd, P3Stuck, P3Ends, Fields
<1>16. CASE drain_pending
  BY <1>1, <1>16, DrainedNote DEF drain_pending
<1>17. CASE hop_hide_score
  <2>1. PICK new, hits, pend, P :
          LET x == [Sees(q, new) EXCEPT !.batch = Tail(@), !.hits = hits]
          IN  q' = [x EXCEPT !.at = "hits"] \/ q' = [x EXCEPT !.pend = pend, !.want = P, !.at = "issue", !.then = "hits"]
    BY <1>17 DEF hop_hide_score
  <2> DEFINE y == Sees(q, new)
             x == [y EXCEPT !.batch = Tail(@), !.hits = hits]
  <2>2. DOMAIN y = Fields /\ y.misread = q.misread
    BY <1>1, NoteKept
  <2>3. q' = [x EXCEPT !.at = "hits"] \/ q' = [x EXCEPT !.pend = pend, !.want = P, !.at = "issue", !.then = "hits"]
    BY <2>1
  <2> HIDE DEF y
  <2>4. DOMAIN x = Fields /\ x.misread = y.misread
    BY <2>2 DEF Fields
  <2> HIDE DEF x
  <2> QED BY <2>2, <2>3, <2>4 DEF Fields
<1>18. CASE score_resident
  <2> DEFINE s == Scored(q, Head(q.hits))
  <2>1. DOMAIN s = Fields /\ s.misread = q.misread
    BY <1>1, NoteKept
  <2>2. q' = [s EXCEPT !.hits = Tail(@)]
    BY <1>18 DEF score_resident
  <2> HIDE DEF s
  <2> QED BY <2>1, <2>2 DEF Fields
<1>19. CASE HopsEnd \/ WaitsAll
  BY <1>1, <1>19 DEF HopsEnd, WaitsAll, Fields
<1>20. CASE Issues \/ IssuesNothing \/ Stalls \/ Unstalls
  BY <1>1, <1>20 DEF Issues, IssuesNothing, Stalls, Unstalls, Fields
<1>21. CASE WaitsCovering
  <2>1. PICK P : LET x == [q EXCEPT !.want = P, !.then = "P3"]
                 IN  \/ q' = [x EXCEPT !.at = Covered] \/ q' = [x EXCEPT !.at = "all", !.then = Covered]
                     \/ q' = [q EXCEPT !.want = P]
    BY <1>21 DEF WaitsCovering
  <2> QED BY <1>1, <2>1 DEF Fields
<1>22. CASE CoverIssues
  BY <1>1, <1>22 DEF CoverIssues, Fields
<1>23. CASE BeamExpands \/ BeamSkips \/ BeamTurns
  BY <1>1, <1>23 DEF BeamExpands, BeamSkips, BeamTurns, Fields
<1>24. CASE BeamEnds
  <2>1. PICK pool, out : LET x == [q EXCEPT !.cand = pool]
                         IN  q' = Answered(x) \/ q' = [q EXCEPT !.cand = pool, !.at = "done", !.out = out]
    BY <1>24 DEF BeamEnds
  <2> DEFINE x == [q EXCEPT !.cand = pool]
  <2>2. DOMAIN x = Fields /\ x.misread = q.misread
    BY <1>1 DEF Fields
  <2>3. q' = Answered(x) \/ q' = [q EXCEPT !.cand = pool, !.at = "done", !.out = out]
    BY <2>1
  <2> HIDE DEF x
  <2>4. Answered(x).misread = x.misread
    BY <2>2, NoteKept
  <2>5. CASE q' = [q EXCEPT !.cand = pool, !.at = "done", !.out = out]
    BY <1>1, <2>5 DEF Fields
  <2> QED BY <2>2, <2>3, <2>4, <2>5
<1> QED BY <1>2, <1>3, <1>4, <1>5, <1>6, <1>7, <1>8, <1>10, <1>11, <1>12, <1>13, <1>14, <1>15, <1>16, <1>17, <1>18,
           <1>19, <1>20, <1>21, <1>22, <1>23, <1>24 DEF Steps

LEMMA MeIs ==
  Me \in Pipes
BY SearchConstants

\* The window's pages are no part of it.
LEMMA PipesSame ==
  ASSUME PipesSound, UNCHANGED <<opt, slot, next_tok, pending, finished>>
  PROVE  PipesSound'
<1>1. Slots' = Slots /\ (use_window' <=> use_window) /\ (Tidy' <=> Tidy)
  BY SamePipe
<1>2. slot' = slot /\ next_tok' = next_tok /\ pending' = pending /\ finished' = finished
  OBVIOUS
<1>3. JobsSound'
  BY <1>2 DEF PipesSound, JobsSound
<1>4. \A h \in Pipes : (Sound(h, slot[h]) /\ Apart(slot[h]))'
  BY <1>1, <1>2 DEF PipesSound, Sound, Apart, Owned
<1> QED BY <1>1, <1>2, <1>3, <1>4 DEF PipesSound

\* The pipe and the copies under way stay sound at every step but the last,
\* whose release gives up slots that may still be filling.
LEMMA PipesKept ==
  ASSUME SearchInv(q), PipesSound, Steps, ~RanksVectors
  PROVE  PipesSound'
<1> USE MeIs
<1>1. UNCHANGED opt
  BY DEF Steps
<1>2. SearchTypes(q)
  BY DEF SearchInv
<1>3. CASE UNCHANGED <<slot, next_tok, pending, finished>>
  BY <1>1, <1>3, PipesSame
<1>4. CASE slot' = [slot EXCEPT ![Me] = PumpedSlots(Me)] /\ UNCHANGED <<next_tok, pending, finished>>
  <2>1. Sound(Me, PumpedSlots(Me)) /\ Apart(PumpedSlots(Me))
    BY PumpedSound
  <2> QED BY <1>1, <1>4, <2>1, SlotsStep
<1>5. CASE Issues
  BY <1>1, <1>2, <1>5, SubmitsSound DEF Issues, SearchTypes
<1>6. CASE IssuesNothing
  BY <1>1, <1>6, RefusesSound DEF IssuesNothing
<1>7. CASE Unstalls
  <2>1. StallSlot(slot[Me]) \in Slots
    BY StallSlotIn
  <2>2. StallEnds(Me, StallSlot(slot[Me]), q.miss) /\ q.miss \in SUBSET Pages
    BY <1>2, <1>7 DEF Unstalls, SearchTypes
  <2> QED BY <1>1, <2>1, <2>2, StallEndsSound
<1>8. CASE CoverIssues
  <2> DEFINE orphans == {p \in q.want : ~covers(Me, p)} \ InSlots(slot[Me])
  <2>1. Submits(Me, orphans)
    BY <1>8 DEF CoverIssues
  <2>2. orphans \in SUBSET Pages
    BY <1>2 DEF SearchTypes
  <2> HIDE DEF orphans
  <2> QED BY <1>1, <2>1, <2>2, SubmitsSound
<1>9. CASE drain_pending \/ hop_hide_score \/ score_resident \/ HopsEnd \/ Stalls \/ WaitsCovering \/ WaitsAll
  BY <1>4, <1>9 DEF drain_pending, hop_hide_score, score_resident, HopsEnd, Stalls, WaitsCovering, WaitsAll, Pumps
<1>10. CASE \/ hide_warm_entry_ball \/ on_query_begin \/ PqExpands \/ OracleExpands \/ Inserts \/ HostEnds
            \/ DemandExpands \/ score_id \/ DemandEnds \/ drain_ready \/ P2Forces \/ P2Ends \/ P2Expands \/ P2Bounds
  BY <1>3, <1>10 DEF hide_warm_entry_ball, on_query_begin, PqExpands, OracleExpands, Inserts, HostEnds, DemandExpands,
       score_id, DemandEnds, drain_ready, P2Forces, P2Ends, P2Expands, P2Bounds, force_one_pending, pipeVars
<1>11. CASE \/ P3Waves \/ WaveExpands \/ P3WavesEnd \/ P3Stuck \/ P3Ends \/ P3Answers
            \/ BeamExpands \/ BeamSkips \/ BeamTurns \/ BeamEnds
  BY <1>3, <1>11 DEF P3Waves, WaveExpands, P3WavesEnd, P3Stuck, P3Ends, P3Answers, BeamExpands, BeamSkips, BeamTurns,
       BeamEnds, pipeVars
<1> QED BY <1>5, <1>6, <1>7, <1>8, <1>9, <1>10, <1>11 DEF Steps

\* Outside the window mode a page that covers stays, until its slot is released.
LEMMA CoverStays ==
  ASSUME UNCHANGED opt, ~use_window, NEW p, covers(Me, p), finished \subseteq finished',
         \A s \in Slots : slot[Me][s].active =>
           slot'[Me][s].active /\ slot'[Me][s].tok = slot[Me][s].tok /\ slot'[Me][s].pages = slot[Me][s].pages
  PROVE  covers(Me, p)'
<1>1. Slots' = Slots /\ ~use_window'
  BY SamePipe
<1>2. PICK s \in Slots : slot[Me][s].active /\ p \in slot[Me][s].pages /\ <<Me, slot[Me][s].tok, p>> \in finished
  BY DEF covers, page_ready, Holding, ReadyIn
<1>3. slot'[Me][s].active /\ p \in slot'[Me][s].pages /\ <<Me, slot'[Me][s].tok, p>> \in finished'
  BY <1>2
<1>4. page_ready(Me, p)'
  BY <1>1, <1>3 DEF page_ready, Holding, ReadyIn
<1> QED BY <1>1, <1>4 DEF covers

\* A pump clears no slot outside the window mode.
LEMMA PumpKeeps ==
  ASSUME PipesSound, ~use_window, NEW s \in Slots, slot[Me][s].active
  PROVE  PumpedSlots(Me)[s].active /\ PumpedSlots(Me)[s].tok = slot[Me][s].tok /\ PumpedSlots(Me)[s].pages = slot[Me][s].pages
<1>1. /\ PumpedSlots(Me)[s].active =>
           slot[Me][s].active /\ PumpedSlots(Me)[s].tok = slot[Me][s].tok /\ PumpedSlots(Me)[s].pages = slot[Me][s].pages
      /\ slot[Me][s].active /\ ~PumpedSlots(Me)[s].active => use_window /\ ReadyIn(Me, slot[Me][s]) = slot[Me][s].pages
  BY MeIs, PumpedSlot
<1> QED BY <1>1

LEMMA PumpCovers ==
  ASSUME PipesSound, UNCHANGED opt, ~use_window, Pumps(Me)
  PROVE  /\ \A p : covers(Me, p) => covers(Me, p)'
         /\ \A s \in Slots : slot[Me][s].active => slot'[Me][s].active
<1>1. slot' = [slot EXCEPT ![Me] = PumpedSlots(Me)] /\ finished' = finished
  BY DEF Pumps
<1>2. slot'[Me] = PumpedSlots(Me)
  BY <1>1, MeIs DEF PipesSound
<1>3. \A s \in Slots : slot[Me][s].active =>
        slot'[Me][s].active /\ slot'[Me][s].tok = slot[Me][s].tok /\ slot'[Me][s].pages = slot[Me][s].pages
  BY <1>2, PumpKeeps
<1>4. ASSUME NEW p, covers(Me, p) PROVE covers(Me, p)'
  BY <1>1, <1>3, <1>4, CoverStays
<1> QED BY <1>3, <1>4

LEMMA SubmitCovers ==
  ASSUME PipesSound, UNCHANGED opt, ~use_window, NEW need \in SUBSET Pages, Submits(Me, need)
  PROVE  \A p : covers(Me, p) => covers(Me, p)'
<1>1. PICK s \in Slots, P \in SUBSET need : /\ ~slot[Me][s].active
                                           /\ slot' = [slot EXCEPT ![Me] = IssuedSlots(Me, PumpedSlots(Me), s, P)]
  BY MeIs, SubmitsSound
<1>2. finished' = finished
  BY DEF Submits, IssueInto, Pool!Submit
<1>3. slot'[Me] = IssuedSlots(Me, PumpedSlots(Me), s, P)
  BY <1>1, MeIs DEF PipesSound
<1>4. DOMAIN PumpedSlots(Me) = Slots
  BY DEF PumpedSlots
<1>5. ASSUME NEW r \in Slots, slot[Me][r].active
      PROVE  slot'[Me][r].active /\ slot'[Me][r].tok = slot[Me][r].tok /\ slot'[Me][r].pages = slot[Me][r].pages
  <2>1. r # s
    BY <1>1, <1>5
  <2>2. slot'[Me][r] = PumpedSlots(Me)[r]
    <3> DEFINE ps == PumpedSlots(Me)
    <3>1. DOMAIN ps = Slots /\ slot'[Me] = IssuedSlots(Me, ps, s, P)
      BY <1>3, <1>4
    <3> HIDE DEF ps
    <3>2. slot'[Me][r] = ps[r]
      BY <2>1, <3>1 DEF IssuedSlots
    <3> QED BY <3>2 DEF ps
  <2> QED BY <1>5, <2>2, PumpKeeps
<1>6. ASSUME NEW p, covers(Me, p) PROVE covers(Me, p)'
  BY <1>2, <1>5, <1>6, CoverStays
<1> QED BY <1>6

\* A step of search_one_pq outside its pipe leads to none.
LEMMA PqAway ==
  ASSUME SearchInv(q), Algo = "pq",
         hide_warm_entry_ball \/ on_query_begin \/ PqExpands \/ Inserts
  PROVE  q'.at \notin {"issue", "stall", "cover", "all", "rank"}
<1>1. DOMAIN q = Fields /\ Turns(q) /\ opt \in Configs /\ Host
  BY DEF SearchInv, SearchTypes, Control, Host
<1>2. CASE hide_warm_entry_ball
  BY <1>1, <1>2 DEF hide_warm_entry_ball, Fields
<1>3. CASE on_query_begin
  <2>1. PICK b : q' = ScoresEntry([q EXCEPT !.at = Starts, !.budget = b])
    BY <1>3 DEF on_query_begin
  <2> DEFINE x == [q EXCEPT !.at = Starts, !.budget = b]
             y == Sees(x, <<opt.entry>>)
  <2>2. DOMAIN x = Fields /\ x.at = "host"
    BY <1>1 DEF Fields, Starts
  <2>3. q' = Scored(y, opt.entry)
    BY <2>1 DEF ScoresEntry
  <2> HIDE DEF x
  <2>4. Keeps(x, y, {"seen"})
    BY <2>2, CommitsIs
  <2> HIDE DEF y
  <2>5. DOMAIN y = Fields /\ y.at = "host"
    BY <2>2, <2>4 DEF Keeps, Fields
  <2>6. Keeps(y, Scored(y, opt.entry), {"cand", "scored"})
    BY <2>5, ScoredIs
  <2> QED BY <2>3, <2>5, <2>6 DEF Keeps, Fields
<1>4. CASE PqExpands
  <2>1. PICK x, ids : q' = Scores(x, ids, "insert", "host") /\ DOMAIN x = Fields
    <3> DEFINE b == <<Head(Frontier(q))>>
               new == Fresh(Head(Frontier(q)), q.seen)
               z == Sees(Commits(q, b), new)
    <3>1. q' = Scores(z, new, "insert", "host")
      BY <1>4 DEF PqExpands, Expanded
    <3>2. Keeps(q, z, {"expanded", "expands", "seen"})
      BY <1>1, CommitsIs
    <3> QED BY <3>1, <3>2 DEF Keeps
  <2>2. /\ ids = <<>> => Scores(x, ids, "insert", "host").at = "host"
        /\ ids # <<>> => Scores(x, ids, "insert", "host").at = "insert"
    BY <2>1, ScoresIs
  <2> QED BY <2>1, <2>2
<1>5. CASE Inserts
  <2>1. q' = ScoresHead(q) /\ q.at = "insert" /\ q.back = "host"
    BY <1>1, <1>5 DEF Inserts, Turns
  <2>2. ScoresHead(q).at = IF Len(q.hits) = 1 THEN q.back ELSE q.at
    BY <1>1, ScoresHeadIs
  <2> QED BY <2>1, <2>2
<1> QED BY <1>2, <1>3, <1>4, <1>5

\* What search_one_pq ranks is on its way to the slots, and stays there.
LEMMA CoveringKept ==
  ASSUME SearchInv(q), PipesSound, Covering, Steps, ~RanksVectors
  PROVE  Covering'
<1>1. UNCHANGED opt
  BY DEF Steps
<1>2. Algo' = Algo /\ (use_window' <=> use_window) /\ Slots' = Slots
  BY <1>1, SamePipe DEF Algo
<1> SUFFICES ASSUME Algo = "pq", ~use_window PROVE Covering'
  BY <1>2 DEF Covering
<1>3. q'.at \notin {"issue", "stall", "cover", "all", "rank"} => Covering'
  BY DEF Covering
<1>4. ASSUME q'.cand = q.cand PROVE Need' = Need
  BY <1>1, <1>4 DEF Need, VecPages
<1>5. /\ q.at # "stall" /\ (q.at = "issue" => q.want = Need)
      /\ q.at = "cover" => \A p \in Need \ q.want : covers(Me, p)
      /\ q.at \in {"all", "rank"} => coversAll(Me, Need)
  BY DEF Covering
<1>6. DOMAIN q = Fields /\ Turns(q) /\ Places(q) /\ Host /\ ~Paged /\ q.want \in SUBSET Pages
  BY DEF SearchInv, SearchTypes, Control, Host, Paged
<1>7. q.at \in {"warm", "begin"} \cup InHost
  BY <1>6 DEF Places, Paged
<1>8. CASE hide_warm_entry_ball \/ on_query_begin \/ PqExpands \/ Inserts
  BY <1>3, <1>8, PqAway
<1>9. CASE HostEnds
  <2>1. CASE opt.oracle
    <3>1. q' = Answered(q)
      BY <1>9, <2>1 DEF HostEnds
    <3>2. q'.at = "done"
      BY <1>6, <3>1 DEF Answered, Fields
    <3> QED BY <1>3, <3>2
  <2>2. CASE ~opt.oracle
    <3>1. q'.at = "issue" /\ q'.want = VecPages(Range(q.cand)) /\ q'.cand = q.cand
      BY <1>6, <1>9, <2>2 DEF HostEnds, Fields
    <3>2. q'.want = Need'
      BY <1>4, <3>1 DEF Need
    <3> QED BY <3>1, <3>2 DEF Covering
  <2> QED BY <2>1, <2>2
<1>10. CASE Issues \/ IssuesNothing
  <2>1. q.at = "issue" /\ q.then = "cover"
    BY <1>6, <1>10 DEF Issues, IssuesNothing, Turns
  <2>2. q'.at = "cover" /\ q'.want = q.want /\ q'.cand = q.cand
    BY <1>6, <1>10, <2>1 DEF Issues, IssuesNothing, Fields
  <2>3. Need' \ q'.want = {}
    BY <1>4, <1>5, <2>1, <2>2
  <2> QED BY <2>2, <2>3 DEF Covering
<1>11. CASE WaitsCovering
  <2> DEFINE was == {p \in q.want : ~covers(Me, p)}
             left == {p \in q.want : ~covers(Me, p)'}
             idle == \A s \in Slots : ~slot'[Me][s].active
  <2>1. /\ q.at = "cover" /\ was \subseteq InSlots(slot[Me]) /\ Pumps(Me)
        /\ \/ /\ left = {} \/ idle
              /\ \/ q' = [[q EXCEPT !.want = left, !.then = "P3"] EXCEPT !.at = Covered]
                 \/ q' = [[q EXCEPT !.want = left, !.then = "P3"] EXCEPT !.at = "all", !.then = Covered]
           \/ q' = [q EXCEPT !.want = left]
    BY <1>11 DEF WaitsCovering
  <2>2. /\ \A p : covers(Me, p) => covers(Me, p)'
        /\ \A s \in Slots : slot[Me][s].active => slot'[Me][s].active
    BY <1>1, <2>1, PumpCovers
  <2>3. idle => left = {}
    <3>1. idle => InSlots(slot[Me]) = {}
      BY <2>2 DEF InSlots
    <3> QED BY <2>1, <2>2, <3>1
  <2>4. \A p \in Need \ left : covers(Me, p)'
    BY <1>5, <2>1, <2>2
  <2> HIDE DEF left, idle, was
  <2>5. q'.cand = q.cand /\ q'.want = left /\ (q'.at = "cover" \/ (q'.at \in {"rank", "all"} /\ left = {}))
    <3>1. Covered = "rank"
      BY DEF Covered
    <3>2. CASE left = {} /\ q' = [[q EXCEPT !.want = left, !.then = "P3"] EXCEPT !.at = Covered]
      BY <1>6, <3>1, <3>2 DEF Fields
    <3>3. CASE left = {} /\ q' = [[q EXCEPT !.want = left, !.then = "P3"] EXCEPT !.at = "all", !.then = Covered]
      BY <1>6, <3>3 DEF Fields
    <3>4. CASE q' = [q EXCEPT !.want = left]
      BY <1>6, <2>1, <3>4 DEF Fields
    <3> QED BY <2>1, <2>3, <3>2, <3>3, <3>4
  <2>6. Need' = Need
    BY <1>4, <2>5
  <2> QED BY <2>4, <2>5, <2>6 DEF Covering, coversAll
<1>12. CASE CoverIssues
  <2> DEFINE left == {p \in q.want : ~covers(Me, p)}
             orphans == left \ InSlots(slot[Me])
  <2>1. q.at = "cover" /\ Submits(Me, orphans) /\ \E T : q' = [q EXCEPT !.want = left, !.toks = T]
    BY <1>12 DEF CoverIssues
  <2>2. orphans \in SUBSET Pages
    BY <1>6
  <2>3. \A p : covers(Me, p) => covers(Me, p)'
    <3> HIDE DEF orphans
    <3> QED BY <1>1, <2>1, <2>2, SubmitCovers
  <2>4. \A p \in Need \ left : covers(Me, p)'
    BY <1>5, <2>1, <2>3
  <2> HIDE DEF left
  <2>5. q'.at = "cover" /\ q'.want = left /\ q'.cand = q.cand
    BY <1>6, <2>1 DEF Fields
  <2>6. Need' = Need
    BY <1>4, <2>5
  <2> QED BY <2>4, <2>5, <2>6 DEF Covering
<1>13. CASE WaitsAll
  <2>1. q.at = "all" /\ Pumps(Me) /\ q.then = "rank"
    BY <1>6, <1>13 DEF WaitsAll, Turns
  <2>2. q'.at = "rank" /\ q'.cand = q.cand
    BY <1>6, <1>13, <2>1 DEF WaitsAll, Fields
  <2>3. \A p : covers(Me, p) => covers(Me, p)'
    BY <1>1, <2>1, PumpCovers
  <2>4. \A p \in Need : covers(Me, p)'
    BY <1>5, <2>1, <2>3 DEF coversAll
  <2>5. Need' = Need
    BY <1>4, <2>2
  <2> QED BY <2>2, <2>4, <2>5 DEF Covering, coversAll
<1>14. ~(OracleExpands \/ DemandExpands \/ score_id \/ DemandEnds \/ drain_ready \/ P2Forces \/ P2Ends \/ P2Expands \/ P2Bounds)
  BY <1>7 DEF InHost, OracleExpands, DemandExpands, score_id, DemandEnds, drain_ready, P2Forces, P2Ends, P2Expands, P2Bounds
<1>15. ~(P3Waves \/ WaveExpands \/ P3WavesEnd \/ P3Stuck \/ P3Ends \/ drain_pending \/ P3Answers \/ hop_hide_score
         \/ score_resident \/ HopsEnd)
  BY <1>7 DEF InHost, P3Waves, WaveExpands, P3WavesEnd, P3Stuck, P3Ends, drain_pending, P3Answers, hop_hide_score,
       score_resident, HopsEnd
<1>16. ~(Stalls \/ Unstalls \/ BeamExpands \/ BeamSkips \/ BeamTurns \/ BeamEnds)
  BY <1>5, <1>7 DEF InHost, Stalls, Unstalls, BeamExpands, BeamSkips, BeamTurns, BeamEnds
<1> QED BY <1>8, <1>9, <1>10, <1>11, <1>12, <1>13, <1>14, <1>15, <1>16 DEF Steps

\* Pages that land, or leave the window, take nothing from it.
LEMMA CoveringSame ==
  ASSUME Covering, UNCHANGED <<opt, q, slot>>, finished \subseteq finished'
  PROVE  Covering'
<1>1. Algo' = Algo /\ (use_window' <=> use_window) /\ q' = q
  BY SamePipe DEF Algo
<1>2. Need' = Need
  BY DEF Need, VecPages
<1>3. ASSUME ~use_window, NEW p, covers(Me, p) PROVE covers(Me, p)'
  BY <1>3, CoverStays
<1> QED BY <1>1, <1>2, <1>3 DEF Covering, coversAll

\* The ranking reads vectors that have landed.
LEMMA RanksLanded ==
  ASSUME SearchInv(q), PipesSound, Covering, RanksVectors
  PROVE  q'.at = "done" /\ ~q'.misread
<1> DEFINE need == VecPages(Range(q.cand))
           gone == {p \in need : Score = "Bounce" /\ ~page_in_slot(Me, p)}
<1>1. q.at = "rank" /\ q' = [Answered(q) EXCEPT !.misread = \E p \in need \ gone : ~ReadsLanded(Me, p)]
  BY DEF RanksVectors
<1>2. DOMAIN q = Fields /\ Places(q) /\ Turns(q) /\ opt \in Configs
  BY DEF SearchInv, SearchTypes, Control
<1>3. Policy \in {"P0", "P1", "P2", "P3"}
  BY <1>2, ConfigIs
<1>4. Algo = "pq"
  BY <1>1, <1>2, <1>3 DEF Places, Turns, InP3, Host
<1>5. \A p \in need : ReadsLanded(Me, p)
  <2>1. CASE use_window
    BY <2>1 DEF ReadsLanded, use_window
  <2>2. CASE ~use_window
    <3>1. coversAll(Me, need)
      BY <1>1, <1>4, <2>2 DEF Covering, Need
    <3> HIDE DEF need
    <3> QED BY <3>1, MeIs, ScoresLanded
  <2> QED BY <2>1, <2>2
<1> DEFINE bad == \E p \in need \ gone : ~ReadsLanded(Me, p)
<1>6. bad = FALSE
  BY <1>5
<1>7. q' = [Answered(q) EXCEPT !.misread = bad]
  BY <1>1
<1> HIDE DEF bad
<1>8. DOMAIN Answered(q) = Fields /\ Answered(q).at = "done"
  BY <1>2 DEF Answered, Fields
<1> QED BY <1>6, <1>7, <1>8 DEF Fields

\* An ended search takes no step.
LEMMA DoneIsLast ==
  ASSUME q.at = "done"
  PROVE  ~Steps
<1>1. ~(\/ hide_warm_entry_ball \/ on_query_begin \/ PqExpands \/ OracleExpands \/ Inserts \/ HostEnds \/ RanksVectors
        \/ DemandExpands \/ score_id \/ DemandEnds \/ drain_ready \/ P2Forces \/ P2Ends \/ P2Expands \/ P2Bounds)
  BY DEF hide_warm_entry_ball, on_query_begin, PqExpands, OracleExpands, Inserts, HostEnds, RanksVectors, DemandExpands,
       score_id, DemandEnds, drain_ready, P2Forces, P2Ends, P2Expands, P2Bounds
<1>2. ~(\/ P3Waves \/ WaveExpands \/ P3WavesEnd \/ P3Stuck \/ P3Ends \/ drain_pending \/ P3Answers
        \/ hop_hide_score \/ score_resident \/ HopsEnd)
  BY DEF P3Waves, WaveExpands, P3WavesEnd, P3Stuck, P3Ends, drain_pending, P3Answers, hop_hide_score, score_resident,
       HopsEnd
<1>3. ~(\/ Issues \/ IssuesNothing \/ Stalls \/ Unstalls \/ WaitsCovering \/ CoverIssues \/ WaitsAll
        \/ BeamExpands \/ BeamSkips \/ BeamTurns \/ BeamEnds)
  BY DEF Issues, IssuesNothing, Stalls, Unstalls, WaitsCovering, CoverIssues, WaitsAll, BeamExpands, BeamSkips,
       BeamTurns, BeamEnds
<1> QED BY <1>1, <1>2, <1>3 DEF Steps

LEMMA PagesInvStep ==
  ASSUME PagesInv, [Next]_vars
  PROVE  PagesInv'
<1>1. SearchInv(q) /\ ~q.misread /\ (q.at # "done" => PipesSound /\ Covering)
  BY DEF PagesInv
<1>2. SearchInv(q)'
  BY <1>1, SearchInvStep
<1>3. CASE Steps
  <2>1. PipesSound /\ Covering
    BY <1>1, <1>3, DoneIsLast
  <2>2. CASE RanksVectors
    BY <1>1, <1>2, <2>1, <2>2, RanksLanded DEF PagesInv
  <2>3. CASE ~RanksVectors
    <3>1. q'.misread = q.misread
      BY <1>1, <1>3, <2>3, MisreadKept
    <3>2. PipesSound'
      BY <1>1, <1>3, <2>1, <2>3, PipesKept
    <3>3. Covering'
      BY <1>1, <1>3, <2>1, <2>3, CoveringKept
    <3> QED BY <1>1, <1>2, <3>1, <3>2, <3>3 DEF PagesInv
  <2> QED BY <2>2, <2>3
<1>4. CASE PoolRuns
  <2>1. PICK j \in pending : Lands(j)
    BY <1>4 DEF PoolRuns
  <2>2. UNCHANGED <<opt, q, slot>> /\ finished \subseteq finished'
    BY <1>4, <2>1 DEF PoolRuns, Lands, Pool!Finish
  <2>3. q.at # "done" => PipesSound'
    BY <1>1, <2>1, <2>2, LandsSound
  <2>4. q.at # "done" => Covering'
    BY <1>1, <2>2, CoveringSame
  <2> QED BY <1>1, <1>2, <2>2, <2>3, <2>4 DEF PagesInv
<1>5. CASE UNCHANGED <<opt, q, slot, next_tok, pending, finished>>
  <2>1. q.at # "done" => PipesSound'
    BY <1>1, <1>5, PipesSame
  <2>2. q.at # "done" => Covering'
    BY <1>1, <1>5, CoveringSame
  <2> QED BY <1>1, <1>2, <1>5, <2>1, <2>2 DEF PagesInv
<1> QED BY <1>3, <1>4, <1>5 DEF Next, OtherEvicts, Finished, vars, pipeVars

LEMMA InitPages ==
  ASSUME Init, Tidy
  PROVE  PagesInv
<1>1. SearchInv(q)
  BY InitSearch
<1>2. ~q.misread /\ q.at \in {"warm", "begin"}
  BY DEF Init
<1>3. Covering
  BY <1>2 DEF Covering
<1>4. PipesSound
  <2>1. /\ opt \in Configs /\ slot = [h \in Pipes |-> [s \in Slots |-> NoIssue]] /\ next_tok = [h \in Pipes |-> 1]
        /\ pending = {} /\ finished = {}
    BY DEF Init, Pool!Init
  <2>2. NoIssue \in Issue /\ NoIssue.active = FALSE
    BY NoIssueIs
  <2>3. next_tok \in [Pipes -> Nat \ {0}] /\ slot \in [Pipes -> [Slots -> Issue]]
    BY <2>1, <2>2
  <2>4. JobsSound
    BY <2>1 DEF JobsSound
  <2>5. \A h \in Pipes : Sound(h, slot[h]) /\ Apart(slot[h])
    BY <2>1, <2>2, <2>3 DEF Sound, Apart
  <2> QED BY <2>1, <2>3, <2>4, <2>5 DEF PipesSound
<1> QED BY <1>1, <1>2, <1>3, <1>4 DEF PagesInv

LEMMA PagesGive ==
  ASSUME PagesInv
  PROVE  AnswerRight
<1>1. SearchInv(q) /\ ~q.misread
  BY DEF PagesInv
<1>2. Algo # "beam" => Nearest
  BY <1>1, ListsGive
<1>3. ASSUME q.at = "done"
      PROVE  /\ Len(q.out) = Min({opt.k, Len(q.cand)})
             /\ LET d == IF Algo = "beam" /\ ~opt.rerank THEN opt.code ELSE opt.fp
                IN  \A i, j \in DOMAIN q.out : i < j => d[q.out[i]] <= d[q.out[j]]
  BY <1>1, <1>3 DEF SearchInv, Answer
<1>4. ASSUME q.at = "done", Algo # "beam", ~CutShort PROVE Range(q.cand) \subseteq q.expanded
  BY <1>1, <1>4 DEF SearchInv, Lists, Ended, AllExpanded
<1> QED BY <1>1, <1>2, <1>3, <1>4 DEF AnswerRight

(* The candidates are the L nearest of all that were scored; a search that is   *)
(* not cut short ends with all of them expanded; and the result is in order of  *)
(* the distance it claims, computed from vectors that had arrived: whatever the *)
(* graph, the command line, the window and the order in which copies land.      *)
(* Outside the window mode this is without extent runs, whose slots can list a  *)
(* page twice.                                                                  *)
THEOREM SearchAnswers == Spec /\ Tidy => []AnswerRight
<1>1. Init /\ Tidy => PagesInv
  BY InitPages
<1>2. PagesInv /\ [Next]_vars => PagesInv'
  BY PagesInvStep
<1>3. PagesInv => AnswerRight
  BY PagesGive
<1> QED BY <1>1, <1>2, <1>3, PTL DEF Spec

============================================================================
