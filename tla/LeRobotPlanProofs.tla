-------------------------- MODULE LeRobotPlanProofs --------------------------
(***************************************************************************)
(* Theorems about LeRobotPlan, for any datasets and any requests.          *)
(***************************************************************************)
EXTENDS LeRobotPlan, TLAPS, FiniteSetTheorems

----------------------------------------------------------------------------
(* Numbers and datasets. *)

\* A nonempty set of numbers has a least element.
LEMMA LeastIs ==
  ASSUME NEW S \in SUBSET Nat, S # {}
  PROVE  \E x \in S : \A y \in S : x <= y
<1> DEFINE R == OpToRel(<, Nat)
<1>1. PICK x \in S : \A y \in S : ~(<<y, x>> \in R)
  <2> HIDE DEF R
  <2> IsWellFoundedOn(R, Nat)
    BY NatLessThanWellFounded DEF R
  <2> QED
    BY WFMin
<1>2. \A y \in S : ~(y < x)
  <2> TAKE y \in S
  <2>1. <<y, x>> \in Nat \X Nat
    OBVIOUS
  <2> QED
    BY <1>1, <2>1 DEF OpToRel
<1> QED
  BY <1>2

\* A nonempty bounded set of numbers has a greatest element.
LEMMA GreatestIs ==
  ASSUME NEW S \in SUBSET Nat, NEW bound \in Nat, S # {}, \A x \in S : x <= bound
  PROVE  \E x \in S : \A y \in S : y <= x
<1> DEFINE T == {n \in Nat : \E x \in S : n = bound - x}
<1>1. T \in SUBSET Nat /\ T # {}
  <2>1. \A x \in S : bound - x \in T
    OBVIOUS
  <2> QED
    BY <2>1
<1>2. PICK t \in T : \A u \in T : t <= u
  <2> HIDE DEF T
  <2> QED
    BY <1>1, LeastIs
<1>3. PICK x \in S : t = bound - x
  OBVIOUS
<1>4. \A y \in S : y <= x
  <2> TAKE y \in S
  <2>1. bound - y \in T
    OBVIOUS
  <2>2. bound - x <= bound - y
    BY <1>2, <1>3, <2>1
  <2> HIDE DEF T
  <2> QED
    BY <2>2
<1> QED
  BY <1>4

LEMMA RequestFacts ==
  ASSUME NEW r \in Requests
  PROVE  /\ r.mode \in Modes
         /\ r.block \in Nat \ {0}
         /\ r.parallelism \in Nat
         /\ r.batch \in Nat \ {0}
         /\ Len(r.metas) \in Nat \ {0}
         /\ \A i \in 1..Len(r.metas) : IsDataset(r.metas[i]) /\ WellWritten(r.metas[i])
<1>1. r.metas \in Seq({r.metas[i] : i \in DOMAIN r.metas}) /\ Len(r.metas) > 0
  BY RequestsAssumption
<1>2. Len(r.metas) \in Nat
  BY <1>1
<1> QED
  BY <1>1, <1>2, RequestsAssumption

\* The episodes of a dataset lie one behind the other.
LEMMA DatasetFacts ==
  ASSUME NEW d, IsDataset(d)
  PROVE  /\ d.n \in Nat \ {0}
         /\ TotalFrames(d) \in Nat \ {0}
         /\ From(d, 1) = 0
         /\ To(d, d.n) = TotalFrames(d)
         /\ \A e \in Episodes(d) :
              /\ From(d, e) \in Nat /\ To(d, e) \in Nat
              /\ From(d, e) < To(d, e)
              /\ To(d, e) <= TotalFrames(d)
         /\ \A a, b \in Episodes(d) :
              /\ a <= b => From(d, a) <= From(d, b) /\ To(d, a) <= To(d, b)
              /\ a < b => To(d, a) <= From(d, b)
<1>1. d.n \in Nat \ {0} /\ d.to \in [0..d.n -> Nat] /\ d.to[0] = 0
  BY DEF IsDataset
<1>2. \A a, b \in 0..d.n : a < b => d.to[a] < d.to[b]
  BY DEF IsDataset
<1>3. \A a, b \in 0..d.n : a <= b => d.to[a] <= d.to[b]
  <2> TAKE a, b \in 0..d.n
  <2> HAVE a <= b
  <2>1. CASE a = b
    BY <1>1, <2>1
  <2>2. CASE a < b
    <3>1. d.to[a] < d.to[b] /\ d.to[a] \in Nat /\ d.to[b] \in Nat
      BY <1>1, <1>2, <2>2
    <3> QED
      BY <3>1
  <2> QED
    BY <1>1, <2>1, <2>2
<1>4. TotalFrames(d) \in Nat \ {0}
  <2>1. d.to[0] < d.to[d.n]
    BY <1>1, <1>2
  <2> QED
    BY <1>1, <2>1 DEF TotalFrames
<1>5. From(d, 1) = 0 /\ To(d, d.n) = TotalFrames(d)
  BY <1>1 DEF From, To, TotalFrames
<1>6. ASSUME NEW e \in Episodes(d)
      PROVE  /\ From(d, e) \in Nat /\ To(d, e) \in Nat
             /\ From(d, e) < To(d, e)
             /\ To(d, e) <= TotalFrames(d)
  <2>1. e \in 0..d.n /\ e - 1 \in 0..d.n /\ d.n \in 0..d.n /\ e - 1 < e /\ e <= d.n
    BY <1>1 DEF Episodes
  <2> QED
    BY <1>1, <1>2, <1>3, <2>1 DEF From, To, TotalFrames
<1>7. ASSUME NEW a \in Episodes(d), NEW b \in Episodes(d)
      PROVE  /\ a <= b => From(d, a) <= From(d, b) /\ To(d, a) <= To(d, b)
             /\ a < b => To(d, a) <= From(d, b)
  <2>1. a \in 0..d.n /\ a - 1 \in 0..d.n /\ b \in 0..d.n /\ b - 1 \in 0..d.n
    BY <1>1 DEF Episodes
  <2>2. a <= b => a - 1 <= b - 1
    BY <2>1
  <2>3. a < b => a <= b - 1
    BY <2>1
  <2> QED
    BY <1>3, <2>1, <2>2, <2>3 DEF From, To
<1> QED
  BY <1>1, <1>4, <1>5, <1>6, <1>7

----------------------------------------------------------------------------
(* The partitionings. *)

\* Where an episode begins or ends.
Cut(d, x) == \E e \in 0..d.n : x = d.to[e]

\* A range of rows of a dataset, which only a row block may begin or end within an episode.
IsRange(d, r) ==
  /\ r.from \in Nat /\ r.to \in Nat
  /\ r.from < r.to /\ r.to <= TotalFrames(d)
  /\ req.mode # "row_block" => Cut(d, r.from) /\ Cut(d, r.to)

LEMMA EpisodeRange ==
  ASSUME NEW d, IsDataset(d), NEW a \in Episodes(d), NEW b \in Episodes(d), a <= b
  PROVE  IsRange(d, [from |-> From(d, a), to |-> To(d, b)])
<1>1. /\ From(d, a) \in Nat /\ To(d, b) \in Nat /\ To(d, a) \in Nat
      /\ From(d, a) < To(d, a) /\ To(d, a) <= To(d, b) /\ To(d, b) <= TotalFrames(d)
      /\ TotalFrames(d) \in Nat
  BY DatasetFacts
<1>2. Cut(d, From(d, a)) /\ Cut(d, To(d, b))
  <2>1. a - 1 \in 0..d.n /\ b \in 0..d.n
    BY DatasetFacts DEF Episodes
  <2> QED
    BY <2>1 DEF Cut, From, To
<1> QED
  BY <1>1, <1>2 DEF IsRange

\* Among sets of episodes that hold their own episode, one spans the first and one the last.
LEMMA SpansReach ==
  ASSUME NEW d, IsDataset(d), NEW E \in [Episodes(d) -> SUBSET Episodes(d)],
         \A e \in Episodes(d) : e \in E[e]
  PROVE  /\ \A r \in UNION {Spans(d, E[e]) : e \in Episodes(d)} : IsRange(d, r)
         /\ \E r \in UNION {Spans(d, E[e]) : e \in Episodes(d)} : r.from = 0
         /\ \E r \in UNION {Spans(d, E[e]) : e \in Episodes(d)} : r.to = TotalFrames(d)
<1>1. d.n \in Nat \ {0} /\ 1 \in Episodes(d) /\ d.n \in Episodes(d) /\ Episodes(d) \subseteq Nat
  BY DatasetFacts DEF Episodes
<1>2. ASSUME NEW e \in Episodes(d), NEW r \in Spans(d, E[e]) PROVE IsRange(d, r)
  <2>1. PICK p \in E[e] \X E[e] :
          /\ r = [from |-> From(d, p[1]), to |-> To(d, p[2])]
          /\ \A m \in E[e] : p[1] <= m /\ m <= p[2]
    BY <1>2 DEF Spans
  <2>2. p[1] \in Episodes(d) /\ p[2] \in Episodes(d) /\ p[1] <= p[2]
    BY <2>1
  <2> QED
    BY <2>1, <2>2, EpisodeRange
<1>3. ASSUME NEW e \in Episodes(d)
      PROVE  \E lo, hi \in E[e] :
               /\ \A m \in E[e] : lo <= m /\ m <= hi
               /\ [from |-> From(d, lo), to |-> To(d, hi)] \in Spans(d, E[e])
  <2>1. E[e] \in SUBSET Nat /\ E[e] # {} /\ \A m \in E[e] : m <= d.n
    BY <1>1 DEF Episodes
  <2>2. PICK lo \in E[e] : \A m \in E[e] : lo <= m
    BY <2>1, LeastIs
  <2>3. PICK hi \in E[e] : \A m \in E[e] : m <= hi
    BY <1>1, <2>1, GreatestIs
  <2>4. <<lo, hi>> \in {q \in E[e] \X E[e] : \A m \in E[e] : q[1] <= m /\ m <= q[2]}
    BY <2>2, <2>3
  <2> QED
    BY <2>2, <2>3, <2>4 DEF Spans
<1>4. \E r \in UNION {Spans(d, E[e]) : e \in Episodes(d)} : r.from = 0
  <2>1. PICK lo \in E[1], hi \in E[1] :
          /\ \A m \in E[1] : lo <= m /\ m <= hi
          /\ [from |-> From(d, lo), to |-> To(d, hi)] \in Spans(d, E[1])
    BY <1>1, <1>3
  <2>2. lo = 1
    BY <1>1, <2>1 DEF Episodes
  <2> QED
    BY <1>1, <2>1, <2>2, DatasetFacts
<1>5. \E r \in UNION {Spans(d, E[e]) : e \in Episodes(d)} : r.to = TotalFrames(d)
  <2>1. PICK lo \in E[d.n], hi \in E[d.n] :
          /\ \A m \in E[d.n] : lo <= m /\ m <= hi
          /\ [from |-> From(d, lo), to |-> To(d, hi)] \in Spans(d, E[d.n])
    BY <1>1, <1>3
  <2>2. hi = d.n
    BY <1>1, <2>1 DEF Episodes
  <2> QED
    BY <1>1, <2>1, <2>2, DatasetFacts
<1> QED
  BY <1>2, <1>4, <1>5

LEMMA RowBlockRanges ==
  ASSUME NEW d, IsDataset(d), NEW size \in Nat \ {0}, req.mode = "row_block"
  PROVE  /\ \A r \in ByRowBlock(d, size) : IsRange(d, r)
         /\ \E r \in ByRowBlock(d, size) : r.from = 0
         /\ \E r \in ByRowBlock(d, size) : r.to = TotalFrames(d)
<1> DEFINE total == TotalFrames(d)
           Block(q) == [from |-> q * size, to |-> Smaller(q * size + size, total)]
<1>1. total \in Nat \ {0}
  BY DatasetFacts
<1>2. ASSUME NEW q \in RowsOf(d), q * size < total
      PROVE  Block(q) \in ByRowBlock(d, size)
  BY <1>2 DEF ByRowBlock
<1>3. ASSUME NEW r \in ByRowBlock(d, size) PROVE IsRange(d, r)
  <2>1. PICK q \in RowsOf(d) : q * size < total /\ r = Block(q)
    BY DEF ByRowBlock
  <2>2. q \in Nat
    BY <1>1, <2>1 DEF RowsOf
  <2>3. q * size \in Nat
    BY <2>2
  <2>4. PICK start \in Nat : start = q * size
    BY <2>3
  <2>5. r.from = start /\ r.to = Smaller(start + size, total) /\ start < total
    BY <2>1, <2>4
  <2> HIDE DEF total
  <2>6. r.from \in Nat /\ r.to \in Nat /\ r.from < r.to /\ r.to <= total
    BY <1>1, <2>4, <2>5 DEF Smaller
  <2> QED
    BY <2>6 DEF IsRange, total
<1>4. \E r \in ByRowBlock(d, size) : r.from = 0
  <2>1. 0 \in RowsOf(d) /\ 0 * size = 0 /\ 0 < total
    BY <1>1 DEF RowsOf
  <2> QED
    BY <1>2, <2>1
<1>5. \E r \in ByRowBlock(d, size) : r.to = TotalFrames(d)
  <2> DEFINE q == (total - 1) \div size
             start == q * size
  <2>1. total - 1 \in Nat /\ size \in Nat /\ size > 0
    BY <1>1
  <2>2. q \in Int /\ total - 1 = size * q + ((total - 1) % size) /\ (total - 1) % size \in 0..(size - 1)
    BY <2>1
  <2>3. start \in Int /\ start = size * q
    BY <2>2
  <2>4. start < total /\ start + size >= total
    <3> HIDE DEF start, q, total
    <3> QED
      BY <1>1, <2>1, <2>2, <2>3
  <2>5. q \in RowsOf(d)
    <3>1. q >= 0
      <4> SUFFICES ASSUME q <= -1 PROVE FALSE
        BY <2>2
      <4>1. size * q <= -size
        <5> HIDE DEF q
        <5> QED
          BY <2>2
      <4> HIDE DEF start, q, total
      <4> QED
        BY <2>1, <2>2, <2>3, <4>1
    <3>2. q <= start
      <4> HIDE DEF q
      <4> QED
        BY <2>2, <3>1
    <3> HIDE DEF start, q
    <3> QED
      BY <1>1, <2>2, <2>3, <2>4, <3>1, <3>2 DEF RowsOf
  <2>6. Block(q) \in ByRowBlock(d, size)
    BY <1>2, <2>4, <2>5
  <2>7. Block(q).to = Smaller(start + size, total)
    OBVIOUS
  <2>8. Smaller(start + size, total) = total
    <3> HIDE DEF start, total
    <3> QED
      BY <1>1, <2>3, <2>4 DEF Smaller
  <2> QED
    BY <2>6, <2>7, <2>8
<1> QED
  BY <1>3, <1>4, <1>5

\* Whatever the partitioning, its ranges are ranges of the dataset, and one of them begins
\* with the first row and one ends with the last.
LEMMA RangesReach ==
  ASSUME req \in Requests, NEW d, IsDataset(d)
  PROVE  /\ \A r \in Ranges(d) : IsRange(d, r)
         /\ \E r \in Ranges(d) : r.from = 0
         /\ \E r \in Ranges(d) : r.to = TotalFrames(d)
<1>1. req.mode \in Modes /\ req.block \in Nat \ {0}
  BY RequestFacts
<1>2. CASE req.mode = "sequential"
  <2>1. Ranges(d) = {[from |-> 0, to |-> TotalFrames(d)]}
    BY <1>2 DEF Ranges, Sequential
  <2>2. IsRange(d, [from |-> From(d, 1), to |-> To(d, d.n)])
    BY DatasetFacts, EpisodeRange DEF Episodes
  <2> QED
    BY <2>1, <2>2, DatasetFacts
<1>3. CASE req.mode = "episode"
  <2>1. Ranges(d) = {[from |-> From(d, e), to |-> To(d, e)] : e \in Episodes(d)}
    BY <1>3 DEF Ranges, ByEpisode
  <2>2. 1 \in Episodes(d) /\ d.n \in Episodes(d) /\ \A e \in Episodes(d) : e <= e
    BY DatasetFacts DEF Episodes
  <2>3. \A r \in Ranges(d) : IsRange(d, r)
    BY <2>1, <2>2, EpisodeRange
  <2>4. [from |-> From(d, 1), to |-> To(d, 1)] \in Ranges(d)
    BY <2>1, <2>2
  <2>5. [from |-> From(d, d.n), to |-> To(d, d.n)] \in Ranges(d)
    BY <2>1, <2>2
  <2> QED
    BY <2>3, <2>4, <2>5, DatasetFacts
<1>4. CASE req.mode = "file_group"
  <2> DEFINE E == [e \in Episodes(d) |-> Group(d, e)]
  <2>1. E \in [Episodes(d) -> SUBSET Episodes(d)] /\ \A e \in Episodes(d) : e \in E[e]
    BY DEF Group
  <2>2. Ranges(d) = UNION {Spans(d, E[e]) : e \in Episodes(d)}
    BY <1>4 DEF Ranges, ByFileGroup
  <2> HIDE DEF E
  <2> QED
    BY <2>1, <2>2, SpansReach
<1>5. CASE req.mode = "chain"
  <2> DEFINE E == [e \in Episodes(d) |-> Chain(d, e)]
  <2>1. E \in [Episodes(d) -> SUBSET Episodes(d)] /\ \A e \in Episodes(d) : e \in E[e]
    BY DEF Chain
  <2>2. Ranges(d) = UNION {Spans(d, E[e]) : e \in Episodes(d)}
    BY <1>5 DEF Ranges, ByChain
  <2> HIDE DEF E
  <2> QED
    BY <2>1, <2>2, SpansReach
<1>6. CASE req.mode = "row_block"
  <2>1. Ranges(d) = ByRowBlock(d, req.block)
    BY <1>6 DEF Ranges
  <2> QED
    BY <1>1, <1>6, <2>1, RowBlockRanges
<1> QED
  BY <1>1, <1>2, <1>3, <1>4, <1>5, <1>6 DEF Modes

LEMMA RangesType ==
  ASSUME req \in Requests, NEW d, IsDataset(d)
  PROVE  Ranges(d) \subseteq [from : Nat, to : Nat]
<1>1. \A r \in Ranges(d) : r.from \in Nat /\ r.to \in Nat
  BY RangesReach DEF IsRange
<1>2. ASSUME NEW r \in Ranges(d) PROVE r = [from |-> r.from, to |-> r.to]
  <2>1. req.mode \in Modes
    BY RequestFacts
  <2> QED
    BY <2>1 DEF Modes, Ranges, Sequential, ByEpisode, ByFileGroup, ByChain, ByRowBlock, Spans
<1> QED
  BY <1>1, <1>2

----------------------------------------------------------------------------
(* Slicing. *)

Before(a, b) == a.root < b.root \/ (a.root = b.root /\ a.to <= b.from)

\* How far the current root is sliced.
Edge == IF slices # <<>> /\ Last(slices).root = root THEN Last(slices).to ELSE 0

\* A part of a root that exists.
Part(s) ==
  /\ s \in Segments
  /\ s.root \in 1..Len(req.metas)
  /\ IsRange(req.metas[s.root], s)

LEMMA PartKept == req' = req => \A s : Part(s) => Part(s)'
  BY DEF Part, IsRange

PartsInv ==
  /\ \A i \in 1..Len(slices) : Part(slices[i])
  /\ \A i, j \in 1..Len(slices) : i < j => Before(slices[i], slices[j])
  /\ \A i \in 1..Len(slices) :
       slices[i].root < root \/ (slices[i].root = root /\ slices[i].to <= Edge)

CoverInv ==
  \A i \in 1..root : \A x \in RowsOf(req.metas[i]) :
    (i < root \/ x < Edge) => \E k \in 1..Len(slices) : Holds(slices[k], i, x)

\* What is still to be checked of the root: it begins with the first row while nothing is
\* sliced, and it holds the last one until that is sliced.
TodoInv ==
  /\ root \in 0..Len(req.metas)
  /\ root = 0 => todo = {} /\ slices = <<>>
  /\ root > 0 => \A r \in todo : IsRange(req.metas[root], r)
  /\ (root > 0 /\ phase # "invalid") =>
       /\ Edge = 0 => \E r \in todo : r.from = 0
       /\ Edge = TotalFrames(req.metas[root]) \/ \E r \in todo : r.to = TotalFrames(req.metas[root])
  /\ phase \in {"group", "planned"} => root = Len(req.metas) /\ todo = {}

SliceInv == PartsInv /\ CoverInv /\ TodoInv

LEMMA SliceInit == PlanInit => PlanType /\ SliceInv
<1> SUFFICES ASSUME PlanInit PROVE PlanType /\ SliceInv
  OBVIOUS
<1>1. Len(req.metas) \in Nat \ {0} /\ <<>> \in Seq(Segments) /\ <<>> \in Seq(Seq(Segments))
  BY RequestFacts DEF PlanInit
<1>2. PlanType
  BY <1>1 DEF PlanInit, PlanType
<1> QED
  BY <1>1, <1>2 DEF PlanInit, SliceInv, PartsInv, CoverInv, TodoInv

LEMMA SliceRootStep ==
  ASSUME PlanType, SliceInv, SliceRoot
  PROVE  PlanType' /\ SliceInv'
<1>1. /\ Len(req.metas) \in Nat \ {0} /\ root < Len(req.metas) /\ root \in Nat
      /\ todo = {} /\ phase = "slice"
      /\ UNCHANGED <<req, slices, taken, room, tasks>>
  BY RequestFacts DEF SliceRoot, PlanType
<1>2. CASE phase' = "invalid"
  <2>1. UNCHANGED <<root, todo>>
    BY <1>1, <1>2 DEF SliceRoot
  <2> QED
    BY <1>1, <1>2, <2>1 DEF PlanType, SliceInv, PartsInv, CoverInv, TodoInv, Edge, Part, IsRange
<1>3. CASE phase' = phase
  <2> DEFINE d == req.metas[root + 1]
  <2>1. root' = root + 1 /\ todo' = Ranges(d) /\ root + 1 \in 1..Len(req.metas) /\ IsDataset(d)
    BY <1>1, <1>3, RequestFacts DEF SliceRoot, PlanType
  <2>2. /\ \A r \in Ranges(d) : IsRange(d, r)
        /\ \E r \in Ranges(d) : r.from = 0
        /\ \E r \in Ranges(d) : r.to = TotalFrames(d)
    BY <2>1, RangesReach DEF PlanType
  <2>3. Edge' = 0
    BY <1>1, <2>1 DEF Edge, SliceInv, PartsInv, PlanType, Last
  <2>4. Ranges(d) \subseteq [from : Nat, to : Nat]
    BY <2>1, RangesType DEF PlanType
  <2>5. PlanType'
    BY <1>1, <1>3, <2>1, <2>4 DEF PlanType
  <2>6. PartsInv'
    <3>1. \A i \in 1..Len(slices) : Part(slices[i])'
      BY <1>1, PartKept DEF SliceInv, PartsInv
    <3>2. \A i \in 1..Len(slices) : slices[i].root < root + 1
      BY <1>1, SMTT(30) DEF SliceInv, PartsInv, Part, Segments
    <3> QED
      BY <1>1, <2>1, <2>3, <3>1, <3>2 DEF SliceInv, PartsInv
  <2>7. CoverInv'
    <3> SUFFICES ASSUME NEW i \in 1..(root + 1), NEW x \in RowsOf(req.metas[i]), i < root + 1 \/ x < 0
                 PROVE  \E k \in 1..Len(slices) : Holds(slices[k], i, x)
      BY <1>1, <2>1, <2>3 DEF CoverInv
    <3>1. i \in 1..root /\ root \in Nat
      BY <1>1, <2>1, RequestFacts, DatasetFacts DEF RowsOf, PlanType
    <3>2. Edge = TotalFrames(req.metas[root])
      BY <1>1, <3>1 DEF SliceInv, TodoInv
    <3>3. i < root \/ (i = root /\ x < Edge)
      <4>1. i = root => x \in 0..(TotalFrames(req.metas[root]) - 1)
        BY DEF RowsOf
      <4>2. TotalFrames(req.metas[root]) \in Nat
        <5>1. req \in Requests /\ root \in 1..Len(req.metas)
          BY <1>1, <2>1, <3>1, RequestFacts DEF PlanType
        <5>2. IsDataset(req.metas[root])
          BY <5>1, RequestFacts
        <5> QED
          BY <5>2, DatasetFacts
      <4>3. i = root => x < Edge
        BY <3>2, <4>1, <4>2
      <4>4. i < root \/ i = root
        BY <3>1
      <4> QED
        BY <4>3, <4>4
    <3> QED
      BY <3>1, <3>3 DEF SliceInv, CoverInv
  <2>8. TodoInv'
    BY <1>1, <1>3, <2>1, <2>2, <2>3 DEF TodoInv, IsRange
  <2> QED
    BY <2>5, <2>6, <2>7, <2>8 DEF SliceInv
<1> QED
  BY <1>1, <1>2, <1>3 DEF SliceRoot

LEMMA NextRangeStep ==
  ASSUME PlanType, SliceInv, NextRange
  PROVE  PlanType' /\ SliceInv'
<1> DEFINE d == req.metas[root]
<1>1. /\ phase = "slice"
      /\ UNCHANGED <<req, root, taken, room, tasks>>
  BY DEF NextRange
<1>2. PICK r \in todo :
        /\ \A other \in todo : Sooner(r, other)
        /\ IF Contiguous(r)
           THEN /\ slices' = Append(slices, [root |-> root, from |-> r.from, to |-> r.to])
                /\ todo' = todo \ {r}
                /\ UNCHANGED phase
           ELSE /\ phase' = "invalid"
                /\ UNCHANGED <<slices, todo>>
  BY DEF NextRange
<1>3. CASE ~Contiguous(r)
  <2>1. phase' = "invalid" /\ UNCHANGED <<req, root, slices, todo, taken, room, tasks>>
    BY <1>1, <1>2, <1>3
  <2> QED
    BY <2>1 DEF PlanType, SliceInv, PartsInv, CoverInv, TodoInv, Edge, Part, IsRange
<1>4. CASE Contiguous(r)
  <2> DEFINE new == [root |-> root, from |-> r.from, to |-> r.to]
             n == Len(slices)
  <2>1. slices' = Append(slices, new) /\ todo' = todo \ {r} /\ phase' = phase
    BY <1>2, <1>4
  <2>2. root \in 1..Len(req.metas) /\ IsDataset(d) /\ req \in Requests /\ root \in Nat
    BY RequestFacts DEF SliceInv, TodoInv, PlanType
  <2>3. IsRange(d, r)
    BY <2>2 DEF SliceInv, TodoInv
  <2>4. r.from \in Nat /\ r.to \in Nat /\ r.from < r.to /\ r.to <= TotalFrames(d) /\ TotalFrames(d) \in Nat
    BY <2>2, <2>3, DatasetFacts DEF IsRange
  <2>5. new \in Segments /\ Part(new)
    BY <2>2, <2>3, <2>4 DEF Segments, Part, IsRange
  <2>6. /\ n \in Nat /\ Len(slices') = n + 1 /\ slices'[n + 1] = new /\ slices' \in Seq(Segments)
        /\ \A i \in 1..n : slices'[i] = slices[i]
    BY <2>1, <2>5 DEF PlanType
  <2> HIDE DEF new
  <2>7. Edge' = r.to
    BY <1>1, <2>6 DEF Edge, Last, new
  <2>8. r.from = Edge
    <3>1. CASE slices # <<>> /\ Last(slices).root = root
      BY <1>4, <3>1 DEF Contiguous, Edge
    <3>2. CASE ~(slices # <<>> /\ Last(slices).root = root)
      <4>1. Edge = 0
        BY <3>2 DEF Edge
      <4>2. PICK first \in todo : first.from = 0
        BY <1>1, <2>2, <4>1 DEF SliceInv, TodoInv
      <4>3. Sooner(r, first)
        BY <1>2
      <4> QED
        BY <2>4, <4>1, <4>2, <4>3 DEF Sooner
    <3> QED
      BY <3>1, <3>2
  <2>9. PlanType'
    BY <1>1, <2>1, <2>6 DEF PlanType
  <2>10. PartsInv'
    <3>1. \A i \in 1..(n + 1) : Part(slices[i])'
      <4>1. \A i \in 1..n : Part(slices[i])
        BY DEF SliceInv, PartsInv
      <4>2. \A i \in 1..(n + 1) : i \in 1..n \/ i = n + 1
        BY <2>6
      <4>3. \A i \in 1..(n + 1) : Part(slices'[i])
        BY <2>5, <2>6, <4>1, <4>2
      <4> QED
        BY <1>1, <4>3, PartKept
    <3>2. \A i \in 1..n : slices[i] \in Segments /\ (slices[i].root < root \/ (slices[i].root = root /\ slices[i].to <= r.from))
      BY <2>8 DEF SliceInv, PartsInv, Part
    <3>3. \A i \in 1..n : Before(slices[i], new)
      BY <3>2 DEF Before, new
    <3>4. \A i, j \in 1..(n + 1) : i < j => Before(slices'[i], slices'[j])
      <4> TAKE i, j \in 1..(n + 1)
      <4> HAVE i < j
      <4>1. i \in 1..n /\ (j \in 1..n \/ j = n + 1)
        BY <2>6
      <4> QED
        BY <2>6, <3>3, <4>1 DEF SliceInv, PartsInv
    <3>5. \A i \in 1..(n + 1) :
            slices'[i].root < root \/ (slices'[i].root = root /\ slices'[i].to <= r.to)
      <4> TAKE i \in 1..(n + 1)
      <4>1. CASE i = n + 1
        BY <2>4, <2>6, <4>1 DEF new
      <4>2. CASE i \in 1..n
        <5>1. slices'[i] = slices[i] /\ slices[i].to \in Nat
          BY <2>6, <3>2, <4>2 DEF Segments
        <5>2. slices[i].root < root \/ (slices[i].root = root /\ slices[i].to <= r.from)
          BY <3>2, <4>2
        <5> QED
          BY <2>4, <5>1, <5>2
      <4> QED
        BY <2>6, <4>1, <4>2
    <3> QED
      BY <1>1, <2>6, <2>7, <3>1, <3>4, <3>5 DEF PartsInv, Before
  <2>11. CoverInv'
    <3> SUFFICES ASSUME NEW i \in 1..root, NEW x \in RowsOf(req.metas[i]), i < root \/ x < r.to
                 PROVE  \E k \in 1..(n + 1) : Holds(slices'[k], i, x)
      BY <1>1, <2>6, <2>7 DEF CoverInv
    <3>1. CASE i < root \/ x < Edge
      <4>1. PICK k \in 1..n : Holds(slices[k], i, x)
        BY <3>1 DEF SliceInv, CoverInv
      <4>2. k \in 1..(n + 1) /\ slices'[k] = slices[k]
        BY <2>6
      <4> QED
        BY <4>1, <4>2
    <3>2. CASE i = root /\ r.from <= x /\ x < r.to
      <4>1. Holds(new, i, x)
        BY <3>2 DEF Holds, new
      <4> QED
        BY <2>6, <4>1
    <3>3. x \in Int
      BY DEF RowsOf
    <3> QED
      BY <2>2, <2>4, <2>8, <3>1, <3>2, <3>3
  <2>12. TodoInv'
    <3>1. r.to # 0
      BY <2>4
    <3>2. r.to = TotalFrames(d) \/ \E q \in todo \ {r} : q.to = TotalFrames(d)
      <4>1. CASE Edge = TotalFrames(d)
        BY <2>4, <2>8, <4>1
      <4>2. CASE \E q \in todo : q.to = TotalFrames(d)
        BY <4>2
      <4> QED
        BY <1>1, <2>2, <4>1, <4>2 DEF SliceInv, TodoInv
    <3>3. \A q \in todo \ {r} : IsRange(d, q)'
      BY <1>1, <2>2 DEF SliceInv, TodoInv, IsRange
    <3> QED
      BY <1>1, <2>1, <2>2, <2>7, <3>1, <3>2, <3>3 DEF SliceInv, TodoInv
  <2> QED
    BY <2>9, <2>10, <2>11, <2>12 DEF SliceInv
<1> QED
  BY <1>3, <1>4

\* The other steps leave the slices alone.
LEMMA SlicesKept ==
  ASSUME SliceInv, UNCHANGED <<req, root, todo, slices>>,
         phase' = phase \/ (phase = "group" /\ phase' = "planned")
                        \/ (phase = "slice" /\ phase' = "group" /\ root = Len(req.metas) /\ todo = {})
  PROVE  SliceInv'
<1>1. Edge' = Edge
  BY DEF Edge
<1>2. TodoInv'
  BY <1>1 DEF SliceInv, TodoInv, IsRange
<1>3. PartsInv'
  BY <1>1 DEF SliceInv, PartsInv, Part, IsRange
<1> QED
  BY <1>1, <1>2, <1>3 DEF SliceInv, CoverInv
----------------------------------------------------------------------------
(* Dealing the slices out. *)

Cell(t, s) == t \in 1..Len(tasks) /\ s \in 1..Len(tasks[t])

Earlier(t, s, u, v) == t < u \/ (t = u /\ s < v)

Covers(a, b) == a.root = b.root /\ a.from <= b.from /\ b.to <= a.to

Below(a, b) == a.root < b.root \/ (a.root = b.root /\ a.to <= b.to)

LEMMA BelowBefore ==
  ASSUME NEW a \in Segments, NEW b \in Segments, NEW c \in Segments, Below(a, b), Before(b, c)
  PROVE  Before(a, c)
  BY DEF Below, Before, Segments

LEMMA WidenCovers ==
  ASSUME NEW a \in Segments, NEW b \in Segments, a.root = b.root, a.from = b.from, a.to < b.to,
         NEW x \in Segments, Covers(a, x)
  PROVE  Covers(b, x)
  BY DEF Covers, Segments

LEMMA BeforeBelow ==
  ASSUME NEW a \in Segments, NEW b \in Segments, Before(a, b), b.from < b.to
  PROVE  Below(a, b)
  BY DEF Below, Before, Segments

\* The segments of the tasks lie one behind the other, and are the slices taken.
TaskInv ==
  /\ phase \in {"slice", "invalid"} => taken = 0 /\ room = 0 /\ tasks = <<>>
  /\ taken <= Len(slices)
  /\ taken = 0 <=> tasks = <<>>
  /\ \A t \in 1..Len(tasks) : Len(tasks[t]) > 0
  /\ \A t, s : Cell(t, s) => Part(tasks[t][s]) /\ Below(tasks[t][s], slices[taken])
  /\ \A t, s, u, v : Cell(t, s) /\ Cell(u, v) /\ Earlier(t, s, u, v) => Before(tasks[t][s], tasks[u][v])
  /\ \A i \in 1..taken : \E t, s : Cell(t, s) /\ Covers(tasks[t][s], slices[i])

\* The next slice lies behind all that is dealt out.
LEMMA NextSlice ==
  ASSUME PlanType, SliceInv, TaskInv, taken < Len(slices)
  PROVE  /\ taken + 1 \in 1..Len(slices)
         /\ Part(slices[taken + 1])
         /\ \A t, s : Cell(t, s) => Before(tasks[t][s], slices[taken + 1])
<1>1. taken \in Nat /\ Len(slices) \in Nat
  BY DEF PlanType
<1>2. taken + 1 \in 1..Len(slices) /\ Part(slices[taken + 1])
  BY <1>1 DEF SliceInv, PartsInv
<1>3. ASSUME NEW t, NEW s, Cell(t, s) PROVE Before(tasks[t][s], slices[taken + 1])
  <2>1. taken # 0
    BY <1>3 DEF Cell, TaskInv
  <2>2. taken \in 1..Len(slices) /\ taken < taken + 1
    BY <1>1, <2>1
  <2>3. Before(slices[taken], slices[taken + 1]) /\ Part(slices[taken])
    BY <1>2, <2>2 DEF SliceInv, PartsInv
  <2>4. Below(tasks[t][s], slices[taken]) /\ Part(tasks[t][s])
    BY <1>3 DEF TaskInv
  <2> QED
    BY <1>2, <2>3, <2>4, BelowBefore DEF Part
<1> QED
  BY <1>2, <1>3

\* A segment w that is put behind all others, or in place of the last one, for the next slice.
Place(g, m, w) ==
  /\ taken < Len(slices) /\ phase = "group"
  /\ UNCHANGED <<req, slices, phase>> /\ taken' = taken + 1 /\ tasks' # <<>>
  /\ \A t \in 1..Len(tasks') : Len(tasks'[t]) > 0
  /\ \A t, s : Cell(t, s)' <=> Cell(t, s) \/ (t = g /\ s = m)
  /\ \A t, s : Cell(t, s) /\ ~(t = g /\ s = m) =>
                 /\ tasks'[t][s] = tasks[t][s]
                 /\ Earlier(t, s, g, m)
                 /\ Before(tasks[t][s], w)
  /\ tasks'[g][m] = w
  /\ Part(w) /\ Covers(w, slices[taken + 1]) /\ Below(w, slices[taken + 1])
  /\ Cell(g, m) => \A x \in Segments : Covers(tasks[g][m], x) => Covers(w, x)

LEMMA Placed ==
  ASSUME PlanType, SliceInv, TaskInv, NEW g \in Nat, NEW m \in Nat, NEW w, Place(g, m, w)
  PROVE  TaskInv'
<1> USE DEF Place
<1> DEFINE new == slices[taken + 1]
<1>1. /\ taken \in Nat /\ taken + 1 \in 1..Len(slices) /\ Part(new) /\ Len(slices) \in Nat
      /\ \A t, s : Cell(t, s) => Before(tasks[t][s], new)
  BY NextSlice DEF PlanType
<1>2. ASSUME NEW t, NEW s, Cell(t, s)'
      PROVE  (Part(tasks[t][s]) /\ Below(tasks[t][s], slices[taken]))'
  <2>1. CASE t = g /\ s = m
    BY <2>1, PartKept
  <2>2. CASE ~(t = g /\ s = m)
    <3>1. Cell(t, s) /\ tasks'[t][s] = tasks[t][s]
      BY <1>2, <2>2
    <3>2. Part(tasks[t][s]) /\ Before(tasks[t][s], new)
      BY <1>1, <3>1 DEF TaskInv
    <3>3. Below(tasks[t][s], new)
      BY <1>1, <3>2, BeforeBelow DEF Part, IsRange
    <3> QED
      BY <3>1, <3>2, <3>3, PartKept
  <2> QED
    BY <2>1, <2>2
<1>3. ASSUME NEW t, NEW s, NEW u, NEW v, Cell(t, s)', Cell(u, v)', Earlier(t, s, u, v)
      PROVE  Before(tasks'[t][s], tasks'[u][v])
  <2>0. Cell(t, s)' => t \in Int /\ s \in Int
    BY DEF Cell
  <2>1. CASE u = g /\ v = m
    <3>1. ~(t = g /\ s = m)
      BY <1>3, <2>1 DEF Earlier
    <3> QED
      BY <1>3, <2>1, <3>1
  <2>2. CASE ~(u = g /\ v = m)
    <3>1. Cell(u, v) /\ tasks'[u][v] = tasks[u][v] /\ Earlier(u, v, g, m)
      BY <1>3, <2>2
    <3>2. u \in Int /\ v \in Int
      BY <3>1 DEF Cell
    <3>3. ~(t = g /\ s = m)
      BY <1>3, <3>1, <3>2 DEF Earlier
    <3>4. Cell(t, s) /\ tasks'[t][s] = tasks[t][s]
      BY <1>3, <3>3
    <3> QED
      BY <1>3, <3>1, <3>4 DEF TaskInv
  <2> QED
    BY <2>1, <2>2
<1>4. ASSUME NEW i \in 1..(taken + 1)
      PROVE  \E t, s : Cell(t, s)' /\ Covers(tasks'[t][s], slices[i])
  <2>1. CASE i = taken + 1
    BY <2>1
  <2>2. CASE i # taken + 1
    <3>1. i \in 1..taken
      BY <1>1, <2>2
    <3>2. PICK t, s : Cell(t, s) /\ Covers(tasks[t][s], slices[i])
      BY <3>1 DEF TaskInv
    <3>3. Cell(t, s)'
      BY <3>2
    <3>4. slices[i] \in Segments
      BY <1>1, <3>1 DEF PlanType
    <3>5. Covers(tasks'[t][s], slices[i])
      BY <3>2, <3>4
    <3> QED
      BY <3>3, <3>5
  <2> QED
    BY <2>1, <2>2
<1>5. taken + 1 # 0 /\ taken + 1 <= Len(slices)
  BY <1>1
<1>6. \A t, s : Cell(t, s)' => (Part(tasks[t][s]) /\ Below(tasks[t][s], slices[taken]))'
  BY <1>2
<1>7. \A t, s, u, v : (Cell(t, s) /\ Cell(u, v) /\ Earlier(t, s, u, v))' => Before(tasks[t][s], tasks[u][v])'
  BY <1>3 DEF Before, Earlier
<1>8. \A i \in 1..taken' : \E t, s : Cell(t, s)' /\ Covers(tasks[t][s], slices[i])'
  BY <1>4 DEF Covers
<1>9. /\ ~(phase' \in {"slice", "invalid"})
      /\ taken' <= Len(slices')
      /\ taken' # 0 /\ tasks' # <<>>
      /\ \A t \in 1..Len(tasks') : Len(tasks'[t]) > 0
  BY <1>5
<1> QED
  BY <1>6, <1>7, <1>8, <1>9 DEF TaskInv

LEMMA OpenGroupTasks ==
  ASSUME PlanType, SliceInv, TaskInv, OpenGroup, taken < Len(slices)
  PROVE  TaskInv' /\ tasks' \in Seq(Seq(Segments)) /\ Len(tasks') = Len(tasks) + 1
<1> DEFINE new == slices[taken + 1]
           g == Len(tasks) + 1
<1>1. /\ taken \in Nat /\ Part(new) /\ new \in Segments
      /\ \A t, s : Cell(t, s) => Before(tasks[t][s], new)
  BY NextSlice DEF PlanType, Part
<1>2. /\ tasks' = Append(tasks, <<new>>) /\ taken' = taken + 1
      /\ UNCHANGED <<req, slices, phase>> /\ phase = "group"
  BY DEF OpenGroup
<1>3. <<new>> \in Seq(Segments) /\ Len(<<new>>) = 1 /\ <<new>>[1] = new
  BY <1>1
<1> HIDE DEF new
<1>4. /\ g \in Nat /\ Len(tasks) \in Nat /\ Len(tasks') = g /\ tasks'[g] = <<new>>
      /\ tasks' \in Seq(Seq(Segments)) /\ tasks' # <<>>
      /\ \A t \in 1..Len(tasks) : tasks'[t] = tasks[t]
  BY <1>2, <1>3 DEF PlanType
<1>5. \A t : t \in 1..Len(tasks') <=> t \in 1..Len(tasks) \/ t = g
  BY <1>4
<1>6. \A t \in 1..Len(tasks') : Len(tasks'[t]) > 0
  <2> TAKE t \in 1..Len(tasks')
  <2>1. CASE t \in 1..Len(tasks)
    <3>1. tasks'[t] = tasks[t] /\ Len(tasks[t]) > 0
      BY <1>4, <2>1 DEF TaskInv
    <3> QED
      BY <3>1
  <2>2. CASE t = g
    <3>1. tasks'[t] = <<new>>
      BY <1>4, <2>2
    <3>2. Len(tasks'[t]) = 1
      BY <1>3, <3>1
    <3> QED
      BY <3>2
  <2> QED
    BY <1>5, <2>1, <2>2
<1>7. \A t, s : Cell(t, s)' <=> Cell(t, s) \/ (t = g /\ s = 1)
  <2>1. \A s : s \in 1..1 <=> s = 1
    OBVIOUS
  <2>2. ~(g \in 1..Len(tasks))
    BY <1>4
  <2> HIDE DEF g
  <2> QED
    BY <1>3, <1>4, <1>5, <2>1, <2>2 DEF Cell
<1>8. ASSUME NEW t, NEW s, Cell(t, s)
      PROVE  /\ tasks'[t][s] = tasks[t][s]
             /\ Earlier(t, s, g, 1)
             /\ Before(tasks[t][s], new)
             /\ t # g
  <2>1. t \in 1..Len(tasks)
    BY <1>8 DEF Cell
  <2>2. t < g /\ tasks'[t] = tasks[t]
    BY <1>4, <2>1
  <2> HIDE DEF g
  <2> QED
    BY <1>1, <1>8, <2>1, <2>2 DEF Earlier
<1>9. tasks'[g][1] = new /\ Covers(new, new) /\ Below(new, new)
  BY <1>1, <1>3, <1>4 DEF Covers, Below, Segments
<1> HIDE DEF g
<1>10. TaskInv'
  <2>1. \A t, s : Cell(t, s) /\ ~(t = g /\ s = 1) =>
          tasks'[t][s] = tasks[t][s] /\ Earlier(t, s, g, 1) /\ Before(tasks[t][s], new)
    BY <1>8
  <2>2. Cell(g, 1) => \A x \in Segments : Covers(tasks[g][1], x) => Covers(new, x)
    BY <1>8
  <2>3. Place(g, 1, new)
    BY <1>1, <1>2, <1>4, <1>6, <1>7, <1>9, <2>1, <2>2 DEF Place, new
  <2> QED
    BY <1>4, <2>3, Placed
<1> QED
  BY <1>4, <1>10 DEF g

LEMMA FillGroupTasks ==
  ASSUME PlanType, SliceInv, TaskInv, FillGroup, taken < Len(slices), tasks # <<>>
  PROVE  TaskInv' /\ tasks' \in Seq(Seq(Segments)) /\ Len(tasks') = Len(tasks)
<1> DEFINE new == slices[taken + 1]
           g == Len(tasks)
           segs == tasks[g]
           n == Len(segs)
<1>1. /\ taken \in Nat /\ Part(new) /\ new \in Segments
      /\ \A t, s : Cell(t, s) => Before(tasks[t][s], new)
  BY NextSlice DEF PlanType, Part
<1>2. /\ g \in 1..Len(tasks) /\ g \in Nat /\ Last(tasks) = segs
      /\ segs \in Seq(Segments) /\ n \in Nat /\ n > 0 /\ Last(segs) = segs[n] /\ segs[n] \in Segments
  <2>1. g \in 1..Len(tasks) /\ g \in Nat /\ segs \in Seq(Segments)
    BY DEF PlanType
  <2>2. n > 0
    BY <2>1 DEF TaskInv
  <2> QED
    BY <2>1, <2>2 DEF Last
<1>3. /\ tasks' = [tasks EXCEPT ![g] = Merged(segs, new)] /\ taken' = taken + 1
      /\ UNCHANGED <<req, slices, phase>> /\ phase = "group"
  BY <1>2 DEF FillGroup
<1> DEFINE more == Merged(segs, new)
<1>4. ASSUME more \in Seq(Segments), Len(more) > 0
      PROVE  /\ Len(tasks') = g /\ tasks'[g] = more /\ tasks' \in Seq(Seq(Segments)) /\ tasks' # <<>>
             /\ \A t \in 1..Len(tasks) : t # g => tasks'[t] = tasks[t]
             /\ \A t \in 1..Len(tasks') : Len(tasks'[t]) > 0
  <2> HIDE DEF more
  <2>1. /\ Len(tasks') = g /\ tasks'[g] = more /\ tasks' \in Seq(Seq(Segments)) /\ tasks' # <<>>
        /\ \A t \in 1..Len(tasks) : t # g => tasks'[t] = tasks[t]
    BY <1>2, <1>3, <1>4 DEF PlanType, more
  <2> QED
    BY <1>4, <2>1 DEF TaskInv
<1>5. CASE new.root = Last(segs).root /\ new.from = Last(segs).to
  <2> DEFINE w == [segs[n] EXCEPT !.to = new.to]
  <2>1. more = [segs EXCEPT ![n] = w]
    BY <1>2, <1>5 DEF Merged
  <2>2. Part(segs[n]) /\ Cell(g, n)
    <3>1. Cell(g, n)
      BY <1>2 DEF Cell
    <3> QED
      BY <3>1 DEF TaskInv
  <2>3. /\ w \in Segments /\ w.root = segs[n].root /\ w.root = new.root /\ w.from = segs[n].from
        /\ w.to = new.to /\ segs[n].to = new.from
    BY <1>1, <1>2, <1>5 DEF Segments
  <2>4. /\ segs[n].from \in Nat /\ segs[n].to \in Nat /\ new.from \in Nat /\ new.to \in Nat
        /\ segs[n].from < segs[n].to /\ new.from < new.to /\ new.root \in Nat
    BY <1>1, <1>2, <2>2 DEF Segments, Part, IsRange
  <2>5. Part(w)
    BY <1>1, <2>2, <2>3, <2>4, SMTT(30) DEF Part, IsRange
  <2>6. Covers(w, new) /\ Below(w, new)
    BY <2>3, <2>4 DEF Covers, Below
  <2> HIDE DEF w
  <2>7. more \in Seq(Segments) /\ Len(more) = n /\ more[n] = w /\ \A s \in 1..n : s # n => more[s] = segs[s]
    <3> HIDE DEF more
    <3> QED
      BY <1>2, <2>1, <2>3
  <2>8. /\ Len(tasks') = g /\ tasks'[g] = more /\ tasks' \in Seq(Seq(Segments)) /\ tasks' # <<>>
        /\ \A t \in 1..Len(tasks) : t # g => tasks'[t] = tasks[t]
        /\ \A t \in 1..Len(tasks') : Len(tasks'[t]) > 0
    BY <1>2, <1>4, <2>7
  <2>9. \A t, s : Cell(t, s)' <=> Cell(t, s) \/ (t = g /\ s = n)
    <3> HIDE DEF more
    <3> QED
      BY <1>2, <2>2, <2>7, <2>8 DEF Cell
  <2>10. ASSUME NEW t, NEW s, Cell(t, s), ~(t = g /\ s = n)
         PROVE  tasks'[t][s] = tasks[t][s] /\ Earlier(t, s, g, n) /\ Before(tasks[t][s], w)
    <3>1. tasks'[t][s] = tasks[t][s]
      <4> HIDE DEF more
      <4> QED
        BY <1>2, <2>7, <2>8, <2>10 DEF Cell
    <3>2. Earlier(t, s, g, n)
      BY <1>2, <2>10 DEF Cell, Earlier
    <3>3. Before(tasks[t][s], segs[n])
      BY <2>2, <2>10, <3>2 DEF TaskInv
    <3> QED
      BY <2>3, <3>1, <3>2, <3>3 DEF Before
  <2>11. ASSUME NEW x \in Segments, Covers(segs[n], x)
         PROVE  Covers(w, x)
    BY <1>2, <2>3, <2>4, <2>11, WidenCovers
  <2>12. TaskInv'
    <3>1. n \in Nat /\ tasks'[g][n] = w
      BY <1>2, <2>7, <2>8
    <3> HIDE DEF more
    <3>2. \A t, s : Cell(t, s) /\ ~(t = g /\ s = n) =>
            tasks'[t][s] = tasks[t][s] /\ Earlier(t, s, g, n) /\ Before(tasks[t][s], w)
      BY <2>10
    <3>3. /\ UNCHANGED <<req, slices, phase>> /\ taken' = taken + 1 /\ phase = "group"
          /\ tasks' # <<>> /\ \A t \in 1..Len(tasks') : Len(tasks'[t]) > 0
      BY <1>3, <2>8
    <3>4. Cell(g, n) => \A x \in Segments : Covers(tasks[g][n], x) => Covers(w, x)
      BY <2>11
    <3>5. Place(g, n, w)
      <4> HIDE DEF g, n, new
      <4> QED
        BY <2>5, <2>6, <2>9, <3>1, <3>2, <3>3, <3>4 DEF Place, new
    <3> QED
      BY <1>2, <3>1, <3>5, Placed
  <2> QED
    BY <2>8, <2>12
<1>6. CASE ~(new.root = Last(segs).root /\ new.from = Last(segs).to)
  <2>1. more = Append(segs, new)
    BY <1>6 DEF Merged
  <2>2. /\ more \in Seq(Segments) /\ Len(more) = n + 1 /\ more[n + 1] = new
        /\ \A s \in 1..n : more[s] = segs[s]
    <3> HIDE DEF more, new
    <3> QED
      BY <1>1, <1>2, <2>1
  <2>3. /\ Len(tasks') = g /\ tasks'[g] = more /\ tasks' \in Seq(Seq(Segments)) /\ tasks' # <<>>
        /\ \A t \in 1..Len(tasks) : t # g => tasks'[t] = tasks[t]
        /\ \A t \in 1..Len(tasks') : Len(tasks'[t]) > 0
    BY <1>2, <1>4, <2>2
  <2>4. ~Cell(g, n + 1)
    BY <1>2 DEF Cell
  <2>5. \A t, s : Cell(t, s)' <=> Cell(t, s) \/ (t = g /\ s = n + 1)
    <3>1. \A s : s \in 1..(n + 1) <=> s \in 1..n \/ s = n + 1
      BY <1>2
    <3> HIDE DEF more
    <3> QED
      BY <1>2, <2>2, <2>3, <3>1 DEF Cell
  <2>6. ASSUME NEW t, NEW s, Cell(t, s), ~(t = g /\ s = n + 1)
        PROVE  tasks'[t][s] = tasks[t][s] /\ Earlier(t, s, g, n + 1) /\ Before(tasks[t][s], new)
    <3>1. tasks'[t][s] = tasks[t][s]
      <4> HIDE DEF more
      <4> QED
        BY <1>2, <2>2, <2>3, <2>6 DEF Cell
    <3>2. Earlier(t, s, g, n + 1)
      BY <1>2, <2>6 DEF Cell, Earlier
    <3> QED
      BY <1>1, <2>6, <3>1, <3>2
  <2>7. Covers(new, new) /\ Below(new, new)
    BY <1>1 DEF Covers, Below, Segments
  <2>8. TaskInv'
    <3>1. n + 1 \in Nat /\ tasks'[g][n + 1] = new
      BY <1>2, <2>2, <2>3
    <3> HIDE DEF more
    <3>2. \A t, s : Cell(t, s) /\ ~(t = g /\ s = n + 1) =>
            tasks'[t][s] = tasks[t][s] /\ Earlier(t, s, g, n + 1) /\ Before(tasks[t][s], new)
      BY <2>6
    <3>3. Place(g, n + 1, new)
      <4>1. /\ taken < Len(slices) /\ phase = "group"
            /\ UNCHANGED <<req, slices, phase>> /\ taken' = taken + 1 /\ tasks' # <<>>
            /\ \A t \in 1..Len(tasks') : Len(tasks'[t]) > 0
        BY <1>1, <1>2, <1>3, <2>3
      <4>2. Part(new) /\ Covers(new, slices[taken + 1]) /\ Below(new, slices[taken + 1])
        BY <1>1, <2>7
      <4> HIDE DEF new
      <4> QED
        BY <2>4, <2>5, <3>1, <3>2, <4>1, <4>2, Zenon DEF Place
    <3> QED
      BY <1>1, <1>2, <3>1, <3>3, Placed
  <2> QED
    BY <2>3, <2>8
<1> QED
  BY <1>5, <1>6
----------------------------------------------------------------------------
(* Counting what is dealt out. *)

\* How many slices the first g of p groups take of n.
Dealt(g, n, p) == g * (n \div p) + Smaller(g, n % p)

LEMMA DealtIs ==
  ASSUME NEW n \in Nat, NEW p \in Nat \ {0}, n > p, NEW g \in 0..p
  PROVE  /\ n \div p \in Nat /\ n \div p >= 1 /\ n % p \in Nat
         /\ Dealt(p, n, p) = n
         /\ Dealt(g, n, p) \in Nat /\ Dealt(g, n, p) <= n
         /\ g < p => /\ Dealt(g, n, p) < n
                     /\ g < n % p => Dealt(g + 1, n, p) = Dealt(g, n, p) + n \div p + 1
                     /\ ~(g < n % p) => Dealt(g + 1, n, p) = Dealt(g, n, p) + n \div p
<1> DEFINE q == n \div p
           rem == n % p
<1>1. q \in Int /\ rem \in 0..(p - 1) /\ n = p * q + rem
  OBVIOUS
<1> HIDE DEF q, rem
<1>2. q >= 1
  <2> SUFFICES ASSUME q <= 0 PROVE FALSE
    BY <1>1
  <2>1. p * q <= 0
    BY <1>1
  <2> QED
    BY <1>1, <2>1
<1>3. PICK a \in Nat : a = g * q
  BY <1>1, <1>2
<1>4. PICK b \in Nat : b = (p - g) * q
  BY <1>1, <1>2
<1>5. p * q = a + b
  BY <1>1, <1>3, <1>4
<1>6. g < p => b >= q
  BY <1>1, <1>2, <1>4
<1>7. (g + 1) * q = a + q
  BY <1>1, <1>3
<1>8. rem \in Nat /\ rem < p /\ q \in Nat /\ g \in Nat /\ g <= p
  BY <1>1, <1>2
<1>9. b >= p - g
  BY <1>1, <1>2, <1>4
<1>10. PICK m \in Nat : m = p * q
  BY <1>8
<1>11. Dealt(p, n, p) = m + Smaller(p, rem)
  BY <1>10 DEF Dealt, q, rem
<1>12. Dealt(g, n, p) = a + Smaller(g, rem) /\ Dealt(g + 1, n, p) = a + q + Smaller(g + 1, rem)
  BY <1>3, <1>7 DEF Dealt, q, rem
<1>13. n = m + rem /\ m = a + b
  BY <1>1, <1>5, <1>10
<1>14. Dealt(p, n, p) = n /\ Dealt(g, n, p) \in Nat /\ Dealt(g, n, p) <= n
  BY <1>8, <1>11, <1>12, <1>13 DEF Smaller
<1>15. ASSUME g < p
       PROVE  /\ Dealt(g, n, p) < n
              /\ g < rem => Dealt(g + 1, n, p) = Dealt(g, n, p) + q + 1
              /\ ~(g < rem) => Dealt(g + 1, n, p) = Dealt(g, n, p) + q
  BY <1>2, <1>6, <1>8, <1>12, <1>13, <1>15 DEF Smaller
<1> QED
  BY <1>2, <1>8, <1>14, <1>15 DEF q, rem

\* The next group takes the quotient, or one slice more while the remainder lasts.
Deal(n, p, g, size) == /\ size \in Nat \ {0}
                       /\ size = n \div p + (IF g < n % p THEN 1 ELSE 0)
                       /\ Dealt(g + 1, n, p) = Dealt(g, n, p) + size

LEMMA DealtNext ==
  ASSUME NEW n \in Nat, NEW p \in Nat \ {0}, n > p, NEW g \in Nat, g < p
  PROVE  \E size : Deal(n, p, g, size)
<1>1. g \in 0..p
  OBVIOUS
<1>2. PICK q \in Nat : q = n \div p /\ q >= 1
  BY <1>1, DealtIs
<1>3. PICK r \in Nat : r = n % p
  BY <1>1, DealtIs
<1>4. g < n % p => Dealt(g + 1, n, p) = Dealt(g, n, p) + n \div p + 1
  BY <1>1, DealtIs
<1>5. ~(g < n % p) => Dealt(g + 1, n, p) = Dealt(g, n, p) + n \div p
  BY <1>1, DealtIs
<1>6. CASE g < r
  <2>1. Dealt(g, n, p) \in Nat
    BY <1>1, DealtIs
  <2>2. Deal(n, p, g, q + 1)
    BY <1>2, <1>3, <1>4, <1>6, <2>1 DEF Deal
  <2> QED
    BY <2>2
<1>7. CASE ~(g < r)
  BY <1>2, <1>3, <1>5, <1>7 DEF Deal
<1> QED
  BY <1>6, <1>7

DealInv ==
  /\ tasks = <<>> => room = 0
  /\ phase = "group" =>
       /\ Len(tasks) <= NumGroups
       /\ IF Crowded THEN taken + room = Dealt(Len(tasks), Len(slices), req.parallelism)
                     ELSE taken = Len(tasks) /\ room = 0
  /\ phase = "planned" => taken = Len(slices)

PlanInv == PlanType /\ SliceInv /\ TaskInv /\ DealInv

LEMMA PlanInvInit == PlanInit => PlanInv
<1> SUFFICES ASSUME PlanInit PROVE TaskInv /\ DealInv
  BY SliceInit DEF PlanInv
<1> QED
  BY DEF PlanInit, TaskInv, DealInv, Cell

LEMMA PlanInvStep == PlanInv /\ [PlanNext]_planVars => PlanInv'
<1> SUFFICES ASSUME PlanInv, [PlanNext]_planVars PROVE PlanInv'
  OBVIOUS
<1> USE DEF PlanInv
<1>1. /\ Len(slices) \in Nat /\ taken \in Nat /\ room \in Nat /\ Len(tasks) \in Nat
      /\ req.parallelism \in Nat /\ tasks \in Seq(Seq(Segments))
  BY RequestFacts DEF PlanType
<1>2. ASSUME phase = "slice", taken' = taken, room' = room, tasks' = tasks, phase' \in {"slice", "invalid", "group"},
             Len(slices') \in Nat, SliceInv', PlanType'
      PROVE  PlanInv'
  <2>1. taken = 0 /\ room = 0 /\ tasks = <<>> /\ Len(tasks) = 0
    BY <1>2 DEF TaskInv
  <2>2. TaskInv'
    BY <1>2, <2>1 DEF TaskInv, Cell
  <2>3. DealInv'
    <3>1. Len(slices') > req'.parallelism /\ req'.parallelism > 0 =>
            0 = Dealt(0, Len(slices'), req'.parallelism)
      <4> SUFFICES ASSUME Len(slices') > req'.parallelism, req'.parallelism > 0
                   PROVE  0 = Dealt(0, Len(slices'), req'.parallelism)
        OBVIOUS
      <4>1. req'.parallelism \in Nat \ {0} /\ 0 \in 0..req'.parallelism
        BY <1>2, RequestFacts DEF PlanType
      <4>2. Len(slices') \div req'.parallelism \in Nat /\ Len(slices') % req'.parallelism \in Nat
        BY <1>2, <4>1, DealtIs
      <4> QED
        BY <4>2 DEF Dealt, Smaller
    <3>2. req'.parallelism \in Nat
      BY <1>2, RequestFacts DEF PlanType
    <3> QED
      BY <1>2, <2>1, <3>1, <3>2 DEF DealInv, NumGroups, Crowded
  <2> QED
    BY <1>2, <2>2, <2>3
<1>3. CASE SliceRoot
  <2>1. PlanType' /\ SliceInv' /\ Len(slices') \in Nat
    BY <1>1, <1>3, SliceRootStep DEF SliceRoot
  <2> QED
    BY <1>2, <1>3, <2>1 DEF SliceRoot
<1>4. CASE NextRange
  <2>1. PlanType' /\ SliceInv'
    BY <1>4, NextRangeStep
  <2>2. Len(slices') \in Nat
    BY <2>1 DEF PlanType
  <2> QED
    BY <1>2, <1>4, <2>1, <2>2 DEF NextRange
<1>5. CASE AllSliced
  <2>1. SliceInv'
    BY <1>5, SlicesKept DEF AllSliced
  <2>2. PlanType'
    BY <1>5 DEF AllSliced, PlanType
  <2> QED
    BY <1>1, <1>2, <1>5, <2>1, <2>2 DEF AllSliced
<1>6. ASSUME phase = "group"
      PROVE  /\ Crowded => /\ req.parallelism \in Nat \ {0} /\ Len(slices) > req.parallelism
                           /\ Len(tasks) \in 0..req.parallelism
             /\ room > 0 => taken < Len(slices) /\ tasks # <<>>
             /\ room = 0 /\ Len(tasks) < NumGroups => taken < Len(slices)
             /\ room = 0 /\ Len(tasks) = NumGroups => taken = Len(slices)
  <2>1. CASE Crowded
    <3>1. req.parallelism \in Nat \ {0} /\ Len(slices) > req.parallelism /\ Len(tasks) \in 0..req.parallelism
      BY <1>1, <1>6, <2>1 DEF Crowded, NumGroups, DealInv
    <3>2. taken + room = Dealt(Len(tasks), Len(slices), req.parallelism)
      BY <1>6, <2>1 DEF DealInv
    <3>3. NumGroups = req.parallelism
      BY <2>1 DEF NumGroups
    <3>4. /\ Dealt(req.parallelism, Len(slices), req.parallelism) = Len(slices)
          /\ Dealt(Len(tasks), Len(slices), req.parallelism) <= Len(slices)
          /\ Len(tasks) < req.parallelism => Dealt(Len(tasks), Len(slices), req.parallelism) < Len(slices)
      BY <1>1, <3>1, DealtIs
    <3> QED
      BY <1>1, <3>1, <3>2, <3>3, <3>4 DEF DealInv
  <2>2. CASE ~Crowded
    BY <1>1, <1>6, <2>2 DEF DealInv, NumGroups
  <2> QED
    BY <2>1, <2>2
<1>7. CASE OpenGroup
  <2>1. phase = "group" /\ phase' = phase /\ room = 0 /\ Len(tasks) < NumGroups /\ UNCHANGED <<req, root, todo, slices>>
        /\ room' = GroupSize(Len(tasks)) - 1 /\ taken' = taken + 1
    BY <1>7 DEF OpenGroup
  <2>2. taken < Len(slices)
    BY <1>6, <2>1
  <2>3. TaskInv' /\ tasks' \in Seq(Seq(Segments)) /\ Len(tasks') = Len(tasks) + 1
    BY <1>7, <2>2, OpenGroupTasks
  <2>4. SliceInv'
    BY <2>1, SlicesKept
  <2>5. NumGroups' = NumGroups /\ (Crowded' <=> Crowded)
    BY <2>1 DEF NumGroups, Crowded
  <2>6. NumGroups \in Nat
    BY <1>1 DEF NumGroups
  <2>7. CASE Crowded
    <3>1. PICK n \in Nat, p \in Nat \ {0}, g \in Nat :
            /\ n = Len(slices) /\ p = req.parallelism /\ g = Len(tasks)
            /\ n > p /\ g \in 0..p /\ g < p
      BY <1>1, <1>6, <2>1, <2>7 DEF NumGroups
    <3>2. taken = Dealt(g, n, p)
      BY <1>1, <2>1, <2>7, <3>1 DEF DealInv
    <3>3. PICK size : Deal(n, p, g, size)
      BY <3>1, DealtNext
    <3>4. GroupSize(g) = size
      BY <2>7, <3>1, <3>3 DEF GroupSize, Deal
    <3>5. GroupSize(g) \in Nat \ {0} /\ Dealt(g + 1, n, p) = taken + GroupSize(g)
      BY <3>2, <3>3, <3>4 DEF Deal
    <3>6. room' = GroupSize(g) - 1
      BY <2>1, <3>1
    <3>7. room' \in Nat /\ taken' + room' = Dealt(g + 1, n, p)
      BY <1>1, <2>1, <3>5, <3>6
    <3>8. PlanType'
      BY <1>1, <2>1, <2>3, <3>7 DEF PlanType
    <3>9. DealInv'
      <4>1. Len(tasks') <= NumGroups' /\ tasks' # <<>>
        BY <1>1, <2>1, <2>3, <2>5, <2>6
      <4>2. taken' + room' = Dealt(Len(tasks'), Len(slices'), req'.parallelism)
        BY <2>1, <2>3, <3>1, <3>7
      <4> QED
        BY <2>1, <2>5, <2>7, <4>1, <4>2 DEF DealInv
    <3> QED
      BY <2>3, <2>4, <3>8, <3>9
  <2>8. CASE ~Crowded
    <3>1. room' = 0 /\ taken = Len(tasks)
      BY <2>1, <2>8 DEF GroupSize, DealInv
    <3>2. PlanType'
      BY <1>1, <2>1, <2>3, <3>1 DEF PlanType
    <3>3. DealInv'
      <4>1. /\ Len(tasks') <= NumGroups' /\ tasks' # <<>> /\ ~Crowded' /\ phase' = "group"
            /\ taken' = Len(tasks') /\ room' = 0
        <5>1. Len(tasks') <= NumGroups' /\ tasks' # <<>>
          BY <1>1, <2>1, <2>3, <2>5, <2>6
        <5> QED
          BY <2>1, <2>3, <2>5, <2>8, <3>1, <5>1
      <4> QED
        BY <4>1 DEF DealInv
    <3> QED
      BY <2>3, <2>4, <3>2, <3>3
  <2> QED
    BY <2>7, <2>8
<1>8. CASE FillGroup
  <2>1. phase = "group" /\ phase' = phase /\ room > 0 /\ UNCHANGED <<req, root, todo, slices>>
        /\ room' = room - 1 /\ taken' = taken + 1
    BY <1>8 DEF FillGroup
  <2>2. taken < Len(slices) /\ tasks # <<>>
    BY <1>6, <2>1
  <2>3. TaskInv' /\ tasks' \in Seq(Seq(Segments)) /\ Len(tasks') = Len(tasks)
    BY <1>8, <2>2, FillGroupTasks
  <2>4. SliceInv'
    BY <2>1, SlicesKept
  <2>5. NumGroups' = NumGroups /\ (Crowded' <=> Crowded)
    BY <2>1 DEF NumGroups, Crowded
  <2>6. PlanType'
    BY <1>1, <2>1, <2>3 DEF PlanType
  <2>7. tasks' # <<>> /\ taken' + room' = taken + room
    BY <1>1, <2>1, <2>2, <2>3
  <2>8. DealInv'
    BY <1>1, <2>1, <2>3, <2>5, <2>7 DEF DealInv
  <2> QED
    BY <2>3, <2>4, <2>6, <2>8
<1>9. CASE AllGrouped
  <2>1. phase = "group" /\ phase' = "planned" /\ UNCHANGED <<req, root, todo, slices, taken, room, tasks>>
    BY <1>9 DEF AllGrouped
  <2>2. taken = Len(slices)
    BY <1>6, <1>9 DEF AllGrouped
  <2>3. SliceInv'
    BY <2>1, SlicesKept
  <2>4. PlanType' /\ DealInv'
    BY <2>1, <2>2 DEF PlanType, DealInv
  <2>5. TaskInv'
    BY <2>1, PartKept DEF TaskInv, Cell
  <2> QED
    BY <2>3, <2>4, <2>5
<1>10. CASE UNCHANGED planVars
  <2>1. UNCHANGED <<req, phase, root, todo, slices, taken, room, tasks>>
    BY <1>10 DEF planVars
  <2>2. SliceInv'
    BY <2>1, SlicesKept
  <2>3. PlanType' /\ DealInv'
    BY <2>1 DEF PlanType, DealInv, NumGroups, Crowded
  <2>4. TaskInv'
    BY <2>1, PartKept DEF TaskInv, Cell
  <2> QED
    BY <2>2, <2>3, <2>4
<1> QED
  BY <1>3, <1>4, <1>5, <1>7, <1>8, <1>9, <1>10 DEF PlanNext

----------------------------------------------------------------------------
(* The theorems. *)

\* The inductive invariant of planning: the ranges sliced and the segments dealt out are
\* parts of their roots that lie one behind the other without a gap.
THEOREM PlanInvariantHolds == PlanSpec => []PlanInv
  BY PlanInvInit, PlanInvStep, PTL DEF PlanSpec

LEMMA HoldsApart ==
  ASSUME NEW a \in Segments, NEW b \in Segments, NEW i, NEW x \in Int, Holds(a, i, x), Holds(b, i, x)
  PROVE  ~Before(a, b)
  BY DEF Before, Holds, Segments

\* No other cell of the plan holds row x of root i.
OnlyIn(t, s, i, x) ==
  \A u \in 1..Len(tasks) : \A v \in 1..Len(tasks[u]) : Holds(tasks[u][v], i, x) => u = t /\ v = s

LEMMA PlanInvCovers == PlanInv => PlanCovers
<1> SUFFICES ASSUME PlanInv, phase = "planned",
                    NEW i \in 1..Len(req.metas), NEW x \in RowsOf(req.metas[i])
             PROVE  \E t \in 1..Len(tasks) : \E s \in 1..Len(tasks[t]) :
                      Holds(tasks[t][s], i, x) /\ OnlyIn(t, s, i, x)
  BY DEF PlanCovers, OnlyIn
<1>1. PlanType /\ SliceInv /\ TaskInv /\ taken = Len(slices) /\ root = Len(req.metas) /\ todo = {}
      /\ Len(req.metas) \in Nat \ {0} /\ IsDataset(req.metas[i]) /\ x \in Int
  BY RequestFacts DEF PlanInv, DealInv, SliceInv, TodoInv, PlanType, RowsOf
<1>2. PICK k \in 1..Len(slices) : Holds(slices[k], i, x)
  <2>1. Edge = TotalFrames(req.metas[root])
    BY <1>1 DEF SliceInv, TodoInv
  <2>2. i \in 1..root /\ (i < root \/ (i = root /\ x < Edge))
    BY <1>1, <2>1, DatasetFacts DEF RowsOf
  <2> QED
    BY <1>1, <2>2 DEF SliceInv, CoverInv
<1>3. PICK t, s : Cell(t, s) /\ Covers(tasks[t][s], slices[k])
  BY <1>1 DEF TaskInv
<1>4. Holds(tasks[t][s], i, x)
  <2>1. Part(tasks[t][s]) /\ Part(slices[k])
    BY <1>1, <1>3 DEF TaskInv, SliceInv, PartsInv
  <2> QED
    BY <1>1, <1>2, <1>3, <2>1 DEF Holds, Covers, Part, Segments
<1>5. ASSUME NEW u \in 1..Len(tasks), NEW v \in 1..Len(tasks[u]), Holds(tasks[u][v], i, x)
      PROVE  u = t /\ v = s
  <2>1. Cell(u, v) /\ u \in Int /\ v \in Int /\ t \in Int /\ s \in Int
    BY <1>3 DEF Cell
  <2>2. Part(tasks[u][v]) /\ Part(tasks[t][s])
    BY <1>1, <1>3, <2>1 DEF TaskInv
  <2>3. ~Before(tasks[u][v], tasks[t][s]) /\ ~Before(tasks[t][s], tasks[u][v])
    BY <1>1, <1>4, <1>5, <2>2, HoldsApart DEF Part
  <2>4. ~Earlier(u, v, t, s) /\ ~Earlier(t, s, u, v)
    BY <1>1, <1>3, <2>1, <2>3 DEF TaskInv
  <2> QED
    BY <2>1, <2>4 DEF Earlier
<1> QED
  <2>1. t \in 1..Len(tasks) /\ s \in 1..Len(tasks[t])
    BY <1>3 DEF Cell
  <2>2. OnlyIn(t, s, i, x)
    BY <1>5 DEF OnlyIn
  <2> QED
    BY <1>4, <2>1, <2>2

\* Whatever the datasets, the partitioning and the parallelism, a finished plan reads every
\* row of every root, and reads it once.
THEOREM EveryRowOnce == PlanSpec => []PlanCovers
  BY PlanInvariantHolds, PlanInvCovers, PTL
----------------------------------------------------------------------------
(* Every task gets its share. *)

\* How many slices the first g tasks are given.
Start(g) == IF Crowded THEN Dealt(g, Len(slices), req.parallelism) ELSE g

Deals(t, i) == Start(t - 1) < i /\ i <= Start(t)

\* A slice dealt out lies in a segment of the task whose turn it was.
OwnerInv ==
  phase \in {"group", "planned"} =>
    /\ tasks # <<>> => Start(Len(tasks) - 1) < taken
    /\ \A i \in 1..taken : \E t, s : Cell(t, s) /\ Covers(tasks[t][s], slices[i]) /\ Deals(t, i)
    /\ phase = "planned" => Len(tasks) = NumGroups

LEMMA Counts ==
  ASSUME PlanType
  PROVE  /\ Len(slices) \in Nat /\ taken \in Nat /\ room \in Nat /\ Len(tasks) \in Nat
         /\ req.parallelism \in Nat /\ NumGroups \in Nat
         /\ Crowded => req.parallelism \in Nat \ {0} /\ Len(slices) > req.parallelism
  BY RequestFacts DEF PlanType, NumGroups, Crowded

LEMMA StartNext ==
  ASSUME PlanType, NEW g \in Nat, g < NumGroups
  PROVE  /\ GroupSize(g) \in Nat \ {0} /\ Start(g) \in Nat
         /\ Start(g + 1) = Start(g) + GroupSize(g)
<1>1. CASE Crowded
  <2>1. PICK n \in Nat, p \in Nat \ {0} :
          n = Len(slices) /\ p = req.parallelism /\ n > p /\ g < p /\ g \in 0..p
    BY <1>1, Counts DEF NumGroups
  <2>2. PICK size : Deal(n, p, g, size)
    BY <2>1, DealtNext
  <2>3. GroupSize(g) = size
    BY <1>1, <2>1, <2>2 DEF GroupSize, Deal
  <2>4. Start(g) = Dealt(g, n, p) /\ Start(g + 1) = Dealt(g + 1, n, p)
    BY <1>1, <2>1 DEF Start
  <2>5. Dealt(g, n, p) \in Nat
    BY <2>1, DealtIs
  <2> QED
    BY <2>2, <2>3, <2>4, <2>5 DEF Deal
<1>2. CASE ~Crowded
  BY <1>2 DEF Start, GroupSize
<1> QED
  BY <1>1, <1>2

LEMMA StartGrows ==
  ASSUME PlanType, NEW g \in 0..NumGroups, NEW h \in 0..NumGroups, g <= h
  PROVE  Start(g) \in Nat /\ Start(h) \in Nat /\ Start(g) <= Start(h)
<1>1. CASE Crowded
  <2>1. PICK n \in Nat, p \in Nat \ {0} :
          /\ n = Len(slices) /\ p = req.parallelism /\ n > p /\ g \in 0..p /\ h \in 0..p
    BY <1>1, Counts DEF NumGroups
  <2>2. PICK q \in Nat, r \in Nat : q = n \div p /\ r = n % p
    BY <2>1, DealtIs
  <2>3. Start(g) = Dealt(g, n, p) /\ Start(h) = Dealt(h, n, p)
    BY <1>1, <2>1 DEF Start
  <2>4. Dealt(g, n, p) \in Nat /\ Dealt(h, n, p) \in Nat
    BY <2>1, DealtIs
  <2>5. Dealt(g, n, p) = g * q + Smaller(g, r) /\ Dealt(h, n, p) = h * q + Smaller(h, r)
    BY <2>2 DEF Dealt
  <2>6. g * q <= h * q /\ g * q \in Nat /\ h * q \in Nat
    BY <2>1, <2>2
  <2>7. Smaller(g, r) <= Smaller(h, r) /\ Smaller(g, r) \in Nat /\ Smaller(h, r) \in Nat
    BY <2>1, <2>2 DEF Smaller
  <2> QED
    BY <2>3, <2>4, <2>5, <2>6, <2>7
<1>2. CASE ~Crowded
  BY <1>2, Counts DEF Start
<1> QED
  BY <1>1, <1>2

LEMMA CoversHolds ==
  ASSUME NEW a, NEW b, Part(a), Part(b), Covers(a, b)
  PROVE  Holds(a, b.root, b.from)
  BY DEF Holds, Covers, Part, IsRange, Segments

\* Two cells that hold the same row are one cell.
LEMMA OneOwner ==
  ASSUME PlanType, SliceInv, TaskInv, NEW k \in 1..Len(slices),
         NEW t, NEW s, NEW u, NEW v, Cell(t, s), Cell(u, v),
         Holds(tasks[t][s], slices[k].root, slices[k].from),
         Holds(tasks[u][v], slices[k].root, slices[k].from)
  PROVE  t = u /\ s = v
<1>1. t \in Int /\ s \in Int /\ u \in Int /\ v \in Int
  BY DEF Cell
<1>2. Part(tasks[t][s]) /\ Part(tasks[u][v]) /\ Part(slices[k])
  BY DEF TaskInv, SliceInv, PartsInv
<1>3. slices[k].from \in Int
  BY <1>2 DEF Part, Segments
<1>4. ~Before(tasks[u][v], tasks[t][s]) /\ ~Before(tasks[t][s], tasks[u][v])
  BY <1>2, <1>3, HoldsApart DEF Part
<1>5. ~Earlier(u, v, t, s) /\ ~Earlier(t, s, u, v)
  BY <1>4 DEF TaskInv
<1> QED
  BY <1>1, <1>5 DEF Earlier

\* A step that changes only the last task, or puts one behind it, leaves every slice with
\* the task it was dealt to.
LEMMA OwnersStay ==
  ASSUME PlanType, SliceInv, TaskInv, OwnerInv, phase = "group",
         PlanType', SliceInv', TaskInv',
         UNCHANGED <<req, slices>>, taken' = taken + 1, taken < Len(slices),
         Len(tasks') \in {Len(tasks), Len(tasks) + 1}, Len(tasks') > 0,
         \A t \in 1..Len(tasks) : t < Len(tasks') => tasks'[t] = tasks[t],
         Deals(Len(tasks'), taken + 1)
  PROVE  \A i \in 1..taken' : \E t, s : (Cell(t, s) /\ Covers(tasks[t][s], slices[i]) /\ Deals(t, i))'
<1> DEFINE g == Len(tasks')
<1>0. /\ taken \in Nat /\ Len(tasks) \in Nat /\ g \in Nat /\ Len(slices) \in Nat
      /\ \A t, i : Deals(t, i)' <=> Deals(t, i)
  BY Counts DEF Deals, Start, Crowded, NumGroups
<1>1. ASSUME NEW t, NEW s, t < g
      PROVE  Cell(t, s)' <=> Cell(t, s)
  BY <1>0, <1>1 DEF Cell
<1>2. ASSUME NEW t, NEW s, Cell(t, s)', t < g
      PROVE  Cell(t, s) /\ tasks'[t][s] = tasks[t][s]
  BY <1>0, <1>1, <1>2 DEF Cell
<1>3. ASSUME NEW i \in 1..taken'
      PROVE  \E t, s : Cell(t, s)' /\ Covers(tasks'[t][s], slices[i]) /\ Deals(t, i)
  <2>1. PICK t, s : Cell(t, s)' /\ Covers(tasks'[t][s], slices[i])
    BY <1>3 DEF TaskInv, Covers
  <2>2. t \in 1..g
    BY <2>1 DEF Cell
  <2>3. i \in 1..Len(slices) /\ Part(slices[i])
    BY <1>0, <1>3 DEF SliceInv, PartsInv
  <2>4. CASE i = taken + 1
    <3>1. ASSUME t < g PROVE FALSE
      <4>1. Cell(t, s) /\ tasks'[t][s] = tasks[t][s]
        BY <1>2, <2>1, <3>1
      <4>2. Before(tasks[t][s], slices[i]) /\ Part(tasks[t][s])
        BY <2>4, <4>1, NextSlice DEF TaskInv
      <4> QED
        BY <2>1, <2>3, <4>1, <4>2 DEF Before, Covers, Part, IsRange, Segments
    <3>2. t = g
      BY <1>0, <2>2, <3>1
    <3> QED
      BY <2>1, <2>4, <3>2
  <2>5. CASE i # taken + 1
    <3>1. i \in 1..taken
      BY <1>0, <1>3, <2>5
    <3>2. PICK u, v : Cell(u, v) /\ Covers(tasks[u][v], slices[i]) /\ Deals(u, i)
      BY <3>1 DEF OwnerInv
    <3>3. u \in 1..Len(tasks)
      BY <3>2 DEF Cell
    <3>4. CASE u < g
      BY <1>1, <3>2, <3>3, <3>4 DEF Cell
    <3>5. CASE t < g
      <4>1. Cell(t, s) /\ tasks'[t][s] = tasks[t][s]
        BY <1>2, <2>1, <3>5
      <4>2. Part(tasks[t][s]) /\ Part(tasks[u][v])
        BY <3>2, <4>1 DEF TaskInv
      <4>3. /\ Holds(tasks[t][s], slices[i].root, slices[i].from)
            /\ Holds(tasks[u][v], slices[i].root, slices[i].from)
        BY <2>1, <2>3, <3>2, <4>1, <4>2, CoversHolds
      <4>4. t = u
        BY <2>3, <3>2, <4>1, <4>3, OneOwner
      <4> QED
        BY <2>1, <3>2, <4>4
    <3>6. CASE ~(u < g) /\ ~(t < g)
      <4>1. t = u
        BY <1>0, <2>2, <3>3, <3>6
      <4> QED
        BY <2>1, <3>2, <4>1
    <3> QED
      BY <3>4, <3>5, <3>6
  <2> QED
    BY <2>4, <2>5
<1> QED
  BY <1>0, <1>3 DEF Covers

LEMMA OwnerInvInit == PlanInit => OwnerInv
  BY DEF PlanInit, OwnerInv

LEMMA OwnerInvStep == PlanInv /\ PlanInv' /\ OwnerInv /\ [PlanNext]_planVars => OwnerInv'
<1> SUFFICES ASSUME PlanInv, PlanInv', OwnerInv, [PlanNext]_planVars PROVE OwnerInv'
  OBVIOUS
<1> USE DEF PlanInv
<1>1. CASE SliceRoot \/ NextRange
  <2>1. phase' \in {"slice", "invalid"}
    BY <1>1 DEF SliceRoot, NextRange
  <2> QED
    BY <2>1 DEF OwnerInv
<1>2. CASE AllSliced
  <2>1. phase' = "group" /\ taken' = 0 /\ tasks' = <<>>
    BY <1>2 DEF AllSliced, TaskInv
  <2> QED
    BY <2>1 DEF OwnerInv
<1>3. CASE OpenGroup
  <2>1. /\ phase = "group" /\ phase' = "group" /\ room = 0 /\ Len(tasks) < NumGroups
        /\ UNCHANGED <<req, slices>> /\ taken' = taken + 1
        /\ tasks' = Append(tasks, <<slices[taken + 1]>>)
    BY <1>3 DEF OpenGroup
  <2>2. /\ Len(slices) \in Nat /\ taken \in Nat /\ Len(tasks) \in Nat /\ NumGroups \in Nat
        /\ tasks \in Seq(Seq(Segments)) /\ taken' <= Len(slices)
    BY <2>1, Counts DEF PlanType, TaskInv
  <2>3. taken < Len(slices)
    BY <2>1, <2>2
  <2>4. Len(tasks') = Len(tasks) + 1 /\ \A t \in 1..Len(tasks) : tasks'[t] = tasks[t]
    BY <2>1, <2>2
  <2>5. taken = Start(Len(tasks))
    BY <2>1, <2>2 DEF DealInv, Start
  <2>6. Start(Len(tasks)) < taken + 1 /\ taken + 1 <= Start(Len(tasks) + 1)
    BY <2>1, <2>2, <2>5, StartNext
  <2>7. Deals(Len(tasks'), taken + 1)
    BY <2>2, <2>4, <2>6 DEF Deals
  <2>8. \A i \in 1..taken' : \E t, s : (Cell(t, s) /\ Covers(tasks[t][s], slices[i]) /\ Deals(t, i))'
    <3>1. /\ Len(tasks') \in {Len(tasks), Len(tasks) + 1} /\ Len(tasks') > 0
          /\ \A t \in 1..Len(tasks) : t < Len(tasks') => tasks'[t] = tasks[t]
      BY <2>2, <2>4
    <3>2. phase = "group" /\ UNCHANGED <<req, slices>> /\ taken' = taken + 1
      BY <2>1
    <3> QED
      BY <2>3, <2>7, <3>1, <3>2, OwnersStay
  <2>9. Start(Len(tasks) - 1)' < taken'
    <3>1. Start(Len(tasks) - 1)' = Start(Len(tasks))
      BY <2>1, <2>2, <2>4 DEF Start, Crowded
    <3> QED
      BY <2>1, <2>6, <3>1
  <2> QED
    BY <2>1, <2>8, <2>9 DEF OwnerInv
<1>4. CASE FillGroup
  <2>1. /\ phase = "group" /\ phase' = "group" /\ room > 0 /\ UNCHANGED <<req, slices>>
        /\ taken' = taken + 1
        /\ tasks' = [tasks EXCEPT ![Len(tasks)] = Merged(Last(tasks), slices[taken + 1])]
    BY <1>4 DEF FillGroup
  <2>2. /\ Len(slices) \in Nat /\ taken \in Nat /\ room \in Nat /\ Len(tasks) \in Nat
        /\ tasks \in Seq(Seq(Segments)) /\ tasks' \in Seq(Seq(Segments)) /\ taken' <= Len(slices)
    BY <2>1, Counts DEF PlanType, TaskInv
  <2>3. taken < Len(slices) /\ tasks # <<>>
    BY <2>1, <2>2 DEF DealInv
  <2>4. /\ Len(tasks') = Len(tasks) /\ Len(tasks) > 0
        /\ \A t \in 1..Len(tasks) : t < Len(tasks') => tasks'[t] = tasks[t]
    <3> DEFINE more == Merged(Last(tasks), slices[taken + 1])
    <3>1. tasks' = [tasks EXCEPT ![Len(tasks)] = more]
      BY <2>1
    <3> HIDE DEF more
    <3> QED
      BY <2>2, <2>3, <3>1
  <2>5. taken + 1 <= Start(Len(tasks))
    <3>1. Crowded
      BY <2>1, <2>2 DEF DealInv
    <3>2. taken + room = Start(Len(tasks))
      BY <2>1, <3>1 DEF DealInv, Start
    <3> QED
      BY <2>1, <2>2, <3>2
  <2>6. Start(Len(tasks) - 1) < taken
    BY <2>1, <2>3 DEF OwnerInv
  <2>7. Start(Len(tasks) - 1) \in Nat
    <3>1. Len(tasks) - 1 \in Nat /\ Len(tasks) - 1 < NumGroups
      <4>1. Len(tasks) <= NumGroups /\ NumGroups \in Nat
        BY <2>1, Counts DEF DealInv
      <4> QED
        BY <2>2, <2>4, <4>1
    <3> QED
      BY <3>1, StartNext
  <2>8. Deals(Len(tasks'), taken + 1)
    BY <2>2, <2>4, <2>5, <2>6, <2>7 DEF Deals
  <2>9. \A i \in 1..taken' : \E t, s : (Cell(t, s) /\ Covers(tasks[t][s], slices[i]) /\ Deals(t, i))'
    BY <2>1, <2>2, <2>3, <2>4, <2>8, OwnersStay
  <2>10. Start(Len(tasks) - 1)' < taken'
    <3>1. Start(Len(tasks) - 1)' = Start(Len(tasks) - 1)
      BY <2>1, <2>4 DEF Start, Crowded
    <3> QED
      BY <2>1, <2>2, <2>6, <2>7, <3>1
  <2> QED
    BY <2>1, <2>9, <2>10 DEF OwnerInv
<1>5. CASE AllGrouped \/ UNCHANGED planVars
  <2>1. UNCHANGED <<req, slices, taken, tasks>>
    BY <1>5 DEF AllGrouped, planVars
  <2>2. /\ phase' \in {"group", "planned"} => phase \in {"group", "planned"}
        /\ phase' = "planned" => phase = "planned" \/ Len(tasks) = NumGroups
    BY <1>5 DEF AllGrouped, planVars
  <2>3. /\ \A t, s : Cell(t, s)' <=> Cell(t, s)
        /\ \A t, i : Deals(t, i)' <=> Deals(t, i)
        /\ Start(Len(tasks) - 1)' = Start(Len(tasks) - 1) /\ NumGroups' = NumGroups
    BY <2>1 DEF Cell, Deals, Start, Crowded, NumGroups
  <2> QED
    BY <2>1, <2>2, <2>3 DEF OwnerInv, Covers
<1> QED
  BY <1>1, <1>2, <1>3, <1>4, <1>5 DEF PlanNext

\* A task of a finished plan has the slices of its turn.
LEMMA SlicesOfTurn ==
  ASSUME PlanInv, OwnerInv, phase = "planned", NEW t \in 1..Len(tasks)
  PROVE  SlicesOf(t) = (Start(t - 1) + 1)..Start(t)
<1> USE DEF PlanInv
<1>1. /\ PlanType /\ SliceInv /\ TaskInv /\ taken = Len(slices) /\ Len(tasks) = NumGroups
      /\ Len(slices) \in Nat /\ NumGroups \in Nat
  BY Counts DEF DealInv, OwnerInv
<1>2. /\ t - 1 \in 0..NumGroups /\ t \in 0..NumGroups
      /\ Start(t - 1) \in Nat /\ Start(t) \in Nat
  BY <1>1, StartGrows
<1>3. Start(t) <= Len(slices)
  <2>1. Start(NumGroups) = Len(slices)
    <3>1. CASE Crowded
      <4>1. PICK n \in Nat, p \in Nat \ {0} :
              n = Len(slices) /\ p = req.parallelism /\ n > p /\ 0 \in 0..p
        BY <3>1, Counts
      <4> QED
        BY <3>1, <4>1, DealtIs DEF Start, NumGroups
    <3>2. CASE ~Crowded
      BY <3>2 DEF Start, NumGroups
    <3> QED
      BY <3>1, <3>2
  <2> QED
    BY <1>1, <1>2, <2>1, StartGrows
<1>4. ASSUME NEW i \in 1..Len(slices)
      PROVE  i \in SlicesOf(t) <=> Deals(t, i)
  <2>1. PICK u, v : Cell(u, v) /\ Covers(tasks[u][v], slices[i]) /\ Deals(u, i)
    BY <1>1, <1>4 DEF OwnerInv
  <2>2. u \in 1..Len(tasks) /\ v \in 1..Len(tasks[u])
    BY <2>1 DEF Cell
  <2>3. Holds(tasks[u][v], slices[i].root, slices[i].from)
    BY <1>4, <2>1, CoversHolds DEF TaskInv, SliceInv, PartsInv
  <2>4. ASSUME i \in SlicesOf(t) PROVE u = t
    <3>1. PICK s \in 1..Len(tasks[t]) : Holds(tasks[t][s], slices[i].root, slices[i].from)
      BY <2>4 DEF SlicesOf
    <3>2. Cell(t, s)
      BY DEF Cell
    <3> QED
      BY <1>1, <2>1, <2>3, <3>1, <3>2, OneOwner
  <2>5. ASSUME Deals(t, i) PROVE u = t
    <3>1. /\ u \in 0..NumGroups /\ u - 1 \in 0..NumGroups /\ u \in Int /\ t \in Int
          /\ Start(u) \in Nat /\ Start(u - 1) \in Nat
      BY <1>1, <2>2, StartGrows
    <3>2. u < t => Start(u) <= Start(t - 1)
      BY <1>1, <1>2, <3>1, StartGrows
    <3>3. t < u => Start(t) <= Start(u - 1)
      BY <1>1, <1>2, <3>1, StartGrows
    <3> QED
      BY <1>2, <2>1, <2>5, <3>1, <3>2, <3>3 DEF Deals
  <2> QED
    BY <2>1, <2>2, <2>3, <2>4, <2>5 DEF SlicesOf
<1>5. SlicesOf(t) \subseteq 1..Len(slices)
  BY DEF SlicesOf
<1>6. \A i \in Int : Deals(t, i) <=> i \in (Start(t - 1) + 1)..Start(t)
  BY <1>2 DEF Deals
<1>7. (Start(t - 1) + 1)..Start(t) \subseteq 1..Len(slices)
  BY <1>1, <1>2, <1>3
<1>8. \A i \in 1..Len(slices) : i \in SlicesOf(t) <=> i \in (Start(t - 1) + 1)..Start(t)
  BY <1>4, <1>6
<1> QED
  BY <1>5, <1>7, <1>8, Zenon

LEMMA PlanInvBalanced == PlanInv /\ OwnerInv => PlanBalanced
<1> SUFFICES ASSUME PlanInv, OwnerInv, phase = "planned" PROVE PlanBalanced
  BY DEF PlanBalanced
<1>1. PlanType /\ Len(tasks) = NumGroups /\ Len(slices) \in Nat /\ req.parallelism \in Nat
  BY Counts DEF PlanInv, OwnerInv
<1>2. Len(tasks) = IF req.parallelism = 0 THEN Len(slices) ELSE Smaller(Len(slices), req.parallelism)
  BY <1>1 DEF NumGroups, Crowded, Smaller
<1>3. ASSUME NEW t \in 1..Len(tasks)
      PROVE  GroupSize(t - 1) \in Nat \ {0} /\ Cardinality(SlicesOf(t)) = GroupSize(t - 1)
  <2>1. t - 1 \in Nat /\ t - 1 < NumGroups /\ t - 1 + 1 = t
    BY <1>1
  <2>2. /\ GroupSize(t - 1) \in Nat \ {0} /\ Start(t - 1) \in Nat
        /\ Start(t) = Start(t - 1) + GroupSize(t - 1)
    BY <1>1, <2>1, StartNext
  <2>3. Cardinality((Start(t - 1) + 1)..Start(t)) = GroupSize(t - 1)
    <3>1. PICK a \in Nat, m \in Nat \ {0} : a = Start(t - 1) /\ m = GroupSize(t - 1)
      BY <2>2
    <3>2. Cardinality((a + 1)..(a + m)) = m
      BY FS_Interval
    <3> QED
      BY <2>2, <3>1, <3>2
  <2> QED
    BY <2>2, <2>3, SlicesOfTurn
<1>4. ASSUME NEW t \in 1..Len(tasks), NEW u \in 1..Len(tasks)
      PROVE  GroupSize(t - 1) <= GroupSize(u - 1) + 1
  <2>1. CASE Crowded
    <3>1. PICK q \in Nat : q = Len(slices) \div req.parallelism
      <4>1. Len(slices) > req.parallelism /\ req.parallelism \in Nat \ {0} /\ 0 \in 0..req.parallelism
        BY <1>1, <2>1, Counts
      <4> QED
        BY <1>1, <4>1, DealtIs
    <3> QED
      BY <2>1, <3>1 DEF GroupSize
  <2>2. CASE ~Crowded
    BY <2>2 DEF GroupSize
  <2> QED
    BY <2>1, <2>2
<1>5. \A t, u \in 1..Len(tasks) :
        1 <= Cardinality(SlicesOf(t)) /\ Cardinality(SlicesOf(t)) <= Cardinality(SlicesOf(u)) + 1
  BY <1>3, <1>4
<1> QED
  BY <1>2, <1>5 DEF PlanBalanced

\* A finished plan has as many tasks as Ray asked for, or one for each slice, none of them
\* empty and none more than a slice larger than another (lerobot_datasource.py:1048-1058).
THEOREM LoadIsLevel == PlanSpec => []PlanBalanced
<1> QED
  BY OwnerInvInit, PlanInvariantHolds, OwnerInvStep, PlanInvBalanced, PTL DEF PlanSpec
=============================================================================
