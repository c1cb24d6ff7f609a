------------------------- MODULE HpaSimulationProofs -------------------------
(***************************************************************************)
(* Theorems about HpaSimulation, for any plans and any usage.              *)
(***************************************************************************)
EXTENDS HpaSimulation, TLAPS, FiniteSetTheorems, WellFoundedInduction

-----------------------------------------------------------------------------
(* The operators.                                                           *)

\* A nonempty bounded set of numbers has a largest element, which Largest finds.
LEMMA LargestIs ==
  ASSUME NEW S \in SUBSET Nat, NEW bound \in Nat, S # {}, \A x \in S : x <= bound
  PROVE  Largest(S) \in S /\ \A y \in S : y <= Largest(S)
<1> DEFINE T == {n \in Nat : \E x \in S : n = bound - x}
           R == OpToRel(<, Nat)
<1>1. \A x \in S : bound - x \in T
  OBVIOUS
<1>2. T \subseteq Nat /\ T # {}
  BY <1>1
<1>3. PICK t \in T : \A u \in T : ~(<<u, t>> \in R)
  <2> HIDE DEF R, T
  <2> IsWellFoundedOn(R, Nat)
    BY NatLessThanWellFounded DEF R
  <2> QED
    BY <1>2, WFMin
<1>4. \A u \in T : ~(u < t)
  <2> HIDE DEF T
  <2> TAKE u \in T
  <2>1. <<u, t>> \in Nat \X Nat
    BY <1>2
  <2> QED
    BY <1>3, <2>1 DEF OpToRel
<1>5. PICK x \in S : t = bound - x
  OBVIOUS
<1>6. \A y \in S : y <= x
  <2> SUFFICES ASSUME NEW y \in S PROVE y <= x
    OBVIOUS
  <2>1. ~(bound - y < bound - x)
    BY <1>1, <1>4, <1>5
  <2>2. y \in Nat /\ x \in Nat
    BY <1>5
  <2> HIDE DEF T, R
  <2> QED
    BY <2>1, <2>2
<1> QED
  BY <1>6 DEF Largest

\* The values of a function of numbers on a nonempty set of arguments have a largest
\* one, if they are bounded.
LEMMA LargestOf ==
  ASSUME NEW D, NEW f \in [D -> Nat], NEW I \in SUBSET D, I # {},
         NEW bound \in Nat, \A i \in I : f[i] <= bound
  PROVE  /\ Largest({f[i] : i \in I}) \in Nat
         /\ \A i \in I : f[i] <= Largest({f[j] : j \in I})
<1> DEFINE S == {f[i] : i \in I}
<1>1. S \in SUBSET Nat /\ S # {} /\ \A x \in S : x <= bound
  OBVIOUS
<1>2. Largest(S) \in S /\ \A y \in S : y <= Largest(S)
  <2> HIDE DEF S
  <2> QED
    BY <1>1, LargestIs
<1> QED
  BY <1>1, <1>2

\* A set of numbers that has 0 and, with a number, the next one, has them all.
LEMMA SetInduction ==
  ASSUME NEW S, 0 \in S, \A n \in Nat : n \in S => n + 1 \in S
  PROVE  \A n \in Nat : n \in S
<1> DEFINE T == {n \in Nat : n \notin S}
           R == OpToRel(<, Nat)
<1>1. SUFFICES ASSUME T # {} PROVE FALSE
  OBVIOUS
<1>2. PICK t \in T : \A u \in T : ~(<<u, t>> \in R)
  <2>1. T \subseteq Nat
    OBVIOUS
  <2> HIDE DEF R, T
  <2> IsWellFoundedOn(R, Nat)
    BY NatLessThanWellFounded DEF R
  <2> QED
    BY <1>1, <2>1, WFMin
<1>3. t \in Nat /\ t # 0 /\ t \notin S
  OBVIOUS
<1>4. t - 1 \in Nat /\ (t - 1) + 1 = t /\ t - 1 < t
  BY <1>3
<1>5. t - 1 \in T
  BY <1>3, <1>4
<1>6. <<t - 1, t>> \in R
  BY <1>3, <1>4 DEF OpToRel
<1> QED
  BY <1>2, <1>5, <1>6

\* A function of numbers is bounded on 0..hi.
LEMMA BoundedPrefix ==
  ASSUME NEW D, NEW f \in [D -> Nat], NEW hi \in Nat, 0..hi \subseteq D
  PROVE  \E bound \in Nat : \A i \in 0..hi : f[i] <= bound
<1> DEFINE Bounded(h, b) == \A i \in 0..h : f[i] <= b
           S == {h \in Nat : h <= hi => \E b \in Nat : Bounded(h, b)}
<1>1. 0 \in S
  <2>1. 0 \in D /\ f[0] \in Nat /\ Bounded(0, f[0])
    OBVIOUS
  <2> QED
    BY <2>1
<1>2. ASSUME NEW h \in Nat, h \in S PROVE h + 1 \in S
  <2> SUFFICES ASSUME h + 1 <= hi PROVE \E b \in Nat : Bounded(h + 1, b)
    OBVIOUS
  <2>1. PICK b \in Nat : Bounded(h, b)
    BY <1>2
  <2>2. h + 1 \in D /\ f[h + 1] \in Nat
    OBVIOUS
  <2>3. b + f[h + 1] \in Nat /\ Bounded(h + 1, b + f[h + 1])
    <3>1. b + f[h + 1] \in Nat /\ b <= b + f[h + 1] /\ f[h + 1] <= b + f[h + 1]
      BY <2>2
    <3>2. ASSUME NEW i \in 0..(h + 1) PROVE f[i] <= b + f[h + 1]
      <4>1. i = h + 1 \/ i \in 0..h
        OBVIOUS
      <4>2. i \in D /\ f[i] \in Nat
        OBVIOUS
      <4> QED
        BY <2>1, <2>2, <3>1, <4>1, <4>2
    <3> QED
      BY <3>1, <3>2
  <2> QED
    BY <2>3
<1>3. hi \in S
  <2> HIDE DEF S
  <2> QED
    BY <1>1, <1>2, SetInduction
<1> QED
  BY <1>3

\* Multiplying an inequality.
LEMMA TimesLeq ==
  ASSUME NEW a \in Nat, NEW b \in Nat, NEW c \in Nat, a <= b
  PROVE  a * c <= b * c /\ a * c \in Nat /\ b * c \in Nat
  OBVIOUS

\* CeilDiv rounds up.
LEMMA CeilDivIs ==
  ASSUME NEW m \in Nat, NEW n \in Nat \ {0}
  PROVE  CeilDiv(m, n) \in Nat /\ m <= n * CeilDiv(m, n)
<1> DEFINE a == m + n - 1
           q == a \div n
<1>1. a \in Nat /\ n \in Int /\ n > 0
  OBVIOUS
<1>2. q \in Int /\ a = n * q + (a % n) /\ a % n \in 0..(n - 1)
  BY <1>1
<1>3. q >= 0
  <2> SUFFICES ASSUME q <= -1 PROVE FALSE
    BY <1>2
  <2>1. n * q <= n * (-1)
    BY <1>1, <1>2
  <2> QED
    BY <1>1, <1>2, <2>1
<1> QED
  BY <1>1, <1>2, <1>3 DEF CeilDiv

\* Nearest is within half of the unit that it rounds to.
LEMMA NearestIs ==
  ASSUME NEW x \in Int, NEW w \in Nat \ {0}, NEW k \in Nearest(x, w)
  PROVE  k \in Int /\ 2 * (x - k * w) <= w /\ 2 * (k * w - x) <= w
<1>1. x \div w \in Int
  OBVIOUS
<1> QED
  BY <1>1 DEF Nearest

\* Clip takes a number into the plan's range, down only if it exceeds the maximum.
LEMMA ClipIs ==
  ASSUME plan \in PlanType, plan.min <= plan.max, NEW n \in Nat
  PROVE  /\ Clip(n) \in plan.min..plan.max
         /\ Clip(n) \in Nat
         /\ n \in plan.min..plan.max => Clip(n) = n
         /\ n <= plan.max => Clip(n) >= n
         /\ n > plan.max => Clip(n) = plan.max
  BY DEF Clip, Larger, Smaller, PlanType

\* While there is a plan left it has the type of one.
LEMMA PlanTyped ==
  ASSUME p \in 1..Len(Plans)
  PROVE  plan \in PlanType
  BY HpaAssumption DEF plan

\* The counts among the constants.
LEMMA Counts ==
  /\ NRows \in Nat \ {0} /\ Latency \in Nat \ {0} /\ Steps \in Nat \ {0}
  /\ Threshold \in Nat /\ Noise \in Nat
  BY HpaAssumption

\* What a row desires lies in the plan's range.
LEMMA DesiredIs ==
  ASSUME plan \in PlanType, plan.min <= plan.max, cpu \in [Rows -> Nat],
         starting \in plan.min..plan.max,
         NEW i \in Rows, NEW n \in plan.min..plan.max, NEW d \in Desired(i, n)
  PROVE  d \in Nat /\ d \in plan.min..plan.max
<1>1. /\ plan.min \in Nat \ {0} /\ plan.max \in Nat /\ plan.req \in Nat \ {0}
      /\ plan.target \in Nat \ {0} /\ n \in Nat \ {0} /\ cpu[i] \in Nat
  BY DEF PlanType
<1>2. CASE i < Latency
  BY <1>1, <1>2 DEF Desired
<1>3. CASE ~(i < Latency)
  <2>1. PICK c \in UNION {Scaled(n, m) : m \in Metrics(cpu[i], n * plan.req)} :
          d = Larger(plan.min, Smaller(plan.max, c))
    BY <1>3 DEF Desired
  <2>2. PICK m \in Metrics(cpu[i], n * plan.req) : c \in Scaled(n, m)
    BY <2>1
  <2>3. n * plan.req \in Nat \ {0} /\ 100 * cpu[i] \in Nat
    BY <1>1
  <2>4. m \in Int
    <3> HIDE DEF plan
    <3> QED
      BY <2>2, <2>3, NearestIs DEF Metrics
  <2>5. c = CeilDiv(n * m, plan.target) \/ c = CeilDiv(n * m, plan.target) + 1
    BY <2>2 DEF Scaled
  <2>6. c \in Int
    <3>1. n * m \in Int
      BY <1>1, <2>4
    <3>2. CeilDiv(n * m, plan.target) \in Int
      BY <1>1, <3>1 DEF CeilDiv
    <3> QED
      BY <2>5, <3>2
  <2> QED
    BY <1>1, <2>1, <2>6 DEF Larger, Smaller
<1> QED
  BY <1>2, <1>3

-----------------------------------------------------------------------------
(* Type correctness.                                                        *)

\* While rows are played the plan has a range, which no row's desire exceeds, and no
\* row has savings.
RowsInv ==
  /\ pc = "rows" => ~plan.vpa /\ saved = 0 /\ total = 0 /\ gain = 0
  /\ pc \in {"rows", "savings", "compare"} => plan.min <= plan.max
  /\ pc \in {"rows", "savings", "compare"} /\ ~plan.vpa => \A i \in Rows : desired[i] <= plan.max

Inv == TypeOK /\ RowsInv

\* The replicas of a row: within the range, as many as were desired Latency rows
\* before, and as many as in any row of a full window.
LEMMA RunningIs ==
  ASSUME Inv, pc = "rows"
  PROVE  /\ Running(row) \in plan.min..plan.max
         /\ Running(row) \in Nat \ {0}
         /\ row < Latency => Running(row) = starting
         /\ row = Latency /\ desired[0] = starting => Running(row) = starting
         /\ row >= Latency => Running(row) >= desired[row - Latency]
         /\ row > Latency + Steps => \A j \in Window(row) : Running(row) >= desired[j]
<1>1. /\ plan \in PlanType /\ plan.min <= plan.max /\ row \in Rows /\ NRows \in Nat
      /\ Latency \in Nat \ {0} /\ Steps \in Nat \ {0} /\ desired \in [Rows -> Nat]
      /\ starting \in plan.min..plan.max /\ \A i \in Rows : desired[i] <= plan.max
  BY PlanTyped, HpaAssumption DEF Inv, TypeOK, RowsInv, Replicas
<1>2. plan.min \in Nat \ {0} /\ plan.max \in Nat /\ row \in Nat
  BY <1>1 DEF PlanType, Rows
<1>3. CASE row < Latency
  BY <1>1, <1>2, <1>3 DEF Running
<1>4. CASE row >= Latency
  <2> DEFINE up == ReplicasUp(row)
             down == ReplicasDown(row)
             full == row > Latency + Steps
  <2>1. row - Latency \in Rows
    BY <1>1, <1>2, <1>4 DEF Rows
  <2>2. up = desired[row - Latency] /\ up \in Nat /\ up <= plan.max
    BY <1>1, <2>1 DEF ReplicasUp
  <2>3. /\ down \in Nat
        /\ ~full => down = plan.min
        /\ full => \A j \in Window(row) : desired[j] <= down
    <3>1. CASE ~full
      BY <1>1, <1>2, <3>1 DEF ReplicasDown
    <3>2. CASE full
      <4> DEFINE big == Largest({desired[j] : j \in Window(row)})
      <4>1. Window(row) \subseteq Rows /\ row - Latency - 1 \in Window(row)
        BY <1>1, <1>2, <3>2 DEF Window, Rows
      <4>2. big \in Nat /\ \A j \in Window(row) : desired[j] <= big
        BY <1>1, <1>2, <4>1, LargestOf
      <4>3. down = Larger(big, plan.min)
        BY <1>1, <1>2, <3>2 DEF ReplicasDown
      <4>4. \A j \in Window(row) : desired[j] \in Nat
        BY <1>1, <4>1
      <4> HIDE DEF big, down
      <4>5. down \in Nat /\ big <= down
        BY <1>2, <4>2, <4>3 DEF Larger
      <4> QED
        BY <3>2, <4>2, <4>4, <4>5
    <3> QED
      BY <3>1, <3>2
  <2> DEFINE n == Larger(up, down)
  <2>4. n \in Nat /\ n >= up /\ n >= down
    <3> HIDE DEF up, down
    <3> QED
      BY <2>2, <2>3 DEF Larger
  <2>5. Running(row) = Clip(n)
    BY <1>1, <1>2, <1>4 DEF Running
  <2>6. /\ Clip(n) \in plan.min..plan.max
        /\ n \in plan.min..plan.max => Clip(n) = n
        /\ n <= plan.max => Clip(n) >= n
        /\ n > plan.max => Clip(n) = plan.max
    <3> HIDE DEF n
    <3> QED
      BY <1>1, <2>4, ClipIs
  <2>7. row = Latency /\ desired[0] = starting => Running(row) = starting
    <3> SUFFICES ASSUME row = Latency, desired[0] = starting
                 PROVE  Running(row) = starting
      OBVIOUS
    <3>1. up = starting /\ down = plan.min
      BY <1>1, <1>2, <2>2, <2>3
    <3>2. n = starting
      <4> HIDE DEF up, down
      <4> QED
        BY <1>1, <1>2, <3>1 DEF Larger
    <3> HIDE DEF n
    <3> QED
      BY <1>1, <2>5, <2>6, <3>2
  <2>8. \A d \in Nat : d <= n /\ d <= plan.max => Running(row) >= d
    <3> HIDE DEF n
    <3> QED
      BY <1>2, <2>4, <2>5, <2>6
  <2>9. full => \A j \in Window(row) : Running(row) >= desired[j]
    <3> SUFFICES ASSUME full, NEW j \in Window(row) PROVE Running(row) >= desired[j]
      OBVIOUS
    <3>1. j \in Rows
      BY <1>1, <1>2 DEF Window, Rows
    <3> HIDE DEF n, down, up, full
    <3> QED
      BY <1>1, <2>3, <2>4, <2>8, <3>1
  <2> HIDE DEF n, down, up
  <2> QED
    BY <1>1, <1>2, <1>4, <2>2, <2>4, <2>5, <2>6, <2>7, <2>8, <2>9
<1> QED
  BY <1>1, <1>2, <1>3, <1>4

LEMMA InitInv == Init => Inv
<1> SUFFICES ASSUME Init PROVE Inv
  OBVIOUS
<1>1. Len(Plans) \in Nat /\ (Plans # <<>> => 1 <= Len(Plans))
  BY HpaAssumption
<1>2. cpu \in [Rows -> Nat] /\ mem \in [Rows -> Nat] /\ NRows \in Nat \ {0}
  BY HpaAssumption DEF Init
<1>3. /\ p \in 1..(Len(Plans) + 1) /\ pc \in {"plan", "done"}
      /\ pc # "done" => p <= Len(Plans)
  BY <1>1 DEF Init
<1>4. /\ starting \in Nat /\ row \in 0..NRows /\ clashes \in Nat
      /\ forecast \in [Rows -> Nat] /\ desired \in [Rows -> Nat]
  BY <1>2 DEF Init
<1>5. /\ saved \in 0..NRows /\ column \in [Rows -> Int] /\ total \in Int /\ gain \in Int
  BY <1>2 DEF Init
<1>6. /\ results \in [1..Len(Plans) -> ResultType \union {None}]
      /\ best \in 1..Len(Plans) \union {None} /\ bestRun \in [Rows -> Nat] \union {None}
  BY DEF Init
<1> QED
  BY <1>2, <1>3, <1>4, <1>5, <1>6 DEF Inv, TypeOK, RowsInv

\* Until the loop is done there is a plan.
LEMMA PlanLeft ==
  ASSUME Inv, pc # "done"
  PROVE  p \in 1..Len(Plans) /\ Len(Plans) \in Nat /\ plan \in PlanType
<1>1. p \in 1..Len(Plans) /\ Len(Plans) \in Nat
  BY HpaAssumption DEF Inv, TypeOK
<1> QED
  BY <1>1, PlanTyped

\* Moving on to the next plan: nothing is known of the range any more.
LEMMA NextPlanInv ==
  ASSUME Inv, pc # "done", NextPlan, UNCHANGED <<usageVars, playVars, savingVars>>,
         results' \in [1..Len(Plans) -> ResultType \union {None}],
         best' \in 1..Len(Plans) \union {None},
         bestRun' \in [Rows -> Nat] \union {None}
  PROVE  Inv'
<1>1. p \in 1..Len(Plans) /\ Len(Plans) \in Nat
  BY HpaAssumption DEF Inv, TypeOK
<1>2. p' \in 1..(Len(Plans) + 1) /\ pc' \in {"plan", "done"} /\ (pc' = "plan" => p' <= Len(Plans))
  BY <1>1 DEF NextPlan
<1> QED
  BY <1>2 DEF Inv, TypeOK, RowsInv, usageVars, playVars, savingVars

\* No savings yet.
LEMMA ResetIs ==
  ASSUME ResetSavings
  PROVE  /\ saved' \in 0..NRows /\ saved' \in Rows
         /\ column' \in [Rows -> Int] /\ total' \in Int /\ gain' \in Int
  BY HpaAssumption DEF ResetSavings, Rows

LEMMA PlayVpaInv ==
  ASSUME Inv, PlayVpa
  PROVE  Inv'
<1>1. /\ p \in 1..Len(Plans) /\ plan \in PlanType /\ plan.min <= plan.max
      /\ plan' = plan /\ plan.vpa /\ p' = p /\ pc' = "savings"
  BY PlanLeft DEF PlayVpa, IsPlanValid, plan
<1>2. plan.min \in Nat \ {0} /\ plan.max \in Nat
  BY <1>1 DEF PlanType
<1>3. /\ saved' \in 0..NRows /\ saved' \in Rows
      /\ column' \in [Rows -> Int] /\ total' \in Int /\ gain' \in Int
  BY ResetIs DEF PlayVpa
<1>4. plan.max \in Replicas'
  BY <1>1, <1>2 DEF Replicas
<1>5. forecast' \in [Rows -> Nat] /\ \A i \in Rows : forecast'[i] \in Replicas'
  BY <1>2, <1>4 DEF PlayVpa
<1>6. TypeOK'
  BY <1>1, <1>3, <1>5 DEF Inv, TypeOK, PlayVpa, usageVars, bestVars
<1>7. RowsInv'
  BY <1>1 DEF RowsInv
<1> QED
  BY <1>6, <1>7 DEF Inv

\* n replicas have the CPU that is used; with a float16 request, as far as that tells.
EnoughFor(used, n) ==
  used <= n * plan.req \/ (plan.half /\ CoveredInHalf(used, n))

\* What is enough stays enough for less usage and more replicas.
LEMMA EnoughMonotone ==
  ASSUME plan \in PlanType, NEW u \in Nat, NEW v \in Nat, u <= v,
         NEW n \in Nat, NEW m \in Nat, n <= m, EnoughFor(v, n)
  PROVE  EnoughFor(u, m)
<1>1. plan.req \in Nat
  BY DEF PlanType
<1>2. n * plan.req <= m * plan.req /\ n * plan.req \in Nat /\ m * plan.req \in Nat
  BY <1>1, TimesLeq
<1> DEFINE a == n * plan.req
           b == m * plan.req
<1> HIDE DEF a, b
<1>3. a <= b /\ a \in Nat /\ b \in Nat
  BY <1>2 DEF a, b
<1>4. v <= a => u <= b
  BY <1>3
<1>5. 2048 * v <= 2049 * a => 2048 * u <= 2049 * b
  BY <1>3
<1> QED
  BY <1>4, <1>5 DEF EnoughFor, CoveredInHalf, a, b

\* However the quotient is rounded, its ceiling is enough for the usage.
LEMMA StartsAreEnough ==
  ASSUME plan \in PlanType, NEW peak \in Nat, NEW n \in Starts(peak)
  PROVE  n \in Nat /\ EnoughFor(peak, n)
<1> DEFINE c == CeilDiv(peak, plan.req)
<1>1. plan.req \in Nat \ {0}
  BY DEF PlanType
<1>2. c \in Nat /\ peak <= plan.req * c
  BY <1>1, CeilDivIs
<1>3. /\ n \in {c - 1, c, c + 1}
      /\ \/ n = c
         \/ n < c /\ plan.half /\ CoveredInHalf(peak, n)
         \/ n > c
  BY DEF Starts
<1> HIDE DEF c
<1>4. c * plan.req = plan.req * c /\ c * plan.req \in Nat
  BY <1>1, <1>2
<1>5. CASE n = c
  BY <1>2, <1>4, <1>5 DEF EnoughFor
<1>6. CASE n > c
  <2>1. n \in Nat /\ c <= n
    BY <1>2, <1>3, <1>6
  <2>2. c * plan.req <= n * plan.req /\ n * plan.req \in Nat
    BY <1>1, <1>2, <2>1, TimesLeq
  <2> QED
    BY <1>2, <1>4, <2>1, <2>2 DEF EnoughFor
<1>7. CASE n < c /\ plan.half /\ CoveredInHalf(peak, n)
  <2>1. n = c - 1
    BY <1>2, <1>3, <1>7
  <2>2. c # 0
    <3> SUFFICES ASSUME c = 0 PROVE FALSE
      OBVIOUS
    <3>1. n * plan.req = -plan.req
      BY <1>1, <2>1
    <3> QED
      BY <1>1, <1>7, <3>1 DEF CoveredInHalf
  <2>3. n \in Nat
    BY <1>2, <2>1, <2>2
  <2> QED
    BY <1>7, <2>3 DEF EnoughFor
<1> QED
  BY <1>3, <1>5, <1>6, <1>7

\* The replicas a plan starts with cover the highest usage of the first rows, or are
\* the maximum.
LEMMA StartIs ==
  ASSUME Inv, BeginRows
  PROVE  /\ starting' \in plan.min..plan.max
         /\ \/ starting' = plan.max
            \/ \A i \in StartRows : EnoughFor(cpu[i], starting')
<1>1. /\ plan \in PlanType /\ plan.min <= plan.max /\ cpu \in [Rows -> Nat]
      /\ NRows \in Nat \ {0} /\ Latency \in Nat \ {0}
  BY PlanTyped, HpaAssumption DEF Inv, TypeOK, BeginRows, IsPlanValid
<1>2. plan.min \in Nat \ {0} /\ plan.max \in Nat
  BY <1>1 DEF PlanType
<1> DEFINE hi == Smaller(Latency, NRows - 1)
<1>3. StartRows = 0..hi /\ StartRows \subseteq Rows /\ 0 \in StartRows /\ hi \in Nat
  <2>1. hi \in 0..(NRows - 1)
    BY <1>1 DEF Smaller
  <2> HIDE DEF hi
  <2>2. StartRows = 0..hi
    BY DEF StartRows, hi
  <2> QED
    BY <1>1, <2>1, <2>2 DEF Rows
<1> HIDE DEF hi
<1> DEFINE peak == Largest({cpu[i] : i \in StartRows})
<1>4. peak \in Nat /\ \A i \in StartRows : cpu[i] <= peak
  <2>1. PICK bound \in Nat : \A i \in StartRows : cpu[i] <= bound
    BY <1>1, <1>3, BoundedPrefix
  <2> QED
    BY <1>1, <1>3, <2>1, LargestOf
<1>5. PICK n \in Starts(peak) : starting' = Clip(n)
  BY DEF BeginRows
<1> HIDE DEF peak
<1>6. n \in Nat /\ EnoughFor(peak, n)
  BY <1>1, <1>4, StartsAreEnough
<1> DEFINE m == Clip(n)
<1>7. starting' = m /\ m \in plan.min..plan.max /\ (m = plan.max \/ m >= n)
  BY <1>1, <1>2, <1>5, <1>6, ClipIs
<1> HIDE DEF m
<1>8. ASSUME m >= n, NEW i \in StartRows PROVE EnoughFor(cpu[i], m)
  <2>1. m \in Nat /\ cpu[i] \in Nat /\ cpu[i] <= peak
    BY <1>1, <1>2, <1>3, <1>4, <1>7
  <2> QED
    BY <1>1, <1>4, <1>6, <1>8, <2>1, EnoughMonotone
<1> QED
  BY <1>7, <1>8

LEMMA BeginRowsInv ==
  ASSUME Inv, BeginRows
  PROVE  Inv'
<1>1. /\ p \in 1..Len(Plans) /\ plan \in PlanType /\ plan.min <= plan.max
      /\ plan' = plan /\ ~plan.vpa /\ p' = p /\ pc' = "rows" /\ NRows \in Nat \ {0}
  BY PlanLeft, Counts DEF BeginRows, IsPlanValid, plan
<1>2. plan.min \in Nat \ {0} /\ plan.max \in Nat
  BY <1>1 DEF PlanType
<1>3. starting' \in plan.min..plan.max
  BY StartIs
<1>4. plan.min \in Replicas' /\ starting' \in Replicas' /\ starting' \in Nat
  BY <1>1, <1>2, <1>3 DEF Replicas
<1>5. /\ forecast' \in [Rows -> Nat] /\ \A i \in Rows : forecast'[i] \in Replicas'
      /\ desired' \in [Rows -> Nat] /\ \A i \in Rows : desired'[i] <= plan.max
      /\ row' \in Rows /\ row' \in 0..NRows /\ clashes' \in Nat
  BY <1>1, <1>2, <1>4 DEF BeginRows, Rows
<1>6. /\ saved' \in 0..NRows /\ column' \in [Rows -> Int]
      /\ total' \in Int /\ gain' \in Int
  BY ResetIs DEF BeginRows
<1>7. TypeOK'
  BY <1>1, <1>4, <1>5, <1>6 DEF Inv, TypeOK, BeginRows, usageVars, bestVars
<1>8. RowsInv'
  BY <1>1, <1>5 DEF RowsInv, BeginRows, ResetSavings
<1> QED
  BY <1>7, <1>8 DEF Inv

\* What Inv says while rows are played.
LEMMA RowsTyped ==
  ASSUME Inv, pc = "rows"
  PROVE  /\ p \in 1..Len(Plans) /\ row \in Rows /\ ~plan.vpa /\ plan.min <= plan.max
         /\ cpu \in [Rows -> Nat] /\ mem \in [Rows -> Nat]
         /\ desired \in [Rows -> Nat] /\ forecast \in [Rows -> Nat]
         /\ clashes \in Nat /\ starting \in plan.min..plan.max
         /\ plan \in PlanType /\ NRows \in Nat \ {0}
         /\ \A i \in Rows : forecast[i] \in plan.min..plan.max /\ desired[i] <= plan.max
<1>1. p \in 1..Len(Plans)
  BY HpaAssumption DEF Inv, TypeOK
<1>2. Replicas = plan.min..plan.max
  BY DEF Replicas
<1> QED
  BY <1>1, <1>2, PlanTyped, HpaAssumption DEF Inv, TypeOK, RowsInv

\* What PlayRow does to the row's entries.
LEMMA PlayRowIs ==
  ASSUME Inv, PlayRow
  PROVE  /\ row \in Rows /\ plan' = plan /\ pc = "rows" /\ pc' \in {"rows", "savings"}
         /\ plan \in PlanType /\ ~plan.vpa /\ plan.min <= plan.max
         /\ row' = row + 1
         /\ forecast' = [forecast EXCEPT ![row] = Running(row)]
         /\ \E d \in plan.min..plan.max :
              /\ desired' = [desired EXCEPT ![row] = d]
              /\ row < Latency => d = starting
<1>1. /\ pc = "rows" /\ row \in Rows /\ plan \in PlanType /\ plan.min <= plan.max
      /\ ~plan.vpa /\ cpu \in [Rows -> Nat] /\ starting \in plan.min..plan.max
      /\ plan' = plan /\ pc' \in {"rows", "savings"}
  <2>1. pc = "rows" /\ p' = p /\ pc' \in {"rows", "savings"}
    BY DEF PlayRow
  <2> QED
    BY <2>1, RowsTyped DEF plan
<1>2. PICK d \in Desired(row, Running(row)) : desired' = [desired EXCEPT ![row] = d]
  BY DEF PlayRow
<1>3. Running(row) \in plan.min..plan.max
  BY <1>1, RunningIs
<1>4. d \in plan.min..plan.max
  BY <1>1, <1>3, DesiredIs
<1>5. row < Latency => d = starting
  BY DEF Desired
<1> QED
  BY <1>1, <1>2, <1>4, <1>5 DEF PlayRow

LEMMA PlayRowInv ==
  ASSUME Inv, PlayRow
  PROVE  Inv'
<1>1. /\ plan \in PlanType /\ plan' = plan /\ ~plan.vpa /\ plan.min <= plan.max
      /\ p \in 1..Len(Plans) /\ p' = p /\ pc' \in {"rows", "savings"}
      /\ row \in Rows /\ row' = row + 1
      /\ desired \in [Rows -> Nat] /\ forecast \in [Rows -> Nat]
      /\ starting \in plan.min..plan.max /\ starting' = starting
      /\ \A i \in Rows : forecast[i] \in plan.min..plan.max /\ desired[i] <= plan.max
      /\ NRows \in Nat \ {0} /\ clashes \in Nat
  <2>1. pc = "rows" /\ p' = p /\ starting' = starting
    BY DEF PlayRow
  <2> QED
    BY <2>1, RowsTyped, PlayRowIs
<1>2. plan.min \in Nat \ {0} /\ plan.max \in Nat /\ row \in Nat /\ row < NRows
  BY <1>1 DEF PlanType, Rows
<1>3. Running(row) \in Nat /\ Running(row) \in plan.min..plan.max
  BY RunningIs DEF PlayRow
<1>4. Replicas' = plan.min..plan.max
  BY <1>1 DEF Replicas
<1>5. forecast' \in [Rows -> Nat] /\ \A i \in Rows : forecast'[i] \in Replicas'
  BY <1>1, <1>3, <1>4, PlayRowIs
<1>6. desired' \in [Rows -> Nat] /\ \A i \in Rows : desired'[i] <= plan.max
  <2>1. PICK d \in plan.min..plan.max : desired' = [desired EXCEPT ![row] = d]
    BY PlayRowIs
  <2>2. d \in Nat /\ d <= plan.max
    BY <1>2, <2>1
  <2> QED
    BY <1>1, <2>1, <2>2
<1>7. clashes' \in Nat
  BY <1>1 DEF PlayRow
<1>8. /\ UNCHANGED savingVars /\ saved \in Rows
  BY HpaAssumption DEF PlayRow, Inv, RowsInv, Rows
<1>9. row' \in 0..NRows /\ (pc' = "rows" => row' \in Rows)
  BY <1>1, <1>2 DEF PlayRow, Rows
<1>10. starting' \in Replicas' /\ starting' \in Nat
  BY <1>1, <1>2, <1>4
<1>11. TypeOK'
  BY <1>1, <1>5, <1>6, <1>7, <1>8, <1>9, <1>10
     DEF Inv, TypeOK, PlayRow, usageVars, savingVars, bestVars
<1>12. RowsInv'
  BY <1>1, <1>6, <1>8 DEF RowsInv, Inv, PlayRow, savingVars
<1> QED
  BY <1>11, <1>12 DEF Inv

\* What a row's savings are, exactly and rounded.
LEMMA GainTyped ==
  ASSUME plan \in PlanType, NEW i \in Rows, NEW n \in Nat
  PROVE  /\ CpuRequest[i] - n * plan.req \in Int /\ MemRequest[i] - n * plan.mem \in Int
         /\ Gain(i, n) \in Int
<1>1. /\ plan.req \in Nat /\ plan.mem \in Nat /\ CpuRequest[i] \in Nat
      /\ MemRequest[i] \in Nat /\ MemPerCpu \in Nat /\ Milli \in Nat
  BY HpaAssumption DEF PlanType
<1> DEFINE x == CpuRequest[i] - n * plan.req
           y == MemRequest[i] - n * plan.mem
<1>2. x \in Int /\ y \in Int
  BY <1>1
<1> HIDE DEF x, y
<1>3. x * MemPerCpu + y * (1000 * Milli) \in Int
  BY <1>1, <1>2
<1> QED
  BY <1>2, <1>3 DEF Gain, x, y

LEMMA SavingsTyped ==
  ASSUME plan \in PlanType, NEW i \in Rows, NEW n \in Nat, NEW h \in Savings(i, n)
  PROVE  \E c \in CpuSavings(i, n) :
           /\ c \in Int /\ h \in Int
           /\ h \in Nearest(c * MemPerCpu + 1000 * (MemRequest[i] - n * plan.mem),
                            10 * MemPerCpu)
<1>1. /\ Milli \in Nat \ {0} /\ MemPerCpu \in Nat \ {0}
      /\ CpuRequest[i] - n * plan.req \in Int /\ MemRequest[i] - n * plan.mem \in Int
  BY HpaAssumption, GainTyped
<1>2. PICK c \in CpuSavings(i, n) :
        h \in Nearest(c * MemPerCpu + 1000 * (MemRequest[i] - n * plan.mem), 10 * MemPerCpu)
  BY DEF Savings
<1>3. c \in Int
  BY <1>1, <1>2, NearestIs DEF CpuSavings
<1> DEFINE y == MemRequest[i] - n * plan.mem
<1> HIDE DEF y
<1>4. c * MemPerCpu + 1000 * y \in Int /\ 10 * MemPerCpu \in Nat \ {0}
  BY <1>1, <1>3 DEF y
<1>5. h \in Int
  BY <1>2, <1>4, NearestIs DEF y
<1> QED
  BY <1>2, <1>3, <1>5

\* What SaveRow does to the row's entry, and what it leaves alone.
LEMMA SaveRowIs ==
  ASSUME Inv, SaveRow
  PROVE  /\ plan' = plan /\ plan \in PlanType /\ saved \in Rows /\ Played' = Played
         /\ pc = "savings" /\ pc' \in {"savings", "compare"}
         /\ UNCHANGED <<usageVars, p, playVars, bestVars>>
         /\ \E h \in Savings(saved, forecast[saved]) :
              /\ h \in Int /\ total' = total + h
              /\ column' = [column EXCEPT ![saved] = h]
         /\ gain' = gain + Gain(saved, forecast[saved])
         /\ forecast[saved] \in Nat
<1>1. /\ pc = "savings" /\ pc' \in {"savings", "compare"} /\ plan' = plan
      /\ UNCHANGED <<usageVars, p, playVars, bestVars>>
      /\ gain' = gain + Gain(saved, forecast[saved])
  BY DEF SaveRow, plan
<1>2. saved \in Rows /\ p \in 1..Len(Plans) /\ forecast \in [Rows -> Nat]
  BY <1>1, HpaAssumption DEF Inv, TypeOK
<1>3. plan \in PlanType
  BY <1>2, PlanTyped
<1>4. PICK h \in Savings(saved, forecast[saved]) :
        total' = total + h /\ column' = [column EXCEPT ![saved] = h]
  BY DEF SaveRow
<1>5. h \in Int
  BY <1>2, <1>3, <1>4, SavingsTyped
<1>6. Played' = Played
  BY <1>1 DEF Played, playVars
<1> QED
  BY <1>1, <1>2, <1>3, <1>4, <1>5, <1>6

LEMMA SaveRowInv ==
  ASSUME Inv, SaveRow
  PROVE  Inv'
<1>1. /\ plan' = plan /\ plan \in PlanType /\ saved \in Rows /\ forecast[saved] \in Nat
      /\ pc = "savings" /\ pc' \in {"savings", "compare"}
      /\ UNCHANGED <<usageVars, p, playVars, bestVars>>
      /\ gain' = gain + Gain(saved, forecast[saved])
  BY SaveRowIs
<1>2. PICK h \in Int : total' = total + h /\ column' = [column EXCEPT ![saved] = h]
  BY SaveRowIs
<1>3. column' \in [Rows -> Int] /\ total' \in Int /\ gain' \in Int
  <2>1. column \in [Rows -> Int] /\ total \in Int /\ gain \in Int
    BY DEF Inv, TypeOK
  <2>2. Gain(saved, forecast[saved]) \in Int
    BY <1>1, GainTyped
  <2> QED
    BY <1>1, <1>2, <2>1, <2>2
<1>4. saved' \in 0..NRows /\ (pc' = "savings" => saved' \in Rows)
  BY <1>1, Counts DEF SaveRow, Rows
<1>5. TypeOK'
  BY <1>1, <1>3, <1>4 DEF Inv, TypeOK, usageVars, playVars, bestVars, Replicas
<1>6. RowsInv'
  BY <1>1 DEF Inv, RowsInv, playVars
<1> QED
  BY <1>5, <1>6 DEF Inv

\* What Compare does: the result of the plan, and the choice.
LEMMA CompareIs ==
  ASSUME Inv, Compare
  PROVE  /\ pc = "compare" /\ p \in 1..Len(Plans) /\ NextPlan
         /\ UNCHANGED <<usageVars, playVars, savingVars>>
         /\ column \in [Rows -> Int] /\ total \in Int /\ gain \in Int
         /\ \E m \in Means :
              /\ m \in Int
              /\ (Noise + 1) * total <= m /\ m <= (Noise + 1) * total + Noise
              /\ results' = [results EXCEPT ![p] = [column |-> column, mean |-> m,
                                                   gain |-> gain]]
              /\ best' = IF IsBetter(m) THEN p ELSE best
              /\ bestRun' = IF IsBetter(m) THEN forecast ELSE bestRun
<1>1. /\ pc = "compare" /\ NextPlan /\ UNCHANGED <<usageVars, playVars, savingVars>>
  BY DEF Compare
<1>2. /\ p \in 1..Len(Plans) /\ column \in [Rows -> Int] /\ total \in Int /\ gain \in Int
  BY <1>1, HpaAssumption DEF Inv, TypeOK
<1>3. PICK m \in Means :
        /\ results' = [results EXCEPT ![p] = [column |-> column, mean |-> m, gain |-> gain]]
        /\ best' = IF IsBetter(m) THEN p ELSE best
        /\ bestRun' = IF IsBetter(m) THEN forecast ELSE bestRun
  BY DEF Compare
<1>4. m \in Int /\ (Noise + 1) * total <= m /\ m <= (Noise + 1) * total + Noise
  <2>1. m \in ((Noise + 1) * total)..((Noise + 1) * total + Noise)
    BY <1>3 DEF Means
  <2>2. (Noise + 1) * total \in Int /\ Noise \in Int
    BY <1>2, HpaAssumption
  <2> QED
    BY <2>1, <2>2
<1> QED
  BY <1>1, <1>2, <1>3, <1>4

LEMMA CompareInv ==
  ASSUME Inv, Compare
  PROVE  Inv'
<1>1. /\ pc # "done" /\ NextPlan /\ UNCHANGED <<usageVars, playVars, savingVars>>
      /\ p \in 1..Len(Plans) /\ forecast \in [Rows -> Nat]
      /\ column \in [Rows -> Int] /\ gain \in Int
  BY CompareIs DEF Inv, TypeOK
<1>2. PICK m \in Int :
        /\ results' = [results EXCEPT ![p] = [column |-> column, mean |-> m, gain |-> gain]]
        /\ best' = IF IsBetter(m) THEN p ELSE best
        /\ bestRun' = IF IsBetter(m) THEN forecast ELSE bestRun
  BY CompareIs
<1>3. [column |-> column, mean |-> m, gain |-> gain] \in ResultType
  BY <1>1 DEF ResultType
<1>4. /\ results' \in [1..Len(Plans) -> ResultType \union {None}]
      /\ best' \in 1..Len(Plans) \union {None}
      /\ bestRun' \in [Rows -> Nat] \union {None}
  BY <1>1, <1>2, <1>3 DEF Inv, TypeOK
<1> QED
  BY <1>1, <1>4, NextPlanInv

LEMMA StepInv ==
  ASSUME Inv, [Next]_vars
  PROVE  Inv'
<1>1. CASE SkipInvalid
  BY <1>1, NextPlanInv DEF SkipInvalid, Inv, TypeOK, bestVars
<1>2. CASE PlayVpa
  BY <1>2, PlayVpaInv
<1>3. CASE BeginRows
  BY <1>3, BeginRowsInv
<1>4. CASE RejectRow
  BY <1>4, NextPlanInv DEF RejectRow, Inv, TypeOK, bestVars
<1>5. CASE PlayRow
  BY <1>5, PlayRowInv
<1>6. CASE Compare
  BY <1>6, CompareInv
<1>7. CASE SaveRow
  BY <1>7, SaveRowInv
<1>8. CASE UNCHANGED vars
  BY <1>8 DEF vars, usageVars, playVars, savingVars, bestVars, Inv, TypeOK, RowsInv,
              Replicas, plan
<1> QED
  BY <1>1, <1>2, <1>3, <1>4, <1>5, <1>6, <1>7, <1>8 DEF Next, Finished

\* Whatever the plans and the usage, the state has its type: in particular every
\* row of the plan being played has a number of replicas between its minimum and
\* its maximum.
THEOREM TypeCorrect == Spec => []TypeOK
<1>1. Inv => TypeOK
  BY DEF Inv
<1> QED
  BY InitInv, StepInv, <1>1, PTL DEF Spec

-----------------------------------------------------------------------------
(* The rows of a plan.                                                      *)

\* How a step changes the rows played so far.
LEMMA PlayedIs ==
  ASSUME Inv, Next
  PROVE  \/ Played' = {}
         \/ PlayRow /\ Played' = 0..row /\ Played = 0..(row - 1)
         \/ Played' = Played /\ UNCHANGED <<usageVars, p, playVars>>
<1>1. NextPlan => Played' = {}
  BY DEF NextPlan, Played
<1>2. PlayVpa => Played' = {}
  BY DEF PlayVpa, Played, plan
<1>3. BeginRows => Played' = {}
  BY DEF BeginRows, Played
<1>4. PlayRow => Played' = 0..row /\ Played = 0..(row - 1)
  <2> SUFFICES ASSUME PlayRow PROVE Played' = 0..row /\ Played = 0..(row - 1)
    OBVIOUS
  <2>1. /\ pc = "rows" /\ pc' \in {"rows", "savings"} /\ plan' = plan /\ ~plan.vpa
        /\ row' = row + 1 /\ row \in Nat
    BY PlayRowIs DEF Rows
  <2>2. row' - 1 = row
    BY <2>1
  <2> QED
    BY <2>1, <2>2 DEF Played
<1>5. SaveRow => Played' = Played /\ UNCHANGED <<usageVars, p, playVars>>
  BY SaveRowIs
<1>6. UNCHANGED vars => Played' = Played /\ UNCHANGED <<usageVars, p, playVars>>
  BY DEF vars, usageVars, playVars, Played, plan
<1> QED
  BY <1>1, <1>2, <1>3, <1>4, <1>5, <1>6
     DEF Next, SkipInvalid, RejectRow, Compare, Finished

LEMMA PeakHeldStep ==
  ASSUME Inv, PeakHeld, [Next]_vars
  PROVE  PeakHeld'
<1>1. CASE Played' = {}
  BY <1>1 DEF PeakHeld
<1>2. CASE PlayRow /\ Played' = 0..row /\ Played = 0..(row - 1)
  <2>1. /\ pc = "rows" /\ row \in Rows /\ row \in Nat /\ Latency \in Nat \ {0}
        /\ Steps \in Nat \ {0} /\ NRows \in Nat /\ forecast' = [forecast EXCEPT ![row] = Running(row)]
        /\ forecast \in [Rows -> Nat] /\ desired \in [Rows -> Nat]
    <3>1. pc = "rows" /\ row \in Rows /\ forecast' = [forecast EXCEPT ![row] = Running(row)]
      BY <1>2, PlayRowIs
    <3>2. NRows \in Nat /\ forecast \in [Rows -> Nat] /\ desired \in [Rows -> Nat]
      BY <3>1, RowsTyped
    <3> QED
      BY <3>1, <3>2, Counts DEF Rows
  <2>2. PICK d : desired' = [desired EXCEPT ![row] = d]
    BY <1>2, PlayRowIs
  <2> SUFFICES ASSUME NEW k \in 0..row, NEW i \in 0..row,
                      i \in (k + Latency)..(k + Latency + Steps), i > Latency + Steps
               PROVE  forecast'[i] >= desired'[k]
    BY <1>2 DEF PeakHeld
  <2>3. k < row /\ k \in Rows /\ i \in Rows /\ k \in Played
    BY <1>2, <2>1 DEF Rows
  <2>4. desired'[k] = desired[k]
    BY <2>1, <2>2, <2>3
  <2>5. CASE i < row
    <3>1. i \in Played /\ forecast'[i] = forecast[i]
      BY <1>2, <2>1, <2>3, <2>5
    <3> QED
      BY <2>3, <2>4, <3>1 DEF PeakHeld
  <2>6. CASE i = row
    <3>1. forecast'[i] = Running(row)
      BY <2>1, <2>6
    <3>2. k = row - Latency \/ k \in Window(row)
      BY <2>1, <2>3, <2>6 DEF Window
    <3>3. Running(row) >= desired[k]
      BY <2>1, <2>6, <3>2, RunningIs
    <3> QED
      BY <2>4, <3>1, <3>3
  <2> QED
    BY <2>1, <2>5, <2>6
<1>3. CASE Played' = Played /\ UNCHANGED <<usageVars, p, playVars>>
  BY <1>3 DEF playVars, PeakHeld
<1>4. CASE UNCHANGED vars
  BY <1>4 DEF vars, usageVars, playVars, PeakHeld, Played, plan
<1> QED
  BY <1>1, <1>2, <1>3, <1>4, PlayedIs

\* What the metric of a row asks for is running Latency rows later, and is kept for
\* the Steps rows after that: for any series, latency and window.
THEOREM PeaksAreHeld == Spec => []PeakHeld
<1>1. Init => PeakHeld
  BY DEF Init, PeakHeld, Played
<1> QED
  BY InitInv, StepInv, <1>1, PeakHeldStep, PTL DEF Spec

\* The replicas a plan starts with, what they cover, and how long they last.
StartInv ==
  (pc \in {"rows", "savings", "compare"} /\ ~plan.vpa) =>
    /\ starting \in plan.min..plan.max
    /\ starting = plan.max \/ \A i \in StartRows : EnoughFor(cpu[i], starting)
    /\ \A i \in Played : i < Latency => desired[i] = starting
    /\ \A i \in Played : i <= Latency => forecast[i] = starting

LEMMA StartInvStep ==
  ASSUME Inv, StartInv, [Next]_vars
  PROVE  StartInv'
<1>1. CASE SkipInvalid \/ RejectRow \/ Compare
  BY <1>1 DEF SkipInvalid, RejectRow, Compare, NextPlan, StartInv
<1>2. CASE PlayVpa
  BY <1>2 DEF PlayVpa, StartInv, plan
<1>3. CASE BeginRows
  <2>1. plan' = plan /\ cpu' = cpu /\ Played' = {}
    BY <1>3 DEF BeginRows, plan, Played, usageVars
  <2>2. /\ starting' \in plan.min..plan.max
        /\ starting' = plan.max \/ \A i \in StartRows : EnoughFor(cpu[i], starting')
    BY <1>3, StartIs
  <2> QED
    BY <2>1, <2>2 DEF StartInv, EnoughFor, CoveredInHalf
<1>4. CASE PlayRow
  <2>1. /\ pc = "rows" /\ pc' \in {"rows", "savings"} /\ plan' = plan /\ ~plan.vpa
        /\ row \in Rows /\ row \in Nat /\ Latency \in Nat \ {0} /\ NRows \in Nat
        /\ forecast' = [forecast EXCEPT ![row] = Running(row)]
        /\ forecast \in [Rows -> Nat] /\ desired \in [Rows -> Nat]
        /\ starting' = starting /\ cpu' = cpu
    <3>1. /\ pc = "rows" /\ pc' \in {"rows", "savings"} /\ plan' = plan /\ ~plan.vpa
          /\ row \in Rows /\ forecast' = [forecast EXCEPT ![row] = Running(row)]
      BY <1>4, PlayRowIs
    <3>2. NRows \in Nat /\ forecast \in [Rows -> Nat] /\ desired \in [Rows -> Nat]
      BY <3>1, RowsTyped
    <3>3. starting' = starting /\ cpu' = cpu
      BY <1>4 DEF PlayRow, usageVars
    <3>4. row \in Nat /\ Latency \in Nat \ {0}
      BY <3>1, <3>2, HpaAssumption DEF Rows
    <3> QED
      BY <3>1, <3>2, <3>3, <3>4
  <2>2. PICK d \in plan.min..plan.max : /\ desired' = [desired EXCEPT ![row] = d]
                                        /\ row < Latency => d = starting
    BY <1>4, PlayRowIs
  <2>3. Played' = 0..row /\ Played = 0..(row - 1)
    <3>1. Played = 0..(row - 1) /\ row' - 1 = row
      BY <1>4, <2>1, PlayRowIs DEF Played
    <3> QED
      BY <2>1, <3>1 DEF Played
  <2>4. row <= Latency => Running(row) = starting
    <3>1. CASE row < Latency
      BY <2>1, <3>1, RunningIs
    <3>2. CASE row = Latency
      <4>1. 0 \in Played /\ 0 < Latency
        BY <2>1, <2>3, <3>2
      <4>2. desired[0] = starting
        BY <2>1, <4>1 DEF StartInv
      <4> QED
        BY <2>1, <3>2, <4>2, RunningIs
    <3> QED
      BY <2>1, <3>1, <3>2
  <2>5. ASSUME NEW i \in 0..row, i < Latency PROVE desired'[i] = starting
    <3>1. i \in Rows /\ (i # row => i \in Played)
      BY <2>1, <2>3 DEF Rows
    <3> QED
      BY <2>1, <2>2, <2>5, <3>1 DEF StartInv
  <2>6. ASSUME NEW i \in 0..row, i <= Latency PROVE forecast'[i] = starting
    <3>1. i \in Rows /\ (i # row => i \in Played)
      BY <2>1, <2>3 DEF Rows
    <3> QED
      BY <2>1, <2>4, <2>6, <3>1 DEF StartInv
  <2> QED
    BY <2>1, <2>3, <2>5, <2>6 DEF StartInv, EnoughFor, CoveredInHalf
<1>5. CASE SaveRow
  <2>1. plan' = plan /\ Played' = Played /\ pc = "savings" /\ UNCHANGED <<usageVars, playVars>>
    BY <1>5, SaveRowIs
  <2> QED
    BY <2>1 DEF StartInv, EnoughFor, CoveredInHalf, usageVars, playVars
<1>6. CASE UNCHANGED vars
  BY <1>6 DEF vars, usageVars, playVars, bestVars, StartInv, Played, plan, EnoughFor,
              CoveredInHalf
<1> QED
  BY <1>1, <1>2, <1>3, <1>4, <1>5, <1>6 DEF Next, Finished

\* The replicas of the start cover the usage until the first ones made by a metric
\* can be ready, whatever the rounding of their number, unless the maximum does not.
THEOREM StartIsCovered == Spec => []StartCovers
<1>1. Init => StartInv
  BY DEF Init, StartInv
<1>2. ASSUME Inv, StartInv PROVE StartCovers
  <2> SUFFICES ASSUME NEW i \in Played \intersect 0..Latency, CpuShort(i, forecast[i]),
                      forecast[i] # plan.max
               PROVE  plan.half /\ CoveredInHalf(cpu[i], forecast[i])
    BY DEF StartCovers
  <2>1. pc \in {"rows", "savings", "compare"} /\ ~plan.vpa /\ i \in 0..(row - 1)
    BY DEF Played
  <2>2. i \in StartRows /\ i \in Rows
    <3>1. row \in 0..NRows /\ NRows \in Nat \ {0} /\ Latency \in Nat
      BY <1>2, HpaAssumption DEF Inv, TypeOK
    <3> QED
      BY <2>1, <3>1 DEF StartRows, Smaller, Rows
  <2>3. forecast[i] = starting
    <3>1. i <= Latency
      BY HpaAssumption
    <3> QED
      BY <1>2, <2>1, <3>1 DEF StartInv
  <2>4. EnoughFor(cpu[i], starting)
    BY <1>2, <2>1, <2>2, <2>3 DEF StartInv
  <2>5. ~(cpu[i] <= starting * plan.req)
    <3>1. p \in 1..Len(Plans) /\ starting \in Nat /\ cpu[i] \in Nat
      BY <1>2, <2>1, <2>2, HpaAssumption DEF Inv, TypeOK
    <3>2. plan.req \in Nat
      BY <3>1, PlanTyped DEF PlanType
    <3>3. starting * plan.req \in Nat
      BY <3>1, <3>2
    <3> QED
      BY <2>3, <3>1, <3>3 DEF CpuShort
  <2> QED
    BY <2>3, <2>4, <2>5 DEF EnoughFor
<1> QED
  BY InitInv, StepInv, <1>1, <1>2, StartInvStep, PTL DEF Spec

-----------------------------------------------------------------------------
(* The recommendation.                                                      *)

\* A valid VPA plan, which nothing can reject.
GoodVpa(q) ==
  /\ Plans[q].vpa /\ Plans[q].min <= Plans[q].max
  /\ Plans[q].slope <= ScaleLimit /\ Plans[q].target >= MinTarget

\* The first of those with the highest mean is recommended, and equal columns have
\* equal means.
BestInv ==
  /\ \A q \in 1..Len(Plans) :
       results[q] # None =>
         /\ best # None /\ results[best] # None
         /\ results[q].mean <= results[best].mean
         /\ results[q].mean = results[best].mean => best <= q
  /\ \A q, r \in 1..Len(Plans) :
       (results[q] # None /\ results[r] # None /\ results[q].column = results[r].column)
         => results[q].mean = results[r].mean

\* Only plans already played have a result, the recommended one among them; once a
\* good VPA plan has been played there is one.
ResultInv ==
  /\ pc = "done" => p = Len(Plans) + 1
  /\ \A q \in 1..Len(Plans) : results[q] # None => q < p
  /\ \A q \in 1..Len(Plans) : q < p /\ GoodVpa(q) => best # None
  /\ best # None => results[best] # None
  /\ BestInv

\* Moving on from a plan that is not a good VPA plan, without a result.
LEMMA DroppedPlan ==
  ASSUME Inv, ResultInv, pc # "done", NextPlan, UNCHANGED bestVars, ~GoodVpa(p)
  PROVE  ResultInv'
<1>1. p \in 1..Len(Plans) /\ Len(Plans) \in Nat
  BY HpaAssumption DEF Inv, TypeOK
<1>2. p' = p + 1 /\ (pc' = "done" => p' = Len(Plans) + 1)
  BY <1>1 DEF NextPlan
<1>3. results' = results /\ best' = best
  BY DEF bestVars
<1>4. \A q \in 1..Len(Plans) : q < p' => q < p \/ q = p
  BY <1>1, <1>2
<1>5. \A q \in 1..Len(Plans) : q < p => q < p'
  BY <1>1, <1>2
<1> QED
  BY <1>2, <1>3, <1>4, <1>5 DEF ResultInv, BestInv, GoodVpa

LEMMA ComparedPlan ==
  ASSUME Inv, ResultInv, Compare
  PROVE  ResultInv'
<1>1. /\ p \in 1..Len(Plans) /\ Len(Plans) \in Nat /\ column \in [Rows -> Int] /\ gain \in Int
      /\ results \in [1..Len(Plans) -> ResultType \union {None}]
      /\ best \in 1..Len(Plans) \union {None} /\ p # None /\ None \notin ResultType
  <2>1. Len(Plans) \in Nat /\ None \notin ResultType /\ None \notin Nat
    BY HpaAssumption
  <2>2. /\ p \in 1..Len(Plans) /\ column \in [Rows -> Int] /\ gain \in Int
        /\ results \in [1..Len(Plans) -> ResultType \union {None}]
        /\ best \in 1..Len(Plans) \union {None}
    BY CompareIs DEF Inv, TypeOK
  <2> QED
    BY <2>1, <2>2
<1>2. PICK m \in Means :
        /\ m \in Int
        /\ results' = [results EXCEPT ![p] = [column |-> column, mean |-> m, gain |-> gain]]
        /\ best' = IF IsBetter(m) THEN p ELSE best
  BY CompareIs
<1> DEFINE new == [column |-> column, mean |-> m, gain |-> gain]
<1>3. new \in ResultType /\ new # None /\ new.mean = m /\ new.column = column
  BY <1>1, <1>2 DEF ResultType
<1>4. results'[p] = new /\ \A q \in 1..Len(Plans) : q # p => results'[q] = results[q]
  BY <1>1, <1>2
<1> HIDE DEF new
<1>5. p' = p + 1 /\ (pc' = "done" => p' = Len(Plans) + 1)
  BY <1>1, CompareIs DEF NextPlan
<1>6. results[p] = None
  BY <1>1 DEF ResultInv
<1>7. \A q \in 1..Len(Plans) : results'[q] # None => q = p \/ (results[q] # None /\ q < p)
  BY <1>1, <1>4 DEF ResultInv
<1>8. \A q \in 1..Len(Plans) : results'[q] # None => q < p'
  BY <1>1, <1>5, <1>7
<1>9. best' # None
  BY <1>1, <1>2 DEF IsBetter
<1>10. best # None => /\ best \in 1..Len(Plans) /\ best < p /\ results[best] # None
                      /\ results'[best] = results[best]
  BY <1>1, <1>4 DEF ResultInv
<1>11. \A q \in 1..Len(Plans) : results[q] # None => results[q].mean \in Int
  <2> SUFFICES ASSUME NEW q \in 1..Len(Plans), results[q] # None
               PROVE  results[q].mean \in Int
    OBVIOUS
  <2>1. results[q] \in ResultType
    BY <1>1
  <2> QED
    BY <2>1 DEF ResultType
<1>12. results'[best'] # None
  BY <1>2, <1>3, <1>4, <1>9, <1>10 DEF IsBetter
<1>13. ASSUME NEW q \in 1..Len(Plans), results'[q] # None
       PROVE  /\ results'[q].mean <= results'[best'].mean
              /\ results'[q].mean = results'[best'].mean => best' <= q
  <2>1. q # p => /\ results'[q] = results[q] /\ results[q] # None /\ q < p
                 /\ results[q].mean \in Int /\ best # None
                 /\ results[q].mean <= results[best].mean
                 /\ results[q].mean = results[best].mean => best <= q
    BY <1>4, <1>7, <1>11, <1>13 DEF ResultInv, BestInv
  <2>2. CASE IsBetter(m)
    <3>1. best' = p /\ results'[best'].mean = m
      BY <1>2, <1>3, <1>4, <2>2
    <3>2. CASE q = p
      BY <1>1, <1>2, <3>1, <3>2
    <3>3. CASE q # p
      <4>1. results[best].mean < m /\ results[best].mean \in Int
        BY <1>10, <1>11, <2>1, <2>2, <3>3 DEF IsBetter
      <4> QED
        BY <1>2, <2>1, <3>1, <3>3, <4>1
    <3> QED
      BY <3>2, <3>3
  <2>3. CASE ~IsBetter(m)
    <3>1. best' = best /\ best # None /\ ~(m > results[best].mean)
      BY <1>2, <2>3 DEF IsBetter
    <3>2. results'[best] = results[best] /\ results[best].mean \in Int /\ best < p
      BY <1>10, <1>11, <3>1
    <3>3. CASE q = p
      BY <1>1, <1>2, <1>3, <1>4, <1>10, <3>1, <3>2, <3>3
    <3>4. CASE q # p
      BY <2>1, <3>1, <3>2, <3>4
    <3> QED
      BY <3>3, <3>4
  <2> QED
    BY <2>2, <2>3
<1>14. \A q \in 1..Len(Plans) :
         (results[q] # None /\ results[q].column = column) => m = results[q].mean
  BY <1>2 DEF Means
<1>15. ASSUME NEW q \in 1..Len(Plans), NEW r \in 1..Len(Plans), results'[q] # None,
              results'[r] # None, results'[q].column = results'[r].column
       PROVE  results'[q].mean = results'[r].mean
  <2>1. CASE q # p /\ r # p
    BY <1>4, <1>15, <2>1 DEF ResultInv, BestInv
  <2>2. CASE q = p /\ r # p
    BY <1>3, <1>4, <1>14, <1>15, <2>2
  <2>3. CASE q # p /\ r = p
    BY <1>3, <1>4, <1>14, <1>15, <2>3
  <2> QED
    BY <2>1, <2>2, <2>3
<1> QED
  BY <1>5, <1>8, <1>9, <1>12, <1>13, <1>15 DEF ResultInv, BestInv

LEMMA ResultStep ==
  ASSUME Inv, ResultInv, [Next]_vars
  PROVE  ResultInv'
<1>1. CASE SkipInvalid
  BY <1>1, DroppedPlan DEF SkipInvalid, GoodVpa, IsPlanValid, plan
<1>2. CASE RejectRow
  BY <1>2, DroppedPlan, RowsTyped DEF RejectRow, GoodVpa, plan
<1>3. CASE Compare
  BY <1>3, ComparedPlan
<1>4. ASSUME pc' # "done", UNCHANGED <<p, bestVars>> PROVE ResultInv'
  BY <1>4 DEF bestVars, ResultInv, BestInv, GoodVpa
<1>5. CASE PlayVpa \/ BeginRows \/ PlayRow
  BY <1>4, <1>5 DEF PlayVpa, BeginRows, PlayRow
<1>6. CASE SaveRow
  <2>1. pc' # "done" /\ UNCHANGED <<p, bestVars>>
    BY <1>6, SaveRowIs
  <2> QED
    BY <1>4, <2>1
<1>7. CASE UNCHANGED vars
  BY <1>7 DEF vars, bestVars, ResultInv, BestInv, GoodVpa
<1> QED
  BY <1>1, <1>2, <1>3, <1>5, <1>6, <1>7 DEF Next, Finished

LEMMA InitResult == Init => ResultInv
<1> SUFFICES ASSUME Init PROVE ResultInv
  OBVIOUS
<1>1. Len(Plans) \in Nat /\ (Plans = <<>> => Len(Plans) = 0)
  BY HpaAssumption
<1> QED
  BY <1>1 DEF Init, ResultInv, BestInv

\* A column of n rows with the sum t is as close to what the rows save, g, as the
\* rounding of n rows leaves it: half a hundredth of a CPU and half a thousandth each.
Close(t, g, n) ==
  /\ 2 * (t * (10 * (Milli * MemPerCpu)) - g) <= n * (11 * (Milli * MemPerCpu))
  /\ 2 * (g - t * (10 * (Milli * MemPerCpu))) <= n * (11 * (Milli * MemPerCpu))

\* Two roundings on top of each other: x to c thousandths, and those with y to h
\* hundredths.
LEMMA RoundingArithmetic ==
  ASSUME NEW x \in Int, NEW y \in Int, NEW c \in Int, NEW h \in Int,
         NEW w \in Nat \ {0}, NEW k \in Nat \ {0},
         2 * (x - c * w) <= w, 2 * (c * w - x) <= w,
         2 * ((c * k + 1000 * y) - h * (10 * k)) <= 10 * k,
         2 * (h * (10 * k) - (c * k + 1000 * y)) <= 10 * k
  PROVE  /\ 2 * (h * (10 * (w * k)) - (x * k + y * (1000 * w))) <= 11 * (w * k)
         /\ 2 * ((x * k + y * (1000 * w)) - h * (10 * (w * k))) <= 11 * (w * k)
<1>1. \A a, b \in Int : a <= b => a * k <= b * k /\ a * w <= b * w
  OBVIOUS
<1> DEFINE cw == c * w
           ck == c * k
           hk == h * k
<1>2. cw \in Int /\ ck \in Int /\ hk \in Int
  OBVIOUS
<1>3. h * (10 * k) = 10 * hk
  OBVIOUS
<1>4. cw * k = ck * w /\ hk * w = h * (w * k) /\ x * k \in Int /\ y * w \in Int
      /\ w * k \in Nat /\ k * w = w * k /\ h * (w * k) \in Int /\ ck * w \in Int
  OBVIOUS
<1> HIDE DEF cw, ck, hk
<1>5. 2 * (x - cw) <= w /\ 2 * (cw - x) <= w
  BY DEF cw
<1>6. /\ 2 * ((ck + 1000 * y) - 10 * hk) <= 10 * k
      /\ 2 * (10 * hk - (ck + 1000 * y)) <= 10 * k
  BY <1>3 DEF ck
<1>7. /\ (2 * (x - cw)) * k <= w * k /\ (2 * (cw - x)) * k <= w * k
      /\ (2 * ((ck + 1000 * y) - 10 * hk)) * w <= (10 * k) * w
      /\ (2 * (10 * hk - (ck + 1000 * y))) * w <= (10 * k) * w
  BY <1>1, <1>2, <1>5, <1>6
<1>8. /\ (2 * (x - cw)) * k = 2 * (x * k - cw * k)
      /\ (2 * (cw - x)) * k = 2 * (cw * k - x * k)
      /\ (2 * ((ck + 1000 * y) - 10 * hk)) * w
           = 2 * ((ck * w + 1000 * (y * w)) - 10 * (hk * w))
      /\ (2 * (10 * hk - (ck + 1000 * y))) * w
           = 2 * (10 * (hk * w) - (ck * w + 1000 * (y * w)))
      /\ (10 * k) * w = 10 * (w * k)
  BY <1>2
<1>9. /\ h * (10 * (w * k)) = 10 * (h * (w * k))
      /\ y * (1000 * w) = 1000 * (y * w)
  OBVIOUS
<1> DEFINE xk == x * k
           yw == y * w
           hwk == h * (w * k)
           ckw == ck * w
           wk == w * k
<1>10. /\ xk \in Int /\ yw \in Int /\ hwk \in Int /\ ckw \in Int /\ wk \in Nat
       /\ 2 * (xk - ckw) <= wk /\ 2 * (ckw - xk) <= wk
       /\ 2 * ((ckw + 1000 * yw) - 10 * hwk) <= 10 * wk
       /\ 2 * (10 * hwk - (ckw + 1000 * yw)) <= 10 * wk
  BY <1>4, <1>7, <1>8
<1>11. h * (10 * (w * k)) = 10 * hwk /\ y * (1000 * w) = 1000 * yw
  BY <1>9
<1> HIDE DEF xk, yw, hwk, ckw
<1>12. /\ 2 * (10 * hwk - (xk + 1000 * yw)) <= 11 * wk
       /\ 2 * ((xk + 1000 * yw) - 10 * hwk) <= 11 * wk
  <2> HIDE DEF wk
  <2> QED
    BY <1>10
<1> QED
  BY <1>11, <1>12 DEF xk

\* The savings of a row are close to what it saves.
LEMMA SavingsClose ==
  ASSUME plan \in PlanType, NEW i \in Rows, NEW n \in Nat, NEW h \in Savings(i, n)
  PROVE  h \in Int /\ Close(h, Gain(i, n), 1)
<1> DEFINE x == CpuRequest[i] - n * plan.req
           y == MemRequest[i] - n * plan.mem
<1>1. /\ x \in Int /\ y \in Int /\ Milli \in Nat \ {0} /\ MemPerCpu \in Nat \ {0}
  BY HpaAssumption, GainTyped
<1>2. PICK c \in CpuSavings(i, n) :
        /\ c \in Int /\ h \in Int
        /\ h \in Nearest(c * MemPerCpu + 1000 * y, 10 * MemPerCpu)
  BY SavingsTyped
<1>3. c \in Nearest(x, Milli)
  BY <1>2 DEF CpuSavings
<1>4. Gain(i, n) = x * MemPerCpu + y * (1000 * Milli)
  BY DEF Gain
<1> HIDE DEF x, y
<1>5. 2 * (x - c * Milli) <= Milli /\ 2 * (c * Milli - x) <= Milli
  BY <1>1, <1>3, NearestIs
<1>6. c * MemPerCpu + 1000 * y \in Int /\ 10 * MemPerCpu \in Nat \ {0}
  BY <1>1, <1>2
<1>7. /\ 2 * ((c * MemPerCpu + 1000 * y) - h * (10 * MemPerCpu)) <= 10 * MemPerCpu
      /\ 2 * (h * (10 * MemPerCpu) - (c * MemPerCpu + 1000 * y)) <= 10 * MemPerCpu
  BY <1>2, <1>6, NearestIs
<1>8. /\ 2 * (h * (10 * (Milli * MemPerCpu)) - Gain(i, n)) <= 11 * (Milli * MemPerCpu)
      /\ 2 * (Gain(i, n) - h * (10 * (Milli * MemPerCpu))) <= 11 * (Milli * MemPerCpu)
  BY <1>1, <1>2, <1>4, <1>5, <1>7, RoundingArithmetic
<1>9. 1 * (11 * (Milli * MemPerCpu)) = 11 * (Milli * MemPerCpu)
  BY <1>1
<1> QED
  BY <1>2, <1>8, <1>9 DEF Close

\* No rows, no savings.
LEMMA CloseNothing == Close(0, 0, 0)
<1>1. Milli \in Nat /\ MemPerCpu \in Nat
  BY HpaAssumption
<1>2. Milli * MemPerCpu \in Nat
  BY <1>1
<1> QED
  BY <1>2 DEF Close

\* Closeness adds up.
LEMMA CloseAdds ==
  ASSUME NEW t \in Int, NEW g \in Int, NEW n \in Nat, NEW h \in Int, NEW a \in Int,
         Close(t, g, n), Close(h, a, 1)
  PROVE  Close(t + h, g + a, n + 1)
<1> DEFINE W == 10 * (Milli * MemPerCpu)
           E == 11 * (Milli * MemPerCpu)
<1>1. W \in Nat /\ E \in Nat
  <2>1. Milli \in Nat /\ MemPerCpu \in Nat
    BY HpaAssumption
  <2>2. Milli * MemPerCpu \in Nat
    BY <2>1
  <2> QED
    BY <2>2
<1>2. /\ 2 * (t * W - g) <= n * E /\ 2 * (g - t * W) <= n * E
      /\ 2 * (h * W - a) <= 1 * E /\ 2 * (a - h * W) <= 1 * E
  BY DEF Close
<1> HIDE DEF W, E
<1>3. (t + h) * W = t * W + h * W /\ (n + 1) * E = n * E + E /\ 1 * E = E
      /\ t * W \in Int /\ h * W \in Int /\ n * E \in Int
  BY <1>1
<1>4. /\ 2 * ((t + h) * W - (g + a)) <= (n + 1) * E
      /\ 2 * ((g + a) - (t + h) * W) <= (n + 1) * E
  BY <1>1, <1>2, <1>3
<1> QED
  BY <1>4 DEF Close, W, E

\* Of two columns of n rows the one with the larger sum saves as much as the other, up
\* to the rounding of the rows.
LEMMA CloseCompares ==
  ASSUME NEW t \in Int, NEW g \in Int, NEW u \in Int, NEW a \in Int, NEW n \in Nat,
         Close(t, g, n), Close(u, a, n), t <= u
  PROVE  g <= a + n * (11 * (Milli * MemPerCpu))
<1> DEFINE W == 10 * (Milli * MemPerCpu)
           E == 11 * (Milli * MemPerCpu)
<1>1. W \in Nat /\ E \in Nat
  <2>1. Milli \in Nat /\ MemPerCpu \in Nat
    BY HpaAssumption
  <2>2. Milli * MemPerCpu \in Nat
    BY <2>1
  <2> QED
    BY <2>2
<1>2. 2 * (g - t * W) <= n * E /\ 2 * (u * W - a) <= n * E
  BY DEF Close
<1> HIDE DEF W, E
<1>3. t * W <= u * W /\ t * W \in Int /\ u * W \in Int /\ n * E \in Int
  BY <1>1
<1>4. g <= a + n * E
  <2> DEFINE tw == t * W
             uw == u * W
             ne == n * E
  <2>1. tw \in Int /\ uw \in Int /\ ne \in Int /\ tw <= uw
        /\ 2 * (g - tw) <= ne /\ 2 * (uw - a) <= ne
    BY <1>2, <1>3
  <2> HIDE DEF tw, uw, ne
  <2>2. g <= a + ne
    BY <2>1
  <2> QED
    BY <2>2 DEF ne
<1> QED
  BY <1>4 DEF E

\* The column being made is close to what its rows save, and so are those of the
\* results, whose means lie in the order of their sums.
CloseInv ==
  /\ pc \in {"savings", "compare"} => Close(total, gain, saved)
  /\ pc = "compare" => saved = NRows
  /\ \A q \in 1..Len(Plans) :
       results[q] # None =>
         \E t \in Int : /\ Close(t, results[q].gain, NRows)
                        /\ (Noise + 1) * t <= results[q].mean
                        /\ results[q].mean <= (Noise + 1) * t + Noise

LEMMA CloseSaveRow ==
  ASSUME Inv, CloseInv, SaveRow
  PROVE  CloseInv'
<1>1. /\ plan \in PlanType /\ saved \in Rows /\ forecast[saved] \in Nat /\ pc = "savings"
      /\ UNCHANGED bestVars /\ gain' = gain + Gain(saved, forecast[saved])
  BY SaveRowIs
<1>2. PICK h \in Savings(saved, forecast[saved]) : h \in Int /\ total' = total + h
  BY SaveRowIs
<1>3. saved' = saved + 1 /\ saved \in Nat /\ (pc' = "compare" => saved' = NRows)
  BY <1>1, HpaAssumption DEF SaveRow, Rows
<1>4. Close(h, Gain(saved, forecast[saved]), 1)
  BY <1>1, <1>2, SavingsClose
<1>5. /\ Close(total, gain, saved) /\ total \in Int /\ gain \in Int
      /\ Gain(saved, forecast[saved]) \in Int
  BY <1>1, GainTyped DEF CloseInv, Inv, TypeOK
<1>6. Close(total + h, gain + Gain(saved, forecast[saved]), saved + 1)
  BY <1>2, <1>3, <1>4, <1>5, CloseAdds
<1>7. Close(total', gain', saved')
  BY <1>1, <1>2, <1>3, <1>6
<1>8. Close(total, gain, saved)'
  BY <1>7 DEF Close
<1> QED
  BY <1>1, <1>3, <1>8 DEF CloseInv, bestVars, Close

LEMMA CloseCompare ==
  ASSUME Inv, CloseInv, Compare
  PROVE  CloseInv'
<1>1. /\ pc = "compare" /\ p \in 1..Len(Plans) /\ total \in Int /\ pc' \in {"plan", "done"}
      /\ results \in [1..Len(Plans) -> ResultType \union {None}]
  BY CompareIs DEF Inv, TypeOK, NextPlan
<1>2. PICK m \in Int :
        /\ (Noise + 1) * total <= m /\ m <= (Noise + 1) * total + Noise
        /\ results' = [results EXCEPT ![p] = [column |-> column, mean |-> m, gain |-> gain]]
  BY CompareIs
<1>3. Close(total, gain, NRows)
  BY <1>1 DEF CloseInv
<1>4. ASSUME NEW q \in 1..Len(Plans), results'[q] # None
      PROVE  \E t \in Int : /\ Close(t, results'[q].gain, NRows)
                            /\ (Noise + 1) * t <= results'[q].mean
                            /\ results'[q].mean <= (Noise + 1) * t + Noise
  <2>1. CASE q = p
    <3>1. results'[q].gain = gain /\ results'[q].mean = m
      BY <1>1, <1>2, <2>1
    <3> QED
      BY <1>1, <1>2, <1>3, <3>1
  <2>2. CASE q # p
    BY <1>1, <1>2, <1>4, <2>2 DEF CloseInv
  <2> QED
    BY <2>1, <2>2
<1> QED
  BY <1>1, <1>4 DEF CloseInv, Close

LEMMA CloseStep ==
  ASSUME Inv, CloseInv, [Next]_vars
  PROVE  CloseInv'
<1>1. CASE SkipInvalid \/ RejectRow
  BY <1>1 DEF SkipInvalid, RejectRow, NextPlan, bestVars, CloseInv, Close
<1>2. CASE PlayVpa \/ BeginRows
  <2>1. /\ saved' = 0 /\ total' = 0 /\ gain' = 0 /\ UNCHANGED bestVars
        /\ pc' \in {"rows", "savings"}
    BY <1>2 DEF PlayVpa, BeginRows, ResetSavings
  <2>2. Close(total, gain, saved)'
    BY <2>1, CloseNothing DEF Close
  <2> QED
    BY <2>1, <2>2 DEF CloseInv, bestVars, Close
<1>3. CASE PlayRow
  <2>1. UNCHANGED <<savingVars, bestVars>> /\ pc' \in {"rows", "savings"}
    BY <1>3 DEF PlayRow
  <2>2. Close(total, gain, saved)
    BY <1>3, CloseNothing DEF PlayRow, Inv, RowsInv, CloseInv
  <2> QED
    BY <2>1, <2>2 DEF CloseInv, savingVars, bestVars, Close
<1>4. CASE SaveRow
  BY <1>4, CloseSaveRow
<1>5. CASE Compare
  BY <1>5, CloseCompare
<1>6. CASE UNCHANGED vars
  BY <1>6 DEF vars, savingVars, bestVars, CloseInv, Close
<1> QED
  BY <1>1, <1>2, <1>3, <1>4, <1>5, <1>6 DEF Next, Finished

\* The recommended plan is the first of the plans with the highest average saving as
\* the code rounds it, so no plan really saves more than it by 0.011 CPUs a row: for
\* any plans, prices and series.
THEOREM BestIsClose == Spec => []BestUpToRounding
<1>1. Init => CloseInv
  BY DEF Init, CloseInv
<1>2. ASSUME Inv, ResultInv, CloseInv PROVE BestUpToRounding
  <2> SUFFICES ASSUME NEW q \in 1..Len(Plans), results[q] # None
               PROVE  /\ best # None /\ results[best] # None
                      /\ results[q].gain
                           <= results[best].gain + NRows * (11 * (Milli * MemPerCpu))
                      /\ results[best].column = results[q].column => best <= q
    BY DEF BestUpToRounding
  <2>1. /\ best # None /\ results[best] # None /\ best \in 1..Len(Plans)
        /\ results[q].mean <= results[best].mean
        /\ results[q].mean = results[best].mean => best <= q
    BY <1>2 DEF ResultInv, BestInv, Inv, TypeOK
  <2>2. results[best].column = results[q].column => best <= q
    BY <1>2, <2>1 DEF ResultInv, BestInv
  <2>3. \A r \in {q, best} : results[r].gain \in Int /\ results[r].mean \in Int
    <3>1. results[q] \in ResultType /\ results[best] \in ResultType
      BY <1>2, <2>1 DEF Inv, TypeOK
    <3> QED
      BY <3>1 DEF ResultType
  <2>4. PICK t \in Int : /\ Close(t, results[q].gain, NRows)
                         /\ (Noise + 1) * t <= results[q].mean
    BY <1>2 DEF CloseInv
  <2>5. PICK u \in Int : /\ Close(u, results[best].gain, NRows)
                         /\ results[best].mean <= (Noise + 1) * u + Noise
    BY <1>2, <2>1 DEF CloseInv
  <2>6. Noise \in Nat /\ NRows \in Nat
    BY HpaAssumption
  <2>7. t <= u
    <3> SUFFICES ASSUME u + 1 <= t PROVE FALSE
      BY <2>4, <2>5
    <3> DEFINE k == Noise + 1
               a == results[q].mean
               b == results[best].mean
    <3>1. k \in Nat /\ a \in Int /\ b \in Int /\ Noise \in Nat /\ Noise < k
      BY <2>3, <2>6
    <3>2. k * t <= a /\ a <= b /\ b <= k * u + Noise
      BY <2>1, <2>4, <2>5
    <3> HIDE DEF k, a, b
    <3>3. k * (u + 1) <= k * t /\ k * (u + 1) = k * u + k /\ k * u \in Int /\ k * t \in Int
      BY <2>4, <2>5, <3>1
    <3> QED
      BY <3>1, <3>2, <3>3
  <2> QED
    BY <2>1, <2>2, <2>3, <2>4, <2>5, <2>6, <2>7, CloseCompares
<1> QED
  BY InitInv, StepInv, InitResult, ResultStep, CloseStep, <1>1, <1>2, PTL DEF Spec

\* With a valid VPA plan among the plans, wherever it stands, the loop over the
\* results ends with a recommendation.
THEOREM RecommendationExists == Spec => []AlwaysRecommends
<1>1. ASSUME Inv, ResultInv PROVE AlwaysRecommends
  <2>1. pc = "done" => \A q \in 1..Len(Plans) : q < p
    BY <1>1, HpaAssumption DEF ResultInv
  <2> QED
    BY <1>1, <2>1 DEF ResultInv, AlwaysRecommends, GoodVpa
<1> QED
  BY InitInv, StepInv, InitResult, ResultStep, <1>1, PTL DEF Spec

-----------------------------------------------------------------------------
(* The recommended plan covers the usage.                                   *)

\* The rows played so far that are short of CPU.
Short == {i \in Played : CpuShort(i, forecast[i])}

\* The clashes counted are the rows that are short of CPU, and all rows have been
\* played before plans are compared.
CoverInv ==
  /\ (pc \in {"rows", "savings", "compare"} /\ ~plan.vpa) =>
       /\ IsFiniteSet(Short)
       /\ clashes = Cardinality(Short)
       /\ clashes <= Threshold
       /\ \A i \in Played : ~MemShort(i, forecast[i])
  /\ (pc \in {"savings", "compare"} /\ ~plan.vpa) => row = NRows
  /\ BestCovers

LEMMA CoverPlayRow ==
  ASSUME Inv, CoverInv, PlayRow
  PROVE  CoverInv'
<1>1. /\ pc = "rows" /\ pc' \in {"rows", "savings"} /\ plan' = plan /\ ~plan.vpa
      /\ row \in Rows /\ forecast' = [forecast EXCEPT ![row] = Running(row)]
      /\ row' = row + 1
  BY PlayRowIs
<1>2. /\ NRows \in Nat /\ forecast \in [Rows -> Nat] /\ row \in Nat /\ clashes \in Nat
      /\ Threshold \in Nat
  <2>1. NRows \in Nat /\ forecast \in [Rows -> Nat] /\ clashes \in Nat
    BY <1>1, RowsTyped
  <2>2. row \in Nat
    BY <1>1, <2>1 DEF Rows
  <2>3. Threshold \in Nat
    BY HpaAssumption
  <2> QED
    BY <2>1, <2>2, <2>3
<1>3. cpu' = cpu /\ mem' = mem /\ UNCHANGED bestVars
  BY DEF PlayRow, usageVars
<1>4. Played' = 0..row /\ Played = 0..(row - 1)
  <2>1. Played = 0..(row - 1) /\ row' - 1 = row
    BY <1>1, <1>2 DEF Played
  <2> QED
    BY <1>1, <2>1 DEF Played
<1> DEFINE n == Running(row)
           short == CpuShort(row, n)
<1>5. \A i \in 0..row : i # row => i \in Played /\ forecast'[i] = forecast[i]
  BY <1>1, <1>2, <1>4 DEF Rows
<1>6. forecast'[row] = n
  BY <1>1, <1>2
<1>7. \A i, m : /\ CpuShort(i, m)' <=> CpuShort(i, m')
                /\ MemShort(i, m)' <=> MemShort(i, m')
  BY <1>1, <1>3 DEF CpuShort, MemShort
<1>8. Short' = IF short THEN Short \union {row} ELSE Short
  BY <1>1, <1>2, <1>3, <1>4, <1>5, <1>6 DEF Short, CpuShort
<1>9. row \notin Short /\ IsFiniteSet(Short) /\ clashes = Cardinality(Short)
  BY <1>1, <1>2, <1>4 DEF Short, CoverInv
<1>10. /\ clashes' = IF short THEN clashes + 1 ELSE clashes
       /\ short => clashes + 1 <= Threshold
       /\ ~MemShort(row, n)
  BY <1>2 DEF PlayRow, TooMany
<1> HIDE DEF n, short
<1>11. IsFiniteSet(Short') /\ clashes' = Cardinality(Short')
  BY <1>8, <1>9, <1>10, FS_AddElement
<1>12. clashes' <= Threshold
  BY <1>1, <1>2, <1>10 DEF CoverInv
<1>13. \A i \in Played' : ~MemShort(i, forecast[i])'
  BY <1>1, <1>3, <1>4, <1>5, <1>6, <1>10 DEF MemShort, CoverInv
<1>14. pc' \in {"savings", "compare"} => row' = NRows
  BY <1>1, <1>2 DEF PlayRow, Rows
<1>15. BestCovers'
  BY <1>3 DEF CoverInv, BestCovers, ShortRows, bestVars
<1> QED
  BY <1>11, <1>12, <1>13, <1>14, <1>15 DEF CoverInv

LEMMA CoverCompare ==
  ASSUME Inv, CoverInv, Compare
  PROVE  CoverInv'
<1>1. pc = "compare" /\ pc' \in {"plan", "done"} /\ cpu' = cpu /\ mem' = mem
  BY DEF Compare, NextPlan, usageVars
<1>2. CASE best' = best /\ bestRun' = bestRun
  BY <1>1, <1>2 DEF CoverInv, BestCovers, ShortRows
<1>3. CASE best' = p /\ plan.vpa
  BY <1>1, <1>3 DEF CoverInv, BestCovers, plan
<1>4. CASE best' = p /\ bestRun' = forecast /\ ~plan.vpa
  <2>1. best' = p /\ bestRun' = forecast
    BY <1>4
  <2>2. Played = Rows
    BY <1>1, <1>4, HpaAssumption DEF Played, Rows, CoverInv
  <2>3. ShortRows(best, bestRun)' = Short
    BY <1>1, <2>1, <2>2 DEF ShortRows, Short, CpuShort, plan
  <2>4. /\ \A i \in Rows : ~(forecast[i] * plan.mem < mem[i])
        /\ Cardinality(Short) <= Threshold
    BY <1>1, <1>4, <2>2 DEF CoverInv, MemShort
  <2>5. \A i \in Rows : bestRun'[i] * Plans[best'].mem >= mem'[i]
    <3> SUFFICES ASSUME NEW i \in Rows PROVE forecast[i] * plan.mem >= mem[i]
      BY <1>1, <2>1 DEF plan
    <3>1. p \in 1..Len(Plans) /\ forecast[i] \in Nat /\ mem[i] \in Nat
      BY <1>1, HpaAssumption DEF Inv, TypeOK
    <3>2. plan.mem \in Nat
      BY <3>1, PlanTyped DEF PlanType
    <3>3. forecast[i] * plan.mem \in Nat
      BY <3>1, <3>2
    <3> QED
      BY <2>4, <3>1, <3>3
  <2>6. BestCovers'
    BY <2>3, <2>4, <2>5 DEF BestCovers
  <2> QED
    BY <1>1, <2>6 DEF CoverInv
<1> QED
  BY <1>2, <1>3, <1>4, CompareIs

LEMMA CoverStep ==
  ASSUME Inv, CoverInv, [Next]_vars
  PROVE  CoverInv'
<1>1. CASE SkipInvalid \/ RejectRow
  BY <1>1 DEF SkipInvalid, RejectRow, NextPlan, CoverInv, BestCovers, ShortRows,
              bestVars, usageVars
<1>2. CASE PlayVpa
  BY <1>2 DEF PlayVpa, plan, CoverInv, BestCovers, ShortRows, bestVars, usageVars
<1>3. CASE BeginRows
  <2>1. /\ pc' = "rows" /\ clashes' = 0 /\ UNCHANGED <<usageVars, bestVars>>
        /\ Played' = {}
    BY <1>3 DEF BeginRows, Played
  <2>2. Short' = {}
    BY <2>1 DEF Short
  <2>3. BestCovers'
    BY <2>1 DEF CoverInv, BestCovers, ShortRows, bestVars, usageVars
  <2> QED
    BY <2>1, <2>2, <2>3, FS_EmptySet, HpaAssumption DEF CoverInv
<1>4. CASE PlayRow
  BY <1>4, CoverPlayRow
<1>5. CASE Compare
  BY <1>5, CoverCompare
<1>6. CASE SaveRow
  <2>1. /\ plan' = plan /\ Played' = Played /\ pc = "savings"
        /\ UNCHANGED <<usageVars, playVars, bestVars>>
    BY <1>6, SaveRowIs
  <2> QED
    BY <2>1 DEF usageVars, playVars, bestVars, CoverInv, BestCovers, ShortRows, Short,
                CpuShort, MemShort
<1>7. CASE UNCHANGED vars
  BY <1>7 DEF vars, usageVars, playVars, bestVars, CoverInv, BestCovers, ShortRows,
              Short, Played, CpuShort, MemShort, plan
<1> QED
  BY <1>1, <1>2, <1>3, <1>4, <1>5, <1>6, <1>7 DEF Next, Finished

\* The recommended plan, unless it is the VPA plan, is short of CPU in at most
\* Threshold rows of the series and of memory in none: the counter and its early
\* return miss no row.
THEOREM RecommendationCovers == Spec => []BestCovers
<1>1. Init => CoverInv
  BY DEF Init, CoverInv, BestCovers
<1>2. CoverInv => BestCovers
  BY DEF CoverInv
<1> QED
  BY InitInv, StepInv, CoverStep, <1>1, <1>2, PTL DEF Spec

-----------------------------------------------------------------------------
(* The headroom.                                                            *)

\* What a row desires covers its usage at the target, up to the rounding of the
\* metric, which is half a hundredth of the replicas' CPU.
LEMMA DesiredCovers ==
  ASSUME plan \in PlanType, plan.min <= plan.max, cpu \in [Rows -> Nat],
         NEW i \in Rows, i >= Latency,
         NEW n \in plan.min..plan.max, NEW d \in Desired(i, n)
  PROVE  \/ d = plan.max
         \/ 200 * cpu[i] <= 2 * (d * (plan.target * plan.req)) + n * plan.req
<1> DEFINE r == plan.req
           t == plan.target
           u == cpu[i]
           capacity == n * r
<1>1. /\ plan.min \in Nat \ {0} /\ plan.max \in Nat /\ r \in Nat \ {0}
      /\ t \in Nat \ {0} /\ n \in Nat \ {0} /\ u \in Nat
      /\ i \in Nat /\ Latency \in Nat
  <2>1. /\ plan.min \in Nat \ {0} /\ plan.max \in Nat /\ r \in Nat \ {0}
        /\ t \in Nat \ {0}
    BY DEF PlanType
  <2>2. i \in Nat /\ Latency \in Nat
    BY HpaAssumption DEF Rows
  <2> HIDE DEF r, t
  <2> QED
    BY <2>1, <2>2
<1>2. capacity \in Nat \ {0}
  BY <1>1
<1>3. PICK c \in UNION {Scaled(n, m) : m \in Metrics(u, capacity)} :
        d = Larger(plan.min, Smaller(plan.max, c))
  BY <1>1 DEF Desired
<1>4. PICK m \in Metrics(u, capacity) : c \in Scaled(n, m)
  BY <1>3
<1>5. /\ m = (100 * u) \div capacity \/ m = (100 * u) \div capacity + 1
      /\ 2 * (100 * u - m * capacity) <= capacity
  BY <1>4 DEF Metrics, Nearest
<1>6. c = CeilDiv(n * m, t) \/ c = CeilDiv(n * m, t) + 1
  BY <1>4 DEF Scaled
<1> HIDE DEF r, t, u, capacity
<1>7. m \in Nat
  <2> DEFINE used == 100 * u
             q == used \div capacity
  <2>1. used \in Nat
    BY <1>1
  <2>2. m = q \/ m = q + 1
    BY <1>5
  <2> HIDE DEF used
  <2>3. q \in Nat
    <3>1. q \in Int /\ used = capacity * q + (used % capacity)
          /\ used % capacity \in 0..(capacity - 1)
      BY <1>2, <2>1
    <3>2. q >= 0
      <4> SUFFICES ASSUME q <= -1 PROVE FALSE
        BY <3>1
      <4> HIDE DEF q
      <4>1. capacity * q <= -capacity
        BY <1>2, <3>1
      <4> QED
        BY <1>2, <2>1, <3>1, <4>1
    <3> QED
      BY <3>1, <3>2
  <2> HIDE DEF q
  <2> QED
    BY <2>2, <2>3
<1>8. n * m \in Nat
  BY <1>1, <1>7
<1>9. c \in Nat /\ n * m <= t * c
  <2> DEFINE e == CeilDiv(n * m, t)
  <2>1. e \in Nat /\ n * m <= t * e
    BY <1>1, <1>8, CeilDivIs
  <2>2. c = e \/ c = e + 1
    BY <1>6
  <2> HIDE DEF e
  <2>3. c \in Nat /\ e <= c
    BY <2>1, <2>2
  <2>4. e * t <= c * t /\ e * t \in Nat /\ c * t \in Nat
    BY <1>1, <2>1, <2>3, TimesLeq
  <2>5. t * e = e * t /\ t * c = c * t
    BY <1>1, <2>1, <2>3
  <2> QED
    BY <1>8, <2>1, <2>3, <2>4, <2>5
<1>10. d \in Nat /\ (d = plan.max \/ c <= d)
  BY <1>1, <1>3, <1>9 DEF Larger, Smaller
<1>11. ASSUME c <= d PROVE 200 * u <= 2 * (d * (t * r)) + capacity
  <2>1. c * t <= d * t /\ c * t \in Nat /\ d * t \in Nat
    BY <1>1, <1>9, <1>10, <1>11, TimesLeq
  <2>2. t * c = c * t
    BY <1>1, <1>9
  <2>3. n * m <= d * t
    BY <1>8, <1>9, <2>1, <2>2
  <2>4. (n * m) * r <= (d * t) * r /\ (n * m) * r \in Nat /\ (d * t) * r \in Nat
    BY <1>1, <1>8, <2>1, <2>3, TimesLeq
  <2>5. m * capacity = (n * m) * r
    BY <1>1, <1>7 DEF capacity
  <2>6. d * (t * r) = (d * t) * r
    BY <1>1, <1>10
  <2> HIDE DEF capacity
  <2> QED
    BY <1>1, <1>2, <1>5, <2>4, <2>5, <2>6
<1> QED
  BY <1>10, <1>11 DEF r, t, u, capacity

\* Every row past the start follows what was desired Latency rows before, and what
\* it desires covers its own usage.
HeadInv ==
  (pc \in {"rows", "savings", "compare"} /\ ~plan.vpa) =>
    /\ plan.min <= plan.max
    /\ \A i \in Played :
         i >= Latency =>
           /\ forecast[i] >= desired[i - Latency]
           /\ \/ desired[i] = plan.max
              \/ 200 * cpu[i] <= 2 * (desired[i] * (plan.target * plan.req))
                                   + forecast[i] * plan.req

LEMMA HeadStep ==
  ASSUME Inv, HeadInv, [Next]_vars
  PROVE  HeadInv'
<1>1. CASE SkipInvalid \/ RejectRow \/ Compare
  BY <1>1 DEF SkipInvalid, RejectRow, Compare, NextPlan, HeadInv
<1>2. CASE PlayVpa
  BY <1>2 DEF PlayVpa, HeadInv, plan
<1>3. CASE BeginRows
  <2>1. plan' = plan /\ Played' = {} /\ IsPlanValid
    BY <1>3 DEF BeginRows, plan, Played
  <2> QED
    BY <2>1 DEF HeadInv, IsPlanValid
<1>4. CASE PlayRow
  <2>1. /\ pc = "rows" /\ pc' \in {"rows", "savings"} /\ plan' = plan /\ ~plan.vpa
        /\ plan \in PlanType /\ plan.min <= plan.max
        /\ row \in Rows /\ forecast' = [forecast EXCEPT ![row] = Running(row)]
    BY <1>4, PlayRowIs
  <2>2. /\ NRows \in Nat /\ forecast \in [Rows -> Nat] /\ desired \in [Rows -> Nat]
        /\ cpu \in [Rows -> Nat]
    BY <2>1, RowsTyped
  <2>3. cpu' = cpu
    BY <1>4 DEF PlayRow, usageVars
  <2>4. row \in Nat /\ Latency \in Nat \ {0}
    BY <2>1, <2>2, HpaAssumption DEF Rows
  <2>5. Played' = 0..row /\ Played = 0..(row - 1)
    <3>1. Played = 0..(row - 1) /\ row' - 1 = row
      BY <1>4, <2>1, <2>4, PlayRowIs DEF Played
    <3> QED
      BY <2>1, <3>1 DEF Played
  <2>6. PICK d \in Desired(row, Running(row)) : desired' = [desired EXCEPT ![row] = d]
    BY <1>4 DEF PlayRow
  <2> SUFFICES ASSUME NEW i \in 0..row, i >= Latency
               PROVE  /\ forecast'[i] >= desired'[i - Latency]
                      /\ \/ desired'[i] = plan.max
                         \/ 200 * cpu[i] <= 2 * (desired'[i] * (plan.target * plan.req))
                                              + forecast'[i] * plan.req
    BY <2>1, <2>3, <2>5 DEF HeadInv
  <2>7. i \in Rows /\ i - Latency \in Rows /\ i - Latency # row
    BY <2>2, <2>4, <2>1 DEF Rows
  <2>8. desired'[i - Latency] = desired[i - Latency]
    BY <2>2, <2>6, <2>7
  <2>9. CASE i # row
    <3>1. i \in Played /\ forecast'[i] = forecast[i] /\ desired'[i] = desired[i]
      BY <2>1, <2>2, <2>4, <2>5, <2>6, <2>7, <2>9
    <3> QED
      BY <2>1, <2>8, <3>1 DEF HeadInv
  <2>10. CASE i = row
    <3>1. forecast'[i] = Running(row) /\ desired'[i] = d
      BY <2>1, <2>2, <2>6, <2>10
    <3>2. Running(row) \in plan.min..plan.max /\ Running(row) >= desired[row - Latency]
      BY <2>1, <2>10, RunningIs
    <3>3. \/ d = plan.max
          \/ 200 * cpu[row] <= 2 * (d * (plan.target * plan.req)) + Running(row) * plan.req
      BY <2>1, <2>2, <2>10, <3>2, DesiredCovers
    <3> QED
      BY <2>8, <2>10, <3>1, <3>2, <3>3
  <2> QED
    BY <2>9, <2>10
<1>5. CASE SaveRow
  <2>1. plan' = plan /\ Played' = Played /\ pc = "savings" /\ UNCHANGED <<usageVars, playVars>>
    BY <1>5, SaveRowIs
  <2> QED
    BY <2>1 DEF HeadInv, usageVars, playVars
<1>6. CASE UNCHANGED vars
  BY <1>6 DEF vars, usageVars, playVars, bestVars, HeadInv, Played, plan
<1> QED
  BY <1>1, <1>2, <1>3, <1>4, <1>5, <1>6 DEF Next, Finished

\* The arithmetic of the headroom: f replicas, no fewer than the d that were desired
\* when the usage was v and n were running, are enough for the usage u.
LEMMA HeadroomArithmetic ==
  ASSUME NEW f \in Nat, NEW d \in Nat, NEW n \in Nat, NEW r \in Nat,
         NEW t \in Nat \ {0}, NEW u \in Nat, NEW v \in Nat, NEW b \in Nat, b <= 100,
         d <= f,
         200 * v <= 2 * (d * (t * r)) + n * r,
         t * u <= (100 - b) * v,
         b * v * 2 >= r * n
  PROVE  u <= f * r
<1>1. d * (t * r) <= f * (t * r) /\ d * (t * r) \in Nat /\ f * (t * r) \in Nat
  BY TimesLeq
<1>2. (100 - b) * v = 100 * v - b * v /\ b * v \in Nat /\ n * r = r * n /\ r * n \in Nat
  OBVIOUS
<1>3. t * u <= f * (t * r)
  BY <1>1, <1>2
<1>4. f * (t * r) = (f * r) * t /\ t * u = u * t /\ f * r \in Nat
  OBVIOUS
<1> DEFINE g == f * r
<1> HIDE DEF g
<1>5. u * t <= g * t /\ g \in Nat
  BY <1>3, <1>4 DEF g
<1>6. u <= g
  <2> SUFFICES ASSUME g + 1 <= u PROVE FALSE
    BY <1>5
  <2>1. (g + 1) * t <= u * t
    BY <1>5, TimesLeq
  <2>2. (g + 1) * t = g * t + t /\ g * t \in Nat /\ u * t \in Nat
    BY <1>5
  <2> QED
    BY <1>5, <2>1, <2>2
<1> QED
  BY <1>6 DEF g

\* The target's headroom is enough for any rise within the start-up latency that it
\* was made for, unless the plan is at its maximum: for every request, target,
\* latency and series.
THEOREM HeadroomIsEnough == Spec => []HeadroomSuffices
<1>1. Init => HeadInv
  BY DEF Init, HeadInv
<1>2. ASSUME Inv, HeadInv PROVE HeadroomSuffices
  <2> SUFFICES ASSUME NEW i \in Played, i >= 2 * Latency,
                      plan.target * cpu[i] <= (100 - Buffer) * cpu[i - Latency],
                      Buffer * cpu[i - Latency] * 2 >= plan.req * forecast[i - Latency],
                      forecast[i] # plan.max
               PROVE  ~CpuShort(i, forecast[i])
    BY DEF HeadroomSuffices
  <2> DEFINE k == i - Latency
  <2>1. pc \in {"rows", "savings", "compare"} /\ ~plan.vpa /\ i \in 0..(row - 1)
    BY DEF Played
  <2>2. /\ row \in 0..NRows /\ NRows \in Nat /\ Latency \in Nat \ {0}
        /\ Buffer \in Nat /\ Buffer <= 100
        /\ p \in 1..Len(Plans) /\ cpu \in [Rows -> Nat]
        /\ forecast \in [Rows -> Nat] /\ desired \in [Rows -> Nat]
        /\ forecast[i] \in plan.min..plan.max
    <3>1. NRows \in Nat /\ Latency \in Nat \ {0} /\ Buffer \in Nat /\ Buffer <= 100
      BY HpaAssumption
    <3>2. row \in 0..NRows
      BY <1>2 DEF Inv, TypeOK
    <3>3. i \in Rows
      BY <2>1, <3>1, <3>2 DEF Rows
    <3>4. Replicas = plan.min..plan.max
      BY <2>1 DEF Replicas
    <3>5. /\ cpu \in [Rows -> Nat] /\ forecast \in [Rows -> Nat] /\ desired \in [Rows -> Nat]
          /\ forecast[i] \in plan.min..plan.max
      BY <1>2, <2>1, <3>3, <3>4 DEF Inv, TypeOK
    <3>6. p \in 1..Len(Plans)
      BY <1>2, <2>1, HpaAssumption DEF Inv, TypeOK
    <3> QED
      BY <3>1, <3>2, <3>5, <3>6
  <2>3. k \in Played /\ k >= Latency /\ i >= Latency /\ k \in Rows /\ i \in Rows
    <3>1. k \in 0..(row - 1) /\ k >= Latency /\ i >= Latency
      BY <2>1, <2>2
    <3> QED
      BY <2>1, <2>2, <3>1 DEF Played, Rows
  <2>4. /\ forecast[i] \in Nat /\ desired[k] \in Nat /\ forecast[k] \in Nat
        /\ cpu[i] \in Nat /\ cpu[k] \in Nat
    BY <2>2, <2>3
  <2>5. plan.min \in Nat /\ plan.max \in Nat /\ plan.req \in Nat /\ plan.target \in Nat \ {0}
    BY <2>2, PlanTyped DEF PlanType
  <2>6. forecast[i] >= desired[k]
    BY <1>2, <2>1, <2>3 DEF HeadInv
  <2>7. desired[k] # plan.max
    <3>1. forecast[i] <= plan.max
      BY <2>2, <2>5
    <3> HIDE DEF k
    <3> QED
      BY <2>4, <2>5, <2>6, <3>1
  <2>8. 200 * cpu[k] <= 2 * (desired[k] * (plan.target * plan.req)) + forecast[k] * plan.req
    BY <1>2, <2>1, <2>3, <2>7 DEF HeadInv
  <2>9. cpu[i] <= forecast[i] * plan.req
    <3> HIDE DEF k
    <3>1. /\ plan.target * cpu[i] <= (100 - Buffer) * cpu[k]
          /\ Buffer * cpu[k] * 2 >= plan.req * forecast[k]
      BY DEF k
    <3> QED
      BY <2>2, <2>4, <2>5, <2>6, <2>8, <3>1, HeadroomArithmetic
  <2>10. forecast[i] * plan.req \in Nat
    BY <2>4, <2>5
  <2> QED
    BY <2>4, <2>9, <2>10 DEF CpuShort
<1> QED
  BY InitInv, StepInv, HeadStep, <1>1, <1>2, PTL DEF Spec

=============================================================================
