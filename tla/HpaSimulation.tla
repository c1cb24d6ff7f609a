---------------------------- MODULE HpaSimulation ----------------------------
(***************************************************************************)
(* The simulation behind the HPA recommender (cost-optimization/           *)
(* hpa-config-recommender, run_workload_simulation.py): each plan is       *)
(* played against the measured usage of a workload, row by row, with the   *)
(* replicas an HPA would have had, and of the plans that never run short   *)
(* the one with the highest average saving is recommended.                 *)
(*                                                                         *)
(* The pool of processes evaluates the plans on copies of the data and     *)
(* its results are consumed in the order of the plans, so they are played  *)
(* one after the other.  CPU is counted in a whole unit, ratios in         *)
(* hundredths, which is what round(_, 2) leaves; where float noise can     *)
(* decide a ceiling, a rounding that is a tie, or the order of two equal   *)
(* averages, each outcome is possible.  Logging, NaN and plans with a      *)
(* request of 0 are left out.                                              *)
(***************************************************************************)
EXTENDS Integers, Sequences, FiniteSets

CONSTANTS Plans,       \* the plans of get_simulation_plans, in its order
          NRows,       \* rows of the time series
          CpuSeries,   \* possible sum_containers_cpu_usage columns
          MemSeries,   \* possible sum_containers_mem_usage_mi columns
          Latency,     \* workload_e2e_startup_latency_rows
          Steps,       \* HPA_SCALE_DOWN_DEFAULT_BEHAVIOUR_STEPS
          Threshold,   \* CPU_CLASH_COUNT_THRESHOLD
          Buffer,      \* HPA_TARGET_BUFFER, in hundredths
          MinTarget,   \* MIN_HPA_TARGET_CPU, in hundredths
          ScaleLimit,  \* HPA_SCALE_LIMIT, in hundredths
          Milli,       \* units of CPU in a thousandth of a CPU
          MemPerCpu,   \* memory that costs as much as one CPU: 1024 * COST_OF_GB_IN_CPUS
          CpuRequest,  \* sum_containers_cpu_request
          MemRequest,  \* sum_containers_mem_request_mi, rounded up
          Noise,       \* how far float noise can move the mean of a column
          None         \* no result yet, or none at all

Rows == 0..(NRows - 1)

\* The fields of WorkloadPlan that the simulation reads; vpa for method "VPA", half if
\* the CPU request is a float16, as the mean that a DMR plan has for its request.
PlanType == [vpa : BOOLEAN, half : BOOLEAN, min : Nat \ {0}, max : Nat \ {0}, req : Nat \ {0},
             mem : Nat, target : Nat \ {0}, slope : Nat]

\* What is kept of the analysis of a plan: the column avg_saving_in_cpus in hundredths,
\* its mean, and what the replicas really save over all rows.
ResultType == [column : [Rows -> Int], mean : Int, gain : Int]

ASSUME HpaAssumption ==
  /\ Plans \in Seq(PlanType)
  /\ NRows \in Nat \ {0}
  /\ CpuSeries \subseteq [Rows -> Nat]
  /\ MemSeries \subseteq [Rows -> Nat]
  /\ Latency \in Nat \ {0}
  /\ Steps \in Nat \ {0}
  /\ {Threshold, Buffer, MinTarget, ScaleLimit, Noise} \subseteq Nat
  /\ {Milli, MemPerCpu} \subseteq Nat \ {0}
  /\ CpuRequest \in [Rows -> Nat]
  /\ MemRequest \in [Rows -> Nat]
  /\ Buffer <= 100
  /\ None \notin Nat
  /\ None \notin [Rows -> Nat]
  /\ None \notin ResultType

VARIABLES
  cpu, mem,    \* the usage columns
  p,           \* the plan being played
  pc,          \* "plan", "rows", "savings", "compare" or "done"
  starting,    \* starting_replica
  row,         \* i
  forecast,    \* forecast_replicas
  desired,     \* forecast_replicas_desired
  clashes,     \* cpu_clash_counter
  saved,       \* rows whose savings are calculated
  column,      \* avg_saving_in_cpus, in hundredths
  total,       \* the sum of the column so far
  gain,        \* what the replicas of those rows save, not rounded (history)
  results,     \* the result of each simulated plan, None for a rejected one
  best,        \* best_rec: the plan recommended so far
  bestRun      \* best_analysis_df: its forecast_replicas

usageVars == <<cpu, mem>>
playVars  == <<starting, row, forecast, desired, clashes>>
savingVars == <<saved, column, total, gain>>
bestVars  == <<results, best, bestRun>>
vars == <<usageVars, p, pc, playVars, savingVars, bestVars>>

plan == Plans[p]

Larger(m, n) == IF m >= n THEN m ELSE n
Smaller(m, n) == IF m <= n THEN m ELSE n
Largest(S) == CHOOSE x \in S : \A y \in S : y <= x
CeilDiv(m, n) == (m + n - 1) \div n

\* round(x / w): the nearest whole number, or either of two.
Nearest(x, w) ==
  {k \in {x \div w, (x \div w) + 1} : 2 * (x - k * w) <= w /\ 2 * (k * w - x) <= w}

\* np.clip(n, recommended_min_replicas, recommended_max_replicas).
Clip(n) == Smaller(Larger(n, plan.min), plan.max)

\* As if a plan of one fixed size were invalid, or the sizes were not compared.
IsPlanValidStrict ==
  plan.slope <= ScaleLimit /\ plan.min < plan.max /\ plan.target >= MinTarget
IsPlanValidUnordered == plan.slope <= ScaleLimit /\ plan.target >= MinTarget

\* _is_plan_valid().
IsPlanValid ==
  /\ plan.slope <= ScaleLimit
  /\ plan.min <= plan.max
  /\ plan.target >= MinTarget

\* What n replicas save in row i, with memory at the price of CPU: exactly (in units of
\* CPU times MemPerCpu), and as forecast_cpu_saving is rounded to a thousandth of a CPU
\* and avg_saving_in_cpus to a hundredth.
Gain(i, n) ==
  (CpuRequest[i] - n * plan.req) * MemPerCpu
    + (MemRequest[i] - n * plan.mem) * (1000 * Milli)
CpuSavings(i, n) == Nearest(CpuRequest[i] - n * plan.req, Milli)
Savings(i, n) ==
  UNION {Nearest(c * MemPerCpu + 1000 * (MemRequest[i] - n * plan.mem), 10 * MemPerCpu) :
           c \in CpuSavings(i, n)}

-----------------------------------------------------------------------------
Init ==
  /\ cpu \in CpuSeries
  /\ mem \in MemSeries
  /\ p = 1
  /\ pc = IF Plans = <<>> THEN "done" ELSE "plan"
  /\ starting = 0
  /\ row = 0
  /\ forecast = [i \in Rows |-> 0]
  /\ desired = [i \in Rows |-> 0]
  /\ clashes = 0
  /\ saved = 0
  /\ column = [i \in Rows |-> 0]
  /\ total = 0
  /\ gain = 0
  /\ results = [q \in 1..Len(Plans) |-> None]
  /\ best = None
  /\ bestRun = None

\* The next plan, or the end of the loop over the results.
NextPlan ==
  /\ p' = p + 1
  /\ pc' = IF p < Len(Plans) THEN "plan" ELSE "done"

\* No row has savings yet.
ResetSavings ==
  /\ saved' = 0
  /\ column' = [i \in Rows |-> 0]
  /\ total' = 0
  /\ gain' = 0

SkipInvalid ==
  /\ pc = "plan"
  /\ ~IsPlanValid
  /\ NextPlan
  /\ UNCHANGED <<usageVars, playVars, savingVars, bestVars>>

\* The VPA branch of _simulate_behaviour: recommended_max_replicas in every row,
\* compared with no usage.
PlayVpa ==
  /\ pc = "plan"
  /\ IsPlanValid
  /\ plan.vpa
  /\ forecast' = [i \in Rows |-> plan.max]
  /\ ResetSavings
  /\ pc' = "savings"
  /\ UNCHANGED <<usageVars, p, starting, row, desired, clashes, bestVars>>

\* The rows whose maximum _calculate_starting_replicas takes: .loc[0:n] has n in it.
\* (The first form would be that of a plain slice.)
FirstRowsOnly == 0..Smaller(Latency - 1, NRows - 1)
StartRows == 0..Smaller(Latency, NRows - 1)

\* n replicas have the CPU that is used, as far as a float16 can tell.
CoveredInHalf(used, n) == 2048 * used <= 2049 * (n * plan.req)

\* What ceil(max_cpu / recommended_cpu_request) may be.  max_cpu is a float16: over
\* another one, a quotient just above a whole number becomes that number; over a
\* float, a whole quotient may come out a little above.
Starts(peak) ==
  LET c == CeilDiv(peak, plan.req) IN
    {n \in {c - 1, c, c + 1} :
       \/ n = c
       \/ n < c /\ plan.half /\ CoveredInHalf(peak, n)
       \/ n > c /\ ~plan.half /\ peak > 0 /\ peak % plan.req = 0}

BeginRows ==
  /\ pc = "plan"
  /\ IsPlanValid
  /\ ~plan.vpa
  /\ \E n \in Starts(Largest({cpu[i] : i \in StartRows})) : starting' = Clip(n)
  /\ row' = 0
  /\ forecast' = [i \in Rows |-> plan.min]
  /\ desired' = [i \in Rows |-> 0]
  /\ clashes' = 0
  /\ ResetSavings
  /\ pc' = "rows"
  /\ UNCHANGED <<usageVars, p, bestVars>>

\* The rows whose desired replicas hold a scale-down back.  (The first form would be
\* a window of Steps - 1 rows.)
ShortWindow(i) == (i - Latency - Steps + 1)..(i - Latency - 1)
Window(i) == (i - Latency - Steps)..(i - Latency - 1)

\* replicas_up and replicas_down: until the window is full it holds nothing back.
\* (The first form would see a metric one row too late.)
ReplicasUpLate(i) == desired[Larger(0, i - Latency - 1)]
ReplicasUp(i) == desired[i - Latency]
ReplicasDown(i) ==
  IF i - Latency - Steps <= 0
  THEN plan.min
  ELSE Larger(Largest({desired[j] : j \in Window(i)}), plan.min)

Running(i) ==
  IF i < Latency THEN starting ELSE Clip(Larger(ReplicasUp(i), ReplicasDown(i)))

\* current_metric_value, in hundredths.
Metrics(used, capacity) == Nearest(100 * used, capacity)

\* The HPA's ceil(replicas * metric / target); a quotient that is whole may come
\* out a little above, unless metric = target.
Scaled(n, m) ==
  LET d == CeilDiv(n * m, plan.target) IN
    IF (n * m) % plan.target = 0 /\ m \notin {0, plan.target} THEN {d, d + 1} ELSE {d}

Desired(i, n) ==
  IF i < Latency
  THEN {starting}
  ELSE {Larger(plan.min, Smaller(plan.max, d)) :
          d \in UNION {Scaled(n, m) : m \in Metrics(cpu[i], n * plan.req)}}

CpuShort(i, n) == n * plan.req < cpu[i]
MemShort(i, n) == n * plan.mem < mem[i]

\* One clash more than CPU_CLASH_COUNT_THRESHOLD rejects the plan.  (The first form
\* would take one more.)
TooManyLate(n) == n > Threshold + 1
TooMany(n) == n > Threshold

\* The row clashes too often or is short of memory: the plan is rejected.
RejectRow ==
  /\ pc = "rows"
  /\ LET n == Running(row) IN
       \/ CpuShort(row, n) /\ TooMany(clashes + 1)
       \/ MemShort(row, n)
  /\ NextPlan
  /\ UNCHANGED <<usageVars, playVars, savingVars, bestVars>>

PlayRow ==
  /\ pc = "rows"
  /\ LET n == Running(row)
         short == CpuShort(row, n)
     IN /\ short => ~TooMany(clashes + 1)
        /\ ~MemShort(row, n)
        /\ forecast' = [forecast EXCEPT ![row] = n]
        /\ clashes' = IF short THEN clashes + 1 ELSE clashes
        /\ \E d \in Desired(row, n) : desired' = [desired EXCEPT ![row] = d]
  /\ row' = row + 1
  /\ pc' = IF row + 1 < NRows THEN "rows" ELSE "savings"
  /\ UNCHANGED <<usageVars, p, starting, savingVars, bestVars>>

\* _calculate_savings, which takes the columns as a whole, here one row after the other.
SaveRow ==
  /\ pc = "savings"
  /\ \E h \in Savings(saved, forecast[saved]) :
       /\ column' = [column EXCEPT ![saved] = h]
       /\ total' = total + h
  /\ gain' = gain + Gain(saved, forecast[saved])
  /\ saved' = saved + 1
  /\ pc' = IF saved + 1 < NRows THEN "savings" ELSE "compare"
  /\ UNCHANGED <<usageVars, p, playVars, bestVars>>

\* What .mean() of the column may be: float noise orders different columns with the same
\* sum either way, and a column that an earlier plan has has that plan's mean.
Means ==
  {m \in ((Noise + 1) * total)..((Noise + 1) * total + Noise) :
     \A q \in 1..Len(Plans) :
       (results[q] # None /\ results[q].column = column) => m = results[q].mean}

\* avg_saving > highest_avg_saving.  (The first form would be >=.)
IsBetterOrEqual(m) == best = None \/ m >= results[best].mean
IsBetter(m) == best = None \/ m > results[best].mean

Compare ==
  /\ pc = "compare"
  /\ \E m \in Means :
       /\ results' = [results EXCEPT ![p] = [column |-> column, mean |-> m, gain |-> gain]]
       /\ best' = IF IsBetter(m) THEN p ELSE best
       /\ bestRun' = IF IsBetter(m) THEN forecast ELSE bestRun
  /\ NextPlan
  /\ UNCHANGED <<usageVars, playVars, savingVars>>

Finished == pc = "done" /\ UNCHANGED vars

Next ==
  \/ SkipInvalid \/ PlayVpa \/ BeginRows \/ RejectRow \/ PlayRow
  \/ SaveRow \/ Compare \/ Finished

Spec == Init /\ [][Next]_vars

-----------------------------------------------------------------------------
(* Properties.                                                              *)

Replicas == IF pc = "done" THEN {} ELSE plan.min..plan.max

TypeOK ==
  /\ cpu \in [Rows -> Nat]
  /\ mem \in [Rows -> Nat]
  /\ p \in 1..(Len(Plans) + 1)
  /\ pc \in {"plan", "rows", "savings", "compare", "done"}
  /\ pc # "done" => p <= Len(Plans)
  /\ starting \in Nat
  /\ row \in 0..NRows
  /\ pc = "rows" => row \in Rows /\ starting \in Replicas
  /\ forecast \in [Rows -> Nat]
  /\ desired \in [Rows -> Nat]
  /\ pc \in {"rows", "savings", "compare"} => \A i \in Rows : forecast[i] \in Replicas
  /\ clashes \in Nat
  /\ saved \in 0..NRows
  /\ pc = "savings" => saved \in Rows
  /\ column \in [Rows -> Int]
  /\ total \in Int
  /\ gain \in Int
  /\ results \in [1..Len(Plans) -> ResultType \union {None}]
  /\ best \in 1..Len(Plans) \union {None}
  /\ bestRun \in [Rows -> Nat] \union {None}

\* Rows of the plan being played, as far as it has been played.
Played == IF pc \in {"rows", "savings", "compare"} /\ ~plan.vpa THEN 0..(row - 1) ELSE {}

\* The replicas the workload starts with last until the first metric can have made
\* new ones: up to row Latency itself no row is short, unless the plan's maximum is;
\* a plan with a float16 request may be short by what that rounds away.
StartCovers ==
  \A i \in Played \intersect 0..Latency :
    CpuShort(i, forecast[i]) =>
      \/ forecast[i] = plan.max
      \/ plan.half /\ CoveredInHalf(cpu[i], forecast[i])

\* The headroom left by the target suffices: if usage rises during the start-up
\* latency by no more than the ratio the target was made for ((1 - Buffer) / ratio),
\* no row is short of CPU, unless the plan is at its maximum.  The buffer covers the
\* rounding of the metric as long as the replicas were used to 50/Buffer per cent.
HeadroomSuffices ==
  \A i \in Played :
    LET k == i - Latency IN
      (/\ i >= 2 * Latency
       /\ plan.target * cpu[i] <= (100 - Buffer) * cpu[k]
       /\ Buffer * cpu[k] * 2 >= plan.req * forecast[k]
       /\ forecast[i] # plan.max)
        => ~CpuShort(i, forecast[i])

\* What one row's metric asks for is running Latency rows later and is not scaled
\* down in the Steps rows after that, once the series is long enough for a window.
PeakHeld ==
  \A k \in Played : \A i \in Played :
    (i \in (k + Latency)..(k + Latency + Steps) /\ i > Latency + Steps)
      => forecast[i] >= desired[k]

\* The rows of a plan with a number of replicas each that are short of CPU.
ShortRows(q, run) == {i \in Rows : run[i] * Plans[q].req < cpu[i]}

\* A recommended HPA plan is short of CPU in at most Threshold rows and of memory
\* in none; a VPA plan is exempt, and competes on savings alone.
BestCovers ==
  (best # None /\ ~Plans[best].vpa) =>
    /\ Cardinality(ShortRows(best, bestRun)) <= Threshold
    /\ \A i \in Rows : bestRun[i] * Plans[best].mem >= mem[i]

\* No plan that was played to its end really saves 0.011 CPUs a row more than the
\* recommended one, which is what the rounding of the savings can hide; and of several
\* plans with the same savings in every row the first is recommended.
BestUpToRounding ==
  \A q \in 1..Len(Plans) :
    results[q] # None =>
      /\ best # None
      /\ results[best] # None
      /\ results[q].gain <= results[best].gain + NRows * (11 * (Milli * MemPerCpu))
      /\ results[best].column = results[q].column => best <= q

\* If one of the plans is a valid VPA plan, as get_simulation_plans sees to, there
\* is a recommendation: run_simulation_plans never takes its early return, whose
\* three values plan_and_run_simulation could not unpack.
AlwaysRecommends ==
  (pc = "done" /\ \E q \in 1..Len(Plans) :
                    /\ Plans[q].vpa /\ Plans[q].min <= Plans[q].max
                    /\ Plans[q].slope <= ScaleLimit /\ Plans[q].target >= MinTarget)
    => best # None
=============================================================================
