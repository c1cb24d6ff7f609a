--------------------------- MODULE MCHpaSimulation ---------------------------
(* Values for TLC: two plans with few large replicas, which often cost the    *)
(* same, one whose minimum exceeds its maximum, one with many small replicas  *)
(* and a float16 request, one whose usage rises too steeply, and the VPA      *)
(* plan, which get_simulation_plans puts last.                                *)
EXTENDS HpaSimulation

CONSTANTS CpuLevels, Surges

Hpa(min, max, req, memory, target, slope) ==
  [vpa |-> FALSE, half |-> FALSE, min |-> min, max |-> max, req |-> req,
   mem |-> memory, target |-> target, slope |-> slope]

MCPlans ==
  << Hpa(1, 4, 2000, 30, 70, 128), Hpa(1, 5, 2000, 29, 70, 128),
     Hpa(5, 4, 2000, 30, 70, 128),
     [Hpa(2, 12, 1000, 15, 45, 200) EXCEPT !.half = TRUE],
     Hpa(1, 9, 1000, 15, 45, 240),
     [Hpa(3, 3, 2500, 40, 100, 0) EXCEPT !.vpa = TRUE] >>

\* The first Latency rows, which only the starting replicas serve, use the same.
MCCpuSeries == {s \in [Rows -> CpuLevels] : \A i \in 1..(Latency - 1) : s[i] = s[0]}

\* The memory in use is small, or large from one row on.
MCMemSeries == {[i \in Rows |-> IF i >= k THEN 40 ELSE 10] : k \in Surges}

\* What the workload requests today; one row's CPU is not a whole thousandth.
MCCpuRequest == [i \in Rows |-> IF i = 3 THEN 8045 ELSE 8002]
MCMemRequest == [i \in Rows |-> 60]
=============================================================================
