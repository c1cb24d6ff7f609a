----------------------------- MODULE MCFlywheel ------------------------------
(* Two workers and two rewards; a volume that is new, and one that has seen both jobs. *)
EXTENDS Flywheel

MCRounds == {"round1", "round2"}
MCScripts == {"02", "03"}
MCMaxFailures == [s \in MCScripts |-> IF s = "02" THEN 1 ELSE 0]
MCRewards == {-8, 4}

Old == [job |-> 0, data |-> {}]

Scenario(jobs, files, runs, states) == [schedule |-> jobs, traj |-> files, run |-> runs, ckpt |-> states]

\* Both jobs in order on a new volume; one job on a volume with the checkpoint and the run
\* directory of each round, a trajectory, and another that was being written when its job
\* was lost.
MCScenarios ==
  {Scenario(<<"02", "03">>, {}, [r \in MCRounds |-> {}], [r \in MCRounds |-> {}])} \cup
  {Scenario(<<s>>,
            {[job |-> 0, round |-> "round1", worker |-> w, ep |-> 1, name |-> 0,
              reward |-> 2, whole |-> (w = "w1")] : w \in Workers},
            [r \in MCRounds |-> {Old}],
            [r \in MCRounds |-> {[of |-> Old, whole |-> TRUE]}]) : s \in MCScripts}
=============================================================================
