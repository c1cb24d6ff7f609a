------------------------------ MODULE Flywheel -------------------------------
(***************************************************************************)
(* The flywheel of physical-ai-on-gke, models/pi05: Ray jobs that run one  *)
(* after the other over one checkpoint volume.  Job 02 fine-tunes the base *)
(* model (round 1); job 03 evaluates that policy in simulation, merges the *)
(* rewarded trajectories into a data set, trains again on it (round 2),    *)
(* and evaluates the new policy.                                           *)
(*                                                                         *)
(* Every job has a Ray cluster of its own, which ends with it: /tmp, the   *)
(* lock and the processes go, the volume stays.  A job may be lost at any  *)
(* moment.  The expert demonstrations, which are always merged, and the    *)
(* fallback to the base data set when there is nothing to merge are not    *)
(* told apart: the data is the set of trajectories merged.                 *)
(***************************************************************************)
EXTENDS SimEval, Finetune

CONSTANT Scenarios   \* what earlier jobs have left on the volume, and the jobs to come

\* What can be in a checkpoint.
Trained == [job : Nat, data : SUBSET Files]

States == SUBSET [of : Trained, whole : BOOLEAN]

ASSUME FlywheelAssumption ==
  /\ Scripts = {"02", "03"}
  /\ MaxFailures \in [Scripts -> Nat]
  /\ {"round1", "round2"} \subseteq Rounds
  /\ \A s \in Scenarios :
       /\ s.schedule \in Seq(Scripts)
       /\ s.traj \subseteq Files
       /\ s.run \in [Rounds -> SUBSET Trained]
       /\ s.ckpt \in [Rounds -> States]
       /\ \A f \in s.traj : f.name = Rounded(f.reward)
       /\ \A r \in Rounds : \A c \in s.run[r] : \A f \in c.data : f.whole /\ f.reward >= -5

VARIABLES
  schedule,   \* the jobs still to be started
  job,        \* the number of the current job
  script,     \* its script
  round,      \* the round it works on
  pc,         \* "idle", "serve", "eval", "merge", "train"
  served,     \* the checkpoint that answers the workers, as a set
  r1,         \* r1_episodes
  data        \* the trajectories that round 2 is trained on

jobVars == <<schedule, job, script, round, pc, served, r1, data>>
vars == <<simVars, fitVars, jobVars>>

FitType ==
  /\ fit \in {"off", "clear", "start", "epoch", "reported", "fitted", "failed", "copying", "copied"}
  /\ run \in [Rounds -> SUBSET Trained]
  /\ ckpt \in [Rounds -> States]
  /\ failures \in Nat
  /\ result \subseteq Trained
  /\ skipped \in BOOLEAN

JobType ==
  /\ schedule \in Seq(Scripts)
  /\ job \in Nat
  /\ script \in Scripts
  /\ round \in {"round1", "round2"}
  /\ pc \in {"idle", "serve", "eval", "merge", "train"}
  /\ served \subseteq Trained
  /\ r1 \subseteq Results
  /\ data \subseteq Files

TypeOK == SimType /\ FitType /\ JobType

Init ==
  /\ SimInit
  /\ FitInit
  /\ \E s \in Scenarios :
       traj = s.traj /\ run = s.run /\ ckpt = s.ckpt /\ schedule = s.schedule
  /\ job = 0
  /\ script = "02"
  /\ round = "round1"
  /\ pc = "idle"
  /\ served = {}
  /\ r1 = {}
  /\ data = {}

\* A RayJob is created, on a cluster of its own.
StartJob ==
  /\ pc = "idle"
  /\ schedule # <<>>
  /\ schedule' = Tail(schedule)
  /\ job' = job + 1
  /\ script' = Head(schedule)
  /\ round' = "round1"
  /\ IF Head(schedule) = "02"
     THEN pc' = "train" /\ BeginFit
     ELSE pc' = "serve" /\ UNCHANGED fitVars
  /\ UNCHANGED <<simVars, served, r1, data>>

\* The script has ended, by itself or by an exception: shutdownAfterJobFinishes.
EndJob ==
  /\ pc' = "idle"
  /\ EndCluster
  /\ NoFit
  /\ served' = {}
  /\ r1' = {}
  /\ data' = {}
  /\ UNCHANGED <<schedule, job, script, round>>

\* serve.run loads the checkpoint: one that is whole is served, and the workers start.
Serve ==
  /\ pc = "serve"
  /\ \E c \in ckpt[round] :
       /\ c.whole
       /\ served' = {c.of}
  /\ pc' = "eval"
  /\ Fresh
  /\ UNCHANGED <<fitVars, schedule, job, script, round, r1, data>>

\* One that is torn, or the safetensors that stand in for a missing one, cannot be loaded.
ServeFails ==
  /\ pc = "serve"
  /\ \A c \in ckpt[round] : ~c.whole
  /\ EndJob

Simulate(w) ==
  /\ pc = "eval"
  /\ WorkerStep(w, job, round)
  /\ UNCHANGED <<fitVars, jobVars>>

\* All tasks have returned.
Evaluated == pc = "eval" /\ \A w \in Workers : proc[w] = "collected"

EndEval ==
  /\ Evaluated
  /\ round = "round1"
  /\ pc' = "merge"
  /\ r1' = collected
  /\ served' = {}
  /\ UNCHANGED <<simVars, fitVars, schedule, job, script, round, data>>

\* The head-to-head comparison ends the script.
Compare ==
  /\ Evaluated
  /\ round = "round2"
  /\ EndJob

\* Mutants: a reward must exceed the threshold; torn files are merged as well.
KeptAbove == {f \in traj : f.round = "round1" /\ f.name > 0 /\ f.whole}

KeptTorn == {f \in traj : f.round = "round1" /\ f.name >= 0}

\* build_mixed_dataset: the trajectories of round 1 whose name shows no negative reward and
\* whose file can be read.
Kept == {f \in traj : f.round = "round1" /\ f.name >= 0 /\ f.whole}

Merge ==
  /\ pc = "merge"
  /\ data' = Kept
  /\ round' = "round2"
  /\ pc' = "train"
  /\ BeginFit
  /\ UNCHANGED <<simVars, schedule, job, script, served, r1>>

Train ==
  /\ pc = "train"
  /\ FitStep(round, script, [job |-> job, data |-> data])
  /\ UNCHANGED <<simVars, jobVars>>

\* The checkpoint is in its place: job 03 goes on to evaluate it.
EndTraining ==
  /\ pc = "train"
  /\ fit = "copied"
  /\ script = "03"
  /\ pc' = "serve"
  /\ UNCHANGED <<simVars, fitVars, schedule, job, script, round, served, r1, data>>

\* Job 02 is done, or the fit has raised.
LeaveTraining ==
  /\ pc = "train"
  /\ fit = "failed" \/ (fit = "copied" /\ script = "02")
  /\ EndJob

\* The driver or its cluster is lost.
LoseJob ==
  /\ pc # "idle"
  /\ EndJob

AllDone == pc = "idle" /\ schedule = <<>> /\ UNCHANGED vars

JobStep ==
  \/ StartJob \/ Serve \/ ServeFails \/ EndEval \/ Compare
  \/ Merge \/ Train \/ EndTraining \/ LeaveTraining

Next == JobStep \/ LoseJob \/ AllDone \/ \E w \in Workers : Simulate(w)

\* The script goes on while it can; a worker task waits for a process that `timeout` ends
\* at the latest, and reads its results.
Fairness ==
  /\ WF_vars(JobStep)
  /\ \A w \in Workers :
       WF_vars(pc = "eval" /\ (Kill(w) \/ Exit(w) \/ Collect(w, round)) /\ UNCHANGED <<fitVars, jobVars>>)

Spec == Init /\ [][Next]_vars /\ Fairness

----------------------------------------------------------------------------

\* Kit starts alone on its node: of two workers that start it at once, one has waited
\* timeout_s and gone on without the lock. And nobody waits for the dead: the lock is held by
\* a worker that is starting Kit, never by one that was killed or has gone on to play.
KitStartsAlone ==
  /\ \A v, w \in Booting : v # w => v \in gaveUp \/ w \in gaveUp
  /\ lock # Nobody => lock \in Booting

\* What the driver collects in a round was played in that very round by that worker of
\* this job, once per episode, and a trajectory it names is whole on the volume: results
\* files of another round or worker, and files half written by a process that was killed,
\* never get into the comparison.
ResultsFresh ==
  \A r \in collected :
    /\ r.job = job
    /\ pc = "eval" => r.round = round
    /\ \A s \in collected : (s.worker = r.worker /\ s.ep = r.ep) => s = r
    /\ r.saved => \E f \in traj :
         /\ Named(f, r.round, r.worker, r.ep, Rounded(r.reward))
         /\ f.job = job /\ f.reward = r.reward /\ f.whole

\* The loop is closed: when round 2 is evaluated, the policy that answers was trained in
\* this job, on all the rewarded episodes that round 1 of this job reported.
FlywheelCloses ==
  (pc = "eval" /\ round = "round2") =>
    \A c \in served :
      /\ c.job = job
      /\ \A r \in r1 : (r.saved /\ r.reward >= 0) =>
           \E f \in c.data : f.job = job /\ f.worker = r.worker /\ f.ep = r.ep /\ f.reward = r.reward

\* A checkpoint of an earlier job is never presented as trained by this one: if it is what
\* the training ends with, the metrics say that the training was skipped.
NoSilentReuse ==
  (pc = "train" /\ fit \in {"fitted", "copying", "copied"}) => (skipped \/ \A c \in result : c.job = job)

\* Whatever was killed, lost or left behind by earlier jobs, a policy is trained on whole
\* trajectories only, and on none whose reward is below zero by more than the rounding.
TrainedOnWhole ==
  \A r \in Rounds : \A c \in run[r] : \A f \in c.data : f.whole /\ f.reward >= -5

\* The jobs implement PolicyLoop, whatever is killed, fails, is lost or was left behind.
Loop ==
  INSTANCE PolicyLoop WITH
    stage <- CASE pc = "idle" -> "off"
               [] pc = "serve" -> "load"
               [] pc = "eval" -> "judge"
               [] pc = "merge" -> "mix"
               [] OTHER -> "learn",
    policy <- served,
    told <- collected,
    base <- r1,
    lesson <- data

LoopSpec == Loop!Spec

\* Every job ends: no lock, no hanging simulator and no lost process holds the round up.
JobEnds == (pc # "idle") ~> (pc = "idle")
=============================================================================
