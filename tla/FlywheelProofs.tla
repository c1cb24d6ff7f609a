--------------------------- MODULE FlywheelProofs ----------------------------
(***************************************************************************)
(* Proofs about the physical-ai flywheel: the type invariant, and the      *)
(* safety properties of module Flywheel, for any workers, episodes,        *)
(* rewards, jobs and contents of the volume.                               *)
(***************************************************************************)
EXTENDS Flywheel, TLAPS

----------------------------------------------------------------------------
(* Types. *)

LEMMA NothingYet ==
  /\ <<>> \in Seq(Results)
  /\ [w \in Workers |-> <<>>] \in [Workers -> Seq(Results)]
  /\ [w \in Workers |-> [r \in Rounds |-> NoFile]] \in [Workers -> [Rounds -> (SUBSET Results) \cup {NoFile}]]
  <1>1. <<>> \in Seq(Results)
    OBVIOUS
  <1>2. [w \in Workers |-> <<>>] \in [Workers -> Seq(Results)]
    BY <1>1, Zenon
  <1>3. [w \in Workers |-> [r \in Rounds |-> NoFile]] \in [Workers -> [Rounds -> (SUBSET Results) \cup {NoFile}]]
    OBVIOUS
  <1> QED
    BY <1>1, <1>2, <1>3

LEMMA TypeInit == Init => TypeOK
  <1> SUFFICES ASSUME Init PROVE TypeOK
    OBVIOUS
  <1>1. PICK s \in Scenarios : traj = s.traj /\ run = s.run /\ ckpt = s.ckpt /\ schedule = s.schedule
    BY DEF Init
  <1>2. /\ s.schedule \in Seq(Scripts)
        /\ s.traj \subseteq Files
        /\ s.run \in [Rounds -> SUBSET Trained]
        /\ s.ckpt \in [Rounds -> States]
    BY FlywheelAssumption
  <1>3. SimType
    BY <1>1, <1>2, NothingYet DEF Init, SimInit, SimType
  <1>4. FitType
    BY <1>1, <1>2 DEF Init, FitInit, FitType
  <1>5. JobType
    BY <1>1, <1>2, FlywheelAssumption DEF Init, JobType
  <1> QED
    BY <1>3, <1>4, <1>5 DEF TypeOK

LEMMA EndClusterType == ASSUME SimType, EndCluster PROVE SimType'
  BY NothingYet DEF SimType, EndCluster

LEMMA WorkerType ==
  ASSUME SimType, NEW w \in Workers, NEW j \in Nat, NEW r \in Rounds, WorkerStep(w, j, r)
  PROVE  SimType'
  <1>1. CASE TakeLock(w)
    BY <1>1 DEF TakeLock, Boot, SimType
  <1>2. CASE GiveUp(w)
    BY <1>2 DEF GiveUp, Boot, SimType
  <1>3. CASE EndBoot(w)
    BY <1>3 DEF EndBoot, Unlock, SimType
  <1>4. CASE SkipBoot(w)
    BY <1>4 DEF SkipBoot, SimType
  <1>5. ASSUME NEW reward \in Int, NEW saved \in BOOLEAN, Played(w, Result(w, j, r, reward, saved))
        PROVE  played' \in [Workers -> Seq(Results)]
    <2>1. played[w] \in Seq(Results) /\ Len(played[w]) + 1 \in Nat
      BY DEF SimType
    <2>2. Result(w, j, r, reward, saved) \in Results
      BY <2>1, <1>5 DEF Result, Results
    <2>3. Append(played[w], Result(w, j, r, reward, saved)) \in Seq(Results)
      BY <2>1, <2>2
    <2> QED
      BY <1>5, <2>3 DEF Played, SimType
  <1>6. ASSUME NEW reward \in Int, NEW whole \in BOOLEAN
        PROVE  Put(Trajectory(w, j, r, reward, whole)) \subseteq Files
    <2>1. Len(played[w]) + 1 \in Nat
      BY DEF SimType
    <2>2. Rounded(reward) \in Int
      BY DEF Rounded
    <2>3. Trajectory(w, j, r, reward, whole) \in Files
      BY <2>1, <2>2 DEF Trajectory, Files
    <2> QED
      BY <2>3 DEF Put, SimType
  <1>7. CASE EndEpisode(w, j, r)
    <2>1. PICK reward \in Rewards : /\ traj' = Put(Trajectory(w, j, r, reward, TRUE))
                                    /\ Played(w, Result(w, j, r, reward, TRUE))
      BY <1>7 DEF EndEpisode
    <2>2. reward \in Int
      BY SimAssumption
    <2>3. traj' \subseteq Files /\ played' \in [Workers -> Seq(Results)]
      BY <1>5, <1>6, <2>1, <2>2
    <2> QED
      BY <1>7, <2>1, <2>3 DEF EndEpisode, Played, SimType
  <1>8. CASE LoseEpisode(w, j, r)
    <2>1. Played(w, Result(w, j, r, 0, FALSE))
      BY <1>8 DEF LoseEpisode
    <2>2. 0 \in Int /\ FALSE \in BOOLEAN
      OBVIOUS
    <2>3. played' \in [Workers -> Seq(Results)]
      BY <1>5, <2>1, <2>2
    <2> QED
      BY <1>8, <2>3 DEF LoseEpisode, Played, SimType
  <1>9. CASE WriteResults(w, r)
    <2>1. ToSet(played[w]) \subseteq Results
      BY DEF ToSet, SimType
    <2> QED
      BY <1>9, <2>1 DEF WriteResults, SimType
  <1>10. CASE Exit(w)
    BY <1>10, NothingYet DEF Exit, SimType
  <1>11. CASE Kill(w)
    BY <1>11, NothingYet DEF Kill, Ended, Unlock, SimType
  <1>12. CASE KillSaving(w, j, r)
    <2>1. PICK reward \in Rewards : traj' = Put(Trajectory(w, j, r, reward, FALSE))
      BY <1>12 DEF KillSaving
    <2>2. traj' \subseteq Files
      BY <1>6, <2>1, SimAssumption
    <2> QED
      BY <1>12, <2>2, NothingYet DEF KillSaving, Ended, Unlock, SimType
  <1>13. CASE KillReporting(w, r)
    BY <1>13, NothingYet DEF KillReporting, Ended, Unlock, SimType
  <1>14. CASE Collect(w, r)
    <2>1. json[w][r] \in (SUBSET Results) \cup {NoFile}
      BY DEF SimType
    <2>2. collected' \subseteq Results
      BY <1>14, <2>1 DEF Collect, ResultsFile, SimType
    <2> QED
      BY <1>14, <2>2 DEF Collect, SimType
  <1> QED
    BY <1>1, <1>2, <1>3, <1>4, <1>7, <1>8, <1>9, <1>10, <1>11, <1>12, <1>13, <1>14 DEF WorkerStep

LEMMA FitStepType ==
  ASSUME FitType, NEW r \in Rounds, NEW s, NEW trained \in Trained, FitStep(r, s, trained)
  PROVE  FitType'
  <1>1. CASE Clear(r)
    BY <1>1 DEF Clear, FitType
  <1>2. CASE ClearFails(r, s)
    BY <1>2 DEF ClearFails, FitType
  <1>3. CASE SkipTraining(r, s)
    BY <1>3 DEF SkipTraining, FitType
  <1>4. CASE StartEpoch(r, s)
    BY <1>4 DEF StartEpoch, FitType
  <1>5. CASE Report(r, trained)
    BY <1>5 DEF Report, FitType
  <1>6. CASE EndEpoch(r)
    BY <1>6 DEF EndEpoch, FitType
  <1>7. CASE Fail(s)
    BY <1>7 DEF Fail, FitType
  <1>8. ASSUME NEW whole \in BOOLEAN
        PROVE  {[of |-> c, whole |-> whole] : c \in result} \in States
    BY DEF FitType, States
  <1>9. CASE BeginCopy(r)
    BY <1>8, <1>9 DEF BeginCopy, FitType
  <1>10. CASE EndCopy(r)
    BY <1>8, <1>10 DEF EndCopy, FitType
  <1> QED
    BY <1>1, <1>2, <1>3, <1>4, <1>5, <1>6, <1>7, <1>9, <1>10 DEF FitStep

LEMMA EndJobType == ASSUME TypeOK, EndJob PROVE TypeOK'
  <1>1. SimType'
    BY EndClusterType DEF EndJob, TypeOK
  <1>2. FitType'
    BY DEF EndJob, NoFit, FitType, TypeOK
  <1>3. JobType'
    BY DEF EndJob, JobType, TypeOK
  <1> QED
    BY <1>1, <1>2, <1>3 DEF TypeOK

LEMMA TypeStep == TypeOK /\ [Next]_vars => TypeOK'
  <1> SUFFICES ASSUME TypeOK, [Next]_vars PROVE TypeOK'
    OBVIOUS
  <1>1. ASSUME UNCHANGED simVars PROVE SimType'
    BY <1>1 DEF simVars, SimType, TypeOK
  <1>2. ASSUME UNCHANGED fitVars PROVE FitType'
    BY <1>2 DEF fitVars, FitType, TypeOK
  <1>3. ASSUME UNCHANGED jobVars PROVE JobType'
    BY <1>3 DEF jobVars, JobType, TypeOK
  <1>4. round \in Rounds /\ job \in Nat
    BY FlywheelAssumption DEF TypeOK, JobType
  <1>5. CASE StartJob
    <2>1. ASSUME BeginFit PROVE FitType'
      BY <2>1 DEF BeginFit, FitType, TypeOK
    <2>2. FitType'
      BY <1>2, <1>5, <2>1 DEF StartJob
    <2>3. JobType'
      BY <1>5 DEF StartJob, JobType, TypeOK
    <2> QED
      BY <1>1, <1>5, <2>2, <2>3 DEF StartJob, TypeOK
  <1>6. CASE EndJob
    BY <1>6, EndJobType
  <1>7. CASE Serve
    <2>1. SimType'
      BY <1>7, NothingYet DEF Serve, Fresh, SimType, TypeOK
    <2>2. PICK c \in ckpt[round] : served' = {c.of}
      BY <1>7 DEF Serve
    <2>3. c.of \in Trained
      BY <1>4, <2>2 DEF TypeOK, FitType, States
    <2>4. JobType'
      BY <1>7, <2>2, <2>3 DEF Serve, JobType, TypeOK
    <2> QED
      BY <1>2, <1>7, <2>1, <2>4 DEF Serve, TypeOK
  <1>8. CASE EndEval
    <2>1. JobType'
      BY <1>8 DEF EndEval, Evaluated, JobType, SimType, TypeOK
    <2> QED
      BY <1>1, <1>2, <1>8, <2>1 DEF EndEval, TypeOK
  <1>9. CASE Merge
    <2>1. FitType'
      BY <1>9 DEF Merge, BeginFit, FitType, TypeOK
    <2>2. JobType'
      BY <1>9 DEF Merge, Kept, JobType, SimType, TypeOK
    <2> QED
      BY <1>1, <1>9, <2>1, <2>2 DEF Merge, TypeOK
  <1>10. CASE Train
    <2>1. [job |-> job, data |-> data] \in Trained
      BY <1>4 DEF TypeOK, JobType, Trained
    <2>2. FitType'
      BY <1>4, <1>10, <2>1, FitStepType DEF Train, TypeOK
    <2> QED
      BY <1>1, <1>3, <1>10, <2>2 DEF Train, TypeOK
  <1>11. CASE EndTraining
    <2>1. JobType'
      BY <1>11 DEF EndTraining, JobType, TypeOK
    <2> QED
      BY <1>1, <1>2, <1>11, <2>1 DEF EndTraining, TypeOK
  <1>12. CASE \E w \in Workers : Simulate(w)
    <2>1. SimType'
      BY <1>4, <1>12, WorkerType DEF Simulate, TypeOK
    <2> QED
      BY <1>2, <1>3, <1>12, <2>1 DEF Simulate, TypeOK
  <1>13. CASE UNCHANGED vars
    BY <1>1, <1>2, <1>3, <1>13 DEF vars, TypeOK
  <1> QED
    BY <1>5, <1>6, <1>7, <1>8, <1>9, <1>10, <1>11, <1>12, <1>13
    DEF Next, JobStep, ServeFails, Compare, LeaveTraining, LoseJob, AllDone

\* The state of the jobs, of the training and of the simulation is well typed: whatever
\* is killed or lost, only results and files that the programs write are on the volume.
THEOREM TypeCorrect == Spec => []TypeOK
  BY TypeInit, TypeStep, PTL DEF Spec

----------------------------------------------------------------------------
(* Training: which policy ends where. *)

Policy == [job |-> job, data |-> data]

\* What the place of a job says about its script and round.
Control ==
  /\ pc \in {"serve", "eval", "merge"} => script = "03"
  /\ pc = "merge" => round = "round1"
  /\ pc = "train" => round = IF script = "02" THEN "round1" ELSE "round2"

\* A file is named after its reward, and what is merged is whole.
CleanData ==
  /\ \A f \in traj : f.name = Rounded(f.reward)
  /\ \A f \in data : f.whole /\ f.reward >= -5

TrainInv ==
  /\ pc = "idle" => fit = "off" /\ ~skipped
  /\ skipped => script = "02"
  /\ fit = "reported" => run[round] = {Policy}
  /\ fit \in {"fitted", "copying", "copied"} => skipped \/ result = {Policy}
  /\ fit = "copied" => ckpt[round] = {[of |-> c, whole |-> TRUE] : c \in result}
  /\ (pc \in {"serve", "eval"} /\ round = "round2") => fit = "copied"
  /\ (pc = "eval" /\ round = "round2") => served \subseteq {Policy}

PolicyInv == Control /\ CleanData /\ TrainInv /\ TrainedOnWhole

LEMMA PolicyInit == Init => PolicyInv
  <1> SUFFICES ASSUME Init PROVE PolicyInv
    OBVIOUS
  <1>1. PICK s \in Scenarios : traj = s.traj /\ run = s.run
    BY DEF Init
  <1>2. CleanData /\ TrainedOnWhole
    BY <1>1, FlywheelAssumption DEF Init, CleanData, TrainedOnWhole
  <1>3. Control /\ TrainInv
    BY DEF Init, FitInit, Control, TrainInv
  <1> QED
    BY <1>2, <1>3 DEF PolicyInv

\* Files that are put on the volume are named after their reward.
LEMMA WorkerNames ==
  ASSUME TypeOK, CleanData, NEW w \in Workers, WorkerStep(w, job, round), UNCHANGED data
  PROVE  CleanData'
  <1>1. CASE UNCHANGED traj
    BY <1>1 DEF CleanData
  <1>2. ASSUME NEW reward \in Rewards, NEW whole \in BOOLEAN,
               traj' = Put(Trajectory(w, job, round, reward, whole))
        PROVE  CleanData'
    BY <1>2 DEF Put, Trajectory, CleanData
  <1>3. CASE EndEpisode(w, job, round)
    BY <1>2, <1>3 DEF EndEpisode
  <1>4. CASE KillSaving(w, job, round)
    BY <1>2, <1>4 DEF KillSaving
  <1> QED
    BY <1>1, <1>3, <1>4
    DEF WorkerStep, TakeLock, GiveUp, EndBoot, SkipBoot, LoseEpisode, WriteResults, Exit, Kill,
        KillReporting, Collect

LEMMA TrainStep ==
  ASSUME TypeOK, PolicyInv, pc = "train", FitStep(round, script, Policy), UNCHANGED <<simVars, jobVars>>
  PROVE  PolicyInv'
  <1>1. round \in Rounds /\ script \in {"02", "03"}
    BY FlywheelAssumption DEF TypeOK, JobType
  <1>2. Policy' = Policy /\ pc' = pc /\ round' = round /\ script' = script
    BY DEF jobVars, Policy
  <1>3. Control' /\ CleanData'
    BY DEF PolicyInv, Control, CleanData, simVars, jobVars
  <1>4. TrainedOnWhole'
    <2>1. CASE Clear(round)
      BY <1>1, <2>1 DEF Clear, PolicyInv, TrainedOnWhole, TypeOK, FitType
    <2>2. CASE Report(round, Policy)
      BY <1>1, <2>2 DEF Report, Policy, PolicyInv, TrainedOnWhole, CleanData, TypeOK, FitType
    <2>3. CASE UNCHANGED run
      BY <2>3 DEF PolicyInv, TrainedOnWhole
    <2> QED
      BY <2>1, <2>2, <2>3
      DEF FitStep, ClearFails, SkipTraining, StartEpoch, EndEpoch, Fail, BeginCopy, EndCopy
  <1>5. TrainInv'
    <2> HIDE DEF Policy
    <2>1. CASE Clear(round)
      BY <1>2, <2>1 DEF Clear, PolicyInv, TrainInv
    <2>2. CASE ClearFails(round, script)
      BY <1>2, <2>2 DEF ClearFails, PolicyInv, TrainInv
    <2>3. CASE SkipTraining(round, script)
      BY <1>2, <2>3 DEF SkipTraining, WouldSkip, PolicyInv, TrainInv
    <2>4. CASE StartEpoch(round, script)
      BY <1>2, <2>4 DEF StartEpoch, PolicyInv, TrainInv
    <2>5. CASE Report(round, Policy)
      BY <1>1, <1>2, <2>5 DEF Report, PolicyInv, TrainInv, TypeOK, FitType
    <2>6. CASE EndEpoch(round)
      BY <1>2, <2>6 DEF EndEpoch, PolicyInv, TrainInv
    <2>7. CASE Fail(script)
      BY <1>2, <2>7 DEF Fail, PolicyInv, TrainInv
    <2>8. CASE BeginCopy(round)
      BY <1>2, <2>8 DEF BeginCopy, PolicyInv, TrainInv
    <2>9. CASE EndCopy(round)
      BY <1>1, <1>2, <2>9 DEF EndCopy, PolicyInv, TrainInv, TypeOK, FitType
    <2> QED
      BY <2>1, <2>2, <2>3, <2>4, <2>5, <2>6, <2>7, <2>8, <2>9 DEF FitStep
  <1> QED
    BY <1>3, <1>4, <1>5 DEF PolicyInv

LEMMA EndJobPolicy == ASSUME TypeOK, PolicyInv, EndJob PROVE PolicyInv'
  <1>1. TrainedOnWhole'
    BY DEF EndJob, NoFit, PolicyInv, TrainedOnWhole
  <1>2. Control' /\ CleanData'
    BY DEF EndJob, EndCluster, PolicyInv, Control, CleanData
  <1>3. TrainInv'
    BY DEF EndJob, NoFit, PolicyInv, TrainInv
  <1> QED
    BY <1>1, <1>2, <1>3 DEF PolicyInv

LEMMA PolicyStep == TypeOK /\ PolicyInv /\ [Next]_vars => PolicyInv'
  <1> SUFFICES ASSUME TypeOK, PolicyInv, [Next]_vars PROVE PolicyInv'
    OBVIOUS
  <1>1. script \in {"02", "03"} /\ round \in {"round1", "round2"}
    BY FlywheelAssumption DEF TypeOK, JobType
  <1>2. CASE StartJob
    <2>1. TrainedOnWhole' /\ CleanData'
      BY <1>2 DEF StartJob, BeginFit, fitVars, simVars, PolicyInv, TrainedOnWhole, CleanData
    <2>2. script' \in {"02", "03"}
      BY <1>2, FlywheelAssumption DEF StartJob, TypeOK, JobType
    <2>3. Control'
      BY <1>2, <2>2 DEF StartJob, Control
    <2>4. TrainInv'
      BY <1>2, <2>2 DEF StartJob, BeginFit, fitVars, PolicyInv, TrainInv
    <2> QED
      BY <2>1, <2>3, <2>4 DEF PolicyInv
  <1>3. CASE EndJob
    BY <1>3, EndJobPolicy
  <1>4. CASE Serve
    <2>1. TrainedOnWhole' /\ CleanData' /\ Control'
      BY <1>4 DEF Serve, Fresh, fitVars, PolicyInv, TrainedOnWhole, CleanData, Control
    <2>2. PICK c \in ckpt[round] : served' = {c.of}
      BY <1>4 DEF Serve
    <2>3. round = "round2" => c.of = Policy
      BY <1>4, <2>2 DEF Serve, PolicyInv, Control, TrainInv
    <2>4. TrainInv'
      BY <1>4, <2>2, <2>3 DEF Serve, fitVars, PolicyInv, TrainInv, Policy
    <2> QED
      BY <2>1, <2>4 DEF PolicyInv
  <1>5. CASE EndEval
    BY <1>5 DEF EndEval, Evaluated, simVars, fitVars, PolicyInv, TrainedOnWhole, CleanData, Control, TrainInv, Policy
  <1>6. CASE Merge
    <2>1. TrainedOnWhole'
      BY <1>6 DEF Merge, BeginFit, PolicyInv, TrainedOnWhole
    <2>2. \A f \in Kept : f.whole /\ f.reward >= -5
      BY DEF Kept, PolicyInv, CleanData, Rounded, TypeOK, SimType, Files
    <2>3. CleanData'
      BY <1>6, <2>2 DEF Merge, simVars, PolicyInv, CleanData
    <2>4. Control' /\ TrainInv'
      BY <1>6 DEF Merge, BeginFit, PolicyInv, Control, TrainInv
    <2> QED
      BY <2>1, <2>3, <2>4 DEF PolicyInv
  <1>7. CASE Train
    BY <1>7, TrainStep DEF Train, Policy
  <1>8. CASE EndTraining
    BY <1>8 DEF EndTraining, simVars, fitVars, PolicyInv, TrainedOnWhole, CleanData, Control, TrainInv, Policy
  <1>9. CASE \E w \in Workers : Simulate(w)
    <2>1. CleanData'
      BY <1>9, WorkerNames DEF Simulate, jobVars, PolicyInv
    <2>2. TrainedOnWhole' /\ Control' /\ TrainInv'
      BY <1>9 DEF Simulate, jobVars, fitVars, PolicyInv, TrainedOnWhole, Control, TrainInv, Policy
    <2> QED
      BY <2>1, <2>2 DEF PolicyInv
  <1>10. CASE UNCHANGED vars
    BY <1>10 DEF vars, simVars, jobVars, fitVars, PolicyInv, TrainedOnWhole, CleanData, Control, TrainInv, Policy
  <1> QED
    BY <1>2, <1>3, <1>4, <1>5, <1>6, <1>7, <1>8, <1>9, <1>10
    DEF Next, JobStep, ServeFails, Compare, LeaveTraining, LoseJob, AllDone

\* No policy is ever trained on a torn trajectory or on a bad one, whatever processes and
\* jobs were killed while they wrote.
THEOREM WholeTrajectoriesOnly == Spec => []TrainedOnWhole
  <1>1. PolicyInv => TrainedOnWhole
    BY DEF PolicyInv
  <1> QED
    BY <1>1, TypeInit, TypeStep, PolicyInit, PolicyStep, PTL DEF Spec

\* When a training is over its policy is of this job, or is reported as skipped, however
\* the run directory was left behind and however often an attempt failed.
THEOREM ReuseIsReported == Spec => []NoSilentReuse
  <1>1. PolicyInv => NoSilentReuse
    BY DEF PolicyInv, TrainInv, NoSilentReuse, Policy
  <1> QED
    BY <1>1, TypeInit, TypeStep, PolicyInit, PolicyStep, PTL DEF Spec

----------------------------------------------------------------------------
(* Simulation: where results come from. *)

\* The trajectory of a result is whole on the volume.
Present(r) ==
  \E f \in traj : /\ Named(f, r.round, r.worker, r.ep, Rounded(r.reward))
                  /\ f.job = job
                  /\ f.reward = r.reward
                  /\ f.whole

Sound(r, w) == r.worker = w /\ r.job = job /\ (r.saved => Present(r))

\* What a process has in memory is of this round, one result per episode.
PlayedInv ==
  \A w \in Workers :
    /\ played[w] # <<>> => pc = "eval" /\ proc[w] \in {"playing", "reporting", "closing"}
    /\ \A i \in 1..Len(played[w]) :
         played[w][i].ep = i /\ played[w][i].round = round /\ Sound(played[w][i], w)

\* A results file is of an earlier round, or was written in this one by a process that has
\* only to close its environment.
JsonInv ==
  \A w \in Workers : \A q \in Rounds :
    json[w][q] # NoFile =>
      /\ pc # "idle"
      /\ \/ q = "round1" /\ round = "round2"
         \/ q = round /\ pc \in {"eval", "merge"} /\ proc[w] \in {"closing", "ended", "collected"}
      /\ \A r \in json[w][q] :
           r.round = q /\ Sound(r, w) /\ \A s \in json[w][q] : s.ep = r.ep => s = r

\* What was collected is in the results file of its worker.
CollectedInv ==
  /\ collected # {} => pc # "idle"
  /\ \A r \in collected :
       /\ proc[r.worker] = "collected"
       /\ r.round = IF pc \in {"eval", "merge"} THEN round ELSE "round1"
       /\ json[r.worker][r.round] # NoFile
       /\ r \in json[r.worker][r.round]

\* Who starts Kit has the lock or has gone on without it, and only a round's workers, while
\* they start Kit, have it.
KitInv ==
  /\ \A w \in Workers : proc[w] = "booting" => lock = w \/ w \in gaveUp
  /\ lock # Nobody => pc = "eval" /\ proc[lock] = "booting"

SimInv == PlayedInv /\ JsonInv /\ CollectedInv /\ KitInv

LEMMA SimInvInit == Init => SimInv
  BY DEF Init, SimInit, SimInv, PlayedInv, JsonInv, CollectedInv, KitInv

LEMMA EndJobSim == ASSUME TypeOK, EndJob PROVE SimInv'
  BY DEF EndJob, EndCluster, SimInv, PlayedInv, JsonInv, CollectedInv, KitInv

\* A trajectory that is put on the volume takes no other one away.
LEMMA PutKeeps ==
  ASSUME NEW f, NEW r, Present(r), traj' = Put(f), job' = job,
         ~(r.round = f.round /\ r.worker = f.worker /\ r.ep = f.ep)
  PROVE  Present(r)'
  BY DEF Present, Put, Named

\* The steps up to the first episode.
LEMMA BootSim ==
  ASSUME TypeOK, SimInv, pc = "eval", NEW w \in Workers, UNCHANGED jobVars,
         TakeLock(w) \/ GiveUp(w) \/ EndBoot(w) \/ SkipBoot(w)
  PROVE  SimInv'
  <1>1. /\ UNCHANGED <<played, json, traj, collected>>
        /\ proc[w] \in {"waiting", "booting"}
        /\ \E s \in {"booting", "playing"} : proc' = [proc EXCEPT ![w] = s]
    BY DEF TakeLock, GiveUp, EndBoot, SkipBoot, Boot
  <1>2. \A r : Present(r)' = Present(r)
    BY <1>1 DEF jobVars, Present
  <1>3. PlayedInv'
    BY <1>1, <1>2 DEF jobVars, SimInv, PlayedInv, Sound, TypeOK, SimType
  <1>4. JsonInv'
    BY <1>1, <1>2 DEF jobVars, SimInv, JsonInv, Sound, TypeOK, SimType
  <1>5. CollectedInv'
    BY <1>1 DEF jobVars, SimInv, CollectedInv, TypeOK, SimType, Results
  <1>6. KitInv'
    <2>1. CASE TakeLock(w)
      BY <2>1, SimAssumption DEF TakeLock, Boot, jobVars, SimInv, KitInv, TypeOK, SimType
    <2>2. CASE GiveUp(w)
      BY <2>2 DEF GiveUp, Boot, jobVars, SimInv, KitInv, TypeOK, SimType
    <2>3. CASE EndBoot(w)
      BY <2>3 DEF EndBoot, Unlock, jobVars, SimInv, KitInv, TypeOK, SimType
    <2>4. CASE SkipBoot(w)
      BY <2>4 DEF SkipBoot, jobVars, SimInv, KitInv, TypeOK, SimType
    <2> QED
      BY <2>1, <2>2, <2>3, <2>4
  <1> QED
    BY <1>3, <1>4, <1>5, <1>6 DEF SimInv

\* Before it reports, a worker has no results file of this round.
LEMMA NotYetReported ==
  ASSUME TypeOK, SimInv, pc = "eval", NEW w \in Workers,
         proc[w] \in {"waiting", "booting", "playing", "reporting"}
  PROVE  json[w][round] = NoFile
  BY FlywheelAssumption DEF SimInv, JsonInv, TypeOK, JobType

\* An episode is over, with or without a trajectory.
LEMMA EpisodeSim ==
  ASSUME TypeOK, SimInv, pc = "eval", NEW w \in Workers, UNCHANGED jobVars,
         EndEpisode(w, job, round) \/ LoseEpisode(w, job, round)
  PROVE  SimInv'
  <1> DEFINE n == Len(played[w])
  <1>1. /\ proc[w] = "playing"
        /\ UNCHANGED <<lock, gaveUp, json, collected>>
    BY DEF EndEpisode, LoseEpisode
  <1>2. \E reward \in Int, saved \in BOOLEAN :
          /\ Played(w, Result(w, job, round, reward, saved))
          /\ saved => traj' = Put(Trajectory(w, job, round, reward, TRUE))
          /\ ~saved => UNCHANGED traj
    <2>1. CASE EndEpisode(w, job, round)
      BY <2>1, SimAssumption DEF EndEpisode
    <2>2. CASE LoseEpisode(w, job, round)
      <3>1. 0 \in Int /\ FALSE \in BOOLEAN
        OBVIOUS
      <3> QED
        BY <2>2, <3>1 DEF LoseEpisode
    <2> QED
      BY <2>1, <2>2
  <1>3. PICK reward \in Int, saved \in BOOLEAN :
          /\ Played(w, Result(w, job, round, reward, saved))
          /\ saved => traj' = Put(Trajectory(w, job, round, reward, TRUE))
          /\ ~saved => UNCHANGED traj
    BY <1>2
  <1>a. PICK new, file : /\ new = Result(w, job, round, reward, saved)
                         /\ file = Trajectory(w, job, round, reward, TRUE)
    OBVIOUS
  <1>4. /\ new.worker = w /\ new.job = job /\ new.round = round /\ new.ep = n + 1
        /\ new.reward = reward /\ new.saved = saved
    BY <1>a DEF Result
  <1>5. /\ file.worker = w /\ file.job = job /\ file.round = round /\ file.ep = n + 1
        /\ file.reward = reward /\ file.name = Rounded(reward) /\ file.whole
    BY <1>a DEF Trajectory
  <1>6. /\ played[w] \in Seq(Results)
        /\ n \in Nat
        /\ job' = job /\ round' = round /\ pc' = pc
    BY DEF TypeOK, SimType, jobVars
  <1>7. /\ played' = [played EXCEPT ![w] = Append(played[w], new)]
        /\ proc'[w] \in {"playing", "reporting"}
        /\ \A v \in Workers : v # w => proc'[v] = proc[v]
    BY <1>3, <1>a DEF Played, TypeOK, SimType
  <1>8. ASSUME NEW r, Present(r), ~(r.round = round /\ r.worker = w /\ r.ep = n + 1)
        PROVE  Present(r)'
    <2>1. CASE saved
      BY <1>3, <1>a, <1>5, <1>6, <1>8, <2>1, PutKeeps
    <2>2. CASE ~saved
      BY <1>3, <1>6, <1>8, <2>2 DEF Present
    <2> QED
      BY <2>1, <2>2
  <1>9. saved => Present(new)'
    <2>1. ASSUME saved PROVE file \in traj'
      BY <1>3, <1>a, <2>1 DEF Put
    <2> QED
      BY <1>4, <1>5, <1>6, <2>1 DEF Present, Named
  <1>10. ASSUME NEW v \in Workers, NEW i \in 1..Len(played'[v]), NEW r, r = played'[v][i]
         PROVE  r.ep = i /\ r.round = round /\ r.worker = v /\ r.job = job /\ (r.saved => Present(r)')
    <2>1. CASE v # w
      <3>1. i \in 1..Len(played[v]) /\ r = played[v][i]
        BY <1>7, <1>10, <2>1 DEF TypeOK, SimType
      <3>2. r.ep = i /\ r.round = round /\ Sound(r, v)
        BY <3>1 DEF SimInv, PlayedInv
      <3> QED
        BY <1>8, <2>1, <3>2 DEF Sound
    <2>2. CASE v = w /\ i # n + 1
      <3>1. i \in 1..n /\ r = played[w][i]
        BY <1>6, <1>7, <1>10, <2>2 DEF TypeOK, SimType
      <3>2. r.ep = i /\ r.round = round /\ Sound(r, w)
        BY <3>1 DEF SimInv, PlayedInv
      <3> QED
        BY <1>6, <1>8, <2>2, <3>1, <3>2 DEF Sound
    <2>3. CASE v = w /\ i = n + 1
      <3>1. r = new
        BY <1>6, <1>7, <1>10, <2>3 DEF TypeOK, SimType
      <3> QED
        BY <1>4, <1>6, <1>9, <2>3, <3>1
    <2> QED
      BY <2>1, <2>2, <2>3
  <1>11. PlayedInv'
    <2>1. ASSUME NEW v \in Workers, played'[v] # <<>>
          PROVE  pc' = "eval" /\ proc'[v] \in {"playing", "reporting", "closing"}
      BY <1>6, <1>7, <2>1 DEF SimInv, PlayedInv, TypeOK, SimType
    <2> QED
      BY <1>6, <1>10, <2>1 DEF PlayedInv, Sound
  <1>12. JsonInv'
    <2>1. ASSUME NEW v \in Workers, NEW q \in Rounds, json[v][q] # NoFile, NEW r \in json[v][q]
          PROVE  Sound(r, v)'
      <3>1. r.round = q /\ Sound(r, v)
        BY <2>1 DEF SimInv, JsonInv
      <3>2. ~(r.round = round /\ r.worker = w)
        BY <1>1, <2>1, <3>1, NotYetReported DEF Sound
      <3> QED
        BY <1>6, <1>8, <3>1, <3>2 DEF Sound
    <2>2. ASSUME NEW v \in Workers, NEW q \in Rounds, json[v][q] # NoFile
          PROVE  \/ q = "round1" /\ round = "round2"
                 \/ q = round /\ pc \in {"eval", "merge"} /\ proc'[v] \in {"closing", "ended", "collected"}
      BY <1>1, <1>7, <2>2 DEF SimInv, JsonInv
    <2> QED
      BY <1>1, <1>6, <2>1, <2>2 DEF SimInv, JsonInv
  <1>13. CollectedInv'
    BY <1>1, <1>6, <1>7 DEF SimInv, CollectedInv, TypeOK, SimType, Results
  <1>14. KitInv'
    BY <1>1, <1>6, <1>7, SimAssumption DEF SimInv, KitInv, TypeOK, SimType
  <1> QED
    BY <1>11, <1>12, <1>13, <1>14 DEF SimInv

LEMMA WriteSim ==
  ASSUME TypeOK, SimInv, pc = "eval", NEW w \in Workers, UNCHANGED jobVars, WriteResults(w, round)
  PROVE  SimInv'
  <1>1. /\ proc[w] = "reporting" /\ proc' = [proc EXCEPT ![w] = "closing"]
        /\ json' = [json EXCEPT ![w][round] = ToSet(played[w])]
        /\ UNCHANGED <<lock, gaveUp, played, traj, collected>>
        /\ job' = job /\ round' = round /\ pc' = pc
        /\ round \in Rounds
    BY FlywheelAssumption DEF WriteResults, jobVars, TypeOK, JobType
  <1>2. \A r : Present(r)' = Present(r)
    BY <1>1 DEF Present
  <1>3. PlayedInv'
    BY <1>1, <1>2 DEF SimInv, PlayedInv, Sound, TypeOK, SimType
  <1>4. \A r \in ToSet(played[w]) :
          r.round = round /\ Sound(r, w) /\ \A s \in ToSet(played[w]) : s.ep = r.ep => s = r
    <2>1. \A r \in ToSet(played[w]) : \E i \in 1..Len(played[w]) : r = played[w][i]
      BY SMTT(30) DEF ToSet, TypeOK, SimType
    <2>2. \A i \in 1..Len(played[w]) :
            played[w][i].ep = i /\ played[w][i].round = round /\ Sound(played[w][i], w)
      BY DEF SimInv, PlayedInv
    <2> HIDE DEF Sound
    <2> QED
      BY <2>1, <2>2
  <1>5. ASSUME NEW v \in Workers, NEW q \in Rounds, json'[v][q] # NoFile
        PROVE  /\ \/ q = "round1" /\ round = "round2"
                  \/ q = round /\ proc'[v] \in {"closing", "ended", "collected"}
               /\ \A r \in json'[v][q] :
                    r.round = q /\ Sound(r, v) /\ \A s \in json'[v][q] : s.ep = r.ep => s = r
    <2>1. CASE v = w /\ q = round
      <3>1. json'[v][q] = ToSet(played[w])
        BY <1>1, <2>1 DEF TypeOK, SimType
      <3> QED
        BY <1>1, <1>4, <2>1, <3>1 DEF TypeOK, SimType
    <2>2. CASE ~(v = w /\ q = round)
      <3>1. json'[v][q] = json[v][q]
        BY <1>1, <2>2 DEF TypeOK, SimType
      <3> QED
        BY <1>1, <1>5, <2>2, <3>1 DEF SimInv, JsonInv, TypeOK, SimType
    <2> QED
      BY <2>1, <2>2
  <1>6. JsonInv'
    BY <1>1, <1>2, <1>5 DEF JsonInv, Sound
  <1>7. CollectedInv'
    <2>1. ASSUME NEW r \in collected PROVE json'[r.worker] = json[r.worker] /\ proc'[r.worker] = "collected"
      BY <1>1 DEF SimInv, CollectedInv, TypeOK, SimType, Results
    <2> QED
      BY <1>1, <2>1 DEF SimInv, CollectedInv
  <1>8. KitInv'
    BY <1>1 DEF SimInv, KitInv, TypeOK, SimType
  <1> QED
    BY <1>3, <1>6, <1>7, <1>8 DEF SimInv

LEMMA ExitSim ==
  ASSUME TypeOK, SimInv, pc = "eval", NEW w \in Workers, UNCHANGED jobVars, Exit(w)
  PROVE  SimInv'
  <1>1. /\ proc[w] = "closing" /\ proc' = [proc EXCEPT ![w] = "ended"]
        /\ played' = [played EXCEPT ![w] = <<>>]
        /\ UNCHANGED <<lock, gaveUp, json, traj, collected>>
        /\ job' = job /\ round' = round /\ pc' = pc
    BY DEF Exit, jobVars
  <1>2. \A r : Present(r)' = Present(r)
    BY <1>1 DEF Present
  <1>3. PlayedInv'
    BY <1>1, <1>2 DEF SimInv, PlayedInv, Sound, TypeOK, SimType
  <1>4. JsonInv'
    BY <1>1, <1>2 DEF SimInv, JsonInv, Sound, TypeOK, SimType
  <1>5. CollectedInv'
    BY <1>1 DEF SimInv, CollectedInv, TypeOK, SimType, Results
  <1>6. KitInv'
    BY <1>1 DEF SimInv, KitInv, TypeOK, SimType
  <1> QED
    BY <1>3, <1>4, <1>5, <1>6 DEF SimInv

\* A process is killed, at rest, in the middle of a trajectory or of its results.
LEMMA KillSim ==
  ASSUME TypeOK, SimInv, pc = "eval", NEW w \in Workers, UNCHANGED jobVars,
         Kill(w) \/ KillSaving(w, job, round) \/ KillReporting(w, round)
  PROVE  SimInv'
  <1>1. /\ proc[w] \in {"waiting", "booting", "playing", "reporting"}
        /\ proc' = [proc EXCEPT ![w] = "ended"]
        /\ played' = [played EXCEPT ![w] = <<>>]
        /\ lock' = IF lock = w THEN Nobody ELSE lock
        /\ UNCHANGED <<gaveUp, collected>>
        /\ job' = job /\ round' = round /\ pc' = pc
    BY DEF Kill, KillSaving, KillReporting, Ended, Unlock, jobVars
  <1>2. round \in Rounds /\ json[w][round] = NoFile
    BY <1>1, NotYetReported, FlywheelAssumption DEF TypeOK, JobType
  <1>3. json' = json
    <2>1. CASE Kill(w) \/ KillSaving(w, job, round)
      BY <2>1 DEF Kill, KillSaving
    <2>2. CASE KillReporting(w, round)
      <3>1. json' = [json EXCEPT ![w][round] = NoFile]
        BY <2>2 DEF KillReporting
      <3>2. json \in [Workers -> [Rounds -> (SUBSET Results) \cup {NoFile}]]
        BY DEF TypeOK, SimType
      <3> QED
        BY <1>2, <3>1, <3>2
    <2> QED
      BY <2>1, <2>2
  <1>4. ASSUME NEW r, Present(r), ~(r.round = round /\ r.worker = w /\ r.ep = Len(played[w]) + 1)
        PROVE  Present(r)'
    <2>1. CASE UNCHANGED traj
      BY <1>1, <1>4, <2>1 DEF Present
    <2>2. CASE KillSaving(w, job, round)
      <3>1. PICK reward \in Rewards : traj' = Put(Trajectory(w, job, round, reward, FALSE))
        BY <2>2 DEF KillSaving
      <3>2. PICK file : file = Trajectory(w, job, round, reward, FALSE)
        OBVIOUS
      <3>3. file.round = round /\ file.worker = w /\ file.ep = Len(played[w]) + 1
        BY <3>2 DEF Trajectory
      <3> QED
        BY <1>1, <1>4, <3>1, <3>2, <3>3, PutKeeps
    <2> QED
      BY <2>1, <2>2 DEF Kill, KillReporting
  <1>5. PlayedInv'
    <2>1. ASSUME NEW v \in Workers, v # w, NEW i \in 1..Len(played[v]), NEW r, r = played[v][i]
          PROVE  r.ep = i /\ r.round = round /\ r.worker = v /\ r.job = job /\ (r.saved => Present(r)')
      <3>1. r.ep = i /\ r.round = round /\ Sound(r, v)
        BY <2>1 DEF SimInv, PlayedInv
      <3> QED
        BY <1>4, <2>1, <3>1 DEF Sound
    <2>2. \A v \in Workers : v # w => played'[v] = played[v] /\ proc'[v] = proc[v]
      BY <1>1 DEF TypeOK, SimType
    <2>3. played'[w] = <<>>
      BY <1>1 DEF TypeOK, SimType
    <2> QED
      BY <1>1, <2>1, <2>2, <2>3 DEF SimInv, PlayedInv, Sound
  <1>6. JsonInv'
    <2>1. ASSUME NEW v \in Workers, NEW q \in Rounds, json[v][q] # NoFile, NEW r \in json[v][q]
          PROVE  Sound(r, v)'
      <3>1. r.round = q /\ Sound(r, v)
        BY <2>1 DEF SimInv, JsonInv
      <3>2. ~(r.round = round /\ r.worker = w)
        BY <1>2, <2>1, <3>1 DEF Sound
      <3> QED
        BY <1>1, <1>4, <3>1, <3>2 DEF Sound
    <2>2. ASSUME NEW v \in Workers, NEW q \in Rounds, json[v][q] # NoFile
          PROVE  \/ q = "round1" /\ round = "round2"
                 \/ q = round /\ pc \in {"eval", "merge"} /\ proc'[v] \in {"closing", "ended", "collected"}
      BY <1>1, <1>2, <2>2 DEF SimInv, JsonInv, TypeOK, SimType
    <2> QED
      BY <1>1, <1>3, <2>1, <2>2 DEF SimInv, JsonInv
  <1>7. CollectedInv'
    BY <1>1, <1>3 DEF SimInv, CollectedInv, TypeOK, SimType, Results
  <1>8. KitInv'
    <2>1. \A r \in collected : r.worker # w
      BY <1>1 DEF SimInv, CollectedInv
    <2> QED
      BY <1>1, <1>2, <1>3, <2>1, SimAssumption DEF SimInv, KitInv, TypeOK, SimType
  <1> QED
    BY <1>5, <1>6, <1>7, <1>8 DEF SimInv

LEMMA CollectSim ==
  ASSUME TypeOK, SimInv, pc = "eval", NEW w \in Workers, UNCHANGED jobVars, Collect(w, round)
  PROVE  SimInv'
  <1>1. /\ proc[w] = "ended" /\ proc' = [proc EXCEPT ![w] = "collected"]
        /\ collected' = IF json[w][round] = NoFile THEN collected ELSE collected \cup json[w][round]
        /\ UNCHANGED <<lock, gaveUp, played, json, traj>>
        /\ job' = job /\ round' = round /\ pc' = pc
        /\ round \in Rounds
    BY FlywheelAssumption DEF Collect, ResultsFile, jobVars, TypeOK, JobType
  <1>2. \A r : Present(r)' = Present(r)
    BY <1>1 DEF Present
  <1>3. PlayedInv'
    <2>1. played[w] = <<>>
      BY <1>1 DEF SimInv, PlayedInv
    <2>2. \A v \in Workers : v # w => proc'[v] = proc[v]
      BY <1>1 DEF TypeOK, SimType
    <2>3. played' = played /\ round' = round /\ pc' = pc /\ job' = job
      BY <1>1
    <2>4. ASSUME NEW v \in Workers, played[v] # <<>>
          PROVE  pc' = "eval" /\ proc'[v] \in {"playing", "reporting", "closing"}
      BY <2>1, <2>2, <2>3, <2>4 DEF SimInv, PlayedInv
    <2>5. ASSUME NEW v \in Workers, NEW i \in 1..Len(played[v])
          PROVE  played[v][i].ep = i /\ played[v][i].round = round /\ Sound(played[v][i], v)'
      <3>1. played[v][i].ep = i /\ played[v][i].round = round /\ Sound(played[v][i], v)
        BY DEF SimInv, PlayedInv
      <3> QED
        BY <1>2, <2>3, <3>1 DEF Sound
    <2> QED
      BY <2>3, <2>4, <2>5 DEF PlayedInv, Sound
  <1>4. JsonInv'
    BY <1>1, <1>2 DEF SimInv, JsonInv, Sound, TypeOK, SimType
  <1>5. ASSUME NEW r \in collected', r \notin collected
        PROVE  r.worker = w /\ r.round = round /\ json[w][round] # NoFile /\ r \in json[w][round]
    BY <1>1, <1>5 DEF SimInv, JsonInv, Sound
  <1>6. CollectedInv'
    <2>1. ASSUME NEW r \in collected
          PROVE  /\ proc'[r.worker] = "collected"
                 /\ r.round = round
                 /\ json[r.worker][r.round] # NoFile
                 /\ r \in json[r.worker][r.round]
      BY <1>1 DEF SimInv, CollectedInv, TypeOK, SimType, Results
    <2>2. proc'[w] = "collected"
      BY <1>1 DEF TypeOK, SimType
    <2> QED
      BY <1>1, <1>5, <2>1, <2>2 DEF CollectedInv
  <1>7. KitInv'
    BY <1>1, <1>5 DEF SimInv, KitInv, TypeOK, SimType
  <1> QED
    BY <1>3, <1>4, <1>6, <1>7 DEF SimInv

LEMMA SimStep == TypeOK /\ PolicyInv /\ SimInv /\ [Next]_vars => SimInv'
  <1> SUFFICES ASSUME TypeOK, PolicyInv, SimInv, [Next]_vars PROVE SimInv'
    OBVIOUS
  <1>1. ASSUME UNCHANGED <<simVars, job>> PROVE \A r : Present(r)' = Present(r)
    BY <1>1 DEF simVars, Present
  <1>2. CASE StartJob
    BY <1>2 DEF StartJob, simVars, SimInv, PlayedInv, JsonInv, CollectedInv, KitInv
  <1>3. CASE EndJob
    BY <1>3, EndJobSim
  <1>4. CASE Serve
    <2>1. /\ UNCHANGED <<json, traj, job, round>> /\ Fresh /\ pc = "serve" /\ pc' = "eval"
      BY <1>4 DEF Serve, Fresh
    <2>2. \A r : Present(r)' = Present(r)
      BY <2>1 DEF Present
    <2>3. PlayedInv'
      BY <2>1 DEF Fresh, PlayedInv
    <2>4. JsonInv'
      BY <2>1, <2>2 DEF SimInv, JsonInv, Sound
    <2>5. CollectedInv'
      BY <2>1 DEF Fresh, CollectedInv
    <2>6. KitInv'
      BY <2>1 DEF Fresh, SimInv, KitInv
    <2> QED
      BY <2>3, <2>4, <2>5, <2>6 DEF SimInv
  <1>5. CASE EndEval
    <2>1. UNCHANGED simVars /\ \A w \in Workers : proc[w] = "collected"
      BY <1>5 DEF EndEval, Evaluated
    <2>2. KitInv'
      BY <2>1 DEF simVars, SimInv, KitInv, TypeOK, SimType
    <2> QED
      BY <1>1, <1>5, <2>1, <2>2 DEF EndEval, Evaluated, simVars, SimInv, PlayedInv, JsonInv, CollectedInv, Sound
  <1>6. CASE Merge
    BY <1>1, <1>6 DEF Merge, simVars, PolicyInv, Control, SimInv, PlayedInv, JsonInv, CollectedInv, KitInv, Sound
  <1>7. CASE Train
    BY <1>1, <1>7 DEF Train, simVars, jobVars, SimInv, PlayedInv, JsonInv, CollectedInv, KitInv, Sound
  <1>8. CASE EndTraining
    BY <1>1, <1>8 DEF EndTraining, simVars, SimInv, PlayedInv, JsonInv, CollectedInv, KitInv, Sound
  <1>9. CASE \E w \in Workers : Simulate(w)
    BY <1>9, BootSim, EpisodeSim, WriteSim, ExitSim, KillSim, CollectSim DEF Simulate, WorkerStep
  <1>10. CASE UNCHANGED vars
    BY <1>1, <1>10 DEF vars, simVars, jobVars, SimInv, PlayedInv, JsonInv, CollectedInv, KitInv, Sound
  <1> QED
    BY <1>2, <1>3, <1>4, <1>5, <1>6, <1>7, <1>8, <1>9, <1>10
    DEF Next, JobStep, ServeFails, Compare, LeaveTraining, LoseJob, AllDone

----------------------------------------------------------------------------
(* The loop: what round 1 reported is what round 2 is trained on. *)

LoopInv ==
  /\ pc = "merge" => r1 \subseteq collected
  /\ round = "round2" =>
       \A r \in r1 : (r.saved /\ r.reward >= 0) =>
         \E f \in data : f.job = job /\ f.worker = r.worker /\ f.ep = r.ep /\ f.reward = r.reward

LEMMA LoopStep == TypeOK /\ PolicyInv /\ SimInv /\ LoopInv /\ [Next]_vars => LoopInv'
  <1> SUFFICES ASSUME TypeOK, PolicyInv, SimInv, LoopInv, [Next]_vars PROVE LoopInv'
    OBVIOUS
  <1>1. CASE StartJob
    BY <1>1 DEF StartJob, LoopInv
  <1>2. CASE EndJob
    BY <1>2 DEF EndJob, LoopInv
  <1>3. CASE Serve \/ EndTraining
    BY <1>3 DEF Serve, EndTraining, LoopInv
  <1>4. CASE EndEval
    BY <1>4 DEF EndEval, simVars, LoopInv
  <1>5. CASE Merge
    <2>1. ASSUME NEW r \in r1, r.saved, r.reward >= 0
          PROVE  \E f \in Kept : f.job = job /\ f.worker = r.worker /\ f.ep = r.ep /\ f.reward = r.reward
      <3>1. r \in collected /\ r \in Results
        BY <1>5 DEF Merge, LoopInv, TypeOK, SimType
      <3>2. r.round = "round1" /\ Sound(r, r.worker)
        BY <1>5, <3>1
        DEF Merge, PolicyInv, Control, SimInv, CollectedInv, JsonInv, Results
      <3>3. PICK f \in traj : /\ Named(f, r.round, r.worker, r.ep, Rounded(r.reward))
                              /\ f.job = job
                              /\ f.reward = r.reward
                              /\ f.whole
        BY <2>1, <3>2 DEF Sound, Present
      <3>4. Rounded(r.reward) >= 0
        BY <2>1, <3>1 DEF Rounded, Results
      <3> QED
        BY <3>2, <3>3, <3>4 DEF Named, Kept
    <2> QED
      BY <1>5, <2>1 DEF Merge, LoopInv
  <1>6. CASE Train
    BY <1>6 DEF Train, jobVars, simVars, LoopInv
  <1>7. CASE \E w \in Workers : Simulate(w)
    BY <1>7 DEF Simulate, jobVars, LoopInv
  <1>8. CASE UNCHANGED vars
    BY <1>8 DEF vars, jobVars, simVars, LoopInv
  <1> QED
    BY <1>1, <1>2, <1>3, <1>4, <1>5, <1>6, <1>7, <1>8
    DEF Next, JobStep, ServeFails, Compare, LeaveTraining, LoseJob, AllDone

IInv == TypeOK /\ PolicyInv /\ SimInv /\ LoopInv

\* The inductive invariant of the flywheel.
THEOREM InvariantHolds == Spec => []IInv
  <1>1. Init => LoopInv
    BY DEF Init, LoopInv
  <1> QED
    BY <1>1, TypeInit, TypeStep, PolicyInit, PolicyStep, SimInvInit, SimStep, LoopStep, PTL
    DEF Spec, IInv

\* However many workers share the node, of two that start Kit at once one has given up the
\* lock, and the lock is never left with a worker that is dead or has gone on to play.
THEOREM KitIsLocked == Spec => []KitStartsAlone
  <1>1. IInv => KitStartsAlone
    BY DEF IInv, SimInv, KitInv, KitStartsAlone, Booting, TypeOK, SimType
  <1> QED
    BY <1>1, InvariantHolds, PTL

\* What the driver compares was played in that round of this job, once per episode, and
\* the trajectories named in it are whole, whichever processes were killed.
THEOREM ResultsAreFresh == Spec => []ResultsFresh
  <1>1. ASSUME IInv PROVE ResultsFresh
    <2>1. ASSUME NEW r \in collected
          PROVE  /\ r.round = IF pc \in {"eval", "merge"} THEN round ELSE "round1"
                 /\ r \in Results
                 /\ json[r.worker][r.round] # NoFile
                 /\ r \in json[r.worker][r.round]
                 /\ Sound(r, r.worker)
                 /\ \A s \in json[r.worker][r.round] : s.ep = r.ep => s = r
      BY <1>1 DEF IInv, TypeOK, SimType, SimInv, CollectedInv, JsonInv, Results
    <2>2. ASSUME NEW r \in collected, NEW s \in collected, s.worker = r.worker, s.ep = r.ep
          PROVE  s = r
      BY <2>1, <2>2
    <2> QED
      BY <2>1, <2>2 DEF ResultsFresh, Sound, Present
  <1> QED
    BY <1>1, InvariantHolds, PTL

\* The policy that round 2 is evaluated with was trained in this job, on every rewarded
\* episode that its round 1 reported.
THEOREM LoopCloses == Spec => []FlywheelCloses
  <1>1. ASSUME IInv PROVE FlywheelCloses
    BY <1>1 DEF IInv, PolicyInv, TrainInv, LoopInv, FlywheelCloses, Policy
  <1> QED
    BY <1>1, InvariantHolds, PTL

----------------------------------------------------------------------------
(* The jobs implement PolicyLoop. *)

\* What PolicyLoop sees of the program counter.
Stage ==
  CASE pc = "idle" -> "off"
    [] pc = "serve" -> "load"
    [] pc = "eval" -> "judge"
    [] pc = "merge" -> "mix"
    [] OTHER -> "learn"

LEMMA StageIs ==
  /\ pc = "idle" => Stage = "off"
  /\ pc = "serve" => Stage = "load"
  /\ pc = "eval" => Stage = "judge"
  /\ pc = "merge" => Stage = "mix"
  /\ pc = "train" => Stage = "learn"
  BY DEF Stage

LEMMA StageNext ==
  /\ pc' = "idle" => Stage' = "off"
  /\ pc' = "serve" => Stage' = "load"
  /\ pc' = "eval" => Stage' = "judge"
  /\ pc' = "merge" => Stage' = "mix"
  /\ pc' = "train" => Stage' = "learn"
  BY DEF Stage

LEMMA LoopStutter ==
  ASSUME UNCHANGED <<pc, job, round, served, collected, r1, data>>
  PROVE  UNCHANGED Loop!vars
  BY DEF Loop!vars

LEMMA LoopBegin ==
  ASSUME StartJob
  PROVE  Loop!Next
  <1>1. /\ pc = "idle" /\ pc' \in {"serve", "train"} /\ job' = job + 1 /\ round' = "round1"
        /\ UNCHANGED <<served, collected, r1, data>>
    BY DEF StartJob, simVars
  <1>2. Stage = "off" /\ Stage' \in {"load", "learn"}
    BY <1>1, StageIs, StageNext
  <1>3. Loop!Begin
    BY <1>1, <1>2 DEF Loop!Begin, Stage
  <1> QED
    BY <1>3 DEF Loop!Next

LEMMA LoopEnd ==
  ASSUME IInv, pc # "idle", EndJob
  PROVE  Loop!Next
  <1>1. /\ pc' = "idle" /\ UNCHANGED <<job, round>>
        /\ served' = {} /\ collected' = {} /\ r1' = {} /\ data' = {}
    BY DEF EndJob, EndCluster
  <1>2. Stage # "off" /\ Stage' = "off"
    BY <1>1, StageIs, StageNext DEF IInv, TypeOK, JobType
  <1>3. Loop!End
    BY <1>1, <1>2 DEF Loop!End, Stage
  <1> QED
    BY <1>3 DEF Loop!Next

LEMMA LoopLoad ==
  ASSUME IInv, Serve
  PROVE  Loop!Next
  <1>1. /\ pc = "serve" /\ pc' = "eval" /\ collected' = {} /\ UNCHANGED <<job, round, r1, data>>
    BY DEF Serve, Fresh
  <1>2. PICK c \in ckpt[round] : served' = {c.of}
    BY DEF Serve
  <1>3. round = "round2" => c.of = [job |-> job, data |-> data]
    BY <1>1, <1>2 DEF IInv, PolicyInv, Control, TrainInv, Policy
  <1>4. Stage = "load" /\ Stage' = "judge"
    BY <1>1, StageIs, StageNext
  <1>5. Loop!Load
    BY <1>1, <1>2, <1>3, <1>4 DEF Loop!Load, Stage
  <1> QED
    BY <1>5 DEF Loop!Next

LEMMA LoopJudged ==
  ASSUME EndEval
  PROVE  Loop!Next
  <1>1. /\ pc = "eval" /\ pc' = "merge" /\ round = "round1" /\ r1' = collected /\ served' = {}
        /\ UNCHANGED <<job, round, collected, data>>
    BY DEF EndEval, Evaluated, simVars
  <1>2. Stage = "judge" /\ Stage' = "mix"
    BY <1>1, StageIs, StageNext
  <1>3. Loop!Judged
    BY <1>1, <1>2 DEF Loop!Judged, Stage
  <1> QED
    BY <1>3 DEF Loop!Next

LEMMA LoopMix ==
  ASSUME IInv, IInv', Merge
  PROVE  Loop!Next
  <1>1. /\ pc = "merge" /\ pc' = "train" /\ round' = "round2"
        /\ UNCHANGED <<job, served, collected, r1>>
    BY DEF Merge, simVars
  <1>2. Stage = "mix" /\ Stage' = "learn"
    BY <1>1, StageIs, StageNext
  <1>3. Loop!Taught(data')
    <2>1. \A r \in r1 : (r.saved /\ r.reward >= 0) =>
            \E f \in data' : f.job = job /\ f.worker = r.worker /\ f.ep = r.ep /\ f.reward = r.reward
      BY <1>1 DEF IInv, LoopInv
    <2>2. \A f \in data' : f.whole /\ f.reward >= -5
      BY DEF IInv, PolicyInv, CleanData
    <2> QED
      BY <2>1, <2>2 DEF Loop!Taught
  <1>4. Loop!Mix
    BY <1>1, <1>2, <1>3 DEF Loop!Mix, Loop!Taught, Stage
  <1> QED
    BY <1>4 DEF Loop!Next

LEMMA LoopLearned ==
  ASSUME IInv, EndTraining
  PROVE  Loop!Next
  <1>1. /\ pc = "train" /\ pc' = "serve" /\ script = "03"
        /\ UNCHANGED <<job, round, served, collected, r1, data>>
    BY DEF EndTraining, simVars
  <1>2. round = "round2"
    BY <1>1 DEF IInv, PolicyInv, Control
  <1>3. Stage = "learn" /\ Stage' = "load"
    BY <1>1, StageIs, StageNext
  <1>4. Loop!Learned
    BY <1>1, <1>2, <1>3 DEF Loop!Learned, Stage
  <1> QED
    BY <1>4 DEF Loop!Next

\* A worker's results are told at once, when its process is over.
LEMMA LoopTell ==
  ASSUME IInv, NEW w \in Workers, pc = "eval", UNCHANGED jobVars, Collect(w, round)
  PROVE  Loop!Next
  <1>1. /\ proc[w] = "ended"
        /\ collected' = IF json[w][round] = NoFile THEN collected ELSE collected \cup json[w][round]
        /\ UNCHANGED <<pc, job, round, served, r1, data>>
    BY DEF Collect, ResultsFile, jobVars
  <1>2. round \in Rounds
    BY FlywheelAssumption DEF IInv, TypeOK, JobType
  <1>3. \A r \in collected : r.worker # w
    BY <1>1 DEF IInv, SimInv, CollectedInv
  <1>4. collected \subseteq collected'
    BY <1>1
  <1>5. ASSUME NEW r \in collected' \ collected
        PROVE  /\ r.worker = w /\ r.job = job /\ r.round = round
               /\ \A s \in collected' \ collected : s.ep = r.ep => s = r
    <2>1. json[w][round] # NoFile /\ collected' = collected \cup json[w][round]
      BY <1>1, <1>5
    <2>2. \A x \in json[w][round] :
            x.round = round /\ Sound(x, w) /\ \A s \in json[w][round] : s.ep = x.ep => s = x
      BY <1>2, <2>1 DEF IInv, SimInv, JsonInv
    <2> QED
      BY <2>1, <2>2 DEF Sound
  <1>6. Stage = "judge" /\ Stage' = "judge"
    BY <1>1, StageIs, StageNext
  <1>7. Loop!Tell(w)
    BY <1>1, <1>3, <1>4, <1>5, <1>6 DEF Loop!Tell, Stage
  <1> QED
    BY <1>7 DEF Loop!Next

LEMMA LoopNext == IInv /\ IInv' /\ [Next]_vars => [Loop!Next]_(Loop!vars)
  <1> SUFFICES ASSUME IInv, IInv', [Next]_vars PROVE Loop!Next \/ UNCHANGED Loop!vars
    OBVIOUS
  <1>1. CASE StartJob
    BY <1>1, LoopBegin
  <1>2. CASE EndJob /\ pc # "idle"
    BY <1>2, LoopEnd
  <1>3. CASE Serve
    BY <1>3, LoopLoad
  <1>4. CASE EndEval
    BY <1>4, LoopJudged
  <1>5. CASE Merge
    BY <1>5, LoopMix
  <1>6. CASE Train
    BY <1>6, LoopStutter DEF Train, simVars, jobVars
  <1>7. CASE EndTraining
    BY <1>7, LoopLearned
  <1>8. ASSUME NEW w \in Workers, Simulate(w) PROVE Loop!Next \/ UNCHANGED Loop!vars
    <2>1. CASE Collect(w, round)
      BY <1>8, <2>1, LoopTell DEF Simulate
    <2>2. CASE ~Collect(w, round)
      <3>1. collected' = collected
        BY <1>8, <2>2
        DEF Simulate, WorkerStep, TakeLock, GiveUp, EndBoot, SkipBoot, EndEpisode, LoseEpisode,
            WriteResults, Exit, Kill, KillSaving, KillReporting, Ended
      <3> QED
        BY <1>8, <3>1, LoopStutter DEF Simulate, jobVars
    <2> QED
      BY <2>1, <2>2
  <1>9. CASE UNCHANGED vars
    BY <1>9, LoopStutter DEF vars, simVars, jobVars
  <1> QED
    BY <1>1, <1>2, <1>3, <1>4, <1>5, <1>6, <1>7, <1>8, <1>9
    DEF Next, JobStep, ServeFails, Compare, Evaluated, LeaveTraining, LoseJob, AllDone

\* The jobs close the loop step by step: whatever processes are killed and jobs are lost,
\* and whatever earlier jobs have left, round 1 is judged by its own results, round 2
\* learns from all it rewarded and nothing torn, and judges what it has learned.
THEOREM ImplementsPolicyLoop == Spec => LoopSpec
  <1>1. Init => Loop!Init
    BY StageIs DEF Init, SimInit, Loop!Init, Stage
  <1> QED
    BY <1>1, InvariantHolds, LoopNext, PTL DEF Spec, LoopSpec, Loop!Spec
=============================================================================
