------------------------------- MODULE SimEval -------------------------------
(***************************************************************************)
(* The simulation workers of the physical-ai flywheel (physical-ai-on-gke, *)
(* models/pi05): the processes run_sim_eval fans out (tools/sim_worker.py),*)
(* the lock that lets one at a time through the start of Kit               *)
(* (tools/franka_env.py), the results each leaves in /tmp of the node and  *)
(* the trajectories it saves on the checkpoint volume.                     *)
(*                                                                         *)
(* One node with several workers, as the manifest of job 03 has it.        *)
(* `timeout 1200` may end a process at any moment, and so may a crash;     *)
(* both leave what it has written and free its lock.  A reward counts      *)
(* ten-thousandths, of which a file name keeps three decimals; the steps   *)
(* of an episode, GIFs and latencies are left out.                         *)
(***************************************************************************)
EXTENDS Integers, SequencesExt

CONSTANTS Workers,    \* range(sim_workers_count)
          Rounds,     \* the round names
          Episodes,   \* --episodes
          Rewards,    \* what an episode can add up to
          Nobody,     \* nobody holds the lock
          NoFile      \* no results file, or one that json.load cannot read

ASSUME SimAssumption ==
  /\ Episodes \in Nat \ {0}
  /\ Rewards \subseteq Int
  /\ Nobody \notin Workers

VARIABLES
  proc,       \* "none", "waiting", "booting", "playing", "reporting", "closing", "ended";
              \* "collected" once its results are read
  lock,       \* who holds the Kit startup lock
  gaveUp,     \* who went on without it after timeout_s
  played,     \* all_results of the process
  json,       \* the results files in /tmp, per worker and round
  traj,       \* the trajectory files on the volume
  collected   \* the results the driver has read in this round

\* The trajectory files and the results there can be.
Files ==
  [job : Nat, round : Rounds, worker : Workers, ep : Nat, name : Int, reward : Int, whole : BOOLEAN]

Results ==
  [job : Nat, round : Rounds, worker : Workers, ep : Nat, reward : Int, saved : BOOLEAN]

simVars == <<proc, lock, gaveUp, played, json, traj, collected>>

\* The three decimals of the reward in a file name.
Rounded(reward) == (reward + 5) \div 10

SimType ==
  /\ proc \in [Workers -> {"none", "waiting", "booting", "playing", "reporting", "closing",
                           "ended", "collected"}]
  /\ lock \in Workers \cup {Nobody}
  /\ gaveUp \subseteq Workers
  /\ played \in [Workers -> Seq(Results)]
  /\ json \in [Workers -> [Rounds -> (SUBSET Results) \cup {NoFile}]]
  /\ traj \subseteq Files
  /\ collected \subseteq Results

SimInit ==
  /\ proc = [w \in Workers |-> "none"]
  /\ lock = Nobody
  /\ gaveUp = {}
  /\ played = [w \in Workers |-> <<>>]
  /\ json = [w \in Workers |-> [r \in Rounds |-> NoFile]]
  /\ collected = {}

\* The Ray cluster of the job is gone, and with it all but the volume.
EndCluster ==
  /\ proc' = [w \in Workers |-> "none"]
  /\ lock' = Nobody
  /\ gaveUp' = {}
  /\ played' = [w \in Workers |-> <<>>]
  /\ json' = [w \in Workers |-> [r \in Rounds |-> NoFile]]
  /\ collected' = {}
  /\ UNCHANGED traj

\* Mutant: the results of the round before are kept.
FreshKept ==
  /\ proc' = [w \in Workers |-> "waiting"]
  /\ gaveUp' = {}
  /\ played' = [w \in Workers |-> <<>>]
  /\ UNCHANGED <<lock, json, traj, collected>>

\* A round begins: run_sim_task.remote for every worker.
Fresh ==
  /\ proc' = [w \in Workers |-> "waiting"]
  /\ gaveUp' = {}
  /\ played' = [w \in Workers |-> <<>>]
  /\ collected' = {}
  /\ UNCHANGED <<lock, json, traj>>

Booting == {w \in Workers : proc[w] = "booting"}

\* w begins to start Kit.
Boot(w) == proc' = [proc EXCEPT ![w] = "booting"]

\* Mutant: the lock does not exclude.
TakeAnyLock(w) ==
  /\ proc[w] = "waiting"
  /\ lock' = w
  /\ Boot(w)
  /\ UNCHANGED <<gaveUp, played, json, traj, collected>>

TakeLock(w) ==
  /\ proc[w] = "waiting"
  /\ lock = Nobody
  /\ lock' = w
  /\ Boot(w)
  /\ UNCHANGED <<gaveUp, played, json, traj, collected>>

\* timeout_s has passed: the worker starts anyway.
GiveUp(w) ==
  /\ proc[w] = "waiting"
  /\ lock # Nobody
  /\ gaveUp' = gaveUp \cup {w}
  /\ Boot(w)
  /\ UNCHANGED <<lock, played, json, traj, collected>>

Unlock(w) == lock' = IF lock = w THEN Nobody ELSE lock

\* The environment is there: Isaac Sim's, or _MockFrankaEnv after any exception on the way to
\* it. Nothing the worker reports tells which.
EndBoot(w) ==
  /\ proc[w] = "booting"
  /\ proc' = [proc EXCEPT ![w] = "playing"]
  /\ Unlock(w)
  /\ UNCHANGED <<gaveUp, played, json, traj, collected>>

\* The lock file cannot be opened, which is such an exception: Kit is not even tried.
SkipBoot(w) ==
  /\ proc[w] = "waiting"
  /\ proc' = [proc EXCEPT ![w] = "playing"]
  /\ UNCHANGED <<lock, gaveUp, played, json, traj, collected>>

Named(f, r, w, e, name) == f.round = r /\ f.worker = w /\ f.ep = e /\ f.name = name

\* open(traj_path, "wb") and the dump: the file of that name is new, or overwritten.
Put(f) == {g \in traj : ~Named(g, f.round, f.worker, f.ep, f.name)} \cup {f}

Trajectory(w, j, r, reward, whole) ==
  [job |-> j, round |-> r, worker |-> w, ep |-> Len(played[w]) + 1,
   name |-> Rounded(reward), reward |-> reward, whole |-> whole]

\* The episode is over, and is the n-th of its worker.
Played(w, result) ==
  /\ played' = [played EXCEPT ![w] = Append(@, result)]
  /\ proc' = [proc EXCEPT ![w] = IF Len(played[w]) + 1 < Episodes THEN "playing" ELSE "reporting"]

Result(w, j, r, reward, saved) ==
  [job |-> j, round |-> r, worker |-> w, ep |-> Len(played[w]) + 1, reward |-> reward, saved |-> saved]

\* An episode ends, or is broken off by an exception: what it has recorded is saved.
EndEpisode(w, j, r) ==
  /\ proc[w] = "playing"
  /\ \E reward \in Rewards :
       /\ traj' = Put(Trajectory(w, j, r, reward, TRUE))
       /\ Played(w, Result(w, j, r, reward, TRUE))
  /\ UNCHANGED <<lock, gaveUp, json, collected>>

\* The very first query fails: there is nothing to save, and the reward is 0.
LoseEpisode(w, j, r) ==
  /\ proc[w] = "playing"
  /\ Played(w, Result(w, j, r, 0, FALSE))
  /\ UNCHANGED <<lock, gaveUp, json, traj, collected>>

WriteResults(w, r) ==
  /\ proc[w] = "reporting"
  /\ json' = [json EXCEPT ![w][r] = ToSet(played[w])]
  /\ proc' = [proc EXCEPT ![w] = "closing"]
  /\ UNCHANGED <<lock, gaveUp, played, traj, collected>>

\* env.close() returns, raises, or is cut short: by the alarm after 10 s, or by `timeout`.
Exit(w) ==
  /\ proc[w] = "closing"
  /\ proc' = [proc EXCEPT ![w] = "ended"]
  /\ played' = [played EXCEPT ![w] = <<>>]
  /\ UNCHANGED <<lock, gaveUp, json, traj, collected>>

\* `timeout 1200` ends the process, or it crashes.
Ended(w) ==
  /\ proc' = [proc EXCEPT ![w] = "ended"]
  /\ played' = [played EXCEPT ![w] = <<>>]
  /\ Unlock(w)
  /\ UNCHANGED <<gaveUp, collected>>

Kill(w) ==
  /\ proc[w] \in {"waiting", "booting", "playing", "reporting"}
  /\ Ended(w)
  /\ UNCHANGED <<json, traj>>

\* That happens in the middle of a dump: the trajectory is torn.
KillSaving(w, j, r) ==
  /\ proc[w] = "playing"
  /\ \E reward \in Rewards : traj' = Put(Trajectory(w, j, r, reward, FALSE))
  /\ Ended(w)
  /\ UNCHANGED json

\* Or in the middle of the results: whatever the file held is gone.
KillReporting(w, r) ==
  /\ proc[w] = "reporting"
  /\ json' = [json EXCEPT ![w][r] = NoFile]
  /\ Ended(w)
  /\ UNCHANGED traj

\* Mutant: the name of the results file does not tell the rounds apart.
AnyResultsFile(w, r) ==
  IF json[w][r] # NoFile THEN json[w][r]
  ELSE LET left == {q \in Rounds : json[w][q] # NoFile}
       IN IF left = {} THEN NoFile ELSE json[w][CHOOSE q \in left : TRUE]

\* run_sim_task reads the results file: a file that is missing or cannot be read is no results.
ResultsFile(w, r) == json[w][r]

\* Mutant: the driver waits for the results file instead of the process.
CollectFile(w, r) ==
  /\ proc[w] = "ended"
  /\ ResultsFile(w, r) # NoFile
  /\ collected' = collected \cup ResultsFile(w, r)
  /\ proc' = [proc EXCEPT ![w] = "collected"]
  /\ UNCHANGED <<lock, gaveUp, played, json, traj>>

Collect(w, r) ==
  /\ proc[w] = "ended"
  /\ collected' = IF ResultsFile(w, r) = NoFile THEN collected
                  ELSE collected \cup ResultsFile(w, r)
  /\ proc' = [proc EXCEPT ![w] = "collected"]
  /\ UNCHANGED <<lock, gaveUp, played, json, traj>>

WorkerStep(w, j, r) ==
  \/ TakeLock(w) \/ GiveUp(w) \/ EndBoot(w) \/ SkipBoot(w)
  \/ EndEpisode(w, j, r) \/ LoseEpisode(w, j, r) \/ WriteResults(w, r) \/ Exit(w)
  \/ Kill(w) \/ KillSaving(w, j, r) \/ KillReporting(w, r) \/ Collect(w, r)
=============================================================================
