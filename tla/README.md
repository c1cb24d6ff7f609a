# TLA+ models of the kubernetes-engine-samples programs

This directory holds TLA+ specifications of those programs of the repository
that run a protocol of their own: several processes, shared state outside them,
and calls that can fail half-way. TLC checks them on small instances and TLAPS
proves the most important properties for every value of the constants.
`PROJECT.json` ties each definition to the lines it models and lists the runs,
the mutants that show each property is able to fail, the hazards and the theorems.

## Inventory

Most of the repository is declarative (manifests, Terraform) or consists of
stateless tutorial servers. The programs with a protocol are these.

| Part | State | Operations | Hard behaviour | What makes it correct |
|---|---|---|---|---|
| Batch work queue, `batch/aiml-workloads/src/rediswq.py` | two Redis lists, lease keys with a TTL | `empty`, `lease`, `complete` | each is several Redis commands; leases run out under live workers; Spot nodes are reclaimed | nothing is forgotten, no item has two workers, workers leave only when all is done |
| Batch worker, `worker.py`, `model_training.py` | item, checkpoint path, in-memory model; checkpoint files and `report.txt` on a shared volume | load, fit, save, report | a crash between any two; a truncated checkpoint | no half-written checkpoint is loaded, nothing learnt is forgotten, one report per dataset |
| Session dispatcher, `ai-ml/anthropic-agent-sandbox/src/dispatcher/main.py` | locals of one dispatch; its memory is labels on SandboxClaims | poll, reap, stop, create, POST, terminate | every call may fail or lose its answer; a rolling update overlaps two dispatchers | one claim per session, pods work for the session of their claim, attempts are bounded, items are served or stopped |
| Pod entrypoint, `src/worker/entrypoint.py` | dispatched or not | one POST, then `exec ant` | retries of a POST it has accepted | accepts exactly one session |
| Warm pool autoscaler, `src/stats-adapter/main.py` | `last_target` | read stats, publish, patch | a patch whose answer is lost; restarts; other writers of the field | the pool follows the number of sessions |
| HPA configuration recommender, `cost-optimization/hpa-config-recommender` | a simulated deployment, row by row; the best plan so far | validate, simulate and compare plans | window boundaries, start-up latency, rounding | peaks are held, headroom suffices, the plan recommended covers the usage, and none saves more than the rounding can hide |
| Physical-AI simulation, `ai-ml/physical-ai-on-gke/models/pi05`: `franka_env.py`, `sim_worker.py`, `03_serving_and_sim_eval.py` | start-up lock file, results in /tmp, trajectories on the volume | wait for the lock, boot, play, save, report, collect, merge | lock time-outs, processes killed while they write, files of earlier rounds and jobs | a round uses its own results, only whole trajectories are trained on, every round ends |
| Physical-AI fine-tuning, `02_vla_finetuning.py`, `util.py`, `policy_server.py` | Ray Train run directory, checkpoint files on the volume | clear, resume, train, report, copy, serve | a run that could not be removed, failed attempts, a job lost in a copy | a policy is of this job or is reported as skipped; round 2 learns from round 1 |
| LeRobot datasource, `tools/lerobot_datasource.py` | a plan of row ranges; per read task the parquet rows, one decoder per camera, three buffers | slice, group, merge; read, seek, advance, batch, pad chunks; cancel | files that change at different episodes per camera, buffers that are flushed at different moments, a cancellation inside the decoder | every row is read once, the columns of a batch belong together, no frame from ahead, no false alarm about truncated files |
| Smaller programs (VPA exporter, KEDA consumer, cost estimator, whereami, hello apps, model servers) | little | one handler each | — | — |

How they interact: the batch workers share only Redis and the volume. The
dispatcher, the pods and the adapter share no memory either: the control plane's
work queue, the SandboxClaims with their labels, and the warm pool's `replicas`
connect them. The Physical-AI jobs run one after the other and meet on a
volume: job 02 leaves the checkpoint that job 03 serves to its simulation workers,
whose trajectories job 03 trains on. The LeRobot datasource feeds those trainings
through Ray Data and shares nothing with them; its read tasks share nothing with
each other.

## Modules

| Module | Models |
|---|---|
| `ClaimOnce` | abstract: what the batch tutorial promises of its queue |
| `WorkQueue` | `rediswq.py`, `worker.py`, `model_training.py`, `queue-jobs.sh`; refines `ClaimOnce` |
| `MCWorkQueue` | values for TLC |
| `WorkQueueProofs` | theorems about `WorkQueue`, with the refinement |
| `SandboxLease` | abstract: what a session is promised by its dispatcher, without claims, labels and calls |
| `SandboxDispatch` | dispatcher, entrypoint, sandbox controller, control plane, users; refines `SandboxLease` |
| `MCSandboxDispatch` | symmetry for TLC |
| `SandboxDispatchProofs` | theorems about `SandboxDispatch`, with the refinement |
| `WarmPoolScaler` | stats-adapter (its cfgs run the module itself) |
| `WarmPoolScalerProofs` | theorems about `WarmPoolScaler` |
| `HpaSimulation` | `run_workload_simulation.py` of the HPA recommender |
| `MCHpaSimulation` | plans and usage for TLC |
| `HpaSimulationProofs` | theorems about `HpaSimulation` |
| `SimEval` | simulation workers: the Kit start-up lock, episodes, results and trajectory files |
| `Finetune` | one Ray Train run with its run directory and the copied checkpoint |
| `PolicyLoop` | abstract: a job that judges, learns and judges again, without processes and files |
| `Flywheel` | composes both: jobs 02 and 03 over one volume; refines `PolicyLoop` |
| `MCFlywheel` | what earlier jobs have left, and the jobs to come, for TLC |
| `FlywheelProofs` | theorems about `Flywheel`, with the refinement |
| `LeRobotPlan` | `plan()` of the LeRobot datasource: partitionings, grouping, merging |
| `RowStream` | abstract: the rows of a task's segments in order and in batches, without tables, decoders and buffers |
| `LeRobotRead` | extends `LeRobotPlan` with a read task, and with cancellation; refines `RowStream` |
| `MCLeRobotRead` | four datasets and the ways to read them, for TLC |
| `LeRobotPlanProofs`, `LeRobotReadProofs` | theorems about both |
| `LeRobotStreamProofs` | the refinement of `RowStream` |

### WorkQueue

One action is one Redis command or one file operation; `pc[w]` says which comes
next. `empty()` is `FirstLen` and `SecondLen` (the `and` skips the second LLEN),
`lease()` is `Pop` or `PopTimeout` and then `SetLease`, the trainer is `LoadModel`
or `LoadFails`, `FitAndOpen`, `DumpModel`, `Report`, and `complete()` is `Lrem`
and `DelLease`. `Crash` is a preemption, `Start` the restart of the container.
The processing list is a bag, because LREM ignores order; lease keys are a set,
because nothing reads the session id in them; a model or a checkpoint is the
set of datasets it was fitted on. Weights and accuracies are left out. `torn`
holds the checkpoint files that were opened (truncated) and not yet dumped.
The loss of Redis itself, or of the volume, is not modelled.

`queue-jobs.sh` runs once before the Job is created; a second run is `QueueJobs`.
rediswq.py:27 assumes that items are unique, so the properties about two
workers are stated for `repushes = 0`. `NothingLost` and `OncePerPush` are not.

### SandboxDispatch

One action is one call. `List`, then one `Reap` per listed claim, are
`reap_stale_claims`; `Stop` or `Create` follow from the count; `Ready` reads the
pod's address; `Post…` are the attempts of `post_with_retry`; `Terminate` is the
except clause. Each call may fail (`CallRaises`, `ReadyRaises`, `NoAddress`,
`PostLost`), and a POST may be accepted and its answer lost (`PostAnswerLost`).
A claim is its session label, its count label and its creator; the creator stands
for the generated name: the same dispatcher cannot have two claims of one session,
because it reaps before it creates (`OneClaimEach`, proved for any number of
dispatchers). When another process
deletes a claim a dispatcher refers to, the reference becomes `None`: deleting it
then raises 404 (`ReapRaises`), and the wait for its pod runs out (`ReadyTimeout`).

Not in the repository, and modelled from the calls the code makes and from its
comments: the control plane (an item is queued, offered, aged once it was
offered for `--reclaim-older-than-ms`, acked by `ant`, or stopped), the sandbox
controller (`Bind`; deleting a claim gives its pod's place to a fresh one), and
`ant` (`Ack`, `WorkerExits`; it exits if its item cannot be acknowledged).
A new prompt to an idle session queues a new item of that session.

### WarmPoolScaler

`Stats`, `WriteGauge`, then `Patch`, `PatchAnswerLost` or `SkipPatch`, then
`Sleep`. `TickFails` is a call that raises and did nothing. `Deploy` is `make
deploy`, which applies the manifest with its `replicas: 2` and does not restart
an unchanged adapter. Only the `--direct-patch` mode is modelled; without it the
adapter only publishes. `work.stats` is one number, `depth + pending`.

### HpaSimulation

`p` is the plan being played, `row` the row. `SkipInvalid` is a plan that
`_is_plan_valid` refuses; `PlayVpa` the branch for the VPA plan; `BeginRows` the
starting replicas and the fresh arrays; each `PlayRow` one iteration of the loop;
`RejectRow` its early returns; each `SaveRow` one row of `_calculate_savings`, which
takes whole columns; `Compare` the mean of the savings and the loop over the results.
The usage columns are chosen once, in `Init`. The process pool works on copies and its
results are read in the order of the plans, so playing them in order is the same.

CPU is a whole number of a small unit, ratios are hundredths. Five things are not
exact in the code, and so have more than one outcome in the model:

* `round(_, 2)` of the metric goes to a nearest hundredth, to either one at half
  way (`Metrics`);
* `metric / target` of two decimals can come out a little above a whole number,
  e.g. 2.1 / 0.7, and the ceiling then gives one replica more (`Scaled`);
* the usage is a float16 (`convert_data_types`), and in a DMR plan the request is
  the mean of such a column, a float16 too: with the pinned numpy 1.26 their
  quotient is a float16 and can lose a 2048th, so the ceiling gives one replica less
  (`Starts`, `CoveredInHalf`). Such a plan is short in its first rows, and with
  CPU_CLASH_COUNT_THRESHOLD = 0 it is rejected;
* the savings of a row are rounded twice, the CPU to thousandths and the sum with the
  memory at its price to hundredths (`CpuSavings`, `Savings`), each time to either
  neighbour at half way; the memory itself is rounded up to whole MiB, which
  `MemRequest` already is, as the requests of all plans are whole;
* the mean of a column is a float: two columns with the same sum may compare either
  way, but equal columns have equal means (`Means`).

The plans are compared by these means and nothing else. So two whose real savings
differ by less than the rounding tie, and the first of them is recommended although the
other is cheaper; the run reaches such states. `BestUpToRounding` says how much the
rounding can hide: 0.011 CPUs a row, from half a hundredth and half a thousandth on
either side. `gain` is a history variable with the savings before any rounding.

What the plans are (percentiles, slopes) and what the workload requests today are inputs.
The memory columns are float32 and `n * request` is a float product; noise in
these, where it could decide a comparison with the usage (:203) or a rounding, is left out.
No property says that the replicas settle: rounding to two digits makes them flap
under steady usage (e.g. 20 and 19 replicas at target 0.40, usage 7.7, request 1).

### Flywheel

`SimEval` is what the processes of one round do. `TakeLock` and `GiveUp` are the two
ways out of the wait for the flock (900 s, then the worker starts anyway). `EndBoot` is
the end of `__init__`: Isaac Sim's environment, or `_MockFrankaEnv`, which
`except (ImportError, Exception)` (franka_env.py:357) puts in its place after *any* failure,
also of a worker that holds the lock and starts alone, or on an image without Isaac.
Neither the results nor the trajectories tell which of the two it was, so the model does
not either, and no property says that rewards come from the simulator. `SkipBoot` is a
lock file that cannot be opened, which is inside that `try`. `EndEpisode` saves the trajectory and remembers the result;
`LoseEpisode` is an episode whose first query fails; `WriteResults` the JSON file in
/tmp; `Exit` the end of `env.close()`, cut short by an alarm. `Kill`,
`KillSaving` and `KillReporting` are `timeout 1200` or a crash: the kernel frees the
lock, a file that was being written is torn. `Collect` is `run_sim_task` reading the
file. A reward counts ten-thousandths and `Rounded` gives the three decimals of it
that a file name keeps, because `build_mixed_dataset` selects by the name. A file has
its own round, worker, episode and rounded reward in its name, so a later job
overwrites one that agrees in all four (`Put`).

`Finetune` is one `fit()`: `Clear` and `ClearFails` the removal of the run directory
(script 02 ignores its errors, script 03 does not), `SkipTraining` the loop that finds
nothing left to train, `Report` the checkpoint, `Fail` a failed attempt under
`FailureConfig`, `BeginCopy` and `EndCopy` the copy that is served. A checkpoint is the
job that made it and the trajectories it was trained on.

`Flywheel` holds the program counter of a job's driver. `Serve` needs a whole
checkpoint and `ServeFails` ends the job; `Merge` is `build_mixed_dataset`; `LoseJob`
takes driver and cluster away at any moment. Each job has a cluster of its own, so /tmp
and the lock end with it (`EndCluster`), and the volume stays.

### LeRobotPlan, LeRobotRead

The five partitionings are sets of row ranges (`Sequential` … `ByRowBlock`).
`SliceRoot` and `NextRange` are the loop of `_slice` with its contiguity check;
`OpenGroup`, `FillGroup` and `AllGrouped` deal the slices out by `divmod` and merge
neighbours. The union-find of `_slices_by_chain` is stated as the least set closed under
sharing a file.

A task shares nothing with another, so one, chosen by `StartTask`, stands for all.
`OpenSegment` is `_read_segment` up to its loop. For each camera the loop pulls frames
until one reaches the target: `FirstFrame` is the seek, `NextFrame` the decoder,
`NextFile` the change to the file of the next boundary, `Exhaust` the RuntimeError,
`TakeFrame` the end of the search. `FinishRow` adds the task string and yields a full
buffer, `NextTable` slices what is left of a parquet file, `FinishSegment` yields the
rest. Time is counted in frames, so "within half a frame" is equality; a frame is its
file run and its time there; an action chunk is the row whose action ends it.

Cancellation is a KeyboardInterrupt. In Python code it ends the task (`Interrupt`); in
a `read()` of a remote file `_CancelSafeFile` swallows it and pretends the end of the
file (`InterruptRead`), which the check after the packet turns into `_ReadCancelled`
(`StopStream`); in the `read()` of `av.open` there is no such check (`InterruptOpen`).

Which datasets there can be is `RequestsAssumption`: rows, files and times as LeRobot
writes them (`WellWritten`). The number of rows that is sliced is `total_frames` of
`info.json` (:278), the rows of the episodes come from their own table; the code never
compares the two, and the model assumes that the lengths of the episodes add up to
`total_frames`. Decoder, storage and Arrow are external.

`RowStream` is what a task promises. Each row comes once, in order, with its own task
string and one frame of every camera. Which frame, is said of the frame *delivered*
(`KindOf`), not of the row it was looked for: it is the row's own as long as the camera is
in the video file that its stream began with; from the first row in a later file on
(`turn`), it is the row's own or one of an earlier file; and when an episode lacks frames
(`intact` is false) nothing is said of the frames. The second case is real: see below.

## Runs

All runs but those named below check for deadlock.

| Run | Bounds | Shows |
|---|---|---|
| `queue_safety` | 2 workers, 3 datasets, 1 crash, 1 second push | safety of the queue at every interleaving (1.1 million states) |
| `queue_live` | 2 workers, 3 datasets, 1 crash | the Job ends with one report per dataset if nothing crashes; the queue implements `ClaimOnce` in any case, so that no dataset ever has two workers |
| `queue_heal` | 1 worker, 3 datasets, 2 crashes, 1 second push | a second push repairs what crashes orphaned |
| `queue_orphan` | 2 workers, 2 datasets, 1 crash | **violated**: no expired lease ever returns its item |
| `dispatch_pair` | 2 dispatchers, 1 session, 2 pods, limit 2, 2 prompts, 1 fault, 1 crash | no item is stopped too early, and each dispatcher leaves a session at most one claim, even when two overlap |
| `dispatch_live` | 1 dispatcher, 2 sessions, 2 pods, limit 2, 2 attempts per POST, 1 fault | sandboxes are given out as `SandboxLease` says; pods and sessions stay matched; zombies stop; items are served |
| `dispatch_zombies` | 1 dispatcher, 1 session, 4 prompts, limit 3, no fault | **violated**: the fourth prompt of a healthy session is stopped as a zombie |
| `scaler_follow` | 3 loads, 2 faults, 1 lost answer, 1 restart, 1 deploy | the memory is true, the pool follows the load |
| `hpa_rows` | 6 plans, 7 rows, 3 levels of CPU, memory that rises or not, latency 2, window 2, threshold 1 | start-up, headroom, window, rejection, rounded savings and choice of the plan, for 1458 series of usage (531,600 states) |
| `flywheel` | 2 workers, 1 episode, rewards -8 and 4, one failed attempt; both jobs on a new volume, or one on a used volume | results, trajectories and checkpoints are those of the job, which implements `PolicyLoop`; every job ends (236,839 states) |
| `lerobot_read` | 2 cameras, 5 lists of roots, 5 partitionings, blocks of 3, parallelism 0, 1, 3, batches of 1 and 2 | the plan covers and is balanced; a read task implements `RowStream`; frames, chunks and errors are right (22,835 states) |
| `scaler_drain` | 2 loads, 1 lost answer | **violated**: the pool does not drain back |

Why the bounds are enough. Two workers and three datasets make every pair of
Redis commands meet, with an item left for a third round; a crash leaves an
orphan at every stage; the second push makes duplicates of waiting, leased and
finished items. Two pods let a new claim bind while the pod of the old one is
replaced; limit 2 lets a count be carried twice; one fault at any call
followed by a clean dispatch shows what the code recovers from. In the scaler
the loads lie below the minimum, between the bounds and above the maximum.
In the simulation seven rows are the start (two), the first metric, a window that
is not full, and the rows after it is; the levels are below one replica, just above
a whole number of replicas, and at the maximum of the larger plans; the plans make
each way out of a plan happen, ties of savings, means that differ only by float noise, a dearer plan that is
recommended, and a float16 request. The two rows of the start, which only the starting
replicas serve, have the same usage.
In the flywheel two workers are what a lock needs, and a worker that is killed beside
one that ends; the rewards are one whose name shows "-0.001" and one whose name shows
zero although it is not; the used volume holds the run directory and the checkpoint of each
round, and a trajectory torn by a job that was lost. More episodes repeat what one
does: their files have different names. In the LeRobot run `Staggered` changes the file of
one camera inside the run of the other's, `Interleaved` comes back to a file it had
left, `Entangled` makes the chains overlap, `Truncated` lacks a frame, and two roots
meet in the last list; a block of 3 cuts episodes, parallelism 1 and 3 merge slices
and leave a remainder, and batches of 2 are flushed inside and across parquet files.
The `SandboxDispatch` runs do not check deadlock: when prompts and faults are
used up and every item is settled the system rightly waits for ever.

Symmetry is used only in runs without liveness: over workers, and over
dispatchers, sessions and pods.

### Fairness

* `WorkQueue`: a running process takes its next step; the Job controller starts
  its Pods and restarts failed ones (`restartPolicy: OnFailure`); a TTL runs out.
  Preemptions and the operator's second push are never forced.
* `SandboxDispatch`: the dispatcher's loop goes on, pods run their entrypoint,
  the controller binds claims, an unacknowledged item ages. `Poll` is strongly
  fair for each session: the control plane offers no item for ever
  before another; this is an assumption on the external service. Faults,
  crashes, prompts and deletions are never forced. Liveness is for the single
  dispatcher that `deploy/base/dispatcher.yaml` asks for: two that stay alive can
  reap each other's claims for ever and so keep the count from growing.
* `WarmPoolScaler`: the loop goes on; nothing else is promised.
* `Flywheel`: the driver takes its next step, which assumes that a training and a
  deployment of the policy server return. A worker is ended and collected: `timeout
  1200` ends the process, the alarm ends `env.close()`, and the driver waits for each
  task. (`timeout` sends a SIGTERM and no SIGKILL, and `capture_output` waits until the
  pipes are closed: that a worker dies of the one, and leaves no child that holds the
  other, is assumed.) Nothing makes a worker boot, play or report.
  Failed attempts are bounded by `FailureConfig`; losses of jobs by the schedule.

`JobDone` and `Follows` say "eventually, always, provided no crash (no lost
answer, no deploy) has happened": the counters never go back, so the proviso
speaks of the whole behaviour.

## Disagreements between documents and code

1. **Orphaned items** (`queue_orphan`). rediswq.py:82 and :101 speak of other
   workers, or a GC, that pick up an item whose lease has run out. There is no
   such code: `_lease_exists` has no caller. A worker preempted after its pop
   leaves the item in `datasets:processing`, `empty()` counts it, and the Job's
   workers print "Waiting for work" for ever. `RepushHeals` shows that running
   `queue-jobs.sh` again repairs it, because LREM 0 removes every copy.
2. **Healthy sessions stopped** (`dispatch_zombies`). dispatcher/main.py:95 says
   the limit stops zombie items. The count is carried by the claims of a session,
   which nothing deletes while the session is idle, so it counts prompts too.
3. **No drain** (`scaler_drain`). README.md:415 of the sample promises that the
   pool drains back; after a patch whose answer was lost the adapter believes the
   old value and skips the patch that is needed (stats-adapter/main.py:103).

Not a run, because it is a matter of wording: the docstring of `_is_plan_valid`
(run_workload_simulation.py:280) wants the minimum *less than* the maximum, the code
lets them be equal, and has to: the VPA plan has them equal, and `AlwaysRecommends`
fails if it is refused.

Met while modelling the Physical-AI programs, without a run of their own:

* A segment that spans two video files of a camera may keep the last frame of the first
  file for rows of the second, as long as its time is not before their target
  (lerobot_datasource.py:511): times restart with each file. `FramesNeverAhead`
  and `RowStream` therefore allow a frame of an *earlier* file; the docstring of
  `read_lerobot` (:1187) says the frames are pixel-identical to those of lerobot.
* A truncated file that is not the last of its segment is not reported: the stream goes
  on in the next file, and rows get frames of it. `OnlyTruncationExhausts` is an implication.
* The error of `_slices_by_file_group` (:945) recommends CHAIN; for chains that overlap
  (`Entangled`) CHAIN is refused as well, by the check of `_slice`.
* A cancellation inside `av.open` fails the task, where the docstring of `_read` has it
  end quietly (status "cut").
* A row block cuts the chunks at its end although the episode goes on.
* 03_serving_and_sim_eval.py:580 falls back to model.safetensors when there is no
  checkpoint; the policy server then tries to unpickle it, and the job fails.
* 03_serving_and_sim_eval.py:290 speaks of positive rewards; the threshold keeps zero,
  and "-0.000" as well: `TrainedOnWhole` says -5 ten-thousandths.
* README.md:335 and :380 of the sample promise a union with LIBERO;
  `build_mixed_dataset` has the kept trajectories alone.
* The trajectory directory is never emptied, so a job also merges those of jobs before it.
  `FlywheelCloses` says that its own are among them, and not that there are no others.

## Proofs

TLAPS checks the proof modules from nothing. The only assumptions are those
on the constants (`WorkQueueAssumption`, `DispatchAssumption`,
`ScalerAssumption`, `HpaAssumption`, `SimAssumption`, `FlywheelAssumption`,
`RequestsAssumption`, `NoFrameAssumption`), which TLC evaluates in every run of
their modules.

* **WorkQueue.** The invariant is `IInv == TypeOK /\ NothingLost /\
  ReportedBeforeLrem /\ UniqueInv`. `NothingLost` needs to know that a worker
  about to LREM has reported. `SingleHolder`, `ExitMeansDrained` and `NoTornLoad`
  are not inductive: `Unique` adds that a dataset is in one list only and in the
  processing list as long as somebody holds it; `Drained` that the main list
  never fills again, which is why the order of the two LLENs is right;
  `OwnCheckpoint` that the dataset a process's checkpoint is named after is over
  for everybody else, so nobody opens that file again; `CheckpointCurrent` that
  the file knows all the model knew. `ImplementsClaimOnce` maps each step to a
  step of `ClaimOnce` or a stutter, for `MaxRepushes = 0`: `Pop` is `Claim`, `Lrem`
  is `Finish`, `Crash` is `Abandon`, `SecondLen` is `Leave`. `OncePerPush` holds for
  any number of pushes: `OnceInv` counts the copies of a dataset in the main list, the
  workers that have still to report it and its reports, which together never exceed the
  pushes. A copy that a crash leaves in the processing list is not counted, because
  nothing returns it to the main list.
* **SandboxDispatch.** `IInv` adds to the properties that counts are earned
  (`CountsEarned`: no count exceeds the sandboxes made), that what a dispatcher
  holds is about its own session (`OwnSession`), and, for a single dispatcher, that
  all claims of the session are among those it is reaping, that it posts to the
  pod of its own claim, and that it never dispatches a stopped session
  (`LoneDispatcher`). `InvariantHolds` proves it; the property theorems follow.
  `CleanAttemptsBounded` needs two more parts, kept while no call failed: `Fresh` (the
  pod of a new claim still listens, so the POST is answered and `sb.terminate()` is
  never reached), and `Carried` (the number of sandboxes made is the count of the
  session's claim, or is held by the loop that deletes that claim, until the item is
  stopped). Two results hold for any number of dispatchers: `StopOnlyAfterMax`, and
  `OneClaimEach`, which needs that the list a dispatcher works through still names
  every claim of its own (`OwnListed`). `ImplementsLease` is for a single one: `Create`
  is `Make`, `Bind` is `Bind`, the POST that the pod accepts is `Begin`, the end of its
  worker `End`, a deletion of the claim, by the reaper or by `terminate()`, is `Drop`, and `Stop` is
  `GiveUp`; all other calls, failures, retries and crashes are stutters. With two
  dispatchers it is false: the session then has a claim of each.
* **WarmPoolScaler.** `TypeOK` is inductive as it stands and `MemoryIsTrue`
  together with it: a patch writes the pool and the memory alike, a restart empties
  the memory, and the steps that write only the pool are counted in `lost` and
  `deploys`; no other step writes either.
* **HpaSimulation.** All seven properties of the run are proved, under
  `HpaAssumption`. `Inv` adds to `TypeOK` that no row desires more than the plan's
  maximum, which bounds the window's maximum; that such a maximum exists is proved
  from the well-foundedness of the numbers (`LargestIs`). `StartInv` says what the
  starting replicas cover and that they last until row Latency; `HeadInv` that each
  row follows the desire of Latency rows before and that the desire covers the usage
  up to half a hundredth; `CoverInv` that the clash counter is the number of short
  rows played; `ResultInv` that only plans already played have a result, that a
  good VPA plan leaves a recommendation behind, and (`BestInv`) that the best is the
  first with the highest mean; `CloseInv` that the sum of a column is as `Close` to the
  savings before rounding as the rows added so far allow. A row is close because of the
  two roundings (`SavingsClose`, `RoundingArithmetic`), rows add up (`CloseAdds`), and of
  two close columns the one with the larger sum cannot save much less
  (`CloseCompares`).
* **Flywheel.** The safety of the policy rests on `PolicyInv`: what a driver holds at each
  program counter (`Control`), that what it merged is clean (`CleanData`), and that what
  the run directory, `result` and the copy hold was trained by this job, unless
  `skipped` (`TrainInv`). Results are traced through the three places they pass:
  the process (`PlayedInv`), the file (`JsonInv`), the driver (`CollectedInv`). A
  trajectory that a result names stays whole because nobody writes that name again in
  this job. `KitInv` says that a worker boots only if it holds the lock or
  gave up waiting for it, and that the lock is held by one that boots, so of two that
  boot at once one gave up. `LoopInv` carries the results of round 1 through
  merge, training and copy to the policy of round 2. `ImplementsPolicyLoop` maps `Collect`
  to `Tell`, `Serve` to `Load`, `EndEval`, `Merge` and `EndTraining` to `Judged`, `Mix` and
  `Learned`, and every end of a job to `End`; all steps of workers before their results
  are collected, and all of a training, are stutters. It adds to the invariants what
  happens over time: a worker's results come once, all together, and none is lost or
  replaced in its round.
* **LeRobotPlan.** `PlanInv`: the slices of a root lie one behind the other without a
  gap from row 0 to `Edge`, and what is still to be checked begins there (`SliceInv`); the
  segments of the tasks, read in order, lie one behind the other too and cover the slices
  taken so far (`TaskInv`); and the sizes dealt out add up to the number of
  slices (`DealInv`), which needs the division with its remainder. Every row is then in
  a segment, and in no other because two that hold it would overlap. `OwnerInv` adds
  that a slice lies in a segment of the task whose turn it was, so the slices of a
  finished task are an interval as long as its share (`PlanBalanced`).
* **LeRobotRead.** `ReadInv` says of the buffers that task strings, frames and the
  rows (sliced, or still in the table from `first` on) are all those from `Base` on, and
  that everything before `Base` was yielded (`AlignInv`); it is what makes the columns
  of a batch belong together. `CurInv` says that a stream which has all its frames has
  not passed the file of the row at hand, nor in that file its frame. From row to
  row that needs `NextRow`: the file run of the next row is the same, and its frame then
  lies later, or is a later one; which is where `WellWritten` comes in. Finding no
  further file then means that a frame is missing (`ExhaustStep`). The chunk of a row
  ends at `ChunkStop`, proved of the code's search in `ChunkEndIs`; that a segment
  ends where an episode does, except for row blocks, comes from `PlanInv`.
  `ImplementsRowStream` maps `OpenSegment` to `Open`, a yield (a `FinishRow` that fills the
  buffer, or a `FinishSegment` that finds rows left) to `Hand`, `FinishTask` to `Finish`,
  and every way to fail or be cancelled to `Break`; the search for frames, the change of
  tables and files, and rows that are only buffered, are stutters. `AlignInv` gives the rows of a
  batch and their columns, and `ShotInv` (with `FrameInv`) whose frame each one is; that the batch is full needs `NotFull` beside it: between
  two rows the buffer holds less than a batch, so a row fills it exactly, and what is left
  at the end of a segment fits into one.

Only model-checked: the liveness properties (`JobDone`, `RepushHeals`,
`ZombieStopped`, `Served`, `Follows`, `JobEnds`), since fairness is out of the prover's
reach. Every safety and action property of a passing run is proved, and all four
abstract specifications are shown to be implemented, by TLC on the run's instance and
by proof for all: `ClaimOnce` for a batch that is pushed once, `SandboxLease` for one
dispatcher, `PolicyLoop` and `RowStream` without a condition. Some theorems state
properties no run lists, because the abstract specification contains them there:
`SingleHolder`, `OneClaim`, `StopFreesPods`, `BatchesAligned`.

## Not modelled

Every part left out is listed in `PROJECT.json` with its reason. In short:
manifests and Terraform have no behaviour to check; the small tutorial servers
keep no state; numerical code (model training, cost arithmetic) is abstracted. Of the
Physical-AI programs the physics and rendering, losses and validation, memory headroom,
the staging of models, the mirror sync, and Ray's own retry of a task whose node is lost
are left out; so is the order in which Ray Data hands out blocks, which is Ray's.

## Plan

1. Done: the batch queue with its workers, the session dispatcher, the autoscaler, the
   simulation of the HPA recommender, the Physical-AI jobs, the LeRobot datasource,
   and their proofs.
2. Left: a module that composes dispatcher and autoscaler through the pods of the pool;
   the pending stream of the VPA exporter.
3. Left to prove: what `ClaimOnce` becomes when the batch is pushed again, and what
   `SandboxLease` becomes for two dispatchers.
