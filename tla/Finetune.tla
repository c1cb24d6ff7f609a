------------------------------ MODULE Finetune -------------------------------
(***************************************************************************)
(* One training of the physical-ai flywheel (physical-ai-on-gke,           *)
(* models/pi05): scripts/02_vla_finetuning.py and run_training of          *)
(* scripts/03_serving_and_sim_eval.py, with checkpoint I/O of              *)
(* tools/util.py.  A Ray Train run leaves its snapshot and checkpoint      *)
(* under vla-finetune-<round>, where a later run of that name finds them;  *)
(* the state.pkl that is served is copied from there.                      *)
(*                                                                         *)
(* All Ray Train workers are one, and an epoch is one step: both jobs have *)
(* one epoch and report once.  What was trained is known by its job and by *)
(* the data it was trained on.  Losses, validation, the learning rate and  *)
(* staging of the base model are left out.                                 *)
(***************************************************************************)
EXTENDS Naturals

CONSTANTS Scripts,      \* "02" and "03"
          MaxFailures   \* FailureConfig(max_failures) of each

VARIABLES
  fit,        \* "off", "clear", "start", "epoch", "reported", "fitted", "failed", "copying",
              \* "copied"
  run,        \* per round: the checkpoint in the run directory, {} if there is none
  ckpt,       \* per round: checkpoint_<round>/state.pkl: {} if there is none, else its
              \* content and whether it is all there
  failures,   \* failed attempts of this fit
  result,     \* result.checkpoint, as a set
  skipped     \* skipped_resumed_complete of the reported metrics

fitVars == <<fit, run, ckpt, failures, result, skipped>>

FitInit ==
  /\ fit = "off"
  /\ failures = 0
  /\ result = {}
  /\ skipped = FALSE

\* A new process, which has trained nothing yet.
NoFit ==
  /\ fit' = "off"
  /\ failures' = 0
  /\ result' = {}
  /\ skipped' = FALSE
  /\ UNCHANGED <<run, ckpt>>

BeginFit ==
  /\ fit' = "clear"
  /\ failures' = 0
  /\ result' = {}
  /\ skipped' = FALSE
  /\ UNCHANGED <<run, ckpt>>

\* The previous run is removed.
Clear(r) ==
  /\ fit = "clear"
  /\ fit' = "start"
  /\ run' = [run EXCEPT ![r] = {}]
  /\ UNCHANGED <<ckpt, failures, result, skipped>>

\* It cannot be: script 02 ignores the error, script 03 lets it end the job.
ClearFails(r, script) ==
  /\ fit = "clear"
  /\ run[r] # {}
  /\ fit' = IF script = "02" THEN "start" ELSE "failed"
  /\ UNCHANGED <<run, ckpt, failures, result, skipped>>

\* resume_would_skip_training: only script 02 loads a checkpoint, and any checkpoint has
\* the only epoch behind it.
WouldSkip(r, script) == script = "02" /\ run[r] # {}

\* Mutant: the skipped training is not reported as such.
SkipSilently(r, script) ==
  /\ fit = "start"
  /\ WouldSkip(r, script)
  /\ fit' = "fitted"
  /\ result' = run[r]
  /\ UNCHANGED <<run, ckpt, failures, skipped>>

SkipTraining(r, script) ==
  /\ fit = "start"
  /\ WouldSkip(r, script)
  /\ fit' = "fitted"
  /\ result' = run[r]
  /\ skipped' = TRUE
  /\ UNCHANGED <<run, ckpt, failures>>

StartEpoch(r, script) ==
  /\ fit = "start"
  /\ ~WouldSkip(r, script)
  /\ fit' = "epoch"
  /\ UNCHANGED <<run, ckpt, failures, result, skipped>>

\* make_checkpoint and report at the end of the epoch.
Report(r, trained) ==
  /\ fit = "epoch"
  /\ fit' = "reported"
  /\ run' = [run EXCEPT ![r] = {trained}]
  /\ UNCHANGED <<ckpt, failures, result, skipped>>

EndEpoch(r) ==
  /\ fit = "reported"
  /\ fit' = "fitted"
  /\ result' = run[r]
  /\ UNCHANGED <<run, ckpt, failures, skipped>>

\* A worker fails: Ray Train starts the attempt over, or fit raises.
Fail(script) ==
  /\ fit \in {"start", "epoch", "reported"}
  /\ failures' = failures + 1
  /\ fit' = IF failures < MaxFailures[script] THEN "start" ELSE "failed"
  /\ UNCHANGED <<run, ckpt, result, skipped>>

\* shutil.copyfile to the stable checkpoint, in two steps.
BeginCopy(r) ==
  /\ fit = "fitted"
  /\ fit' = "copying"
  /\ ckpt' = [ckpt EXCEPT ![r] = {[of |-> c, whole |-> FALSE] : c \in result}]
  /\ UNCHANGED <<run, failures, result, skipped>>

EndCopy(r) ==
  /\ fit = "copying"
  /\ fit' = "copied"
  /\ ckpt' = [ckpt EXCEPT ![r] = {[of |-> c, whole |-> TRUE] : c \in result}]
  /\ UNCHANGED <<run, failures, result, skipped>>

FitStep(r, script, trained) ==
  \/ Clear(r) \/ ClearFails(r, script) \/ SkipTraining(r, script) \/ StartEpoch(r, script)
  \/ Report(r, trained) \/ EndEpoch(r) \/ Fail(script) \/ BeginCopy(r) \/ EndCopy(r)
=============================================================================
