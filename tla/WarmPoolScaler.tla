---------------------------- MODULE WarmPoolScaler ----------------------------
(***************************************************************************)
(* The stats-adapter of ai-ml/anthropic-agent-sandbox (src/stats-adapter/  *)
(* main.py): every interval it reads the number of concurrent sessions     *)
(* from the control plane, publishes it, and patches the replicas of the   *)
(* SandboxWarmPool, unless the target is the one it patched last.          *)
(*                                                                         *)
(* One action is one remote call or the sleep between two ticks; sessions  *)
(* come and go, `make deploy` re-applies the manifest of the warm pool,    *)
(* and the adapter restarts at any moment.                                 *)
(***************************************************************************)
EXTENDS Integers

CONSTANTS MinReplicas, MaxReplicas,  \* --min-replicas, --max-replicas
          ManifestReplicas,          \* replicas in sandbox-warmpool.yaml
          Loads,                     \* numbers of concurrent sessions
          MaxLoadChanges,            \* bound on changes of that number
          MaxFaults,                 \* bound on calls that fail
          MaxLost,                   \* bound on patches whose answer is lost
          MaxRestarts, MaxDeploys,   \* bounds on restarts and deployments
          None                       \* last_target before the first patch

Replicas == MinReplicas..MaxReplicas

ASSUME ScalerAssumption ==
  /\ MinReplicas \in Nat /\ MaxReplicas \in Nat /\ MinReplicas <= MaxReplicas
  /\ ManifestReplicas \in Replicas
  /\ Loads \subseteq Nat /\ 0 \in Loads
  /\ None \notin Replicas
  /\ {MaxLoadChanges, MaxFaults, MaxLost, MaxRestarts, MaxDeploys} \subseteq Nat

VARIABLES
  load,        \* the control plane's depth + pending
  replicas,    \* spec.replicas of the SandboxWarmPool
  pc,          \* what the adapter does next
  depth,       \* main's depth, as read in this tick
  lastTarget,  \* main's last_target
  loadChanges, faults, lost, restarts, deploys  \* counters of the bounded actions

adapterVars == <<pc, depth, lastTarget>>
envVars     == <<loadChanges, faults, lost, restarts, deploys>>
vars == <<load, replicas, adapterVars, envVars>>

Larger(m, n) == IF m >= n THEN m ELSE n
Smaller(m, n) == IF m <= n THEN m ELSE n

\* max(args.min_replicas, min(args.max_replicas, depth)).
TargetUncapped(n) == Larger(MinReplicas, n)
Target(n) == Larger(MinReplicas, Smaller(MaxReplicas, n))

Fault == faults < MaxFaults /\ faults' = faults + 1

-----------------------------------------------------------------------------
Init ==
  /\ load \in Loads
  /\ replicas = ManifestReplicas
  /\ pc = "stats"
  /\ depth = 0
  /\ lastTarget = None
  /\ loadChanges = 0 /\ faults = 0 /\ lost = 0 /\ restarts = 0 /\ deploys = 0

\* work.stats().
Stats ==
  /\ pc = "stats"
  /\ depth' = load
  /\ pc' = "gauge"
  /\ UNCHANGED <<load, replicas, lastTarget, envVars>>

\* write_gauge(): nothing in the cluster reads the metric.
WriteGauge ==
  /\ pc = "gauge"
  /\ pc' = "scale"
  /\ UNCHANGED <<load, replicas, depth, lastTarget, envVars>>

\* As if last_target were assigned before the patch.
TickFailsAssigned ==
  /\ pc \in {"stats", "gauge", "scale"}
  /\ pc = "scale" => Target(depth) # lastTarget
  /\ Fault
  /\ pc' = "sleep"
  /\ lastTarget' = IF pc = "scale" THEN Target(depth) ELSE lastTarget
  /\ UNCHANGED <<load, replicas, depth, loadChanges, lost, restarts, deploys>>

\* A call raises and did nothing: "tick failed".
TickFails ==
  /\ pc \in {"stats", "gauge", "scale"}
  /\ pc = "scale" => Target(depth) # lastTarget
  /\ Fault
  /\ pc' = "sleep"
  /\ UNCHANGED <<load, replicas, depth, lastTarget, loadChanges, lost, restarts,
                 deploys>>

\* The target is not the one patched last.
Patch ==
  /\ pc = "scale"
  /\ Target(depth) # lastTarget
  /\ replicas' = Target(depth)
  /\ lastTarget' = Target(depth)
  /\ pc' = "sleep"
  /\ UNCHANGED <<load, depth, envVars>>

\* The patch is applied, but the call raises: last_target keeps its value.
PatchAnswerLost ==
  /\ pc = "scale"
  /\ Target(depth) # lastTarget
  /\ lost < MaxLost
  /\ lost' = lost + 1
  /\ replicas' = Target(depth)
  /\ pc' = "sleep"
  /\ UNCHANGED <<load, depth, lastTarget, loadChanges, faults, restarts, deploys>>

\* "(unchanged)".
SkipPatch ==
  /\ pc = "scale"
  /\ Target(depth) = lastTarget
  /\ pc' = "sleep"
  /\ UNCHANGED <<load, replicas, depth, lastTarget, envVars>>

Sleep ==
  /\ pc = "sleep"
  /\ pc' = "stats"
  /\ UNCHANGED <<load, replicas, depth, lastTarget, envVars>>

Tick == Stats \/ WriteGauge \/ TickFails \/ Patch \/ PatchAnswerLost \/ SkipPatch \/ Sleep

\* Sessions are created, finish or are deleted.
ChangeLoad ==
  /\ loadChanges < MaxLoadChanges
  /\ load' \in Loads \ {load}
  /\ loadChanges' = loadChanges + 1
  /\ UNCHANGED <<replicas, adapterVars, faults, lost, restarts, deploys>>

\* The adapter's Deployment restarts it.
Restart ==
  /\ restarts < MaxRestarts
  /\ restarts' = restarts + 1
  /\ pc' = "stats"
  /\ depth' = 0
  /\ lastTarget' = None
  /\ UNCHANGED <<load, replicas, loadChanges, faults, lost, deploys>>

\* `make deploy` applies the manifest and leaves the unchanged adapter running.
Deploy ==
  /\ deploys < MaxDeploys
  /\ deploys' = deploys + 1
  /\ replicas' = ManifestReplicas
  /\ UNCHANGED <<load, adapterVars, loadChanges, faults, lost, restarts>>

Next == Tick \/ ChangeLoad \/ Restart \/ Deploy

Spec == Init /\ [][Next]_vars

\* main's loop runs forever; nothing else is promised.
FairSpec == Spec /\ WF_vars(Tick)

-----------------------------------------------------------------------------
TypeOK ==
  /\ load \in Loads
  /\ replicas \in Replicas
  /\ pc \in {"stats", "gauge", "scale", "sleep"}
  /\ depth \in Loads
  /\ lastTarget \in Replicas \union {None}
  /\ loadChanges \in 0..MaxLoadChanges
  /\ faults \in 0..MaxFaults
  /\ lost \in 0..MaxLost
  /\ restarts \in 0..MaxRestarts
  /\ deploys \in 0..MaxDeploys

\* Whatever calls fail and whenever it restarts, what the adapter remembers is what
\* the pool has, so skipping the patch is right (main.py:103), until a patch's
\* answer is lost or the manifest is applied under it.
MemoryIsTrue ==
  (lost = 0 /\ deploys = 0 /\ lastTarget # None) => replicas = lastTarget

\* Once the number of sessions settles the pool follows it, within its bounds, if
\* no answer was lost and the manifest was not applied again.
Follows == <>[](lost = 0 /\ deploys = 0 => replicas = Target(load))

\* README.md:415 "`REPLICAS` steps up to match within one or two 15-second ticks,
\* then drains back to 2 once the sessions are deleted".
DrainsBack == <>[](load = 0) => <>[](replicas = MinReplicas)
=============================================================================
