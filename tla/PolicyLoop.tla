----------------------------- MODULE PolicyLoop ------------------------------
(***************************************************************************)
(* What a flywheel job promises to those who read its comparison, with no  *)
(* processes, locks, files, copies or failed attempts: a policy is judged  *)
(* by results of this job and this round, which every worker tells once;   *)
(* what the job learns from has all that round 1 rewarded and nothing torn *)
(* or bad; and what is judged in round 2 was learned in this job, from     *)
(* just that.  A job may end at any moment, and nothing of it goes on.     *)
(***************************************************************************)
EXTENDS Integers

CONSTANT Workers   \* who plays

VARIABLES stage,   \* "off", "load", "judge", "mix" or "learn"
          job,     \* the number of the job
          round,   \* its round
          policy,  \* the policy being judged, as a set
          told,    \* the results told in the round
          base,    \* those of round 1, once it is over
          lesson   \* what round 2 learns from

vars == <<stage, job, round, policy, told, base, lesson>>

\* Every rewarded episode of round 1 is in d, and d is clean.
Taught(d) ==
  /\ \A r \in base : (r.saved /\ r.reward >= 0) =>
       \E f \in d : f.job = job /\ f.worker = r.worker /\ f.ep = r.ep /\ f.reward = r.reward
  /\ \A f \in d : f.whole /\ f.reward >= -5

Init ==
  /\ stage = "off"
  /\ job = 0
  /\ round = "round1"
  /\ policy = {} /\ told = {} /\ base = {} /\ lesson = {}

\* A job begins by judging a policy, or only learns one.
Begin ==
  /\ stage = "off"
  /\ stage' \in {"load", "learn"}
  /\ job' = job + 1
  /\ round' = "round1"
  /\ UNCHANGED <<policy, told, base, lesson>>

Load ==
  /\ stage = "load"
  /\ stage' = "judge"
  /\ policy' # {}
  /\ round = "round2" => policy' = {[job |-> job, data |-> lesson]}
  /\ told' = {}
  /\ UNCHANGED <<job, round, base, lesson>>

Tell(w) ==
  /\ stage = "judge"
  /\ \A r \in told : r.worker # w
  /\ told \subseteq told'
  /\ \A r \in told' \ told :
       /\ r.worker = w /\ r.job = job /\ r.round = round
       /\ \A s \in told' \ told : s.ep = r.ep => s = r
  /\ UNCHANGED <<stage, job, round, policy, base, lesson>>

Judged ==
  /\ stage = "judge"
  /\ round = "round1"
  /\ stage' = "mix"
  /\ base' = told
  /\ policy' = {}
  /\ UNCHANGED <<job, round, told, lesson>>

Mix ==
  /\ stage = "mix"
  /\ stage' = "learn"
  /\ round' = "round2"
  /\ Taught(lesson')
  /\ UNCHANGED <<job, policy, told, base>>

Learned ==
  /\ stage = "learn"
  /\ round = "round2"
  /\ stage' = "load"
  /\ UNCHANGED <<job, round, policy, told, base, lesson>>

End ==
  /\ stage # "off"
  /\ stage' = "off"
  /\ policy' = {} /\ told' = {} /\ base' = {} /\ lesson' = {}
  /\ UNCHANGED <<job, round>>

Next ==
  \/ Begin \/ Load \/ (\E w \in Workers : Tell(w))
  \/ Judged \/ Mix \/ Learned \/ End

Spec == Init /\ [][Next]_vars
=============================================================================
