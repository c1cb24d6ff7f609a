---------------------------- MODULE SandboxLease ----------------------------
(***************************************************************************)
(* What the session dispatcher promises of its sandboxes, with no polls,   *)
(* no claims and no POSTs: a session has at most one sandbox at a time, a  *)
(* sandbox is one pod and a pod is in one sandbox, a pod works only for    *)
(* the session whose sandbox it is, a sandbox takes its pod's work with    *)
(* it, and a session is given up only after MaxRedispatch sandboxes, when  *)
(* it has none, and for good.                                              *)
(***************************************************************************)
EXTENDS Naturals

CONSTANTS Sessions,       \* agent sessions
          Pods,           \* pods of the warm pool
          MaxRedispatch,  \* sandboxes a session is allowed
          None            \* no session

VARIABLES live,     \* sessions that have a sandbox
          made,     \* sandboxes made for each session, up to one above the limit
          lease,    \* the session whose sandbox each pod is, or None
          running,  \* the session each pod works for, or None
          stopped   \* sessions given up

vars == <<live, made, lease, running, stopped>>

Init ==
  /\ live = {}
  /\ made = [s \in Sessions |-> 0]
  /\ lease = [p \in Pods |-> None]
  /\ running = [p \in Pods |-> None]
  /\ stopped = {}

Make(s) ==
  /\ s \notin live
  /\ s \notin stopped
  /\ live' = live \union {s}
  /\ made' = [made EXCEPT ![s] = IF @ > MaxRedispatch THEN @ ELSE @ + 1]
  /\ UNCHANGED <<lease, running, stopped>>

Bind(s, p) ==
  /\ s \in live
  /\ lease[p] = None
  /\ \A q \in Pods : lease[q] # s
  /\ lease' = [lease EXCEPT ![p] = s]
  /\ UNCHANGED <<live, made, running, stopped>>

Begin(p) ==
  /\ lease[p] # None
  /\ running[p] = None
  /\ running' = [running EXCEPT ![p] = lease[p]]
  /\ UNCHANGED <<live, made, lease, stopped>>

End(p) ==
  /\ running[p] # None
  /\ running' = [running EXCEPT ![p] = None]
  /\ UNCHANGED <<live, made, lease, stopped>>

Without(s, pods) == [p \in Pods |-> IF pods[p] = s THEN None ELSE pods[p]]

Drop(s) ==
  /\ s \in live
  /\ live' = live \ {s}
  /\ lease' = Without(s, lease)
  /\ running' = Without(s, running)
  /\ UNCHANGED <<made, stopped>>

GiveUp(s) ==
  /\ s \notin live
  /\ s \notin stopped
  /\ made[s] >= MaxRedispatch
  /\ stopped' = stopped \union {s}
  /\ UNCHANGED <<live, made, lease, running>>

Next ==
  \/ \E s \in Sessions : Make(s) \/ Drop(s) \/ GiveUp(s)
  \/ \E s \in Sessions, p \in Pods : Bind(s, p)
  \/ \E p \in Pods : Begin(p) \/ End(p)

Spec == Init /\ [][Next]_vars
=============================================================================
