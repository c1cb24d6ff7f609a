------------------------------ MODULE ClaimOnce ------------------------------
(***************************************************************************)
(* What the batch tutorial promises of its work queue, with no Redis, no   *)
(* leases and no polling: an item is handed to one worker and never to a   *)
(* second one, a worker that dies takes its item with it, and a worker     *)
(* ends by itself only when every item is done.                            *)
(***************************************************************************)

CONSTANTS Workers,  \* worker processes of the Job
          Items,    \* datasets to train on
          NoItem    \* a worker without an item

VARIABLES todo,  \* items nobody has claimed
          work,  \* the item each worker has claimed, or NoItem
          done,  \* items whose claim was completed
          gone   \* workers that ended by themselves

vars == <<todo, work, done, gone>>

Init ==
  /\ todo = Items
  /\ work = [w \in Workers |-> NoItem]
  /\ done = {}
  /\ gone = {}

Claim(w, i) ==
  /\ w \notin gone
  /\ work[w] = NoItem
  /\ i \in todo
  /\ todo' = todo \ {i}
  /\ work' = [work EXCEPT ![w] = i]
  /\ UNCHANGED <<done, gone>>

Finish(w) ==
  /\ work[w] \in Items
  /\ done' = done \union {work[w]}
  /\ work' = [work EXCEPT ![w] = NoItem]
  /\ UNCHANGED <<todo, gone>>

\* A worker dies: its item stays claimed by nobody.
Abandon(w) ==
  /\ work[w] \in Items
  /\ work' = [work EXCEPT ![w] = NoItem]
  /\ UNCHANGED <<todo, done, gone>>

Leave(w) ==
  /\ work[w] = NoItem
  /\ done = Items
  /\ gone' = gone \union {w}
  /\ UNCHANGED <<todo, work, done>>

Next ==
  \E w \in Workers :
    \/ \E i \in Items : Claim(w, i)
    \/ Finish(w)
    \/ Abandon(w)
    \/ Leave(w)

Spec == Init /\ [][Next]_vars
=============================================================================
