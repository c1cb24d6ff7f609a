----------------------------- MODULE RowStream ------------------------------
(***************************************************************************)
(* What Ray Data can rely on when it runs a read task of the LeRobot       *)
(* datasource, with no tables, no decoders and no buffers: its segments    *)
(* are row ranges, one behind the other; the rows of each are handed over  *)
(* in order and once, in batches that are full except for the last of a    *)
(* segment; the next segment comes when all rows of the one before are     *)
(* handed over; and after the end, or a failure or cancellation at any     *)
(* moment, nothing.                                                        *)
(*                                                                         *)
(* A row comes with its own task string. With the frames it is not so      *)
(* simple. As long as a camera's rows lie in the video file that its       *)
(* stream began with, they come with their own frame; once they lie in a   *)
(* later file, a row may come with a frame of an earlier file in place of  *)
(* its own, but never with one from ahead. When the videos lack frames     *)
(* nothing is said of the frames.                                          *)
(***************************************************************************)
EXTENDS Integers, Sequences

CONSTANT Cams   \* the cameras

VARIABLES size,      \* rows of a full batch
          segments,  \* the segments of the task
          at,        \* the one being read, 0 before the first
          sent,      \* how many of its rows were handed over
          turn,      \* per camera: where the segment's rows go on in a later video file
          intact,    \* the videos of the segment hold all its frames
          batch,     \* the rows handed over last
          state      \* "waiting", "running", "done" or "broken"

vars == <<size, segments, at, sent, turn, intact, batch, state>>

Ordered(q) ==
  /\ \A i \in 1..Len(q) : q[i].from < q[i].to
  /\ \A i, j \in 1..Len(q) :
       i < j => \/ q[i].root < q[j].root
                \/ q[i].root = q[j].root /\ q[i].to <= q[j].from

\* How many rows of the segment that is read are still to come.
Rest == IF at = 0 THEN 0 ELSE segments[at].to - segments[at].from - sent

\* A frame is the row's own, of an earlier video file than that one, or any other.
Kinds == {"own", "earlier", "other"}

\* The frames that may come with a row.
Fit(x, shots) ==
  intact => \A k \in Cams : shots[k] = "own" \/ (shots[k] = "earlier" /\ turn[k] <= x)

\* A row with its own task string and a frame of every camera.
Joint(x, shots) == [row |-> x, label |-> x, shots |-> shots]

Init ==
  /\ size \in Nat \ {0}
  /\ segments = <<>>
  /\ at = 0
  /\ sent = 0
  /\ turn = [k \in Cams |-> 0]
  /\ intact = TRUE
  /\ batch = <<>>
  /\ state = "waiting"

Start ==
  /\ state = "waiting"
  /\ state' = "running"
  /\ segments' # <<>>
  /\ Ordered(segments')
  /\ UNCHANGED <<size, at, sent, turn, intact, batch>>

Open ==
  /\ state = "running"
  /\ Rest = 0
  /\ at < Len(segments)
  /\ at' = at + 1
  /\ sent' = 0
  /\ turn' \in [Cams -> (segments[at + 1].from + 1)..segments[at + 1].to]
  /\ intact' \in BOOLEAN
  /\ batch' = <<>>
  /\ UNCHANGED <<size, segments, state>>

Hand(n) ==
  /\ state = "running"
  /\ n <= Rest
  /\ n = size \/ n = Rest
  /\ LET x(i) == segments[at].from + sent + i - 1
     IN \E shots \in [1..n -> [Cams -> Kinds]] :
          /\ \A i \in 1..n : Fit(x(i), shots[i])
          /\ batch' = [i \in 1..n |-> Joint(x(i), shots[i])]
  /\ sent' = sent + n
  /\ UNCHANGED <<size, segments, at, turn, intact, state>>

Finish ==
  /\ state = "running"
  /\ Rest = 0
  /\ at = Len(segments)
  /\ state' = "done"
  /\ UNCHANGED <<size, segments, at, sent, turn, intact, batch>>

Break ==
  /\ state = "running"
  /\ state' = "broken"
  /\ UNCHANGED <<size, segments, at, sent, turn, intact, batch>>

Next == Start \/ Open \/ (\E n \in 1..size : Hand(n)) \/ Finish \/ Break

Spec == Init /\ [][Next]_vars
=============================================================================
