----------------------------- MODULE LeRobotPlan -----------------------------
(***************************************************************************)
(* The read plan of LeRobotDatasource (physical-ai-on-gke, models/pi05,    *)
(* tools/lerobot_datasource.py): the rows of one or more LeRobot datasets  *)
(* are sliced by one of five partitionings, and the slices are grouped     *)
(* into at most `parallelism` read tasks.                                  *)
(*                                                                         *)
(* A dataset is what its metadata says: `to[e]` is the running sum of the  *)
(* lengths of episodes 1 to e, so episode e is the rows to[e-1]..to[e]-1,  *)
(* counted from 0 as the code does; data[e] is the parquet file of the     *)
(* episode; and for every camera, file[k][e] is its video file, ts[k][e]   *)
(* where it begins in that file, frames[k][e] how many frames the file     *)
(* really has.  Times are counted in frames.                               *)
(***************************************************************************)
EXTENDS Integers, SequencesExt

CONSTANTS Cams,      \* video_keys, the same for all roots
          Requests   \* what a datasource may be asked for

Modes == {"sequential", "episode", "file_group", "chain", "row_block"}

Episodes(d) == 1..d.n
From(d, e) == d.to[e - 1]       \* _global_from_index
To(d, e) == d.to[e]             \* _global_to_index
TotalFrames(d) == d.to[d.n]
RowsOf(d) == 0..(TotalFrames(d) - 1)

IsDataset(d) ==
  /\ d.n \in Nat \ {0}
  /\ d.to \in [0..d.n -> Nat]
  /\ d.to[0] = 0
  /\ \A a, b \in 0..d.n : a < b => d.to[a] < d.to[b]
  /\ d.data \in [Episodes(d) -> Nat]
  /\ d.file \in [Cams -> [Episodes(d) -> Nat]]
  /\ d.ts \in [Cams -> [Episodes(d) -> Nat]]
  /\ d.frames \in [Cams -> [Episodes(d) -> Nat \ {0}]]
  /\ d.remote \in BOOLEAN

\* As LeRobot writes a dataset: a parquet file holds consecutive episodes, a video file
\* has one length, and the episodes that lie next to each other in one video file follow
\* each other in it.
WellWritten(d) ==
  /\ \A a, b \in Episodes(d) : d.data[a] = d.data[b] => \A m \in a..b : d.data[m] = d.data[a]
  /\ \A k \in Cams : \A a, b \in Episodes(d) :
       d.file[k][a] = d.file[k][b] => d.frames[k][a] = d.frames[k][b]
  /\ \A k \in Cams : \A a, b \in Episodes(d) :
       (a < b /\ \A m \in a..b : d.file[k][m] = d.file[k][a])
         => d.ts[k][a] + To(d, a) - From(d, a) <= d.ts[k][b]

ASSUME RequestsAssumption ==
  \A r \in Requests :
    /\ r.mode \in Modes
    /\ r.block \in Nat \ {0}          \* block_size
    /\ r.parallelism \in Nat
    /\ r.batch \in Nat \ {0}          \* _rows_per_batch is at least 1
    /\ r.metas \in Seq({r.metas[i] : i \in DOMAIN r.metas})
    /\ Len(r.metas) > 0
    /\ \A i \in 1..Len(r.metas) : IsDataset(r.metas[i]) /\ WellWritten(r.metas[i])

VARIABLES
  req,      \* the request being served
  phase,    \* "slice", "group", "planned", or "invalid" after a ValueError
  root,     \* how many roots have been sliced
  todo,     \* the ranges of that root not yet checked
  slices,   \* all_ranges: the (root, start, end) triples so far
  taken,    \* how many slices have been given to a task
  room,     \* how many more the last task takes
  tasks     \* the merged segments of every task

Segments == [root : Nat, from : Nat, to : Nat]

PlanType ==
  /\ req \in Requests
  /\ phase \in {"slice", "group", "planned", "invalid"}
  /\ root \in Nat
  /\ todo \subseteq [from : Nat, to : Nat]
  /\ slices \in Seq(Segments)
  /\ taken \in Nat
  /\ room \in Nat
  /\ tasks \in Seq(Seq(Segments))

planVars == <<req, phase, root, todo, slices, taken, room, tasks>>

Smaller(a, b) == IF a < b THEN a ELSE b

----------------------------------------------------------------------------
(* The partitionings: the set of row ranges of one dataset. *)

Sequential(d) == {[from |-> 0, to |-> TotalFrames(d)]}

ByEpisode(d) == {[from |-> From(d, e), to |-> To(d, e)] : e \in Episodes(d)}

\* From the first to the last of a set of episodes.
Spans(d, E) ==
  {[from |-> From(d, p[1]), to |-> To(d, p[2])] :
     p \in {q \in E \X E : \A e \in E : q[1] <= e /\ e <= q[2]}}

\* The episodes that share the video file of every camera with episode e.
Group(d, e) == {i \in Episodes(d) : \A k \in Cams : d.file[k][i] = d.file[k][e]}

ByFileGroup(d) == UNION {Spans(d, Group(d, e)) : e \in Episodes(d)}

\* What _slices_by_file_group insists on: a group has no gap.
GroupsWhole(d) ==
  \A e \in Episodes(d) : \A i, j \in Group(d, e) : i..j \subseteq Group(d, e)

Share(d, i, j) == \E k \in Cams : d.file[k][i] = d.file[k][j]

\* The connected component of an episode: what every closed set around it contains.
Chain(d, e) ==
  {i \in Episodes(d) : \A S \in SUBSET Episodes(d) :
     (e \in S /\ \A a \in S, b \in Episodes(d) : Share(d, a, b) => b \in S) => i \in S}

ByChain(d) == UNION {Spans(d, Chain(d, e)) : e \in Episodes(d)}

ByRowBlock(d, size) ==
  {[from |-> q * size, to |-> Smaller(q * size + size, TotalFrames(d))] :
     q \in {b \in RowsOf(d) : b * size < TotalFrames(d)}}

Ranges(d) ==
  CASE req.mode = "sequential" -> Sequential(d)
    [] req.mode = "episode"    -> ByEpisode(d)
    [] req.mode = "file_group" -> ByFileGroup(d)
    [] req.mode = "chain"      -> ByChain(d)
    [] req.mode = "row_block"  -> ByRowBlock(d, req.block)

----------------------------------------------------------------------------
(* plan(): slice every root, then deal the slices out to tasks. *)

PlanInit ==
  /\ req \in Requests
  /\ phase = "slice"
  /\ root = 0
  /\ todo = {}
  /\ slices = <<>>
  /\ taken = 0
  /\ room = 0
  /\ tasks = <<>>

SliceRoot ==
  /\ phase = "slice"
  /\ todo = {}
  /\ root < Len(req.metas)
  /\ IF req.mode = "file_group" /\ ~GroupsWhole(req.metas[root + 1])
     THEN /\ phase' = "invalid"
          /\ UNCHANGED <<root, todo>>
     ELSE /\ root' = root + 1
          /\ todo' = Ranges(req.metas[root + 1])
          /\ UNCHANGED phase
  /\ UNCHANGED <<req, slices, taken, room, tasks>>

Sooner(a, b) == a.from < b.from \/ (a.from = b.from /\ a.to <= b.to)

\* The check of _slice: in sorted order, each range begins where the last one ended.
Contiguous(r) == (slices # <<>> /\ Last(slices).root = root) => Last(slices).to = r.from

NextRange ==
  /\ phase = "slice"
  /\ \E r \in todo :
       /\ \A other \in todo : Sooner(r, other)
       /\ IF Contiguous(r)
          THEN /\ slices' = Append(slices, [root |-> root, from |-> r.from, to |-> r.to])
               /\ todo' = todo \ {r}
               /\ UNCHANGED phase
          ELSE /\ phase' = "invalid"
               /\ UNCHANGED <<slices, todo>>
  /\ UNCHANGED <<req, root, taken, room, tasks>>

AllSliced ==
  /\ phase = "slice"
  /\ todo = {}
  /\ root = Len(req.metas)
  /\ phase' = "group"
  /\ UNCHANGED <<req, root, todo, slices, taken, room, tasks>>

Crowded == req.parallelism > 0 /\ Len(slices) > req.parallelism

NumGroups == IF Crowded THEN req.parallelism ELSE Len(slices)

\* Mutants: the remainder of the division is dropped; the first group gets all of it.
GroupSizeFloor(g) == IF Crowded THEN Len(slices) \div req.parallelism ELSE 1

GroupSizeLopsided(g) ==
  IF Crowded
  THEN Len(slices) \div req.parallelism + (IF g = 0 THEN Len(slices) % req.parallelism ELSE 0)
  ELSE 1

\* The size of the g-th group, counted from 0: divmod deals the remainder to the first ones.
GroupSize(g) ==
  IF Crowded
  THEN Len(slices) \div req.parallelism + (IF g < Len(slices) % req.parallelism THEN 1 ELSE 0)
  ELSE 1

OpenGroup ==
  /\ phase = "group"
  /\ room = 0
  /\ Len(tasks) < NumGroups
  /\ tasks' = Append(tasks, <<slices[taken + 1]>>)
  /\ room' = GroupSize(Len(tasks)) - 1
  /\ taken' = taken + 1
  /\ UNCHANGED <<req, phase, root, todo, slices>>

\* _merge_segments: a slice that continues the last segment of its task widens it.
Merged(segments, s) ==
  IF s.root = Last(segments).root /\ s.from = Last(segments).to
  THEN [segments EXCEPT ![Len(segments)].to = s.to]
  ELSE Append(segments, s)

FillGroup ==
  /\ phase = "group"
  /\ room > 0
  /\ tasks' = [tasks EXCEPT ![Len(tasks)] = Merged(Last(tasks), slices[taken + 1])]
  /\ room' = room - 1
  /\ taken' = taken + 1
  /\ UNCHANGED <<req, phase, root, todo, slices>>

AllGrouped ==
  /\ phase = "group"
  /\ room = 0
  /\ Len(tasks) = NumGroups
  /\ phase' = "planned"
  /\ UNCHANGED <<req, root, todo, slices, taken, room, tasks>>

PlanNext == SliceRoot \/ NextRange \/ AllSliced \/ OpenGroup \/ FillGroup \/ AllGrouped

PlanSpec == PlanInit /\ [][PlanNext]_planVars

----------------------------------------------------------------------------
(* Correctness of the plan. *)

Holds(seg, i, x) == seg.root = i /\ seg.from <= x /\ x < seg.to

\* A finished plan reads every row of every root, and reads it once: whatever the
\* partitioning, the grouping and the merging, no row is dropped or given to two tasks.
PlanCovers ==
  phase = "planned" =>
    \A i \in 1..Len(req.metas) : \A x \in RowsOf(req.metas[i]) :
      \E t \in 1..Len(tasks) : \E s \in 1..Len(tasks[t]) :
        /\ Holds(tasks[t][s], i, x)
        /\ \A u \in 1..Len(tasks) : \A v \in 1..Len(tasks[u]) :
             Holds(tasks[u][v], i, x) => u = t /\ v = s

\* The slices a task was given.
SlicesOf(t) ==
  {i \in 1..Len(slices) : \E s \in 1..Len(tasks[t]) :
     Holds(tasks[t][s], slices[i].root, slices[i].from)}

\* Grouping keeps to the parallelism Ray asked for and levels the load: never more tasks
\* than that, every task has a slice, and two tasks differ by one slice at most.
PlanBalanced ==
  phase = "planned" =>
    /\ Len(tasks) = IF req.parallelism = 0 THEN Len(slices)
                                           ELSE Smaller(Len(slices), req.parallelism)
    /\ \A t, u \in 1..Len(tasks) :
         1 <= Cardinality(SlicesOf(t)) /\ Cardinality(SlicesOf(t)) <= Cardinality(SlicesOf(u)) + 1
=============================================================================
