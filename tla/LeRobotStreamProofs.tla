------------------------- MODULE LeRobotStreamProofs -------------------------
(***************************************************************************)
(* LeRobotRead implements RowStream, for any datasets, cameras and         *)
(* requests.                                                               *)
(***************************************************************************)
EXTENDS LeRobotReadProofs

----------------------------------------------------------------------------
(* The buffers. *)

LEMMA NotFullInit == Init => NotFull
  BY DEF Init, ReadInit, NotFull

LEMMA NotFullStep == IInv /\ NotFull /\ [Next]_vars => NotFull'
<1> SUFFICES ASSUME IInv, NotFull, [Next]_vars, status' = "reading"
             PROVE  Len(labels') < req'.batch
  BY DEF NotFull
<1>1. req \in Requests /\ req.batch \in Nat \ {0} /\ labels \in Seq(Nat) /\ row \in Nat
  BY RequestFacts DEF IInv, PlanInv, PlanType, ReadType
<1>2. req' = req
  BY DEF Next, PlanNext, SliceRoot, NextRange, AllSliced, OpenGroup, FillGroup, AllGrouped, Over,
         vars, planVars
<1>3. CASE labels' = <<>>
  BY <1>1, <1>2, <1>3
<1>4. CASE labels' = Append(labels, row) /\ ~(Len(labels) + 1 >= req.batch)
  BY <1>1, <1>2, <1>4
<1>5. CASE labels' = labels /\ status = "reading"
  BY <1>2, <1>5 DEF NotFull
<1>6. \/ labels' = <<>>
      \/ labels' = Append(labels, row) /\ ~(Len(labels) + 1 >= req.batch)
      \/ labels' = labels /\ status = "reading"
  <2>1. CASE PlanNext /\ UNCHANGED readVars
    BY <2>1 DEF readVars
  <2>2. CASE ReadNext /\ UNCHANGED planVars
    <3>1. CASE OpenSegment
      BY <3>1 DEF OpenSegment
    <3>2. CASE FinishRow
      BY <3>2 DEF FinishRow, AtRow
    <3>3. CASE StartTask \/ NextTable \/ FinishSegment \/ FinishTask \/ Interrupt
      BY <3>3 DEF StartTask, NextTable, FinishSegment, FinishTask, Interrupt
    <3>4. ASSUME NEW k \in Cams, CamNext(k) PROVE labels' = labels /\ status = "reading"
      BY <3>4 DEF CamNext, FirstFrame, NextFrame, NextFile, Exhaust, TakeFrame, InterruptRead,
           StopStream, InterruptOpen, Pulling, Behind, Seeking, AtRow
    <3> QED
      BY <2>2, <3>1, <3>2, <3>3, <3>4 DEF ReadNext
  <2>3. CASE UNCHANGED vars
    BY <2>3 DEF vars, readVars
  <2> QED
    BY <2>1, <2>2, <2>3 DEF Next, Over
<1> QED
  BY <1>3, <1>4, <1>5, <1>6

\* A full buffer is yielded before the next row is looked for, so that no batch ever
\* exceeds _rows_per_batch.
THEOREM BuffersNeverFull == Spec => []NotFull
  BY NotFullInit, NotFullStep, InvariantHolds, PTL DEF Spec

----------------------------------------------------------------------------
(* The frames that are delivered. *)

\* A frame of the file that holds its row is the row's own, any other is of a file before it.
Fits(k, f) ==
  /\ StartEp <= f.run
  /\ \/ f.run < RunOf(k, f.for)
     \/ f.run = RunOf(k, f.for) /\ f.time = TargetAt(k, f.for)

ShotInv ==
  seg > 0 =>
    /\ \A k \in Cams : \A i \in 1..Len(frames[k]) : StartEp <= frames[k][i].run
    /\ SegmentComplete =>
         \A k \in Cams : \A i \in 1..Len(batch.frames[k]) : Fits(k, batch.frames[k][i])

LEMMA ShotInit == Init => ShotInv
  BY DEF Init, ReadInit, ShotInv

\* Steps that leave the buffers and the batch alone.
LEMMA ShotSame ==
  ASSUME ShotInv, UNCHANGED <<req, tasks, task, seg, frames, batch>>
  PROVE  ShotInv'
  BY SameSegment DEF ShotInv, Fits

LEMMA ShotYield ==
  ASSUME IInv, ShotInv, UNCHANGED <<req, tasks, task, seg>>, NEW rows, NEW strings, Yield(rows, strings),
         frames' = frames \/ frames' = [k \in Cams |-> <<>>]
  PROVE  ShotInv'
<1> SUFFICES ASSUME seg > 0 PROVE ShotInv'
  BY DEF ShotInv
<1>1. batch'.frames = frames
  BY DEF Yield
<1>2. FrameInv
  BY DEF IInv, ReadInv
<1>3. ASSUME SegmentComplete, NEW k \in Cams, NEW i \in 1..Len(frames[k]) PROVE Fits(k, frames[k][i])
  BY <1>2, <1>3 DEF FrameInv, ShotInv, Fits
<1>4. (SegmentComplete => \A k \in Cams : \A i \in 1..Len(batch.frames[k]) : Fits(k, batch.frames[k][i]))'
  BY <1>1, <1>3, SameSegment DEF Fits
<1>5. \A k \in Cams : \A i \in 1..Len(frames'[k]) : StartEp' <= frames'[k][i].run
  <2>1. \A k \in Cams : \A i \in 1..Len(frames[k]) : StartEp' <= frames[k][i].run
    BY SameSegment DEF ShotInv
  <2>2. CASE frames' = [k \in Cams |-> <<>>]
    BY <2>2
  <2> QED
    BY <2>1, <2>2
<1> QED
  BY <1>4, <1>5 DEF ShotInv

LEMMA ShotTaken ==
  ASSUME IInv, ShotInv, NEW k \in Cams, TakeFrame(k), UNCHANGED planVars
  PROVE  ShotInv'
<1> DEFINE f == [for |-> row, run |-> cur[k].run, time |-> cur[k].time]
<1>1. /\ status = "reading" /\ cur[k] # NoFrame
      /\ frames' = [frames EXCEPT ![k] = Append(@, f)]
      /\ UNCHANGED <<req, tasks, task, seg, batch>>
  BY DEF TakeFrame, Seeking, AtRow, planVars
<1>2. StartEp <= f.run /\ f \in Frames
  <2>1. cur[k] \in Shots
    BY <1>1 DEF IInv, ReadType
  <2>2. cur[k].run \in StartEp..LastEp
    BY <1>1 DEF IInv, ReadInv, CurInv
  <2> QED
    BY <2>1, <2>2 DEF IInv, ReadType, Shots, Frames
<1> HIDE DEF f
<1>3. ASSUME NEW j \in Cams, NEW i \in 1..Len(frames'[j]), seg > 0 PROVE StartEp <= frames'[j][i].run
  <2>1. frames \in [Cams -> Seq(Frames)]
    BY DEF IInv, ReadType
  <2>2. CASE j # k
    BY <1>1, <1>3, <2>1, <2>2 DEF ShotInv
  <2>3. CASE j = k
    <3>1. frames'[k] = Append(frames[k], f)
      BY <1>1, <2>1
    <3>2. i \in 1..Len(frames[k]) \/ frames'[k][i] = f
      BY <1>2, <2>1, <2>3, <3>1
    <3>3. i \in 1..Len(frames[k]) => frames'[k][i] = frames[k][i]
      BY <1>2, <2>1, <2>3, <3>1
    <3> QED
      BY <1>2, <1>3, <2>3, <3>2, <3>3 DEF ShotInv
  <2> QED
    BY <2>2, <2>3
<1>4. (seg > 0 => \A j \in Cams : \A i \in 1..Len(frames[j]) : StartEp <= frames[j][i].run)'
  <2>1. seg' = seg /\ StartEp' = StartEp
    BY <1>1, SameSegment
  <2> QED
    BY <1>3, <2>1
<1>5. ASSUME seg > 0, SegmentComplete, NEW j \in Cams, NEW i \in 1..Len(batch.frames[j])
      PROVE  Fits(j, batch.frames[j][i])'
  <2>1. Fits(j, batch.frames[j][i])
    BY <1>5 DEF ShotInv
  <2>2. batch' = batch
    BY <1>1
  <2> QED
    BY <1>1, <2>1, <2>2, SameSegment DEF Fits
<1>6. (seg > 0 /\ SegmentComplete =>
         \A j \in Cams : \A i \in 1..Len(batch.frames[j]) : Fits(j, batch.frames[j][i]))'
  <2>1. seg' = seg /\ batch' = batch /\ (SegmentComplete' <=> SegmentComplete)
    BY <1>1, SameSegment
  <2> QED
    BY <1>5, <2>1
<1> QED
  BY <1>4, <1>6 DEF ShotInv

LEMMA ShotStep == IInv /\ ShotInv /\ [Next]_vars => ShotInv'
<1> SUFFICES ASSUME IInv, ShotInv, [Next]_vars PROVE ShotInv'
  OBVIOUS
<1>1. CASE PlanNext /\ UNCHANGED readVars
  <2>1. seg = 0
    <3>1. phase # "planned"
      BY <1>1 DEF PlanNext, SliceRoot, NextRange, AllSliced, OpenGroup, FillGroup, AllGrouped
    <3> QED
      BY <3>1 DEF IInv, ReadInv, Ctl
  <2> QED
    BY <1>1, <2>1 DEF readVars, ShotInv
<1>2. CASE ReadNext /\ UNCHANGED planVars
  <2>1. CASE StartTask
    BY <1>2, <2>1 DEF StartTask, IInv, ReadInv, Ctl, ShotInv
  <2>2. CASE OpenSegment
    BY <2>2 DEF OpenSegment, ShotInv
  <2>3. CASE FinishRow
    <3>1. CASE Len(labels) + 1 >= req.batch
      BY <1>2, <2>3, <3>1, ShotYield DEF FinishRow, planVars
    <3>2. CASE ~(Len(labels) + 1 >= req.batch)
      BY <1>2, <2>3, <3>2, ShotSame DEF FinishRow, planVars
    <3> QED
      BY <3>1, <3>2
  <2>4. CASE FinishSegment
    <3>1. CASE parts' # <<>>
      BY <1>2, <2>4, <3>1, ShotYield DEF FinishSegment, planVars
    <3>2. CASE parts' = <<>>
      BY <1>2, <2>4, <3>2, ShotSame DEF FinishSegment, planVars
    <3> QED
      BY <3>1, <3>2
  <2>5. CASE NextTable \/ FinishTask \/ Interrupt
    BY <1>2, <2>5, ShotSame DEF NextTable, FinishTask, Interrupt, planVars
  <2>6. ASSUME NEW k \in Cams, CamNext(k) PROVE ShotInv'
    <3>1. CASE TakeFrame(k)
      BY <1>2, <3>1, ShotTaken
    <3>2. CASE ~TakeFrame(k)
      BY <1>2, <2>6, <3>2, ShotSame
      DEF CamNext, FirstFrame, NextFrame, NextFile, Exhaust, InterruptRead, StopStream, InterruptOpen,
          planVars
    <3> QED
      BY <3>1, <3>2
  <2> QED
    BY <1>2, <2>1, <2>2, <2>3, <2>4, <2>5, <2>6 DEF ReadNext
<1>3. CASE UNCHANGED vars
  BY <1>3, ShotSame DEF vars, planVars, readVars
<1> QED
  BY <1>1, <1>2, <1>3 DEF Next, Over

\* A camera stays in its first file up to its turn, and for the first row at least.
LEMMA TurnIs ==
  ASSUME SegOK, NEW k \in Cams
  PROVE  /\ TurnOf(k) \in (Segment.from + 1)..Segment.to
         /\ \A y \in Segment.from..(TurnOf(k) - 1) : RunOf(k, y) = StartEp
<1> DEFINE P(x) == /\ \A y \in Segment.from..(x - 1) : RunOf(k, y) = StartEp
                   /\ x < Segment.to => RunOf(k, x) # StartEp
           S == {x \in (Segment.from + 1)..Segment.to : x < Segment.to => RunOf(k, x) # StartEp}
<1>1. Segment.from \in Nat /\ Segment.to \in Nat /\ Segment.from < Segment.to
  BY DEF SegOK, Segments, IsRange
<1>2. RunOf(k, Segment.from) = StartEp
  <2>1. InSeg(Segment.from) /\ StartEp \in Nat
    BY SegEpisodes
  <2>2. RunOf(k, Segment.from) \in Nat /\ StartEp <= RunOf(k, Segment.from)
        /\ RunOf(k, Segment.from) <= EpisodeOf(Meta, Segment.from)
    BY <2>1, RunOfIs
  <2> QED
    BY <2>1, <2>2 DEF StartEp
<1>3. PICK m \in S : \A x \in S : m <= x
  <2>1. S \in SUBSET Nat /\ Segment.to \in S
    BY <1>1
  <2> HIDE DEF S
  <2> QED
    BY <2>1, LeastIs
<1>4. P(m) /\ m \in (Segment.from + 1)..Segment.to
  <2>1. ASSUME NEW y \in Segment.from..(m - 1) PROVE RunOf(k, y) = StartEp
    <3>1. y = Segment.from \/ (y \in (Segment.from + 1)..Segment.to /\ y < m /\ y < Segment.to)
      BY <1>1
    <3>2. y < m => y \notin S
      BY <1>1, <1>3
    <3> QED
      BY <1>2, <3>1, <3>2
  <2> QED
    BY <2>1
<1> HIDE DEF P
<1>5. P(TurnOf(k)) /\ TurnOf(k) \in (Segment.from + 1)..Segment.to
  <2>1. TurnOf(k) = CHOOSE x \in (Segment.from + 1)..Segment.to : P(x)
    BY DEF TurnOf, P
  <2> QED
    BY <1>4, <2>1
<1> QED
  BY <1>5 DEF P

LEMMA KindIs ==
  ASSUME SegOK, NEW k \in Cams, NEW f \in Frames, InSeg(f.for), Fits(k, f)
  PROVE  \/ KindOf(k, f.for, f) = "own"
         \/ KindOf(k, f.for, f) = "earlier" /\ TurnOf(k) <= f.for
<1>1. f.run \in Nat /\ f.for \in Nat /\ RunOf(k, f.for) \in Nat /\ StartEp \in Nat
  BY RunOfIs, SegEpisodes DEF Frames
<1>2. CASE f.run = RunOf(k, f.for)
  BY <1>1, <1>2 DEF Fits, KindOf, TargetAt
<1>3. CASE f.run < RunOf(k, f.for)
  <2>1. KindOf(k, f.for, f) = "earlier"
    BY <1>1, <1>3 DEF KindOf
  <2>2. TurnOf(k) \in (Segment.from + 1)..Segment.to /\ Segment.from \in Nat /\ Segment.to \in Nat
    BY TurnIs, SegEpisodes
  <2>3. ~(f.for < TurnOf(k))
    <3>1. f.for < TurnOf(k) => f.for \in Segment.from..(TurnOf(k) - 1)
      BY <1>1, <2>2 DEF InSeg
    <3> QED
      BY <1>1, <1>3, <3>1, TurnIs DEF Fits
  <2> QED
    BY <1>1, <2>1, <2>2, <2>3
<1> QED
  BY <1>2, <1>3 DEF Fits

----------------------------------------------------------------------------
(* The steps of the stream. *)

\* What RowStream sees of the segments, of the videos, of the batch and of the status.
Chosen == IF status = "idle" THEN <<>> ELSE tasks[task]

Turn == IF seg = 0 THEN [k \in Cams |-> 0] ELSE [k \in Cams |-> TurnOf(k)]

Intact == seg = 0 \/ SegmentComplete

ShotsAt(i) == [k \in Cams |-> KindOf(k, batch.rows[i].row, batch.frames[k][i])]

Joined ==
  [i \in 1..Len(batch.rows) |->
     [row |-> batch.rows[i].row,
      label |-> batch.labels[i],
      shots |-> ShotsAt(i)]]

Stage ==
  CASE status = "idle" -> "waiting"
    [] status \in {"between", "reading"} -> "running"
    [] status = "done" -> "done"
    [] OTHER -> "broken"

LEMMA StageIs ==
  /\ status = "idle" => Stage = "waiting"
  /\ status \in {"between", "reading"} => Stage = "running"
  /\ status = "done" => Stage = "done"
  /\ status \in {"cancelled", "exhausted", "cut"} => Stage = "broken"
  BY DEF Stage

LEMMA StageNext ==
  /\ status' = "idle" => Stage' = "waiting"
  /\ status' \in {"between", "reading"} => Stage' = "running"
  /\ status' = "done" => Stage' = "done"
  /\ status' \in {"cancelled", "exhausted", "cut"} => Stage' = "broken"
  BY DEF Stage

\* The videos are those of the segment, until the next one.
LEMMA SameVideos ==
  ASSUME UNCHANGED <<req, tasks, task, seg>>
  PROVE  /\ Turn' = Turn /\ Intact' = Intact
         /\ \A k, x, f : KindOf(k, x, f)' = KindOf(k, x, f)
<1>1. \A k : TurnOf(k)' = TurnOf(k)
  BY SameSegment DEF TurnOf
<1> QED
  BY <1>1, SameSegment DEF Turn, Intact, KindOf

LEMMA SameJoined ==
  ASSUME UNCHANGED <<req, tasks, task, seg, batch>>
  PROVE  Joined' = Joined
  BY SameVideos DEF Joined, ShotsAt

LEMMA Stuttering ==
  ASSUME UNCHANGED <<req, tasks, task, seg, sent, batch, Chosen, Stage>>
  PROVE  UNCHANGED Stream!vars
<1>1. Turn' = Turn /\ Intact' = Intact /\ Joined' = Joined
  BY SameVideos, SameJoined
<1> QED
  BY <1>1 DEF Stream!vars, Chosen, Stage, Turn, Intact, Joined, ShotsAt

\* Before the first segment nothing is seen of the task.
LEMMA StutteringEarly ==
  ASSUME seg = 0, Len(batch.rows) = 0, UNCHANGED <<req, seg, sent, batch, Chosen, Stage>>
  PROVE  UNCHANGED Stream!vars
<1>1. Turn' = Turn /\ Intact' = Intact
  BY DEF Turn, Intact
<1>2. Joined' = Joined
  BY DEF Joined
<1> QED
  BY <1>1, <1>2 DEF Stream!vars, Chosen, Stage, Turn, Intact, Joined, ShotsAt

LEMMA Handing ==
  ASSUME NEW n \in 1..req.batch, Stage = "running", n <= Stream!Rest,
         n = req.batch \/ n = Stream!Rest,
         NEW shots \in [1..n -> [Cams -> Stream!Kinds]],
         \A i \in 1..n : Stream!Fit(Chosen[seg].from + Len(sent) + i - 1, shots[i]),
         Joined' = [i \in 1..n |-> Stream!Joint(Chosen[seg].from + Len(sent) + i - 1, shots[i])],
         Len(sent') = Len(sent) + n,
         UNCHANGED <<req, seg, Chosen, Stage, Turn, Intact>>
  PROVE  Stream!Next
<1>1. Stream!Hand(n)
  BY DEF Stream!Hand, Joined, ShotsAt, Chosen, Stage, Turn, Intact
<1> QED
  BY <1>1 DEF Stream!Next

\* How many rows of the segment are left.
LEMMA RestIs ==
  ASSUME status # "idle"
  PROVE  Stream!Rest = IF seg = 0 THEN 0 ELSE Segment.to - Segment.from - Len(sent)
  BY DEF Stream!Rest, Segment

\* The frames in a batch are such as may come with their rows.
BatchFits == \A i \in 1..Len(batch.rows) : Stream!Fit(batch.rows[i].row, ShotsAt(i))

LEMMA Fitting == IInv /\ ShotInv => BatchFits
<1> SUFFICES ASSUME IInv, ShotInv, NEW i \in 1..Len(batch.rows), Intact, NEW k \in Cams
             PROVE  \/ ShotsAt(i)[k] = "own"
                    \/ ShotsAt(i)[k] = "earlier" /\ Turn[k] <= batch.rows[i].row
  BY DEF BatchFits, Stream!Fit, Intact, Turn
<1> DEFINE f == batch.frames[k][i]
           x == batch.rows[i].row
<1>1. BatchInv /\ seg \in Nat /\ batch.rows \in Seq(Rows)
  BY DEF IInv, ReadInv, ReadType
<1>2. seg > 0 /\ SegmentComplete
  BY <1>1 DEF BatchInv, Intact
<1>3. SegOK
  BY <1>2, SegIsOK DEF IInv, ReadInv
<1>4. /\ batch.frames[k] \in Seq(Frames) /\ i \in 1..Len(batch.frames[k]) /\ f \in Frames
      /\ f.for = x /\ InSeg(x)
  BY <1>1 DEF BatchInv, IInv, ReadType
<1>5. Fits(k, f)
  BY <1>2, <1>4 DEF ShotInv
<1>6. KindOf(k, x, f) = "own" \/ (KindOf(k, x, f) = "earlier" /\ TurnOf(k) <= x)
  BY <1>3, <1>4, <1>5, KindIs
<1> QED
  BY <1>1, <1>2, <1>6 DEF ShotsAt, Turn

LEMMA FittingNext == IInv' /\ ShotInv' => BatchFits'
  BY Fitting, PTL

\* The batch of a yield, when its rows are consecutive.
LEMMA JoinedIs ==
  ASSUME ReadType', BatchInv', BatchFits', NEW a \in Nat, Turn' = Turn, Intact' = Intact,
         \A i \in 1..Len(batch'.rows) : batch'.rows[i].row = a + i - 1
  PROVE  \E shots \in [1..Len(batch'.rows) -> [Cams -> Stream!Kinds]] :
           /\ \A i \in 1..Len(batch'.rows) : Stream!Fit(a + i - 1, shots[i])
           /\ Joined' = [i \in 1..Len(batch'.rows) |-> Stream!Joint(a + i - 1, shots[i])]
<1> DEFINE N == 1..Len(batch'.rows)
           shots == [i \in N |-> ShotsAt(i)']
<1>1. \A i : ShotsAt(i)' \in [Cams -> Stream!Kinds]
  BY DEF ShotsAt, KindOf, Stream!Kinds
<1>2. shots \in [N -> [Cams -> Stream!Kinds]]
  BY <1>1
<1>3. ASSUME NEW i \in N PROVE Stream!Fit(a + i - 1, shots[i])
  <2>1. Stream!Fit(batch.rows[i].row, ShotsAt(i))'
    BY DEF BatchFits
  <2>2. shots[i] = ShotsAt(i)' /\ batch'.rows[i].row = a + i - 1
    OBVIOUS
  <2> HIDE DEF shots
  <2> QED
    BY <2>1, <2>2 DEF Stream!Fit, Turn, Intact
<1>4. \A i \in N : batch'.labels[i] = a + i - 1
  BY DEF BatchInv
<1>5. Joined' = [i \in N |-> Stream!Joint(a + i - 1, shots[i])]
  BY <1>4 DEF Joined, Stream!Joint
<1> QED
  BY <1>2, <1>3, <1>5

\* All that is sent so far, after a yield.
LEMMA SentIs ==
  ASSUME ReadType, ReadType', NEW rows, NEW strings, Yield(rows, strings)
  PROVE  /\ batch'.rows = rows /\ Len(rows) \in Nat
         /\ Len(sent') = Len(sent) + Len(rows)
         /\ \A i \in 1..Len(rows) : sent'[Len(sent) + i] = rows[i].row
<1>1. batch'.rows = rows
  BY DEF Yield
<1>2. rows \in Seq(Rows)
  BY <1>1 DEF ReadType
<1>3. /\ RowsOfBatch(rows) \in Seq(Nat) /\ Len(RowsOfBatch(rows)) = Len(rows)
      /\ \A i \in 1..Len(rows) : RowsOfBatch(rows)[i] = rows[i].row
  <2>1. \A i \in 1..Len(rows) : rows[i].row \in Nat
    <3>1. \A i \in 1..Len(rows) : rows[i] \in Rows
      BY <1>2
    <3> QED
      BY <3>1 DEF Rows
  <2>2. Len(rows) \in Nat
    BY <1>2
  <2> QED
    BY <2>1, <2>2 DEF RowsOfBatch
<1>4. sent' = sent \o RowsOfBatch(rows) /\ sent \in Seq(Nat)
  BY DEF Yield, RowsOfBatch, ReadType
<1>5. PICK t \in Seq(Nat) : t = RowsOfBatch(rows)
  BY <1>3
<1>6. Len(sent') = Len(sent) + Len(t) /\ Len(sent) \in Nat
  BY <1>4, <1>5, ConcatIs
<1>7. ASSUME NEW i \in 1..Len(t) PROVE sent'[Len(sent) + i] = t[i]
  <2>1. sent' = sent \o t
    BY <1>4, <1>5
  <2>2. Len(sent) + i \in 1..(Len(sent) + Len(t)) /\ ~(Len(sent) + i <= Len(sent))
        /\ (Len(sent) + i) - Len(sent) = i
    BY <1>6
  <2> QED
    BY <1>4, <2>1, <2>2, ConcatProperties
<1> QED
  BY <1>1, <1>2, <1>3, <1>5, <1>6, <1>7

LEMMA StreamInit == Init => Stream!Init
<1> SUFFICES ASSUME Init PROVE Stream!Init
  OBVIOUS
<1>1. req.batch \in Nat \ {0}
  BY RequestFacts DEF Init, PlanInit
<1> QED
  BY <1>1 DEF Init, ReadInit, Stream!Init, Turn, Intact, Joined

\* The segments of a task lie one behind the other.
LEMMA TaskOrdered ==
  ASSUME PlanInv, NEW t \in 1..Len(tasks)
  PROVE  tasks[t] # <<>> /\ Stream!Ordered(tasks[t])
<1>1. t \in Nat /\ Len(tasks[t]) > 0
  BY DEF PlanInv, PlanType, TaskInv
<1>2. ASSUME NEW i \in 1..Len(tasks[t]) PROVE tasks[t][i].from < tasks[t][i].to
  <2>1. Cell(t, i)
    BY DEF Cell
  <2> QED
    BY <2>1 DEF PlanInv, TaskInv, Part, IsRange
<1>3. ASSUME NEW i \in 1..Len(tasks[t]), NEW j \in 1..Len(tasks[t]), i < j
      PROVE  \/ tasks[t][i].root < tasks[t][j].root
             \/ tasks[t][i].root = tasks[t][j].root /\ tasks[t][i].to <= tasks[t][j].from
  <2>1. Cell(t, i) /\ Cell(t, j) /\ Earlier(t, i, t, j)
    BY <1>3 DEF Cell, Earlier
  <2> QED
    BY <2>1 DEF PlanInv, TaskInv, Before
<1> QED
  BY <1>1, <1>2, <1>3 DEF Stream!Ordered

LEMMA StreamStart ==
  ASSUME IInv, StartTask, UNCHANGED planVars
  PROVE  Stream!Next
<1>1. task' \in 1..Len(tasks) /\ tasks' = tasks /\ req' = req /\ status = "idle" /\ status' = "between"
      /\ UNCHANGED <<seg, batch, sent>>
  BY DEF StartTask, planVars
<1>2. Chosen' = tasks[task']
  BY <1>1 DEF Chosen
<1>3. Chosen' # <<>> /\ Stream!Ordered(Chosen')
  BY <1>1, <1>2, TaskOrdered DEF IInv
<1>4. Stage = "waiting" /\ Stage' = "running"
  BY <1>1, StageIs, StageNext
<1>5. seg = 0 /\ Len(batch.rows) = 0
  BY <1>1 DEF IInv, ReadInv, Ctl, BatchInv
<1>6. Joined' = Joined /\ Turn' = Turn /\ Intact' = Intact
  BY <1>1, <1>5 DEF Joined, Turn, Intact
<1>7. Stream!Start
  BY <1>1, <1>3, <1>4, <1>6
  DEF Stream!Start, Stream!Ordered, Chosen, Stage, Joined, ShotsAt, Turn, Intact
<1> QED
  BY <1>7 DEF Stream!Next

TurnsInside == seg > 0 => \A k \in Cams : TurnOf(k) \in (Segment.from + 1)..Segment.to

LEMMA TurnsAre == IInv => TurnsInside
  BY SegIsOK, TurnIs DEF IInv, ReadInv, TurnsInside

LEMMA TurnsNext == IInv' => TurnsInside'
  BY TurnsAre, PTL

LEMMA StreamOpen ==
  ASSUME IInv, IInv', OpenSegment, UNCHANGED planVars
  PROVE  Stream!Next
<1>1. /\ status = "between" /\ seg < Len(tasks[task]) /\ status' = "reading" /\ seg' = seg + 1
      /\ sent' = <<>> /\ batch' = [rows |-> <<>>, labels |-> <<>>, frames |-> [k \in Cams |-> <<>>]]
      /\ UNCHANGED <<req, tasks, task>>
  BY DEF OpenSegment, planVars
<1>2. Stream!Rest = 0
  <2>1. seg # 0 => Segment.to \in Nat /\ Segment.from \in Nat /\ Len(sent) = Segment.to - Segment.from
    <3>1. seg # 0 => seg > 0
      BY DEF IInv, ReadType
    <3> QED
      BY <1>1, <3>1, SegIsOK DEF IInv, ReadInv, SentInv, SegOK, Segments
  <2> QED
    BY <1>1, <2>1, RestIs
<1>3. Chosen = tasks[task] /\ Chosen' = Chosen
  BY <1>1 DEF Chosen
<1>4. Stage = "running" /\ Stage' = "running"
  BY <1>1, StageIs, StageNext
<1>5. Joined' = <<>>
  BY <1>1 DEF Joined
<1>6. Turn' \in [Cams -> (Chosen[seg + 1].from + 1)..Chosen[seg + 1].to]
  <2>1. seg \in Nat /\ seg' > 0 /\ Segment' = Chosen[seg + 1]
    BY <1>1, <1>3 DEF IInv, ReadType, Segment
  <2>2. \A k \in Cams : TurnOf(k)' \in (Segment'.from + 1)..Segment'.to
    BY <2>1, TurnsNext DEF TurnsInside
  <2>3. Turn' = [k \in Cams |-> TurnOf(k)']
    BY <2>1 DEF Turn
  <2> QED
    BY <2>1, <2>2, <2>3
<1>7. Intact' \in BOOLEAN
  BY DEF Intact, SegmentComplete
<1>8. Stream!Open
  BY <1>1, <1>2, <1>3, <1>4, <1>5, <1>6, <1>7
  DEF Stream!Open, Chosen, Stage, Joined, ShotsAt, Turn, Intact
<1> QED
  BY <1>8 DEF Stream!Next

LEMMA StreamFinish ==
  ASSUME IInv, FinishTask, UNCHANGED planVars
  PROVE  Stream!Next
<1>1. /\ status = "between" /\ seg = Len(tasks[task]) /\ status' = "done"
      /\ UNCHANGED <<req, tasks, task, seg, batch, sent>>
  BY DEF FinishTask, planVars
<1>2. Stream!Rest = 0
  <2>1. seg # 0 => Segment.to \in Nat /\ Segment.from \in Nat /\ Len(sent) = Segment.to - Segment.from
    <3>1. seg # 0 => seg > 0
      BY DEF IInv, ReadType
    <3> QED
      BY <1>1, <3>1, SegIsOK DEF IInv, ReadInv, SentInv, SegOK, Segments
  <2> QED
    BY <1>1, <2>1, RestIs
<1>3. Chosen = tasks[task] /\ Chosen' = Chosen
  BY <1>1 DEF Chosen
<1>4. Stage = "running" /\ Stage' = "done"
  BY <1>1, StageIs, StageNext
<1>5. Joined' = Joined /\ Turn' = Turn /\ Intact' = Intact
  BY <1>1, SameJoined, SameVideos
<1>6. Stream!Finish
  BY <1>1, <1>2, <1>3, <1>4, <1>5
  DEF Stream!Finish, Chosen, Stage, Joined, ShotsAt, Turn, Intact
<1> QED
  BY <1>6 DEF Stream!Next

\* A failure, or a cancellation.
LEMMA StreamBreak ==
  ASSUME status \in {"between", "reading"}, status' \in {"cancelled", "exhausted", "cut"},
         UNCHANGED <<req, tasks, task, seg, batch, sent>>
  PROVE  Stream!Next
<1>1. Stage = "running" /\ Stage' = "broken"
  BY StageIs, StageNext
<1>2. Chosen' = Chosen
  BY DEF Chosen
<1>3. Joined' = Joined /\ Turn' = Turn /\ Intact' = Intact
  BY SameJoined, SameVideos
<1>4. Stream!Break
  BY <1>1, <1>2, <1>3 DEF Stream!Break, Chosen, Stage, Joined, ShotsAt, Turn, Intact
<1> QED
  BY <1>4 DEF Stream!Next

\* A yield hands over the rows that come next.
LEMMA StreamYield ==
  ASSUME IInv, IInv', ShotInv', status \in {"between", "reading"}, status' \in {"between", "reading"}, seg > 0,
         UNCHANGED <<req, tasks, task, seg>>,
         NEW rows, NEW strings, Yield(rows, strings),
         \A i \in 1..Len(rows) : rows[i].row = Segment.from + Len(sent) + i - 1,
         Len(rows) \in 1..req.batch,
         Len(sent) + Len(rows) <= Segment.to - Segment.from,
         Len(rows) = req.batch \/ Len(sent) + Len(rows) = Segment.to - Segment.from
  PROVE  Stream!Next
<1>1. SegOK /\ Segment.from \in Nat /\ Segment.to \in Nat /\ Len(sent) \in Nat /\ seg \in Nat
  <2>1. SegOK
    BY SegIsOK DEF IInv, ReadInv
  <2> QED
    BY <2>1 DEF IInv, ReadType, SegOK, Segments
<1>2. ReadType /\ ReadType' /\ BatchInv'
  BY DEF IInv, ReadInv
<1>3. batch'.rows = rows /\ Len(rows) \in Nat /\ Len(sent') = Len(sent) + Len(rows)
  BY <1>2, SentIs
<1>4. PICK a \in Nat : a = Segment.from + Len(sent)
  BY <1>1
<1>5. \A i \in 1..Len(batch'.rows) : batch'.rows[i].row = a + i - 1
  BY <1>3, <1>4
<1>6. Turn' = Turn /\ Intact' = Intact /\ BatchFits'
  BY SameVideos, FittingNext
<1>a. PICK shots \in [1..Len(rows) -> [Cams -> Stream!Kinds]] :
        /\ \A i \in 1..Len(rows) : Stream!Fit(a + i - 1, shots[i])
        /\ Joined' = [i \in 1..Len(rows) |-> Stream!Joint(a + i - 1, shots[i])]
  BY <1>2, <1>3, <1>5, <1>6, JoinedIs
<1>7. Chosen = tasks[task] /\ Chosen' = Chosen /\ Chosen[seg] = Segment
  BY DEF Chosen, Segment
<1>8. /\ \A i \in 1..Len(rows) : Stream!Fit(Chosen[seg].from + Len(sent) + i - 1, shots[i])
      /\ Joined' = [i \in 1..Len(rows) |-> Stream!Joint(Chosen[seg].from + Len(sent) + i - 1, shots[i])]
  BY <1>4, <1>a, <1>7
<1>9. Stream!Rest = Segment.to - Segment.from - Len(sent)
  BY <1>1, RestIs
<1>10. Len(rows) <= Stream!Rest /\ (Len(rows) = req.batch \/ Len(rows) = Stream!Rest)
  BY <1>1, <1>3, <1>9
<1>11. Stage = "running" /\ Stage' = "running"
  BY StageIs, StageNext
<1> QED
  BY <1>3, <1>6, <1>7, <1>8, <1>10, <1>11, Handing

LEMMA StreamRow ==
  ASSUME IInv, IInv', ShotInv', NotFull, FinishRow, UNCHANGED planVars, Len(labels) + 1 >= req.batch
  PROVE  Stream!Next
<1> DEFINE rows == parts \o Slice(first, row + 1)
           strings == Append(labels, row)
<1>1. /\ status = "reading" /\ status' = status /\ UNCHANGED <<req, tasks, task, seg>>
      /\ Yield(rows, strings) /\ labels' = <<>> /\ row' = row + 1
  BY DEF FinishRow, AtRow, planVars
<1> HIDE DEF rows
<1>2. /\ seg > 0 /\ Segment.from \in Nat /\ Segment.to \in Nat /\ row \in Nat /\ Len(labels) \in Nat
      /\ labels \in Seq(Nat) /\ Len(sent) \in Nat /\ req.batch \in Nat \ {0}
  <2>1. PlanInv /\ ReadType /\ ReadInv /\ req \in Requests
    BY DEF IInv, PlanInv, PlanType
  <2>2. req.batch \in Nat \ {0}
    BY <2>1, RequestFacts
  <2>3. labels \in Seq(Nat) /\ sent \in Seq(Nat)
    BY <2>1 DEF ReadType
  <2> QED
    BY <1>1, <2>1, <2>2, <2>3, ReadingFacts
<1>3. Len(labels) < req.batch
  BY <1>1 DEF NotFull
<1>4. /\ batch'.rows = rows /\ Len(rows) \in Nat /\ Len(sent') = Len(sent) + Len(rows)
      /\ \A i \in 1..Len(rows) : sent'[Len(sent) + i] = rows[i].row
  BY <1>1, SentIs DEF IInv
<1>5. Len(rows) = Len(labels) + 1
  <2>1. Len(batch'.labels) = Len(batch'.rows)
    BY DEF IInv, ReadInv, BatchInv
  <2>2. batch'.labels = strings /\ Len(strings) = Len(labels) + 1
    BY <1>1, <1>2 DEF Yield
  <2> QED
    BY <1>4, <2>1, <2>2
<1>6. /\ Len(sent') = (row + 1) - Segment.from /\ row + 1 <= Segment.to
      /\ \A i \in 1..Len(sent') : sent'[i] = Segment.from + i - 1
  <2>1. Buffers' /\ Yielded' /\ Segment' = Segment
    BY <1>1, SameSegment DEF IInv, ReadInv, AlignInv
  <2>2. Base' = row + 1
    BY <1>1, <1>2 DEF Base
  <2>3. row' <= Segment.to
    BY <2>1 DEF Buffers
  <2>4. \A i \in 1..Len(sent') : sent'[i] = Segment.from + i - 1
    BY <2>1 DEF Yielded
  <2>5. row + 1 <= Segment.to
    BY <1>1, <2>3
  <2>6. Len(sent') = (row + 1) - Segment.from
    <3>1. Len(sent') = Base' - Segment'.from
      BY <2>1 DEF Yielded
    <3> QED
      BY <2>1, <2>2, <3>1
  <2> QED
    BY <2>4, <2>5, <2>6
<1>7. ASSUME NEW i \in 1..Len(rows) PROVE rows[i].row = Segment.from + Len(sent) + i - 1
  <2>1. Len(sent) + i \in 1..Len(sent')
    BY <1>2, <1>4
  <2>2. sent'[Len(sent) + i] = Segment.from + (Len(sent) + i) - 1
    BY <1>6, <2>1
  <2>3. rows[i].row = Segment.from + (Len(sent) + i) - 1
    BY <1>4, <2>2
  <2>4. \A a, m, j \in Nat : a + (m + j) - 1 = a + m + j - 1
    OBVIOUS
  <2>5. i \in Nat
    BY <1>4
  <2> QED
    BY <1>2, <2>3, <2>4, <2>5
<1>8. Len(rows) = req.batch /\ Len(rows) \in 1..req.batch
  BY <1>2, <1>3, <1>5
<1>9. Len(sent) + Len(rows) <= Segment.to - Segment.from
  BY <1>2, <1>4, <1>6
<1> HIDE DEF strings
<1> QED
  BY <1>1, <1>2, <1>7, <1>8, <1>9, StreamYield

LEMMA StreamLast ==
  ASSUME IInv, IInv', ShotInv', NotFull, FinishSegment, UNCHANGED planVars, parts' # <<>>
  PROVE  Stream!Next
<1>1. /\ status = "reading" /\ status' = "between" /\ UNCHANGED <<req, tasks, task, seg>>
      /\ Yield(parts', labels) /\ row = Segment.to /\ parts' = parts \o Slice(first, row)
  BY DEF FinishSegment, planVars
<1>2. /\ seg > 0 /\ SegOK /\ Buffers /\ Yielded /\ Segment.from \in Nat /\ Segment.to \in Nat
      /\ row \in Nat /\ Base \in Nat /\ Len(labels) \in Nat /\ row <= row /\ row <= Segment.to
      /\ Len(sent) \in Nat /\ req.batch \in Nat \ {0}
  <2>1. PlanInv /\ ReadType /\ ReadInv /\ req \in Requests
    BY DEF IInv, PlanInv, PlanType
  <2>2. req.batch \in Nat \ {0}
    BY <2>1, RequestFacts
  <2>3. labels \in Seq(Nat) /\ sent \in Seq(Nat)
    BY <2>1 DEF ReadType
  <2> QED
    BY <1>1, <2>1, <2>2, <2>3, ReadingFacts
<1>3. Len(labels) < req.batch
  BY <1>1 DEF NotFull
<1>4. \A x \in row..(row - 1) : Meta.data[EpisodeOf(Meta, x)] = table
  BY <1>2
<1>5. PICK rows \in Seq(Rows) :
        /\ rows = parts' /\ Len(rows) = Len(labels) + (row - row)
        /\ \A i \in 1..Len(rows) : rows[i].row = Base + i - 1
  BY <1>1, <1>2, <1>4, BufferIs DEF IInv
<1>6. Len(rows) = Len(labels) /\ rows # <<>> /\ Len(rows) \in 1..req.batch
  BY <1>2, <1>3, <1>5
<1>7. Base = Segment.from + Len(sent)
  BY <1>2 DEF Yielded
<1>8. \A i \in 1..Len(rows) : rows[i].row = Segment.from + Len(sent) + i - 1
  BY <1>5, <1>7
<1>9. /\ Len(sent) + Len(rows) = Segment.to - Segment.from
      /\ Len(sent) + Len(rows) <= Segment.to - Segment.from
  <2>1. row - Len(labels) = Segment.from + Len(sent)
    BY <1>7 DEF Base
  <2>2. row = Segment.to
    BY <1>1
  <2>3. PICK r \in Nat, f \in Nat, m \in Nat, n \in Nat :
          r = row /\ f = Segment.from /\ m = Len(sent) /\ n = Len(labels)
    BY <1>2
  <2>4. r - n = f + m
    BY <2>1, <2>3
  <2>5. m + n = r - f
    BY <2>4
  <2> QED
    BY <1>6, <2>2, <2>3, <2>5
<1>10. Yield(rows, labels)
  BY <1>1, <1>5
<1> QED
  BY <1>1, <1>2, <1>6, <1>8, <1>9, <1>10, StreamYield

\* Every step of the reader is one of the stream, or no step of it.
LEMMA StreamStep == IInv /\ IInv' /\ ShotInv' /\ NotFull /\ [Next]_vars => [Stream!Next]_(Stream!vars)
<1> SUFFICES ASSUME IInv, IInv', ShotInv', NotFull, [Next]_vars PROVE Stream!Next \/ UNCHANGED Stream!vars
  OBVIOUS
<1>1. CASE PlanNext /\ UNCHANGED readVars
  <2>1. status = "idle"
    <3>1. phase # "planned"
      BY <1>1 DEF PlanNext, SliceRoot, NextRange, AllSliced, OpenGroup, FillGroup, AllGrouped
    <3> QED
      BY <3>1 DEF IInv, ReadInv, Ctl
  <2>2. req' = req
    BY <1>1 DEF PlanNext, SliceRoot, NextRange, AllSliced, OpenGroup, FillGroup, AllGrouped
  <2>3. seg = 0 /\ Len(batch.rows) = 0
    BY <2>1 DEF IInv, ReadInv, Ctl, BatchInv
  <2> QED
    BY <1>1, <2>1, <2>2, <2>3, StutteringEarly DEF readVars, Chosen, Stage
<1>2. CASE ReadNext /\ UNCHANGED planVars
  <2> USE <1>2
  <2>1. CASE StartTask
    BY <2>1, StreamStart
  <2>2. CASE OpenSegment
    BY <2>2, StreamOpen
  <2>3. CASE FinishRow
    <3>1. CASE Len(labels) + 1 >= req.batch
      BY <2>3, <3>1, StreamRow
    <3>2. CASE ~(Len(labels) + 1 >= req.batch)
      BY <2>3, <3>2, Stuttering DEF FinishRow, AtRow, Chosen, Stage, planVars
    <3> QED
      BY <3>1, <3>2
  <2>4. CASE NextTable
    BY <2>4, Stuttering DEF NextTable, Chosen, Stage, planVars
  <2>5. CASE FinishSegment
    <3>1. CASE parts' # <<>>
      BY <2>5, <3>1, StreamLast
    <3>2. CASE parts' = <<>>
      BY <2>5, <3>2, Stuttering DEF FinishSegment, Chosen, Stage, planVars
    <3> QED
      BY <3>1, <3>2
  <2>6. CASE FinishTask
    BY <2>6, StreamFinish
  <2>7. CASE Interrupt
    BY <2>7, StreamBreak DEF Interrupt, planVars
  <2>8. ASSUME NEW k \in Cams, CamNext(k) PROVE Stream!Next \/ UNCHANGED Stream!vars
    <3>1. CASE FirstFrame(k) \/ NextFrame(k) \/ NextFile(k) \/ TakeFrame(k) \/ InterruptRead(k)
      <4>1. UNCHANGED <<req, tasks, status, task, seg, batch, sent>>
        BY <3>1 DEF FirstFrame, NextFrame, NextFile, TakeFrame, InterruptRead, planVars
      <4> QED
        BY <4>1, Stuttering DEF Chosen, Stage
    <3>2. CASE Exhaust(k) \/ StopStream(k) \/ InterruptOpen(k)
      BY <3>2, StreamBreak
      DEF Exhaust, StopStream, InterruptOpen, Pulling, Behind, Seeking, AtRow, planVars
    <3> QED
      BY <2>8, <3>1, <3>2 DEF CamNext
  <2> QED
    BY <2>1, <2>2, <2>3, <2>4, <2>5, <2>6, <2>7, <2>8 DEF ReadNext
<1>3. CASE UNCHANGED vars
  BY <1>3, Stuttering DEF vars, planVars, readVars, Chosen, Stage
<1> QED
  BY <1>1, <1>2, <1>3 DEF Next, Over

\* A read task is a stream of its rows: whatever the tables, video files, buffers and
\* cancellations, Ray Data gets every row of every segment in order, once, in batches that
\* are full except for the last of a segment, with the task string of each row.  The frame
\* delivered with a row is its own while its camera is in its first file of the segment;
\* after that it is its own or one of an earlier file, if the videos have all their frames.
THEOREM ImplementsRowStream == Spec => StreamSpec
<1>1. Spec => Stream!Init
  BY StreamInit DEF Spec
<1>2. Spec => []ShotInv
  BY ShotInit, ShotStep, InvariantHolds, PTL DEF Spec
<1>3. Spec => [][Stream!Next]_(Stream!vars)
  BY <1>2, InvariantHolds, BuffersNeverFull, StreamStep, PTL DEF Spec
<1> QED
  BY <1>1, <1>3, PTL DEF StreamSpec, Stream!Spec
=============================================================================
