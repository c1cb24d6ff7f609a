----------------------------- MODULE LeRobotRead -----------------------------
(***************************************************************************)
(* A LeRobotReadTask of the plan at work (tools/lerobot_datasource.py):    *)
(* _read streams the segments of its task one after the other, and         *)
(* _read_segment walks the parquet rows and, beside them, one stream of    *)
(* decoded frames per camera, until the frame of each row is reached.      *)
(* Rows are yielded in batches.  Ray may cancel the task at any moment by  *)
(* a KeyboardInterrupt.                                                    *)
(*                                                                         *)
(* Tasks share nothing, so one of them, chosen when the plan is ready,     *)
(* stands for all.  Time is counted in frames, so "within half a frame of  *)
(* the target" is equality.  Of a frame, a parquet row and a task string   *)
(* only the row they belong to is kept, of an action chunk only the row    *)
(* whose action ends it.  Decoder, storage and Arrow are external.         *)
(***************************************************************************)
EXTENDS LeRobotPlan

CONSTANT NoFrame   \* cur[k] before the first frame

VARIABLES
  status,   \* "idle", "between" segments, "reading", or how the task ended: "done",
            \* "cancelled", "exhausted" (RuntimeError), "cut" (a file failed to open)
  task,     \* the task that is read
  seg,      \* its current segment
  row,      \* the row whose frames are being looked for
  table,    \* the parquet file being read, pq_table
  first,    \* seg_start, as a row of the dataset
  cur,      \* per camera: the frame at hand, as its file run and its time in that file
  eof,      \* cancelled of the camera's _CancelSafeFile
  frames,   \* frame_buffers
  labels,   \* task_list
  parts,    \* pq_buffer, as its rows
  batch,    \* the batch yielded last
  sent      \* the rows of this segment yielded so far

Rows == [row : Nat, chunk : Nat]
Shots == [run : Nat, time : Nat]
Frames == [for : Nat, run : Nat, time : Nat]

ASSUME NoFrameAssumption == NoFrame \notin Shots

ReadType ==
  /\ status \in {"idle", "between", "reading", "done", "cancelled", "exhausted", "cut"}
  /\ task \in Nat
  /\ seg \in Nat
  /\ row \in Nat
  /\ table \in Nat
  /\ first \in Nat
  /\ cur \in [Cams -> Shots \cup {NoFrame}]
  /\ eof \in [Cams -> BOOLEAN]
  /\ frames \in [Cams -> Seq(Frames)]
  /\ labels \in Seq(Nat)
  /\ parts \in Seq(Rows)
  /\ batch \in [rows : Seq(Rows), labels : Seq(Nat), frames : [Cams -> Seq(Frames)]]
  /\ sent \in Seq(Nat)

TypeOK == PlanType /\ ReadType

readVars == <<status, task, seg, row, table, first, cur, eof, frames, labels, parts, batch, sent>>
vars == <<planVars, readVars>>

Ended == {"done", "cancelled", "exhausted", "cut"}

Segment == tasks[task][seg]
Meta == req.metas[Segment.root]

EpisodeOf(d, x) == CHOOSE e \in Episodes(d) : From(d, e) <= x /\ x < To(d, e)

\* _episodes_for_row_range: the first and the last episode the segment touches.
StartEp == EpisodeOf(Meta, Segment.from)
LastEp == EpisodeOf(Meta, Segment.to - 1)

\* _segment_boundaries: the stream of a camera opens a file at each of these episodes.
Boundary(k, e) == e = StartEp \/ Meta.file[k][e] # Meta.file[k][e - 1]

\* The rows of a segment's parquet file, and the last row of the episode among them, where
\* _chunk_action_column ends the chunk of row x.
InTable(x, file) ==
  Segment.from <= x /\ x < Segment.to /\ Meta.data[EpisodeOf(Meta, x)] = file

\* Mutant: chunks run on into the next episode of the table.
ChunkEndOfTable(x, file) ==
  CHOOSE y \in x..(Segment.to - 1) :
    InTable(y, file) /\ \A z \in (y + 1)..(Segment.to - 1) : ~InTable(z, file)

ChunkEnd(x, file) ==
  CHOOSE y \in x..(Segment.to - 1) :
    /\ InTable(y, file)
    /\ EpisodeOf(Meta, y) = EpisodeOf(Meta, x)
    /\ \A z \in (y + 1)..(Segment.to - 1) : InTable(z, file) => EpisodeOf(Meta, z) # EpisodeOf(Meta, x)

\* Mutant: the last row of a slice is left out.
SliceShort(a, b) ==
  [i \in 1..(b - a - 1) |-> [row |-> a + i - 1, chunk |-> ChunkEnd(a + i - 1, table)]]

\* Rows a..b-1 of the current table, as pq_table.slice gives them.
Slice(a, b) == [i \in 1..(b - a) |-> [row |-> a + i - 1, chunk |-> ChunkEnd(a + i - 1, table)]]

Target(k) ==
  Meta.ts[k][EpisodeOf(Meta, row)] + row - From(Meta, EpisodeOf(Meta, row))

----------------------------------------------------------------------------

ReadInit ==
  /\ status = "idle"
  /\ task = 0
  /\ seg = 0
  /\ row = 0
  /\ table = 0
  /\ first = 0
  /\ cur = [k \in Cams |-> NoFrame]
  /\ eof = [k \in Cams |-> FALSE]
  /\ frames = [k \in Cams |-> <<>>]
  /\ labels = <<>>
  /\ parts = <<>>
  /\ batch = [rows |-> <<>>, labels |-> <<>>, frames |-> [k \in Cams |-> <<>>]]
  /\ sent = <<>>

\* Ray runs a task of the plan.
StartTask ==
  /\ phase = "planned"
  /\ status = "idle"
  /\ task' \in 1..Len(tasks)
  /\ status' = "between"
  /\ UNCHANGED <<seg, row, table, first, cur, eof, frames, labels, parts, batch, sent>>

\* _read_segment up to its loop, with the first parquet file.
OpenSegment ==
  /\ status = "between"
  /\ seg < Len(tasks[task])
  /\ status' = "reading"
  /\ seg' = seg + 1
  /\ LET next == tasks[task][seg + 1]
         d == req.metas[next.root]
     IN /\ row' = next.from
        /\ first' = next.from
        /\ table' = d.data[EpisodeOf(d, next.from)]
  /\ cur' = [k \in Cams |-> NoFrame]
  /\ eof' = [k \in Cams |-> FALSE]
  /\ frames' = [k \in Cams |-> <<>>]
  /\ labels' = <<>>
  /\ parts' = <<>>
  /\ batch' = [rows |-> <<>>, labels |-> <<>>, frames |-> [k \in Cams |-> <<>>]]
  /\ sent' = <<>>
  /\ UNCHANGED task

\* The loop is at a row of the current table.
AtRow == status = "reading" /\ row < Segment.to /\ Meta.data[EpisodeOf(Meta, row)] = table

Seeking(k) ==
  /\ AtRow
  /\ Len(frames[k]) = Len(labels)

\* The first next(): the file is opened and sought to the keyframe at or before the start
\* of the segment's first episode.
FirstFrame(k) ==
  /\ Seeking(k)
  /\ cur[k] = NoFrame
  /\ \E t \in 0..Smaller(Meta.ts[k][StartEp], Meta.frames[k][StartEp] - 1) :
       cur' = [cur EXCEPT ![k] = [run |-> StartEp, time |-> t]]
  /\ UNCHANGED <<status, task, seg, row, table, first, eof, frames, labels, parts, batch, sent>>

\* Mutant: one frame too far.
BehindOrAt(k) == Seeking(k) /\ cur[k] # NoFrame /\ cur[k].time <= Target(k)

\* The frame at hand is before the target.
Behind(k) == Seeking(k) /\ cur[k] # NoFrame /\ cur[k].time < Target(k)

\* Another frame is asked for.
Pulling(k) == Seeking(k) /\ (cur[k] = NoFrame \/ Behind(k))

FileLeft(k) == cur[k].time + 1 < Meta.frames[k][cur[k].run]

\* The decoder is at the end of the file, or was told so.
FileOver(k) == ~FileLeft(k) \/ eof[k]

\* Mutant: a swallowed interrupt is not noticed.
NeverStopped(k) == FALSE

\* The check of _frame_stream that follows every packet.
Stopped(k) == eof[k]

\* The next frame of the file; after a swallowed interrupt, one that was already decoded.
NextFrame(k) ==
  /\ Behind(k)
  /\ FileLeft(k)
  /\ cur' = [cur EXCEPT ![k].time = @ + 1]
  /\ UNCHANGED <<status, task, seg, row, table, first, eof, frames, labels, parts, batch, sent>>

\* The file is over: the stream goes on at the beginning of the next one.
NextFile(k) ==
  /\ Behind(k)
  /\ FileOver(k)
  /\ ~Stopped(k)
  /\ \E e \in (cur[k].run + 1)..LastEp :
       /\ Boundary(k, e)
       /\ \A m \in (cur[k].run + 1)..(e - 1) : ~Boundary(k, m)
       /\ cur' = [cur EXCEPT ![k] = [run |-> e, time |-> 0]]
  /\ UNCHANGED <<status, task, seg, row, table, first, eof, frames, labels, parts, batch, sent>>

\* No file is left: _next_frame raises the RuntimeError about a truncated video.
Exhaust(k) ==
  /\ Behind(k)
  /\ FileOver(k)
  /\ ~Stopped(k)
  /\ \A e \in (cur[k].run + 1)..LastEp : ~Boundary(k, e)
  /\ status' = "exhausted"
  /\ UNCHANGED <<task, seg, row, table, first, cur, eof, frames, labels, parts, batch, sent>>

\* The frame at hand has reached the target and is taken for the row.
TakeFrame(k) ==
  /\ Seeking(k)
  /\ cur[k] # NoFrame
  /\ ~Behind(k)
  /\ frames' = [frames EXCEPT ![k] = Append(@, [for |-> row, run |-> cur[k].run, time |-> cur[k].time])]
  /\ UNCHANGED <<status, task, seg, row, table, first, cur, eof, labels, parts, batch, sent>>

Yield(rows, strings) ==
  /\ batch' = [rows |-> rows, labels |-> strings, frames |-> frames]
  /\ sent' = sent \o [i \in 1..Len(rows) |-> rows[i].row]

\* The row has its frames: its task string is added, and a full buffer is yielded.
FinishRow ==
  /\ AtRow
  /\ \A k \in Cams : Len(frames[k]) = Len(labels) + 1
  /\ row' = row + 1
  /\ IF Len(labels) + 1 >= req.batch
     THEN /\ Yield(parts \o Slice(first, row + 1), Append(labels, row))
          /\ parts' = <<>>
          /\ frames' = [k \in Cams |-> <<>>]
          /\ labels' = <<>>
          /\ first' = row + 1
     ELSE /\ labels' = Append(labels, row)
          /\ UNCHANGED <<first, frames, parts, batch, sent>>
  /\ UNCHANGED <<status, task, seg, table, cur, eof>>

\* The table is read: what is left of it is buffered, and the next parquet file is read.
NextTable ==
  /\ status = "reading"
  /\ row < Segment.to
  /\ ~AtRow
  /\ parts' = parts \o Slice(first, row)
  /\ first' = row
  /\ table' = Meta.data[EpisodeOf(Meta, row)]
  /\ UNCHANGED <<status, task, seg, row, cur, eof, frames, labels, batch, sent>>

\* The last table is read: the rows still buffered are the last batch of the segment.
FinishSegment ==
  /\ status = "reading"
  /\ row = Segment.to
  /\ parts' = parts \o Slice(first, row)
  /\ IF parts' # <<>>
     THEN Yield(parts', labels)
     ELSE UNCHANGED <<batch, sent>>
  /\ first' = row
  /\ status' = "between"
  /\ UNCHANGED <<task, seg, row, table, cur, eof, frames, labels>>

FinishTask ==
  /\ status = "between"
  /\ seg = Len(tasks[task])
  /\ status' = "done"
  /\ UNCHANGED <<task, seg, row, table, first, cur, eof, frames, labels, parts, batch, sent>>

----------------------------------------------------------------------------
(* Cancellation. *)

\* The interrupt lands in Python code, or in _frame_stream of a local file: _read returns.
Interrupt ==
  /\ status \in {"between", "reading"}
  /\ status' = "cancelled"
  /\ UNCHANGED <<task, seg, row, table, first, cur, eof, frames, labels, parts, batch, sent>>

\* It lands in a read() that the decoder of a remote file makes: _CancelSafeFile swallows it
\* and reports the end of the file.
InterruptRead(k) ==
  /\ Pulling(k)
  /\ Meta.remote
  /\ ~eof[k]
  /\ eof' = [eof EXCEPT ![k] = TRUE]
  /\ UNCHANGED <<status, task, seg, row, table, first, cur, frames, labels, parts, batch, sent>>

\* The check after a packet finds the flag: _ReadCancelled, and _read returns.
StopStream(k) ==
  /\ Pulling(k)
  /\ Stopped(k)
  /\ status' = "cancelled"
  /\ UNCHANGED <<task, seg, row, table, first, cur, eof, frames, labels, parts, batch, sent>>

\* It lands in a read() made by av.open, which is outside the try of _frame_stream: the
\* empty file fails to open and nothing catches that.
InterruptOpen(k) ==
  /\ Pulling(k)
  /\ Meta.remote
  /\ ~eof[k]
  /\ \/ cur[k] = NoFrame
     \/ cur[k] # NoFrame /\ ~FileLeft(k) /\ \E e \in (cur[k].run + 1)..LastEp : Boundary(k, e)
  /\ status' = "cut"
  /\ UNCHANGED <<task, seg, row, table, first, cur, eof, frames, labels, parts, batch, sent>>

CamNext(k) ==
  \/ FirstFrame(k) \/ NextFrame(k) \/ NextFile(k) \/ Exhaust(k) \/ TakeFrame(k)
  \/ InterruptRead(k) \/ StopStream(k) \/ InterruptOpen(k)

ReadNext ==
  \/ StartTask \/ OpenSegment \/ FinishRow \/ NextTable \/ FinishSegment
  \/ FinishTask \/ Interrupt
  \/ \E k \in Cams : CamNext(k)

\* The job is over: the task has ended, or there was no plan to run.
Over == (status \in Ended \/ phase = "invalid") /\ UNCHANGED vars

Init == PlanInit /\ ReadInit

Next == (PlanNext /\ UNCHANGED readVars) \/ (ReadNext /\ UNCHANGED planVars) \/ Over

Spec == Init /\ [][Next]_vars

----------------------------------------------------------------------------
(* Correctness of the reader. *)

\* The file run of a row: the last boundary at or before its episode.
RunOf(k, x) ==
  CHOOSE e \in StartEp..EpisodeOf(Meta, x) :
    Boundary(k, e) /\ \A m \in (e + 1)..EpisodeOf(Meta, x) : ~Boundary(k, m)

\* A yielded batch joins the columns of one and the same rows: the parquet slices, the
\* task strings and the frames of every camera were collected for the same rows in the
\* same order, and the batches of a segment are its rows in order, all of them once it is
\* read to its end.
BatchesAligned ==
  /\ Len(batch.labels) = Len(batch.rows)
  /\ \A k \in Cams : Len(batch.frames[k]) = Len(batch.rows)
  /\ \A i \in 1..Len(batch.rows) :
       /\ batch.labels[i] = batch.rows[i].row
       /\ \A k \in Cams : batch.frames[k][i].for = batch.rows[i].row
  /\ status = "reading" => \A i \in 1..Len(sent) : sent[i] = Segment.from + i - 1
  /\ (status \in {"between", "done"} /\ seg > 0) => Len(sent) = Segment.to - Segment.from

\* The video files of every episode hold all its frames.
Complete(d) ==
  \A k \in Cams : \A e \in Episodes(d) :
    d.ts[k][e] + To(d, e) - From(d, e) <= d.frames[k][e]

\* With complete videos no row gets a frame from ahead of its own: the frame kept for it
\* is exactly its own, or comes from an earlier file of the stream.  In the file the
\* segment starts in it is always its own.
FramesNeverAhead ==
  (seg > 0 /\ Complete(Meta)) =>
    \A k \in Cams : \A i \in 1..Len(frames[k]) :
      LET f == frames[k][i]
          e == EpisodeOf(Meta, f.for)
      IN \/ f.run < RunOf(k, f.for)
         \/ f.run = RunOf(k, f.for) /\ f.time = Meta.ts[k][e] + f.for - From(Meta, e)

\* A task reports an exhausted video only when a file really lacks frames of an episode it
\* reads: neither a cancellation nor a change of files is taken for a truncated video.
OnlyTruncationExhausts ==
  status = "exhausted" =>
    \E k \in Cams : \E e \in StartEp..LastEp :
      Meta.frames[k][e] < Meta.ts[k][e] + To(Meta, e) - From(Meta, e)

\* Action chunks are cut, and padded, where the episode ends and nowhere else, except by
\* row blocks, which may cut an episode: there at the end of the block.
ChunksEndWithEpisode ==
  \A i \in 1..Len(batch.rows) :
    LET r == batch.rows[i]
        end == To(Meta, EpisodeOf(Meta, r.row)) - 1
    IN r.chunk = IF req.mode = "row_block" THEN Smaller(end, Segment.to - 1) ELSE end

\* Every episode the segment touches has all its frames.
SegmentComplete ==
  \A k \in Cams : \A e \in StartEp..LastEp :
    Meta.ts[k][e] + To(Meta, e) - From(Meta, e) <= Meta.frames[k][e]

\* The first row of the segment that is not in the file its camera began with, if any.
TurnOf(k) ==
  CHOOSE x \in (Segment.from + 1)..Segment.to :
    /\ \A y \in Segment.from..(x - 1) : RunOf(k, y) = StartEp
    /\ x < Segment.to => RunOf(k, x) # StartEp

\* The frame delivered for row x, against the frame that is the row's own.
KindOf(k, x, f) ==
  LET e == EpisodeOf(Meta, x)
  IN CASE f.run = RunOf(k, x) /\ f.time = Meta.ts[k][e] + x - From(Meta, e) -> "own"
       [] f.run < RunOf(k, x) -> "earlier"
       [] OTHER -> "other"

\* A task implements RowStream: what it yields to Ray Data, whatever tables, video files
\* and buffers the rows come from, and whenever it fails or is cancelled.  The frames are
\* those that were delivered: a row's own, as the docstring of read_lerobot has it, or once
\* a camera has changed its file, one of an earlier file.
Stream ==
  INSTANCE RowStream WITH
    size <- req.batch,
    segments <- IF status = "idle" THEN <<>> ELSE tasks[task],
    at <- seg,
    sent <- Len(sent),
    turn <- IF seg = 0 THEN [k \in Cams |-> 0] ELSE [k \in Cams |-> TurnOf(k)],
    intact <- seg = 0 \/ SegmentComplete,
    batch <- [i \in 1..Len(batch.rows) |->
                [row |-> batch.rows[i].row,
                 label |-> batch.labels[i],
                 shots |-> [k \in Cams |-> KindOf(k, batch.rows[i].row, batch.frames[k][i])]]],
    state <- CASE status = "idle" -> "waiting"
               [] status \in {"between", "reading"} -> "running"
               [] status = "done" -> "done"
               [] OTHER -> "broken"

StreamSpec == Stream!Spec

\* Between two rows the buffers never hold a full batch.
NotFull == status = "reading" => Len(labels) < req.batch
=============================================================================
