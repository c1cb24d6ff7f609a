-------------------------- MODULE LeRobotReadProofs --------------------------
(***************************************************************************)
(* Theorems about LeRobotRead, for any datasets, cameras and requests.     *)
(***************************************************************************)
EXTENDS LeRobotRead, LeRobotPlanProofs, SequenceTheorems

----------------------------------------------------------------------------
(* Episodes, boundaries and chunks of a segment. *)

\* Every row lies in one episode.
LEMMA EpisodeOfIs ==
  ASSUME NEW d, IsDataset(d), NEW x \in RowsOf(d)
  PROVE  /\ EpisodeOf(d, x) \in Episodes(d)
         /\ From(d, EpisodeOf(d, x)) <= x /\ x < To(d, EpisodeOf(d, x))
         /\ \A e \in Episodes(d) : From(d, e) <= x /\ x < To(d, e) => e = EpisodeOf(d, x)
<1>1. /\ d.n \in Nat \ {0} /\ TotalFrames(d) \in Nat /\ From(d, 1) = 0 /\ To(d, d.n) = TotalFrames(d)
      /\ x \in Nat /\ x < TotalFrames(d)
  BY DatasetFacts DEF RowsOf
<1> DEFINE S == {e \in Episodes(d) : x < To(d, e)}
<1>2. PICK e \in S : \A a \in S : e <= a
  <2>1. d.n \in S /\ S \in SUBSET Nat
    BY <1>1 DEF Episodes
  <2> HIDE DEF S
  <2> QED
    BY <2>1, LeastIs
<1>3. e \in Episodes(d) /\ x < To(d, e) /\ e \in Nat /\ e >= 1
  BY <1>1 DEF Episodes
<1>4. From(d, e) <= x
  <2>1. CASE e = 1
    BY <1>1, <2>1
  <2>2. CASE e # 1
    <3>1. e - 1 \in Episodes(d) /\ e - 1 < e /\ e - 1 >= 1
      BY <1>1, <1>3, <2>2 DEF Episodes
    <3>2. e - 1 \notin S
      BY <1>2, <1>3, <3>1
    <3>3. To(d, e - 1) = From(d, e) /\ To(d, e - 1) \in Nat
      BY <3>1, DatasetFacts DEF To, From
    <3>4. ~(x < To(d, e - 1))
      BY <3>1, <3>2
    <3> QED
      BY <1>1, <3>3, <3>4
  <2> QED
    BY <2>1, <2>2
<1>5. ASSUME NEW a \in Episodes(d), NEW b \in Episodes(d),
             From(d, a) <= x, x < To(d, a), From(d, b) <= x, x < To(d, b)
      PROVE  a = b
  <2>1. ~(a < b) /\ ~(b < a)
    <3>1. /\ a < b => To(d, a) <= From(d, b)
          /\ b < a => To(d, b) <= From(d, a)
          /\ To(d, a) \in Nat /\ To(d, b) \in Nat /\ From(d, a) \in Nat /\ From(d, b) \in Nat
      BY DatasetFacts
    <3> QED
      BY <1>1, <1>5, <3>1
  <2> QED
    BY <1>1, <2>1 DEF Episodes
<1> QED
  BY <1>3, <1>4, <1>5 DEF EpisodeOf

\* The segment that is read is a range of its dataset.
SegOK ==
  /\ Segment \in Segments
  /\ IsDataset(Meta) /\ WellWritten(Meta)
  /\ IsRange(Meta, Segment)

InSeg(x) == x \in Nat /\ Segment.from <= x /\ x < Segment.to

LEMMA InSegFacts ==
  ASSUME SegOK, NEW x, InSeg(x)
  PROVE  /\ x \in RowsOf(Meta) /\ x \in Nat
         /\ EpisodeOf(Meta, x) \in Episodes(Meta) /\ EpisodeOf(Meta, x) \in Nat
         /\ From(Meta, EpisodeOf(Meta, x)) \in Nat /\ To(Meta, EpisodeOf(Meta, x)) \in Nat
         /\ From(Meta, EpisodeOf(Meta, x)) <= x /\ x < To(Meta, EpisodeOf(Meta, x))
         /\ \A e \in Episodes(Meta) :
              From(Meta, e) <= x /\ x < To(Meta, e) => e = EpisodeOf(Meta, x)
<1>1. x \in RowsOf(Meta) /\ x \in Nat
  BY DatasetFacts DEF SegOK, InSeg, IsRange, RowsOf
<1>2. EpisodeOf(Meta, x) \in Episodes(Meta)
  BY <1>1, EpisodeOfIs DEF SegOK
<1>3. EpisodeOf(Meta, x) \in Nat
  BY <1>2, DatasetFacts DEF SegOK, Episodes
<1> QED
  BY <1>1, <1>2, <1>3, EpisodeOfIs, DatasetFacts DEF SegOK

\* Rows and their episodes are in the same order.
LEMMA EpisodeOfMono ==
  ASSUME SegOK, NEW x, NEW y, InSeg(x), InSeg(y), x <= y
  PROVE  EpisodeOf(Meta, x) <= EpisodeOf(Meta, y)
<1> DEFINE a == EpisodeOf(Meta, x)
           b == EpisodeOf(Meta, y)
<1>1. /\ a \in Episodes(Meta) /\ b \in Episodes(Meta) /\ a \in Nat /\ b \in Nat /\ x \in Nat /\ y \in Nat
      /\ From(Meta, a) <= x /\ y < To(Meta, b) /\ From(Meta, a) \in Nat /\ To(Meta, b) \in Nat
  BY InSegFacts
<1>2. b < a => To(Meta, b) <= From(Meta, a)
  BY <1>1, DatasetFacts DEF SegOK
<1> HIDE DEF a, b
<1>3. a <= b
  BY <1>1, <1>2
<1> QED
  BY <1>3 DEF a, b

\* Where the chunk of a row is cut: at the end of its episode, or of the segment.
ChunkStop(x) == Smaller(To(Meta, EpisodeOf(Meta, x)) - 1, Segment.to - 1)

LEMMA ChunkEndIs ==
  ASSUME SegOK, NEW x, InSeg(x), NEW f, f = Meta.data[EpisodeOf(Meta, x)]
  PROVE  ChunkEnd(x, f) = ChunkStop(x) /\ ChunkStop(x) \in Nat
<1> DEFINE e == EpisodeOf(Meta, x)
           m == ChunkStop(x)
           P(y) == /\ InTable(y, f)
                   /\ EpisodeOf(Meta, y) = e
                   /\ \A z \in (y + 1)..(Segment.to - 1) : InTable(z, f) => EpisodeOf(Meta, z) # e
<1>1. /\ e \in Episodes(Meta) /\ x \in Nat /\ From(Meta, e) \in Nat /\ To(Meta, e) \in Nat
      /\ From(Meta, e) <= x /\ x < To(Meta, e)
      /\ Segment.from \in Nat /\ Segment.to \in Nat /\ Segment.from <= x /\ x < Segment.to
  BY InSegFacts DEF InSeg, SegOK, Segments
<1>2. /\ m \in Nat /\ x <= m /\ m < To(Meta, e) /\ m < Segment.to
      /\ m = To(Meta, e) - 1 \/ m = Segment.to - 1
  BY <1>1 DEF ChunkStop, Smaller
<1>3. ASSUME NEW y \in Nat, x <= y, y < Segment.to
      PROVE  /\ InSeg(y)
             /\ EpisodeOf(Meta, y) = e <=> y < To(Meta, e)
             /\ EpisodeOf(Meta, y) = e => InTable(y, f)
  <2>1. InSeg(y)
    BY <1>1, <1>3 DEF InSeg
  <2>2. EpisodeOf(Meta, y) = e => y < To(Meta, e)
    BY <2>1, InSegFacts
  <2>3. y < To(Meta, e) => EpisodeOf(Meta, y) = e
    BY <1>1, <1>3, <2>1, InSegFacts
  <2>4. EpisodeOf(Meta, y) = e => InTable(y, f)
    BY <1>1, <1>3 DEF InTable
  <2> QED
    BY <2>1, <2>2, <2>3, <2>4
<1> HIDE DEF m
<1>4. P(m) /\ m \in x..(Segment.to - 1)
  <2>1. InTable(m, f) /\ EpisodeOf(Meta, m) = e
    BY <1>1, <1>2, <1>3
  <2>2. ASSUME NEW z \in (m + 1)..(Segment.to - 1), InTable(z, f) PROVE EpisodeOf(Meta, z) # e
    <3>1. z \in Nat /\ x <= z /\ z < Segment.to /\ m < z
      BY <1>1, <1>2
    <3>2. ~(z < To(Meta, e))
      BY <1>1, <1>2, <3>1
    <3> QED
      BY <1>3, <3>1, <3>2
  <2> QED
    BY <1>1, <1>2, <2>1, <2>2
<1>5. ASSUME NEW y \in x..(Segment.to - 1), P(y) PROVE y = m
  <2>1. y \in Nat /\ x <= y /\ y < Segment.to /\ y < To(Meta, e)
    BY <1>1, <1>3, <1>5
  <2>2. y <= m
    BY <1>1, <1>2, <2>1
  <2>3. ~(y < m)
    <3>1. SUFFICES ASSUME y < m PROVE FALSE
      OBVIOUS
    <3>2. m \in (y + 1)..(Segment.to - 1)
      BY <1>1, <1>2, <2>1, <3>1
    <3> QED
      BY <1>4, <1>5, <3>2
  <2> QED
    BY <1>2, <2>1, <2>2, <2>3
<1>6. ChunkEnd(x, f) = CHOOSE y \in x..(Segment.to - 1) : P(y)
  BY DEF ChunkEnd
<1> HIDE DEF P
<1>7. ChunkEnd(x, f) = m
  BY <1>4, <1>5, <1>6
<1> QED
  BY <1>2, <1>7 DEF m

\* The rows a..b-1 of one parquet file, as they are sliced.
LEMMA SliceIs ==
  ASSUME SegOK, NEW a \in Nat, NEW b \in Nat, Segment.from <= a, a <= b, b <= Segment.to,
         \A x \in a..(b - 1) : Meta.data[EpisodeOf(Meta, x)] = table
  PROVE  /\ Slice(a, b) \in Seq(Rows)
         /\ Len(Slice(a, b)) = b - a
         /\ \A i \in 1..(b - a) : Slice(a, b)[i].row = a + i - 1 /\ Slice(a, b)[i].chunk = ChunkStop(a + i - 1)
<1>1. Segment.from \in Nat /\ Segment.to \in Nat /\ b - a \in Nat
  BY DEF SegOK, Segments
<1>2. ASSUME NEW i \in 1..(b - a)
      PROVE  ChunkEnd(a + i - 1, table) = ChunkStop(a + i - 1) /\ ChunkStop(a + i - 1) \in Nat /\ a + i - 1 \in Nat
  <2>1. a + i - 1 \in a..(b - 1) /\ InSeg(a + i - 1)
    BY <1>1 DEF InSeg
  <2> QED
    BY <2>1, ChunkEndIs DEF InSeg
<1>3. Slice(a, b) = [i \in 1..(b - a) |-> [row |-> a + i - 1, chunk |-> ChunkStop(a + i - 1)]]
  BY <1>2 DEF Slice
<1>4. \A i \in 1..(b - a) : [row |-> a + i - 1, chunk |-> ChunkStop(a + i - 1)] \in Rows
  BY <1>2 DEF Rows
<1>5. Slice(a, b) \in [1..(b - a) -> Rows]
  BY <1>3, <1>4
<1>6. Slice(a, b) \in Seq(Rows)
  BY <1>1, <1>5
<1>7. Len(Slice(a, b)) = b - a
  BY <1>1, <1>5
<1>8. ASSUME NEW i \in 1..(b - a)
      PROVE  Slice(a, b)[i].row = a + i - 1 /\ Slice(a, b)[i].chunk = ChunkStop(a + i - 1)
  BY <1>3
<1> QED
  BY <1>6, <1>7, <1>8
----------------------------------------------------------------------------
(* The video files of a segment. *)

TargetAt(k, x) ==
  Meta.ts[k][EpisodeOf(Meta, x)] + x - From(Meta, EpisodeOf(Meta, x))

LEMMA CamFacts ==
  ASSUME SegOK, NEW k \in Cams, NEW e \in Episodes(Meta)
  PROVE  Meta.file[k][e] \in Nat /\ Meta.ts[k][e] \in Nat /\ Meta.frames[k][e] \in Nat \ {0}
<1>1. /\ Meta.file \in [Cams -> [Episodes(Meta) -> Nat]]
      /\ Meta.ts \in [Cams -> [Episodes(Meta) -> Nat]]
      /\ Meta.frames \in [Cams -> [Episodes(Meta) -> Nat \ {0}]]
  BY DEF SegOK, IsDataset
<1> QED
  BY <1>1

LEMMA SegEpisodes ==
  ASSUME SegOK
  PROVE  /\ InSeg(Segment.from) /\ InSeg(Segment.to - 1)
         /\ StartEp \in Episodes(Meta) /\ LastEp \in Episodes(Meta) /\ StartEp \in Nat /\ LastEp \in Nat
         /\ Meta.n \in Nat /\ Episodes(Meta) = 1..Meta.n
         /\ Segment.from \in Nat /\ Segment.to \in Nat
         /\ \A x : InSeg(x) =>
              EpisodeOf(Meta, x) \in Nat /\ StartEp <= EpisodeOf(Meta, x) /\ EpisodeOf(Meta, x) <= LastEp
<1>1. Segment.from \in Nat /\ Segment.to \in Nat /\ Segment.from < Segment.to
  BY DEF SegOK, Segments, IsRange
<1>2. InSeg(Segment.from) /\ InSeg(Segment.to - 1)
  BY <1>1 DEF InSeg
<1>3. StartEp \in Episodes(Meta) /\ LastEp \in Episodes(Meta) /\ StartEp \in Nat /\ LastEp \in Nat
  BY <1>2, InSegFacts DEF StartEp, LastEp
<1>4. Meta.n \in Nat /\ Episodes(Meta) = 1..Meta.n
  BY DatasetFacts DEF SegOK, Episodes
<1>5. ASSUME NEW x, InSeg(x)
      PROVE  EpisodeOf(Meta, x) \in Nat /\ StartEp <= EpisodeOf(Meta, x) /\ EpisodeOf(Meta, x) <= LastEp
  <2>1. Segment.from <= x /\ x <= Segment.to - 1 /\ x \in Nat
    BY <1>1, <1>5 DEF InSeg
  <2>2. EpisodeOf(Meta, x) \in Nat
    BY <1>5, InSegFacts
  <2>3. StartEp <= EpisodeOf(Meta, x) /\ EpisodeOf(Meta, x) <= LastEp
    BY <1>2, <1>5, <2>1, EpisodeOfMono DEF StartEp, LastEp
  <2> QED
    BY <2>2, <2>3
<1> QED
  BY <1>1, <1>2, <1>3, <1>4, <1>5

\* Between boundaries the file stays the same.
LEMMA SameFile ==
  ASSUME SegOK, NEW k \in Cams, NEW a \in Nat, NEW b \in Nat,
         StartEp <= a, a <= b, b <= LastEp,
         \A m \in (a + 1)..b : ~Boundary(k, m)
  PROVE  \A m \in a..b : Meta.file[k][m] = Meta.file[k][a]
<1> SUFFICES ASSUME \E m \in a..b : Meta.file[k][m] # Meta.file[k][a] PROVE FALSE
  OBVIOUS
<1> DEFINE S == {m \in a..b : Meta.file[k][m] # Meta.file[k][a]}
<1>1. S \in SUBSET Nat /\ S # {}
  OBVIOUS
<1>2. PICK m \in S : \A y \in S : m <= y
  <2> HIDE DEF S
  <2> QED
    BY <1>1, LeastIs
<1>3. m \in a..b /\ m # a /\ Meta.file[k][m] # Meta.file[k][a]
  OBVIOUS
<1>4. m - 1 \in a..b /\ m - 1 < m /\ m \in (a + 1)..b
  BY <1>3
<1>5. Meta.file[k][m - 1] = Meta.file[k][a]
  BY <1>2, <1>4
<1> QED
  BY <1>3, <1>4, <1>5 DEF Boundary

\* The stream has a last boundary at or before every row.
LEMMA RunOfIs ==
  ASSUME SegOK, NEW k \in Cams, NEW x, InSeg(x)
  PROVE  /\ RunOf(k, x) \in Nat
         /\ StartEp <= RunOf(k, x) /\ RunOf(k, x) <= EpisodeOf(Meta, x)
         /\ Boundary(k, RunOf(k, x))
         /\ \A b \in StartEp..EpisodeOf(Meta, x) : Boundary(k, b) => b <= RunOf(k, x)
         /\ \A m \in RunOf(k, x)..EpisodeOf(Meta, x) : Meta.file[k][m] = Meta.file[k][RunOf(k, x)]
<1> DEFINE e == EpisodeOf(Meta, x)
           S == {b \in StartEp..e : Boundary(k, b)}
           P(b) == Boundary(k, b) /\ \A m \in (b + 1)..e : ~Boundary(k, m)
<1>1. e \in Nat /\ StartEp \in Nat /\ StartEp <= e /\ e <= LastEp /\ LastEp \in Nat
  BY SegEpisodes
<1>2. RunOf(k, x) = CHOOSE b \in StartEp..e : P(b)
  BY DEF RunOf
<1> HIDE DEF e
<1>3. PICK r \in S : \A b \in S : b <= r
  <2>1. S \in SUBSET Nat /\ \A b \in S : b <= e
    BY <1>1
  <2>2. StartEp \in S
    BY <1>1 DEF Boundary
  <2> HIDE DEF S
  <2> QED
    BY <1>1, <2>1, <2>2, GreatestIs
<1>4. r \in StartEp..e /\ r \in Nat /\ P(r)
  <2>1. r \in StartEp..e /\ r \in Nat /\ Boundary(k, r)
    BY <1>1
  <2>2. ASSUME NEW m \in (r + 1)..e PROVE ~Boundary(k, m)
    <3>1. m \in StartEp..e /\ ~(m <= r)
      BY <1>1, <2>1
    <3> QED
      BY <1>3, <3>1
  <2> QED
    BY <2>1, <2>2
<1>5. ASSUME NEW b \in StartEp..e, P(b) PROVE b = r
  <2>1. b \in Nat /\ b <= r
    BY <1>1, <1>3, <1>5
  <2>2. ~(b < r)
    <3>1. SUFFICES ASSUME b < r PROVE FALSE
      OBVIOUS
    <3>2. r \in (b + 1)..e
      BY <1>1, <1>4, <2>1, <3>1
    <3> QED
      BY <1>4, <1>5, <3>2
  <2> QED
    BY <1>4, <2>1, <2>2
<1> HIDE DEF P
<1>6. RunOf(k, x) = r
  BY <1>2, <1>4, <1>5
<1>7. Boundary(k, r) /\ \A m \in (r + 1)..e : ~Boundary(k, m)
  BY <1>4 DEF P
<1>8. \A m \in r..e : Meta.file[k][m] = Meta.file[k][r]
  BY <1>1, <1>4, <1>7, SameFile
<1> QED
  BY <1>1, <1>3, <1>4, <1>6, <1>7, <1>8 DEF e

\* From one row to the next the stream keeps its file or goes on to a later one, and in
\* one file the next frame is a later frame.
LEMMA NextRow ==
  ASSUME SegOK, NEW k \in Cams, NEW x, InSeg(x), InSeg(x + 1)
  PROVE  /\ RunOf(k, x) <= RunOf(k, x + 1)
         /\ RunOf(k, x) = RunOf(k, x + 1) => TargetAt(k, x) < TargetAt(k, x + 1)
<1> DEFINE a == EpisodeOf(Meta, x)
           b == EpisodeOf(Meta, x + 1)
           r == RunOf(k, x)
<1>1. /\ a \in Episodes(Meta) /\ b \in Episodes(Meta) /\ a \in Nat /\ b \in Nat /\ x \in Nat
      /\ From(Meta, a) <= x /\ x < To(Meta, a) /\ From(Meta, b) <= x + 1 /\ x + 1 < To(Meta, b)
      /\ From(Meta, a) \in Nat /\ To(Meta, a) \in Nat /\ From(Meta, b) \in Nat /\ To(Meta, b) \in Nat
  BY InSegFacts
<1>2. a <= b
  BY <1>1, EpisodeOfMono
<1>3. r \in Nat /\ StartEp <= r /\ r <= a /\ Boundary(k, r) /\ StartEp \in Nat
  BY RunOfIs, SegEpisodes
<1>4. r <= RunOf(k, x + 1)
  <2>1. r \in StartEp..b
    BY <1>1, <1>2, <1>3
  <2> QED
    BY <1>3, <2>1, RunOfIs
<1>5. ASSUME r = RunOf(k, x + 1) PROVE TargetAt(k, x) < TargetAt(k, x + 1)
  <2>1. /\ Meta.ts[k][a] \in Nat /\ Meta.ts[k][b] \in Nat
        /\ TargetAt(k, x) = Meta.ts[k][a] + x - From(Meta, a)
        /\ TargetAt(k, x + 1) = Meta.ts[k][b] + (x + 1) - From(Meta, b)
    BY <1>1, CamFacts DEF TargetAt
  <2>2. CASE a = b
    <3> HIDE DEF a, b, r
    <3> QED
      BY <1>1, <2>1, <2>2
  <2>3. CASE a < b
    <3>1. To(Meta, a) <= From(Meta, b)
      BY <1>1, <2>3, DatasetFacts DEF SegOK
    <3>2. \A m \in r..b : Meta.file[k][m] = Meta.file[k][r]
      BY <1>5, RunOfIs
    <3>3. \A m \in a..b : Meta.file[k][m] = Meta.file[k][a]
      BY <1>1, <1>3, <3>2
    <3>4. Meta.ts[k][a] + To(Meta, a) - From(Meta, a) <= Meta.ts[k][b]
      BY <1>1, <2>3, <3>3 DEF SegOK, WellWritten
    <3> HIDE DEF a, b, r
    <3> QED
      BY <1>1, <2>1, <3>1, <3>4
  <2> QED
    BY <1>1, <1>2, <2>2, <2>3
<1> QED
  BY <1>4, <1>5

\* With all its frames, the file of a row has the frame of the row.
LEMMA FileHasTarget ==
  ASSUME SegOK, SegmentComplete, NEW k \in Cams, NEW x, InSeg(x)
  PROVE  TargetAt(k, x) \in Nat /\ TargetAt(k, x) < Meta.frames[k][RunOf(k, x)]
<1> DEFINE e == EpisodeOf(Meta, x)
           r == RunOf(k, x)
<1>1. /\ e \in Episodes(Meta) /\ e \in Nat /\ From(Meta, e) \in Nat /\ To(Meta, e) \in Nat /\ x \in Nat
      /\ From(Meta, e) <= x /\ x < To(Meta, e)
  BY InSegFacts
<1>2. r \in Nat /\ StartEp <= r /\ r <= e /\ StartEp \in Nat /\ e <= LastEp /\ LastEp \in Nat
      /\ r \in Episodes(Meta) /\ Meta.file[k][e] = Meta.file[k][r]
  <2>1. r \in Nat /\ StartEp <= r /\ r <= e /\ \A m \in r..e : Meta.file[k][m] = Meta.file[k][r]
    BY RunOfIs
  <2>2. StartEp \in Nat /\ e <= LastEp /\ LastEp \in Nat /\ StartEp \in Episodes(Meta)
        /\ Meta.n \in Nat /\ Episodes(Meta) = 1..Meta.n
    BY SegEpisodes
  <2>3. r \in Episodes(Meta)
    BY <1>1, <2>1, <2>2
  <2>4. Meta.file[k][e] = Meta.file[k][r]
    BY <1>1, <2>1
  <2> QED
    BY <2>1, <2>2, <2>3, <2>4
<1>3. Meta.frames[k][e] = Meta.frames[k][r]
  BY <1>1, <1>2 DEF SegOK, WellWritten
<1>4. Meta.ts[k][e] + To(Meta, e) - From(Meta, e) <= Meta.frames[k][e]
  <2>1. e \in StartEp..LastEp
    BY <1>1, <1>2
  <2> QED
    BY <2>1 DEF SegmentComplete
<1>5. Meta.ts[k][e] \in Nat /\ Meta.frames[k][e] \in Nat
  BY <1>1, CamFacts
<1>6. TargetAt(k, x) = Meta.ts[k][e] + x - From(Meta, e)
  BY DEF TargetAt
<1> HIDE DEF e, r
<1>7. TargetAt(k, x) \in Nat /\ TargetAt(k, x) < Meta.frames[k][r]
  BY <1>1, <1>3, <1>4, <1>5, <1>6
<1> QED
  BY <1>7 DEF r
----------------------------------------------------------------------------
(* The invariant. *)

Ctl ==
  /\ status # "idle" => phase = "planned" /\ task \in 1..Len(tasks) /\ seg <= Len(tasks[task])
  /\ status = "idle" => seg = 0
  /\ status \in {"reading", "exhausted"} => seg > 0

\* The first row that is buffered.
Base == row - Len(labels)

\* The buffers hold the same rows, those from Base on, and all before Base are yielded.
Buffers ==
  /\ Segment.from <= first /\ first <= row /\ row <= Segment.to
  /\ \A x \in first..(row - 1) : Meta.data[EpisodeOf(Meta, x)] = table
  /\ Len(labels) = Len(parts) + (row - first)
  /\ \A i \in 1..Len(labels) : labels[i] = Base + i - 1
  /\ \A i \in 1..Len(parts) : parts[i].row = Base + i - 1 /\ parts[i].chunk = ChunkStop(Base + i - 1)

FramesAligned ==
  \A k \in Cams :
    /\ Len(frames[k]) = Len(labels) \/ (Len(frames[k]) = Len(labels) + 1 /\ AtRow)
    /\ \A i \in 1..Len(frames[k]) : frames[k][i].for = Base + i - 1

Yielded ==
  /\ Len(sent) = Base - Segment.from
  /\ \A i \in 1..Len(sent) : sent[i] = Segment.from + i - 1

AlignInv == status = "reading" => Buffers /\ FramesAligned /\ Yielded

BatchInv ==
  /\ seg = 0 => Len(batch.rows) = 0
  /\ Len(batch.labels) = Len(batch.rows)
  /\ \A k \in Cams : Len(batch.frames[k]) = Len(batch.rows)
  /\ \A i \in 1..Len(batch.rows) :
       /\ InSeg(batch.rows[i].row)
       /\ batch.labels[i] = batch.rows[i].row
       /\ batch.rows[i].chunk = ChunkStop(batch.rows[i].row)
       /\ \A k \in Cams : batch.frames[k][i].for = batch.rows[i].row

SentInv == (status \in {"between", "done"} /\ seg > 0) => Len(sent) = Segment.to - Segment.from

\* A stream stands at a boundary of the segment's episodes; while all frames are there it
\* has not passed the frame of the row, nor its file.
CurInv ==
  status = "reading" =>
    \A k \in Cams :
      /\ cur[k] = NoFrame => row = Segment.from /\ Len(frames[k]) = Len(labels)
      /\ cur[k] # NoFrame =>
           /\ cur[k].run \in StartEp..LastEp /\ Boundary(k, cur[k].run)
           /\ (SegmentComplete /\ row < Segment.to) =>
                \/ cur[k].run < RunOf(k, row)
                \/ cur[k].run = RunOf(k, row) /\ cur[k].time <= TargetAt(k, row)

FrameInv ==
  (seg > 0 /\ SegmentComplete) =>
    \A k \in Cams : \A i \in 1..Len(frames[k]) :
      \/ frames[k][i].run < RunOf(k, frames[k][i].for)
      \/ /\ frames[k][i].run = RunOf(k, frames[k][i].for)
         /\ frames[k][i].time = TargetAt(k, frames[k][i].for)

ExhaustInv == status = "exhausted" => ~SegmentComplete

ReadInv == Ctl /\ AlignInv /\ BatchInv /\ SentInv /\ CurInv /\ FrameInv /\ ExhaustInv

IInv == PlanInv /\ ReadType /\ ReadInv

LEMMA SegIsOK ==
  ASSUME PlanInv, ReadType, Ctl, seg > 0
  PROVE  SegOK
<1>1. Cell(task, seg)
  BY DEF Ctl, Cell, ReadType
<1>2. Part(Segment)
  BY <1>1 DEF PlanInv, TaskInv, Segment
<1>3. req \in Requests
  BY DEF PlanInv, PlanType
<1> QED
  BY <1>2, <1>3, RequestFacts DEF Part, SegOK, Meta

\* All that is said of the segment stays while it is read.
LEMMA SameSegment ==
  ASSUME UNCHANGED <<req, tasks, task, seg>>
  PROVE  /\ Segment' = Segment /\ Meta' = Meta /\ StartEp' = StartEp /\ LastEp' = LastEp
         /\ \A x : InSeg(x)' <=> InSeg(x)
         /\ \A x : ChunkStop(x)' = ChunkStop(x)
         /\ \A k, x : TargetAt(k, x)' = TargetAt(k, x)
         /\ \A k, x : RunOf(k, x)' = RunOf(k, x)
         /\ \A k, e : Boundary(k, e)' <=> Boundary(k, e)
         /\ SegmentComplete' <=> SegmentComplete
<1>1. Segment' = Segment /\ Meta' = Meta
  BY DEF Segment, Meta
<1>2. StartEp' = StartEp /\ LastEp' = LastEp
  BY <1>1 DEF StartEp, LastEp
<1>3. \A k, e : Boundary(k, e)' <=> Boundary(k, e)
  BY <1>1, <1>2 DEF Boundary
<1>4. \A k, x : RunOf(k, x)' = RunOf(k, x)
  BY <1>1, <1>2 DEF RunOf, Boundary
<1>5. SegmentComplete' <=> SegmentComplete
  BY <1>1, <1>2 DEF SegmentComplete
<1> QED
  BY <1>1, <1>2, <1>3, <1>4, <1>5 DEF InSeg, ChunkStop, TargetAt

LEMMA ReadInit1 == ReadInit => ReadType /\ ReadInv
<1> SUFFICES ASSUME ReadInit PROVE ReadType /\ ReadInv
  OBVIOUS
<1>1. \A S : <<>> \in Seq(S)
  OBVIOUS
<1>2. [k \in Cams |-> <<>>] \in [Cams -> Seq(Frames)]
  BY <1>1
<1>3. [rows |-> <<>>, labels |-> <<>>, frames |-> [k \in Cams |-> <<>>]]
        \in [rows : Seq(Rows), labels : Seq(Nat), frames : [Cams -> Seq(Frames)]]
  BY <1>1, <1>2
<1>4. ReadType
  BY <1>1, <1>2, <1>3 DEF ReadInit, ReadType
<1>5. ReadInv
  BY DEF ReadInit, ReadInv, Ctl, AlignInv, BatchInv, SentInv, CurInv, FrameInv, ExhaustInv
<1> QED
  BY <1>4, <1>5

----------------------------------------------------------------------------
(* Steps that leave the buffers alone. *)

\* The task ends: by itself, by an interrupt, or for a file that cannot be opened.
LEMMA EndStep ==
  ASSUME PlanInv, ReadType, ReadInv,
         UNCHANGED <<req, tasks, phase, task, seg, row, table, first, cur, eof, frames, labels, parts, batch, sent>>,
         status # "idle", status' \in {"done", "cancelled", "cut", "exhausted"},
         status' = "done" => status = "between",
         status' = "exhausted" => seg > 0 /\ ~SegmentComplete
  PROVE  ReadType' /\ ReadInv'
<1>1. ReadType'
  BY DEF ReadType
<1>2. Ctl' /\ AlignInv' /\ CurInv'
  BY DEF ReadInv, Ctl, AlignInv, CurInv
<1>3. BatchInv' /\ SentInv'
  BY SameSegment DEF ReadInv, BatchInv, SentInv
<1>4. FrameInv' /\ ExhaustInv'
  BY SameSegment DEF ReadInv, FrameInv, ExhaustInv
<1> QED
  BY <1>1, <1>2, <1>3, <1>4 DEF ReadInv

\* A stream moves on, or swallows an interrupt.
LEMMA CurStep ==
  ASSUME PlanInv, ReadType, ReadInv, AtRow,
         UNCHANGED <<req, tasks, phase, status, task, seg, row, table, first, frames, labels, parts, batch, sent>>,
         eof' \in [Cams -> BOOLEAN],
         NEW k \in Cams, NEW c \in Shots, cur' = cur \/ cur' = [cur EXCEPT ![k] = c],
         cur' # cur => /\ c.run \in StartEp..LastEp /\ Boundary(k, c.run)
                       /\ (SegmentComplete /\ row < Segment.to) =>
                            \/ c.run < RunOf(k, row)
                            \/ c.run = RunOf(k, row) /\ c.time <= TargetAt(k, row)
  PROVE  ReadType' /\ ReadInv'
<1>1. ReadType'
  BY DEF ReadType
<1>2. status = "reading" /\ (AtRow' <=> AtRow)
  BY SameSegment DEF AtRow
<1>3. Ctl' /\ ExhaustInv'
  BY SameSegment DEF ReadInv, Ctl, ExhaustInv
<1>4. AlignInv'
  BY <1>2, SameSegment DEF ReadInv, AlignInv, Buffers, FramesAligned, Yielded, Base
<1>5. BatchInv' /\ SentInv'
  BY SameSegment DEF ReadInv, BatchInv, SentInv
<1>6. FrameInv'
  BY SameSegment DEF ReadInv, FrameInv
<1>7. CurInv'
  <2> SUFFICES ASSUME NEW j \in Cams
               PROVE  /\ cur'[j] = NoFrame => row = Segment.from /\ Len(frames[j]) = Len(labels)
                      /\ cur'[j] # NoFrame =>
                           /\ cur'[j].run \in StartEp..LastEp /\ Boundary(j, cur'[j].run)
                           /\ (SegmentComplete /\ row < Segment.to) =>
                                \/ cur'[j].run < RunOf(j, row)
                                \/ cur'[j].run = RunOf(j, row) /\ cur'[j].time <= TargetAt(j, row)
    BY <1>2, SameSegment DEF CurInv
  <2>1. CASE cur'[j] = cur[j]
    BY <1>2, <2>1 DEF ReadInv, CurInv
  <2>2. CASE cur'[j] # cur[j]
    <3>1. j = k /\ cur'[j] = c /\ cur' # cur
      BY <2>2 DEF ReadType
    <3> QED
      BY <3>1, NoFrameAssumption
  <2> QED
    BY <2>1, <2>2
<1> QED
  BY <1>1, <1>3, <1>4, <1>5, <1>6, <1>7 DEF ReadInv

\* Where a stream stands that is behind the row it looks for.
LEMMA BehindFacts ==
  ASSUME PlanInv, ReadType, ReadInv, NEW k \in Cams, Behind(k)
  PROVE  /\ AtRow /\ SegOK /\ InSeg(row) /\ cur[k] \in Shots /\ cur[k] # NoFrame
         /\ cur[k].run \in StartEp..LastEp /\ cur[k].run \in Nat /\ Boundary(k, cur[k].run)
         /\ cur[k].time \in Nat /\ cur[k].time < TargetAt(k, row)
         /\ SegmentComplete =>
              \/ cur[k].run < RunOf(k, row)
              \/ cur[k].run = RunOf(k, row) /\ cur[k].time <= TargetAt(k, row) /\ FileLeft(k)
<1>1. AtRow /\ cur[k] # NoFrame /\ cur[k].time < TargetAt(k, row)
  BY DEF Behind, Seeking, Target, TargetAt
<1>2. status = "reading" /\ row < Segment.to /\ seg > 0
  BY <1>1 DEF AtRow, ReadInv, Ctl
<1>3. SegOK
  BY <1>2, SegIsOK DEF ReadInv
<1>4. InSeg(row)
  BY <1>2, <1>3 DEF ReadInv, AlignInv, Buffers, InSeg, ReadType, SegOK, Segments
<1>5. cur[k] \in Shots
  BY <1>1 DEF ReadType
<1>6. cur[k].run \in Nat /\ cur[k].time \in Nat
  BY <1>5 DEF Shots
<1>7. cur[k].run \in StartEp..LastEp /\ Boundary(k, cur[k].run)
  BY <1>1, <1>2 DEF ReadInv, CurInv
<1>8. ASSUME SegmentComplete
      PROVE  \/ cur[k].run < RunOf(k, row)
             \/ cur[k].run = RunOf(k, row) /\ cur[k].time <= TargetAt(k, row) /\ FileLeft(k)
  <2>1. \/ cur[k].run < RunOf(k, row)
        \/ cur[k].run = RunOf(k, row) /\ cur[k].time <= TargetAt(k, row)
    BY <1>1, <1>2, <1>8 DEF ReadInv, CurInv
  <2>2. TargetAt(k, row) \in Nat /\ TargetAt(k, row) < Meta.frames[k][RunOf(k, row)]
    BY <1>3, <1>4, <1>8, FileHasTarget
  <2>3. cur[k].run = RunOf(k, row) => FileLeft(k)
    <3> SUFFICES ASSUME cur[k].run = RunOf(k, row) PROVE cur[k].time + 1 < Meta.frames[k][cur[k].run]
      BY DEF FileLeft
    <3>1. cur[k].run \in Episodes(Meta)
      BY <1>3, <1>6, <1>7, SegEpisodes
    <3>2. Meta.frames[k][cur[k].run] \in Nat
      BY <1>3, <3>1, CamFacts
    <3> QED
      BY <1>1, <1>6, <2>2, <3>2
  <2> QED
    BY <2>1, <2>3
<1> QED
  BY <1>1, <1>3, <1>4, <1>5, <1>6, <1>7, <1>8

LEMMA FirstFrameStep ==
  ASSUME PlanInv, ReadType, ReadInv, NEW k \in Cams, FirstFrame(k), UNCHANGED planVars
  PROVE  ReadType' /\ ReadInv'
<1>1. /\ AtRow /\ cur[k] = NoFrame /\ eof' \in [Cams -> BOOLEAN]
      /\ UNCHANGED <<req, tasks, phase, status, task, seg, row, table, first, frames, labels, parts, batch, sent>>
  BY DEF FirstFrame, Seeking, planVars, ReadType
<1>2. PICK t \in 0..Smaller(Meta.ts[k][StartEp], Meta.frames[k][StartEp] - 1) :
        cur' = [cur EXCEPT ![k] = [run |-> StartEp, time |-> t]]
  BY DEF FirstFrame
<1>3. status = "reading" /\ row < Segment.to /\ seg > 0
  BY <1>1 DEF AtRow, ReadInv, Ctl
<1>4. SegOK /\ row = Segment.from
  BY <1>1, <1>3, SegIsOK DEF ReadInv, CurInv
<1>5. /\ StartEp \in Episodes(Meta) /\ StartEp \in Nat /\ LastEp \in Nat /\ InSeg(row)
      /\ EpisodeOf(Meta, row) = StartEp /\ StartEp \in StartEp..LastEp
  <2>1. InSeg(Segment.from) /\ StartEp \in Episodes(Meta) /\ StartEp \in Nat /\ LastEp \in Nat
    BY <1>4, SegEpisodes
  <2>2. EpisodeOf(Meta, Segment.from) = StartEp
    BY DEF StartEp
  <2>3. StartEp <= LastEp
    BY <1>4, <2>1, <2>2, SegEpisodes
  <2> QED
    BY <1>4, <2>1, <2>2, <2>3
<1>6. Boundary(k, StartEp) /\ RunOf(k, row) = StartEp
  <2>1. RunOf(k, row) \in Nat /\ StartEp <= RunOf(k, row) /\ RunOf(k, row) <= StartEp
    BY <1>4, <1>5, RunOfIs
  <2> QED
    BY <1>5, <2>1 DEF Boundary
<1>7. t \in Nat /\ t <= TargetAt(k, row)
  <2>1. Meta.ts[k][StartEp] \in Nat /\ Meta.frames[k][StartEp] \in Nat \ {0}
    BY <1>4, <1>5, CamFacts
  <2>2. t \in Nat /\ t <= Meta.ts[k][StartEp]
    BY <2>1 DEF Smaller
  <2>3. From(Meta, StartEp) \in Nat /\ From(Meta, StartEp) <= row /\ row \in Nat
    BY <1>4, <1>5, InSegFacts
  <2>4. TargetAt(k, row) = Meta.ts[k][StartEp] + row - From(Meta, StartEp)
    BY <1>5 DEF TargetAt
  <2> QED
    BY <2>1, <2>2, <2>3, <2>4
<1> DEFINE c == [run |-> StartEp, time |-> t]
<1>8. c \in Shots /\ c.run = StartEp /\ c.time = t
  BY <1>5, <1>7 DEF Shots
<1>9. cur' = [cur EXCEPT ![k] = c]
  BY <1>2
<1> HIDE DEF c
<1> QED
  BY <1>1, <1>5, <1>6, <1>7, <1>8, <1>9, CurStep

LEMMA NextFrameStep ==
  ASSUME PlanInv, ReadType, ReadInv, NEW k \in Cams, NextFrame(k), UNCHANGED planVars
  PROVE  ReadType' /\ ReadInv'
<1>1. /\ Behind(k) /\ cur' = [cur EXCEPT ![k].time = @ + 1] /\ eof' \in [Cams -> BOOLEAN]
      /\ UNCHANGED <<req, tasks, phase, status, task, seg, row, table, first, frames, labels, parts, batch, sent>>
  BY DEF NextFrame, planVars, ReadType
<1>2. /\ AtRow /\ SegOK /\ InSeg(row) /\ cur[k] \in Shots
      /\ cur[k].run \in StartEp..LastEp /\ Boundary(k, cur[k].run)
      /\ cur[k].time \in Nat /\ cur[k].time < TargetAt(k, row)
      /\ SegmentComplete =>
           \/ cur[k].run < RunOf(k, row)
           \/ cur[k].run = RunOf(k, row) /\ cur[k].time <= TargetAt(k, row)
  BY <1>1, BehindFacts
<1>3. PICK c \in Shots : c = [cur[k] EXCEPT !.time = @ + 1]
  <2>1. \A a \in Shots : [a EXCEPT !.time = @ + 1] \in Shots
    BY DEF Shots
  <2> QED
    BY <1>2, <2>1
<1>4. c.run = cur[k].run /\ c.time = cur[k].time + 1
  BY <1>2, <1>3 DEF Shots
<1>5. cur' = [cur EXCEPT ![k] = c]
  BY <1>1, <1>3
<1>6. SegmentComplete =>
        \/ c.run < RunOf(k, row)
        \/ c.run = RunOf(k, row) /\ c.time <= TargetAt(k, row)
  <2> SUFFICES ASSUME SegmentComplete PROVE c.time <= TargetAt(k, row)
    BY <1>2, <1>4
  <2>1. TargetAt(k, row) \in Nat
    BY <1>2, FileHasTarget
  <2> QED
    BY <1>2, <1>4, <2>1
<1> QED
  BY <1>1, <1>2, <1>4, <1>5, <1>6, CurStep

LEMMA NextFileStep ==
  ASSUME PlanInv, ReadType, ReadInv, NEW k \in Cams, NextFile(k), UNCHANGED planVars
  PROVE  ReadType' /\ ReadInv'
<1>1. /\ Behind(k) /\ FileOver(k) /\ ~Stopped(k) /\ eof' \in [Cams -> BOOLEAN]
      /\ UNCHANGED <<req, tasks, phase, status, task, seg, row, table, first, frames, labels, parts, batch, sent>>
  BY DEF NextFile, planVars, ReadType
<1>2. PICK e \in (cur[k].run + 1)..LastEp :
        /\ Boundary(k, e)
        /\ \A m \in (cur[k].run + 1)..(e - 1) : ~Boundary(k, m)
        /\ cur' = [cur EXCEPT ![k] = [run |-> e, time |-> 0]]
  BY DEF NextFile
<1>3. /\ AtRow /\ SegOK /\ InSeg(row)
      /\ cur[k].run \in StartEp..LastEp /\ cur[k].run \in Nat
      /\ SegmentComplete => cur[k].run < RunOf(k, row)
  BY <1>1, BehindFacts DEF FileOver, Stopped
<1>4. StartEp \in Nat /\ LastEp \in Nat /\ e \in Nat /\ e \in StartEp..LastEp
  BY <1>2, <1>3, SegEpisodes
<1>5. SegmentComplete =>
        \/ e < RunOf(k, row)
        \/ e = RunOf(k, row) /\ 0 <= TargetAt(k, row)
  <2> SUFFICES ASSUME SegmentComplete PROVE e < RunOf(k, row) \/ (e = RunOf(k, row) /\ 0 <= TargetAt(k, row))
    OBVIOUS
  <2>1. RunOf(k, row) \in Nat /\ Boundary(k, RunOf(k, row))
    BY <1>3, RunOfIs
  <2>2. ~(RunOf(k, row) < e)
    <3>1. SUFFICES ASSUME RunOf(k, row) < e PROVE FALSE
      OBVIOUS
    <3>2. RunOf(k, row) \in (cur[k].run + 1)..(e - 1)
      BY <1>3, <1>4, <2>1, <3>1
    <3> QED
      BY <1>2, <2>1, <3>2
  <2>3. TargetAt(k, row) \in Nat
    BY <1>3, FileHasTarget
  <2> QED
    BY <1>4, <2>1, <2>2, <2>3
<1>6. PICK c \in Shots : c = [run |-> e, time |-> 0]
  BY <1>4 DEF Shots
<1>7. c.run = e /\ c.time = 0 /\ cur' = [cur EXCEPT ![k] = c]
  BY <1>2, <1>6
<1> QED
  BY <1>1, <1>2, <1>3, <1>4, <1>5, <1>7, CurStep

LEMMA ExhaustStep ==
  ASSUME PlanInv, ReadType, ReadInv, NEW k \in Cams, Exhaust(k), UNCHANGED planVars
  PROVE  ReadType' /\ ReadInv'
<1>1. /\ Behind(k) /\ FileOver(k) /\ ~Stopped(k) /\ status' = "exhausted"
      /\ \A e \in (cur[k].run + 1)..LastEp : ~Boundary(k, e)
      /\ UNCHANGED <<req, tasks, phase, task, seg, row, table, first, cur, eof, frames, labels, parts, batch, sent>>
  BY DEF Exhaust, planVars
<1>2. /\ AtRow /\ SegOK /\ InSeg(row) /\ cur[k].run \in Nat
      /\ SegmentComplete => cur[k].run < RunOf(k, row)
  BY <1>1, BehindFacts DEF FileOver, Stopped
<1>3. status = "reading" /\ seg > 0
  BY <1>2 DEF AtRow, ReadInv, Ctl
<1>4. ~SegmentComplete
  <2> SUFFICES ASSUME SegmentComplete PROVE FALSE
    OBVIOUS
  <2>1. RunOf(k, row) \in Nat /\ Boundary(k, RunOf(k, row)) /\ RunOf(k, row) <= EpisodeOf(Meta, row)
    BY <1>2, RunOfIs
  <2>2. EpisodeOf(Meta, row) \in Nat /\ EpisodeOf(Meta, row) <= LastEp /\ LastEp \in Nat
    BY <1>2, SegEpisodes
  <2>3. RunOf(k, row) \in (cur[k].run + 1)..LastEp
    BY <1>2, <2>1, <2>2
  <2> QED
    BY <1>1, <2>1, <2>3
<1> QED
  BY <1>1, <1>3, <1>4, EndStep

LEMMA TakeFrameStep ==
  ASSUME PlanInv, ReadType, ReadInv, NEW k \in Cams, TakeFrame(k), UNCHANGED planVars
  PROVE  ReadType' /\ ReadInv'
<1> DEFINE f == [for |-> row, run |-> cur[k].run, time |-> cur[k].time]
           n == Len(frames[k])
<1>1. /\ AtRow /\ n = Len(labels) /\ cur[k] # NoFrame /\ ~(cur[k].time < TargetAt(k, row))
      /\ frames' = [frames EXCEPT ![k] = Append(@, f)]
      /\ UNCHANGED <<req, tasks, phase, status, task, seg, row, table, first, cur, eof, labels, parts, batch, sent>>
  BY DEF TakeFrame, Behind, Seeking, Target, TargetAt, planVars
<1>2. status = "reading" /\ row < Segment.to /\ seg > 0 /\ (AtRow' <=> AtRow)
  BY <1>1, SameSegment DEF AtRow, ReadInv, Ctl
<1>3. cur[k] \in Shots /\ f \in Frames
  BY <1>1 DEF ReadType, Shots, Frames
<1> HIDE DEF f
<1>4. /\ frames[k] \in Seq(Frames) /\ n \in Nat
      /\ frames'[k] \in Seq(Frames) /\ Len(frames'[k]) = n + 1 /\ frames'[k][n + 1] = f
      /\ \A i \in 1..n : frames'[k][i] = frames[k][i]
      /\ \A j \in Cams : j # k => frames'[j] = frames[j]
      /\ frames' \in [Cams -> Seq(Frames)]
  <2>1. frames[k] \in Seq(Frames) /\ frames'[k] = Append(frames[k], f)
    BY <1>1 DEF ReadType
  <2>2. \A j \in Cams : j # k => frames'[j] = frames[j]
    BY <1>1 DEF ReadType
  <2>3. frames' \in [Cams -> Seq(Frames)]
    BY <1>1, <1>3 DEF ReadType
  <2> QED
    BY <1>3, <2>1, <2>2, <2>3
<1>5. \A i \in 1..(n + 1) : i \in 1..n \/ i = n + 1
  BY <1>4
<1>6. ReadType'
  BY <1>1, <1>4 DEF ReadType
<1>7. Ctl' /\ ExhaustInv'
  BY <1>1, SameSegment DEF ReadInv, Ctl, ExhaustInv
<1>8. BatchInv' /\ SentInv'
  BY <1>1, SameSegment DEF ReadInv, BatchInv, SentInv
<1>9. AlignInv'
  <2>1. Buffers /\ FramesAligned /\ Yielded
    BY <1>2 DEF ReadInv, AlignInv
  <2>2. Base' = Base /\ row = Base + (n + 1) - 1
    BY <1>1, <1>4 DEF Base, ReadType
  <2>3. Buffers' /\ Yielded'
    BY <1>1, <2>1, <2>2, SameSegment DEF Buffers, Yielded
  <2>4. ASSUME NEW j \in Cams
        PROVE  /\ Len(frames'[j]) = Len(labels) \/ (Len(frames'[j]) = Len(labels) + 1 /\ AtRow)
               /\ \A i \in 1..Len(frames'[j]) : frames'[j][i].for = Base + i - 1
    <3>1. CASE j # k
      BY <1>4, <2>1, <3>1 DEF FramesAligned
    <3>2. CASE j = k
      <4>1. \A i \in 1..n : frames[k][i].for = Base + i - 1
        BY <2>1 DEF FramesAligned
      <4>2. f.for = row
        BY DEF f
      <4>3. \A i \in 1..(n + 1) : frames'[k][i].for = Base + i - 1
        BY <1>4, <1>5, <2>2, <4>1, <4>2
      <4> QED
        BY <1>1, <1>4, <3>2, <4>3
    <3> QED
      BY <3>1, <3>2
  <2>5. FramesAligned'
    BY <1>1, <1>2, <2>2, <2>4 DEF FramesAligned
  <2> QED
    BY <2>3, <2>5 DEF AlignInv
<1>10. CurInv'
  <2> SUFFICES ASSUME NEW j \in Cams
               PROVE  cur[j] = NoFrame => row = Segment.from /\ Len(frames'[j]) = Len(labels)
    BY <1>1, <1>2, SameSegment DEF ReadInv, CurInv
  <2> QED
    BY <1>1, <1>2, <1>4 DEF ReadInv, CurInv
<1>11. FrameInv'
  <2> SUFFICES ASSUME SegmentComplete, NEW j \in Cams, NEW i \in 1..Len(frames'[j])
               PROVE  \/ frames'[j][i].run < RunOf(j, frames'[j][i].for)
                      \/ /\ frames'[j][i].run = RunOf(j, frames'[j][i].for)
                         /\ frames'[j][i].time = TargetAt(j, frames'[j][i].for)
    BY <1>1, SameSegment DEF FrameInv
  <2>1. CASE j # k \/ i # n + 1
    <3>1. frames'[j][i] = frames[j][i] /\ i \in 1..Len(frames[j])
      BY <1>4, <1>5, <2>1
    <3> QED
      BY <1>2, <3>1 DEF ReadInv, FrameInv
  <2>2. CASE j = k /\ i = n + 1
    <3>1. frames'[j][i] = f
      BY <1>4, <2>2
    <3>2. \/ cur[k].run < RunOf(k, row)
          \/ cur[k].run = RunOf(k, row) /\ cur[k].time <= TargetAt(k, row)
      BY <1>1, <1>2 DEF ReadInv, CurInv
    <3>3. SegOK /\ InSeg(row)
      <4>1. SegOK
        BY <1>2, SegIsOK DEF ReadInv
      <4> QED
        BY <1>2, <4>1 DEF ReadInv, AlignInv, Buffers, InSeg, ReadType, SegOK, Segments
    <3>4. TargetAt(k, row) \in Nat /\ cur[k].time \in Nat
      BY <1>3, <3>3, FileHasTarget DEF Shots
    <3>5. cur[k].time <= TargetAt(k, row) => cur[k].time = TargetAt(k, row)
      BY <1>1, <3>4
    <3> QED
      BY <2>2, <3>1, <3>2, <3>5 DEF f
  <2> QED
    BY <2>1, <2>2
<1> QED
  BY <1>6, <1>7, <1>8, <1>9, <1>10, <1>11 DEF ReadInv
----------------------------------------------------------------------------
(* Steps that move rows from buffer to buffer. *)

LEMMA FunctionIsSeq ==
  ASSUME NEW S, NEW n \in Nat, NEW f \in [1..n -> S]
  PROVE  f \in Seq(S) /\ Len(f) = n
  OBVIOUS

\* An element of two sequences put together is one of the first or one of the second.
LEMMA ConcatIs ==
  ASSUME NEW S, NEW s \in Seq(S), NEW t \in Seq(S), NEW u, u = s \o t
  PROVE  /\ u \in Seq(S) /\ Len(u) = Len(s) + Len(t)
         /\ \A i \in 1..Len(u) :
              \/ i \in 1..Len(s) /\ u[i] = s[i]
              \/ \E j \in 1..Len(t) : i = Len(s) + j /\ u[i] = t[j]
<1>1. Len(s) \in Nat /\ Len(t) \in Nat
  OBVIOUS
<1>2. u \in Seq(S) /\ Len(u) = Len(s) + Len(t)
  OBVIOUS
<1>3. \A i \in 1..Len(s) + Len(t) : u[i] = IF i <= Len(s) THEN s[i] ELSE t[i - Len(s)]
  BY ConcatProperties
<1>4. ASSUME NEW i \in 1..Len(u)
      PROVE  \/ i \in 1..Len(s) /\ u[i] = s[i]
             \/ \E j \in 1..Len(t) : i = Len(s) + j /\ u[i] = t[j]
  <2>1. i \in 1..Len(s) + Len(t)
    BY <1>2
  <2>2. CASE i <= Len(s)
    BY <1>1, <1>3, <2>1, <2>2
  <2>3. CASE ~(i <= Len(s))
    <3>1. i - Len(s) \in 1..Len(t) /\ i = Len(s) + (i - Len(s))
      BY <1>1, <2>1, <2>3
    <3>2. u[i] = t[i - Len(s)]
      BY <1>3, <2>1, <2>3
    <3> QED
      BY <3>1, <3>2
  <2> QED
    BY <2>2, <2>3
<1> QED
  BY <1>2, <1>4

\* The rows that are buffered once the current table is sliced as far as row b.
LEMMA BufferIs ==
  ASSUME ReadType, SegOK, Buffers, NEW b \in Nat, row <= b, b <= Segment.to,
         \A x \in row..(b - 1) : Meta.data[EpisodeOf(Meta, x)] = table
  PROVE  /\ parts \o Slice(first, b) \in Seq(Rows)
         /\ Len(parts \o Slice(first, b)) = Len(labels) + (b - row)
         /\ \A i \in 1..Len(parts \o Slice(first, b)) :
              /\ (parts \o Slice(first, b))[i].row = Base + i - 1
              /\ (parts \o Slice(first, b))[i].chunk = ChunkStop(Base + i - 1)
<1> DEFINE sl == Slice(first, b)
           all == parts \o sl
<1>1. /\ row \in Nat /\ first \in Nat /\ parts \in Seq(Rows) /\ Len(parts) \in Nat /\ Len(labels) \in Nat
      /\ Segment.from \in Nat /\ Segment.to \in Nat
      /\ Segment.from <= first /\ first <= row /\ Len(labels) = Len(parts) + (row - first)
  BY DEF ReadType, Buffers, SegOK, Segments
<1>2. \A x \in first..(b - 1) : Meta.data[EpisodeOf(Meta, x)] = table
  <2> TAKE x \in first..(b - 1)
  <2>1. x \in first..(row - 1) \/ x \in row..(b - 1)
    BY <1>1
  <2> QED
    BY <2>1 DEF Buffers
<1>3. first <= b
  BY <1>1
<1>4. /\ sl \in Seq(Rows) /\ Len(sl) = b - first
      /\ \A i \in 1..(b - first) : sl[i].row = first + i - 1 /\ sl[i].chunk = ChunkStop(first + i - 1)
  BY <1>1, <1>2, <1>3, SliceIs
<1> HIDE DEF sl
<1>5. /\ all \in Seq(Rows) /\ Len(all) = Len(parts) + Len(sl)
      /\ \A i \in 1..Len(all) :
           \/ i \in 1..Len(parts) /\ all[i] = parts[i]
           \/ \E j \in 1..Len(sl) : i = Len(parts) + j /\ all[i] = sl[j]
  BY <1>1, <1>4, ConcatIs, SMTT(30)
<1> HIDE DEF all
<1>6. Len(all) = Len(labels) + (b - row)
  BY <1>1, <1>4, <1>5
<1>7. ASSUME NEW i \in 1..Len(all)
      PROVE  all[i].row = Base + i - 1 /\ all[i].chunk = ChunkStop(Base + i - 1)
  <2>1. CASE i \in 1..Len(parts) /\ all[i] = parts[i]
    BY <2>1 DEF Buffers
  <2>2. ASSUME NEW j \in 1..Len(sl), i = Len(parts) + j, all[i] = sl[j]
        PROVE  all[i].row = Base + i - 1 /\ all[i].chunk = ChunkStop(Base + i - 1)
    <3>1. j \in 1..(b - first) /\ j \in Int
      BY <1>4
    <3>2. first + j - 1 = Base + i - 1
      <4>1. Len(labels) - Len(parts) = row - first
        BY <1>1
      <4> QED
        BY <1>1, <2>2, <3>1, <4>1, SMTT(30) DEF Base
    <3> QED
      BY <1>4, <2>2, <3>1, <3>2
  <2> QED
    BY <1>5, <2>1, <2>2
<1> QED
  BY <1>5, <1>6, <1>7 DEF all, sl

\* A sequence of consecutive rows.
RunFrom(s, a) == \A i \in 1..Len(s) : s[i] = a + i - 1

LEMMA RunsConcat ==
  ASSUME NEW s \in Seq(Nat), NEW t \in Seq(Nat), NEW a \in Int, NEW b \in Int, b = a + Len(s),
         RunFrom(s, a), RunFrom(t, b)
  PROVE  s \o t \in Seq(Nat) /\ Len(s \o t) = Len(s) + Len(t) /\ RunFrom(s \o t, a)
<1>1. s \o t \in Seq(Nat) /\ Len(s \o t) = Len(s) + Len(t) /\ Len(s) \in Nat /\ Len(t) \in Nat
  OBVIOUS
<1>2. ASSUME NEW i \in 1..(Len(s) + Len(t)) PROVE (s \o t)[i] = a + i - 1
  <2>1. CASE i <= Len(s)
    <3>1. (s \o t)[i] = s[i] /\ i \in 1..Len(s)
      BY <1>1, <2>1
    <3> QED
      BY <3>1 DEF RunFrom
  <2>2. CASE ~(i <= Len(s))
    <3>1. (s \o t)[i] = t[i - Len(s)] /\ i - Len(s) \in 1..Len(t)
      BY <1>1, <2>2
    <3>2. t[i - Len(s)] = b + (i - Len(s)) - 1
      BY <3>1 DEF RunFrom
    <3> QED
      BY <1>1, <3>1, <3>2
  <2> QED
    BY <2>1, <2>2
<1> QED
  BY <1>1, <1>2 DEF RunFrom

\* The rows of a batch.
RowsOfBatch(rows) == [i \in 1..Len(rows) |-> rows[i].row]

LEMMA RowsRun ==
  ASSUME NEW rows \in Seq(Rows), NEW b \in Int, \A i \in 1..Len(rows) : rows[i].row = b + i - 1
  PROVE  RowsOfBatch(rows) \in Seq(Nat) /\ Len(RowsOfBatch(rows)) = Len(rows) /\ RunFrom(RowsOfBatch(rows), b)
<1> DEFINE m == [i \in 1..Len(rows) |-> rows[i].row]
<1>1. Len(rows) \in Nat /\ \A i \in 1..Len(rows) : m[i] \in Nat /\ m[i] = b + i - 1
  <2>1. \A i \in 1..Len(rows) : rows[i] \in Rows
    OBVIOUS
  <2> QED
    BY <2>1 DEF Rows
<1>2. m \in [1..Len(rows) -> Nat]
  BY <1>1
<1>3. m \in Seq(Nat) /\ Len(m) = Len(rows)
  BY <1>1, <1>2, FunctionIsSeq
<1>4. RowsOfBatch(rows) = m
  BY DEF RowsOfBatch
<1> HIDE DEF m
<1> QED
  BY <1>1, <1>3, <1>4 DEF RunFrom

\* What a batch leaves behind when it is made of all that is buffered up to row b.
Handed(b, rows, strings) ==
  /\ row <= b /\ b <= Segment.to /\ Base <= b
  /\ Len(rows) = Len(labels) + (b - row) /\ Len(strings) = Len(rows)
  /\ \A i \in 1..Len(rows) : rows[i].row = Base + i - 1 /\ rows[i].chunk = ChunkStop(Base + i - 1)
  /\ \A i \in 1..Len(strings) : strings[i] = Base + i - 1
  /\ \A k \in Cams : Len(frames[k]) = Len(rows)

LEMMA YieldIs ==
  ASSUME ReadType, SegOK, Yielded, FramesAligned, seg > 0,
         NEW b \in Nat, NEW rows \in Seq(Rows), NEW strings \in Seq(Nat), Handed(b, rows, strings),
         UNCHANGED <<req, tasks, task, seg>>,
         Yield(rows, strings)
  PROVE  /\ batch' \in [rows : Seq(Rows), labels : Seq(Nat), frames : [Cams -> Seq(Frames)]]
         /\ BatchInv'
         /\ sent' \in Seq(Nat) /\ Len(sent') = b - Segment.from
         /\ \A i \in 1..Len(sent') : sent'[i] = Segment.from + i - 1
<1>1. /\ row \in Nat /\ Len(labels) \in Nat /\ Base \in Int /\ Segment.from \in Nat /\ Segment.to \in Nat
      /\ sent \in Seq(Nat) /\ Len(sent) \in Nat /\ Len(sent) = Base - Segment.from
      /\ frames \in [Cams -> Seq(Frames)]
      /\ Len(rows) \in Nat /\ Len(rows) = b - Base /\ b <= Segment.to
  BY SMTT(30) DEF ReadType, Yielded, Base, SegOK, Segments, Handed
<1>2. batch' = [rows |-> rows, labels |-> strings, frames |-> frames]
  BY DEF Yield
<1>3. batch' \in [rows : Seq(Rows), labels : Seq(Nat), frames : [Cams -> Seq(Frames)]]
  BY <1>1, <1>2
<1>4. /\ batch'.rows = rows /\ batch'.labels = strings /\ batch'.frames = frames
  BY <1>2
<1>5. ASSUME NEW i \in 1..Len(rows)
      PROVE  /\ InSeg(rows[i].row)
             /\ strings[i] = rows[i].row
             /\ rows[i].chunk = ChunkStop(rows[i].row)
             /\ \A k \in Cams : frames[k][i].for = rows[i].row
  <2>1. rows[i].row = Base + i - 1 /\ rows[i].chunk = ChunkStop(Base + i - 1) /\ strings[i] = Base + i - 1
    BY DEF Handed
  <2>2. InSeg(Base + i - 1)
    <3>1. i \in Nat /\ i >= 1 /\ i <= b - Base /\ Base >= Segment.from
      BY <1>1
    <3>2. Base + i - 1 \in Nat /\ Segment.from <= Base + i - 1 /\ Base + i - 1 < Segment.to
      BY <1>1, <3>1, SMTT(30)
    <3> QED
      BY <3>2 DEF InSeg
  <2>3. \A k \in Cams : frames[k][i].for = Base + i - 1
    BY DEF FramesAligned, Handed
  <2> QED
    BY <2>1, <2>2, <2>3
<1>6. BatchInv'
  BY <1>4, <1>5, SameSegment DEF BatchInv, Handed
<1>7. sent' = sent \o RowsOfBatch(rows)
  BY DEF Yield, RowsOfBatch
<1>8. RunFrom(sent, Segment.from) /\ Base = Segment.from + Len(sent)
  BY <1>1 DEF Yielded, RunFrom
<1>9. /\ RowsOfBatch(rows) \in Seq(Nat) /\ Len(RowsOfBatch(rows)) = Len(rows)
      /\ RunFrom(RowsOfBatch(rows), Base)
  <2>1. \A i \in 1..Len(rows) : rows[i].row = Base + i - 1
    BY DEF Handed
  <2> QED
    BY <1>1, <2>1, RowsRun
<1>10. sent' \in Seq(Nat) /\ Len(sent') = Len(sent) + Len(rows) /\ RunFrom(sent', Segment.from)
  <2>1. PICK t \in Seq(Nat) : t = RowsOfBatch(rows)
    BY <1>9
  <2>2. PICK s \in Seq(Nat) : s = sent
    BY <1>1
  <2>3. PICK base \in Int : base = Base
    BY <1>1
  <2>4. PICK from \in Int : from = Segment.from
    BY <1>1
  <2>5. base = from + Len(s) /\ RunFrom(s, from) /\ RunFrom(t, base) /\ Len(t) = Len(rows)
    BY <1>8, <1>9, <2>1, <2>2, <2>3, <2>4
  <2>6. s \o t \in Seq(Nat) /\ Len(s \o t) = Len(s) + Len(t) /\ RunFrom(s \o t, from)
    BY <2>5, RunsConcat
  <2>7. sent' = s \o t
    BY <1>7, <2>1, <2>2
  <2> QED
    BY <2>2, <2>4, <2>5, <2>6, <2>7
<1>11. Len(sent') = b - Segment.from
  BY <1>1, <1>10
<1> QED
  BY <1>3, <1>6, <1>10, <1>11 DEF RunFrom

\* What holds while a segment is read.
LEMMA ReadingFacts ==
  ASSUME PlanInv, ReadType, ReadInv, status = "reading"
  PROVE  /\ seg > 0 /\ SegOK /\ Buffers /\ FramesAligned /\ Yielded
         /\ Segment.from \in Nat /\ Segment.to \in Nat /\ row \in Nat /\ first \in Nat /\ Base \in Nat
         /\ Len(labels) \in Nat /\ Len(parts) \in Nat /\ row = Base + Len(labels)
         /\ Segment.from <= first /\ first <= row /\ row <= Segment.to
         /\ row < Segment.to => InSeg(row)
<1>1. seg > 0 /\ Buffers /\ FramesAligned /\ Yielded
  BY DEF ReadInv, Ctl, AlignInv
<1>2. SegOK
  BY <1>1, SegIsOK DEF ReadInv
<1>3. Segment.from \in Nat /\ Segment.to \in Nat
  BY <1>2 DEF SegOK, Segments
<1>4. row \in Nat /\ first \in Nat /\ Len(labels) \in Nat /\ Len(parts) \in Nat /\ Len(sent) \in Nat
  BY DEF ReadType
<1>5. Segment.from <= first /\ first <= row /\ row <= Segment.to
  BY <1>1 DEF Buffers
<1>6. Base \in Nat /\ row = Base + Len(labels)
  <2>1. Len(sent) = Base - Segment.from
    BY <1>1 DEF Yielded
  <2>2. Base = row - Len(labels)
    BY DEF Base
  <2> QED
    BY <1>3, <1>4, <2>1, <2>2
<1>7. row < Segment.to => InSeg(row)
  BY <1>3, <1>4, <1>5 DEF InSeg
<1> QED
  BY <1>1, <1>2, <1>3, <1>4, <1>5, <1>6, <1>7

\* Once a row has its frames every stream is ready for the next row.
LEMMA CurNext ==
  ASSUME PlanInv, ReadType, ReadInv, AtRow,
         \A k \in Cams : Len(frames[k]) = Len(labels) + 1,
         UNCHANGED <<req, tasks, task, seg, status, cur>>, row' = row + 1
  PROVE  CurInv'
<1>1. status = "reading" /\ row < Segment.to
  BY DEF AtRow
<1>2. SegOK /\ InSeg(row) /\ row \in Nat /\ Segment.from \in Nat /\ Len(labels) \in Nat
      /\ Segment.from <= row
  BY <1>1, ReadingFacts
<1> SUFFICES ASSUME NEW k \in Cams
             PROVE  /\ cur[k] # NoFrame
                    /\ cur[k].run \in StartEp..LastEp /\ Boundary(k, cur[k].run)
                    /\ (SegmentComplete /\ row + 1 < Segment.to) =>
                         \/ cur[k].run < RunOf(k, row + 1)
                         \/ cur[k].run = RunOf(k, row + 1) /\ cur[k].time <= TargetAt(k, row + 1)
  BY SameSegment DEF CurInv
<1>3. cur[k] # NoFrame
  BY <1>1, <1>2 DEF ReadInv, CurInv
<1>4. cur[k].run \in StartEp..LastEp /\ Boundary(k, cur[k].run)
  BY <1>1, <1>3 DEF ReadInv, CurInv
<1>5. ASSUME SegmentComplete, row + 1 < Segment.to
      PROVE  \/ cur[k].run < RunOf(k, row + 1)
             \/ cur[k].run = RunOf(k, row + 1) /\ cur[k].time <= TargetAt(k, row + 1)
  <2>1. \/ cur[k].run < RunOf(k, row)
        \/ cur[k].run = RunOf(k, row) /\ cur[k].time <= TargetAt(k, row)
    BY <1>1, <1>3, <1>5 DEF ReadInv, CurInv
  <2>2. InSeg(row + 1)
    BY <1>2, <1>5 DEF InSeg
  <2>3. /\ RunOf(k, row) <= RunOf(k, row + 1)
        /\ RunOf(k, row) = RunOf(k, row + 1) => TargetAt(k, row) < TargetAt(k, row + 1)
    BY <1>2, <2>2, NextRow
  <2>4. RunOf(k, row) \in Nat /\ RunOf(k, row + 1) \in Nat
    BY <1>2, <2>2, RunOfIs
  <2>5. TargetAt(k, row) \in Nat /\ TargetAt(k, row + 1) \in Nat
    BY <1>2, <1>5, <2>2, FileHasTarget
  <2>6. cur[k].run \in Nat /\ cur[k].time \in Nat
    BY <1>3 DEF ReadType, Shots
  <2>7. PICK a \in Nat : a = cur[k].run
    BY <2>6
  <2>8. PICK t \in Nat : t = cur[k].time
    BY <2>6
  <2>9. PICK r \in Nat : r = RunOf(k, row)
    BY <2>4
  <2>10. PICK s \in Nat : s = RunOf(k, row + 1)
    BY <2>4
  <2>11. a < s \/ (a = s /\ t <= TargetAt(k, row + 1))
    BY <2>1, <2>3, <2>5, <2>7, <2>8, <2>9, <2>10
  <2> QED
    BY <2>7, <2>8, <2>10, <2>11
<1> QED
  BY <1>3, <1>4, <1>5

\* The buffers are full: a batch is yielded and the buffers start again.
LEMMA FlushStep ==
  ASSUME PlanInv, ReadType, ReadInv, AtRow,
         \A k \in Cams : Len(frames[k]) = Len(labels) + 1,
         Yield(parts \o Slice(first, row + 1), Append(labels, row)),
         row' = row + 1, first' = row + 1, parts' = <<>>, labels' = <<>>,
         frames' = [k \in Cams |-> <<>>],
         UNCHANGED <<req, tasks, phase, status, task, seg, table, cur, eof>>
  PROVE  ReadType' /\ ReadInv'
<1>1. /\ status = "reading" /\ row < Segment.to /\ seg > 0
      /\ \A x \in row..(row + 1 - 1) : Meta.data[EpisodeOf(Meta, x)] = table
  <2>1. status = "reading" /\ row < Segment.to /\ Meta.data[EpisodeOf(Meta, row)] = table
    BY DEF AtRow
  <2>2. seg > 0 /\ row \in Nat
    BY <2>1, ReadingFacts
  <2>3. \A x \in row..(row + 1 - 1) : x = row
    BY <2>2
  <2> QED
    BY <2>1, <2>2, <2>3
<1>2. /\ SegOK /\ Buffers /\ FramesAligned /\ Yielded
      /\ Segment.from \in Nat /\ Segment.to \in Nat /\ row \in Nat /\ Base \in Nat
      /\ Len(labels) \in Nat /\ row = Base + Len(labels) /\ Segment.from <= row
  BY <1>1, ReadingFacts
<1>3. row + 1 \in Nat /\ row <= row + 1 /\ row + 1 <= Segment.to /\ (row + 1) - row = 1 /\ Base <= row + 1
  BY <1>1, <1>2
<1> DEFINE rows == parts \o Slice(first, row + 1)
           strings == Append(labels, row)
<1>4. /\ rows \in Seq(Rows) /\ Len(rows) = Len(labels) + 1
      /\ \A i \in 1..Len(rows) : rows[i].row = Base + i - 1 /\ rows[i].chunk = ChunkStop(Base + i - 1)
  <2>1. PICK b \in Nat : b = row + 1
    BY <1>3
  <2>2. row <= b /\ b <= Segment.to /\ \A x \in row..(b - 1) : Meta.data[EpisodeOf(Meta, x)] = table
    <3>1. \A x \in row..(b - 1) : x = row
      BY <1>2, <2>1
    <3>2. Meta.data[EpisodeOf(Meta, row)] = table
      BY DEF AtRow
    <3> QED
      BY <1>3, <2>1, <3>1, <3>2
  <2>3. rows = parts \o Slice(first, b)
    BY <2>1
  <2> HIDE DEF rows
  <2>4. /\ rows \in Seq(Rows) /\ Len(rows) = Len(labels) + (b - row)
        /\ \A i \in 1..Len(rows) : rows[i].row = Base + i - 1 /\ rows[i].chunk = ChunkStop(Base + i - 1)
    BY <1>2, <2>2, <2>3, BufferIs
  <2>5. b - row = 1
    BY <1>2, <2>1
  <2> QED
    BY <2>4, <2>5
<1>5. strings \in Seq(Nat) /\ Len(strings) = Len(labels) + 1
  BY <1>2 DEF ReadType
<1>6. \A i \in 1..Len(strings) : strings[i] = Base + i - 1
  <2> TAKE i \in 1..Len(strings)
  <2>1. CASE i \in 1..Len(labels)
    <3>1. strings[i] = labels[i]
      BY <1>2, <2>1 DEF ReadType
    <3> QED
      BY <1>2, <2>1, <3>1 DEF Buffers
  <2>2. CASE i = Len(labels) + 1
    <3>1. strings[i] = row
      BY <1>2, <2>2 DEF ReadType
    <3> QED
      BY <1>2, <2>2, <3>1
  <2> QED
    BY <1>2, <1>5, <2>1, <2>2
<1> HIDE DEF rows, strings
<1>7. Handed(row + 1, rows, strings)
  BY <1>3, <1>4, <1>5, <1>6 DEF Handed
<1>8. Yield(rows, strings)
  BY DEF rows, strings
<1>9. /\ batch' \in [rows : Seq(Rows), labels : Seq(Nat), frames : [Cams -> Seq(Frames)]]
      /\ BatchInv'
      /\ sent' \in Seq(Nat) /\ Len(sent') = (row + 1) - Segment.from
      /\ \A i \in 1..Len(sent') : sent'[i] = Segment.from + i - 1
  BY <1>1, <1>2, <1>3, <1>4, <1>5, <1>7, <1>8, YieldIs
<1>10. /\ parts' \in Seq(Rows) /\ labels' \in Seq(Nat) /\ frames' \in [Cams -> Seq(Frames)]
       /\ Len(parts') = 0 /\ Len(labels') = 0 /\ \A k \in Cams : Len(frames'[k]) = 0
  <2>1. \A S : <<>> \in Seq(S)
    OBVIOUS
  <2> QED
    BY <2>1
<1>11. ReadType'
  BY <1>3, <1>9, <1>10 DEF ReadType
<1>12. Ctl' /\ SentInv' /\ ExhaustInv'
  BY <1>1 DEF ReadInv, Ctl, SentInv, ExhaustInv
<1>13. AlignInv'
  <2>1. Base' = row + 1
    BY <1>3, <1>10 DEF Base
  <2>2. Buffers'
    <3>1. /\ Segment' = Segment /\ Segment.from <= row + 1 /\ row + 1 <= row + 1
          /\ 0 = 0 + ((row + 1) - (row + 1))
      BY <1>2, <1>3, SameSegment
    <3>2. \A x \in (row + 1)..((row + 1) - 1) : FALSE
      BY <1>3
    <3>3. \A i \in 1..0 : FALSE
      OBVIOUS
    <3> QED
      BY <1>3, <1>10, <3>1, <3>2, <3>3 DEF Buffers
  <2>3. FramesAligned'
    BY <1>10 DEF FramesAligned
  <2>4. Yielded'
    BY <1>9, <2>1, SameSegment DEF Yielded
  <2> QED
    BY <2>2, <2>3, <2>4 DEF AlignInv
<1>14. FrameInv'
  BY <1>10 DEF FrameInv
<1>15. CurInv'
  BY CurNext
<1> QED
  BY <1>9, <1>11, <1>12, <1>13, <1>14, <1>15 DEF ReadInv

\* The row joins the others in the buffers.
LEMMA AddRowStep ==
  ASSUME PlanInv, ReadType, ReadInv, AtRow,
         \A k \in Cams : Len(frames[k]) = Len(labels) + 1,
         row' = row + 1, labels' = Append(labels, row),
         UNCHANGED <<req, tasks, phase, status, task, seg, table, cur, eof, first, frames, parts, batch, sent>>
  PROVE  ReadType' /\ ReadInv'
<1>1. status = "reading" /\ row < Segment.to /\ Meta.data[EpisodeOf(Meta, row)] = table
  BY DEF AtRow
<1>2. /\ SegOK /\ Buffers /\ FramesAligned /\ Yielded
      /\ Segment.from \in Nat /\ Segment.to \in Nat /\ row \in Nat /\ Base \in Nat /\ first \in Nat
      /\ Len(labels) \in Nat /\ Len(parts) \in Nat /\ row = Base + Len(labels)
      /\ Segment.from <= first /\ first <= row /\ seg > 0
  BY <1>1, ReadingFacts
<1>3. /\ labels' \in Seq(Nat) /\ Len(labels') = Len(labels) + 1 /\ labels'[Len(labels) + 1] = row
      /\ \A i \in 1..Len(labels) : labels'[i] = labels[i]
  BY <1>2 DEF ReadType
<1>4. ReadType'
  BY <1>2, <1>3 DEF ReadType
<1>5. Ctl' /\ SentInv' /\ ExhaustInv'
  BY <1>1 DEF ReadInv, Ctl, SentInv, ExhaustInv
<1>6. BatchInv'
  BY SameSegment DEF ReadInv, BatchInv
<1>7. Base' = Base
  BY <1>2, <1>3 DEF Base
<1>8. Buffers'
  <2>1. \A x \in first..row : Meta.data[EpisodeOf(Meta, x)] = table
    <3> TAKE x \in first..row
    <3>1. x \in first..(row - 1) \/ x = row
      BY <1>2
    <3> QED
      BY <1>1, <1>2, <3>1 DEF Buffers
  <2>2. \A i \in 1..Len(labels') : labels'[i] = Base + i - 1
    <3> TAKE i \in 1..Len(labels')
    <3>1. i \in 1..Len(labels) \/ i = Len(labels) + 1
      BY <1>2, <1>3
    <3>2. i \in 1..Len(labels) => labels[i] = Base + i - 1
      BY <1>2 DEF Buffers
    <3>3. i = Len(labels) + 1 => labels'[i] = Base + i - 1
      <4>1. row = Base + (Len(labels) + 1) - 1
        BY <1>2
      <4> QED
        BY <1>3, <4>1
    <3> QED
      BY <1>3, <3>1, <3>2, <3>3
  <2>3. Len(labels') = Len(parts) + ((row + 1) - first)
    <3>1. Len(labels) = Len(parts) + (row - first)
      BY <1>2 DEF Buffers
    <3>2. PICK n \in Nat : n = Len(labels)
      BY <1>2
    <3>3. PICK p \in Nat : p = Len(parts)
      BY <1>2
    <3>4. n + 1 = p + ((row + 1) - first)
      <4>1. n = p + (row - first)
        BY <3>1, <3>2, <3>3
      <4>2. row \in Nat /\ first \in Nat
        BY <1>2
      <4> QED
        BY <4>1, <4>2
    <3>5. Len(labels') = n + 1
      BY <1>3, <3>2
    <3> QED
      BY <3>3, <3>4, <3>5
  <2>4. first <= row + 1 /\ row + 1 <= Segment.to
    BY <1>1, <1>2
  <2>5. \A i \in 1..Len(parts) : parts[i].row = Base + i - 1 /\ parts[i].chunk = ChunkStop(Base + i - 1)
    BY <1>2 DEF Buffers
  <2> QED
    <3>1. /\ Segment' = Segment /\ Meta' = Meta /\ first' = first /\ parts' = parts /\ table' = table
          /\ row' = row + 1 /\ \A x : ChunkStop(x)' = ChunkStop(x)
      BY SameSegment
    <3>2. \A x \in first..(row' - 1) : Meta'.data[EpisodeOf(Meta', x)] = table
      <4>1. first..(row' - 1) = first..row
        BY <1>2
      <4> QED
        BY <2>1, <3>1, <4>1
    <3>3. \A i \in 1..Len(parts) : parts[i].chunk = ChunkStop(Base + i - 1)'
      BY <1>7, <2>5, <3>1
    <3> QED
      <4>1. (\A x \in first..(row - 1) : Meta.data[EpisodeOf(Meta, x)] = table)'
        BY <3>1, <3>2
      <4>2. (\A i \in 1..Len(labels) : labels[i] = Base + i - 1)'
        BY <1>7, <2>2
      <4>3. (\A i \in 1..Len(parts) : parts[i].row = Base + i - 1 /\ parts[i].chunk = ChunkStop(Base + i - 1))'
        BY <1>7, <2>5, <3>1, <3>3
      <4>4. (Segment.from <= first /\ first <= row /\ row <= Segment.to)'
        BY <1>2, <2>4, <3>1
      <4>5. (Len(labels) = Len(parts) + (row - first))'
        BY <2>3, <3>1
      <4> QED
        BY <4>1, <4>2, <4>3, <4>4, <4>5 DEF Buffers
<1>9. FramesAligned'
  BY <1>2, <1>3, <1>7 DEF FramesAligned
<1>10. Yielded'
  BY <1>2, <1>7, SameSegment DEF Yielded
<1>11. FrameInv'
  BY SameSegment DEF ReadInv, FrameInv
<1>12. CurInv'
  BY CurNext
<1> QED
  BY <1>4, <1>5, <1>6, <1>8, <1>9, <1>10, <1>11, <1>12 DEF ReadInv, AlignInv

LEMMA FinishRowStep ==
  ASSUME PlanInv, ReadType, ReadInv, FinishRow, UNCHANGED planVars
  PROVE  ReadType' /\ ReadInv'
<1>1. CASE Len(labels) + 1 >= req.batch
  BY <1>1, FlushStep DEF FinishRow, planVars
<1>2. CASE ~(Len(labels) + 1 >= req.batch)
  BY <1>2, AddRowStep DEF FinishRow, planVars
<1> QED
  BY <1>1, <1>2

LEMMA NextTableStep ==
  ASSUME PlanInv, ReadType, ReadInv, NextTable, UNCHANGED planVars
  PROVE  ReadType' /\ ReadInv'
<1>1. /\ status = "reading" /\ row < Segment.to /\ ~AtRow
      /\ parts' = parts \o Slice(first, row) /\ first' = row
      /\ table' = Meta.data[EpisodeOf(Meta, row)]
      /\ UNCHANGED <<req, tasks, phase, status, task, seg, row, cur, eof, frames, labels, batch, sent>>
  BY DEF NextTable, planVars
<1>2. /\ seg > 0 /\ SegOK /\ Buffers /\ FramesAligned /\ Yielded /\ InSeg(row)
      /\ Segment.from \in Nat /\ Segment.to \in Nat /\ row \in Nat /\ Base \in Nat
      /\ Len(labels) \in Nat /\ Segment.from <= row /\ row <= row /\ row <= Segment.to
  BY <1>1, ReadingFacts
<1>3. \A x \in row..(row - 1) : Meta.data[EpisodeOf(Meta, x)] = table
  BY <1>2
<1>4. /\ parts' \in Seq(Rows) /\ Len(parts') = Len(labels) + (row - row)
      /\ \A i \in 1..Len(parts') :
           parts'[i].row = Base + i - 1 /\ parts'[i].chunk = ChunkStop(Base + i - 1)
  BY <1>1, <1>2, <1>3, BufferIs
<1>5. table' \in Nat
  <2>1. EpisodeOf(Meta, row) \in Episodes(Meta)
    BY <1>2, InSegFacts
  <2> QED
    BY <1>1, <1>2, <2>1 DEF SegOK, IsDataset
<1>6. ReadType'
  BY <1>1, <1>2, <1>4, <1>5 DEF ReadType
<1>7. Ctl' /\ SentInv' /\ ExhaustInv'
  BY <1>1 DEF ReadInv, Ctl, SentInv, ExhaustInv
<1>8. BatchInv' /\ FrameInv'
  BY <1>1, SameSegment, SMTT(30) DEF ReadInv, BatchInv, FrameInv
<1>9. CurInv'
  BY <1>1, SameSegment DEF ReadInv, CurInv
<1>10. Base' = Base
  BY <1>1 DEF Base
<1>11. Buffers'
  <2>1. Len(labels) = Len(parts') + (row - row)
    BY <1>2, <1>4
  <2>2. \A x \in row..(row - 1) : FALSE
    BY <1>2
  <2>3. \A i \in 1..Len(labels) : labels[i] = Base + i - 1
    BY <1>2 DEF Buffers
  <2> QED
    BY <1>1, <1>2, <1>4, <1>10, <2>1, <2>2, <2>3, SameSegment DEF Buffers
<1>12. FramesAligned'
  BY <1>1, <1>2, <1>10 DEF FramesAligned
<1>13. Yielded'
  BY <1>1, <1>2, <1>10, SameSegment DEF Yielded
<1> QED
  BY <1>6, <1>7, <1>8, <1>9, <1>11, <1>12, <1>13 DEF ReadInv, AlignInv

LEMMA FinishSegmentStep ==
  ASSUME PlanInv, ReadType, ReadInv, FinishSegment, UNCHANGED planVars
  PROVE  ReadType' /\ ReadInv'
<1>1. /\ status = "reading" /\ row = Segment.to /\ status' = "between" /\ first' = row
      /\ parts' = parts \o Slice(first, row)
      /\ UNCHANGED <<req, tasks, phase, task, seg, row, table, cur, eof, frames, labels>>
  BY DEF FinishSegment, planVars
<1>2. /\ seg > 0 /\ SegOK /\ Buffers /\ FramesAligned /\ Yielded
      /\ Segment.from \in Nat /\ Segment.to \in Nat /\ row \in Nat /\ Base \in Nat
      /\ Len(labels) \in Nat /\ row = Base + Len(labels) /\ row <= row /\ row <= Segment.to /\ Base <= row
  BY <1>1, ReadingFacts
<1>3. \A x \in row..(row - 1) : Meta.data[EpisodeOf(Meta, x)] = table
  BY <1>2
<1>4. PICK rows \in Seq(Rows) :
        /\ rows = parts' /\ Len(rows) = Len(labels) + (row - row)
        /\ \A i \in 1..Len(rows) :
             rows[i].row = Base + i - 1 /\ rows[i].chunk = ChunkStop(Base + i - 1)
  BY <1>1, <1>2, <1>3, BufferIs
<1>5. Handed(row, rows, labels)
  <2>1. ~AtRow
    BY <1>1, <1>2 DEF AtRow
  <2>2. \A k \in Cams : Len(frames[k]) = Len(rows)
    <3>1. Len(rows) = Len(labels)
      BY <1>2, <1>4
    <3>2. \A k \in Cams : Len(frames[k]) = Len(labels)
      BY <1>2, <2>1 DEF FramesAligned
    <3> QED
      BY <3>1, <3>2
  <2>3. \A i \in 1..Len(labels) : labels[i] = Base + i - 1
    BY <1>2 DEF Buffers
  <2>4. Len(labels) = Len(rows)
    BY <1>2, <1>4
  <2> QED
    BY <1>2, <1>4, <2>2, <2>3, <2>4 DEF Handed
<1>6. /\ batch' \in [rows : Seq(Rows), labels : Seq(Nat), frames : [Cams -> Seq(Frames)]]
      /\ BatchInv'
      /\ sent' \in Seq(Nat) /\ Len(sent') = row - Segment.from
  <2>1. CASE parts' # <<>>
    <3>1. Yield(rows, labels)
      BY <1>4, <2>1 DEF FinishSegment
    <3>2. labels \in Seq(Nat)
      BY DEF ReadType
    <3> QED
      BY <1>1, <1>2, <1>5, <3>1, <3>2, YieldIs
  <2>2. CASE parts' = <<>>
    <3>1. batch' = batch /\ sent' = sent
      BY <2>2 DEF FinishSegment
    <3>2. Len(labels) = 0
      BY <1>2, <1>4, <2>2
    <3>3. Len(sent) = row - Segment.from
      BY <1>2, <3>2 DEF Yielded
    <3>4. BatchInv'
      BY <1>1, <3>1, SameSegment DEF ReadInv, BatchInv
    <3> QED
      BY <3>1, <3>3, <3>4 DEF ReadType
  <2> QED
    BY <2>1, <2>2
<1>7. ReadType'
  BY <1>1, <1>2, <1>4, <1>6 DEF ReadType
<1>8. Ctl' /\ AlignInv' /\ CurInv' /\ ExhaustInv'
  BY <1>1 DEF ReadInv, Ctl, AlignInv, CurInv, ExhaustInv
<1>9. SentInv'
  BY <1>1, <1>6, SameSegment DEF SentInv
<1>10. FrameInv'
  BY <1>1, SameSegment DEF ReadInv, FrameInv
<1> QED
  BY <1>6, <1>7, <1>8, <1>9, <1>10 DEF ReadInv

LEMMA OpenSegmentStep ==
  ASSUME PlanInv, ReadType, ReadInv, OpenSegment, UNCHANGED planVars
  PROVE  ReadType' /\ ReadInv'
<1> DEFINE next == tasks[task][seg + 1]
           d == req.metas[next.root]
<1>1. /\ status = "between" /\ seg < Len(tasks[task]) /\ status' = "reading" /\ seg' = seg + 1
      /\ row' = next.from /\ first' = next.from /\ table' = d.data[EpisodeOf(d, next.from)]
      /\ cur' = [k \in Cams |-> NoFrame] /\ eof' = [k \in Cams |-> FALSE]
      /\ frames' = [k \in Cams |-> <<>>] /\ labels' = <<>> /\ parts' = <<>> /\ sent' = <<>>
      /\ batch' = [rows |-> <<>>, labels |-> <<>>, frames |-> [k \in Cams |-> <<>>]]
      /\ UNCHANGED <<req, tasks, phase, task>>
  BY DEF OpenSegment, planVars
<1>2. seg \in Nat /\ seg + 1 \in Nat /\ phase = "planned" /\ task \in 1..Len(tasks)
  BY <1>1, SMTT(30) DEF ReadType, ReadInv, Ctl
<1>3. /\ next \in Segments /\ IsDataset(d) /\ IsRange(d, next)
      /\ next.from \in Nat /\ next.to \in Nat /\ next.from < next.to
  <2>1. Len(tasks[task]) \in Nat
    BY <1>2 DEF PlanInv, PlanType
  <2>2. Cell(task, seg + 1)
    BY <1>1, <1>2, <2>1 DEF Cell
  <2>3. Part(next)
    BY <2>2 DEF PlanInv, TaskInv
  <2>4. req \in Requests
    BY DEF PlanInv, PlanType
  <2> QED
    BY <2>3, <2>4, RequestFacts DEF Part, IsRange
<1>4. table' \in Nat
  <2>1. next.from \in RowsOf(d)
    BY <1>3, DatasetFacts DEF IsRange, RowsOf
  <2>2. EpisodeOf(d, next.from) \in Episodes(d)
    BY <1>3, <2>1, EpisodeOfIs
  <2> QED
    BY <1>1, <1>3, <2>2 DEF IsDataset
<1>5. Segment' = next
  BY <1>1 DEF Segment
<1> HIDE DEF next, d
<1>6. /\ parts' \in Seq(Rows) /\ labels' \in Seq(Nat) /\ frames' \in [Cams -> Seq(Frames)]
      /\ sent' \in Seq(Nat)
      /\ batch' \in [rows : Seq(Rows), labels : Seq(Nat), frames : [Cams -> Seq(Frames)]]
      /\ Len(parts') = 0 /\ Len(labels') = 0 /\ Len(sent') = 0
      /\ \A k \in Cams : Len(frames'[k]) = 0 /\ Len(batch'.frames[k]) = 0
      /\ Len(batch'.rows) = 0 /\ Len(batch'.labels) = 0
  <2>1. \A S : <<>> \in Seq(S)
    OBVIOUS
  <2>2. frames' \in [Cams -> Seq(Frames)] /\ [k \in Cams |-> <<>>] \in [Cams -> Seq(Frames)]
    BY <1>1, <2>1
  <2> QED
    BY <1>1, <2>1, <2>2
<1>7. ReadType'
  BY <1>1, <1>2, <1>3, <1>4, <1>6 DEF ReadType
<1>8. Ctl'
  <2>1. Len(tasks[task]) \in Nat
    BY <1>2 DEF PlanInv, PlanType
  <2> QED
    BY <1>1, <1>2, <2>1 DEF Ctl
<1>9. SentInv' /\ ExhaustInv'
  BY <1>1 DEF SentInv, ExhaustInv
<1>10. BatchInv'
  BY <1>1, <1>2, <1>6 DEF BatchInv
<1>11. FrameInv'
  BY <1>6 DEF FrameInv
<1>12. CurInv'
  BY <1>1, <1>5, <1>6 DEF CurInv
<1>13. AlignInv'
  <2>1. Base' = next.from
    BY <1>1, <1>3, <1>6 DEF Base
  <2>2. Buffers'
    <3>1. \A x \in next.from..(next.from - 1) : FALSE
      BY <1>3
    <3> QED
      BY <1>1, <1>3, <1>5, <1>6, <3>1 DEF Buffers
  <2>3. FramesAligned'
    BY <1>6 DEF FramesAligned
  <2>4. Yielded'
    BY <1>3, <1>5, <1>6, <2>1 DEF Yielded
  <2> QED
    BY <2>2, <2>3, <2>4 DEF AlignInv
<1> QED
  BY <1>7, <1>8, <1>9, <1>10, <1>11, <1>12, <1>13 DEF ReadInv

----------------------------------------------------------------------------
(* The other steps, and the invariant. *)

LEMMA StartTaskStep ==
  ASSUME PlanInv, ReadType, ReadInv, StartTask, UNCHANGED planVars
  PROVE  ReadType' /\ ReadInv'
<1>1. /\ status = "idle" /\ phase = "planned" /\ status' = "between" /\ task' \in 1..Len(tasks) /\ seg = 0
      /\ UNCHANGED <<req, tasks, phase, seg, row, table, first, cur, eof, frames, labels, parts, batch, sent>>
  BY DEF StartTask, planVars, ReadInv, Ctl
<1>2. task' \in Nat /\ Len(tasks[task']) \in Nat
  BY <1>1 DEF PlanInv, PlanType
<1>3. ReadType'
  BY <1>1, <1>2 DEF ReadType
<1>4. Ctl' /\ AlignInv' /\ SentInv' /\ CurInv' /\ FrameInv' /\ ExhaustInv'
  BY <1>1, <1>2 DEF Ctl, AlignInv, SentInv, CurInv, FrameInv, ExhaustInv
<1>5. BatchInv'
  BY <1>1 DEF ReadInv, BatchInv
<1> QED
  BY <1>3, <1>4, <1>5 DEF ReadInv

LEMMA InterruptReadStep ==
  ASSUME PlanInv, ReadType, ReadInv, NEW k \in Cams, InterruptRead(k), UNCHANGED planVars
  PROVE  ReadType' /\ ReadInv'
<1>1. /\ AtRow /\ eof' \in [Cams -> BOOLEAN] /\ cur' = cur
      /\ UNCHANGED <<req, tasks, phase, status, task, seg, row, table, first, frames, labels, parts, batch, sent>>
  BY DEF InterruptRead, Pulling, Seeking, planVars, ReadType
<1>2. PICK c \in Shots : c = [run |-> 0, time |-> 0]
  BY DEF Shots
<1> QED
  BY <1>1, CurStep

LEMMA EndSteps ==
  ASSUME PlanInv, ReadType, ReadInv, UNCHANGED planVars,
         FinishTask \/ Interrupt \/ \E k \in Cams : StopStream(k) \/ InterruptOpen(k)
  PROVE  ReadType' /\ ReadInv'
<1>1. /\ UNCHANGED <<req, tasks, phase, task, seg, row, table, first, cur, eof, frames, labels, parts, batch, sent>>
      /\ status # "idle"
      /\ status' \in {"done", "cancelled", "cut"}
      /\ status' = "done" => status = "between"
  BY DEF FinishTask, Interrupt, StopStream, InterruptOpen, Pulling, Seeking, AtRow, Behind, planVars
<1> QED
  BY <1>1, EndStep

\* Planning comes before reading.
LEMMA PlanningStep ==
  ASSUME PlanInv, ReadType, ReadInv, PlanNext, UNCHANGED readVars
  PROVE  ReadType' /\ ReadInv'
<1>1. status = "idle" /\ seg = 0
  <2>1. phase # "planned"
    BY DEF PlanNext, SliceRoot, NextRange, AllSliced, OpenGroup, FillGroup, AllGrouped
  <2> QED
    BY <2>1 DEF ReadInv, Ctl
<1>2. ReadType'
  BY DEF ReadType, readVars
<1>3. Ctl' /\ AlignInv' /\ SentInv' /\ CurInv' /\ FrameInv' /\ ExhaustInv'
  BY <1>1 DEF readVars, ReadType, Ctl, AlignInv, SentInv, CurInv, FrameInv, ExhaustInv
<1>4. BatchInv'
  BY <1>1 DEF ReadInv, BatchInv, readVars, ReadType
<1> QED
  BY <1>2, <1>3, <1>4 DEF ReadInv

LEMMA SameVars ==
  ASSUME PlanInv, ReadType, ReadInv, UNCHANGED vars
  PROVE  ReadType' /\ ReadInv'
<1>1. ReadType' /\ Ctl'
  BY DEF ReadType, ReadInv, Ctl, vars, planVars, readVars
<1>2. UNCHANGED <<req, tasks, task, seg>>
  BY DEF vars, planVars, readVars
<1>3. AtRow' <=> AtRow
  BY <1>2, SameSegment DEF AtRow, vars, readVars
<1>4. AlignInv'
  BY <1>2, <1>3, SameSegment DEF ReadInv, AlignInv, Buffers, FramesAligned, Yielded, Base, vars, readVars
<1>5. BatchInv' /\ SentInv'
  BY <1>2, SameSegment DEF ReadInv, BatchInv, SentInv, vars, readVars
<1>6. CurInv'
  BY <1>2, SameSegment DEF ReadInv, CurInv, vars, readVars
<1>7. FrameInv' /\ ExhaustInv'
  BY <1>2, SameSegment DEF ReadInv, FrameInv, ExhaustInv, vars, readVars
<1> QED
  BY <1>1, <1>4, <1>5, <1>6, <1>7 DEF ReadInv

LEMMA IInvInit == Init => IInv
  BY PlanInvInit, ReadInit1 DEF Init, IInv

LEMMA IInvStep == IInv /\ [Next]_vars => IInv'
<1> SUFFICES ASSUME IInv, [Next]_vars PROVE IInv'
  OBVIOUS
<1>1. PlanInv /\ ReadType /\ ReadInv
  BY DEF IInv
<1>2. PlanInv'
  <2>1. [PlanNext]_planVars
    BY DEF Next, Over, vars
  <2> QED
    BY <1>1, <2>1, PlanInvStep
<1>3. ReadType' /\ ReadInv'
  <2>1. CASE PlanNext /\ UNCHANGED readVars
    BY <1>1, <2>1, PlanningStep
  <2>2. CASE ReadNext /\ UNCHANGED planVars
    <3>1. CASE StartTask
      BY <1>1, <2>2, <3>1, StartTaskStep
    <3>2. CASE OpenSegment
      BY <1>1, <2>2, <3>2, OpenSegmentStep
    <3>3. CASE FinishRow
      BY <1>1, <2>2, <3>3, FinishRowStep
    <3>4. CASE NextTable
      BY <1>1, <2>2, <3>4, NextTableStep
    <3>5. CASE FinishSegment
      BY <1>1, <2>2, <3>5, FinishSegmentStep
    <3>6. CASE FinishTask \/ Interrupt
      BY <1>1, <2>2, <3>6, EndSteps
    <3>7. ASSUME NEW k \in Cams, CamNext(k) PROVE ReadType' /\ ReadInv'
      <4>1. CASE FirstFrame(k)
        BY <1>1, <2>2, <4>1, FirstFrameStep
      <4>2. CASE NextFrame(k)
        BY <1>1, <2>2, <4>2, NextFrameStep
      <4>3. CASE NextFile(k)
        BY <1>1, <2>2, <4>3, NextFileStep
      <4>4. CASE Exhaust(k)
        BY <1>1, <2>2, <4>4, ExhaustStep
      <4>5. CASE TakeFrame(k)
        BY <1>1, <2>2, <4>5, TakeFrameStep
      <4>6. CASE InterruptRead(k)
        BY <1>1, <2>2, <4>6, InterruptReadStep
      <4>7. CASE StopStream(k) \/ InterruptOpen(k)
        BY <1>1, <2>2, <4>7, EndSteps
      <4> QED
        BY <3>7, <4>1, <4>2, <4>3, <4>4, <4>5, <4>6, <4>7 DEF CamNext
    <3> QED
      BY <2>2, <3>1, <3>2, <3>3, <3>4, <3>5, <3>6, <3>7 DEF ReadNext
  <2>3. CASE UNCHANGED vars
    BY <1>1, <2>3, SameVars
  <2> QED
    BY <2>1, <2>2, <2>3 DEF Next, Over
<1> QED
  BY <1>2, <1>3 DEF IInv

\* The inductive invariant of planning and reading.
THEOREM InvariantHolds == Spec => []IInv
  BY IInvInit, IInvStep, PTL DEF Spec

----------------------------------------------------------------------------
(* The theorems. *)

\* Every variable keeps its type.
THEOREM TypeCorrect == Spec => []TypeOK
<1>1. IInv => TypeOK
  BY DEF IInv, PlanInv, TypeOK
<1> QED
  BY <1>1, InvariantHolds, PTL

LEMMA Aligned == IInv => BatchesAligned
<1> SUFFICES ASSUME IInv PROVE BatchesAligned
  OBVIOUS
<1>1. BatchInv /\ SentInv /\ (status = "reading" => Yielded)
  BY DEF IInv, ReadInv, AlignInv
<1> QED
  BY <1>1 DEF BatchesAligned, BatchInv, SentInv, Yielded

\* Every batch joins the columns of the same rows, and the batches of a segment are its
\* rows in order, whatever the datasets, the batch size and the moment of a cancellation.
THEOREM BatchesAreAligned == Spec => []BatchesAligned
  BY InvariantHolds, Aligned, PTL

LEMMA NeverAhead == IInv => FramesNeverAhead
<1> SUFFICES ASSUME IInv, seg > 0, Complete(Meta), NEW k \in Cams, NEW i \in 1..Len(frames[k])
             PROVE  \/ frames[k][i].run < RunOf(k, frames[k][i].for)
                    \/ /\ frames[k][i].run = RunOf(k, frames[k][i].for)
                       /\ frames[k][i].time = TargetAt(k, frames[k][i].for)
  BY DEF FramesNeverAhead, TargetAt
<1>1. SegOK
  BY SegIsOK DEF IInv, ReadInv
<1>2. SegmentComplete
  <2>1. StartEp..LastEp \subseteq Episodes(Meta)
    BY <1>1, SegEpisodes
  <2> QED
    BY <2>1 DEF Complete, SegmentComplete
<1> QED
  BY <1>2 DEF IInv, ReadInv, FrameInv

\* With complete videos no row ever gets a frame from ahead of its own.
THEOREM NoFrameFromAhead == Spec => []FramesNeverAhead
  BY InvariantHolds, NeverAhead, PTL

LEMMA Truncated == IInv => OnlyTruncationExhausts
<1> SUFFICES ASSUME IInv, status = "exhausted"
             PROVE  \E k \in Cams : \E e \in StartEp..LastEp :
                      Meta.frames[k][e] < Meta.ts[k][e] + To(Meta, e) - From(Meta, e)
  BY DEF OnlyTruncationExhausts
<1>1. SegOK /\ ~SegmentComplete
  BY SegIsOK DEF IInv, ReadInv, Ctl, ExhaustInv
<1>2. PICK k \in Cams, e \in StartEp..LastEp :
        ~(Meta.ts[k][e] + To(Meta, e) - From(Meta, e) <= Meta.frames[k][e])
  BY <1>1 DEF SegmentComplete
<1>3. e \in Episodes(Meta)
  BY <1>1, SegEpisodes
<1>4. /\ Meta.ts[k][e] \in Nat /\ Meta.frames[k][e] \in Nat
      /\ To(Meta, e) \in Nat /\ From(Meta, e) \in Nat
  BY <1>1, <1>3, CamFacts, DatasetFacts DEF SegOK
<1>5. Meta.frames[k][e] < Meta.ts[k][e] + To(Meta, e) - From(Meta, e)
  BY <1>2, <1>4
<1> QED
  BY <1>5

\* No cancellation and no change of files is taken for a truncated video.
THEOREM OnlyTruncated == Spec => []OnlyTruncationExhausts
  BY InvariantHolds, Truncated, PTL

LEMMA ChunksStop == IInv => ChunksEndWithEpisode
<1> SUFFICES ASSUME IInv, NEW i \in 1..Len(batch.rows)
             PROVE  batch.rows[i].chunk =
                      IF req.mode = "row_block"
                      THEN Smaller(To(Meta, EpisodeOf(Meta, batch.rows[i].row)) - 1, Segment.to - 1)
                      ELSE To(Meta, EpisodeOf(Meta, batch.rows[i].row)) - 1
  BY DEF ChunksEndWithEpisode
<1>1. PICK x : x = batch.rows[i].row
  OBVIOUS
<1>2. batch.rows[i].chunk = ChunkStop(x) /\ InSeg(x) /\ seg > 0
  <2>1. BatchInv /\ seg \in Nat /\ Len(batch.rows) \in Nat /\ Len(batch.rows) # 0
    BY DEF IInv, ReadInv, ReadType
  <2> QED
    BY <1>1, <2>1 DEF BatchInv
<1>3. SegOK
  BY <1>2, SegIsOK DEF IInv, ReadInv
<1>4. /\ EpisodeOf(Meta, x) \in Episodes(Meta) /\ To(Meta, EpisodeOf(Meta, x)) \in Nat
      /\ From(Meta, EpisodeOf(Meta, x)) \in Nat /\ From(Meta, EpisodeOf(Meta, x)) <= x
      /\ x \in Nat /\ x < Segment.to /\ Segment.to \in Nat
  BY <1>2, <1>3, InSegFacts, SegEpisodes DEF InSeg
<1>5. ASSUME req.mode # "row_block" PROVE To(Meta, EpisodeOf(Meta, x)) <= Segment.to
  <2>1. Cut(Meta, Segment.to)
    BY <1>3, <1>5 DEF SegOK, IsRange
  <2>2. PICK c \in 0..Meta.n : Segment.to = Meta.to[c]
    BY <2>1 DEF Cut
  <2>3. PICK e \in Episodes(Meta) : e = EpisodeOf(Meta, x)
    BY <1>4
  <2>4. IsDataset(Meta) /\ Meta.n \in Nat
    BY <1>3, SegEpisodes DEF SegOK
  <2>5. e \in 0..Meta.n /\ e - 1 \in 0..Meta.n /\ c \in Nat /\ e \in Nat
    BY <2>4 DEF Episodes
  <2>6. Meta.to[e - 1] < Segment.to /\ Meta.to[e - 1] \in Nat /\ Meta.to[e] \in Nat /\ Meta.to[c] \in Nat
    BY <1>4, <2>2, <2>3 DEF From, To
  <2>7. ~(c < e - 1) /\ c # e - 1
    <3>1. c < e - 1 => Meta.to[c] < Meta.to[e - 1]
      BY <2>4, <2>5 DEF IsDataset
    <3>2. Meta.to[e - 1] < Meta.to[c]
      BY <2>2, <2>6
    <3> QED
      BY <2>6, <3>1, <3>2
  <2>8. c = e \/ e < c
    BY <2>5, <2>7
  <2>9. Meta.to[e] <= Meta.to[c]
    BY <2>4, <2>5, <2>6, <2>8 DEF IsDataset
  <2> QED
    BY <2>2, <2>3, <2>9 DEF To
<1>6. req.mode # "row_block" => ChunkStop(x) = To(Meta, EpisodeOf(Meta, x)) - 1
  BY <1>4, <1>5 DEF ChunkStop, Smaller
<1> QED
  BY <1>1, <1>2, <1>6 DEF ChunkStop

\* The chunk of every yielded row stops at the end of its episode or of its row block.
THEOREM ChunksEnd == Spec => []ChunksEndWithEpisode
  BY InvariantHolds, ChunksStop, PTL

\* The plan a task reads is one that reads every row once.
THEOREM TasksReadEveryRowOnce == Spec => []PlanCovers
<1>1. IInv => PlanCovers
  BY PlanInvCovers DEF IInv
<1> QED
  BY <1>1, InvariantHolds, PTL

\* And it gives no task more than one slice more than another.
THEOREM TasksAreLevel == Spec => []PlanBalanced
<1>1. Init => OwnerInv
  BY OwnerInvInit DEF Init
<1>2. IInv /\ IInv' /\ OwnerInv /\ [Next]_vars => OwnerInv'
  <2> SUFFICES ASSUME IInv, IInv', OwnerInv, [Next]_vars PROVE OwnerInv'
    OBVIOUS
  <2>1. [PlanNext]_planVars
    BY DEF Next, Over, vars
  <2> QED
    BY <2>1, OwnerInvStep DEF IInv
<1>3. IInv /\ OwnerInv => PlanBalanced
  BY PlanInvBalanced DEF IInv
<1> QED
  BY <1>1, <1>2, <1>3, InvariantHolds, PTL DEF Spec
=============================================================================
