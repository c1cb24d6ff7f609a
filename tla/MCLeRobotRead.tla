---------------------------- MODULE MCLeRobotRead ----------------------------
(* Small LeRobot datasets and the ways to read them. *)
EXTENDS LeRobotRead

MCCams == {"top", "wrist"}

Dataset(to, data, top, wrist, topAt, wristAt, topFrames, wristFrames, remote) ==
  [n |-> Len(data),
   to |-> [e \in 0..Len(data) |-> IF e = 0 THEN 0 ELSE to[e]],
   data |-> data,
   file |-> [k \in MCCams |-> IF k = "top" THEN top ELSE wrist],
   ts |-> [k \in MCCams |-> IF k = "top" THEN topAt ELSE wristAt],
   frames |-> [k \in MCCams |-> IF k = "top" THEN topFrames ELSE wristFrames],
   remote |-> remote]

\* The cameras change files at different episodes.
Staggered ==
  Dataset(<<2, 3, 5>>, <<0, 0, 1>>, <<0, 0, 1>>, <<0, 1, 1>>,
          <<0, 2, 0>>, <<0, 0, 1>>, <<3, 3, 2>>, <<2, 3, 3>>, TRUE)

\* One camera comes back to a file it had left; the other has a single file.
Interleaved ==
  Dataset(<<1, 2, 4>>, <<0, 0, 0>>, <<0, 1, 0>>, <<2, 2, 2>>,
          <<0, 0, 1>>, <<0, 1, 2>>, <<3, 1, 3>>, <<4, 4, 4>>, FALSE)

\* Both do: the chains of episodes overlap, and no grouping by files is possible.
Entangled ==
  Dataset(<<1, 2, 3>>, <<0, 0, 0>>, <<0, 1, 0>>, <<0, 1, 0>>,
          <<0, 0, 1>>, <<0, 0, 1>>, <<2, 1, 2>>, <<2, 1, 2>>, FALSE)

\* The first file of a camera lacks its last frame.
Truncated ==
  Dataset(<<2, 4>>, <<0, 1>>, <<0, 1>>, <<0, 0>>,
          <<0, 0>>, <<0, 2>>, <<1, 2>>, <<4, 4>>, FALSE)

MCRequests ==
  [metas : {<<Staggered>>, <<Interleaved>>, <<Entangled>>, <<Truncated>>, <<Truncated, Interleaved>>},
   mode : Modes, block : {3}, parallelism : {0, 1, 3}, batch : {1, 2}]
=============================================================================
