SPECIFICATION Spec
CONSTANTS
  Cams <- MCCams
  Requests <- MCRequests
  NoFrame = NoFrame
INVARIANTS
  PlanCovers
  PlanBalanced
  FramesNeverAhead
  OnlyTruncationExhausts
  ChunksEndWithEpisode
PROPERTY StreamSpec
