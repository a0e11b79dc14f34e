\* Any reorganisation between any two RPC calls; the loop keeps polling. The chain is
\* long enough for a cursor more than a chunk behind. Polls that fail are in the
\* projector's run.
SPECIFICATION Spec
CONSTANTS
  MaxHeight = 7
  MaxForks = 2
  MaxFaults = 0
  Depth = 2
  Chunk = 1
  StaleTags = TRUE
INVARIANTS CheckpointCanonical ViewMatchesChain DisplacedReported
PROPERTIES CatchesUp
