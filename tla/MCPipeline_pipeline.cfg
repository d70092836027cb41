SPECIFICATION FairSpec
CONSTANTS
  Sessions <- Mixed
  NCalls = 2
  MaxSegments = 2
  MaxStages = 3
  MaxNest = 2
  MaxAsks = 1
  Nil = Nil
INVARIANT TypeOK
INVARIANT StageOrder
INVARIANT Joined
INVARIANT PipelineCode
INVARIANT FlagRestored
INVARIANT OwnTimeout
PROPERTY TimeoutBounds
PROPERTY CancelEndsCall
CHECK_DEADLOCK FALSE
