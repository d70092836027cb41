SPECIFICATION FairSpec
CONSTANTS
  Scripts <- All
  CodeOf <- MCCodeOf
  Vars = {"x", "y"}
  MaxFn = 3
  MaxSubst = 1
  MaxIter = 2
  MaxStack = 20
  Wrap = 8
  Nil = Nil
INVARIANT Agrees
INVARIANT DepthsExact
INVARIANT CancelShows
PROPERTY CallsEnd
CHECK_DEADLOCK FALSE
