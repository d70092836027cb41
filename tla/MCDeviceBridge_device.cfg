SPECIFICATION FairSpec
CONSTANTS
  c1 = c1
  c2 = c2
  c3 = c3
  h1 = h1
  h2 = h2
  g1 = g1
  g2 = g2
  g3 = g3
  Call <- TwoCalls
  Responder <- TwoResponders
  Host <- TwoHosts
  HostOps = {"setSync", "clearSync", "setAsync", "clearAsync", "init"}
  MaxInit = 1
  MaxId = 2
  Overlap = FALSE
  TimedOut = TimedOut
  Unsupported = Unsupported
  Nil = Nil
INVARIANT OwnAnswer
INVARIANT NoLeak
INVARIANT PluginCurrent
PROPERTY CallsReturn
CHECK_DEADLOCK FALSE
