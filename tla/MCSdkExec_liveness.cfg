SPECIFICATION FairSpec
CONSTANTS
  c1 = c1
  c2 = c2
  c3 = c3
  a1 = a1
  a2 = a2
  a3 = a3
  Call <- TwoCalls
  Admin <- ThreeAdmins
  Kinds = {"exec"}
  Bodies = {"loop", "net"}
  AdminOps <- OneEach
  MaxInit = 1
  Concurrent = TRUE
  MayPanic = FALSE
  Nil = Nil
  Root = Root
PROPERTY TimedCallsReturn
PROPERTY OrphanEnds
PROPERTY CancelComesThrough
CHECK_DEADLOCK FALSE
