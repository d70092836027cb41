SPECIFICATION Spec
CONSTANTS
  c1 = c1
  c2 = c2
  c3 = c3
  a1 = a1
  a2 = a2
  a3 = a3
  Call <- TwoCalls
  Admin <- OneAdmin
  Kinds = {"exec"}
  Bodies = {"short", "loop"}
  AdminOps <- OnlyInit
  MaxInit = 1
  Concurrent = FALSE
  MayPanic = FALSE
  Nil = Nil
  Root = Root
SYMMETRY Symmetry
PROPERTY NoGhostRun
CHECK_DEADLOCK FALSE
