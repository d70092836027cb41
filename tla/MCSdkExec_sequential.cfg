SPECIFICATION Spec
CONSTANTS
  c1 = c1
  c2 = c2
  c3 = c3
  a1 = a1
  a2 = a2
  a3 = a3
  Call <- ThreeCalls
  Admin <- TwoAdmins
  Kinds = {"execIn", "override"}
  Bodies = {"short", "loop"}
  AdminOps <- InitOrCancel
  MaxInit = 1
  Concurrent = FALSE
  MayPanic = FALSE
  Nil = Nil
  Root = Root
SYMMETRY Symmetry
INVARIANT CwdNotPolluted
INVARIANT OneVictimPerCancel
CHECK_DEADLOCK FALSE
