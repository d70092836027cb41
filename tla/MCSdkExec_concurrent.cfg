SPECIFICATION Spec
CONSTANTS
  c1 = c1
  c2 = c2
  c3 = c3
  a1 = a1
  a2 = a2
  a3 = a3
  Call <- TwoCalls
  Admin <- TwoAdmins
  Kinds = {"execIn", "inlineIn", "python"}
  Bodies = {"short", "net", "deaf"}
  AdminOps <- AnyCall
  MaxInit = 2
  Concurrent = TRUE
  MayPanic = TRUE
  Nil = Nil
  Root = Root
SYMMETRY Symmetry
INVARIANT RuntimeExclusive
INVARIANT AnswerIsFinal
PROPERTY Contract
CHECK_DEADLOCK FALSE
