SPECIFICATION Spec
CONSTANTS
  MaxCalls = 2
  Programs <- Commands
  MaxCancels = 1
  Size = 1
  Files = 2
  Skipped = {2}
  Nil = Nil
INVARIANT OneRequest
PROPERTY Delivered
PROPERTY RuntimeFreed
CHECK_DEADLOCK FALSE
