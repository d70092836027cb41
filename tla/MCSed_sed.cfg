SPECIFICATION Spec
CONSTANTS
  Letter <- Letters
  Scripts <- AllScripts
  Inputs <- Lines
  MaxSpace = 64
  MaxQueue = 6
  MaxOut = 64
INVARIANT PathsAgree
INVARIANT LinesKept
PROPERTY ScriptsEnd
CHECK_DEADLOCK FALSE
