SYMMETRY OperatorSymmetry
SPECIFICATION Spec
CHECK_DEADLOCK FALSE
CONSTANTS
  Operators = {o1, o2}
  None = None
  Payloads <- MCPayloads
  Month <- MCMonth
  FirstDay = 29
  LastDay = 60
  MondayShift = 0
  LastTick = 2
  MaxAge = 1
  MaxEdits = 2
  MaxCommands = 2
INVARIANTS
  TypeOK
  OpensAsDescribed
  OneCommandPerWindow
PROPERTIES
  ResumeIsAsked
