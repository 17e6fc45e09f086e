SPECIFICATION Spec
CONSTANTS
  Scripts <- MCScripts
  T1 = 1
  T2 = 3
  Lag = 1
  MaxTime = 16
  Never = Never
CHECK_DEADLOCK FALSE
INVARIANTS
  ScriptedTimesKept
  RepeatedUntilAnswered
