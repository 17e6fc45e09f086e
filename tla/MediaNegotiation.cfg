SPECIFICATION Spec
CONSTANTS
  Descriptions <- MCDescriptions
  Callees <- MCCallees
  Callers <- MCCallers
  None = None
CHECK_DEADLOCK FALSE
INVARIANTS
  AnswerFitsOffer
