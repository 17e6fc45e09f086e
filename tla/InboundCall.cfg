SPECIFICATION FairSpec
CONSTANTS
  InviteCSeq <- MCInviteCSeq
  Scenarios <- MCScenarios
  Datagrams <- MCDatagrams
INVARIANTS
  TypeOK
  EveryFinalIsACKed
  EstablishedCallIsReleased
  NoMediaOutlivesCall
  DigitsAreConfirmed
  SuccessMeansExpectedStatus
PROPERTIES
  OwnCSeqIncreases
  OutcomeIsWrittenOnce
  ImplementsInviteClient
  SessionEnds
