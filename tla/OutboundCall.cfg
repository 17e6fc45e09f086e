SPECIFICATION FairSpec
CONSTANTS
  InviteCSeq <- MCInviteCSeq
  Scenarios <- MCScenarios
  Datagrams <- MCDatagrams
INVARIANTS
  TypeOK
  EstablishedMeansConfirmed
  EstablishedCallIsReleased
  TerminatedByTellsWho
  NoMediaOutlivesCall
  DigitsRecordedOnce
  OutcomeStatusAgreesWithWire
  SuccessMeansScenarioPlayed
PROPERTIES
  RetransmissionsRepeatLastResponse
  OutcomeIsWrittenOnce
  FailureStopsScript
  NoBYEAfterPeerBYE
  ImplementsInviteServer
  SessionEnds
