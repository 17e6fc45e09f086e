SPECIFICATION Spec
CONSTANTS
  InviteCSeq <- MCInviteCSeq
  Scenarios <- MCScenarios
  Datagrams <- MCDatagrams
INVARIANT DuplicateOKIsReACKed
