SPECIFICATION Spec
CONSTANTS
  InviteCSeq <- MCInviteCSeq
  Scenarios <- MCScenarios
  Datagrams <- MCDatagrams
PROPERTY NoInviteAfterCANCEL
