SPECIFICATION FairSpec
CONSTANTS
  InSession <- MCInSession
  OutSession <- MCOutSession
  Provisioned = TRUE
INVARIANTS
  TypeOK
  SpinHasTransfer
  SessionSilent
PROPERTIES
  LineSpec
  HostGetsFree
