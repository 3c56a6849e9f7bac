SPECIFICATION Spec
CONSTANTS
  InSession <- MCInSession
  OutSession <- MCOutSessionAcked
  Provisioned = TRUE
INVARIANT
  SpinHasTransfer
