\* Two requests, two callers.
SPECIFICATION FairSpec
CONSTANTS
  Requests = {r1, r2}
  Callers = {c1, c2}
  None = None
INVARIANTS
  TypeOK
  CallbackOnce
  NoOperationAfterCancel
  CancelLosesOnlyToBody
  OutcomeIsEarned
PROPERTIES
  SilentAfterClose
  ImplementsAsyncRequests
  ExecutedIsReported
  CloseReturns
