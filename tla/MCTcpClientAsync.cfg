\* Two requests that may share an id, two callers, two pool threads, and two
\* calls of CancelRequest for each id.
SPECIFICATION Spec
CONSTANTS
  Sessions = {s1, s2}
  Ids = {i1, i2}
  Callers = {c1, c2}
  NumberOfThread = 2
  HardwareConcurrency = 8
  MaxCancels = 2
  None = None
INVARIANTS
  TypeOK
  NoConcurrentHandlers
  CallbackOnce
  CancelledNeverOk
  OutcomeIsEarned
  NoStaleEntry
  ActiveIsCancellable
  OneOperationAfterCancel
PROPERTIES
  SilentAfterClose
  ImplementsAsyncRequests
SYMMETRY Symmetry
