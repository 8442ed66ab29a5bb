\* Liveness: no id is cancelled twice.  The pool has the size of a machine with
\* 258 hardware threads, which uint8_t makes 2.
SPECIFICATION FairSpec
CONSTANTS
  Sessions = {s1, s2}
  Ids = {i1}
  Callers = {c1, c2}
  NumberOfThread = 0
  HardwareConcurrency = 258
  MaxCancels = 1
  None = None
PROPERTIES
  SubmittedIsReported
  CloseReturns
