\* An id may be cancelled twice.
SPECIFICATION FairSpec
CONSTANTS
  Sessions = {s1}
  Ids = {i1}
  Callers = {c1, c2}
  NumberOfThread = 1
  HardwareConcurrency = 8
  MaxCancels = 2
  None = None
PROPERTY
  CancelledIsReported
