\* One request of any kind, one caller, one thread.
SPECIFICATION FairSpec
CONSTANTS
  Requests = {r1}
  Callers = {c1}
  ThreadPoolSize = 1
  Kinds = {"found", "missing", "unreadable", "large", "fatal"}
  None = None
INVARIANTS
  OutcomeFitsAnswer
PROPERTIES
  ExchangeEnds
