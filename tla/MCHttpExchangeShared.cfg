\* Two requests share the server: what either asks for, or the loss of its
\* connection, may end it for both.
SPECIFICATION Spec
CONSTANTS
  Requests = {r1, r2}
  Callers = {c1}
  ThreadPoolSize = 1
  Kinds = {"found", "fatal"}
  None = None
INVARIANTS
  OutcomeFitsAnswer
CONSTRAINT AtMostOneDisturbance
SYMMETRY Symmetry
