\* The test Http.simpleScenario: one request, and the client goes out of scope.
SPECIFICATION Spec
CONSTANTS
  Requests = {r1}
  Callers = {c1}
  None = None
PROPERTY
  AnsweredMayBeDestroyed
