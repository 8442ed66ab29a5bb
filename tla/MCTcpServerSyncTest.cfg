\* The test's server: ParallelAcceptor, two clients.
SPECIFICATION Spec
CONSTANTS
  Clients = {c1, c2}
  AcceptorTypes = {"ParallelAcceptor"}
INVARIANTS
  AnsweredServerMayBeDestroyed
