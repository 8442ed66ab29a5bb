\* Both acceptors, two clients.
SPECIFICATION FairSpec
CONSTANTS
  Clients = {c1, c2}
  AcceptorTypes = {"AcceptorCl", "ParallelAcceptor"}
INVARIANTS
  TypeOK
  OneAcceptAfterStop
PROPERTIES
  StopReturnsIfClientComes
  SentIsAnswered
