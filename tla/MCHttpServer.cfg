\* AsyncServer<HttpService>: two connections, two threads.
SPECIFICATION FairSpec
CONSTANTS
  ServiceType = "HttpService"
  Services = {s1, s2}
  ThreadPoolSize = 2
  None = None
INVARIANTS
  TypeOK
  NoUseAfterDelete
  NoForgottenService
  OneAccept
PROPERTIES
  AnswersOnce
  SilentAfterStop
  AcceptedIsServed
  StopReturns
