\* AsyncServer<ServiceFakeAsync>: three connections, the default of two threads.
SPECIFICATION Spec
CONSTANTS
  ServiceType = "ServiceFakeAsync"
  Services = {s1, s2, s3}
  ThreadPoolSize = 0
  None = None
INVARIANTS
  NoUseAfterDelete
