\* Both set-ups, all scenarios, messages that fit and messages that do not.
SPECIFICATION FairSpec
CONSTANTS
  Fixtures = {"SetUp", "runServer_runClient"}
  Scenarios = {"write_read_some", "asio_read_write", "asio_read_until", "read_write_async",
               "cancel_async", "shutdown_send", "both_ask", "both_answer", "two_lines"}
  Sizes = {0, 1, 2, 4}
  Capacity = 2
\* Calls may wait for ever.
CHECK_DEADLOCK FALSE
INVARIANTS
  TypeOK
  WholeOrThrown
PROPERTIES
  ReturnsIfItFits
