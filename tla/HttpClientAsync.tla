-------------------------- MODULE HttpClientAsync --------------------------
(***************************************************************************)
(* HTTPClient and HTTPRequest of asiolib/http-client-async.hpp:            *)
(* application threads execute and cancel requests and close the client,   *)
(* while its only thread runs the completion handlers of an io_context.    *)
(*                                                                         *)
(* Unlike the TCP client, a request keeps m_cancel_mux from the check of   *)
(* m_was_cancelled until its next operation is initiated, and no other     *)
(* lock is taken meanwhile: that critical section is one step with the     *)
(* part of the handler before it.  on_finish runs without the lock, a step *)
(* of its own.  Applications execute a request once.                       *)
(***************************************************************************)
EXTENDS Naturals

CONSTANTS
  Requests,   \* the HTTPRequest objects
  Callers,    \* application threads
  None        \* no request

ASSUME NoneAssumption == None \notin Requests

VARIABLES
  m_was_cancelled,  \* of each request, as are the next six
  m_response,       \* what was parsed into it: "none", "status" or "headers"
  started,          \* how many operations were initiated
  io,               \* the last one: "none", "pending" or its result
  ec,               \* the error code given to on_finish, "none" before
  calls,            \* how often m_callback was called
  startedAtCancel,  \* history: started[r] when r was first cancelled
  finishing,        \* the request whose on_finish the client's thread is in
  exited,           \* has that thread returned from run()?
  call,             \* which call each caller is in
  arg,              \* on which request
  m_work,           \* does the io_service::work object exist?
  stopped,          \* has the io_service stopped?
  closed,           \* has close returned?
  life              \* of the client: "alive", "destroyed" or "terminated",
                    \* the latter with std::terminate, that is, the program

requestVars == <<m_was_cancelled, m_response, started, io, ec, calls,
                 startedAtCancel>>
threadVars  == <<finishing, exited>>
callerVars  == <<call, arg>>
contextVars == <<m_work, stopped, closed, life>>
vars == <<requestVars, threadVars, callerVars, contextVars>>

\* The operations of a request in their order; started[r] names the last one.
Resolve     == 1
Connect     == 2
Write       == 3
ReadStatus  == 4
ReadHeaders == 5
ReadBody    == 6

Results == {"ok", "eof", "aborted", "failed"}

Init ==
  /\ m_was_cancelled = [r \in Requests |-> FALSE]
  /\ m_response = [r \in Requests |-> "none"]
  /\ started = [r \in Requests |-> 0]
  /\ io = [r \in Requests |-> "none"]
  /\ ec = [r \in Requests |-> "none"]
  /\ calls = [r \in Requests |-> 0]
  /\ startedAtCancel = [r \in Requests |-> 0]
  /\ finishing = None
  /\ exited = FALSE
  /\ call = [c \in Callers |-> "idle"]
  /\ arg = [c \in Callers |-> None]
  /\ m_work = TRUE
  /\ stopped = FALSE
  /\ closed = FALSE
  /\ life = "alive"

-----------------------------------------------------------------------------
(* The io_service and its thread.                                          *)

\* It stops when neither the work object nor an operation nor a handler is left.
StopIfIdle ==
  stopped' = (stopped \/ ~(\/ m_work'
                           \/ \E r \in Requests : io'[r] # "none"
                           \/ finishing' # None))

\* What an operation may end with; only the reads can see the end of the stream.
ResultsOf(op) ==
  IF op = ReadBody THEN {"eof", "failed"}
  ELSE IF op \in {ReadStatus, ReadHeaders} THEN {"ok", "eof", "failed"}
  ELSE {"ok", "failed"}

\* The operating system completes the operation in flight.
Complete(r) ==
  /\ io[r] = "pending"
  /\ \E result \in ResultsOf(started[r]) : io' = [io EXCEPT ![r] = result]
  /\ UNCHANGED <<m_was_cancelled, m_response, started, ec, calls,
                 startedAtCancel, threadVars, callerVars, contextVars>>

\* run() returns once the io_service has stopped.
ThreadExits ==
  /\ stopped
  /\ finishing = None
  /\ ~exited
  /\ exited' = TRUE
  /\ UNCHANGED <<requestVars, finishing, callerVars, contextVars>>

\* run() calls the handler of request r, whose operation was op.
Handles(r, op) ==
  /\ ~stopped
  /\ finishing = None
  /\ started[r] = op
  /\ io[r] \in Results

-----------------------------------------------------------------------------
(* Completion handlers.  Each ends in on_finish, or with the next operation *)
(* in flight.                                                              *)

\* The call of on_finish with an error code.
FinishWith(r, e) ==
  /\ ec' = [ec EXCEPT ![r] = e]
  /\ finishing' = r
  /\ io' = [io EXCEPT ![r] = "none"]
  /\ UNCHANGED <<started, stopped>>

\* Mutant: the end of the stream counts as success in all handlers.
FinishFailedAtEofOk(r) ==
  /\ io[r] # "ok"
  /\ FinishWith(r, CASE io[r] = "aborted" -> "aborted" [] io[r] = "eof" -> "ok"
                     [] OTHER -> "failed")

\* The operation failed.
FinishFailed(r) ==
  /\ io[r] # "ok"
  /\ FinishWith(r, IF io[r] = "aborted" THEN "aborted" ELSE "failed")

\* The next operation is initiated.
StartNext(r) ==
  /\ started' = [started EXCEPT ![r] = @ + 1]
  /\ io' = [io EXCEPT ![r] = "pending"]
  /\ UNCHANGED <<ec, finishing>>

\* Mutant: m_was_cancelled is not looked at.
GoOnUnchecked(r) == StartNext(r) /\ UNCHANGED stopped

\* Mutant: a cancelled request is finished with a default error code.
GoOnOrSucceed(r) ==
  \/ m_was_cancelled[r] /\ FinishWith(r, "ok")
  \/ ~m_was_cancelled[r] /\ StartNext(r) /\ UNCHANGED stopped

\* Mutant: the test of m_was_cancelled is inverted.
GoOnIfCancelled(r) ==
  \/ ~m_was_cancelled[r] /\ FinishWith(r, "aborted")
  \/ m_was_cancelled[r] /\ StartNext(r) /\ UNCHANGED stopped

\* Mutant: a cancelled request is dropped without on_finish.
GoOnOrDrop(r) ==
  \/ /\ m_was_cancelled[r]
     /\ io' = [io EXCEPT ![r] = "none"]
     /\ UNCHANGED <<started, ec, finishing, stopped>>
  \/ ~m_was_cancelled[r] /\ StartNext(r) /\ UNCHANGED stopped

\* Under m_cancel_mux: a cancelled request is finished, another one goes on.
GoOn(r) ==
  \/ m_was_cancelled[r] /\ FinishWith(r, "aborted")
  \/ ~m_was_cancelled[r] /\ StartNext(r) /\ UNCHANGED stopped

\* What no handler changes.
HandlerFrame ==
  UNCHANGED <<m_was_cancelled, calls, startedAtCancel, exited, callerVars,
              m_work, closed>>

\* on_host_name_resolved, and on_connection_established, which also puts the
\* request together.
OnResolvedOrConnected(r, op) ==
  /\ op \in {Resolve, Connect}
  /\ Handles(r, op)
  /\ FinishFailed(r) \/ (io[r] = "ok" /\ GoOn(r))
  /\ UNCHANGED <<m_response, life>>
  /\ HandlerFrame

\* on_request_sent: shutdown(shutdown_send) throws if the connection is gone,
\* and nobody catches what leaves run().
OnRequestSent(r) ==
  /\ Handles(r, Write)
  /\ \/ FinishFailed(r) /\ UNCHANGED life
     \/ io[r] = "ok" /\ GoOn(r) /\ UNCHANGED life
     \/ /\ io[r] = "ok"
        /\ life' = "terminated"
        /\ UNCHANGED <<io, started, ec, finishing, stopped>>
  /\ UNCHANGED m_response
  /\ HandlerFrame

\* on_status_line_received: the line may be no valid status line.
OnStatusLineReceived(r) ==
  /\ Handles(r, ReadStatus)
  /\ \/ FinishFailed(r) /\ UNCHANGED m_response
     \/ io[r] = "ok" /\ FinishWith(r, "failed") /\ UNCHANGED m_response
     \/ /\ io[r] = "ok"
        /\ m_response' = [m_response EXCEPT ![r] = "status"]
        /\ GoOn(r)
  /\ UNCHANGED life
  /\ HandlerFrame

OnHeadersReceived(r) ==
  /\ Handles(r, ReadHeaders)
  /\ \/ FinishFailed(r) /\ UNCHANGED m_response
     \/ /\ io[r] = "ok"
        /\ m_response' = [m_response EXCEPT ![r] = "headers"]
        /\ GoOn(r)
  /\ UNCHANGED life
  /\ HandlerFrame

\* Mutant: on_response_body_received is written like the other handlers.
OnResponseBodyReceivedGoesOn(r) ==
  /\ Handles(r, ReadBody)
  /\ GoOn(r)
  /\ UNCHANGED <<m_response, life>>
  /\ HandlerFrame

\* on_response_body_received: the end of the stream is the end of the body;
\* nobody is asked about cancellation.
OnResponseBodyReceived(r) ==
  /\ Handles(r, ReadBody)
  /\ \/ io[r] = "eof" /\ FinishWith(r, "ok")
     \/ io[r] # "eof" /\ FinishFailed(r)
  /\ UNCHANGED <<m_response, life>>
  /\ HandlerFrame

\* on_finish in the client's thread: the callback runs, the handler returns.
OnFinish ==
  /\ finishing # None
  /\ calls' = [calls EXCEPT ![finishing] = @ + 1]
  /\ finishing' = None
  /\ UNCHANGED <<m_was_cancelled, m_response, started, io, ec,
                 startedAtCancel, exited, callerVars, m_work, closed, life>>
  /\ StopIfIdle

-----------------------------------------------------------------------------
(* Calls of the application.                                               *)

\* execute: a request cancelled before is finished in the caller's thread.
Execute(c, r) ==
  /\ call[c] = "idle"
  /\ started[r] = 0
  /\ ec[r] = "none"
  /\ \/ /\ m_was_cancelled[r]
        /\ ec' = [ec EXCEPT ![r] = "aborted"]
        /\ call' = [call EXCEPT ![c] = "finish"]
        /\ arg' = [arg EXCEPT ![c] = r]
        /\ UNCHANGED <<started, io, finishing>>
     \/ /\ ~m_was_cancelled[r]
        /\ StartNext(r)
        /\ UNCHANGED callerVars
  /\ UNCHANGED <<m_was_cancelled, m_response, calls, startedAtCancel, exited,
                 contextVars>>

\* on_finish in the caller's thread.
FinishInCaller(c) ==
  /\ call[c] = "finish"
  /\ calls' = [calls EXCEPT ![arg[c]] = @ + 1]
  /\ call' = [call EXCEPT ![c] = "idle"]
  /\ arg' = [arg EXCEPT ![c] = None]
  /\ UNCHANGED <<m_was_cancelled, m_response, started, io, ec,
                 startedAtCancel, threadVars, contextVars>>

\* Mutant: a cancellation queues an aborted completion of its own.
AfterCancelAlways(r) == IF started[r] = 0 THEN {io[r]} ELSE {"aborted"}

\* What m_resolver.cancel() and m_sock.cancel() may make of an operation: a
\* running getaddrinfo is not interrupted, a composed operation may be
\* between two parts, and a queued handler keeps its result.
AfterCancel(r) ==
  IF io[r] = "pending" THEN {"aborted", "pending"} ELSE {io[r]}

\* cancel
Cancel(c, r) ==
  /\ call[c] = "idle"
  /\ m_was_cancelled' = [m_was_cancelled EXCEPT ![r] = TRUE]
  /\ \E result \in AfterCancel(r) : io' = [io EXCEPT ![r] = result]
  /\ startedAtCancel' =
       [startedAtCancel EXCEPT ![r] = IF m_was_cancelled[r] THEN @ ELSE started[r]]
  /\ UNCHANGED <<m_response, started, ec, calls, threadVars, callerVars,
                 contextVars>>

\* Mutant: close joins the thread without giving up the work object.
CloseKeepsWork(c) ==
  /\ call[c] = "idle"
  /\ m_work
  /\ call' = [call EXCEPT ![c] = "join"]
  /\ UNCHANGED <<requestVars, threadVars, arg, contextVars>>

\* close up to the join.  A second call throws out of join and changes nothing.
Close(c) ==
  /\ call[c] = "idle"
  /\ m_work
  /\ m_work' = FALSE
  /\ call' = [call EXCEPT ![c] = "join"]
  /\ UNCHANGED <<requestVars, threadVars, arg, closed, life>>
  /\ StopIfIdle

\* Mutant: close does not wait for the thread.
JoinedEarly(c) ==
  /\ call[c] = "join"
  /\ closed' = TRUE
  /\ call' = [call EXCEPT ![c] = "idle"]
  /\ UNCHANGED <<requestVars, threadVars, arg, m_work, stopped, life>>

Joined(c) ==
  /\ call[c] = "join"
  /\ exited
  /\ closed' = TRUE
  /\ call' = [call EXCEPT ![c] = "idle"]
  /\ UNCHANGED <<requestVars, threadVars, arg, m_work, stopped, life>>

\* The implicit destructor, once nobody is inside a call: m_thread is destroyed
\* joinable unless close was called.
Destroy ==
  /\ \A c \in Callers : call[c] = "idle"
  /\ life' = IF closed THEN "destroyed" ELSE "terminated"
  /\ UNCHANGED <<requestVars, threadVars, callerVars, m_work, stopped, closed>>

-----------------------------------------------------------------------------
ThreadStep ==
  /\ life = "alive"
  /\ \/ \E r \in Requests, op \in {Resolve, Connect} : OnResolvedOrConnected(r, op)
     \/ \E r \in Requests : \/ OnRequestSent(r)
                            \/ OnStatusLineReceived(r)
                            \/ OnHeadersReceived(r)
                            \/ OnResponseBodyReceived(r)
     \/ OnFinish
     \/ ThreadExits

\* What a caller does once it is inside a call.
CallStep(c) ==
  /\ life = "alive"
  /\ FinishInCaller(c) \/ Joined(c)

CompleteStep(r) == life = "alive" /\ Complete(r)

Next ==
  \/ ThreadStep
  \/ \E c \in Callers : CallStep(c)
  \/ \E r \in Requests : CompleteStep(r)
  \/ /\ life = "alive"
     /\ \/ \E c \in Callers, r \in Requests : Execute(c, r) \/ Cancel(c, r)
        \/ \E c \in Callers : Close(c)
        \/ Destroy
  \/ life # "alive" /\ UNCHANGED vars

Spec == Init /\ [][Next]_vars

(***************************************************************************)
(* The client's thread runs when it can, the name service, the peer or the *)
(* operating system ends every operation sooner or later, and a call that  *)
(* was begun goes on.  Nobody need call anything.                          *)
(***************************************************************************)
Fairness ==
  /\ WF_vars(ThreadStep)
  /\ \A c \in Callers : WF_vars(CallStep(c))
  /\ \A r \in Requests : WF_vars(CompleteStep(r))

FairSpec == Spec /\ Fairness

-----------------------------------------------------------------------------
(* Properties.                                                             *)

TypeOK ==
  /\ m_was_cancelled \in [Requests -> BOOLEAN]
  /\ m_response \in [Requests -> {"none", "status", "headers"}]
  /\ started \in [Requests -> 0..ReadBody]
  /\ io \in [Requests -> Results \cup {"none", "pending"}]
  /\ ec \in [Requests -> {"none", "ok", "aborted", "failed"}]
  /\ calls \in [Requests -> Nat]
  /\ startedAtCancel \in [Requests -> 0..ReadBody]
  /\ finishing \in Requests \cup {None}
  /\ exited \in BOOLEAN
  /\ call \in [Callers -> {"idle", "finish", "join"}]
  /\ arg \in [Callers -> Requests \cup {None}]
  /\ m_work \in BOOLEAN
  /\ stopped \in BOOLEAN
  /\ closed \in BOOLEAN
  /\ life \in {"alive", "destroyed", "terminated"}

\* m_callback runs at most once per request, whether the client's thread or
\* the thread that executes the request calls it.
CallbackOnce == \A r \in Requests : calls[r] <= 1

\* Once cancel() has returned, the request initiates no further operation, whatever
\* its handlers were doing meanwhile.  The one in flight may not be interrupted and
\* still end well.
NoOperationAfterCancel ==
  \A r \in Requests : m_was_cancelled[r] => started[r] = startedAtCancel[r]

\* A request cancelled before its body was being read is never reported as
\* successful; from then on a cancellation may come too late.
CancelLosesOnlyToBody ==
  \A r \in Requests :
    calls[r] > 0 /\ ec[r] = "ok" /\ m_was_cancelled[r] => startedAtCancel[r] = ReadBody

\* Success means that status line and headers were read; operation_aborted,
\* that somebody cancelled this very request.
OutcomeIsEarned ==
  \A r \in Requests :
    /\ ec[r] = "ok" => m_response[r] = "headers"
    /\ ec[r] = "aborted" => m_was_cancelled[r]

\* Once close has returned, nobody is called back, except from within an
\* execute of the application itself.
SilentAfterClose ==
  [][closed => \A r \in Requests :
       calls'[r] # calls[r] => \E c \in Callers : call[c] = "finish" /\ arg[c] = r]_vars

\* A request as its application sees it.
Status(r) ==
  CASE calls[r] > 0 -> "done"
    [] calls[r] = 0 /\ (started[r] > 0 \/ ec[r] # "none") -> "active"
    [] OTHER -> "idle"

\* The client implements the promise of AsyncRequests; an answer may outweigh
\* a cancellation.
Promise == INSTANCE AsyncRequests WITH
  CancelWins <- FALSE,
  status     <- [r \in Requests |-> Status(r)],
  cancelled  <- m_was_cancelled,
  outcome    <- [r \in Requests |-> IF calls[r] > 0 THEN ec[r] ELSE "none"]

ImplementsAsyncRequests == Promise!AbsSpec

\* A request executed before the io_service stops is answered, unless the
\* client does not live that long.
ExecutedIsReported ==
  \A r \in Requests :
    (io[r] = "pending" /\ ~stopped) ~> (calls[r] > 0 \/ life # "alive")

\* close returns once the requests in flight are over.
CloseReturns ==
  \A c \in Callers : call[c] = "join" ~> (closed \/ life # "alive")

\* What the test Http.simpleScenario (basics/http-server-client.cpp) takes for
\* granted: a client may go out of scope when its requests were answered well.
AnsweredMayBeDestroyed ==
  [][life' = "terminated" /\ life = "alive" =>
       \E r \in Requests : calls[r] = 0 \/ ec[r] # "ok"]_vars
=============================================================================
