-------------------------- MODULE TcpServerAsync --------------------------
(***************************************************************************)
(* AsyncServer and AsyncAcceptor of asiolib/tcp-server-async.hpp with      *)
(* their services: ServiceFakeAsync of the same file or HttpService of     *)
(* asiolib/http-service-async.hpp.                                         *)
(*                                                                         *)
(* The threads of a pool run the handlers of an io_context.  The acceptor  *)
(* keeps one accept in flight and makes a service per connection; a        *)
(* service is a chain of socket operations whose handlers hold a raw       *)
(* pointer to it, the last one deletes it.  One thread, the owner, starts  *)
(* and stops the server.                                                   *)
(***************************************************************************)
EXTENDS Naturals

CONSTANTS
  ServiceType,     \* "ServiceFakeAsync" or "HttpService"
  Services,        \* the services, one for each connection
  ThreadPoolSize,  \* argument of Start; 0 stands for 2
  None             \* no service, no connection

Threads == 1..(IF ThreadPoolSize # 0 THEN ThreadPoolSize ELSE 2)

ASSUME ServiceTypeAssumption == ServiceType \in {"ServiceFakeAsync", "HttpService"}
ASSUME ThreadPoolAssumption  == ThreadPoolSize \in Nat /\ ThreadPoolSize <= 65535
ASSUME NoneAssumption        == None \notin Services
ASSUME AcceptAssumption      == \A s \in Services : s \notin {"none", "pending", "failed"}

VARIABLES
  server,     \* what the owner did: "new", "started", "stopping", "stopped",
              \* "destroyed"; "terminated": the program ended in std::terminate
  stopFlag_,  \* AsyncAcceptor::stopFlag_
  stopped,    \* has ioc_.stop() been called?
  acceptor_,  \* "none", "listening" or "closed"
  accept,     \* its operation: "none", "pending", "failed" or the connection
  heap,       \* of each service, as are the next three: "none", "live", "deleted"
  operation,  \* the operation initiated last: "none", "read", "headers", "write"
  io,         \* "none", "pending" or its result
  m_response_status_code,
  pc,         \* what each thread does
  cur,        \* for which service
  ec          \* with which error code its handler was called

serviceVars == <<heap, operation, io, m_response_status_code>>
serverVars  == <<server, stopFlag_, stopped>>
acceptVars  == <<acceptor_, accept>>
threadVars  == <<pc, cur, ec>>
vars == <<serviceVars, serverVars, acceptVars, threadVars>>

\* "full": the streambuf is full before the delimiter came (not_found).
Results == {"ok", "full", "failed"}

\* http_status_table
StatusCodes == {200, 404, 413, 500, 501, 505}

Init ==
  /\ server = "new"
  /\ stopFlag_ = FALSE
  /\ stopped = FALSE
  /\ acceptor_ = "none"
  /\ accept = "none"
  /\ heap = [s \in Services |-> "none"]
  /\ operation = [s \in Services |-> "none"]
  /\ io = [s \in Services |-> "none"]
  /\ m_response_status_code = [s \in Services |-> 200]
  /\ pc = [t \in Threads |-> "exited"]
  /\ cur = [t \in Threads |-> None]
  /\ ec = [t \in Threads |-> "ok"]

-----------------------------------------------------------------------------
(* Clients and the operating system.                                       *)

\* A client connects, or the accept fails.
CompleteAccept ==
  /\ accept = "pending"
  /\ \/ accept' \in {s \in Services : heap[s] = "none" /\ \A t \in Threads : cur[t] # s}
     \/ accept' = "failed"
  /\ UNCHANGED <<acceptor_, serviceVars, serverVars, threadVars>>

\* What an operation may end with: only HttpService limits its streambuf.
ResultsOf(op) ==
  IF ServiceType = "HttpService" /\ op # "write" THEN Results ELSE {"ok", "failed"}

CompleteIo(s) ==
  /\ io[s] = "pending"
  /\ \E result \in ResultsOf(operation[s]) : io' = [io EXCEPT ![s] = result]
  /\ UNCHANGED <<heap, operation, m_response_status_code, serverVars,
                 acceptVars, threadVars>>

-----------------------------------------------------------------------------
(* The threads of the pool.                                                *)

\* run() returns once the io_context is stopped, whatever is queued.
ThreadExits(t) ==
  /\ pc[t] = "run"
  /\ stopped
  /\ pc' = [pc EXCEPT ![t] = "exited"]
  /\ UNCHANGED <<serviceVars, serverVars, acceptVars, cur, ec>>

\* Mutant: no accept after a failed one.
TakeAcceptOrGiveUp(t) ==
  /\ pc[t] = "run"
  /\ ~stopped
  /\ accept \notin {"none", "pending"}
  /\ pc' = [pc EXCEPT ![t] = IF accept = "failed" THEN "run" ELSE "create"]
  /\ cur' = [cur EXCEPT ![t] = IF accept = "failed" THEN None ELSE accept]
  /\ accept' = "none"
  /\ UNCHANGED <<acceptor_, serviceVars, serverVars, ec>>

\* run() takes the handler of the accept: AsyncAcceptor::Accept.
TakeAccept(t) ==
  /\ pc[t] = "run"
  /\ ~stopped
  /\ accept \notin {"none", "pending"}
  /\ IF accept = "failed"
     THEN /\ pc' = [pc EXCEPT ![t] = "rearm"]
          /\ UNCHANGED cur
     ELSE /\ pc' = [pc EXCEPT ![t] = "create"]
          /\ cur' = [cur EXCEPT ![t] = accept]
  /\ accept' = "none"
  /\ UNCHANGED <<acceptor_, serviceVars, serverVars, ec>>

\* A socket operation of service s is initiated.
Initiate(s, op) ==
  /\ operation' = [operation EXCEPT ![s] = op]
  /\ io' = [io EXCEPT ![s] = "pending"]

\* Mutant: the new service is not asked to handle the request.
CreateIdle(t) ==
  /\ pc[t] = "create"
  /\ heap' = [heap EXCEPT ![cur[t]] = "live"]
  /\ pc' = [pc EXCEPT ![t] = "rearm"]
  /\ cur' = [cur EXCEPT ![t] = None]
  /\ UNCHANGED <<operation, io, m_response_status_code, serverVars, acceptVars, ec>>

\* new ServiceType(socket), and HandleRequest: the request is being read.
Create(t) ==
  LET s == cur[t] IN
  /\ pc[t] = "create"
  /\ heap' = [heap EXCEPT ![s] = "live"]
  /\ Initiate(s, "read")
  /\ pc' = [pc EXCEPT ![t] = "rearm"]
  /\ cur' = [cur EXCEPT ![t] = None]
  /\ UNCHANGED <<m_response_status_code, serverVars, acceptVars, ec>>

\* The end of Accept: Init again, or close the acceptor.
Rearm(t) ==
  /\ pc[t] = "rearm"
  /\ \/ ~stopFlag_ /\ accept' = "pending" /\ UNCHANGED acceptor_
     \/ stopFlag_ /\ acceptor_' = "closed" /\ UNCHANGED accept
  /\ pc' = [pc EXCEPT ![t] = "run"]
  /\ UNCHANGED <<serviceVars, serverVars, cur, ec>>

\* run() takes the queued handler of service s.
Take(t, s) ==
  /\ pc[t] = "run"
  /\ ~stopped
  /\ io[s] \in Results
  /\ pc' = [pc EXCEPT ![t] = "handle"]
  /\ cur' = [cur EXCEPT ![t] = s]
  /\ ec' = [ec EXCEPT ![t] = io[s]]
  /\ io' = [io EXCEPT ![s] = "none"]
  /\ UNCHANGED <<heap, operation, m_response_status_code, serverVars,
                 acceptVars>>

\* The handler of the operation op of the service of thread t runs and returns.
Handles(t, op) ==
  /\ pc[t] = "handle"
  /\ operation[cur[t]] = op
  /\ pc' = [pc EXCEPT ![t] = "run"]
  /\ cur' = [cur EXCEPT ![t] = None]
  /\ ec' = [ec EXCEPT ![t] = "ok"]
  /\ UNCHANGED <<acceptVars, stopFlag_, stopped>>

\* Mutant: the end of one service ends all.
DeleteAll(s) ==
  /\ heap' = [q \in Services |-> IF heap[q] = "live" THEN "deleted" ELSE heap[q]]
  /\ UNCHANGED <<operation, io, m_response_status_code, server>>

\* Clean and on_finish: delete this.
Delete(s) ==
  /\ heap' = [heap EXCEPT ![s] = "deleted"]
  /\ UNCHANGED <<operation, io, m_response_status_code, server>>

\* Mutant: no return after the Clean of a failed read.
RecieveRequestAndGoOn(t) ==
  /\ ServiceType = "ServiceFakeAsync"
  /\ Handles(t, "read")
  /\ heap' = [heap EXCEPT ![cur[t]] = IF ec[t] = "ok" THEN @ ELSE "deleted"]
  /\ Initiate(cur[t], "write")
  /\ UNCHANGED <<m_response_status_code, server>>

\* ServiceFakeAsync::RecieveRequest, its long computation included.
RecieveRequest(t) ==
  LET s == cur[t] IN
  /\ ServiceType = "ServiceFakeAsync"
  /\ Handles(t, "read")
  /\ \/ ec[t] # "ok" /\ Delete(s)
     \/ /\ ec[t] = "ok"
        /\ Initiate(s, "write")
        /\ UNCHANGED <<heap, m_response_status_code, server>>

\* ServiceFakeAsync::SendAnswer
SendAnswer(t) ==
  /\ ServiceType = "ServiceFakeAsync"
  /\ Handles(t, "write")
  /\ Delete(cur[t])

\* A handler of HttpService throws; nobody catches what leaves run().
Throws ==
  /\ server' = "terminated"
  /\ UNCHANGED serviceVars

\* HttpService::send_response: m_sock->shutdown throws if the connection is gone.
SendResponse(s, code) ==
  \/ Throws
  \/ /\ m_response_status_code' = [m_response_status_code EXCEPT ![s] = code]
     /\ Initiate(s, "write")
     /\ UNCHANGED <<heap, server>>

\* Mutant: a request too large is answered with a status the table lacks.
ReadFailedUnlisted(t) ==
  \/ ec[t] = "full" /\ SendResponse(cur[t], 431)
  \/ ec[t] = "failed" /\ Delete(cur[t])

\* Mutant: on_finish is not called after another failure.
ReadFailedSilently(t) ==
  \/ ec[t] = "full" /\ SendResponse(cur[t], 413)
  \/ ec[t] = "failed" /\ UNCHANGED <<serviceVars, server>>

\* Mutant: no return after that on_finish.
ReadFailedAndGoOn(t) ==
  \/ ec[t] = "full" /\ SendResponse(cur[t], 413)
  \/ /\ ec[t] = "failed"
     /\ heap' = [heap EXCEPT ![cur[t]] = "deleted"]
     /\ Initiate(cur[t], "headers")
     /\ UNCHANGED <<m_response_status_code, server>>

\* HttpService, a read failed: a request too large is answered, else the
\* service ends.
ReadFailed(t) ==
  \/ ec[t] = "full" /\ SendResponse(cur[t], 413)
  \/ ec[t] = "failed" /\ Delete(cur[t])

\* HttpService::on_request_line_received: not GET, not HTTP/1.1, or go on.
OnRequestLineReceived(t) ==
  LET s == cur[t] IN
  /\ ServiceType = "HttpService"
  /\ Handles(t, "read")
  /\ \/ ReadFailed(t)
     \/ /\ ec[t] = "ok"
        /\ \/ \E code \in {501, 505} : SendResponse(s, code)
           \/ /\ Initiate(s, "headers")
              /\ UNCHANGED <<heap, m_response_status_code, server>>

\* HttpService::process_request finds the resource, misses it, cannot open it, or
\* throws: fs::exists does for a path that it cannot look up, and new char[] for
\* the size of what is no regular file, or too large.
ProcessRequest(s) ==
  \/ Throws
  \/ \E code \in {200, 404, 500} : SendResponse(s, code)

\* HttpService::on_headers_received
OnHeadersReceived(t) ==
  /\ ServiceType = "HttpService"
  /\ Handles(t, "headers")
  /\ \/ ReadFailed(t)
     \/ ec[t] = "ok" /\ ProcessRequest(cur[t])

\* Mutant: the connection is kept for another request.
OnResponseSentKeepsAlive(t) ==
  /\ ServiceType = "HttpService"
  /\ Handles(t, "write")
  /\ Initiate(cur[t], "read")
  /\ UNCHANGED <<heap, m_response_status_code, server>>

\* HttpService::on_response_sent: sent or not, shutdown and delete.
OnResponseSent(t) ==
  /\ ServiceType = "HttpService"
  /\ Handles(t, "write")
  /\ Throws \/ Delete(cur[t])

-----------------------------------------------------------------------------
(* The owner.                                                              *)

\* Start: the acceptor listens, its first accept is in flight, the threads run.
Start ==
  /\ server = "new"
  /\ server' = "started"
  /\ acceptor_' = "listening"
  /\ accept' = "pending"
  /\ pc' = [t \in Threads |-> "run"]
  /\ UNCHANGED <<stopFlag_, stopped, serviceVars, cur, ec>>

\* Stop, first statement; acceptor_ is null in a server that was not started.
StopAcceptor ==
  \/ /\ server = "new"
     /\ server' = "terminated"
     /\ UNCHANGED <<stopFlag_, stopped, acceptVars, serviceVars, threadVars>>
  \/ /\ server = "started"
     /\ server' = "stopping"
     /\ stopFlag_' = TRUE
     /\ UNCHANGED <<stopped, acceptVars, serviceVars, threadVars>>

\* Mutant: Stop joins without stopping the io_context.
StopContextNot ==
  /\ server = "stopping"
  /\ UNCHANGED vars

\* Stop: ioc_.stop()
StopContext ==
  /\ server = "stopping"
  /\ stopped' = TRUE
  /\ UNCHANGED <<server, stopFlag_, acceptVars, serviceVars, threadVars>>

\* Mutant: Stop does not wait for the threads.
JoinedEarly ==
  /\ server = "stopping"
  /\ stopped
  /\ server' = "stopped"
  /\ UNCHANGED <<stopFlag_, stopped, acceptVars, serviceVars, threadVars>>

\* Stop, the last join returns.
Joined ==
  /\ server = "stopping"
  /\ stopped
  /\ \A t \in Threads : pc[t] = "exited"
  /\ server' = "stopped"
  /\ UNCHANGED <<stopFlag_, stopped, acceptVars, serviceVars, threadVars>>

\* The destructor, whose Stop finds nothing left to do.  The io_context takes
\* the queued handlers with it, but not the services they point to.
Destroy ==
  /\ server = "stopped"
  /\ server' = "destroyed"
  /\ acceptor_' = "none"
  /\ accept' = "none"
  /\ io' = [s \in Services |-> "none"]
  /\ UNCHANGED <<stopFlag_, stopped, heap, operation, m_response_status_code,
                 threadVars>>

-----------------------------------------------------------------------------
Ended == server \in {"destroyed", "terminated"}

ThreadStep(t) ==
  /\ ~Ended
  /\ \/ ThreadExits(t)
     \/ TakeAccept(t)
     \/ Create(t)
     \/ Rearm(t)
     \/ \E s \in Services : Take(t, s)
     \/ RecieveRequest(t)
     \/ SendAnswer(t)
     \/ OnRequestLineReceived(t)
     \/ OnHeadersReceived(t)
     \/ OnResponseSent(t)

IoStep(s) == ~Ended /\ CompleteIo(s)

\* Stop, once it is under way.
StopStep == ~Ended /\ (StopContext \/ Joined)

Next ==
  \/ \E t \in Threads : ThreadStep(t)
  \/ \E s \in Services : IoStep(s)
  \/ ~Ended /\ (CompleteAccept \/ Start \/ StopAcceptor \/ Destroy)
  \/ StopStep
  \/ Ended /\ UNCHANGED vars

Spec == Init /\ [][Next]_vars

(***************************************************************************)
(* Every thread that can run does.  The io_context queues its handlers in  *)
(* order: one that may be taken again and again is taken, even if accepts  *)
(* fail all the time.  The peer or the operating system ends every         *)
(* operation of a service sooner or later, and a Stop that was begun goes  *)
(* on.  Clients need not come, the owner need not call anything.           *)
(***************************************************************************)
Fairness ==
  /\ \A t \in Threads : WF_vars(ThreadStep(t))
  /\ \A s \in Services : SF_vars(~Ended /\ \E t \in Threads : Take(t, s))
  /\ SF_vars(~Ended /\ \E t \in Threads : TakeAccept(t))
  /\ \A s \in Services : WF_vars(IoStep(s))
  /\ WF_vars(StopStep)

FairSpec == Spec /\ Fairness

-----------------------------------------------------------------------------
(* Properties.                                                             *)

\* Types.  That the status code is listed keeps http_status_table.at in
\* send_response from throwing.
TypeOK ==
  /\ server \in {"new", "started", "stopping", "stopped", "destroyed", "terminated"}
  /\ stopFlag_ \in BOOLEAN
  /\ stopped \in BOOLEAN
  /\ acceptor_ \in {"none", "listening", "closed"}
  /\ accept \in {"none", "pending", "failed"} \cup Services
  /\ heap \in [Services -> {"none", "live", "deleted"}]
  /\ operation \in [Services -> {"none", "read", "headers", "write"}]
  /\ io \in [Services -> Results \cup {"none", "pending"}]
  /\ m_response_status_code \in [Services -> StatusCodes]
  /\ pc \in [Threads -> {"run", "create", "rearm", "handle", "exited"}]
  /\ cur \in [Threads -> Services \cup {None}]
  /\ ec \in [Threads -> Results]

\* The raw pointer in a handler is good: a service with an operation in
\* flight, a handler queued or one running was made and not deleted yet.
NoUseAfterDelete ==
  \A s \in Services :
    (io[s] # "none" \/ \E t \in Threads : pc[t] = "handle" /\ cur[t] = s)
      => heap[s] = "live"

\* No service is forgotten as long as the server exists: there is a handler
\* to come that deletes it.  (Those whose handlers the io_context takes with
\* it are never deleted.)
NoForgottenService ==
  \A s \in Services :
    heap[s] = "live" =>
      \/ io[s] # "none"
      \/ \E t \in Threads : pc[t] = "handle" /\ cur[t] = s
      \/ server \in {"destroyed", "terminated"}

\* Until it is stopped, a started server has one accept in flight or one
\* thread about to start the next, never none, whatever an accept ended with.
OneAccept ==
  LET Accepting == {t \in Threads : pc[t] \in {"create", "rearm"}} IN
  /\ \A t, u \in Accepting : t = u
  /\ Accepting # {} => accept = "none"
  /\ server = "started" => Accepting # {} \/ accept # "none"

\* A service that started to answer starts nothing else on its socket.
AnswersOnce ==
  [][\A s \in Services : operation[s] = "write" =>
       operation'[s] = "write" /\ (io'[s] = "pending" => io[s] = "pending")]_vars

\* Once Stop has returned, no handler runs: no service is made, answers or is
\* deleted any more.
SilentAfterStop ==
  [][server = "stopped" => UNCHANGED <<heap, operation, m_response_status_code>>]_vars

\* A connection that was accepted gets a service that comes to its end, unless
\* the server stops before.
AcceptedIsServed ==
  \A s \in Services : accept = s ~> (heap[s] = "deleted" \/ stopped \/ Ended)

\* Stop returns, requests in progress or not.
StopReturns == server = "stopping" ~> (server = "stopped" \/ Ended)
=============================================================================
