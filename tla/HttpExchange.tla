---------------------------- MODULE HttpExchange ----------------------------
(***************************************************************************)
(* HTTPClient of asiolib/http-client-async.hpp and AsyncServer<HttpService> *)
(* of asiolib/http-service-async.hpp talking to each other.                *)
(*                                                                         *)
(* Both components take their steps as their own modules say; what those   *)
(* leave open is decided here: how an operation on a socket ends follows   *)
(* from what the other side did.  A connection carries one request, and an *)
(* answer in three parts: the status line, the headers with the blank line *)
(* after them, the body.  An answer other than 200 has no header, so that  *)
(* its blank line comes at once and the client, having taken the status    *)
(* line out of its buffer, finds no "\r\n\r\n" until the stream ends.      *)
(***************************************************************************)
EXTENDS Naturals

CONSTANTS
  Requests,        \* the requests, each with a connection and a service of its name
  Callers,         \* application threads of the client
  ThreadPoolSize,  \* of the server
  Kinds,           \* what may be asked for, named after what comes of it
  None

ASSUME KindsAssumption   == Kinds \subseteq {"found", "missing", "unreadable", "large", "fatal"}
ASSUME NamesAssumption   == \A r \in Requests : r \notin {None, "none", "pending", "failed"}
ASSUME PoolAssumption    == ThreadPoolSize \in Nat /\ ThreadPoolSize <= 65535

VARIABLES
  (* the client; see HttpClientAsync *)
  m_was_cancelled, m_response, started, clientIo, clientEc, calls,
  startedAtCancel, finishing, exited, call, arg, m_work, clientStopped, closed, life,
  (* the server; see TcpServerAsync *)
  server, stopFlag_, serverStopped, acceptor_, accept, heap, operation, serverIo,
  m_response_status_code, pc, cur, serverEc,
  (* between them *)
  request,     \* of each request: one of Kinds
  connection,  \* "none", "backlog" (not accepted yet), "accepted"
  answer,      \* how many parts of its answer were sent
  fault        \* did the network fail it?

clientVars == <<m_was_cancelled, m_response, started, clientIo, clientEc, calls,
                startedAtCancel, finishing, exited, call, arg, m_work,
                clientStopped, closed, life>>
serverVars == <<server, stopFlag_, serverStopped, acceptor_, accept, heap, operation,
                serverIo, m_response_status_code, pc, cur, serverEc>>
netVars == <<request, connection, answer, fault>>
vars == <<clientVars, serverVars, netVars>>

Client == INSTANCE HttpClientAsync WITH
  stopped <- clientStopped, io <- clientIo, ec <- clientEc

Server == INSTANCE TcpServerAsync WITH
  ServiceType <- "HttpService", Services <- Requests,
  stopped <- serverStopped, io <- serverIo, ec <- serverEc

Init ==
  /\ Client!Init
  /\ Server!Init
  /\ request \in [Requests -> Kinds]
  /\ connection = [r \in Requests |-> "none"]
  /\ answer = [r \in Requests |-> 0]
  /\ fault = [r \in Requests |-> FALSE]

-----------------------------------------------------------------------------
(* What the two sides see of each other.                                   *)

Ended == server \in {"destroyed", "terminated"}

\* The parts of the answer.
Parts(r) == IF m_response_status_code[r] = 200 THEN 3 ELSE 2

\* The server's end of the connection is closed.
Fin(r) == heap[r] = "deleted" \/ Ended

\* The client reads the end of the stream: the connection was not lost before.
Eof(r) == Fin(r) /\ ~fault[r]

\* It was closed before everything that had come was read, or never accepted.
Reset(r) ==
  \/ fault[r]
  \/ Fin(r) /\ (request[r] = "large" \/ heap[r] # "deleted")

\* The client's end is closed, or lost.
ClientGone(r) == fault[r] \/ life # "alive"

\* How the client's operation in flight may end.
ClientSees(r, result) ==
  CASE started[r] = Client!Resolve -> result = "ok" \/ (fault[r] /\ result = "failed")
    [] started[r] = Client!Connect ->
         \/ result = "ok" /\ acceptor_ = "listening" /\ ~Ended
         \/ result = "failed" /\ (fault[r] \/ acceptor_ # "listening" \/ Ended)
    [] started[r] = Client!Write -> result = "ok" \/ (Reset(r) /\ result = "failed")
    [] started[r] = Client!ReadStatus ->
         \/ result = "ok" /\ answer[r] >= 1
         \/ result = "eof" /\ answer[r] = 0 /\ Eof(r)
         \/ result = "failed" /\ Reset(r)
    [] started[r] = Client!ReadHeaders ->
         \/ result = "ok" /\ answer[r] >= 2 /\ m_response_status_code[r] = 200
         \/ result = "eof" /\ (answer[r] < 2 \/ m_response_status_code[r] # 200) /\ Eof(r)
         \/ result = "failed" /\ Reset(r)
    [] OTHER ->
         \/ result = "eof" /\ Eof(r)
         \/ result = "failed" /\ Reset(r)

\* How the service's operation in flight may end.  The request can be read once
\* the client sends it; from a client that is gone the stream just ends.
ServiceSees(r, result) ==
  LET Read == CASE request[r] # "large" -> {"ok"}
                [] operation[r] = "read" -> {"ok", "full"}
                [] OTHER -> {"full"}
  IN  \/ result = "failed" /\ ClientGone(r)
      \/ operation[r] # "write" /\ started[r] >= Client!Write /\ result \in Read
      \/ operation[r] = "write" /\ result = "ok" /\ answer[r] = Parts(r)

\* What a service may answer: the client always says GET and HTTP/1.1.  For a
\* fatal request there is no answer, process_request throws.
Codes(kind) ==
  CASE kind = "found" -> {200} [] kind = "missing" -> {404}
    [] kind = "unreadable" -> {500} [] kind = "large" -> {413} [] OTHER -> {}

\* The service of r is to be asked for a resource on which process_request throws.
Fatal(r) == request[r] = "fatal" /\ operation[r] = "headers"

-----------------------------------------------------------------------------
\* The client's operations end; a connection that is made waits in the backlog.
CompleteAtClient(r) ==
  /\ Client!CompleteStep(r)
  /\ ClientSees(r, clientIo'[r])
  /\ connection' = [connection EXCEPT
       ![r] = IF started[r] = Client!Connect /\ clientIo'[r] = "ok" THEN "backlog" ELSE @]
  /\ UNCHANGED <<serverVars, request, answer, fault>>

CompleteAtServer(r) ==
  /\ Server!IoStep(r)
  /\ ServiceSees(r, serverIo'[r])
  /\ UNCHANGED <<clientVars, netVars>>

\* An accept takes a connection from the backlog, or fails.
CompleteAccept ==
  /\ ~Ended
  /\ Server!CompleteAccept
  /\ accept' # "failed" => connection[accept'] = "backlog"
  /\ connection' = [r \in Requests |-> IF r = accept' THEN "accepted" ELSE connection[r]]
  /\ UNCHANGED <<clientVars, request, answer, fault>>

AcceptClient == CompleteAccept /\ accept' # "failed"

\* async_write hands a part of the answer to the network.
SendPart(r) ==
  /\ ~Ended
  /\ operation[r] = "write"
  /\ serverIo[r] = "pending"
  /\ answer[r] < Parts(r)
  /\ answer' = [answer EXCEPT ![r] = @ + 1]
  /\ UNCHANGED <<clientVars, serverVars, request, connection, fault>>

\* The network fails a request.
Fault(r) ==
  /\ ~fault[r]
  /\ fault' = [fault EXCEPT ![r] = TRUE]
  /\ UNCHANGED <<clientVars, serverVars, request, connection, answer>>

-----------------------------------------------------------------------------
(* The steps of the components.                                            *)

\* The client: a status line that came is valid, and shutdown throws only on a
\* connection that was reset.
ClientThread ==
  /\ Client!ThreadStep
  /\ \A r \in Requests : clientIo[r] = "ok" => clientEc'[r] # "failed"
  /\ life' = "terminated" => \E r \in Requests : started[r] = Client!Write /\ Reset(r)
  /\ UNCHANGED <<serverVars, netVars>>

\* The server: it answers what is asked.  It ends by an exception of shutdown, on a
\* connection whose client is gone, or of process_request, whoever is connected.
ServerThread(t) ==
  /\ Server!ThreadStep(t)
  /\ \A r \in Requests : m_response_status_code'[r] \in
                            {m_response_status_code[r]} \cup Codes(request[r])
  /\ \A r \in Requests : serverIo'[r] = "pending" /\ operation'[r] = "write"
                            => m_response_status_code'[r] \in Codes(request[r])
  /\ server' = "terminated" => ClientGone(cur[t]) \/ Fatal(cur[t])
  /\ UNCHANGED <<clientVars, netVars>>

\* A handler of service r is taken from the queue.
ServerTakes(r) ==
  /\ ~Ended
  /\ \E t \in Server!Threads : Server!Take(t, r)
  /\ UNCHANGED <<clientVars, netVars>>

ClientCall ==
  /\ life = "alive"
  /\ \/ \E c \in Callers : \/ Client!Close(c)
                           \/ \E r \in Requests : Client!Execute(c, r) \/ Client!Cancel(c, r)
     \/ Client!Destroy
  /\ UNCHANGED <<serverVars, netVars>>

ClientCallGoesOn(c) == Client!CallStep(c) /\ UNCHANGED <<serverVars, netVars>>

ServerCall ==
  /\ ~Ended
  /\ Server!Start \/ Server!StopAcceptor \/ Server!StopStep \/ Server!Destroy
  /\ UNCHANGED <<clientVars, netVars>>

Next ==
  \/ ClientThread
  \/ ClientCall
  \/ ServerCall
  \/ CompleteAccept
  \/ \E c \in Callers : ClientCallGoesOn(c)
  \/ \E t \in Server!Threads : ServerThread(t)
  \/ \E r \in Requests :
       CompleteAtClient(r) \/ CompleteAtServer(r) \/ SendPart(r) \/ Fault(r)
  \/ life # "alive" /\ Ended /\ UNCHANGED vars

Spec == Init /\ [][Next]_vars

\* Threads run, queued handlers get their turn and data moves, however often an
\* accept fails meanwhile; it does not fail for ever while a client waits.
\* Nothing else has to end: what no data comes for stays pending.
FairSpec ==
  /\ Spec
  /\ WF_vars(ClientThread)
  /\ \A t \in Server!Threads : WF_vars(ServerThread(t))
  /\ SF_vars(AcceptClient)
  /\ \A c \in Callers : WF_vars(ClientCallGoesOn(c))
  /\ \A r \in Requests : /\ WF_vars(CompleteAtClient(r))
                         /\ WF_vars(CompleteAtServer(r))
                         /\ SF_vars(ServerTakes(r))
                         /\ WF_vars(SendPart(r))

-----------------------------------------------------------------------------
(* Properties.                                                             *)

\* The handler of q's service may be the one whose exception ended the server.
EndedServer(q) == heap[q] = "live" /\ (fault[q] \/ Fatal(q))

\* Why a request that deserves an answer may fail: the network, a Stop, nobody to
\* connect to, or another request that was being served and ended the whole server,
\* because its connection was lost or for what it asked.
Excused(r) ==
  \/ fault[r]
  \/ server = "terminated" /\ \E q \in Requests : EndedServer(q)
  \/ stopFlag_
  \/ connection[r] = "none"

\* What the client reports is what the server did.  Success: the resource was
\* found and all of it has come, or else the server was stopped and destroyed
\* while it answered, as content-length is not compared.  An error without a
\* cancellation or an excuse: there was nothing to be found; every status but
\* 200 comes out as an error.
OutcomeFitsAnswer ==
  \A r \in Requests : calls[r] > 0 =>
    /\ clientEc[r] = "ok" => /\ m_response_status_code[r] = 200
                             /\ answer[r] >= 2
                             /\ answer[r] = Parts(r) \/ Ended
    /\ clientEc[r] = "failed" => Excused(r) \/ request[r] # "found"

\* A request that was executed is reported although nothing has a timeout: the
\* server answers whatever it reads and then closes the connection.  Only a
\* server that is being stopped keeps its clients waiting.
ExchangeEnds ==
  \A r \in Requests :
    (clientIo[r] = "pending" /\ ~clientStopped)
      ~> (calls[r] > 0 \/ life # "alive" \/ stopFlag_)
=============================================================================
