------------------------- MODULE HttpExchangeProofs -------------------------
(***************************************************************************)
(* What the HTTP client reports is what the server did, for any number of  *)
(* requests, callers and threads.                                          *)
(*                                                                         *)
(* The exchange is a behaviour of each of its components, so that what is  *)
(* proved of them holds here, too; the rest is an invariant of what is     *)
(* between them.                                                           *)
(***************************************************************************)
EXTENDS HttpExchange, TLAPS

\* The components with their theorems, and the variables they have here.
ClientProofs == INSTANCE HttpClientAsyncProofs WITH
  stopped <- clientStopped, io <- clientIo, ec <- clientEc

ServerProofs == INSTANCE TcpServerAsyncProofs WITH
  ServiceType <- "HttpService", Services <- Requests,
  stopped <- serverStopped, io <- serverIo, ec <- serverEc

-----------------------------------------------------------------------------
(* The invariant.                                                          *)

Types ==
  /\ request \in [Requests -> Kinds]
  /\ connection \in [Requests -> {"none", "backlog", "accepted"}]
  /\ answer \in [Requests -> 0..3]
  /\ fault \in [Requests -> BOOLEAN]

\* The parts of an answer are sent in the service's write, in order.
Answers ==
  \A r \in Requests :
    /\ answer[r] > 0 => operation[r] = "write"
    /\ operation[r] = "write" =>
         /\ m_response_status_code[r] \in Codes(request[r])
         /\ answer[r] <= Parts(r)
         /\ serverIo[r] # "pending" => answer[r] = Parts(r) \/ ClientGone(r) \/ Ended

\* A service gives up because its client is gone; it ends the server for that
\* reason or for what it was asked.
Failures ==
  /\ \A r \in Requests :
       /\ serverIo[r] = "failed" => ClientGone(r)
       /\ heap[r] = "deleted" => operation[r] = "write" \/ ClientGone(r)
  /\ \A t \in Server!Threads :
       pc[t] = "handle" /\ serverEc[t] = "failed" => ClientGone(cur[t])
  /\ server = "new" => acceptor_ = "none" /\ \A r \in Requests : connection[r] = "none"
  /\ server \in {"stopping", "stopped", "destroyed"} => stopFlag_
  /\ server = "terminated" =>
       \/ life # "alive"
       \/ \E r \in Requests : EndedServer(r)
       \/ \A r \in Requests : connection[r] = "none"

\* The connection is made by the client's second operation.
Connections ==
  \A r \in Requests : connection[r] # "none" =>
    /\ started[r] >= Client!Connect
    /\ started[r] = Client!Connect => clientIo[r] # "pending"

\* Status line and headers of a good answer were sent.
Good(r) ==
  /\ operation[r] = "write"
  /\ m_response_status_code[r] = 200
  /\ answer[r] >= 2

Whole(r) == answer[r] = Parts(r) \/ Ended

Explained(r) == Excused(r) \/ request[r] # "found"

\* What the client has read, and what it makes of it.
Reads ==
  \A r \in Requests :
    /\ clientIo[r] = "ok" /\ started[r] = Client!ReadHeaders => Good(r)
    /\ m_response[r] = "headers" => Good(r)
    /\ clientIo[r] = "eof" /\ started[r] = Client!ReadBody => Whole(r)
    /\ clientIo[r] = "eof" /\ started[r] # Client!ReadBody => Explained(r)
    /\ clientIo[r] = "failed" => Explained(r)
    /\ clientEc[r] = "ok" => Good(r) /\ Whole(r)
    /\ clientEc[r] = "failed" => Explained(r)

IInv ==
  /\ ClientProofs!IInv
  /\ ServerProofs!IInv
  /\ Types
  /\ Answers
  /\ Failures
  /\ Connections
  /\ Reads

-----------------------------------------------------------------------------
(* The components take their own steps.  The two instances of a module have *)
(* the same formulas behind different names.                               *)

\* The two instances of HttpClientAsync.
LEMMA SameClient ==
  /\ Client!Init => ClientProofs!Init
  /\ [Client!Next]_(Client!vars) => [ClientProofs!Next]_(ClientProofs!vars)
  BY Zenon DEF
     Client!requestVars, ClientProofs!requestVars, Client!threadVars,
     ClientProofs!threadVars, Client!callerVars, ClientProofs!callerVars,
     Client!contextVars, ClientProofs!contextVars, Client!vars,
     ClientProofs!vars, Client!Resolve, ClientProofs!Resolve,
     Client!Connect, ClientProofs!Connect, Client!Write, ClientProofs!Write,
     Client!ReadStatus, ClientProofs!ReadStatus, Client!ReadHeaders,
     ClientProofs!ReadHeaders, Client!ReadBody, ClientProofs!ReadBody,
     Client!Results, ClientProofs!Results, Client!Init, ClientProofs!Init,
     Client!StopIfIdle, ClientProofs!StopIfIdle, Client!ResultsOf,
     ClientProofs!ResultsOf, Client!Complete, ClientProofs!Complete,
     Client!ThreadExits, ClientProofs!ThreadExits, Client!Handles,
     ClientProofs!Handles, Client!FinishWith, ClientProofs!FinishWith,
     Client!FinishFailed, ClientProofs!FinishFailed, Client!StartNext,
     ClientProofs!StartNext, Client!GoOn, ClientProofs!GoOn,
     Client!HandlerFrame, ClientProofs!HandlerFrame,
     Client!OnResolvedOrConnected, ClientProofs!OnResolvedOrConnected,
     Client!OnRequestSent, ClientProofs!OnRequestSent,
     Client!OnStatusLineReceived, ClientProofs!OnStatusLineReceived,
     Client!OnHeadersReceived, ClientProofs!OnHeadersReceived,
     Client!OnResponseBodyReceived, ClientProofs!OnResponseBodyReceived,
     Client!OnFinish, ClientProofs!OnFinish, Client!Execute,
     ClientProofs!Execute, Client!FinishInCaller,
     ClientProofs!FinishInCaller, Client!AfterCancel,
     ClientProofs!AfterCancel, Client!Cancel, ClientProofs!Cancel,
     Client!Close, ClientProofs!Close, Client!Joined, ClientProofs!Joined,
     Client!Destroy, ClientProofs!Destroy, Client!ThreadStep,
     ClientProofs!ThreadStep, Client!CallStep, ClientProofs!CallStep,
     Client!CompleteStep, ClientProofs!CompleteStep, Client!Next,
     ClientProofs!Next

\* The two instances of TcpServerAsync.
LEMMA SameServer ==
  /\ Server!Init => ServerProofs!Init
  /\ [Server!Next]_(Server!vars) => [ServerProofs!Next]_(ServerProofs!vars)
  BY Zenon DEF
     Server!Threads, ServerProofs!Threads, Server!serviceVars,
     ServerProofs!serviceVars, Server!serverVars, ServerProofs!serverVars,
     Server!acceptVars, ServerProofs!acceptVars, Server!threadVars,
     ServerProofs!threadVars, Server!vars, ServerProofs!vars,
     Server!Results, ServerProofs!Results, Server!StatusCodes,
     ServerProofs!StatusCodes, Server!Init, ServerProofs!Init,
     Server!CompleteAccept, ServerProofs!CompleteAccept, Server!ResultsOf,
     ServerProofs!ResultsOf, Server!CompleteIo, ServerProofs!CompleteIo,
     Server!ThreadExits, ServerProofs!ThreadExits, Server!TakeAccept,
     ServerProofs!TakeAccept, Server!Initiate, ServerProofs!Initiate,
     Server!Create, ServerProofs!Create, Server!Rearm, ServerProofs!Rearm,
     Server!Take, ServerProofs!Take, Server!Handles, ServerProofs!Handles,
     Server!Delete, ServerProofs!Delete, Server!RecieveRequest,
     ServerProofs!RecieveRequest, Server!SendAnswer,
     ServerProofs!SendAnswer, Server!Throws,
     ServerProofs!Throws, Server!ProcessRequest, ServerProofs!ProcessRequest,
     Server!SendResponse,
     ServerProofs!SendResponse, Server!ReadFailed, ServerProofs!ReadFailed,
     Server!OnRequestLineReceived, ServerProofs!OnRequestLineReceived,
     Server!OnHeadersReceived, ServerProofs!OnHeadersReceived,
     Server!OnResponseSent, ServerProofs!OnResponseSent, Server!Start,
     ServerProofs!Start, Server!StopAcceptor, ServerProofs!StopAcceptor,
     Server!StopContext, ServerProofs!StopContext, Server!Joined,
     ServerProofs!Joined, Server!Destroy, ServerProofs!Destroy,
     Server!Ended, ServerProofs!Ended, Server!ThreadStep,
     ServerProofs!ThreadStep, Server!IoStep, ServerProofs!IoStep,
     Server!StopStep, ServerProofs!StopStep, Server!Next, ServerProofs!Next

\* Every step of the exchange is a step of the client or leaves it alone.
LEMMA StepOfClient == [Next]_vars => [Client!Next]_(Client!vars)
<1> SUFFICES ASSUME [Next]_vars PROVE [Client!Next]_(Client!vars)
  OBVIOUS
<1>1. CASE UNCHANGED clientVars
  BY <1>1 DEF clientVars, Client!vars, Client!requestVars, Client!threadVars,
     Client!callerVars, Client!contextVars
<1>2. CASE ClientThread \/ ClientCall
  BY <1>2 DEF ClientThread, ClientCall, Client!Next
<1>3. ASSUME NEW c \in Callers, ClientCallGoesOn(c) PROVE Client!Next
  BY <1>3 DEF ClientCallGoesOn, Client!Next
<1>4. ASSUME NEW r \in Requests, CompleteAtClient(r) PROVE Client!Next
  BY <1>4 DEF CompleteAtClient, Client!Next
<1>5. CASE ServerCall \/ CompleteAccept
  BY <1>1, <1>5 DEF ServerCall, CompleteAccept
<1>6. ASSUME NEW t \in Server!Threads, ServerThread(t) PROVE UNCHANGED clientVars
  BY <1>6 DEF ServerThread
<1>7. ASSUME NEW r \in Requests, CompleteAtServer(r) \/ SendPart(r) \/ Fault(r)
      PROVE  UNCHANGED clientVars
  BY <1>7 DEF CompleteAtServer, SendPart, Fault
<1> QED
  BY <1>1, <1>2, <1>3, <1>4, <1>5, <1>6, <1>7 DEF Next, vars

\* Every step of the exchange is a step of the server or leaves it alone.
LEMMA StepOfServer == [Next]_vars => [Server!Next]_(Server!vars)
<1> SUFFICES ASSUME [Next]_vars PROVE [Server!Next]_(Server!vars)
  OBVIOUS
<1>1. CASE UNCHANGED serverVars
  BY <1>1 DEF serverVars, Server!vars, Server!serviceVars, Server!serverVars,
     Server!acceptVars, Server!threadVars
<1>2. CASE ServerCall \/ CompleteAccept
  BY <1>2 DEF ServerCall, CompleteAccept, Ended, Server!Ended, Server!Next
<1>3. ASSUME NEW t \in Server!Threads, ServerThread(t) PROVE Server!Next
  BY <1>3 DEF ServerThread, Server!Next
<1>4. ASSUME NEW r \in Requests, CompleteAtServer(r) PROVE Server!Next
  BY <1>4 DEF CompleteAtServer, Server!Next
<1>5. CASE ClientThread \/ ClientCall
  BY <1>1, <1>5 DEF ClientThread, ClientCall
<1>6. ASSUME NEW c \in Callers, ClientCallGoesOn(c) PROVE UNCHANGED serverVars
  BY <1>6 DEF ClientCallGoesOn
<1>7. ASSUME NEW r \in Requests, CompleteAtClient(r) \/ SendPart(r) \/ Fault(r)
      PROVE  UNCHANGED serverVars
  BY <1>7 DEF CompleteAtClient, SendPart, Fault
<1> QED
  BY <1>1, <1>2, <1>3, <1>4, <1>5, <1>6, <1>7 DEF Next, vars

\* The exchange adds nothing to what its client may do.
THEOREM ClientRefined == Spec => Client!Spec
<1>1. Init => Client!Init
  BY DEF Init
<1> QED  BY <1>1, StepOfClient, PTL DEF Spec, Client!Spec

\* Nor to what its server may do.
THEOREM ServerRefined == Spec => Server!Spec
<1>1. Init => Server!Init
  BY DEF Init
<1> QED  BY <1>1, StepOfServer, PTL DEF Spec, Server!Spec

\* Their invariants hold at first.
LEMMA ComponentsStart ==
  ASSUME Client!Init, Server!Init
  PROVE  ClientProofs!IInv /\ ServerProofs!IInv
<1>1. /\ None \notin Requests
      /\ \A r \in Requests : r \notin {"none", "pending", "failed"}
  BY NamesAssumption
<1>2. ClientProofs!Init /\ ServerProofs!Init
  BY SameClient, SameServer
<1>3. ClientProofs!IInv
  BY <1>1, <1>2, ClientProofs!Initially
<1>4. ServerProofs!IInv
  BY <1>1, <1>2, PoolAssumption, ServerProofs!Initially
<1> QED  BY <1>3, <1>4

\* And they are kept.
LEMMA ComponentsKeep ==
  ASSUME ClientProofs!IInv, ServerProofs!IInv, [Next]_vars
  PROVE  ClientProofs!IInv' /\ ServerProofs!IInv'
<1>1. /\ None \notin Requests
      /\ \A r \in Requests : r \notin {"none", "pending", "failed"}
  BY NamesAssumption
<1>2. ClientProofs!IInv'
  BY <1>1, StepOfClient, SameClient, ClientProofs!Inductive
<1>3. ServerProofs!IInv'
  BY <1>1, PoolAssumption, StepOfServer, SameServer, ServerProofs!Inductive
<1> QED  BY <1>2, <1>3

-----------------------------------------------------------------------------
(* What the steps of the components do to what they share.                 *)

\* A step of the client's thread or callers, for request r.
ClientMoves(r) ==
  /\ clientIo'[r] \in {clientIo[r], "none", "pending", "aborted"}
  /\ \/ started'[r] = started[r] /\ (clientIo'[r] = "pending" => clientIo[r] = "pending")
     \/ started'[r] = started[r] + 1 /\ clientIo'[r] = "pending"
  /\ \/ clientEc'[r] \in {clientEc[r], "aborted"}
     \/ clientEc'[r] = "ok" /\ clientIo[r] = "eof" /\ started[r] = Client!ReadBody
     \/ /\ clientEc'[r] = "failed"
        /\ \/ clientIo[r] = "failed"
           \/ clientIo[r] = "eof" /\ started[r] # Client!ReadBody
  /\ m_response'[r] = "headers" =>
       \/ m_response[r] = "headers"
       \/ clientIo[r] = "ok" /\ started[r] = Client!ReadHeaders

USE DEF Client!Resolve, Client!Connect, Client!Write, Client!ReadStatus,
        Client!ReadHeaders, Client!ReadBody, ClientProofs!Resolve, ClientProofs!Connect,
        ClientProofs!Write, ClientProofs!ReadStatus, ClientProofs!ReadHeaders,
        ClientProofs!ReadBody

\* What a handler of the client makes of its operation.
LEMMA HandlerMoves ==
  ASSUME ClientProofs!IInv, NEW r \in Requests, NEW q \in Requests,
         clientIo[q] = "ok" => clientEc'[q] # "failed",
         \/ \E op \in {Client!Resolve, Client!Connect} : Client!OnResolvedOrConnected(q, op)
         \/ Client!OnRequestSent(q)
         \/ Client!OnStatusLineReceived(q)
         \/ Client!OnHeadersReceived(q)
         \/ Client!OnResponseBodyReceived(q)
  PROVE  ClientMoves(r)
<1> USE DEF ClientProofs!IInv, ClientProofs!TypeOK, ClientProofs!Results, Client!Results,
        ClientMoves, Client!Handles, Client!FinishFailed, Client!FinishWith, Client!GoOn,
        Client!StartNext
<1>1. ASSUME NEW op \in {Client!Resolve, Client!Connect},
             Client!OnResolvedOrConnected(q, op)
      PROVE  ClientMoves(r)
  BY <1>1 DEF Client!OnResolvedOrConnected
<1>2. CASE Client!OnRequestSent(q)
  BY <1>2 DEF Client!OnRequestSent
<1>3. CASE Client!OnStatusLineReceived(q)
  BY <1>3 DEF Client!OnStatusLineReceived
<1>4. CASE Client!OnHeadersReceived(q)
  BY <1>4 DEF Client!OnHeadersReceived
<1>5. CASE Client!OnResponseBodyReceived(q)
  BY <1>5 DEF Client!OnResponseBodyReceived
<1> QED  BY <1>1, <1>2, <1>3, <1>4, <1>5

\* Every step of the client, in its thread or in a caller's, is such a move.
LEMMA ClientSteps ==
  ASSUME ClientProofs!IInv, NEW r \in Requests,
         ClientThread \/ ClientCall \/ \E c \in Callers : ClientCallGoesOn(c)
  PROVE  ClientMoves(r)
<1> USE DEF ClientProofs!IInv, ClientProofs!TypeOK, ClientMoves, Client!requestVars
<1>1. CASE Client!OnFinish \/ Client!ThreadExits
  BY <1>1 DEF Client!OnFinish, Client!ThreadExits
<1>2. CASE ClientThread
  BY <1>1, <1>2, HandlerMoves DEF ClientThread, Client!ThreadStep
<1>3. ASSUME NEW c \in Callers, NEW q \in Requests, Client!Execute(c, q)
      PROVE  ClientMoves(r)
  BY <1>3 DEF Client!Execute, Client!StartNext
<1>4. ASSUME NEW c \in Callers, NEW q \in Requests, Client!Cancel(c, q)
      PROVE  ClientMoves(r)
  BY <1>4 DEF Client!Cancel, Client!AfterCancel
<1>5. ASSUME NEW c \in Callers,
             Client!Close(c) \/ Client!FinishInCaller(c) \/ Client!Joined(c)
      PROVE  ClientMoves(r)
  BY <1>5 DEF Client!Close, Client!FinishInCaller, Client!Joined
<1>6. CASE Client!Destroy
  BY <1>6 DEF Client!Destroy
<1> QED
  BY <1>2, <1>3, <1>4, <1>5, <1>6 DEF ClientCall, ClientCallGoesOn, Client!CallStep

\* A step of thread t of the server.
ServerMoves(t) ==
  /\ \A r \in Requests :
       /\ operation[r] = "write" =>
            /\ operation'[r] = "write"
            /\ m_response_status_code'[r] = m_response_status_code[r]
       /\ operation'[r] = "write" /\ serverIo'[r] # "pending" =>
            operation[r] = "write" /\ serverIo[r] # "pending"
       /\ serverIo'[r] \in {serverIo[r], "none", "pending"}
       /\ heap'[r] = "deleted" =>
            \/ heap[r] = "deleted"
            \/ operation[r] = "write"
            \/ pc[t] = "handle" /\ cur[t] = r /\ serverEc[t] = "failed"
  /\ \A u \in Server!Threads :
       pc'[u] = "handle" /\ serverEc'[u] = "failed" =>
         /\ cur'[u] \in Requests
         /\ \/ pc[u] = "handle" /\ serverEc[u] = "failed" /\ cur'[u] = cur[u]
            \/ serverIo[cur'[u]] = "failed"
  /\ stopFlag_' = stopFlag_
  /\ server' # server =>
       /\ server' = "terminated"
       /\ cur[t] \in Requests
       /\ heap[cur[t]] = "live"
       /\ UNCHANGED <<heap, operation>>
  /\ server # "new"

USE DEF Server!serviceVars, Server!serverVars, Server!acceptVars, Server!threadVars

\* Every step of a server's thread is one of these moves.
LEMMA ServerSteps ==
  ASSUME ServerProofs!IInv, NEW t \in Server!Threads, Server!ThreadStep(t)
  PROVE  ServerMoves(t)
<1> USE DEF ServerProofs!IInv, ServerProofs!TypeOK, ServerMoves
<1>0. Server!Threads = ServerProofs!Threads
  BY DEF Server!Threads, ServerProofs!Threads
<1> USE <1>0
<1>1. CASE Server!ThreadExits(t)
  BY <1>1 DEF Server!ThreadExits, ServerProofs!Lifetime, ServerProofs!ThreadTokens
<1>2. CASE Server!TakeAccept(t)
  BY <1>2 DEF Server!TakeAccept, ServerProofs!Lifetime, ServerProofs!ThreadTokens
<1>3. CASE Server!Create(t)
  BY <1>3 DEF Server!Create, Server!Initiate, ServerProofs!Lifetime,
     ServerProofs!ThreadTokens, ServerProofs!NewServices
<1>4. CASE Server!Rearm(t)
  BY <1>4 DEF Server!Rearm, ServerProofs!Lifetime, ServerProofs!ThreadTokens
<1>5. ASSUME NEW s \in Requests, Server!Take(t, s) PROVE ServerMoves(t)
  BY <1>5 DEF Server!Take, ServerProofs!Lifetime, ServerProofs!ThreadTokens,
     Server!Results, ServerProofs!Results
<1> DEFINE Handled ==
      \/ Server!OnRequestLineReceived(t)
      \/ Server!OnHeadersReceived(t)
      \/ Server!OnResponseSent(t)
<1>6. CASE Handled
  BY <1>6 DEF Server!OnRequestLineReceived, Server!OnHeadersReceived,
     Server!OnResponseSent, Server!Handles, Server!ReadFailed, Server!ProcessRequest,
     Server!SendResponse, ServerProofs!NoUseAfterDelete,
     Server!Throws, Server!Delete, Server!Initiate, ServerProofs!Lifetime,
     ServerProofs!ThreadTokens
<1>7. ~Server!RecieveRequest(t) /\ ~Server!SendAnswer(t)
  BY DEF Server!RecieveRequest, Server!SendAnswer
<1> QED  BY <1>1, <1>2, <1>3, <1>4, <1>5, <1>6, <1>7 DEF Server!ThreadStep

-----------------------------------------------------------------------------
(* The steps of the exchange, one lemma for each kind.                     *)

Between == Types /\ Answers /\ Failures /\ Connections /\ Reads

\* The client's thread and callers only look at what has come to them.
LEMMA ClientKeeps ==
  ASSUME IInv, ClientThread \/ ClientCall \/ \E c \in Callers : ClientCallGoesOn(c)
  PROVE  Between'
<1>1. \A r \in Requests : ClientMoves(r)
  BY ClientSteps DEF IInv
<1>2. UNCHANGED <<serverVars, netVars>> /\ life = "alive"
  BY DEF ClientThread, ClientCall, ClientCallGoesOn, Client!ThreadStep, Client!CallStep
<1> USE <1>1, <1>2 DEF IInv, serverVars, netVars, ClientGone, Ended, Parts, Server!Threads
<1>3. Types'
  BY DEF Types
<1>4. Answers'
  BY DEF Answers
<1>5. Failures'
  BY DEF Failures, EndedServer, Fatal
<1>6. Connections'
  BY DEF Connections, ClientMoves, ClientProofs!IInv, ClientProofs!TypeOK
<1>7. Reads'
  <2>1. \A r \in Requests : clientIo[r] = "eof" /\ started[r] = Client!ReadBody => Good(r)
    BY DEF Reads, ClientProofs!IInv, ClientProofs!Earned
  <2>2. \A r \in Requests : /\ Good(r)' = Good(r)
                            /\ Whole(r)' = Whole(r)
                            /\ Explained(r)' = Explained(r)
    BY DEF Good, Whole, Explained, Excused, EndedServer, Fatal
  <2> QED  BY <2>1, <2>2 DEF Reads, ClientMoves
<1> QED  BY <1>3, <1>4, <1>5, <1>6, <1>7 DEF Between

\* What ended the client's operation explains how it ended.
LEMMA CompleteAtClientKeeps ==
  ASSUME IInv, NEW q \in Requests, CompleteAtClient(q)
  PROVE  Between'
<1> USE DEF IInv, serverVars, Server!Threads
<1>1. /\ clientIo[q] = "pending"
      /\ clientIo'[q] \in {"ok", "eof", "failed"}
      /\ \A r \in Requests \ {q} : clientIo'[r] = clientIo[r]
      /\ UNCHANGED <<m_response, started, clientEc, life>>
      /\ life = "alive"
  BY DEF CompleteAtClient, Client!CompleteStep, Client!Complete, Client!ResultsOf,
     Client!contextVars, ClientProofs!IInv, ClientProofs!TypeOK
<1>2. /\ ClientSees(q, clientIo'[q])
      /\ \A r \in Requests : connection'[r] =
           IF r = q /\ started[q] = Client!Connect /\ clientIo'[q] = "ok"
           THEN "backlog" ELSE connection[r]
      /\ UNCHANGED <<serverVars, request, answer, fault>>
  BY DEF CompleteAtClient, Types
<1> USE <1>1, <1>2
<1>3. Types'
  BY DEF CompleteAtClient, Types
<1>4. Answers'
  BY DEF Answers, ClientGone, Ended, Parts
<1>5. Failures'
  BY DEF Failures, ClientGone, ClientSees, Ended, EndedServer, Fatal
<1>6. Connections'
  BY DEF Connections, ClientProofs!IInv, ClientProofs!TypeOK
<1>7. ~ClientGone(q) /\ Fin(q) => Ended \/ (operation[q] = "write" /\ answer[q] = Parts(q))
  BY DEF Failures, Answers, Fin, ClientGone, ServerProofs!IInv,
     ServerProofs!NoUseAfterDelete
<1>8. Ended => Excused(q)
  BY DEF Failures, Ended, Excused
<1>9. Reset(q) => Explained(q)
  BY <1>8 DEF Reset, Fin, Explained, Excused
<1>10. clientIo'[q] = "failed" => Explained(q)
  BY <1>9 DEF ClientSees, Explained, Excused, Connections
<1>11. clientIo'[q] = "eof" =>
         IF started[q] = Client!ReadBody THEN Whole(q) ELSE Explained(q)
  <2> SUFFICES ASSUME clientIo'[q] = "eof"
               PROVE  IF started[q] = Client!ReadBody THEN Whole(q) ELSE Explained(q)
    OBVIOUS
  <2>1. started[q] \in 1..6
    BY DEF ClientProofs!IInv, ClientProofs!TypeOK, ClientProofs!Tokens
  <2>2. Ended \/ (operation[q] = "write" /\ answer[q] = Parts(q))
    BY <1>7, <2>1 DEF ClientSees, Eof, ClientGone
  <2>3. CASE started[q] = Client!ReadStatus
    BY <1>8, <2>2, <2>3 DEF ClientSees, Parts, Explained
  <2>4. CASE started[q] = Client!ReadHeaders
    BY <1>8, <2>2, <2>4 DEF ClientSees, Parts, Explained, Answers, Codes
  <2>5. CASE started[q] = Client!ReadBody
    BY <2>2, <2>5 DEF Whole
  <2> QED  BY <2>1, <2>3, <2>4, <2>5 DEF ClientSees
<1>12. clientIo'[q] = "ok" /\ started[q] = Client!ReadHeaders => Good(q)
  BY DEF ClientSees, Good, Answers, Types
<1>13. Reads'
  <2>1. clientEc[q] = "none"
    BY DEF ClientProofs!IInv, ClientProofs!Tokens
  <2>2. \A r \in Requests : Good(r)' = Good(r) /\ Whole(r)' = Whole(r)
    BY DEF Good, Whole, Parts, Ended
  <2>3. \A r \in Requests : r # q \/ clientIo'[q] # "ok" => Explained(r)' = Explained(r)
    BY DEF Explained, Excused, EndedServer, Fatal
  <2> QED  BY <1>10, <1>11, <1>12, <2>1, <2>2, <2>3 DEF Reads
<1> QED  BY <1>3, <1>4, <1>5, <1>6, <1>13 DEF Between

\* What was sent stays sent, and the end of the server stays its end.
LEMMA ServerThreadKeeps ==
  ASSUME IInv, NEW t \in Server!Threads, ServerThread(t)
  PROVE  Between'
<1>1. ServerMoves(t) /\ ~Ended
  BY ServerSteps DEF ServerThread, IInv, Server!ThreadStep, Ended, Server!Ended
<1>2. UNCHANGED <<clientVars, netVars>>
  BY DEF ServerThread
<1> USE <1>1, <1>2 DEF IInv, clientVars, netVars, ClientGone, ServerMoves
<1>3. Types'
  BY DEF Types
<1>4. Answers'
  BY DEF Answers, Ended, Parts, ServerThread, Types
<1>5. Failures'
  <2>1. ASSUME server' = "terminated"
        PROVE  life # "alive" \/ \E r \in Requests : EndedServer(r)'
    BY <2>1 DEF Ended, ServerThread, EndedServer, Fatal
  <2> QED  BY <2>1, <1>3 DEF Failures, Server!Threads
<1>6. Connections'
  BY DEF Connections
<1>7. \A r \in Requests : Explained(r) => Explained(r)'
  BY DEF Explained, Excused, Ended
<1>8. \A r \in Requests : clientIo[r] = "eof" /\ started[r] = Client!ReadBody => Good(r)
  BY DEF Reads, ClientProofs!IInv, ClientProofs!Earned
<1>9. \A r \in Requests : Good(r) => Good(r)' /\ (Whole(r) => Whole(r)')
  BY DEF Good, Whole, Parts, Ended
<1>10. Reads'
  BY <1>7, <1>8, <1>9 DEF Reads
<1> QED  BY <1>3, <1>4, <1>5, <1>6, <1>10 DEF Between

\* Only a complete answer is sent successfully.
LEMMA CompleteAtServerKeeps ==
  ASSUME IInv, NEW q \in Requests, CompleteAtServer(q)
  PROVE  Between'
<1> USE DEF IInv, clientVars, netVars, ClientGone, Ended, Parts, Server!Threads
<1>1. /\ \A r \in Requests \ {q} : serverIo'[r] = serverIo[r]
      /\ serverIo'[q] # "pending"
      /\ UNCHANGED <<heap, operation, m_response_status_code, server, stopFlag_,
                     acceptor_, pc, cur, serverEc>>
  BY DEF CompleteAtServer, Server!IoStep, Server!CompleteIo, Server!ResultsOf,
     Server!Results, ServerProofs!IInv, ServerProofs!TypeOK
<1>2. ServiceSees(q, serverIo'[q]) /\ UNCHANGED <<clientVars, netVars>>
  BY DEF CompleteAtServer
<1> USE <1>1, <1>2
<1>3. Types'
  BY DEF Types
<1>4. Answers'
  BY DEF Answers, ServiceSees
<1>5. Failures'
  BY DEF Failures, ServiceSees, EndedServer, Fatal
<1>6. Connections'
  BY DEF Connections
<1>7. Reads'
  BY DEF Reads, Good, Whole, Explained, Excused, EndedServer, Fatal
<1> QED  BY <1>3, <1>4, <1>5, <1>6, <1>7 DEF Between

\* An accepted connection was made before.
LEMMA CompleteAcceptKeeps ==
  ASSUME IInv, CompleteAccept
  PROVE  Between'
<1> USE DEF IInv, clientVars, ClientGone, Ended, Parts, Server!Threads
<1>1. UNCHANGED <<serverVars, clientVars, request, answer, fault>> \/
      UNCHANGED <<heap, operation, serverIo, m_response_status_code, server, stopFlag_,
                  acceptor_, pc, cur, serverEc, clientVars, request, answer, fault>>
  BY DEF CompleteAccept, Server!CompleteAccept, serverVars
<1>2. \A r \in Requests :
        \/ connection'[r] = connection[r]
        \/ connection[r] = "backlog" /\ connection'[r] = "accepted"
  BY NamesAssumption DEF CompleteAccept
<1>3. ~Ended
  BY DEF CompleteAccept
<1> USE <1>1, <1>2, <1>3 DEF serverVars
<1>4. Types'
  BY DEF Types, CompleteAccept
<1>5. Answers'
  BY DEF Answers
<1>6. Failures'
  BY DEF Failures
<1>7. Connections'
  BY DEF Connections
<1>8. Reads'
  BY DEF Reads, Good, Whole, Explained, Excused
<1> QED  BY <1>4, <1>5, <1>6, <1>7, <1>8 DEF Between

\* A Stop, or an end of the server, is an excuse.
LEMMA ServerCallKeeps ==
  ASSUME IInv, ServerCall
  PROVE  Between'
<1> USE DEF IInv, clientVars, netVars, ClientGone, Parts, Server!Threads
<1>1. /\ UNCHANGED <<heap, operation, m_response_status_code, cur, serverEc>>
      /\ ~Ended
      /\ stopFlag_ => stopFlag_'
      /\ serverIo' = serverIo \/ (Ended' /\ \A r \in Requests : serverIo'[r] = "none")
      /\ server # "new" => pc' = pc
      /\ pc' = pc \/ \A t \in Server!Threads : pc'[t] = "run"
      /\ server' # "new" \/ (acceptor_' = acceptor_ /\ server' = server)
      /\ server' \in {"stopping", "stopped", "destroyed"} =>
           stopFlag_' \/ server \in {"stopping", "stopped"}
      /\ server' = "terminated" => server = "new"
      /\ UNCHANGED <<clientVars, netVars>>
  <2>1. CASE Server!Start
    BY <2>1 DEF ServerCall, Server!Start, Ended
  <2>2. CASE Server!StopAcceptor
    BY <2>2 DEF ServerCall, Server!StopAcceptor, Ended
  <2>3. CASE Server!StopStep
    BY <2>3 DEF ServerCall, Server!StopStep, Server!StopContext, Server!Joined, Ended
  <2>4. CASE Server!Destroy
    BY <2>4 DEF ServerCall, Server!Destroy, Ended
  <2> QED  BY <2>1, <2>2, <2>3, <2>4 DEF ServerCall
<1> USE <1>1
<1>2. Types'
  BY DEF Types
<1>3. Answers'
  BY DEF Answers, Ended
<1>4. Failures'
  BY DEF Failures
<1>5. Connections'
  BY DEF Connections
<1>6. Reads'
  BY DEF Reads, Good, Whole, Explained, Excused, Ended
<1> QED  BY <1>2, <1>3, <1>4, <1>5, <1>6 DEF Between

\* The parts are sent one by one, and no more than there are.
LEMMA SendPartKeeps ==
  ASSUME IInv, NEW q \in Requests, SendPart(q)
  PROVE  Between'
<1> USE DEF IInv, clientVars, serverVars, SendPart, ClientGone, Ended, Parts, Server!Threads
<1>1. Types'
  BY DEF Types
<1>2. Answers'
  BY DEF Answers, Types
<1>3. Failures'
  BY DEF Failures
<1>4. Connections'
  BY DEF Connections
<1>5. Reads'
  BY DEF Reads, Good, Whole, Explained, Excused, Types
<1> QED  BY <1>1, <1>2, <1>3, <1>4, <1>5 DEF Between

\* A fault is an excuse.
LEMMA FaultKeeps ==
  ASSUME IInv, NEW q \in Requests, Fault(q)
  PROVE  Between'
<1> USE DEF IInv, clientVars, serverVars, Fault, ClientGone, Ended, Parts, Server!Threads
<1>1. Types'
  BY DEF Types
<1>2. Answers'
  BY DEF Answers, Types
<1>3. Failures'
  BY DEF Failures, Types, EndedServer, Fatal
<1>4. Connections'
  BY DEF Connections
<1>5. Reads'
  BY DEF Reads, Good, Whole, Explained, Excused, EndedServer, Fatal, Types
<1> QED  BY <1>1, <1>2, <1>3, <1>4, <1>5 DEF Between

\* The invariant is inductive: the components keep theirs, the steps keep the rest.
LEMMA Inductive == IInv /\ [Next]_vars => IInv'
<1> SUFFICES ASSUME IInv, [Next]_vars PROVE IInv'
  OBVIOUS
<1>1. ClientProofs!IInv' /\ ServerProofs!IInv'
  BY ComponentsKeep DEF IInv
<1>2. ASSUME UNCHANGED vars PROVE Between'
  <2> USE <1>2 DEF IInv, vars, clientVars, serverVars, netVars, ClientGone, Ended, Parts,
          Server!Threads
  <2>1. Types' /\ Connections'
    BY DEF Types, Connections
  <2>2. Answers' /\ Failures'
    BY DEF Answers, Failures, EndedServer, Fatal
  <2>3. Reads'
    BY DEF Reads, Good, Whole, Explained, Excused, EndedServer, Fatal
  <2> QED  BY <2>1, <2>2, <2>3 DEF Between
<1>3. ASSUME Next PROVE Between'
  BY <1>2, <1>3, ClientKeeps, CompleteAtClientKeeps, ServerThreadKeeps,
     CompleteAtServerKeeps, CompleteAcceptKeeps, ServerCallKeeps, SendPartKeeps,
     FaultKeeps DEF Next
<1> QED  BY <1>1, <1>2, <1>3 DEF IInv, Between

\* At first there is nothing between the components.
LEMMA Initially == Init => IInv
<1> SUFFICES ASSUME Init PROVE IInv
  OBVIOUS
<1>1. ClientProofs!IInv /\ ServerProofs!IInv
  BY ComponentsStart DEF Init
<1>2. Types /\ Answers /\ Failures /\ Connections /\ Reads
  BY DEF Init, Client!Init, Server!Init, Types, Answers, Failures, Connections, Reads
<1> QED  BY <1>1, <1>2 DEF IInv

\* Every reachable state of the exchange satisfies the invariant.
THEOREM Invariant == Spec => []IInv
  BY Initially, Inductive, PTL DEF Spec

\* The client is told the truth about its requests.
THEOREM Truthful == Spec => []OutcomeFitsAnswer
<1>1. IInv => OutcomeFitsAnswer
  BY DEF IInv, Reads, Good, Whole, Explained, OutcomeFitsAnswer
<1> QED  BY <1>1, Invariant, PTL
=============================================================================
