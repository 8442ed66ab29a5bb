------------------------ MODULE TcpServerAsyncProofs ------------------------
(***************************************************************************)
(* The safety properties of TcpServerAsync hold for any number of          *)
(* services, any size of the pool and both types of services.              *)
(*                                                                         *)
(* Two tokens go round.  One belongs to the acceptor: its operation, or    *)
(* the thread between its handler and the next accept, has it.  Every live *)
(* service has another, which its operation, its queued handler or the     *)
(* thread that runs that handler has; who deletes the service destroys it. *)
(***************************************************************************)
EXTENDS TcpServerAsync, TLAPS

\* What a thread is about to create does not exist yet; what it handles has
\* nothing in flight and no other thread.
ThreadTokens ==
  /\ \A t \in Threads :
       /\ pc[t] = "handle" => cur[t] \in Services /\ io[cur[t]] = "none"
       /\ pc[t] = "create" => cur[t] \in Services /\ heap[cur[t]] = "none"
       /\ pc[t] \notin {"create", "handle"} => cur[t] = None
  /\ \A t, u \in Threads :
       pc[t] = "handle" /\ pc[u] = "handle" /\ cur[t] = cur[u] => t = u

\* An accepted connection has no service yet, and no service acts before it
\* is made.
NewServices ==
  /\ accept \in Services => heap[accept] = "none"
  /\ \A s \in Services : heap[s] = "none" => operation[s] = "none"

\* The threads run from Start to the return of Stop.
Lifetime ==
  /\ server \in {"new", "stopped"} => \A t \in Threads : pc[t] = "exited"
  /\ server \in {"new", "started"} => ~stopFlag_ /\ ~stopped

IInv ==
  /\ TypeOK
  /\ ThreadTokens
  /\ NewServices
  /\ Lifetime
  /\ OneAccept
  /\ NoUseAfterDelete
  /\ NoForgottenService

-----------------------------------------------------------------------------
(* The handlers of the services do one of three things.                    *)

\* The handler of thread t returns.
Returns(t) ==
  /\ pc[t] = "handle"
  /\ pc' = [pc EXCEPT ![t] = "run"]
  /\ cur' = [cur EXCEPT ![t] = None]
  /\ ec' = [ec EXCEPT ![t] = "ok"]
  /\ UNCHANGED <<acceptVars, stopFlag_, stopped>>

\* Its service has another operation in flight; none is left after the answer.
GoesOn(s) ==
  /\ operation[s] # "write"
  /\ \E op \in {"headers", "write"} : Initiate(s, op)
  /\ \E code \in StatusCodes :
       m_response_status_code' = [m_response_status_code EXCEPT ![s] = code]
  /\ UNCHANGED <<heap, server>>

Handler(t) ==
  \/ RecieveRequest(t)
  \/ SendAnswer(t)
  \/ OnRequestLineReceived(t)
  \/ OnHeadersReceived(t)
  \/ OnResponseSent(t)

USE DEF serviceVars, serverVars, acceptVars, threadVars

\* An answer has a status code of the table.
LEMMA SendResponseCases ==
  ASSUME TypeOK, NEW s \in Services, NEW code \in StatusCodes,
         SendResponse(s, code), operation[s] # "write"
  PROVE  Throws \/ GoesOn(s)
  BY DEF SendResponse, GoesOn, Initiate

\* Every handler returns, having deleted its service, gone on or thrown.
LEMMA HandlerCases ==
  ASSUME IInv, NEW t \in Threads, Handler(t)
  PROVE  /\ Returns(t)
         /\ cur[t] \in Services
         /\ Delete(cur[t]) \/ GoesOn(cur[t]) \/ Throws
<1>1. Returns(t)
  BY DEF Handler, RecieveRequest, SendAnswer, OnRequestLineReceived,
     OnHeadersReceived, OnResponseSent, Handles, Returns
<1>2. PICK s \in Services : s = cur[t]
  BY <1>1 DEF IInv, ThreadTokens, Returns
<1> SUFFICES Delete(s) \/ GoesOn(s) \/ Throws
  BY <1>1, <1>2
<1>3. {200, 404, 413, 500, 501, 505} = StatusCodes
  BY DEF StatusCodes
<1>4. ASSUME ReadFailed(t), operation[s] # "write"
      PROVE  Delete(s) \/ GoesOn(s) \/ Throws
  BY <1>2, <1>3, <1>4, SendResponseCases DEF ReadFailed, IInv
<1>5. \E code \in StatusCodes : m_response_status_code =
        [m_response_status_code EXCEPT ![s] = code]
  BY DEF IInv, TypeOK
<1>6. ASSUME UNCHANGED <<heap, m_response_status_code, server>>, operation[s] # "write",
             NEW op \in {"headers", "write"}, Initiate(s, op)
      PROVE  GoesOn(s)
  BY <1>5, <1>6 DEF GoesOn
<1>7. CASE RecieveRequest(t)
  BY <1>2, <1>6, <1>7 DEF RecieveRequest, Handles
<1>8. CASE SendAnswer(t) \/ OnResponseSent(t)
  BY <1>2, <1>8 DEF SendAnswer, OnResponseSent
<1>9. CASE OnRequestLineReceived(t)
  <2>1. operation[s] # "write"
    BY <1>2, <1>9 DEF OnRequestLineReceived, Handles
  <2>2. CASE ReadFailed(t)
    BY <2>1, <2>2, <1>2, <1>4
  <2>3. ASSUME NEW code \in {501, 505}, SendResponse(s, code)
        PROVE  GoesOn(s) \/ Throws
    BY <2>1, <2>3, <1>3, SendResponseCases DEF IInv
  <2> QED  BY <1>2, <1>6, <1>9, <2>1, <2>2, <2>3 DEF OnRequestLineReceived
<1>10. CASE OnHeadersReceived(t)
  <2>1. operation[s] # "write"
    BY <1>2, <1>10 DEF OnHeadersReceived, Handles
  <2>2. CASE ReadFailed(t)
    BY <2>1, <2>2, <1>2, <1>4
  <2>3. ASSUME NEW code \in {200, 404, 500}, SendResponse(s, code)
        PROVE  GoesOn(s) \/ Throws
    BY <2>1, <2>3, <1>3, SendResponseCases DEF IInv
  <2> QED  BY <1>2, <1>10, <2>2, <2>3 DEF OnHeadersReceived, ProcessRequest
<1> QED  BY <1>1, <1>2, <1>7, <1>8, <1>9, <1>10 DEF Handler

\* A handler hands its token on, or destroys it with the service.
LEMMA HandlerKeeps ==
  ASSUME IInv, NEW t \in Threads, Handler(t), ~Ended
  PROVE  IInv'
<1>1. PICK s \in Services : s = cur[t]
  BY HandlerCases
<1>2. Returns(t) /\ (Delete(s) \/ GoesOn(s) \/ Throws)
  BY <1>1, HandlerCases
<1> USE <1>1, <1>2, NoneAssumption, AcceptAssumption
        DEF IInv, TypeOK, Returns, Delete, GoesOn, Initiate, Throws
<1>3. TypeOK'
  BY DEF Results
<1>4. ThreadTokens'
  BY DEF ThreadTokens, NoUseAfterDelete
<1>5. NewServices'
  BY DEF NewServices, NoUseAfterDelete
<1>6. Lifetime'
  BY DEF Lifetime
<1>7. OneAccept'
  BY DEF OneAccept
<1>8. NoUseAfterDelete'
  BY DEF NoUseAfterDelete, ThreadTokens
<1>9. NoForgottenService'
  BY DEF NoForgottenService, ThreadTokens
<1> QED  BY <1>3, <1>4, <1>5, <1>6, <1>7, <1>8, <1>9

-----------------------------------------------------------------------------
(* The other steps.                                                        *)

\* The acceptor's token goes from its operation to the thread.
LEMMA TakeAcceptKeeps ==
  ASSUME IInv, NEW t \in Threads, TakeAccept(t)
  PROVE  IInv'
<1> USE NoneAssumption, AcceptAssumption DEF IInv, TypeOK, TakeAccept
<1>1. TypeOK'
  OBVIOUS
<1>2. ThreadTokens' /\ NewServices' /\ Lifetime'
  BY DEF ThreadTokens, NewServices, Lifetime
<1>3. OneAccept'
  BY DEF OneAccept
<1>4. NoUseAfterDelete' /\ NoForgottenService'
  BY DEF NoUseAfterDelete, NoForgottenService
<1> QED  BY <1>1, <1>2, <1>3, <1>4

\* A new service has its token in its first operation.
LEMMA CreateKeeps ==
  ASSUME IInv, NEW t \in Threads, Create(t)
  PROVE  IInv'
<1>1. PICK s \in Services : s = cur[t] /\ heap[s] = "none" /\ io[s] = "none"
  BY DEF IInv, TypeOK, ThreadTokens, Create, NoUseAfterDelete
<1> USE <1>1, NoneAssumption, AcceptAssumption DEF IInv, TypeOK, Create, Initiate
<1>2. TypeOK'
  OBVIOUS
<1>3. ThreadTokens'
  BY DEF ThreadTokens, NoUseAfterDelete, OneAccept
<1>4. NewServices' /\ Lifetime'
  BY DEF NewServices, Lifetime, OneAccept
<1>5. OneAccept'
  BY DEF OneAccept
<1>6. NoUseAfterDelete' /\ NoForgottenService'
  BY DEF NoUseAfterDelete, NoForgottenService
<1> QED  BY <1>2, <1>3, <1>4, <1>5, <1>6

\* The acceptor's token goes back to its operation, or ends with a Stop.
LEMMA RearmKeeps ==
  ASSUME IInv, NEW t \in Threads, Rearm(t)
  PROVE  IInv'
<1> USE NoneAssumption, AcceptAssumption DEF IInv, TypeOK, Rearm
<1>1. TypeOK'
  OBVIOUS
<1>2. ThreadTokens' /\ NewServices' /\ Lifetime'
  BY DEF ThreadTokens, NewServices, Lifetime
<1>3. OneAccept'
  BY DEF OneAccept, Lifetime
<1>4. NoUseAfterDelete' /\ NoForgottenService'
  BY DEF NoUseAfterDelete, NoForgottenService
<1> QED  BY <1>1, <1>2, <1>3, <1>4

\* The token of a service goes from its queued handler to the thread.
LEMMA TakeKeeps ==
  ASSUME IInv, NEW t \in Threads, NEW s \in Services, Take(t, s)
  PROVE  IInv'
<1> USE NoneAssumption, AcceptAssumption DEF IInv, TypeOK, Take, Results
<1>1. TypeOK'
  OBVIOUS
<1>2. ThreadTokens'
  BY DEF ThreadTokens
<1>3. NewServices' /\ Lifetime'
  BY DEF NewServices, Lifetime
<1>4. OneAccept'
  BY DEF OneAccept
<1>5. NoUseAfterDelete' /\ NoForgottenService'
  BY DEF NoUseAfterDelete, NoForgottenService, ThreadTokens
<1> QED  BY <1>1, <1>2, <1>3, <1>4, <1>5

\* A thread that exits has no token.
LEMMA ThreadExitsKeeps ==
  ASSUME IInv, NEW t \in Threads, ThreadExits(t)
  PROVE  IInv'
<1> USE NoneAssumption, AcceptAssumption DEF IInv, TypeOK, ThreadExits
<1>1. TypeOK'
  OBVIOUS
<1>2. ThreadTokens' /\ NewServices' /\ Lifetime'
  BY DEF ThreadTokens, NewServices, Lifetime
<1>3. OneAccept'
  BY DEF OneAccept
<1>4. NoUseAfterDelete' /\ NoForgottenService'
  BY DEF NoUseAfterDelete, NoForgottenService
<1> QED  BY <1>1, <1>2, <1>3, <1>4

\* The operating system completes an accept or an operation of a service.
LEMMA CompletionKeeps ==
  ASSUME IInv, CompleteAccept \/ \E s \in Services : CompleteIo(s)
  PROVE  IInv'
<1>1. CASE CompleteAccept
  <2> USE <1>1, NoneAssumption, AcceptAssumption DEF IInv, TypeOK, CompleteAccept
  <2>1. TypeOK'
    OBVIOUS
  <2>2. ThreadTokens' /\ NewServices' /\ Lifetime'
    BY DEF ThreadTokens, NewServices, Lifetime
  <2>3. OneAccept'
    BY DEF OneAccept
  <2>4. NoUseAfterDelete' /\ NoForgottenService'
    BY DEF NoUseAfterDelete, NoForgottenService
  <2> QED  BY <2>1, <2>2, <2>3, <2>4
<1>2. ASSUME NEW s \in Services, CompleteIo(s) PROVE IInv'
  <2> USE <1>2, AcceptAssumption DEF IInv, TypeOK, CompleteIo, ResultsOf, Results
  <2>1. TypeOK'
    OBVIOUS
  <2>2. ThreadTokens' /\ NewServices' /\ Lifetime'
    BY DEF ThreadTokens, NewServices, Lifetime
  <2>3. OneAccept'
    BY DEF OneAccept
  <2>4. NoUseAfterDelete' /\ NoForgottenService'
    BY DEF NoUseAfterDelete, NoForgottenService
  <2> QED  BY <2>1, <2>2, <2>3, <2>4
<1> QED  BY <1>1, <1>2

\* The owner.
LEMMA OwnerKeeps ==
  ASSUME IInv, Start \/ StopAcceptor \/ StopContext \/ Joined \/ Destroy
  PROVE  IInv'
<1>1. CASE Start
  <2> USE <1>1, NoneAssumption, AcceptAssumption DEF IInv, TypeOK, Start
  <2>1. TypeOK'
    OBVIOUS
  <2>2. ThreadTokens' /\ NewServices'
    BY DEF ThreadTokens, NewServices, Lifetime
  <2>3. Lifetime' /\ OneAccept'
    BY DEF Lifetime, OneAccept
  <2>4. NoUseAfterDelete' /\ NoForgottenService'
    BY DEF NoUseAfterDelete, NoForgottenService, Lifetime
  <2> QED  BY <2>1, <2>2, <2>3, <2>4
<1>2. CASE StopAcceptor \/ StopContext \/ Joined
  <2> USE <1>2, AcceptAssumption DEF IInv, TypeOK, StopAcceptor, StopContext, Joined
  <2>1. TypeOK'
    OBVIOUS
  <2>2. ThreadTokens' /\ NewServices' /\ Lifetime'
    BY DEF ThreadTokens, NewServices, Lifetime
  <2>3. OneAccept'
    BY DEF OneAccept
  <2>4. NoUseAfterDelete' /\ NoForgottenService'
    BY DEF NoUseAfterDelete, NoForgottenService
  <2> QED  BY <2>1, <2>2, <2>3, <2>4
<1>3. CASE Destroy
  <2> USE <1>3, NoneAssumption, AcceptAssumption DEF IInv, TypeOK, Destroy
  <2>1. TypeOK'
    OBVIOUS
  <2>2. ThreadTokens' /\ NewServices' /\ Lifetime'
    BY DEF ThreadTokens, NewServices, Lifetime
  <2>3. OneAccept'
    BY DEF OneAccept
  <2>4. NoUseAfterDelete' /\ NoForgottenService'
    BY DEF NoUseAfterDelete, NoForgottenService
  <2> QED  BY <2>1, <2>2, <2>3, <2>4
<1> QED  BY <1>1, <1>2, <1>3

\* The invariant is inductive.
LEMMA Inductive == IInv /\ [Next]_vars => IInv'
<1> SUFFICES ASSUME IInv, [Next]_vars PROVE IInv'
  OBVIOUS
<1>1. ASSUME NEW t \in Threads, ThreadStep(t) PROVE IInv'
  BY <1>1, HandlerKeeps, TakeAcceptKeeps, CreateKeeps, RearmKeeps, TakeKeeps,
     ThreadExitsKeeps DEF ThreadStep, Handler
<1>2. ASSUME NEW s \in Services, IoStep(s) PROVE IInv'
  BY <1>2, CompletionKeeps DEF IoStep
<1>3. CASE CompleteAccept
  BY <1>3, CompletionKeeps
<1>4. CASE Start \/ StopAcceptor \/ Destroy \/ StopStep
  BY <1>4, OwnerKeeps DEF StopStep
<1>5. CASE UNCHANGED vars
  BY <1>5 DEF vars, IInv, TypeOK, ThreadTokens, NewServices, Lifetime,
     OneAccept, NoUseAfterDelete, NoForgottenService
<1> QED  BY <1>1, <1>2, <1>3, <1>4, <1>5 DEF Next

\* A new server has no service, no thread and no accept.
LEMMA Initially == Init => IInv
<1> SUFFICES ASSUME Init PROVE IInv
  OBVIOUS
<1> USE NoneAssumption, AcceptAssumption DEF Init
<1>1. TypeOK
  BY DEF TypeOK, Results, StatusCodes
<1>2. ThreadTokens /\ NewServices /\ Lifetime
  BY DEF ThreadTokens, NewServices, Lifetime
<1>3. OneAccept /\ NoUseAfterDelete /\ NoForgottenService
  BY DEF OneAccept, NoUseAfterDelete, NoForgottenService
<1> QED  BY <1>1, <1>2, <1>3 DEF IInv

\* Every reachable state satisfies the invariant.
THEOREM Invariant == Spec => []IInv
  BY Initially, Inductive, PTL DEF Spec

-----------------------------------------------------------------------------
(* The safety properties of the runs.                                      *)

\* The variables of every reachable state have their types; in particular no
\* answer has a status code that http_status_table lacks.
THEOREM TypeCorrect == Spec => []TypeOK
  BY Invariant, PTL DEF IInv

\* No handler of a service runs, or is still to run, after delete this.
THEOREM PointersAreGood == Spec => []NoUseAfterDelete
  BY Invariant, PTL DEF IInv

\* Whichever path a handler takes, it deletes its service or starts another
\* operation, unless it ends the program.
THEOREM NobodyForgotten == Spec => []NoForgottenService
  BY Invariant, PTL DEF IInv

\* A started server never stops accepting, and never has two accepts.
THEOREM AcceptsOneByOne == Spec => []OneAccept
  BY Invariant, PTL DEF IInv

\* A step that writes the operations of a service: a handler, or Create.
LEMMA WhoOperates ==
  ASSUME IInv, [Next]_vars
  PROVE  \/ \E t \in Threads :
              Handler(t) \/ Create(t) \/ \E s \in Services : Take(t, s)
         \/ /\ UNCHANGED <<heap, operation, m_response_status_code>>
            /\ UNCHANGED io \/ Destroy \/ \E s \in Services : CompleteIo(s)
  BY DEF Next, ThreadStep, Handler, ThreadExits, TakeAccept, Rearm, IoStep, StopStep,
     CompleteAccept, CompleteIo, Start, StopAcceptor, StopContext, Joined, Destroy, vars

\* The write is the last operation of a service, and it is initiated once.
THEOREM AnswersAreLast == Spec => AnswersOnce
<1> DEFINE Once ==
      \A s \in Services : operation[s] = "write" =>
        operation'[s] = "write" /\ (io'[s] = "pending" => io[s] = "pending")
<1>1. ASSUME IInv, [Next]_vars, NEW s \in Services, operation[s] = "write"
      PROVE  operation'[s] = "write" /\ (io'[s] = "pending" => io[s] = "pending")
  <2> USE <1>1 DEF IInv, TypeOK
  <2>1. ASSUME NEW t \in Threads, Handler(t)
        PROVE  operation'[s] = "write" /\ (io'[s] = "pending" => io[s] = "pending")
    BY <2>1, HandlerCases DEF Delete, GoesOn, Initiate, Throws
  <2>2. ASSUME NEW t \in Threads, Create(t)
        PROVE  operation'[s] = "write" /\ (io'[s] = "pending" => io[s] = "pending")
    BY <2>2 DEF Create, Initiate, ThreadTokens, NewServices
  <2>3. ASSUME NEW t \in Threads, NEW r \in Services, Take(t, r)
        PROVE  operation'[s] = "write" /\ (io'[s] = "pending" => io[s] = "pending")
    BY <2>3 DEF Take
  <2>4. CASE Destroy \/ UNCHANGED io
    BY <2>4, WhoOperates, <2>1, <2>2, <2>3 DEF Destroy
  <2>5. ASSUME NEW r \in Services, CompleteIo(r)
        PROVE  operation'[s] = "write" /\ (io'[s] = "pending" => io[s] = "pending")
    BY <2>5 DEF CompleteIo
  <2> QED  BY <2>1, <2>2, <2>3, <2>4, <2>5, WhoOperates
<1>2. IInv /\ [Next]_vars => [Once]_vars
  BY <1>1
<1> QED  BY <1>2, Invariant, PTL DEF Spec, AnswersOnce

\* Stop has joined every thread when it returns.
THEOREM StopSilences == Spec => SilentAfterStop
<1> DEFINE Silent ==
      server = "stopped" => UNCHANGED <<heap, operation, m_response_status_code>>
<1>1. ASSUME IInv, [Next]_vars, server = "stopped"
      PROVE  UNCHANGED <<heap, operation, m_response_status_code>>
  <2>1. ASSUME NEW t \in Threads PROVE pc[t] = "exited"
    BY <1>1 DEF IInv, Lifetime
  <2>2. ASSUME NEW t \in Threads
        PROVE  ~Handler(t) /\ ~Create(t) /\ ~\E s \in Services : Take(t, s)
    BY <2>1, <1>1, HandlerCases DEF Returns, Create, Take
  <2> QED  BY <1>1, <2>2, WhoOperates
<1>2. IInv /\ [Next]_vars => [Silent]_vars
  BY <1>1
<1> QED  BY <1>2, Invariant, PTL DEF Spec, SilentAfterStop
=============================================================================
