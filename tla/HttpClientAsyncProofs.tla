----------------------- MODULE HttpClientAsyncProofs -----------------------
(***************************************************************************)
(* The safety properties of HttpClientAsync hold for any number of         *)
(* requests and callers.                                                   *)
(*                                                                         *)
(* As in the TCP client a request has a token, which its operation or      *)
(* queued handler, the client's thread inside on_finish, or the caller     *)
(* inside execute holds.                                                   *)
(***************************************************************************)
EXTENDS HttpClientAsync, TLAPS

\* Who holds the token of a request: it was not reported, and nobody else has it.
Tokens ==
  /\ \A r \in Requests : io[r] # "none" =>
       /\ started[r] > 0
       /\ calls[r] = 0
       /\ ec[r] = "none"
  /\ finishing # None =>
       /\ io[finishing] = "none"
       /\ started[finishing] > 0
       /\ calls[finishing] = 0
       /\ ec[finishing] # "none"
  /\ \A c \in Callers : call[c] = "finish" =>
       /\ arg[c] \in Requests
       /\ io[arg[c]] = "none"
       /\ started[arg[c]] = 0
       /\ calls[arg[c]] = 0
       /\ ec[arg[c]] # "none"
  /\ \A c, d \in Callers :
       call[c] = "finish" /\ call[d] = "finish" /\ arg[c] = arg[d] => c = d
  /\ \A r \in Requests : calls[r] > 0 => ec[r] # "none"
  /\ CallbackOnce

\* What the error codes of a request say about its operations.
Earned ==
  /\ \A r \in Requests : io[r] = "aborted" => m_was_cancelled[r]
  /\ \A r \in Requests : started[r] = ReadBody => m_response[r] = "headers"
  /\ \A r \in Requests : ec[r] = "ok" => started[r] = ReadBody
  /\ OutcomeIsEarned

\* The thread exits when no on_finish is running, and close waits for it.
Joining ==
  /\ exited => stopped /\ finishing = None
  /\ closed => exited

IInv ==
  /\ TypeOK
  /\ Tokens
  /\ Earned
  /\ NoOperationAfterCancel
  /\ Joining

-----------------------------------------------------------------------------
(* A completion handler does one of three things with its request r.       *)

\* It calls on_finish with e.
Finishes(r, e) ==
  /\ Handles(r, started[r])
  /\ FinishWith(r, e)
  /\ e = "aborted" => m_was_cancelled[r]
  /\ e = "ok" => started[r] = ReadBody
  /\ UNCHANGED life
  /\ HandlerFrame

\* It goes on to the next operation.
GoesOn(r) ==
  /\ Handles(r, started[r])
  /\ started[r] < ReadBody
  /\ ~m_was_cancelled[r]
  /\ StartNext(r)
  /\ started[r] = ReadHeaders => m_response'[r] = "headers"
  /\ UNCHANGED <<stopped, life>>
  /\ HandlerFrame

\* It throws.
Throws ==
  /\ life' = "terminated"
  /\ UNCHANGED <<m_response, io, started, ec, finishing, stopped>>
  /\ HandlerFrame

\* What a handler may do to the response.
Parses(r) ==
  \/ UNCHANGED m_response
  \/ /\ started[r] \in {ReadStatus, ReadHeaders}
     /\ \E v \in {"status", "headers"} : m_response' = [m_response EXCEPT ![r] = v]

Handler(r) ==
  \/ \E op \in {Resolve, Connect} : OnResolvedOrConnected(r, op)
  \/ OnRequestSent(r)
  \/ OnStatusLineReceived(r)
  \/ OnHeadersReceived(r)
  \/ OnResponseBodyReceived(r)

USE DEF Resolve, Connect, Write, ReadStatus, ReadHeaders, ReadBody
USE DEF requestVars, threadVars, callerVars, contextVars

\* Every handler is one of the three.
LEMMA HandlerCases ==
  ASSUME IInv, NEW r \in Requests, Handler(r)
  PROVE  /\ Parses(r)
         /\ \/ \E e \in {"ok", "aborted", "failed"} : Finishes(r, e)
            \/ GoesOn(r)
            \/ Throws
<1> USE DEF IInv, TypeOK, Earned, Results, Parses, Handles, FinishFailed, GoOn
<1>1. ASSUME NEW op \in {Resolve, Connect}, OnResolvedOrConnected(r, op)
      PROVE  /\ UNCHANGED m_response
             /\ \/ \E e \in {"ok", "aborted", "failed"} : Finishes(r, e)
                \/ GoesOn(r)
  BY <1>1 DEF OnResolvedOrConnected, Finishes, GoesOn
<1>2. CASE OnRequestSent(r)
  BY <1>2 DEF OnRequestSent, Finishes, GoesOn, Throws
<1>3. CASE OnStatusLineReceived(r)
  BY <1>3 DEF OnStatusLineReceived, Finishes, GoesOn
<1>4. CASE OnHeadersReceived(r)
  BY <1>4 DEF OnHeadersReceived, Finishes, GoesOn
<1>5. CASE OnResponseBodyReceived(r)
  BY <1>5 DEF OnResponseBodyReceived, Finishes
<1> QED  BY <1>1, <1>2, <1>3, <1>4, <1>5 DEF Handler

\* on_finish takes the token of the handler.
LEMMA FinishesKeeps ==
  ASSUME IInv, NEW r \in Requests, NEW e \in {"ok", "aborted", "failed"},
         Finishes(r, e), Parses(r)
  PROVE  IInv'
<1> USE DEF IInv, Finishes, FinishWith, Handles, HandlerFrame, Parses
<1>1. TypeOK'
  BY DEF TypeOK
<1>2. Tokens'
  BY NoneAssumption DEF Tokens, TypeOK, CallbackOnce, Results
<1>3. Earned'
  BY DEF Earned, OutcomeIsEarned, TypeOK, Tokens, Results
<1>4. NoOperationAfterCancel'
  BY DEF NoOperationAfterCancel
<1>5. Joining'
  BY DEF Joining
<1> QED  BY <1>1, <1>2, <1>3, <1>4, <1>5

\* The next operation has the token, and nobody cancelled before it started.
LEMMA GoesOnKeeps ==
  ASSUME IInv, NEW r \in Requests, GoesOn(r), Parses(r)
  PROVE  IInv'
<1> USE DEF IInv, GoesOn, StartNext, Handles, HandlerFrame, Parses
<1>1. TypeOK'
  BY DEF TypeOK
<1>2. Tokens'
  BY NoneAssumption DEF Tokens, TypeOK, CallbackOnce, Results
<1>3. Earned'
  BY DEF Earned, OutcomeIsEarned, TypeOK, Tokens, Results
<1>4. NoOperationAfterCancel'
  BY DEF NoOperationAfterCancel, TypeOK
<1>5. Joining'
  BY DEF Joining
<1> QED  BY <1>1, <1>2, <1>3, <1>4, <1>5

\* The program ends; nothing else of the state changes but what was parsed.
LEMMA ThrowsKeeps ==
  ASSUME IInv, Throws
  PROVE  IInv'
<1> USE DEF IInv, Throws, HandlerFrame
<1>1. TypeOK'
  BY DEF TypeOK
<1>2. Tokens' /\ NoOperationAfterCancel'
  BY DEF Tokens, CallbackOnce, NoOperationAfterCancel
<1>3. Earned' /\ Joining'
  BY DEF Earned, OutcomeIsEarned, Joining
<1> QED  BY <1>1, <1>2, <1>3

\* The callback gives up the token.
LEMMA OnFinishKeeps ==
  ASSUME IInv, OnFinish
  PROVE  IInv'
<1> USE DEF IInv, OnFinish, StopIfIdle
<1>1. TypeOK'
  BY NoneAssumption DEF TypeOK
<1>2. Tokens'
  BY NoneAssumption DEF Tokens, TypeOK, CallbackOnce
<1>3. Earned'
  BY DEF Earned, OutcomeIsEarned
<1>4. NoOperationAfterCancel' /\ Joining'
  BY DEF NoOperationAfterCancel, Joining
<1> QED  BY <1>1, <1>2, <1>3, <1>4

\* execute gives the request to its first operation, or to its caller.
LEMMA ExecuteKeeps ==
  ASSUME IInv, NEW c \in Callers, NEW r \in Requests, Execute(c, r)
  PROVE  IInv'
<1> USE DEF IInv, Execute, StartNext
<1>1. TypeOK'
  BY DEF TypeOK
<1>2. Tokens'
  BY NoneAssumption DEF Tokens, TypeOK, CallbackOnce
<1>3. Earned'
  BY DEF Earned, OutcomeIsEarned, TypeOK, Tokens
<1>4. NoOperationAfterCancel'
  BY DEF NoOperationAfterCancel, TypeOK
<1>5. Joining'
  BY DEF Joining
<1> QED  BY <1>1, <1>2, <1>3, <1>4, <1>5

\* The callback in the caller gives up the token.
LEMMA FinishInCallerKeeps ==
  ASSUME IInv, NEW c \in Callers, FinishInCaller(c)
  PROVE  IInv'
<1> USE DEF IInv, FinishInCaller
<1>1. TypeOK'
  BY DEF TypeOK, Tokens
<1>2. Tokens'
  BY NoneAssumption DEF Tokens, TypeOK, CallbackOnce
<1>3. Earned'
  BY DEF Earned, OutcomeIsEarned
<1>4. NoOperationAfterCancel' /\ Joining'
  BY DEF NoOperationAfterCancel, Joining
<1> QED  BY <1>1, <1>2, <1>3, <1>4

\* cancel leaves the token where it is.
LEMMA CancelKeeps ==
  ASSUME IInv, NEW c \in Callers, NEW r \in Requests, Cancel(c, r)
  PROVE  IInv'
<1> USE DEF IInv, Cancel, AfterCancel
<1>1. TypeOK'
  BY DEF TypeOK, Results
<1>2. Tokens'
  BY DEF Tokens, TypeOK, CallbackOnce
<1>3. Earned'
  BY DEF Earned, OutcomeIsEarned, TypeOK
<1>4. NoOperationAfterCancel'
  BY DEF NoOperationAfterCancel, TypeOK
<1>5. Joining'
  BY DEF Joining
<1> QED  BY <1>1, <1>2, <1>3, <1>4, <1>5

\* The operation hands the token to its handler.
LEMMA CompleteKeeps ==
  ASSUME IInv, NEW r \in Requests, Complete(r)
  PROVE  IInv'
<1> USE DEF IInv, Complete, ResultsOf
<1>1. TypeOK'
  BY DEF TypeOK, Results
<1>2. Tokens'
  BY DEF Tokens, TypeOK, CallbackOnce
<1>3. Earned'
  BY DEF Earned, OutcomeIsEarned, TypeOK
<1>4. NoOperationAfterCancel' /\ Joining'
  BY DEF NoOperationAfterCancel, Joining
<1> QED  BY <1>1, <1>2, <1>3, <1>4

\* close, the exit of the thread, the join and the destructor touch no request.
LEMMA ClosingKeeps ==
  ASSUME IInv,
         Destroy \/ ThreadExits \/ \E c \in Callers : Close(c) \/ Joined(c)
  PROVE  IInv'
<1>1. CASE ThreadExits
  BY <1>1 DEF IInv, ThreadExits, TypeOK, Tokens, CallbackOnce, Earned,
     OutcomeIsEarned, NoOperationAfterCancel, Joining
<1>2. ASSUME NEW c \in Callers, Close(c) PROVE IInv'
  <2> USE <1>2 DEF IInv, Close
  <2>1. TypeOK' /\ Joining'
    BY DEF StopIfIdle, TypeOK, Joining
  <2>2. Tokens'
    BY DEF Tokens, TypeOK, CallbackOnce
  <2>3. Earned' /\ NoOperationAfterCancel'
    BY DEF Earned, OutcomeIsEarned, NoOperationAfterCancel
  <2> QED  BY <2>1, <2>2, <2>3
<1>3. ASSUME NEW c \in Callers, Joined(c) PROVE IInv'
  BY <1>3 DEF IInv, Joined, TypeOK, Tokens, CallbackOnce, Earned,
     OutcomeIsEarned, NoOperationAfterCancel, Joining
<1>4. CASE Destroy
  BY <1>4 DEF IInv, Destroy, TypeOK, Tokens, CallbackOnce, Earned,
     OutcomeIsEarned, NoOperationAfterCancel, Joining
<1> QED  BY <1>1, <1>2, <1>3, <1>4

\* A handler keeps the invariant.
LEMMA HandlerKeeps ==
  ASSUME IInv, NEW r \in Requests, Handler(r)
  PROVE  IInv'
<1> QED  BY HandlerCases, FinishesKeeps, GoesOnKeeps, ThrowsKeeps

\* The invariant is inductive.
LEMMA Inductive == IInv /\ [Next]_vars => IInv'
<1> SUFFICES ASSUME IInv, [Next]_vars PROVE IInv'
  OBVIOUS
<1>1. CASE ThreadStep
  BY <1>1, HandlerKeeps, OnFinishKeeps, ClosingKeeps DEF ThreadStep, Handler
<1>2. ASSUME NEW c \in Callers, CallStep(c) PROVE IInv'
  BY <1>2, FinishInCallerKeeps, ClosingKeeps DEF CallStep
<1>3. ASSUME NEW r \in Requests, CompleteStep(r) PROVE IInv'
  BY <1>3, CompleteKeeps DEF CompleteStep
<1>4. ASSUME NEW c \in Callers, NEW r \in Requests, Execute(c, r) \/ Cancel(c, r)
      PROVE  IInv'
  BY <1>4, ExecuteKeeps, CancelKeeps
<1>5. CASE Destroy \/ \E c \in Callers : Close(c)
  BY <1>5, ClosingKeeps
<1>6. CASE UNCHANGED vars
  BY <1>6 DEF vars, IInv, TypeOK, Tokens, CallbackOnce, Earned, OutcomeIsEarned,
     NoOperationAfterCancel, Joining
<1> QED  BY <1>1, <1>2, <1>3, <1>4, <1>5, <1>6 DEF Next

\* At first nobody holds anything.
LEMMA Initially == Init => IInv
<1> SUFFICES ASSUME Init PROVE IInv
  OBVIOUS
<1> USE NoneAssumption DEF Init
<1>1. TypeOK
  <2>1. /\ started \in [Requests -> 0..ReadBody]
        /\ startedAtCancel \in [Requests -> 0..ReadBody]
    OBVIOUS
  <2>2. calls \in [Requests -> Nat]
    OBVIOUS
  <2> QED  BY <2>1, <2>2 DEF TypeOK, Results
<1>2. Tokens
  BY DEF Tokens, CallbackOnce
<1>3. Earned /\ NoOperationAfterCancel /\ Joining
  BY DEF Earned, OutcomeIsEarned, NoOperationAfterCancel, Joining
<1> QED  BY <1>1, <1>2, <1>3 DEF IInv

\* Every reachable state satisfies the invariant.
THEOREM Invariant == Spec => []IInv
  BY Initially, Inductive, PTL DEF Spec

-----------------------------------------------------------------------------
(* The safety properties of the runs.                                      *)

\* The variables of every reachable state have their types; no request starts
\* more than its six operations.
THEOREM TypeCorrect == Spec => []TypeOK
  BY Invariant, PTL DEF IInv

\* on_finish is never called twice for a request, in whichever threads it runs.
THEOREM AnsweredOnce == Spec => []CallbackOnce
<1>1. IInv => CallbackOnce
  BY DEF IInv, Tokens
<1> QED  BY <1>1, Invariant, PTL

\* m_cancel_mux keeps a cancelled request from starting another operation.
THEOREM CancelStops == Spec => []NoOperationAfterCancel
  BY Invariant, PTL DEF IInv

\* Only a cancellation that finds the body being read may lose to the answer.
THEOREM CancelLoses == Spec => []CancelLosesOnlyToBody
<1>1. IInv => CancelLosesOnlyToBody
  BY DEF IInv, Earned, NoOperationAfterCancel, CancelLosesOnlyToBody
<1> QED  BY <1>1, Invariant, PTL

\* on_finish claims success after the headers, and cancellation after cancel().
THEOREM OutcomesEarned == Spec => []OutcomeIsEarned
<1>1. IInv => OutcomeIsEarned
  BY DEF IInv, Earned
<1> QED  BY <1>1, Invariant, PTL

\* A request's callback runs in the client's thread or in its own execute.
LEMMA WhoCalls ==
  ASSUME IInv, [Next]_vars
  PROVE  \/ calls' = calls
         \/ OnFinish
         \/ \E c \in Callers : FinishInCaller(c)
<1>1. ASSUME NEW r \in Requests, Handler(r) PROVE calls' = calls
  BY <1>1, HandlerCases DEF Finishes, GoesOn, Throws, HandlerFrame
<1> QED
  BY <1>1 DEF Next, ThreadStep, Handler, CallStep, CompleteStep, ThreadExits,
     Joined, Complete, Execute, Cancel, Close, Destroy, vars

\* After close the thread is gone and calls nobody back.
THEOREM CloseSilences == Spec => SilentAfterClose
<1> DEFINE Silent ==
      closed => \A r \in Requests :
        calls'[r] # calls[r] => \E c \in Callers : call[c] = "finish" /\ arg[c] = r
<1>1. ASSUME IInv, [Next]_vars, closed, NEW r \in Requests, calls'[r] # calls[r]
      PROVE  \E c \in Callers : call[c] = "finish" /\ arg[c] = r
  <2>1. ~OnFinish
    BY <1>1 DEF IInv, Joining, OnFinish
  <2>2. PICK c \in Callers : FinishInCaller(c)
    BY <1>1, <2>1, WhoCalls
  <2>3. call[c] = "finish" /\ calls' = [calls EXCEPT ![arg[c]] = @ + 1]
    BY <2>2 DEF FinishInCaller
  <2>4. arg[c] = r
    BY <1>1, <2>3 DEF IInv, TypeOK
  <2> QED  BY <2>3, <2>4
<1>2. IInv /\ [Next]_vars => [Silent]_vars
  BY <1>1
<1> QED  BY <1>2, Invariant, PTL DEF Spec, SilentAfterClose

\* The program survives a client that was closed.
ClosedSurvives == closed => life # "terminated"

\* No handler is left to throw once the thread has exited, and m_thread is not
\* joinable any more when the destructor comes.
LEMMA ClosedSurvivesKeeps ==
  ASSUME IInv, ClosedSurvives, [Next]_vars
  PROVE  ClosedSurvives'
<1> USE DEF ClosedSurvives
<1>1. CASE UNCHANGED vars
  BY <1>1 DEF vars
<1>2. CASE ThreadStep
  <2>1. ~exited /\ closed' = closed
    BY <1>2 DEF ThreadStep, OnResolvedOrConnected, OnRequestSent,
       OnStatusLineReceived, OnHeadersReceived, OnResponseBodyReceived, Handles,
       HandlerFrame, OnFinish, ThreadExits, IInv, Joining
  <2> QED  BY <2>1 DEF IInv, Joining
<1>3. ASSUME NEW c \in Callers, CallStep(c) PROVE ClosedSurvives'
  BY <1>3 DEF CallStep, FinishInCaller, Joined
<1>4. ASSUME NEW r \in Requests, CompleteStep(r) PROVE ClosedSurvives'
  BY <1>4 DEF CompleteStep, Complete
<1>5. ASSUME NEW c \in Callers, NEW r \in Requests, Execute(c, r) \/ Cancel(c, r)
      PROVE  ClosedSurvives'
  BY <1>5 DEF Execute, Cancel
<1>6. ASSUME NEW c \in Callers, Close(c) PROVE ClosedSurvives'
  BY <1>6 DEF Close
<1>7. CASE Destroy
  BY <1>7 DEF Destroy
<1> QED  BY <1>1, <1>2, <1>3, <1>4, <1>5, <1>6, <1>7 DEF Next

\* What the test of AnsweredMayBeDestroyed lacks is a call of close: after it
\* neither an exception of a handler nor the destructor ends the program.
THEOREM ClosedMayBeDestroyed == Spec => []ClosedSurvives
<1>1. Init => ClosedSurvives
  BY DEF Init, ClosedSurvives
<1>2. IInv /\ ClosedSurvives /\ [Next]_vars => ClosedSurvives'
  BY ClosedSurvivesKeeps
<1> QED  BY <1>1, <1>2, Invariant, PTL DEF Spec

-----------------------------------------------------------------------------
(* The refinement of AsyncRequests.                                        *)

\* What the promise sees of a request.
Seen(r) == IF calls[r] > 0 THEN ec[r] ELSE "none"

\* A step that keeps every request's place and what was reported is a stutter.
LEMMA SameStatus ==
  ASSUME \A r \in Requests : Status(r)' = Status(r) /\ Seen(r)' = Seen(r),
         m_was_cancelled' = m_was_cancelled
  PROVE  UNCHANGED Promise!absVars
  BY DEF Promise!absVars, Seen

\* A handler leaves its request active and unreported.
LEMMA HandlerStutters ==
  ASSUME IInv, NEW r \in Requests, Handler(r)
  PROVE  UNCHANGED Promise!absVars
<1> USE DEF IInv, TypeOK, Tokens, Finishes, GoesOn, Throws, FinishWith,
        StartNext, Handles, HandlerFrame, Results
<1>1. m_was_cancelled' = m_was_cancelled /\ calls' = calls
  BY HandlerCases
<1>2. ASSUME NEW q \in Requests
      PROVE  Status(q)' = Status(q) /\ Seen(q)' = Seen(q)
  <2>1. CASE Throws
    BY <2>1 DEF Status, Seen
  <2>2. CASE GoesOn(r)
    BY <2>2 DEF Status, Seen
  <2>3. ASSUME NEW e \in {"ok", "aborted", "failed"}, Finishes(r, e)
        PROVE  Status(q)' = Status(q) /\ Seen(q)' = Seen(q)
    BY <2>3 DEF Status, Seen
  <2> QED  BY <2>1, <2>2, <2>3, HandlerCases
<1> QED  BY <1>1, <1>2, SameStatus

\* The callback of request r completes it.
LEMMA CallbackCompletes ==
  ASSUME IInv, NEW r \in Requests, calls[r] = 0, ec[r] # "none",
         calls' = [calls EXCEPT ![r] = @ + 1],
         UNCHANGED <<started, ec, m_was_cancelled>>
  PROVE  Promise!AbsNext
<1> USE DEF IInv, TypeOK
<1>1. ASSUME NEW q \in Requests
      PROVE  /\ Status(q)' = IF q = r THEN "done" ELSE Status(q)
             /\ Seen(q)' = IF q = r THEN ec[r] ELSE Seen(q)
  BY DEF Status, Seen
<1>2. Status(r) = "active"
  BY DEF Status
<1>3. ec[r] = "aborted" => m_was_cancelled[r]
  BY DEF Earned, OutcomeIsEarned
<1>4. PICK o \in Promise!Outcomes : o = ec[r]
  BY DEF Promise!Outcomes
<1>5. Promise!Complete(r, o)
  BY <1>1, <1>2, <1>3, <1>4 DEF Promise!Complete, Seen
<1> QED  BY <1>5 DEF Promise!AbsNext

\* execute submits its request.
LEMMA ExecuteSubmits ==
  ASSUME IInv, NEW c \in Callers, NEW r \in Requests, Execute(c, r)
  PROVE  Promise!Submit(r)
<1> USE DEF IInv, TypeOK, Execute, StartNext
<1>1. calls[r] = 0 /\ calls' = calls
  BY DEF Tokens
<1>2. ASSUME NEW q \in Requests
      PROVE  /\ Status(q)' = IF q = r THEN "active" ELSE Status(q)
             /\ Seen(q)' = Seen(q)
  BY <1>1 DEF Status, Seen, Tokens
<1>3. Status(r) = "idle"
  BY <1>1 DEF Status
<1> QED  BY <1>2, <1>3 DEF Promise!Submit, Seen

\* Every step of the client is a step of the promise or changes nothing of it.
LEMMA StepRefines ==
  ASSUME IInv, [Next]_vars
  PROVE  [Promise!AbsNext]_(Promise!absVars)
<1>1. ASSUME NEW r \in Requests, Handler(r)
      PROVE  UNCHANGED Promise!absVars
  BY <1>1, HandlerStutters
<1>2. CASE OnFinish
  BY <1>2, NoneAssumption, CallbackCompletes DEF OnFinish, IInv, TypeOK, Tokens
<1>3. ASSUME NEW c \in Callers, FinishInCaller(c) PROVE Promise!AbsNext
  BY <1>3, CallbackCompletes DEF FinishInCaller, IInv, Tokens
<1>4. ASSUME NEW c \in Callers, NEW r \in Requests, Execute(c, r)
      PROVE  Promise!AbsNext
  BY <1>4, ExecuteSubmits DEF Promise!AbsNext
<1>5. ASSUME NEW c \in Callers, NEW r \in Requests, Cancel(c, r)
      PROVE  Promise!AbsNext
  <2>1. Promise!Cancel(r)
    BY <1>5 DEF Cancel, Status, Promise!Cancel
  <2> QED  BY <2>1 DEF Promise!AbsNext
<1>6. CASE \/ ThreadExits \/ Destroy \/ UNCHANGED vars
           \/ \E c \in Callers : Close(c) \/ Joined(c)
           \/ \E r \in Requests : Complete(r)
  <2>1. UNCHANGED <<calls, started, ec, m_was_cancelled>>
    BY <1>6 DEF ThreadExits, Destroy, Close, Joined, Complete, vars
  <2> QED  BY <2>1, SameStatus DEF Status, Seen
<1> QED
  BY <1>1, <1>2, <1>3, <1>4, <1>5, <1>6 DEF Next, ThreadStep, Handler, CallStep,
     CompleteStep

\* The client implements the promise, with answers that may outweigh a
\* cancellation.
THEOREM Refinement == Spec => ImplementsAsyncRequests
<1>1. Init => Promise!AbsInit
  BY DEF Init, Status, Promise!AbsInit
<1>2. IInv /\ [Next]_vars => [Promise!AbsNext]_(Promise!absVars)
  BY StepRefines
<1> QED
  BY Invariant, <1>1, <1>2, PTL DEF Spec, ImplementsAsyncRequests, Promise!AbsSpec

-----------------------------------------------------------------------------
(* Nobody is forgotten: the safety half of ExecutedIsReported.             *)

\* A request that was executed and not answered is in somebody's hands: the
\* operating system's or the io_service's, on_finish in the client's thread, or
\* its executer's.
NoForgottenRequest ==
  \A r \in Requests : (started[r] > 0 \/ ec[r] # "none") /\ calls[r] = 0 =>
    \/ io[r] # "none"
    \/ finishing = r
    \/ \E c \in Callers : call[c] = "finish" /\ arg[c] = r

\* A handler passes its request on, to the next operation or to on_finish.
LEMMA HandlersForgetNobody ==
  ASSUME IInv, NoForgottenRequest, NEW r \in Requests, Handler(r)
  PROVE  NoForgottenRequest'
<1> USE NoneAssumption DEF IInv, TypeOK, NoForgottenRequest
<1>1. \/ \E e \in {"ok", "aborted", "failed"} : Finishes(r, e)
      \/ GoesOn(r)
      \/ Throws
  BY HandlerCases
<1>2. ASSUME NEW e \in {"ok", "aborted", "failed"}, Finishes(r, e)
      PROVE  NoForgottenRequest'
  BY <1>2 DEF Finishes, FinishWith, Handles, HandlerFrame
<1>3. CASE GoesOn(r)
  BY <1>3 DEF GoesOn, StartNext, Handles, HandlerFrame
<1>4. CASE Throws
  BY <1>4 DEF Throws, HandlerFrame
<1> QED  BY <1>1, <1>2, <1>3, <1>4

\* So does every other step.
LEMMA ForgetsNobody ==
  ASSUME IInv, NoForgottenRequest, [Next]_vars
  PROVE  NoForgottenRequest'
<1> USE NoneAssumption DEF IInv, TypeOK, NoForgottenRequest
<1>1. CASE ThreadStep
  <2>1. CASE OnFinish
    BY <2>1 DEF OnFinish
  <2>2. CASE ThreadExits
    BY <2>2 DEF ThreadExits
  <2> QED  BY <1>1, <2>1, <2>2, HandlersForgetNobody DEF ThreadStep, Handler
<1>2. ASSUME NEW c \in Callers, CallStep(c) PROVE NoForgottenRequest'
  <2>1. CASE FinishInCaller(c)
    BY <2>1 DEF FinishInCaller, Tokens
  <2>2. CASE Joined(c)
    BY <2>2 DEF Joined
  <2> QED  BY <1>2, <2>1, <2>2 DEF CallStep
<1>3. ASSUME NEW r \in Requests, CompleteStep(r) PROVE NoForgottenRequest'
  BY <1>3 DEF CompleteStep, Complete, ResultsOf
<1>4. ASSUME NEW c \in Callers, NEW r \in Requests, Execute(c, r)
      PROVE  NoForgottenRequest'
  BY <1>4 DEF Execute, StartNext
<1>5. ASSUME NEW c \in Callers, NEW r \in Requests, Cancel(c, r)
      PROVE  NoForgottenRequest'
  BY <1>5 DEF Cancel, AfterCancel
<1>6. ASSUME NEW c \in Callers, Close(c) PROVE NoForgottenRequest'
  BY <1>6 DEF Close
<1>7. CASE Destroy
  BY <1>7 DEF Destroy
<1>8. CASE UNCHANGED vars
  BY <1>8 DEF vars
<1> QED  BY <1>1, <1>2, <1>3, <1>4, <1>5, <1>6, <1>7, <1>8 DEF Next

\* Every request that was executed and not answered is still in somebody's hands, so
\* that none is lost between two handlers, cancelled or not.
THEOREM NobodyForgotten == Spec => []NoForgottenRequest
<1>1. Init => NoForgottenRequest
  BY DEF Init, NoForgottenRequest
<1> QED  BY <1>1, Invariant, ForgetsNobody, PTL DEF Spec

\* The io_service stops only when nothing is left to do.
LEMMA StopsWhenIdle ==
  ASSUME IInv, [Next]_vars, ~stopped, stopped'
  PROVE  /\ finishing' = None /\ started' = started
         /\ \A r \in Requests : io'[r] = "none"
<1>1. ASSUME NEW r \in Requests, Handler(r) PROVE FALSE
  <2>1. Throws => UNCHANGED stopped
    BY DEF Throws, HandlerFrame
  <2> QED
    BY <1>1, <2>1, HandlerCases DEF Finishes, FinishWith, GoesOn, HandlerFrame
<1>2. CASE OnFinish
  BY <1>2 DEF OnFinish, StopIfIdle
<1>3. CASE ThreadExits
  BY <1>3 DEF ThreadExits
<1>4. ASSUME NEW c \in Callers, CallStep(c) PROVE FALSE
  BY <1>4 DEF CallStep, FinishInCaller, Joined
<1>5. ASSUME NEW c \in Callers, Close(c)
      PROVE  /\ finishing' = None /\ started' = started
             /\ \A r \in Requests : io'[r] = "none"
  BY <1>5 DEF Close, StopIfIdle
<1>6. ASSUME NEW c \in Callers, NEW r \in Requests, Execute(c, r) \/ Cancel(c, r)
      PROVE  FALSE
  BY <1>6 DEF Execute, Cancel
<1>7. ASSUME NEW r \in Requests, CompleteStep(r) PROVE FALSE
  BY <1>7 DEF CompleteStep, Complete
<1>8. CASE Destroy \/ UNCHANGED vars
  BY <1>8 DEF Destroy, vars
<1> QED
  BY <1>1, <1>2, <1>3, <1>4, <1>5, <1>6, <1>7, <1>8 DEF Next, ThreadStep, Handler

\* What close relies on when it gives up the work object.
Drained == ~stopped /\ stopped' => \A r \in Requests : started[r] > 0 => calls'[r] = 1

\* close drains the client: the io_service, whose thread close joins, does not stop
\* before every request that it got from execute has been answered.
THEOREM CloseDrains == Spec => [][Drained]_vars
<1>1. ASSUME IInv, IInv', NoForgottenRequest', [Next]_vars, ~stopped, stopped',
             NEW r \in Requests, started[r] > 0
      PROVE  calls'[r] = 1
  <2>1. finishing' = None /\ started'[r] > 0 /\ io'[r] = "none"
    BY <1>1, StopsWhenIdle
  <2>2. calls'[r] \in Nat /\ calls'[r] <= 1
    BY <1>1 DEF IInv, TypeOK, Tokens, CallbackOnce
  <2>3. ASSUME NEW c \in Callers, call'[c] = "finish" PROVE arg'[c] # r
    BY <1>1, <2>1, <2>3 DEF IInv, Tokens
  <2>4. calls'[r] # 0
    BY <1>1, <2>1, <2>3, NoneAssumption DEF NoForgottenRequest
  <2> QED  BY <2>2, <2>4
<1>2. IInv /\ IInv' /\ NoForgottenRequest' /\ [Next]_vars => [Drained]_vars
  BY <1>1 DEF Drained
<1> QED  BY <1>2, Invariant, NobodyForgotten, PTL DEF Spec
=============================================================================
