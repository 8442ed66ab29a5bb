----------------------- MODULE TcpClientAsyncProofs -----------------------
(***************************************************************************)
(* The safety properties of TcpClientAsync hold for any number of          *)
(* sessions, ids, callers and threads, and for any number of               *)
(* cancellations.                                                          *)
(*                                                                         *)
(* The invariant says who holds the token of a session, that is, who may   *)
(* take its next step: the caller that submits it, its operation in flight *)
(* or queued handler, or the one thread that runs a handler of it; nobody  *)
(* before it is submitted and after it is reported.                        *)
(***************************************************************************)
EXTENDS TcpClientAsync, TLAPS

\* A thread handles a session, which then has no operation in flight; no two
\* threads handle the same one.
ThreadTokens ==
  /\ \A t \in Threads : pc[t] \in Handling <=> cur[t] # None
  /\ \A t \in Threads : cur[t] # None =>
       /\ io[cur[t]] = "none"
       /\ calls[cur[t]] = 0
       /\ started[cur[t]] > 0
       /\ pc[t] \in {"check", "start"} => started[cur[t]] < Read
       /\ pc[t] \in {"erase", "report"} => m_sock[cur[t]] = "shutdown"
  /\ NoConcurrentHandlers

\* A caller that submits a session is the only one, and nothing was started.
CallerTokens ==
  /\ \A c \in Callers : call[c] \in {"submit", "cancel"} =>
       arg[c] \in Sessions /\ m_sock[arg[c]] # "unopened"
  /\ \A c \in Callers : call[c] = "submit" =>
       started[arg[c]] = 0 /\ m_sock[arg[c]] = "open"
  /\ \A c, d \in Callers :
       call[c] = "submit" /\ call[d] = "submit" /\ arg[c] = arg[d] => c = d

\* A session with an operation in flight was not reported; one with none
\* started neither.
SessionTokens ==
  \A s \in Sessions :
    /\ io[s] # "none" => started[s] > 0 /\ calls[s] = 0
    /\ started[s] = 0 => calls[s] = 0
    /\ started[s] > 0 => m_sock[s] # "unopened"
    /\ IF m_sock[s] = "unopened" THEN m_id[s] = None ELSE m_id[s] \in Ids
    /\ calls[s] <= 1

\* The map leads to sessions that are not yet being reported, and a caller
\* inside CancelRequest keeps the entry it found.
Registered ==
  /\ NoStaleEntry
  /\ \A id \in Ids, t \in Threads :
       m_active_sessions[id] = cur[t] /\ cur[t] # None => pc[t] # "report"
  /\ \A id \in Ids :
       m_active_sessions[id] # None => m_sock[m_active_sessions[id]] # "unopened"
  /\ \A c \in Callers : call[c] = "cancel" =>
       /\ m_active_sessions_guard = c
       /\ m_active_sessions[m_id[arg[c]]] = arg[c]
  /\ ActiveIsCancellable

\* What the error codes of a session say about its cancellation.
Errors ==
  /\ \A s \in Sessions :
       io[s] = "aborted" \/ m_ec[s] = "aborted" => m_was_cancelled[s]
  /\ \A t \in Threads : pc[t] \in {"erase", "report"} /\ m_ec[cur[t]] = "ok" =>
       m_response[cur[t]] \/ m_was_cancelled[cur[t]]
  /\ CancelledNeverOk
  /\ OutcomeIsEarned

\* A thread past the check goes on only with a session cancelled since.
Checked ==
  /\ \A t \in Threads : pc[t] = "start" /\ m_was_cancelled[cur[t]] =>
       started[cur[t]] <= startedAtCancel[cur[t]]
  /\ OneOperationAfterCancel

\* After Close all threads are gone.
Joining == closed => \A t \in Threads : pc[t] = "exited"

IInv ==
  /\ TypeOK
  /\ ThreadTokens
  /\ CallerTokens
  /\ SessionTokens
  /\ Registered
  /\ Errors
  /\ Checked
  /\ Joining

-----------------------------------------------------------------------------
USE DEF sessionVars, mapVars, threadVars, callerVars, contextVars

\* The handlers of async_connect and async_write up to their lock: the token of s
\* passes from its queued handler to thread t.
LEMMA OnConnectedOrWrittenKeeps ==
  ASSUME IInv, NEW t \in Threads, NEW s \in Sessions, NEW op \in {Connect, Write},
         OnConnectedOrWritten(t, s, op)
  PROVE  IInv'
<1> USE DEF IInv, OnConnectedOrWritten, Takes
<1>1. TypeOK'
  BY DEF TypeOK, FailHandler, Handling
<1>2. ThreadTokens'
  BY NoneAssumption DEF ThreadTokens, NoConcurrentHandlers, TypeOK,
     SessionTokens, FailHandler, Handling, Results, Connect, Write, Read
<1>3. CallerTokens'
  BY DEF CallerTokens, TypeOK, SessionTokens, FailHandler, Results
<1>4. SessionTokens'
  BY DEF SessionTokens, TypeOK, FailHandler, Results
<1>5. Registered'
  BY DEF Registered, NoStaleEntry, ActiveIsCancellable, TypeOK, FailHandler
<1>6. Errors'
  BY DEF Errors, CancelledNeverOk, OutcomeIsEarned, TypeOK, ThreadTokens,
     FailHandler
<1>7. Checked'
  BY DEF Checked, OneOperationAfterCancel, TypeOK, FailHandler
<1>8. Joining'
  BY DEF Joining
<1> QED  BY <1>1, <1>2, <1>3, <1>4, <1>5, <1>6, <1>7, <1>8

\* The handler of async_read_until: likewise.
LEMMA OnResponseReadKeeps ==
  ASSUME IInv, NEW t \in Threads, NEW s \in Sessions, OnResponseRead(t, s)
  PROVE  IInv'
<1> USE DEF IInv, OnResponseRead, Takes
<1>1. TypeOK'
  BY DEF TypeOK, FailHandler, Handling
<1>2. ThreadTokens'
  BY NoneAssumption DEF ThreadTokens, NoConcurrentHandlers, TypeOK,
     SessionTokens, FailHandler, Handling, Results
<1>3. CallerTokens'
  BY DEF CallerTokens, TypeOK, SessionTokens, FailHandler, Results
<1>4. SessionTokens'
  BY DEF SessionTokens, TypeOK, FailHandler, Results
<1>5. Registered'
  BY DEF Registered, NoStaleEntry, ActiveIsCancellable, TypeOK, FailHandler
<1>6. Errors'
  BY NoneAssumption DEF Errors, CancelledNeverOk, OutcomeIsEarned, TypeOK,
     ThreadTokens, FailHandler, Handling
<1>7. Checked'
  BY DEF Checked, OneOperationAfterCancel, TypeOK, FailHandler
<1>8. Joining'
  BY DEF Joining
<1> QED  BY <1>1, <1>2, <1>3, <1>4, <1>5, <1>6, <1>7, <1>8

\* The check of m_was_cancelled.
LEMMA CheckCancelledKeeps ==
  ASSUME IInv, NEW t \in Threads, CheckCancelled(t)
  PROVE  IInv'
<1> USE DEF IInv, CheckCancelled
<1>1. TypeOK'
  BY DEF TypeOK, Handling
<1>2. ThreadTokens'
  BY DEF ThreadTokens, NoConcurrentHandlers, TypeOK, Handling
<1>3. CallerTokens'
  BY DEF CallerTokens, TypeOK, ThreadTokens
<1>4. SessionTokens'
  BY DEF SessionTokens, TypeOK, ThreadTokens
<1>5. Registered'
  BY DEF Registered, NoStaleEntry, ActiveIsCancellable, TypeOK
<1>6. Errors'
  BY DEF Errors, CancelledNeverOk, OutcomeIsEarned, TypeOK
<1>7. Checked'
  BY DEF Checked, OneOperationAfterCancel, TypeOK
<1>8. Joining'
  BY DEF Joining
<1> QED  BY <1>1, <1>2, <1>3, <1>4, <1>5, <1>6, <1>7, <1>8

\* async_write and async_read_until: the token passes to the new operation.
LEMMA StartNextKeeps ==
  ASSUME IInv, NEW t \in Threads, StartNext(t)
  PROVE  IInv'
<1> USE DEF IInv, StartNext
<1>1. TypeOK'
  BY DEF TypeOK, ThreadTokens, Handling, Read
<1>2. ThreadTokens'
  BY DEF ThreadTokens, NoConcurrentHandlers, TypeOK, Handling
<1>3. CallerTokens'
  BY NoneAssumption DEF CallerTokens, ThreadTokens
<1>4. SessionTokens'
  BY DEF SessionTokens, TypeOK, ThreadTokens
<1>5. Checked'
  BY DEF Checked, OneOperationAfterCancel, TypeOK, ThreadTokens,
     NoConcurrentHandlers
<1>6. (Registered /\ Errors /\ Joining)'
  BY DEF Registered, Errors, Joining, NoStaleEntry, ActiveIsCancellable,
     CancelledNeverOk, OutcomeIsEarned
<1> QED  BY <1>1, <1>2, <1>3, <1>4, <1>5, <1>6

\* The locked half of OnRequestComplete: nobody is inside CancelRequest.
LEMMA EraseSessionKeeps ==
  ASSUME IInv, NEW t \in Threads, EraseSession(t)
  PROVE  IInv'
<1> USE DEF IInv, EraseSession
<1>1. TypeOK'
  BY DEF TypeOK, Erased, Handling
<1>2. ThreadTokens'
  BY DEF ThreadTokens, NoConcurrentHandlers, Handling
<1>3. Registered'
  BY NoneAssumption DEF Registered, NoStaleEntry, ActiveIsCancellable, TypeOK,
     ThreadTokens, Erased
<1>4. (CallerTokens /\ SessionTokens /\ Errors /\ Checked /\ Joining)'
  BY DEF CallerTokens, SessionTokens, Errors, Checked, Joining,
     CancelledNeverOk, OutcomeIsEarned, OneOperationAfterCancel
<1> QED  BY <1>1, <1>2, <1>3, <1>4

\* The other half: the session is reported and nobody has its token any more.
LEMMA ReportKeeps ==
  ASSUME IInv, NEW t \in Threads, Report(t)
  PROVE  IInv'
<1> USE DEF IInv, Report
<1>1. TypeOK'
  BY DEF TypeOK, ThreadTokens, FinalError, StopIfIdle, Results
<1>2. ThreadTokens'
  BY DEF ThreadTokens, NoConcurrentHandlers, TypeOK, Handling
<1>3. SessionTokens'
  BY NoneAssumption DEF SessionTokens, ThreadTokens
<1>4. Registered'
  BY NoneAssumption DEF Registered, NoStaleEntry, ActiveIsCancellable
<1>5. Errors'
  BY DEF Errors, CancelledNeverOk, OutcomeIsEarned, TypeOK, FinalError
<1>6. (CallerTokens /\ Checked /\ Joining)'
  BY DEF CallerTokens, Checked, Joining, OneOperationAfterCancel
<1> QED  BY <1>1, <1>2, <1>3, <1>4, <1>5, <1>6

\* run() returns.
LEMMA ThreadExitsKeeps ==
  ASSUME IInv, NEW t \in Threads, ThreadExits(t)
  PROVE  IInv'
<1> USE DEF IInv, ThreadExits
<1>1. ThreadTokens'
  BY DEF ThreadTokens, NoConcurrentHandlers, Handling
<1>2. (TypeOK /\ CallerTokens /\ SessionTokens /\ Registered /\
      Errors /\ Checked /\ Joining)'
  BY DEF TypeOK, CallerTokens, SessionTokens, Registered, Errors, Checked,
     Joining, NoStaleEntry, ActiveIsCancellable, CancelledNeverOk,
     OutcomeIsEarned, OneOperationAfterCancel, Handling
<1> QED  BY <1>1, <1>2

\* The token passes from the caller that submits the session to its connect.
LEMMA AsyncConnectKeeps ==
  ASSUME IInv, NEW c \in Callers, AsyncConnect(c)
  PROVE  IInv'
<1> USE DEF IInv, AsyncConnect
<1>1. TypeOK'
  BY DEF TypeOK, CallerTokens, Connect, Read
<1>2. ThreadTokens'
  BY DEF ThreadTokens, NoConcurrentHandlers, CallerTokens
<1>3. CallerTokens'
  BY DEF CallerTokens, TypeOK
<1>4. SessionTokens'
  BY DEF SessionTokens, TypeOK, CallerTokens, Connect
<1>5. Checked'
  BY DEF Checked, OneOperationAfterCancel, TypeOK, ThreadTokens, Connect
<1>6. (Registered /\ Errors /\ Joining)'
  BY DEF Registered, Errors, Joining, NoStaleEntry, ActiveIsCancellable,
     CancelledNeverOk, OutcomeIsEarned
<1> QED  BY <1>1, <1>2, <1>3, <1>4, <1>5, <1>6

\* The second half of CancelRequest: its session is still in the map, so it was
\* not reported.
LEMMA CancelSessionKeeps ==
  ASSUME IInv, NEW c \in Callers, CancelSession(c)
  PROVE  IInv'
<1> USE DEF IInv, CancelSession
<1>1. TypeOK'
  BY DEF TypeOK, CallerTokens, AfterSocketCancel, Results
<1>2. ThreadTokens'
  BY DEF ThreadTokens, NoConcurrentHandlers, AfterSocketCancel
<1>3. CallerTokens'
  BY DEF CallerTokens, TypeOK
<1>4. SessionTokens'
  BY DEF SessionTokens, AfterSocketCancel
<1>5. Registered'
  BY DEF Registered, NoStaleEntry, ActiveIsCancellable, TypeOK
<1>6. Errors'
  BY DEF Errors, CancelledNeverOk, OutcomeIsEarned, TypeOK, SessionTokens,
     Registered, NoStaleEntry
<1>7. Checked'
  BY DEF Checked, OneOperationAfterCancel, TypeOK
<1>8. Joining'
  BY DEF Joining
<1> QED  BY <1>1, <1>2, <1>3, <1>4, <1>5, <1>6, <1>7, <1>8

\* Close returns.
LEMMA JoinedKeeps ==
  ASSUME IInv, NEW c \in Callers, Joined(c)
  PROVE  IInv'
<1> USE DEF IInv, Joined
<1>1. (TypeOK /\ ThreadTokens /\ CallerTokens /\ SessionTokens /\
      Registered /\ Errors /\ Checked /\ Joining)'
  BY DEF TypeOK, ThreadTokens, CallerTokens, SessionTokens, Registered,
     Errors, Checked, Joining, NoConcurrentHandlers, NoStaleEntry,
     ActiveIsCancellable, CancelledNeverOk, OutcomeIsEarned,
     OneOperationAfterCancel
<1> QED  BY <1>1

\* A caller gets the token of a new session.
LEMMA EmulateLongComputationOpKeeps ==
  ASSUME IInv, NEW c \in Callers, NEW s \in Sessions, NEW id \in Ids,
         EmulateLongComputationOp(c, s, id)
  PROVE  IInv'
<1> USE DEF IInv, EmulateLongComputationOp
<1>1. CallerTokens'
  BY DEF CallerTokens, TypeOK, SessionTokens
<1>2. SessionTokens'
  BY DEF SessionTokens, TypeOK
<1>3. Registered'
  BY NoneAssumption DEF Registered, NoStaleEntry, ActiveIsCancellable, TypeOK,
     ThreadTokens, SessionTokens
<1>4. (TypeOK /\ ThreadTokens /\ Errors /\ Checked /\ Joining)'
  BY DEF TypeOK, ThreadTokens, Errors, Checked, Joining, NoConcurrentHandlers,
     CancelledNeverOk, OutcomeIsEarned, OneOperationAfterCancel
<1> QED  BY <1>1, <1>2, <1>3, <1>4

\* The first half of CancelRequest.
LEMMA CancelRequestKeeps ==
  ASSUME IInv, NEW c \in Callers, NEW id \in Ids, CancelRequest(c, id)
  PROVE  IInv'
<1> USE DEF IInv, CancelRequest
<1>1. TypeOK'
  BY CancelsAssumption DEF TypeOK
<1>2. CallerTokens'
  BY DEF CallerTokens, TypeOK, Registered
<1>3. Registered'
  BY NoneAssumption DEF Registered, NoStaleEntry, ActiveIsCancellable, TypeOK
<1>4. (ThreadTokens /\ SessionTokens /\ Errors /\ Checked /\ Joining)'
  BY DEF ThreadTokens, SessionTokens, Errors, Checked, Joining,
     NoConcurrentHandlers, CancelledNeverOk, OutcomeIsEarned,
     OneOperationAfterCancel
<1> QED  BY <1>1, <1>2, <1>3, <1>4

\* Close gives up the work object.
LEMMA CloseKeeps ==
  ASSUME IInv, NEW c \in Callers, Close(c)
  PROVE  IInv'
<1> USE DEF IInv, Close
<1>1. TypeOK'
  BY DEF TypeOK, StopIfIdle
<1>2. (ThreadTokens /\ CallerTokens /\ SessionTokens /\ Registered /\
      Errors /\ Checked /\ Joining)'
  BY DEF ThreadTokens, CallerTokens, SessionTokens, Registered, Errors,
     Checked, Joining, NoConcurrentHandlers, NoStaleEntry,
     ActiveIsCancellable, CancelledNeverOk, OutcomeIsEarned,
     OneOperationAfterCancel
<1> QED  BY <1>1, <1>2

\* The operating system completes an operation.
LEMMA CompleteKeeps ==
  ASSUME IInv, NEW s \in Sessions, NEW r \in {"ok", "failed"}, Complete(s, r)
  PROVE  IInv'
<1> USE DEF IInv, Complete
<1>1. TypeOK'
  BY DEF TypeOK, Results
<1>2. (ThreadTokens /\ CallerTokens /\ SessionTokens /\ Registered /\
      Errors /\ Checked /\ Joining)'
  BY DEF ThreadTokens, CallerTokens, SessionTokens, Registered, Errors,
     Checked, Joining, NoConcurrentHandlers, NoStaleEntry,
     ActiveIsCancellable, CancelledNeverOk, OutcomeIsEarned,
     OneOperationAfterCancel
<1> QED  BY <1>1, <1>2
-----------------------------------------------------------------------------
\* At the start nobody has a token.
LEMMA Initially == Init => IInv
<1> SUFFICES ASSUME Init PROVE IInv  OBVIOUS
<1> USE NoneAssumption DEF Init
<1>1. TypeOK
  <2>1. cancelCalls \in [Ids -> 0..MaxCancels]
    BY CancelsAssumption
  <2>2. started \in [Sessions -> 0..Read] /\ startedAtCancel \in [Sessions -> 0..Read]
    BY DEF Read
  <2>3. calls \in [Sessions -> Nat]
    OBVIOUS
  <2> QED  BY <2>1, <2>2, <2>3 DEF TypeOK, Results
<1>2. ThreadTokens /\ CallerTokens /\ SessionTokens
  BY DEF ThreadTokens, NoConcurrentHandlers, CallerTokens, SessionTokens,
     Handling
<1>3. Registered
  BY DEF Registered, NoStaleEntry, ActiveIsCancellable
<1>4. Errors /\ Checked /\ Joining
  BY DEF Errors, CancelledNeverOk, OutcomeIsEarned, Checked,
     OneOperationAfterCancel, Joining
<1> QED  BY <1>1, <1>2, <1>3, <1>4 DEF IInv

\* A step that changes no variable.
LEMMA StutterKeeps == ASSUME IInv, UNCHANGED vars PROVE IInv'
  BY DEF vars, IInv, TypeOK, ThreadTokens, NoConcurrentHandlers, CallerTokens,
     SessionTokens, Registered, NoStaleEntry, ActiveIsCancellable, Errors,
     CancelledNeverOk, OutcomeIsEarned, Checked, OneOperationAfterCancel, Joining

\* Every step keeps the invariant.
LEMMA Inductive == ASSUME IInv, [Next]_vars PROVE IInv'
<1>1. ASSUME NEW t \in Threads, ThreadStep(t) PROVE IInv'
  BY <1>1, OnConnectedOrWrittenKeeps, OnResponseReadKeeps, CheckCancelledKeeps,
     StartNextKeeps, EraseSessionKeeps, ReportKeeps, ThreadExitsKeeps
     DEF ThreadStep
<1>2. ASSUME NEW c \in Callers, CallStep(c) PROVE IInv'
  BY <1>2, AsyncConnectKeeps, CancelSessionKeeps, JoinedKeeps DEF CallStep
<1>3. ASSUME NEW c \in Callers, NEW s \in Sessions, NEW id \in Ids,
             EmulateLongComputationOp(c, s, id)
      PROVE  IInv'
  BY <1>3, EmulateLongComputationOpKeeps
<1>4. ASSUME NEW c \in Callers, NEW id \in Ids, CancelRequest(c, id) PROVE IInv'
  BY <1>4, CancelRequestKeeps
<1>5. ASSUME NEW c \in Callers, Close(c) PROVE IInv'
  BY <1>5, CloseKeeps
<1>6. ASSUME NEW s \in Sessions, NEW r \in {"ok", "failed"}, Complete(s, r)
      PROVE  IInv'
  BY <1>6, CompleteKeeps
<1>7. CASE Stopped \/ UNCHANGED vars
  BY <1>7, StutterKeeps DEF Stopped
<1> QED  BY <1>1, <1>2, <1>3, <1>4, <1>5, <1>6, <1>7 DEF Next

\* IInv is an invariant of the client.
THEOREM Invariant == Spec => []IInv
<1>1. IInv /\ [Next]_vars => IInv'
  BY Inductive
<1> QED  BY Initially, <1>1, PTL DEF Spec

\* The variables of the client keep their types.
THEOREM TypeCorrect == Spec => []TypeOK
<1>1. IInv => TypeOK  BY DEF IInv
<1> QED  BY Invariant, <1>1, PTL

\* No two pool threads run handlers of one session at the same time.
THEOREM HandlersExclusive == Spec => []NoConcurrentHandlers
<1>1. IInv => NoConcurrentHandlers  BY DEF IInv, ThreadTokens
<1> QED  BY Invariant, <1>1, PTL

\* The callback of a session runs at most once.
THEOREM AnsweredOnce == Spec => []CallbackOnce
<1>1. IInv => CallbackOnce  BY DEF IInv, SessionTokens, CallbackOnce
<1> QED  BY Invariant, <1>1, PTL

\* A session that was cancelled before its callback ran is not reported as
\* successful.
THEOREM CancellationWins == Spec => []CancelledNeverOk
<1>1. IInv => CancelledNeverOk  BY DEF IInv, Errors
<1> QED  BY Invariant, <1>1, PTL

\* Success means a response was read, operation_aborted that it was asked for.
THEOREM OutcomesEarned == Spec => []OutcomeIsEarned
<1>1. IInv => OutcomeIsEarned  BY DEF IInv, Errors
<1> QED  BY Invariant, <1>1, PTL

\* m_active_sessions leads to unfinished sessions under their own ids only.
THEOREM MapFresh == Spec => []NoStaleEntry
<1>1. IInv => NoStaleEntry  BY DEF IInv, Registered
<1> QED  BY Invariant, <1>1, PTL

\* A session with an id of its own is in the map until its completion begins.
THEOREM MapComplete == Spec => []ActiveIsCancellable
<1>1. IInv => ActiveIsCancellable  BY DEF IInv, Registered
<1> QED  BY Invariant, <1>1, PTL

\* A cancelled session starts at most one more operation.
THEOREM CancelStops == Spec => []OneOperationAfterCancel
<1>1. IInv => OneOperationAfterCancel  BY DEF IInv, Checked
<1> QED  BY Invariant, <1>1, PTL

-----------------------------------------------------------------------------
\* Only Report, in a thread that has not exited, calls a callback.
LEMMA OnlyReportCalls ==
  ASSUME IInv, [Next]_vars, calls' # calls
  PROVE  \E t \in Threads : Report(t)
<1>1. ASSUME NEW t \in Threads, ThreadStep(t), ~Report(t) PROVE FALSE
  BY <1>1 DEF ThreadStep, OnConnectedOrWritten, OnResponseRead, CheckCancelled,
     StartNext, EraseSession, ThreadExits
<1>2. ASSUME NEW c \in Callers, CallStep(c) PROVE FALSE
  BY <1>2 DEF CallStep, AsyncConnect, CancelSession, Joined
<1>3. ASSUME NEW c \in Callers, NEW s \in Sessions, NEW id \in Ids,
             EmulateLongComputationOp(c, s, id)
      PROVE  FALSE
  BY <1>3 DEF EmulateLongComputationOp
<1>4. ASSUME NEW c \in Callers, NEW id \in Ids, CancelRequest(c, id) PROVE FALSE
  BY <1>4 DEF CancelRequest
<1>5. ASSUME NEW c \in Callers, Close(c) PROVE FALSE
  BY <1>5 DEF Close
<1>6. ASSUME NEW s \in Sessions, NEW r \in {"ok", "failed"}, Complete(s, r)
      PROVE  FALSE
  BY <1>6 DEF Complete
<1>7. CASE Stopped \/ UNCHANGED vars
  BY <1>7 DEF Stopped, vars
<1> QED  BY <1>1, <1>2, <1>3, <1>4, <1>5, <1>6, <1>7 DEF Next

\* Once Close has returned, no callback runs.
THEOREM CloseSilences == Spec => SilentAfterClose
<1>1. ASSUME IInv, [Next]_vars, closed PROVE calls' = calls
  <2>1. ASSUME NEW t \in Threads, Report(t) PROVE FALSE
    BY <1>1, <2>1 DEF IInv, Joining, Report
  <2> QED  BY <1>1, <2>1, OnlyReportCalls
<1>2. IInv /\ [Next]_vars => [closed => calls' = calls]_vars
  BY <1>1
<1> QED  BY Invariant, <1>2, PTL DEF Spec, SilentAfterClose

NobodyAnswered == \A s \in Sessions : calls[s] = 0

\* hardware_concurrency is cut to eight bits: with 256 hardware threads, or if their
\* number is unknown, a client of the default size has no thread and calls nobody back.
THEOREM EmptyPoolAnswersNobody ==
  ASSUME NumberOfThread = 0, HardwareConcurrency \in {0, 256}
  PROVE  Spec => []NobodyAnswered
<1>1. Threads = {}
  <2>1. 0 % 256 = 0 /\ 256 % 256 = 0
    OBVIOUS
  <2>2. PoolSize = 0
    BY <2>1 DEF PoolSize
  <2> QED  BY <2>2 DEF Threads
<1>2. Init => NobodyAnswered
  <2> SUFFICES ASSUME Init, NEW s \in Sessions PROVE calls[s] = 0
    BY DEF NobodyAnswered
  <2> QED  BY DEF Init
<1>3. IInv /\ NobodyAnswered /\ [Next]_vars => NobodyAnswered'
  BY <1>1, OnlyReportCalls DEF NobodyAnswered
<1> QED  BY <1>2, <1>3, Invariant, PTL DEF Spec

-----------------------------------------------------------------------------
(* The client implements AsyncRequests: EmulateLongComputationOp submits a *)
(* session, CancelSession cancels it, Report completes it, and every other *)
(* step changes nothing the abstract specification sees.                   *)

\* status stays the same when no callback is called and no session submitted.
LEMMA SameStatus ==
  ASSUME calls' = calls,
         \A s \in Sessions : m_sock'[s] = "unopened" <=> m_sock[s] = "unopened",
         m_was_cancelled' = m_was_cancelled, outcome' = outcome
  PROVE  UNCHANGED Promise!absVars
  BY DEF Promise!absVars, Status

\* The steps of the pool threads before the report.
LEMMA HandlersStutter ==
  ASSUME IInv, NEW t \in Threads, ThreadStep(t), ~Report(t)
  PROVE  UNCHANGED Promise!absVars
<1>1. /\ calls' = calls
      /\ m_was_cancelled' = m_was_cancelled
      /\ outcome' = outcome
  BY DEF ThreadStep, OnConnectedOrWritten, OnResponseRead, CheckCancelled,
     StartNext, EraseSession, ThreadExits
<1>2. \A s \in Sessions : m_sock'[s] = "unopened" <=> m_sock[s] = "unopened"
  <2>1. CASE m_sock' = m_sock
    BY <2>1
  <2>2. ASSUME NEW s \in Sessions, started[s] > 0,
               m_sock' = [m_sock EXCEPT ![s] = "shutdown"]
        PROVE  m_sock[s] # "unopened"
    BY <2>2 DEF IInv, SessionTokens
  <2>3. m_sock' = m_sock \/ \E s \in Sessions :
          started[s] > 0 /\ m_sock' = [m_sock EXCEPT ![s] = "shutdown"]
    BY NoneAssumption DEF IInv, ThreadTokens, TypeOK, ThreadStep,
       OnConnectedOrWritten, OnResponseRead, CheckCancelled, StartNext,
       EraseSession, ThreadExits, Takes, FailHandler, Connect, Write, Read,
       Handling
  <2> QED  BY <2>1, <2>2, <2>3 DEF IInv, TypeOK
<1> QED  BY <1>1, <1>2, SameStatus

\* Report completes its session with an error code that the promise allows.
LEMMA ReportCompletes ==
  ASSUME IInv, NEW t \in Threads, Report(t)
  PROVE  Promise!Complete(cur[t], FinalError(cur[t]))
<1>1. PICK s \in Sessions : s = cur[t] /\ calls[s] = 0 /\ m_sock[s] = "shutdown"
  BY NoneAssumption DEF IInv, TypeOK, ThreadTokens, Report, Handling
<1>2. /\ m_was_cancelled[s] => FinalError(s) # "ok"
      /\ FinalError(s) = "aborted" => m_was_cancelled[s]
  BY <1>1 DEF IInv, Errors, FinalError, Report
<1>3. /\ calls' = [calls EXCEPT ![s] = 1]
      /\ outcome' = [outcome EXCEPT ![s] = FinalError(s)]
      /\ m_sock' = m_sock
      /\ m_was_cancelled' = m_was_cancelled
  BY <1>1 DEF Report
<1>4. ASSUME NEW r \in Sessions
      PROVE  Status(r)' = IF r = s THEN "done" ELSE Status(r)
  BY <1>1, <1>3 DEF IInv, TypeOK, Status
<1>5. Status(s) = "active"
  BY <1>1 DEF Status
<1> QED  BY <1>1, <1>2, <1>3, <1>4, <1>5 DEF Promise!Complete

\* EmulateLongComputationOp submits its session.
LEMMA SubmissionSubmits ==
  ASSUME IInv, NEW c \in Callers, NEW s \in Sessions, NEW id \in Ids,
         EmulateLongComputationOp(c, s, id)
  PROVE  Promise!Submit(s)
<1> USE DEF IInv, TypeOK, EmulateLongComputationOp
<1>1. calls[s] = 0
  BY DEF SessionTokens
<1>2. ASSUME NEW r \in Sessions
      PROVE  Status(r)' = IF r = s THEN "active" ELSE Status(r)
  BY <1>1 DEF Status
<1>3. Status(s) = "idle"
  BY <1>1 DEF Status
<1> QED  BY <1>2, <1>3 DEF Promise!Submit

\* Every step of the client is a step of the promise or changes nothing of it.
LEMMA StepRefines ==
  ASSUME IInv, [Next]_vars
  PROVE  [Promise!AbsNext]_(Promise!absVars)
<1>1. ASSUME NEW t \in Threads, ThreadStep(t), ~Report(t)
      PROVE  UNCHANGED Promise!absVars
  BY <1>1, HandlersStutter
<1>2. ASSUME NEW t \in Threads, Report(t) PROVE Promise!AbsNext
  <2>1. /\ cur[t] \in Sessions
        /\ FinalError(cur[t]) \in Promise!Outcomes
    BY <1>2, NoneAssumption DEF IInv, TypeOK, ThreadTokens, Report, Handling,
       FinalError, Results, Promise!Outcomes
  <2>2. Promise!Complete(cur[t], FinalError(cur[t]))
    BY <1>2, ReportCompletes
  <2> QED  BY <2>1, <2>2 DEF Promise!AbsNext
<1>3. ASSUME NEW c \in Callers, CancelSession(c) PROVE Promise!AbsNext
  <2>1. arg[c] \in Sessions
    BY <1>3 DEF IInv, CallerTokens, CancelSession
  <2>2. Promise!Cancel(arg[c])
    BY <1>3 DEF CancelSession, Status, Promise!Cancel
  <2> QED  BY <2>1, <2>2 DEF Promise!AbsNext
<1>4. ASSUME NEW c \in Callers, AsyncConnect(c) \/ Joined(c) \/ Close(c)
      PROVE  UNCHANGED Promise!absVars
  BY <1>4, SameStatus DEF AsyncConnect, Joined, Close
<1>5. ASSUME NEW c \in Callers, NEW s \in Sessions, NEW id \in Ids,
             EmulateLongComputationOp(c, s, id)
      PROVE  Promise!AbsNext
  BY <1>5, SubmissionSubmits DEF Promise!AbsNext
<1>6. ASSUME NEW c \in Callers, NEW id \in Ids, CancelRequest(c, id)
      PROVE  UNCHANGED Promise!absVars
  BY <1>6, SameStatus DEF CancelRequest
<1>7. ASSUME NEW s \in Sessions, NEW r \in {"ok", "failed"}, Complete(s, r)
      PROVE  UNCHANGED Promise!absVars
  BY <1>7, SameStatus DEF Complete
<1>8. CASE Stopped \/ UNCHANGED vars
  BY <1>8, SameStatus DEF Stopped, vars
<1> QED
  BY <1>1, <1>2, <1>3, <1>4, <1>5, <1>6, <1>7, <1>8 DEF Next, CallStep

\* The client implements the promise that cancellation wins.
THEOREM Refinement == Spec => ImplementsAsyncRequests
<1>1. Init => Promise!AbsInit
  BY DEF Init, Status, Promise!AbsInit
<1>2. IInv /\ [Next]_vars => [Promise!AbsNext]_(Promise!absVars)
  BY StepRefines
<1> QED
  BY Invariant, <1>1, <1>2, PTL DEF Spec, ImplementsAsyncRequests, Promise!AbsSpec

-----------------------------------------------------------------------------
(* LockCycle: when the two kinds of mutex are taken in both orders.        *)

\* Caller c and thread t wait for each other, one with the map's lock, the
\* other with that of the session that c cancels: a LockCycle of theirs.
Locked(c, t) ==
  /\ call[c] = "cancel"
  /\ pc[t] = "erase"
  /\ m_cancel_guard[arg[c]] = t

\* Every recorded cancellation was a call of CancelRequest, and a caller that
\* is about to cancel a cancelled session is in the second call at least.  Only
\* the completion of a cancelled session keeps m_cancel_guard.
Cancellations ==
  /\ \A s \in Sessions : m_was_cancelled[s] =>
       m_id[s] \in Ids /\ cancelCalls[m_id[s]] >= 1
  /\ \A c \in Callers : call[c] = "cancel" =>
       /\ m_id[arg[c]] \in Ids
       /\ cancelCalls[m_id[arg[c]]] >= 1
       /\ m_was_cancelled[arg[c]] => cancelCalls[m_id[arg[c]]] >= 2
  /\ \A s \in Sessions, t \in Threads : m_cancel_guard[s] = t =>
       m_was_cancelled[s] /\ cur[t] = s /\ pc[t] \in {"erase", "report"}

LInv == IInv /\ Cancellations

\* The steps that touch nothing Cancellations speaks of but what threads do
\* before they hold a guard.
LEMMA ThreadsKeepCancellations ==
  ASSUME LInv, NEW t \in Threads, ThreadStep(t)
  PROVE  Cancellations'
<1> USE NoneAssumption DEF LInv, IInv, TypeOK, Cancellations
<1>1. /\ m_id' = m_id /\ m_was_cancelled' = m_was_cancelled
      /\ cancelCalls' = cancelCalls /\ call' = call /\ arg' = arg
  BY DEF ThreadStep, OnConnectedOrWritten, OnResponseRead, CheckCancelled,
     StartNext, EraseSession, Report, ThreadExits, Takes
<1>2. ASSUME NEW s \in Sessions, NEW u \in Threads, m_cancel_guard'[s] = u
      PROVE  m_was_cancelled[s] /\ cur'[u] = s /\ pc'[u] \in {"erase", "report"}
  <2>1. CASE m_cancel_guard' = m_cancel_guard /\ pc[t] \notin {"erase", "report"}
    BY <1>2, <2>1 DEF ThreadStep, OnConnectedOrWritten, OnResponseRead,
       CheckCancelled, StartNext, EraseSession, Report, ThreadExits, Takes,
       FailHandler
  <2>2. CASE EraseSession(t)
    BY <1>2, <2>2 DEF EraseSession
  <2>3. CASE Report(t)
    BY <1>2, <2>3 DEF Report
  <2>4. CASE CheckCancelled(t)
    BY <1>2, <2>4 DEF CheckCancelled
  <2> QED
    BY <2>1, <2>2, <2>3, <2>4 DEF ThreadStep, OnConnectedOrWritten,
       OnResponseRead, StartNext, ThreadExits, Takes
<1> QED  BY <1>1, <1>2

\* The first half of CancelRequest counts the call; an entry that is cancelled
\* already was found by an earlier one.
LEMMA CancelRequestKeepsCancellations ==
  ASSUME LInv, NEW c \in Callers, NEW id \in Ids, CancelRequest(c, id)
  PROVE  Cancellations'
<1> USE NoneAssumption DEF LInv, IInv, TypeOK, Cancellations, CancelRequest
<1>1. /\ \A i \in Ids : cancelCalls[i] \in Nat
      /\ \A i \in Ids : cancelCalls'[i] = cancelCalls[i] + IF i = id THEN 1 ELSE 0
  BY CancelsAssumption
<1>2. ASSUME NEW s \in Sessions, m_was_cancelled[s]
      PROVE  m_id[s] \in Ids /\ cancelCalls'[m_id[s]] >= 1
  BY <1>1, <1>2
<1>3. ASSUME NEW d \in Callers, call'[d] = "cancel", call[d] = "cancel"
      PROVE  /\ m_id[arg'[d]] \in Ids
             /\ cancelCalls'[m_id[arg'[d]]] >= 1
             /\ m_was_cancelled[arg'[d]] => cancelCalls'[m_id[arg'[d]]] >= 2
  <2>1. arg'[d] = arg[d]
    BY <1>3
  <2> QED  BY <1>1, <1>3, <2>1
<1>4. ASSUME NEW d \in Callers, call'[d] = "cancel", call[d] # "cancel"
      PROVE  /\ m_id[arg'[d]] \in Ids
             /\ cancelCalls'[m_id[arg'[d]]] >= 1
             /\ m_was_cancelled[arg'[d]] => cancelCalls'[m_id[arg'[d]]] >= 2
  <2>1. PICK s \in Sessions : s = m_active_sessions[id] /\ arg'[d] = s /\ m_id[s] = id
    BY <1>4 DEF Registered, NoStaleEntry
  <2>2. m_was_cancelled[s] => cancelCalls[id] >= 1
    BY <2>1
  <2> QED  BY <1>1, <2>1, <2>2
<1> QED  BY <1>2, <1>3, <1>4

\* The second half cancels the session of its own call only, as nobody else
\* is inside CancelRequest.
LEMMA CancelSessionKeepsCancellations ==
  ASSUME LInv, NEW c \in Callers, CancelSession(c)
  PROVE  Cancellations'
<1> USE NoneAssumption DEF LInv, IInv, TypeOK, Cancellations, CancelSession
<1>1. \A d \in Callers : call[d] = "cancel" => d = c
  BY DEF Registered
<1>2. arg[c] \in Sessions
  BY DEF CallerTokens
<1> QED  BY <1>1, <1>2

\* A new session was not cancelled and nobody cancels it.
LEMMA SubmissionKeepsCancellations ==
  ASSUME LInv, NEW c \in Callers, NEW s \in Sessions, NEW id \in Ids,
         EmulateLongComputationOp(c, s, id)
  PROVE  Cancellations'
<1> USE NoneAssumption DEF LInv, IInv, TypeOK, Cancellations
<1>1. ~m_was_cancelled[s]
  BY DEF SessionTokens, EmulateLongComputationOp
<1>2. \A d \in Callers : call[d] = "cancel" => arg[d] # s
  BY DEF CallerTokens, EmulateLongComputationOp
<1> QED  BY <1>1, <1>2 DEF EmulateLongComputationOp

\* Every step keeps the account of cancellations.
LEMMA CancellationsInductive == ASSUME LInv, [Next]_vars PROVE Cancellations'
<1>1. ASSUME NEW t \in Threads, ThreadStep(t) PROVE Cancellations'
  BY <1>1, ThreadsKeepCancellations
<1>2. ASSUME NEW c \in Callers, CallStep(c) PROVE Cancellations'
  <2>1. ASSUME AsyncConnect(c) \/ Joined(c) PROVE Cancellations'
    BY <2>1 DEF LInv, IInv, TypeOK, Cancellations, AsyncConnect, Joined
  <2> QED  BY <1>2, <2>1, CancelSessionKeepsCancellations DEF CallStep
<1>3. ASSUME NEW c \in Callers, NEW s \in Sessions, NEW id \in Ids,
             EmulateLongComputationOp(c, s, id)
      PROVE  Cancellations'
  BY <1>3, SubmissionKeepsCancellations
<1>4. ASSUME NEW c \in Callers, NEW id \in Ids, CancelRequest(c, id)
      PROVE  Cancellations'
  BY <1>4, CancelRequestKeepsCancellations
<1>5. ASSUME NEW c \in Callers, Close(c) PROVE Cancellations'
  BY <1>5 DEF LInv, IInv, TypeOK, Cancellations, Close
<1>6. ASSUME NEW s \in Sessions, NEW r \in {"ok", "failed"}, Complete(s, r)
      PROVE  Cancellations'
  BY <1>6 DEF LInv, Cancellations, Complete
<1>7. CASE Stopped \/ UNCHANGED vars
  BY <1>7 DEF LInv, Cancellations, Stopped, vars
<1> QED  BY <1>1, <1>2, <1>3, <1>4, <1>5, <1>6, <1>7 DEF Next

\* LInv is an invariant of the client.
LEMMA LInvariant == Spec => []LInv
<1>1. Init => Cancellations
  BY NoneAssumption DEF Init, Cancellations
<1>2. LInv /\ [Next]_vars => LInv'
  BY Inductive, CancellationsInductive DEF LInv
<1> QED  BY Initially, <1>1, <1>2, PTL DEF Spec, LInv

\* What a caller and a thread that wait for each other have in common: the
\* session was cancelled, its id by two calls of CancelRequest at least, it was
\* not answered, and Close has not returned.
CancelledTwice ==
  \A c \in Callers, t \in Threads : Locked(c, t) =>
    /\ m_was_cancelled[arg[c]]
    /\ cancelCalls[m_id[arg[c]]] >= 2
    /\ calls[arg[c]] = 0
    /\ ~closed

\* Without a second CancelRequest for one id the two orders in which
\* CancelRequest and OnRequestComplete take their locks never meet.
THEOREM LockCycleNeedsTwoCancels == Spec => []CancelledTwice
<1>1. LInv => CancelledTwice
  <2> SUFFICES ASSUME LInv, NEW c \in Callers, NEW t \in Threads, Locked(c, t)
               PROVE  /\ m_was_cancelled[arg[c]]
                      /\ cancelCalls[m_id[arg[c]]] >= 2
                      /\ calls[arg[c]] = 0
                      /\ ~closed
    BY DEF CancelledTwice
  <2>1. arg[c] \in Sessions
    BY DEF LInv, IInv, CallerTokens, Locked
  <2>2. m_was_cancelled[arg[c]] /\ cur[t] = arg[c]
    BY <2>1 DEF LInv, Cancellations, Locked
  <2>3. cancelCalls[m_id[arg[c]]] >= 2
    BY <2>2 DEF LInv, Cancellations, Locked
  <2>4. calls[arg[c]] = 0
    BY <2>1, <2>2, NoneAssumption DEF LInv, IInv, ThreadTokens
  <2>5. ~closed
    BY DEF LInv, IInv, Joining, Locked
  <2> QED  BY <2>2, <2>3, <2>4, <2>5
<1> QED  BY LInvariant, <1>1, PTL

\* Callers that cancel no id twice never bring the client into a LockCycle: the
\* condition under which tcp_client_liveness checks that requests are answered.
THEOREM NoLockCycle == ASSUME MaxCancels <= 1 PROVE Spec => []~LockCycle
<1>1. ASSUME LInv PROVE ~LockCycle
  <2> SUFFICES ASSUME NEW c \in Callers, NEW t \in Threads, Locked(c, t)
               PROVE  FALSE
    BY DEF LockCycle, Locked
  <2>1. m_was_cancelled[arg[c]]
    BY <1>1 DEF LInv, IInv, CallerTokens, Cancellations, Locked
  <2>2. m_id[arg[c]] \in Ids /\ cancelCalls[m_id[arg[c]]] >= 2
    BY <1>1, <2>1 DEF LInv, Cancellations, Locked
  <2>3. cancelCalls[m_id[arg[c]]] \in 0..MaxCancels
    BY <1>1, <2>2 DEF LInv, IInv, TypeOK
  <2> QED  BY <2>2, <2>3, CancelsAssumption
<1> QED  BY LInvariant, <1>1, PTL

\* Whoever waits for each other waits for ever: the caller holds the map's lock,
\* so that the thread cannot erase the session and nobody else submits, cancels
\* or completes one; the thread holds m_cancel_guard until it has erased it.
StaysLocked ==
  \A c \in Callers, t \in Threads : Locked(c, t) =>
    Locked(c, t)' /\ UNCHANGED <<m_active_sessions, m_was_cancelled>>

\* A LockCycle never ends, and while it lasts no request enters or leaves the
\* map and none is cancelled.
THEOREM LockCycleIsForEver == Spec => [][StaysLocked]_vars
<1>1. ASSUME LInv, [Next]_vars, NEW c \in Callers, NEW t \in Threads, Locked(c, t)
      PROVE  Locked(c, t)' /\ UNCHANGED <<m_active_sessions, m_was_cancelled>>
  <2> USE <1>1, NoneAssumption DEF Locked
  <2>1. arg[c] \in Sessions /\ m_active_sessions_guard = c
    BY DEF LInv, IInv, CallerTokens, Registered
  <2>2. ASSUME NEW u \in Threads, ThreadStep(u)
        PROVE  Locked(c, t)' /\ UNCHANGED <<m_active_sessions, m_was_cancelled>>
    BY <2>1, <2>2 DEF LInv, IInv, TypeOK, Cancellations, ThreadStep,
       OnConnectedOrWritten, OnResponseRead, CheckCancelled, StartNext,
       EraseSession, Report, ThreadExits, Takes, FailHandler
  <2>3. ASSUME NEW d \in Callers, CallStep(d)
        PROVE  Locked(c, t)' /\ UNCHANGED <<m_active_sessions, m_was_cancelled>>
    BY <2>1, <2>3 DEF LInv, IInv, TypeOK, Registered, CallStep, AsyncConnect,
       CancelSession, Joined
  <2>4. ASSUME NEW d \in Callers, NEW s \in Sessions, NEW id \in Ids,
               EmulateLongComputationOp(d, s, id)
        PROVE  FALSE
    BY <2>1, <2>4 DEF EmulateLongComputationOp
  <2>5. ASSUME NEW d \in Callers, NEW id \in Ids, CancelRequest(d, id) PROVE FALSE
    BY <2>1, <2>5 DEF CancelRequest
  <2>6. ASSUME NEW d \in Callers, Close(d)
        PROVE  Locked(c, t)' /\ UNCHANGED <<m_active_sessions, m_was_cancelled>>
    BY <2>6 DEF LInv, IInv, TypeOK, Close
  <2>7. ASSUME NEW s \in Sessions, NEW r \in {"ok", "failed"}, Complete(s, r)
        PROVE  Locked(c, t)' /\ UNCHANGED <<m_active_sessions, m_was_cancelled>>
    BY <2>7 DEF Complete
  <2>8. CASE Stopped \/ UNCHANGED vars
    BY <2>8 DEF Stopped, vars
  <2> QED  BY <2>2, <2>3, <2>4, <2>5, <2>6, <2>7, <2>8 DEF Next
<1>2. LInv /\ [Next]_vars => [StaysLocked]_vars
  BY <1>1 DEF StaysLocked
<1> QED  BY LInvariant, <1>2, PTL DEF Spec

-----------------------------------------------------------------------------
(* Nobody is forgotten: the safety half of SubmittedIsReported.            *)

\* A request that is not answered is in somebody's hands: the operating
\* system's or the io_context's, a pool thread's, or its submitter's.
NoForgottenSession ==
  \A s \in Sessions : m_sock[s] # "unopened" /\ calls[s] = 0 =>
    \/ io[s] # "none"
    \/ \E t \in Threads : cur[t] = s
    \/ \E c \in Callers : call[c] = "submit" /\ arg[c] = s

\* A thread passes its session on, to the next operation or to the callback.
LEMMA ThreadsForgetNobody ==
  ASSUME IInv, NoForgottenSession, NEW t \in Threads, ThreadStep(t)
  PROVE  NoForgottenSession'
<1> USE NoneAssumption DEF IInv, TypeOK, NoForgottenSession
<1>1. UNCHANGED callerVars
  BY DEF ThreadStep, OnConnectedOrWritten, OnResponseRead, CheckCancelled,
     StartNext, EraseSession, Report, ThreadExits
<1>2. ASSUME NEW s \in Sessions, NEW op \in {Connect, Write, Read}, Takes(t, s, op),
             \/ OnConnectedOrWritten(t, s, op)
             \/ OnResponseRead(t, s)
      PROVE  NoForgottenSession'
  <2>1. cur[t] = None /\ m_sock[s] # "unopened"
    BY <1>2 DEF Takes, ThreadTokens, SessionTokens, Handling, Results
  <2>2. /\ io' = [io EXCEPT ![s] = "none"] /\ cur' = [cur EXCEPT ![t] = s]
        /\ calls' = calls
        /\ m_sock' = m_sock \/ m_sock' = [m_sock EXCEPT ![s] = "shutdown"]
    BY <1>2 DEF Takes, OnConnectedOrWritten, OnResponseRead, FailHandler
  <2> QED  BY <1>1, <2>1, <2>2
<1>3. CASE CheckCancelled(t)
  <2>1. /\ io' = io /\ cur' = cur /\ calls' = calls
        /\ m_sock' = m_sock \/ m_sock' = [m_sock EXCEPT ![cur[t]] = "shutdown"]
    BY <1>3 DEF CheckCancelled
  <2> QED  BY <1>1, <2>1
<1>4. CASE StartNext(t)
  BY <1>1, <1>4 DEF StartNext
<1>5. CASE EraseSession(t)
  BY <1>1, <1>5 DEF EraseSession
<1>6. CASE Report(t)
  BY <1>1, <1>6 DEF Report
<1>7. CASE ThreadExits(t)
  BY <1>1, <1>7 DEF ThreadExits
<1> QED
  BY <1>2, <1>3, <1>4, <1>5, <1>6, <1>7
     DEF ThreadStep, OnConnectedOrWritten, OnResponseRead

\* So do the callers.
LEMMA CallersForgetNobody ==
  ASSUME IInv, NoForgottenSession, NEW c \in Callers,
         \/ CallStep(c) \/ Close(c)
         \/ \E s \in Sessions, id \in Ids : EmulateLongComputationOp(c, s, id)
         \/ \E id \in Ids : CancelRequest(c, id)
  PROVE  NoForgottenSession'
<1> USE NoneAssumption DEF IInv, TypeOK, NoForgottenSession
<1>1. CASE AsyncConnect(c)
  BY <1>1 DEF AsyncConnect
<1>2. CASE CancelSession(c)
  BY <1>2 DEF CancelSession, AfterSocketCancel
<1>3. CASE Joined(c)
  BY <1>3 DEF Joined
<1>4. CASE Close(c)
  BY <1>4 DEF Close
<1>5. ASSUME NEW s \in Sessions, NEW id \in Ids, EmulateLongComputationOp(c, s, id)
      PROVE  NoForgottenSession'
  BY <1>5 DEF EmulateLongComputationOp
<1>6. ASSUME NEW id \in Ids, CancelRequest(c, id) PROVE NoForgottenSession'
  BY <1>6 DEF CancelRequest
<1> QED  BY <1>1, <1>2, <1>3, <1>4, <1>5, <1>6 DEF CallStep

\* The invariant with this part is inductive.
LEMMA ForgetsNobody ==
  ASSUME IInv, NoForgottenSession, [Next]_vars
  PROVE  NoForgottenSession'
<1>1. ASSUME NEW s \in Sessions, NEW r \in {"ok", "failed"}, Complete(s, r)
      PROVE  NoForgottenSession'
  BY <1>1 DEF IInv, TypeOK, NoForgottenSession, Complete
<1>2. CASE Stopped \/ UNCHANGED vars
  BY <1>2 DEF Stopped, vars, NoForgottenSession
<1> QED  BY <1>1, <1>2, ThreadsForgetNobody, CallersForgetNobody DEF Next

\* Every request that was submitted and not answered is still in somebody's hands,
\* so that none is lost between two handlers, cancelled or not.
THEOREM NobodyForgotten == Spec => []NoForgottenSession
<1>1. Init => NoForgottenSession
  BY DEF Init, NoForgottenSession
<1> QED  BY <1>1, Invariant, ForgetsNobody, PTL DEF Spec

\* The io_context stops only when nothing is left to do.
LEMMA StopsWhenIdle ==
  ASSUME [Next]_vars, ~stopped, stopped'
  PROVE  ~OutstandingWork' /\ started' = started
<1>1. ASSUME NEW t \in Threads, ThreadStep(t), ~Report(t) PROVE FALSE
  BY <1>1 DEF ThreadStep, OnConnectedOrWritten, OnResponseRead, CheckCancelled,
     StartNext, EraseSession, ThreadExits
<1>2. ASSUME NEW t \in Threads, Report(t) PROVE ~OutstandingWork' /\ started' = started
  BY <1>2 DEF Report, StopIfIdle
<1>3. ASSUME NEW c \in Callers, CallStep(c) PROVE FALSE
  BY <1>3 DEF CallStep, AsyncConnect, CancelSession, Joined
<1>4. ASSUME NEW c \in Callers, Close(c) PROVE ~OutstandingWork' /\ started' = started
  BY <1>4 DEF Close, StopIfIdle
<1>5. ASSUME NEW c \in Callers, NEW s \in Sessions, NEW id \in Ids,
             EmulateLongComputationOp(c, s, id)
      PROVE  FALSE
  BY <1>5 DEF EmulateLongComputationOp
<1>6. ASSUME NEW c \in Callers, NEW id \in Ids, CancelRequest(c, id) PROVE FALSE
  BY <1>6 DEF CancelRequest
<1>7. ASSUME NEW s \in Sessions, NEW r \in {"ok", "failed"}, Complete(s, r)
      PROVE  FALSE
  BY <1>7 DEF Complete
<1>8. CASE Stopped \/ UNCHANGED vars
  BY <1>8 DEF Stopped, vars
<1> QED  BY <1>1, <1>2, <1>3, <1>4, <1>5, <1>6, <1>7, <1>8 DEF Next

\* What Close relies on when it gives up the work object.
Drained == ~stopped /\ stopped' => \A s \in Sessions : started[s] > 0 => calls'[s] = 1

\* Close drains the client: the io_context, whose threads Close joins, does not stop
\* before every request whose connect was started has been answered.
THEOREM CloseDrains == Spec => [][Drained]_vars
<1>1. ASSUME IInv', NoForgottenSession', [Next]_vars, ~stopped, stopped',
             NEW s \in Sessions, started[s] > 0
      PROVE  calls'[s] = 1
  <2>1. ~OutstandingWork' /\ started'[s] > 0
    BY <1>1, StopsWhenIdle
  <2>2. io'[s] = "none"
    BY <2>1 DEF OutstandingWork
  <2>3. m_sock'[s] # "unopened" /\ calls'[s] \in Nat /\ calls'[s] <= 1
    BY <1>1, <2>1 DEF IInv, SessionTokens, TypeOK
  <2>4. ASSUME NEW t \in Threads PROVE cur'[t] # s
    BY <1>1, <2>1, NoneAssumption DEF OutstandingWork, IInv, ThreadTokens
  <2>5. ASSUME NEW c \in Callers, call'[c] = "submit" PROVE arg'[c] # s
    BY <1>1, <2>1, <2>5 DEF IInv, CallerTokens
  <2>6. calls'[s] # 0
    BY <1>1, <2>2, <2>3, <2>4, <2>5 DEF NoForgottenSession
  <2> QED  BY <2>3, <2>6
<1>2. IInv' /\ NoForgottenSession' /\ [Next]_vars => [Drained]_vars
  BY <1>1 DEF Drained
<1> QED  BY <1>2, Invariant, NobodyForgotten, PTL DEF Spec
=============================================================================
