-------------------------- MODULE TcpClientAsync --------------------------
(***************************************************************************)
(* AsyncTCPClient of asiolib/tcp-client-async.hpp: application threads     *)
(* submit and cancel requests and close the client, while the threads of   *)
(* a pool run the completion handlers of an io_context.                    *)
(*                                                                         *)
(* A request is a Session whose socket has at most one operation in        *)
(* flight: connect, then write, then read.  Two kinds of mutex protect it: *)
(* m_active_sessions_guard (one, for the map from request ids to sessions) *)
(* and m_cancel_guard (one per session, for m_was_cancelled).  A critical  *)
(* section that takes no second lock is one step here; one that does       *)
(* (CancelRequest, and OnRequestComplete called under m_cancel_guard) is   *)
(* split where it may have to wait.                                        *)
(***************************************************************************)
EXTENDS Naturals

CONSTANTS
  Sessions,             \* the Session objects the callers may create
  Ids,                  \* the values of request_id; two sessions may share one
  Callers,              \* application threads
  NumberOfThread,       \* argument of the constructor, a uint8_t
  HardwareConcurrency,  \* std::thread::hardware_concurrency()
  MaxCancels,           \* bound: calls of CancelRequest with one request_id
  None                  \* no session, no id, no lock owner

\* The constructor's numberOfThread: an argument of 0 stands for the number
\* of hardware threads, cut to the eight bits of uint8_t.
PoolSize ==
  IF NumberOfThread # 0 THEN NumberOfThread ELSE HardwareConcurrency % 256

Threads == 1..PoolSize

ASSUME PoolAssumption ==
  /\ NumberOfThread \in 0..255
  /\ HardwareConcurrency \in Nat
ASSUME CallersAssumption == Callers \cap Threads = {}
ASSUME NoneAssumption    == None \notin Sessions \cup Ids \cup Callers \cup Threads
ASSUME CancelsAssumption == MaxCancels \in Nat

VARIABLES
  m_active_sessions,        \* request id -> session, or None
  m_active_sessions_guard,  \* who holds that mutex
  m_id,                     \* of each session, as are the next seven
  m_sock,                   \* "unopened", "open" or "shutdown"
  m_ec,                     \* the error that ended the session, "ok" if none
  m_response,               \* has a response line been stored?
  m_was_cancelled,
  m_cancel_guard,           \* who holds that mutex
  started,                  \* how many socket operations were initiated
  io,                       \* the last one: "none", "pending" or its result
  calls,                    \* how often m_callback was called
  outcome,                  \* with which error code
  startedAtCancel,          \* history: started[s] when s was first cancelled
  pc,                       \* what each pool thread does
  cur,                      \* for which session
  call,                     \* which call each caller is in
  arg,                      \* on which session
  cancelCalls,              \* calls of CancelRequest so far, by request_id
  m_work,                   \* does the io_context::work object exist?
  stopped,                  \* has the io_context stopped?
  closed                    \* has Close returned?

sessionVars == <<m_id, m_sock, m_ec, m_response, m_was_cancelled,
                 m_cancel_guard, started, io, calls, outcome, startedAtCancel>>
mapVars     == <<m_active_sessions, m_active_sessions_guard>>
threadVars  == <<pc, cur>>
callerVars  == <<call, arg, cancelCalls>>
contextVars == <<m_work, stopped, closed>>
vars == <<sessionVars, mapVars, threadVars, callerVars, contextVars>>

\* The operations of a session in their order; started[s] names the last one.
Connect == 1
Write   == 2
Read    == 3

Results  == {"ok", "aborted", "failed"}
Handling == {"check", "start", "erase", "report"}

Init ==
  /\ m_active_sessions = [i \in Ids |-> None]
  /\ m_active_sessions_guard = None
  /\ m_id = [s \in Sessions |-> None]
  /\ m_sock = [s \in Sessions |-> "unopened"]
  /\ m_ec = [s \in Sessions |-> "ok"]
  /\ m_response = [s \in Sessions |-> FALSE]
  /\ m_was_cancelled = [s \in Sessions |-> FALSE]
  /\ m_cancel_guard = [s \in Sessions |-> None]
  /\ started = [s \in Sessions |-> 0]
  /\ io = [s \in Sessions |-> "none"]
  /\ calls = [s \in Sessions |-> 0]
  /\ outcome = [s \in Sessions |-> "none"]
  /\ startedAtCancel = [s \in Sessions |-> 0]
  /\ pc = [t \in Threads |-> "run"]
  /\ cur = [t \in Threads |-> None]
  /\ call = [c \in Callers |-> "idle"]
  /\ arg = [c \in Callers |-> None]
  /\ cancelCalls = [i \in Ids |-> 0]
  /\ m_work = TRUE
  /\ stopped = FALSE
  /\ closed = FALSE

-----------------------------------------------------------------------------
(* The io_context.                                                         *)

\* Work that keeps run() from returning: the work object, an operation in
\* flight or with its handler queued, a handler that is running.
OutstandingWork ==
  \/ m_work
  \/ \E s \in Sessions : io[s] # "none"
  \/ \E t \in Threads : pc[t] \in Handling

\* Mutant: Close stops the io_context instead of letting it run out of work.
StopWithoutDraining == stopped' = (stopped \/ ~m_work')

\* The io_context stops when its last piece of work is done, and stays so.
StopIfIdle == stopped' = (stopped \/ ~OutstandingWork')

\* The operating system completes the operation in flight.
Complete(s, r) ==
  /\ io[s] = "pending"
  /\ io' = [io EXCEPT ![s] = r]
  /\ UNCHANGED <<m_id, m_sock, m_ec, m_response, m_was_cancelled,
                 m_cancel_guard, started, calls, outcome, startedAtCancel,
                 mapVars, threadVars, callerVars, contextVars>>

\* run() returns in a pool thread once the io_context has stopped.
ThreadExits(t) ==
  /\ pc[t] = "run"
  /\ stopped
  /\ pc' = [pc EXCEPT ![t] = "exited"]
  /\ UNCHANGED <<sessionVars, mapVars, cur, callerVars, contextVars>>

\* run() hands thread t the queued handler of session s, whose operation was op.
Takes(t, s, op) ==
  /\ pc[t] = "run"
  /\ ~stopped
  /\ started[s] = op
  /\ io[s] \in Results
  /\ io' = [io EXCEPT ![s] = "none"]
  /\ cur' = [cur EXCEPT ![t] = s]

-----------------------------------------------------------------------------
(* Completion handlers, run by pool threads.                               *)

\* Mutant: the error of the operation is not stored in the session.
FailHandlerLosesError(t, s) ==
  /\ io[s] # "ok"
  /\ m_sock' = [m_sock EXCEPT ![s] = "shutdown"]
  /\ pc' = [pc EXCEPT ![t] = "erase"]
  /\ UNCHANGED m_ec

\* The operation failed: the handler stores the error and goes to
\* OnRequestComplete, which begins by shutting the socket down.
FailHandler(t, s) ==
  /\ io[s] # "ok"
  /\ m_ec' = [m_ec EXCEPT ![s] = io[s]]
  /\ m_sock' = [m_sock EXCEPT ![s] = "shutdown"]
  /\ pc' = [pc EXCEPT ![t] = "erase"]

\* The handlers of async_connect and async_write.
OnConnectedOrWritten(t, s, op) ==
  /\ op \in {Connect, Write}
  /\ Takes(t, s, op)
  /\ \/ FailHandler(t, s)
     \/ /\ io[s] = "ok"
        /\ pc' = [pc EXCEPT ![t] = "check"]
        /\ UNCHANGED <<m_ec, m_sock>>
  /\ UNCHANGED <<m_id, m_response, m_was_cancelled, m_cancel_guard, started,
                 calls, outcome, startedAtCancel, mapVars, callerVars,
                 contextVars>>

\* Mutant: the read handler is written like the other two.
OnResponseReadChecks(t, s) ==
  /\ Takes(t, s, Read)
  /\ \/ FailHandler(t, s) /\ UNCHANGED m_response
     \/ /\ io[s] = "ok"
        /\ m_response' = [m_response EXCEPT ![s] = TRUE]
        /\ pc' = [pc EXCEPT ![t] = "check"]
        /\ UNCHANGED <<m_ec, m_sock>>
  /\ UNCHANGED <<m_id, m_was_cancelled, m_cancel_guard, started, calls,
                 outcome, startedAtCancel, mapVars, callerVars, contextVars>>

\* The handler of async_read_until; it asks nobody about cancellation.
OnResponseRead(t, s) ==
  /\ Takes(t, s, Read)
  /\ \/ FailHandler(t, s) /\ UNCHANGED m_response
     \/ /\ io[s] = "ok"
        /\ m_response' = [m_response EXCEPT ![s] = TRUE]
        /\ m_sock' = [m_sock EXCEPT ![s] = "shutdown"]
        /\ pc' = [pc EXCEPT ![t] = "erase"]
        /\ UNCHANGED m_ec
  /\ UNCHANGED <<m_id, m_was_cancelled, m_cancel_guard, started, calls,
                 outcome, startedAtCancel, mapVars, callerVars, contextVars>>

\* Mutant: m_was_cancelled is never looked at before the next operation.
CheckNothing(t) ==
  /\ pc[t] = "check"
  /\ pc' = [pc EXCEPT ![t] = "start"]
  /\ UNCHANGED <<sessionVars, mapVars, cur, callerVars, contextVars>>

\* Under m_cancel_guard: a cancelled session is completed with the guard
\* still held, another one releases it and goes on to its next operation.
CheckCancelled(t) ==
  LET s == cur[t] IN
  /\ pc[t] = "check"
  /\ m_cancel_guard[s] = None
  /\ \/ /\ m_was_cancelled[s]
        /\ m_cancel_guard' = [m_cancel_guard EXCEPT ![s] = t]
        /\ m_sock' = [m_sock EXCEPT ![s] = "shutdown"]
        /\ pc' = [pc EXCEPT ![t] = "erase"]
     \/ /\ ~m_was_cancelled[s]
        /\ pc' = [pc EXCEPT ![t] = "start"]
        /\ UNCHANGED <<m_cancel_guard, m_sock>>
  /\ UNCHANGED <<m_id, m_ec, m_response, m_was_cancelled, started, io, calls,
                 outcome, startedAtCancel, mapVars, cur, callerVars,
                 contextVars>>

\* async_write after a connect, async_read_until after a write; no lock is
\* held any more.  The handler returns.
StartNext(t) ==
  LET s == cur[t] IN
  /\ pc[t] = "start"
  /\ started' = [started EXCEPT ![s] = @ + 1]
  /\ io' = [io EXCEPT ![s] = "pending"]
  /\ pc' = [pc EXCEPT ![t] = "run"]
  /\ cur' = [cur EXCEPT ![t] = None]
  /\ UNCHANGED <<m_id, m_sock, m_ec, m_response, m_was_cancelled,
                 m_cancel_guard, calls, outcome, startedAtCancel, mapVars,
                 callerVars, contextVars>>

\* Mutant: only a session that was not cancelled is erased.
ErasedUnlessCancelled(s) ==
  IF m_was_cancelled[s] THEN m_active_sessions
  ELSE [m_active_sessions EXCEPT ![m_id[s]] = None]

\* Mutant: all sessions are forgotten.
Cleared(s) == [id \in Ids |-> None]

\* The map without whatever session is stored under the id of session s.
Erased(s) == [m_active_sessions EXCEPT ![m_id[s]] = None]

\* OnRequestComplete, the locked part.
EraseSession(t) ==
  /\ pc[t] = "erase"
  /\ m_active_sessions_guard = None
  /\ m_active_sessions' = Erased(cur[t])
  /\ pc' = [pc EXCEPT ![t] = "report"]
  /\ UNCHANGED <<sessionVars, m_active_sessions_guard, cur, callerVars,
                 contextVars>>

\* Mutant: the callback gets the error of the operation, cancelled or not.
FinalErrorOfOperation(s) == m_ec[s]

\* Mutant: the test of m_was_cancelled is inverted.
FinalErrorInverted(s) ==
  IF m_ec[s] = "ok" /\ ~m_was_cancelled[s] THEN "aborted" ELSE m_ec[s]

\* OnRequestComplete, the error code it hands to the callback.
FinalError(s) ==
  IF m_ec[s] = "ok" /\ m_was_cancelled[s] THEN "aborted" ELSE m_ec[s]

\* OnRequestComplete, the rest: the flag is read and the callback called
\* without the map's lock; then the handler returns, which drops
\* m_cancel_guard if CheckCancelled had kept it.
Report(t) ==
  LET s == cur[t] IN
  /\ pc[t] = "report"
  /\ calls' = [calls EXCEPT ![s] = @ + 1]
  /\ outcome' = [outcome EXCEPT ![s] = FinalError(s)]
  /\ m_cancel_guard' = [m_cancel_guard EXCEPT ![s] = IF @ = t THEN None ELSE @]
  /\ pc' = [pc EXCEPT ![t] = "run"]
  /\ cur' = [cur EXCEPT ![t] = None]
  /\ UNCHANGED <<m_id, m_sock, m_ec, m_response, m_was_cancelled, started,
                 io, startedAtCancel, mapVars, callerVars, m_work, closed>>
  /\ StopIfIdle

-----------------------------------------------------------------------------
(* Calls of the application.                                               *)

\* EmulateLongComputationOp up to the end of its critical section: a new
\* session takes the place of any other stored under the same id.
EmulateLongComputationOp(c, s, id) ==
  /\ call[c] = "idle"
  /\ m_sock[s] = "unopened"
  /\ m_active_sessions_guard = None
  /\ m_id' = [m_id EXCEPT ![s] = id]
  /\ m_sock' = [m_sock EXCEPT ![s] = "open"]
  /\ m_active_sessions' = [m_active_sessions EXCEPT ![id] = s]
  /\ call' = [call EXCEPT ![c] = "submit"]
  /\ arg' = [arg EXCEPT ![c] = s]
  /\ UNCHANGED <<m_ec, m_response, m_was_cancelled, m_cancel_guard, started,
                 io, calls, outcome, startedAtCancel, m_active_sessions_guard,
                 threadVars, cancelCalls, contextVars>>

\* Its last statement, after the lock is released.
AsyncConnect(c) ==
  LET s == arg[c] IN
  /\ call[c] = "submit"
  /\ started' = [started EXCEPT ![s] = Connect]
  /\ io' = [io EXCEPT ![s] = "pending"]
  /\ call' = [call EXCEPT ![c] = "idle"]
  /\ arg' = [arg EXCEPT ![c] = None]
  /\ UNCHANGED <<m_id, m_sock, m_ec, m_response, m_was_cancelled,
                 m_cancel_guard, calls, outcome, startedAtCancel, mapVars,
                 threadVars, cancelCalls, contextVars>>

\* CancelRequest up to its second lock: an unknown id ends the call, a known
\* one leaves it holding m_active_sessions_guard.
CancelRequest(c, id) ==
  /\ call[c] = "idle"
  /\ cancelCalls[id] < MaxCancels
  /\ m_active_sessions_guard = None
  /\ cancelCalls' = [cancelCalls EXCEPT ![id] = @ + 1]
  /\ \/ /\ m_active_sessions[id] = None
        /\ UNCHANGED <<m_active_sessions_guard, call, arg>>
     \/ /\ m_active_sessions[id] # None
        /\ m_active_sessions_guard' = c
        /\ call' = [call EXCEPT ![c] = "cancel"]
        /\ arg' = [arg EXCEPT ![c] = m_active_sessions[id]]
  /\ UNCHANGED <<sessionVars, m_active_sessions, threadVars, contextVars>>

\* Mutant: a cancellation queues an aborted completion of its own.
AfterSocketCancelAlways(s) ==
  IF started[s] = 0 THEN {io[s]} ELSE {"aborted"}

\* What m_sock.cancel() may make of an operation on the socket.  It aborts
\* the one in flight; between two parts of a composed operation (async_write,
\* async_read_until) there is none to abort; a queued handler keeps its result.
AfterSocketCancel(s) ==
  IF io[s] # "pending" THEN {io[s]}
  ELSE IF started[s] = Connect THEN {"aborted"} ELSE {"aborted", "pending"}

\* CancelRequest from its second lock on; both locks are released.
CancelSession(c) ==
  LET s == arg[c] IN
  /\ call[c] = "cancel"
  /\ m_cancel_guard[s] = None
  /\ m_was_cancelled' = [m_was_cancelled EXCEPT ![s] = TRUE]
  /\ \E r \in AfterSocketCancel(s) : io' = [io EXCEPT ![s] = r]
  /\ startedAtCancel' =
       [startedAtCancel EXCEPT ![s] = IF m_was_cancelled[s] THEN @ ELSE started[s]]
  /\ m_active_sessions_guard' = None
  /\ call' = [call EXCEPT ![c] = "idle"]
  /\ arg' = [arg EXCEPT ![c] = None]
  /\ UNCHANGED <<m_id, m_sock, m_ec, m_response, m_cancel_guard, started,
                 calls, outcome, m_active_sessions, threadVars, cancelCalls,
                 contextVars>>

\* Mutant: Close joins the threads without giving up the work object.
CloseKeepsWork(c) ==
  /\ call[c] = "idle"
  /\ m_work
  /\ call' = [call EXCEPT ![c] = "join"]
  /\ UNCHANGED <<sessionVars, mapVars, threadVars, arg, cancelCalls,
                 contextVars>>

\* Close gives up the work object and begins to join the threads.  A later
\* call finds no thread to join and changes nothing.
Close(c) ==
  /\ call[c] = "idle"
  /\ m_work
  /\ m_work' = FALSE
  /\ call' = [call EXCEPT ![c] = "join"]
  /\ UNCHANGED <<sessionVars, mapVars, threadVars, arg, cancelCalls, closed>>
  /\ StopIfIdle

\* Mutant: Close does not wait for the threads.
JoinedEarly(c) ==
  /\ call[c] = "join"
  /\ closed' = TRUE
  /\ call' = [call EXCEPT ![c] = "idle"]
  /\ UNCHANGED <<sessionVars, mapVars, threadVars, arg, cancelCalls, m_work,
                 stopped>>

\* The last join of Close returns.
Joined(c) ==
  /\ call[c] = "join"
  /\ \A t \in Threads : pc[t] = "exited"
  /\ closed' = TRUE
  /\ call' = [call EXCEPT ![c] = "idle"]
  /\ UNCHANGED <<sessionVars, mapVars, threadVars, arg, cancelCalls, m_work,
                 stopped>>

-----------------------------------------------------------------------------
(* A caller that cancels session s waits, with the map's lock, for the     *)
(* session's m_cancel_guard; the thread that holds this guard waits for    *)
(* the map's lock in OnRequestComplete.                                    *)
LockCycle ==
  \E c \in Callers, t \in Threads :
    /\ call[c] = "cancel"
    /\ pc[t] = "erase"
    /\ m_cancel_guard[arg[c]] = t

\* Where the program stops for good: the client is closed and the callers
\* have no call left to make, or the threads wait on each other.
Stopped ==
  /\ \/ /\ closed
        /\ \A c \in Callers : call[c] = "idle"
        /\ \A s \in Sessions : m_sock[s] # "unopened"
        /\ \A id \in Ids : cancelCalls[id] = MaxCancels
     \/ LockCycle
  /\ UNCHANGED vars

ThreadStep(t) ==
  \/ \E s \in Sessions, op \in {Connect, Write} : OnConnectedOrWritten(t, s, op)
  \/ \E s \in Sessions : OnResponseRead(t, s)
  \/ CheckCancelled(t)
  \/ StartNext(t)
  \/ EraseSession(t)
  \/ Report(t)
  \/ ThreadExits(t)

\* What a caller does once it is inside a call.
CallStep(c) ==
  \/ AsyncConnect(c)
  \/ CancelSession(c)
  \/ Joined(c)

Next ==
  \/ \E t \in Threads : ThreadStep(t)
  \/ \E c \in Callers : CallStep(c)
  \/ \E c \in Callers, s \in Sessions, id \in Ids : EmulateLongComputationOp(c, s, id)
  \/ \E c \in Callers, id \in Ids : CancelRequest(c, id)
  \/ \E c \in Callers : Close(c)
  \/ \E s \in Sessions, r \in {"ok", "failed"} : Complete(s, r)
  \/ Stopped

Spec == Init /\ [][Next]_vars

(***************************************************************************)
(* The scheduler runs every thread that can run, and the peer or the       *)
(* operating system ends every operation sooner or later.  Callers need    *)
(* not call anything, but a call they have begun goes on.                  *)
(***************************************************************************)
Fairness ==
  /\ \A t \in Threads : WF_vars(ThreadStep(t))
  /\ \A c \in Callers : WF_vars(CallStep(c))
  /\ \A s \in Sessions : WF_vars(\E r \in {"ok", "failed"} : Complete(s, r))

FairSpec == Spec /\ Fairness

-----------------------------------------------------------------------------
(* Properties.                                                             *)

TypeOK ==
  /\ m_active_sessions \in [Ids -> Sessions \cup {None}]
  /\ m_active_sessions_guard \in Callers \cup {None}
  /\ m_id \in [Sessions -> Ids \cup {None}]
  /\ m_sock \in [Sessions -> {"unopened", "open", "shutdown"}]
  /\ m_ec \in [Sessions -> Results]
  /\ m_response \in [Sessions -> BOOLEAN]
  /\ m_was_cancelled \in [Sessions -> BOOLEAN]
  /\ m_cancel_guard \in [Sessions -> Threads \cup {None}]
  /\ started \in [Sessions -> 0..Read]
  /\ io \in [Sessions -> Results \cup {"none", "pending"}]
  /\ calls \in [Sessions -> Nat]
  /\ outcome \in [Sessions -> Results \cup {"none"}]
  /\ startedAtCancel \in [Sessions -> 0..Read]
  /\ pc \in [Threads -> Handling \cup {"run", "exited"}]
  /\ cur \in [Threads -> Sessions \cup {None}]
  /\ call \in [Callers -> {"idle", "submit", "cancel", "join"}]
  /\ arg \in [Callers -> Sessions \cup {None}]
  /\ cancelCalls \in [Ids -> 0..MaxCancels]
  /\ m_work \in BOOLEAN
  /\ stopped \in BOOLEAN
  /\ closed \in BOOLEAN

\* The client uses no strand, yet the handlers of one session never run in
\* two threads at once: the session's chain of operations has one link at a
\* time, whatever cancellations happen meanwhile.
NoConcurrentHandlers ==
  \A t, u \in Threads : cur[t] = cur[u] /\ cur[t] # None => t = u

\* No request is answered twice: m_callback runs at most once per session,
\* although OnRequestComplete is called from five places.
CallbackOnce == \A s \in Sessions : calls[s] <= 1

\* A request whose cancellation CancelRequest has recorded is never reported
\* as successful, not even if its response had already arrived, and although
\* OnRequestComplete reads m_was_cancelled without m_cancel_guard.
CancelledNeverOk ==
  \A s \in Sessions : calls[s] > 0 /\ m_was_cancelled[s] => outcome[s] # "ok"

\* Success means that a response line was read; operation_aborted means that
\* somebody cancelled this very request.
OutcomeIsEarned ==
  \A s \in Sessions :
    /\ outcome[s] = "ok" => m_response[s]
    /\ outcome[s] = "aborted" => m_was_cancelled[s]

\* m_active_sessions never leads to a session that was completed, nor under
\* another id: a late CancelRequest cannot touch a finished request.
NoStaleEntry ==
  \A id \in Ids, s \in Sessions :
    m_active_sessions[id] = s => m_id[s] = id /\ calls[s] = 0

\* A request can be cancelled from its submission until its completion begins,
\* unless another was submitted under its id: one that has taken its entry, or
\* whose completion erased it.  Nothing else costs a request its entry.
ActiveIsCancellable ==
  \A s \in Sessions : m_sock[s] = "open" =>
    \/ m_active_sessions[m_id[s]] = s
    \/ \E r \in Sessions \ {s} :
         /\ m_id[r] = m_id[s]
         /\ m_active_sessions[m_id[s]] = r \/ m_sock[r] = "shutdown"

\* A cancelled request starts at most one more socket operation: the check
\* and the next operation are not one critical section, but the check of the
\* handler after that sees the flag.
OneOperationAfterCancel ==
  \A s \in Sessions :
    m_was_cancelled[s] => started[s] <= startedAtCancel[s] + 1

\* Once Close has returned, the client calls nobody back.
SilentAfterClose == [][closed => calls' = calls]_vars

\* How far a session has come in the terms of AsyncRequests.
Status(s) ==
  IF calls[s] > 0 THEN "done"
  ELSE IF m_sock[s] = "unopened" THEN "idle" ELSE "active"

\* The client implements the promise of AsyncRequests, cancellation winning.
Promise == INSTANCE AsyncRequests WITH
  Requests   <- Sessions,
  CancelWins <- TRUE,
  status     <- [s \in Sessions |-> Status(s)],
  cancelled  <- m_was_cancelled,
  outcome    <- outcome

ImplementsAsyncRequests == Promise!AbsSpec

\* A request whose connect is in flight before the io_context stops is
\* answered.  This takes callers that cancel no request_id twice: see LockCycle.
SubmittedIsReported ==
  \A s \in Sessions : (io[s] = "pending" /\ ~stopped) ~> calls[s] > 0

\* Close returns once the requests in flight are over, on the same condition.
CloseReturns == \A c \in Callers : call[c] = "join" ~> closed

\* What the library's own handler() reports as "has been cancelled by the
\* user": a request cancelled while one of its operations is in flight reaches
\* its callback.
CancelledIsReported ==
  \A s \in Sessions :
    (m_was_cancelled[s] /\ io[s] # "none" /\ ~stopped) ~> calls[s] > 0
=============================================================================
