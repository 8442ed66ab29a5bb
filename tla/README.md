# A TLA+ model of boost-asio-samples

The repository is a small header-only library on top of Boost.Asio
(`asiolib/*.hpp`) with its tests (`basics/*.cpp`) and a page that the HTTP server
serves (`sample/manual.html`). This directory models the parts of it that run
concurrently, checks them with TLC on small instances, and proves with TLAPS, for all
instances, every invariant and every safety property of the runs that pass, and that both
asynchronous clients implement their abstract specification.

Paths below are relative to the repository.

## 1. The system

| component | code | state | operations |
|---|---|---|---|
| asynchronous TCP client | `asiolib/tcp-client-async.hpp` | map of active sessions, per-session socket, cancel flag, error code; two kinds of mutex; thread pool, `work` object | `EmulateLongComputationOp`, `CancelRequest`, `Close`; handlers of connect, write, read; `OnRequestComplete` |
| asynchronous HTTP client | `asiolib/http-client-async.hpp` | per-request socket, resolver, cancel flag, response; one mutex per request; one thread | `create_request`, `execute`, `cancel`, `close`; six handlers; `on_finish` |
| asynchronous server | `asiolib/tcp-server-async.hpp` | acceptor, `stopFlag_`, thread pool | `Start`, `Stop`, destructor; `AsyncAcceptor::Init`, `Accept` |
| its two services | `ServiceFakeAsync` there, `asiolib/http-service-async.hpp` | a heap object that owns itself, its socket and buffers, the status code | `HandleRequest`, the handlers, `delete this` |
| synchronous server | `asiolib/tcp-server-sync.hpp` | `liveFlag`, accept thread, detached service threads | `Start`, `Stop`, `Run`, `Accept`, `HandleRequest`, `DetachHandle` |
| synchronous clients | `asiolib/tcp-client-sync.hpp`, `asiolib/udp-client-sync.hpp` | a socket | connect, one exchange, close |
| stream helpers | `asiolib/io_buffers.hpp` | counters of bytes read and written | whole-buffer reads and writes, request/reply with half-close, `WriteAsync` |
| single connections | `asiolib/servers.hpp`, `asiolib/clients.hpp`, the fixture of `basics/server-client.cpp` | a promise | `RunServer`, `GetSingleClientSocket`, `RunClient`, `SetUp` |
| thin wrappers | `endpoints.hpp`, `sockets.hpp`, `binding.hpp`, `dns-resolve.hpp`, `http-errors.hpp` | none | one library call each |

How they interact: an application thread calls a client; the client hands an
operation to an `io_context`; the operating system completes it; a thread that
runs the `io_context` calls the handler, which starts the next operation or calls
the application back. The server works the same way, except that the connection
itself (the service object) is the only owner of its state. Client and server
share nothing but the connection.

What is hard here: the handlers of one object may run in any thread of a pool,
without a strand; cancellation comes from yet another thread and meets a chain of
operations somewhere between two of them; two locks are taken in both orders;
objects delete themselves; and `Close` and `Stop` have to end all of this.
The list with the lines where it bites is `hazards` in `PROJECT.json`.

What makes each component correct:

* the clients: every request is answered exactly once, with an error code that
  does not contradict what the caller did; a cancellation takes effect; after
  `Close` there is silence; `Close` returns;
* the server: it never stops accepting before it is told to; a handler never runs
  on a deleted service; no service is forgotten; `Stop` returns and after it there
  is silence;
* the synchronous server: a request accepted is answered, `Stop` returns if it can,
  and when the server is destroyed none of its threads is left;
* the stream helpers: all bytes arrive once and in order, both sides finish;
* HTTP client and server together: the client reports what the server did.

## 2. Modules

| module | models | status |
|---|---|---|
| `AsyncRequests` | what both asynchronous clients promise (abstract) | done |
| `TcpClientAsync` | the asynchronous TCP client; implements `AsyncRequests` | done |
| `TcpClientAsyncProofs` | its safety, proved | done |
| `HttpClientAsync` | the asynchronous HTTP client; implements `AsyncRequests` | done |
| `HttpClientAsyncProofs` | its safety, proved | done |
| `TcpServerAsync` | the asynchronous server with either service | done |
| `TcpServerAsyncProofs` | its safety, proved | done |
| `TcpServerSync` | the synchronous server, both acceptors, and its clients | done |
| `TcpServerSyncProofs` | its safety, proved | done |
| `SingleConnection` | how a test comes to a connection | done |
| `IoBuffers` | the stream helpers over that connection, of bounded capacity | done |
| `IoBuffersProofs` | its types, and that what calls return is whole, proved | done |
| `IoBuffersRoomProofs` | when its calls cannot end, and when they throw, proved | done |
| `HttpExchange` | `HttpClientAsync` and `TcpServerAsync` over their connections | done |
| `HttpExchangeProofs` | its refinements and the truth of what the client reports, proved | done |

`MC<module>` extends a module for TLC.

### AsyncRequests

A request is idle, active, then done; `Cancel` may happen at any time;
`Complete` gives it an outcome. Its two clauses are the contract: no success for a
cancelled request (if `CancelWins`), no `operation_aborted` for one that nobody
cancelled. `CancelWins` is TRUE for the TCP client, whose `OnRequestComplete`
looks at the flag once more, and FALSE for the HTTP client, whose last handler
does not.

### TcpClientAsync

One session is one `Session` object. `started`, `io` stand for its chain of
operations: connect, write, read; `io` is `"pending"` while the operating system
has the operation and a result while the handler waits in the `io_context`.
`pc`, `cur` are the pool threads, `call`, `arg` the application threads,
`stopped` is the `io_context`'s own notion of having run out of work.

A handler is several steps, cut where another thread can observe a difference:

| action | code |
|---|---|
| `OnConnectedOrWritten`, `OnResponseRead` | the handler up to its first lock |
| `CheckCancelled` | the block under `m_cancel_guard` |
| `StartNext` | `async_write`, `async_read_until`: after that block |
| `EraseSession`, `Report` | the two halves of `OnRequestComplete` |
| `EmulateLongComputationOp`, `AsyncConnect` | the call, up to and after the unlock |
| `CancelRequest`, `CancelSession` | the call, up to and from its second lock |
| `Close`, `Joined` | giving up the work object, the last `join` |

`CheckCancelled` keeps `m_cancel_guard` when the session was cancelled, as the code
does by calling `OnRequestComplete` inside the block; `CancelRequest` keeps
`m_active_sessions_guard` while it waits for `m_cancel_guard`. These are the two
orders of `LockCycle`.

`StopIfIdle` is the work counting of `io_context`: the work object, operations in
flight, queued and running handlers.

### HttpClientAsync

The same scheme with six operations and one thread. The code holds `m_cancel_mux`
from the check of the flag until the next operation is initiated, so the handler up
to there is one step; `on_finish` runs unlocked and is a step of its own, in the
client's thread (`OnFinish`) or, for a request cancelled before `execute`, in the
caller's (`FinishInCaller`). `life` says how the client ends: an exception that
leaves `run()` (`shutdown` in `on_request_sent`) or a destructor that finds
`m_thread` joinable means `std::terminate`. The content of the status line is
abstracted to valid or not; headers and body are not modelled beyond having been
read. Applications are assumed to execute a request once, as the tests do; `execute`
does not check.

### TcpServerAsync

`accept` is the acceptor's one operation (its result is the connection), `heap`,
`operation`, `io` are the services, `pc`, `cur`, `ec` the threads with the handler
they are in. `ServiceType` chooses the service, as the template parameter does.
`HttpService`'s parsing is a choice among the answers it can lead to (413 when the
4096-byte buffer is full, 501, 505, 404, 500, 200). `ProcessRequest` may also throw
(`fs::exists` at `asiolib/http-service-async.hpp:162` for a path that it cannot look up,
`new char[]` at line 177 for the size of a directory or of a file too large), and so may
every `shutdown` of a connection that the client has reset (`Throws`). Nothing catches
in the pool's threads: the program of the server ends, `server = "terminated"`. `Stop` is three steps: the
flag, `ioc_.stop()`, the last `join`. A `Stop` before `Start` dereferences a null
`acceptor_`: the model ends there. `Start` is called once: the server cannot be
restarted, as nothing calls `ioc_.restart()`.

### TcpServerSync

| action | code (`asiolib/tcp-server-sync.hpp`, clients: `tcp-client-sync.hpp`) |
|---|---|
| `Start`, `Stop`, `Joined`, `Destroy` | the owner's calls; `Stop` up to and after its join |
| `CheckLiveFlag` | the condition of `Run`'s loop |
| `Accept` | `AcceptorCl::Accept`, `ParallelAcceptor::Accept` |
| `ReadRequest`, `WriteAnswer`, `Release` | `ServiceFake::HandleRequest`, its socket's end |
| `UseDestroyedContext` | a detached service after `~Server` |
| `Connect` ... `DestroyClient`, `Crash` | `SyncTCPClient`, and the end of its program |

`thread_` is where the accept thread is, `service[c]` how far the service of the
connection of client `c` is, in that thread (`AcceptorCl`) or in a detached one
(`ParallelAcceptor`). `life` becomes the name of the call whose exception ended the
server's program: nothing is caught in its threads. `acceptorType` is the template
argument; it is a variable that never changes so that one run has both. `late` is
history. `Destroy` comes after the destructor's own `Stop`.

### SingleConnection and IoBuffers

`SingleConnection` is the thread that serves one connection and the promise between
it and the main thread: `RunServer` promises before it accepts (and its catch clause
then finds the promise taken), `GetSingleClientSocket` after; the fixture's loop
connects again until it is accepted.

`IoBuffers` extends it: once `main = "connected"`, two threads run the calls of a
scenario. Each call is a sequence of steps (`Steps`): writing, reading, the
half-close, the return. `WriteSome` and `ReadSome` are one `write_some` and
`read_some`, of any length that fits; `outcome` is what the calls returned. A
byte is its position in its message, so that any loss, repetition or change of
order is seen. `Script` holds the tests' scenarios and three more (two requests that
meet, two answers that meet, a second line). `ReadThrows`, `Break`, `BrokenThrows` and
`CancelSocket` are the ways in which a call ends with an exception.

### HttpExchange

The composition of `HttpClientAsync` and `TcpServerAsync`: each takes its own
actions, unchanged, conjoined with what ties it to the other. `ClientSees` and
`ServiceSees` decide how an operation ends where the components alone leave it open;
`SendPart` moves the answer; `connection` is the server's backlog. An answer other
than 200 has no header: `on_status_line_received` has taken the status line and its
line end out of the buffer, so that `"\r\n\r\n"` never comes and the read ends with the
stream. `request` says what is asked for, named after what comes of it: `"found"`,
`"missing"`, `"unreadable"`, `"large"` (more than the service's buffer holds), or
`"fatal"`, on which `process_request` throws. The server ends by an exception only on a
connection whose client is gone (`shutdown`) or on a fatal request (`Fatal`), then however
healthy all connections are, and every other client's request fails with it.

## 3. Runs

Deadlock checking is on in all runs but one: where a program may end, the model has an
explicit last step (`Stopped`, or `life`/`server`/`owner` says so). In `io_buffers` calls
may wait for each other for ever; which do is what `ReturnsIfItFits` says.

| run | instance | shows |
|---|---|---|
| `tcp_client_safety` | 2 sessions, 2 ids, 2 callers, 2 threads, 2 cancels per id | the invariants, silence after `Close`, the refinement of `AsyncRequests` |
| `tcp_client_liveness` | 2 sessions sharing 1 id, 2 callers, 2 threads, 1 cancel | every request is answered, `Close` returns |
| `tcp_client_cancel_twice` | 1 session, 2 callers, 1 thread, 2 cancels | **violated**: a second cancel can block the program for good |
| `http_client` | 2 requests, 2 callers | the invariants, silence after `close`, the refinement; every request is answered, `close` returns |
| `http_client_out_of_scope` | 1 request, 1 caller | **violated**: the client's destructor terminates the program |
| `http_server` | 2 connections, 2 threads, `HttpService` | the life of the services, accepting, `Stop` |
| `fake_server` | 3 connections, 2 threads, `ServiceFakeAsync` | no use after delete in the other service |
| `sync_server` | 2 clients, both acceptors | at most one client after `Stop`, when `Stop` returns, requests are answered |
| `sync_server_destroyed` | 2 clients, `ParallelAcceptor` | **violated**: a detached thread outlives the server |
| `io_buffers` | messages of 0, 1, 2, 4 bytes, buffers of 2, 9 scenarios | what is returned is whole; calls return exactly if the messages fit |
| `http_exchange` | 1 request of 5 kinds, 1 caller, 1 thread | the client reports what the server did, and it does report |
| `http_exchange_shared` | 2 requests, found or fatal, 1 caller, 1 thread, 1 disturbance | the client reports what the server did to requests that share it |

Why these bounds: two sessions are needed for one to take the other's map entry
(shared id) and for two threads to meet at `m_active_sessions_guard`; no step
looks at more than two sessions, two threads or two callers at a time. Two cancels
per id are what it takes to meet a session whose first cancellation is being
reported. `MaxCancels` is the only bound that cuts behaviour of the program; for
the safety of the TCP client the proofs remove it. Three connections against two
threads make the server's handlers wait for a thread. Two clients are what the
tests of the synchronous server use: the first is served while `Stop` waits for the
second. In `io_buffers` a message of 4 bytes does not fit into buffers of 2, one of 2
just does, and one of 0 has no byte to read; delimiters are any two positions, so
that a read may take more than a line. In `http_exchange` one request meets every fault
and every point of a `Stop` or a cancellation. In `http_exchange_shared` two requests share
the server's fate: one that asks for what `process_request` throws on, or whose connection
is reset under `shutdown`, ends the server for the other. Its constraint
`AtMostOneDisturbance` does not follow a state in which more than one cancellation, fault,
`close` or `Stop` has happened (the end of the client's program is not counted): without
it the instance is too large for a run. One is enough for
each of the ways in which one request can harm the other; the proof of `OutcomeFitsAnswer`
has any number of requests, and of disturbances.

Symmetry is used only where no liveness is checked.

### Findings

*Cancelling twice can block the client.* `CancelRequest` takes
`m_active_sessions_guard`, then `m_cancel_guard`
(`asiolib/tcp-client-async.hpp:159-163`). A connect or write handler that finds its
session cancelled calls `OnRequestComplete` with `m_cancel_guard` held (lines
104-108, 126-131), which takes `m_active_sessions_guard` (line 189). If the
application cancels the id again in between, the two threads wait for each other:
the callback, which `handler()` would have print "has been cancelled by the user"
(lines 229-234), never runs, `Close` never returns, and no session can be submitted,
cancelled or completed any more. The run `tcp_client_liveness` shows that with at
most one `CancelRequest` per id every request is answered; `NoLockCycle` proves that the
two threads then never meet, `LockCycleIsForEver` that otherwise they never part.

*A client that goes out of scope terminates the program.* `HTTPClient` has no
destructor; `m_thread` is destroyed joinable unless `close` was called
(`asiolib/http-client-async.hpp:414-440`). `Http.simpleScenario`
(`basics/http-server-client.cpp:25-42`) lets its client go out of scope after the
answer and never calls `close`. `ClosedMayBeDestroyed` proves that with `close` the program
survives.

*A detached service outlives the server.* `DetachHandle`
(`asiolib/tcp-server-sync.hpp:42`) starts a thread that nobody joins. The client has its
answer before that thread has destroyed its socket, which belongs to the server's
`io_context`. `tcp_parallel_server_client_sync`
(`basics/tcp-client-server-sync.cpp:38-65`) destroys the server as soon as `Stop` has
returned. `JoinedServerMayBeDestroyed` proves that a server with `AcceptorCl` may be
destroyed at any time.

### Fairness

`FairSpec` assumes that a thread that can run does (`WF` on the steps of each pool
thread and of each begun call), and that an operation in flight ends (`WF` on
`Complete`): none of the operations has a timeout, so a server that never answers
keeps a request, and `Close`, waiting. The callers' own calls have no fairness.
`WF` is enough for a thread that waits for a mutex because `MaxCancels` and the
number of sessions end the competition for it. In `TcpServerAsync` accepts may fail
for ever; there the handlers get `SF`, which the FIFO queue of `io_context`
justifies.

In `TcpServerSync` the threads run, and a client that connected goes on to send its
request unless it closes or ends, as in all tests; nobody need connect. In `IoBuffers`
both threads run and nothing else is assumed: a call that waits for data waits.
`HttpExchange` drops the assumption that operations end: what is fair is that data
moves (`SendPart`) and that an operation whose result is there completes, so that the
answer of each request is the work of the other side. An accept does not fail for
ever while a client waits (`SF` on `AcceptClient`).

## 4. Proofs

A module of proofs stands beside each component module (two beside `IoBuffers`). All have
the same form: an inductive invariant `IInv`, one lemma per action (or per group of actions
that do the same to it) with one step per part of `IInv`, a lemma that puts them together,
`Invariant`, and from it the properties of the runs. TLC agrees that each `IInv` is
invariant on the instances of the component's runs (that of `IoBuffers`, which speaks of
positions that are not in the state, on a smaller one: messages of 0, 1 and 3 bytes over
buffers of 1).

### The TCP client

`TcpClientAsyncProofs` proves, for every number of sessions, ids, callers, threads
and cancellations, from two assumptions of `TcpClientAsync`: `NoneAssumption` (`None`
is none of the other values) and `CancelsAssumption` (`MaxCancels` is a number; the
pool may have any size): all invariants of `tcp_client_safety`, that
the client is silent after `Close`, and that it implements `AsyncRequests`.

None of the invariants is inductive. `IInv` adds who holds the *token* of a session,
that is, who takes its next step: the caller inside `EmulateLongComputationOp`, the
operation in flight or queued, or the one thread that handles it.

* `ThreadTokens`, `CallerTokens`, `SessionTokens`: the token is unique and moves with
  `started`, `io`, `pc`. From it follow `NoConcurrentHandlers` and `CallbackOnce`.
* `Registered`: a map entry leads to a session whose report has not begun, and a
  caller inside `CancelRequest` keeps its entry there, because `EraseSession` needs
  the lock that it holds. This is why the unlocked read of `m_was_cancelled` in
  `OnRequestComplete` is harmless: when it happens nobody can reach the session
  any more. `NoStaleEntry` and `ActiveIsCancellable` are parts of it.
* `Errors`: where an `operation_aborted` or a success comes from, for
  `CancelledNeverOk` and `OutcomeIsEarned`.
* `Checked`: a thread between the check and the next operation handles a session that
  was, if at all, cancelled after the check, for `OneOperationAfterCancel`.
* `Joining`: after `Close` all threads have exited, for `SilentAfterClose`.

Three theorems are about `LockCycle`, the finding above. `Cancellations` keeps the account
that they need beside `IInv`: a session marked as cancelled has cost one call of
`CancelRequest` with its id, a caller that is about to cancel it again is in another one,
and `m_cancel_guard` is kept only by the thread that completes a cancelled session.

* `LockCycleNeedsTwoCancels`: those who wait for each other are about a session whose id
  was cancelled by two calls, that was not answered, in a client that was not closed;
* `NoLockCycle`: if `MaxCancels` is at most 1 there is none. This is the one theorem with a
  hypothesis about how the client is used, and it is that of `tcp_client_liveness`;
* `LockCycleIsForEver`: the two stay as they are whatever the others do, and the map with
  them.

Two theorems are the part of `SubmittedIsReported` that needs no fairness. `NobodyForgotten`:
a request that is not answered has the token of `IInv` somewhere, so that it is enough that
every holder moves on. `CloseDrains`: the `io_context` does not stop before every request
whose connect was started has been answered.

`EmptyPoolAnswersNobody` is what the runs, with their pool of two, cannot show: the
constructor cuts `hardware_concurrency` to eight bits, so that with 0 (unknown) or 256
hardware threads a client of the default size has no thread, and no callback ever runs.

### The HTTP client

`HttpClientAsyncProofs` proves for every number of requests and callers, from
`NoneAssumption`, all invariants of `http_client`, the silence after `close` and
the refinement of `AsyncRequests`. `HandlerCases` says that each of the handlers does one
of three things: it finishes its request, goes on, or throws; the rest of the proof
does not look at them again. `IInv` adds to the invariants:

* `Tokens`: the operation or queued handler, the client's thread inside `on_finish`, or
  the caller inside `execute` has the request, and only one of them; hence
  `CallbackOnce`.
* `Earned`: an aborted operation was cancelled, a body is read after the headers, and
  success comes from reading the body. With `NoOperationAfterCancel`, which is inductive
  beside `Tokens`, this gives `CancelLosesOnlyToBody`.
* `Joining`: once the thread has exited no `on_finish` is running, and `close` waits for
  it; hence `SilentAfterClose`. It is also why `ClosedMayBeDestroyed`: after `close` there is
  no handler left to throw.

`NobodyForgotten` and `CloseDrains` say the same as in the TCP client.

### The asynchronous server

`TcpServerAsyncProofs` proves for every number of services, every pool size and both
service types all safety properties of `http_server`, from `NoneAssumption` and
`AcceptAssumption` (no service has the name of a state of the acceptor). Two tokens go
round: the acceptor's (`OneAccept`) and that of each service (`ThreadTokens`,
`NoUseAfterDelete`, `NoForgottenService`), which `Create` makes and `Delete` destroys.
`NewServices` says that what is accepted or about to be made does not exist yet;
`Lifetime`, that threads exist from `Start` to the return of `Stop`, hence
`SilentAfterStop`. `StatusCodes` in `TypeOK` is what keeps `http_status_table.at` from
throwing.

### The synchronous server

`TcpServerSyncProofs` proves for every number of clients that `AcceptorCl` has one
service at a time (`Serving`) and that at most one client is accepted after `Stop`
(`Woken`: whoever was accepted late has brought the thread back to the condition of its
loop, and nobody sets `liveFlag` again, so that there is no way back to the accept).
The step from "no two differ" to the cardinality is `AtMostOne`. `JoinedForGood` says that
a destroyed server has no accept thread; with `Serving` an `AcceptorCl` then serves nobody,
hence `JoinedServerMayBeDestroyed`.

### The stream helpers

`IoBuffersProofs` proves `TypeOK` and `WholeOrThrown` for messages and buffers of any size
(`BuffersAssumption`: sizes are numbers, the buffers hold a byte at least, and the scenarios
are those of `Script`). `WholeOrThrown` speaks of what calls have returned; what makes it
true is where every byte is, at every moment. `IInv` says it with two numbers per end that
the state does not keep, `w` written and `r` read by the peer:

* `Flow`: the bytes on their way are exactly those from `r + 1` to `w`, in order; an end that
  shut down has written all.
* `Writing`, `Reading`: at its step of its script a thread has written `count` bytes, and its
  `buffer` is the `Len(buffer)` bytes before position `r` of its peer; a read that has ended
  has what it is for.
* `Begins`, `Returned`: where the next read of an end begins: at the first byte, or behind a
  delimiter that is behind all that was returned before. This is what a second
  `ReadFromSocketByDelimiter` needs, because the `streambuf` of the first takes bytes with it.
* `OnScript`: what a thread has left to do is the rest of its script.

The scripts differ with each scenario, but the proof of a step looks only at what
`ScriptsWellFormed` shows of them all: an end is written in one call by one thread and read by
one thread (`WrittenOnce`, `Apart`), what is read is returned before the next read
(`InOrder`), and only lines are returned twice (`LinesIfTwice`). The lemmas about runs of
bytes say that joining two runs gives a run (`RunGrows`), so does cutting one (`RunPart`),
and that the line found in a run is the line of the message from there (`LineRead`).
`SetupOK` is the invariant of `SingleConnection`, for `KeptOnce`.

`IoBuffersRoomProofs` proves two more facts for all sizes. `EndsOnlyIfItFits`, the safety part
of `ReturnsIfItFits`: if the messages do not fit, the scenario does not end unless the
connection is lost. `RoomInv` has one part per kind of scenario: before anybody reads, a
stream holds all that was written, so that a write that has ended fitted.
`ThrowsOnlyIfLost`: apart from the scenario that cancels, a call throws only because the
connection is lost; too small a buffer makes it wait instead. `StepKinds` says why: only
scripts without `read` and `read_until` half-close an end, and only the end of a stream
would make these throw.

### The exchange

`HttpExchangeProofs` takes an instance of the proofs of either component.
`StepOfClient` and `StepOfServer` say that each step of the exchange is one of the
component's own or leaves it alone, so that every behaviour of `HttpExchange` is one of
`HttpClientAsync` (`ClientRefined`) and one of `TcpServerAsync` (`ServerRefined`), and
their invariants hold in it. (`SameClient` and `SameServer` bridge the two instances of a
module that this takes.) From that, and from `NamesAssumption` and `PoolAssumption`,
`Truthful` proves `OutcomeFitsAnswer` for every number of requests and callers and every
pool. `IInv` adds what is between the components:

* `Answers`: parts are sent only in the service's write, whose status code is what the
  request deserves; a write that has ended has sent them all, or its client is gone, or
  the server.
* `Failures`: a service gives up because its client is gone; the server ends by an exception
  for that reason or because of what a service, still there, was asked (`EndedServer`); it
  stops because of a `Stop`.
* `Connections`: a connection is made before the client's second operation ends.
* `Reads`: what the client has read was sent, and an end of the stream in front of the
  body, or an error, has an explanation that nothing later takes back.

`ClientMoves` and `ServerMoves` say what a step of a component may do to the variables
that these speak of; the lemmas after them need no handler any more.

### Not proved

Liveness is out of TLAPS's reach and only model-checked, in all modules:
`SubmittedIsReported`, `CloseReturns`, `ExecutedIsReported`,
`AcceptedIsServed`, `StopReturns`, `StopReturnsIfClientComes`, `SentIsAnswered`,
`ExchangeEnds` (what they need apart from fairness, that no request is lost on its way, is
`NobodyForgotten` in both clients and `NoForgottenService` in the server), and of `ReturnsIfItFits` that calls do return (its safety parts are
`EndsOnlyIfItFits` and `KeptOnce`). That nothing else stops for good, which TLC checks as
deadlock, would need `ENABLED`. The expectations that a run shows violated are no theorems,
of course; what is true in their place is.

### What the properties except

Some hazards of this code are what it does, and a property that excluded them would be
violated; nothing in the repository promises otherwise. The properties say how far they go:

* with an id used twice, a TCP session can lose its map entry to another session of the
  same id; `ActiveIsCancellable` allows that, and no other loss;
* an exception in a thread ends the program: of the HTTP client (`life`; `ExecutedIsReported`
  and `CloseReturns` hold until then), of the asynchronous server (`Ended`, in
  `AcceptedIsServed`), of the synchronous one (`ServerLost`, in `SentIsAnswered`). Where
  one party's exception fails the work of another, the property names that party:
  `ServerLost` asks for a failed accept, a server destroyed under a service, or a client
  that left while it was served; `Excused` in `HttpExchange` for a request that was being
  served and was lost or fatal;
* services in flight when the `io_context` is destroyed stay in the heap for ever:
  `NoForgottenService` is about the time before;
* a second `read_until` may find its line torn: `WholeOrThrown` says that what it returns
  is in order, contiguous, and not a byte of the line before.

## 5. Not modelled

* Concurrent use of one `m_sock` from two threads (`cancel` and `shutdown`, or `cancel`
  and the initiation of an operation): Asio does not allow it, the model takes each call
  as atomic.
* A callback that calls back into the client, and the lock it would find held.
* Exceptions of `open`, `from_string`, `bind` and of thread creation; the callers get them
  and the object stays as it was, except that a TCP session is already in the map if
  `async_connect` could throw.
* Two calls of `Close` at the same time (a data race on `std::thread`).
* Memory of the `HTTPRequest` objects: handlers capture a raw `this`, so the application
  must keep its `shared_ptr` until the callback.
* `SyncUDPClient`: two library calls and a shutdown in one thread, and the repository has
  no datagram server to compose it with.
* The memory a handler of `IoBuffers`'s `WriteAsync` uses: the test's `Callback` hands
  `async_read` a local `streambuf`. `GetBuffer`, which wraps a pointer.
* The text of requests, answers, headers and error messages.
* The wrappers (`endpoints.hpp`, `sockets.hpp`, `binding.hpp`, `dns-resolve.hpp`) and the
  table of `http-errors.hpp`, which make one call or hold no state; the visual studio
  projects; the sample page.

## 6. What may follow

1. Liveness of `HttpExchange` with two requests: whether a client is answered while another
   one's connection waits in the backlog. The safety of that instance is
   `http_exchange_shared`.
2. `IoBuffers` with scripts of the reader's own: the proof of `WholeOrThrown` asks only
   `WellFormed` of them.
