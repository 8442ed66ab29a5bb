--------------------------- MODULE TcpServerSync ---------------------------
(***************************************************************************)
(* Server<T> of asiolib/tcp-server-sync.hpp with both of its acceptors,    *)
(* and the SyncTCPClients (asiolib/tcp-client-sync.hpp) that call it.      *)
(*                                                                         *)
(* Every call blocks.  The owner starts, stops and destroys the server; a  *)
(* thread runs the accept loop.  AcceptorCl serves a connection in that    *)
(* thread, ParallelAcceptor in a detached thread that nobody joins.  An    *)
(* exception in either thread ends the program.                            *)
(***************************************************************************)
EXTENDS Naturals, Sequences, FiniteSets

CONSTANTS
  Clients,        \* the SyncTCPClient objects
  AcceptorTypes   \* the values of T to be looked at

ASSUME TypesAssumption == AcceptorTypes \subseteq {"AcceptorCl", "ParallelAcceptor"}

VARIABLES
  acceptorType,   \* T, which never changes
  liveFlag,
  thread_,        \* "none" (not joinable), "check", "accept", "serve", "returned"
  owner,          \* "idle", "joining" (inside Stop), "destroyed" the server
  life,           \* "alive", or which call threw in a thread of the server
  backlog,        \* connections established but not accepted, in their order
  service,        \* of each connection: "none", "read", "write", "release", "done"
  late,           \* history: the clients accepted after Stop was called
  client,         \* what each SyncTCPClient is doing or how it ended
  sent            \* has its request line been written?

serverVars == <<liveFlag, thread_, owner, life>>
clientVars == <<client, sent>>
vars == <<acceptorType, serverVars, backlog, service, late, clientVars>>

Init ==
  /\ acceptorType \in AcceptorTypes
  /\ liveFlag = TRUE
  /\ thread_ = "none"
  /\ owner = "idle"
  /\ life = "alive"
  /\ backlog = <<>>
  /\ service = [c \in Clients |-> "none"]
  /\ late = {}
  /\ client = [c \in Clients |-> "new"]
  /\ sent = [c \in Clients |-> FALSE]

\* The client's end of the connection is closed.
Gone(c) == client[c] \in {"closed", "crashed", "destroyed", "terminated"}

-----------------------------------------------------------------------------
(* The owner of the server.                                                *)

\* Mutant: the thread accepts before it looks at liveFlag.
StartAccepting ==
  /\ owner = "idle"
  /\ thread_ = "none"
  /\ thread_' = "accept"
  /\ UNCHANGED <<liveFlag, owner, life, backlog, service, late, clientVars>>

\* Start; while there is a thread to join it does nothing.  Nobody sets
\* liveFlag again: after a Stop the new thread returns at once.
Start ==
  /\ owner = "idle"
  /\ thread_ = "none"
  /\ thread_' = "check"
  /\ UNCHANGED <<liveFlag, owner, life, backlog, service, late, clientVars>>

\* Stop up to the join.
Stop ==
  /\ owner = "idle"
  /\ liveFlag' = FALSE
  /\ owner' = IF thread_ = "none" THEN "idle" ELSE "joining"
  /\ UNCHANGED <<thread_, life, backlog, service, late, clientVars>>

\* Its join returns.
Joined ==
  /\ owner = "joining"
  /\ thread_ = "returned"
  /\ thread_' = "none"
  /\ owner' = "idle"
  /\ UNCHANGED <<liveFlag, life, backlog, service, late, clientVars>>

\* ~Server once its Stop has returned: the acceptor resets the connections
\* that it did not accept, and the io_context goes.
Destroy ==
  /\ owner = "idle"
  /\ thread_ = "none"
  /\ owner' = "destroyed"
  /\ liveFlag' = FALSE
  /\ backlog' = <<>>
  /\ UNCHANGED <<thread_, life, service, late, clientVars>>

-----------------------------------------------------------------------------
(* The thread of the server, and the threads of its services.              *)

\* Mutant: the loop has no condition.
CheckNothing ==
  /\ thread_ = "check"
  /\ thread_' = "accept"
  /\ UNCHANGED <<liveFlag, owner, life, backlog, service, late, clientVars>>

\* The condition of Run's loop.
CheckLiveFlag ==
  /\ thread_ = "check"
  /\ thread_' = IF liveFlag THEN "accept" ELSE "returned"
  /\ UNCHANGED <<liveFlag, owner, life, backlog, service, late, clientVars>>

\* Mutant: AcceptorCl detaches the service as ParallelAcceptor does.
AcceptDetached ==
  /\ thread_ = "accept"
  /\ backlog # <<>>
  /\ backlog' = Tail(backlog)
  /\ service' = [service EXCEPT ![Head(backlog)] = "read"]
  /\ late' = IF liveFlag THEN late ELSE late \cup {Head(backlog)}
  /\ thread_' = "check"
  /\ UNCHANGED <<liveFlag, owner, life, clientVars>>

\* T::Accept: the service begins to read the request, in this thread or in a
\* new one.
Accept ==
  /\ thread_ = "accept"
  /\ backlog # <<>>
  /\ backlog' = Tail(backlog)
  /\ service' = [service EXCEPT ![Head(backlog)] = "read"]
  /\ late' = IF liveFlag THEN late ELSE late \cup {Head(backlog)}
  /\ thread_' = IF acceptorType = "AcceptorCl" THEN "serve" ELSE "check"
  /\ UNCHANGED <<liveFlag, owner, life, clientVars>>

\* A call of the server throws, and nobody catches it.
Throws(call) ==
  /\ life' = call
  /\ UNCHANGED <<liveFlag, thread_, owner, backlog, service, late, clientVars>>

AcceptThrows == thread_ = "accept" /\ Throws("accept")

\* ServiceFake::HandleRequest up to the read: a line arrives, or the end of
\* the stream.  A client that closed may have reset what it had sent.
ReadRequest(c) ==
  /\ service[c] = "read"
  /\ \/ /\ sent[c]
        /\ service' = [service EXCEPT ![c] = "write"]
        /\ UNCHANGED <<serverVars, backlog, late, clientVars>>
     \/ Gone(c) /\ Throws("read")

\* Mutant: a request is dropped when the server was stopped meanwhile.
WriteAnswerIfLive(c) ==
  /\ service[c] = "write"
  /\ liveFlag
  /\ service' = [service EXCEPT ![c] = "release"]
  /\ UNCHANGED <<serverVars, backlog, late, clientVars>>

\* Its computation and its write.
WriteAnswer(c) ==
  /\ service[c] = "write"
  /\ \/ /\ service' = [service EXCEPT ![c] = "release"]
        /\ UNCHANGED <<serverVars, backlog, late, clientVars>>
     \/ Gone(c) /\ Throws("write")

\* The return: the socket is destroyed, in a detached thread after the service.
Release(c) ==
  /\ service[c] = "release"
  /\ service' = [service EXCEPT ![c] = "done"]
  /\ thread_' = IF acceptorType = "AcceptorCl" THEN "check" ELSE thread_
  /\ UNCHANGED <<liveFlag, owner, life, backlog, late, clientVars>>

\* A detached service uses its socket when the io_context is gone: undefined,
\* it may work all the same.
UseDestroyedContext(c) ==
  /\ service[c] \in {"read", "write", "release"}
  /\ owner = "destroyed"
  /\ Throws("undefined")

-----------------------------------------------------------------------------
(* The clients.                                                            *)

ClientMoves(c, state) ==
  /\ client' = [client EXCEPT ![c] = state]
  /\ UNCHANGED <<serverVars, service, late>>

\* Connect.  When it is refused the destructor follows, whose shutdown of an
\* unconnected socket throws.
Connect(c) ==
  /\ client[c] = "new"
  /\ \/ /\ owner # "destroyed"
        /\ ClientMoves(c, "connected")
        /\ backlog' = Append(backlog, c)
     \/ /\ owner = "destroyed"
        /\ ClientMoves(c, "terminated")
        /\ UNCHANGED backlog
  /\ UNCHANGED sent

\* The server let the connection go without an answer.
Reset(c) ==
  /\ owner = "destroyed"
  /\ service[c] = "none"

\* SendRequest.  The server has closed a connection that it answered: another
\* request on it fails, in this call or in the read.
SendRequest(c) ==
  /\ \/ /\ client[c] = "connected"
        /\ \/ ClientMoves(c, "waiting") /\ sent' = [sent EXCEPT ![c] = TRUE]
           \/ Reset(c) /\ ClientMoves(c, "failed") /\ UNCHANGED sent
     \/ /\ client[c] = "answered"
        /\ ClientMoves(c, "failed")
        /\ UNCHANGED sent
  /\ UNCHANGED backlog

\* ReceiveResponse
ReceiveResponse(c) ==
  /\ client[c] = "waiting"
  /\ \/ service[c] \in {"release", "done"} /\ ClientMoves(c, "answered")
     \/ Reset(c) /\ ClientMoves(c, "failed")
  /\ UNCHANGED <<backlog, sent>>

\* Close, called by the application.
Close(c) ==
  /\ client[c] \in {"connected", "answered"}
  /\ ClientMoves(c, "closed")
  /\ UNCHANGED <<backlog, sent>>

\* ~SyncTCPClient closes again: its shutdown throws if the socket is not, or no
\* longer, connected, which ends the client's program.
DestroyClient(c) ==
  /\ \/ client[c] \in {"connected", "answered", "failed"} /\ ClientMoves(c, "destroyed")
     \/ client[c] \in {"new", "closed", "failed"} /\ ClientMoves(c, "terminated")
  /\ UNCHANGED <<backlog, sent>>

\* The client's program ends while it waits for the answer.
Crash(c) ==
  /\ client[c] = "waiting"
  /\ ClientMoves(c, "crashed")
  /\ UNCHANGED <<backlog, sent>>

-----------------------------------------------------------------------------
ServerStep == life = "alive" /\ (CheckLiveFlag \/ Accept)

ServiceStep(c) == life = "alive" /\ (ReadRequest(c) \/ WriteAnswer(c) \/ Release(c))

Fails == life = "alive" /\ (AcceptThrows \/ \E c \in Clients : UseDestroyedContext(c))

OwnerStep == Start \/ Stop \/ Destroy

Request(c) == life = "alive" /\ (SendRequest(c) \/ ReceiveResponse(c))

ClientStep(c) == Connect(c) \/ Close(c) \/ DestroyClient(c) \/ Crash(c)

Next ==
  /\ UNCHANGED acceptorType
  /\ \/ ServerStep
     \/ \E c \in Clients : ServiceStep(c) \/ Request(c)
     \/ Fails
     \/ life = "alive" /\ (OwnerStep \/ Joined \/ \E c \in Clients : ClientStep(c))
     \/ (life # "alive" \/ owner = "destroyed") /\ UNCHANGED vars

Spec == Init /\ [][Next]_vars

(***************************************************************************)
(* Threads that can run do; a Stop that was begun returns when it can; and *)
(* whoever connected goes on to send its request, as all tests do, unless  *)
(* it closes or ends instead.  Clients need not come.                      *)
(***************************************************************************)
Fairness ==
  /\ WF_vars(ServerStep /\ UNCHANGED acceptorType)
  /\ WF_vars(life = "alive" /\ Joined /\ UNCHANGED acceptorType)
  /\ \A c \in Clients :
       /\ WF_vars(ServiceStep(c) /\ UNCHANGED acceptorType)
       /\ WF_vars(Request(c) /\ client[c] # "answered" /\ UNCHANGED acceptorType)

FairSpec == Spec /\ Fairness

-----------------------------------------------------------------------------
(* Properties.                                                             *)

\* Types; and AcceptorCl serves one connection at a time, in the thread that
\* accepts (ParallelAcceptor serves as many as there are clients).
TypeOK ==
  /\ acceptorType \in AcceptorTypes
  /\ liveFlag \in BOOLEAN
  /\ thread_ \in {"none", "check", "accept", "serve", "returned"}
  /\ owner \in {"idle", "joining", "destroyed"}
  /\ life \in {"alive", "accept", "read", "write", "undefined"}
  /\ backlog \in Seq(Clients)
  /\ service \in [Clients -> {"none", "read", "write", "release", "done"}]
  /\ late \subseteq Clients
  /\ client \in [Clients -> {"new", "connected", "waiting", "answered", "failed",
                             "closed", "crashed", "destroyed", "terminated"}]
  /\ sent \in [Clients -> BOOLEAN]
  /\ acceptorType = "AcceptorCl" =>
       LET Active == {c \in Clients : service[c] \in {"read", "write", "release"}}
       IN  Cardinality(Active) = IF thread_ = "serve" THEN 1 ELSE 0

\* Stop is not a barrier: the server may accept one more client after it, the
\* one that wakes its thread, but never two, started again or not.
OneAcceptAfterStop == Cardinality(late) <= 1

\* Stop returns if a client has connected that the blocked accept can return;
\* without one it may wait for ever.
StopReturnsIfClientComes ==
  (owner = "joining" /\ backlog # <<>>) ~> (owner # "joining" \/ life # "alive")

\* Why the server ended: an accept failed, its owner destroyed it under a service,
\* or a client left that was being read from or written to.
ServerLost ==
  \/ life \in {"accept", "undefined"}
  \/ \E c \in Clients : Gone(c) /\ service[c] = life

\* A request is answered once its connection was accepted, whatever the owner
\* does; one in the backlog, unless the owner stops the server.  Other clients can
\* prevent that in one way only, by leaving before they have their own answer.
SentIsAnswered ==
  \A c \in Clients :
    (client[c] = "waiting" /\ (service[c] # "none" \/ thread_ # "none"))
      ~> (client[c] # "waiting" \/ (service[c] = "none" /\ ~liveFlag) \/ ServerLost)

\* What the test tcp_parallel_server_client_sync takes for granted: a server
\* whose clients were all answered may be destroyed; no thread uses a socket of
\* its io_context any more.
AnsweredServerMayBeDestroyed ==
  owner = "destroyed" /\ (\A c \in Clients : service[c] # "none" => client[c] = "answered")
    => \A c \in Clients : service[c] \in {"none", "done"}
=============================================================================
