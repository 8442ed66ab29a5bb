------------------------- MODULE TcpServerSyncProofs -------------------------
(***************************************************************************)
(* The safety properties of TcpServerSync hold for any number of clients   *)
(* and both acceptors.                                                     *)
(***************************************************************************)
EXTENDS TcpServerSync, FiniteSetTheorems, TLAPS

Active == {c \in Clients : service[c] \in {"read", "write", "release"}}

\* The types of the variables, without what TypeOK says of the services.
Types ==
  /\ acceptorType \in AcceptorTypes
  /\ liveFlag \in BOOLEAN
  /\ thread_ \in {"none", "check", "accept", "serve", "returned"}
  /\ owner \in {"idle", "joining", "destroyed"}
  /\ life \in {"alive", "accept", "read", "write", "undefined"}
  /\ backlog \in Seq(Clients)
  /\ service \in [Clients -> {"none", "read", "write", "release", "done"}]
  /\ late \subseteq Clients
  /\ client \in [Clients -> {"new", "connected", "waiting", "answered", "failed",
                             "closed", "crashed", "destroyed", "terminated"}]
  /\ sent \in [Clients -> BOOLEAN]

\* The accepting thread of an AcceptorCl is in the one service there is; that
\* of a ParallelAcceptor is in none.
Serving ==
  /\ acceptorType = "AcceptorCl" =>
       /\ \A c, d \in Active : c = d
       /\ Active # {} <=> thread_ = "serve"
  /\ acceptorType # "AcceptorCl" => thread_ # "serve"

\* Whoever was accepted late has shown liveFlag to the thread, and nobody sets
\* it again: there is no way back to the accept.
Woken ==
  /\ \A c, d \in late : c = d
  /\ late # {} => ~liveFlag /\ thread_ # "accept"

IInv == Types /\ Serving /\ Woken

-----------------------------------------------------------------------------
USE DEF serverVars, clientVars

\* The owner accepts nobody and never sets liveFlag.
LEMMA OwnerKeeps ==
  ASSUME IInv, UNCHANGED acceptorType, OwnerStep \/ Joined
  PROVE  IInv'
<1> USE DEF IInv, Types, OwnerStep, Start, Stop, Destroy, Joined
<1>1. Types'
  <2>1. <<>> \in Seq(Clients)
    OBVIOUS
  <2> QED  BY <2>1
<1>2. Serving'
  BY DEF Serving, Active
<1>3. Woken'
  BY DEF Woken
<1> QED  BY <1>1, <1>2, <1>3

\* The accept thread accepts once after a Stop, then sees liveFlag.
LEMMA ServerKeeps ==
  ASSUME IInv, UNCHANGED acceptorType, CheckLiveFlag \/ Accept \/ Fails
  PROVE  IInv'
<1> USE DEF IInv, Types
<1>1. CASE CheckLiveFlag
  <2> USE <1>1 DEF CheckLiveFlag
  <2>1. Types'
    OBVIOUS
  <2>2. Serving' /\ Woken'
    BY DEF Serving, Active, Woken
  <2> QED  BY <2>1, <2>2
<1>2. CASE Accept
  <2>1. PICK c \in Clients : c = Head(backlog)
    BY <1>2 DEF Accept
  <2>2. service' = [service EXCEPT ![c] = "read"]
    BY <1>2, <2>1 DEF Accept
  <2>3. Tail(backlog) \in Seq(Clients)
    BY <1>2 DEF Accept
  <2>4. Types'
    BY <1>2, <2>1, <2>2, <2>3 DEF Accept
  <2>5. Serving'
    BY <1>2, <2>2 DEF Accept, Serving, Active
  <2>6. Woken'
    BY <1>2, <2>1 DEF Accept, Woken
  <2> QED  BY <2>4, <2>5, <2>6
<1>3. CASE Fails
  <2>1. /\ life' \in {"accept", "undefined"}
        /\ UNCHANGED <<liveFlag, thread_, owner, backlog, service, late, clientVars>>
    BY <1>3 DEF Fails, AcceptThrows, UseDestroyedContext, Throws
  <2> QED  BY <2>1 DEF Serving, Active, Woken
<1> QED  BY <1>1, <1>2, <1>3

\* A service stays the only one, or ends.
LEMMA ServiceKeeps ==
  ASSUME IInv, UNCHANGED acceptorType, NEW c \in Clients,
         ReadRequest(c) \/ WriteAnswer(c) \/ Release(c)
  PROVE  IInv'
<1> USE DEF IInv, Types
<1>1. CASE ReadRequest(c)
  BY <1>1 DEF ReadRequest, Throws, Serving, Active, Woken
<1>2. CASE WriteAnswer(c)
  BY <1>2 DEF WriteAnswer, Throws, Serving, Active, Woken
<1>3. CASE Release(c)
  BY <1>3 DEF Release, Serving, Active, Woken
<1> QED  BY <1>1, <1>2, <1>3

\* What the clients do is no business of the server's threads.
LEMMA ClientsKeep ==
  ASSUME IInv, UNCHANGED acceptorType, NEW c \in Clients,
         SendRequest(c) \/ ReceiveResponse(c) \/ ClientStep(c)
  PROVE  IInv'
<1> USE DEF IInv, Types
<1>1. UNCHANGED <<serverVars, service, late>>
  BY DEF SendRequest, ReceiveResponse, ClientStep, Connect, Close, DestroyClient,
     Crash, ClientMoves
<1>2. Types'
  <2> USE DEF ClientMoves
  <2>1. CASE SendRequest(c) \/ ReceiveResponse(c)
    BY <2>1 DEF SendRequest, ReceiveResponse
  <2>2. CASE Connect(c)
    <3>1. backlog' \in Seq(Clients)
      BY <2>2 DEF Connect
    <3> QED  BY <2>2, <3>1 DEF Connect
  <2>3. CASE Close(c) \/ DestroyClient(c) \/ Crash(c)
    BY <2>3 DEF Close, DestroyClient, Crash
  <2> QED  BY <2>1, <2>2, <2>3 DEF ClientStep
<1>3. Serving' /\ Woken'
  BY <1>1 DEF Serving, Active, Woken
<1> QED  BY <1>2, <1>3

\* The invariant is inductive.
LEMMA Inductive == IInv /\ [Next]_vars => IInv'
<1> SUFFICES ASSUME IInv, [Next]_vars PROVE IInv'
  OBVIOUS
<1>1. CASE UNCHANGED vars
  BY <1>1 DEF vars, IInv, Types, Serving, Active, Woken
<1>2. CASE Next
  BY <1>1, <1>2, OwnerKeeps, ServerKeeps, ServiceKeeps, ClientsKeep
     DEF Next, ServerStep, ServiceStep, Request
<1> QED  BY <1>1, <1>2

\* The invariant holds of every behaviour.
THEOREM Invariant == Spec => []IInv
<1>1. Init => IInv
  BY DEF Init, IInv, Types, Serving, Active, Woken
<1> QED  BY <1>1, Inductive, PTL DEF Spec

-----------------------------------------------------------------------------
\* A set without two different elements has at most one, and exactly one if it
\* is not empty.
LEMMA AtMostOne ==
  ASSUME NEW S, \A x, y \in S : x = y
  PROVE  Cardinality(S) = IF S = {} THEN 0 ELSE 1
<1>1. CASE S = {}
  BY <1>1, FS_EmptySet
<1>2. CASE S # {}
  <2>1. PICK x \in S : S = {x}
    BY <1>2
  <2> QED  BY <2>1, FS_Singleton
<1> QED  BY <1>1, <1>2

\* Types, and AcceptorCl serves its clients one by one.
THEOREM TypeCorrect == Spec => []TypeOK
<1>1. IInv => TypeOK
  BY AtMostOne DEF IInv, Types, Serving, Active, TypeOK
<1> QED  BY <1>1, Invariant, PTL

\* After Stop the server accepts at most the one client that wakes its thread.
THEOREM OneLateClient == Spec => []OneAcceptAfterStop
<1>1. IInv => OneAcceptAfterStop
  BY AtMostOne DEF IInv, Woken, OneAcceptAfterStop
<1> QED  BY <1>1, Invariant, PTL

-----------------------------------------------------------------------------
(* The destructor.                                                         *)

\* What AnsweredServerMayBeDestroyed asks of every server, without its
\* condition: no thread of a destroyed one uses its io_context.
LeavesNoThread ==
  /\ owner = "destroyed" => Active = {}
  /\ life # "undefined"

\* Only the owner's Start could give a joined server another accept thread; an
\* AcceptorCl serves in the accept thread, which the destructor has joined.
JoinedForGood ==
  /\ owner = "destroyed" => thread_ = "none"
  /\ acceptorType = "AcceptorCl" => life # "undefined"

\* Every step keeps it: with AcceptorCl no service is left once there is no
\* thread (Serving), hence none to use a destroyed context.
LEMMA JoinedKeeps == IInv /\ JoinedForGood /\ [Next]_vars => JoinedForGood'
<1> SUFFICES ASSUME IInv, JoinedForGood, [Next]_vars PROVE JoinedForGood'
  OBVIOUS
<1> USE DEF JoinedForGood
<1>1. CASE UNCHANGED vars
  BY <1>1 DEF vars
<1>2. CASE Next
  <2>0. UNCHANGED acceptorType
    BY <1>2 DEF Next
  <2>1. CASE OwnerStep \/ Joined
    BY <2>0, <2>1 DEF OwnerStep, Start, Stop, Destroy, Joined
  <2>2. CASE CheckLiveFlag \/ Accept \/ AcceptThrows
    BY <2>0, <2>2 DEF CheckLiveFlag, Accept, AcceptThrows, Throws
  <2>3. ASSUME NEW c \in Clients, UseDestroyedContext(c) PROVE JoinedForGood'
    <3>1. acceptorType = "AcceptorCl" => Active = {}
      BY <2>3 DEF UseDestroyedContext, IInv, Serving
    <3>2. c \in Active
      BY <2>3 DEF UseDestroyedContext, Active
    <3> QED  BY <2>0, <2>3, <3>1, <3>2 DEF UseDestroyedContext, Throws
  <2>4. ASSUME NEW c \in Clients, ReadRequest(c) \/ WriteAnswer(c)
        PROVE  JoinedForGood'
    BY <2>0, <2>4 DEF ReadRequest, WriteAnswer, Throws
  <2>5. ASSUME NEW c \in Clients, Release(c) PROVE JoinedForGood'
    <3>1. acceptorType = "AcceptorCl" => thread_ = "serve"
      BY <2>5 DEF Release, IInv, Serving, Active
    <3> QED  BY <2>0, <2>5, <3>1 DEF Release
  <2>6. ASSUME NEW c \in Clients,
               SendRequest(c) \/ ReceiveResponse(c) \/ ClientStep(c)
        PROVE  JoinedForGood'
    BY <2>0, <2>6 DEF SendRequest, ReceiveResponse, ClientStep, Connect, Close,
       DestroyClient, Crash, ClientMoves
  <2> QED
    BY <1>1, <1>2, <2>1, <2>2, <2>3, <2>4, <2>5, <2>6
       DEF Next, ServerStep, ServiceStep, Fails, Request
<1> QED  BY <1>1, <1>2

\* A server with AcceptorCl may be destroyed at any time: no thread of it is
\* left.  The run sync_server_destroyed shows that ParallelAcceptor may not.
THEOREM JoinedServerMayBeDestroyed ==
  Spec => [](acceptorType = "AcceptorCl" => LeavesNoThread)
<1>1. Init => JoinedForGood
  BY DEF Init, JoinedForGood
<1>2. IInv /\ JoinedForGood => (acceptorType = "AcceptorCl" => LeavesNoThread)
  BY DEF IInv, Serving, JoinedForGood, LeavesNoThread
<1> QED  BY <1>1, <1>2, Invariant, JoinedKeeps, PTL DEF Spec
=============================================================================
