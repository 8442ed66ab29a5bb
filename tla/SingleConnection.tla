-------------------------- MODULE SingleConnection --------------------------
(***************************************************************************)
(* How the tests of basics/server-client.cpp come to a connection: a       *)
(* thread runs RunServer or GetSingleClientSocket (asiolib/servers.hpp)    *)
(* with a promise; the main thread waits for the promise and connects.     *)
(*                                                                         *)
(* RunServer fulfils the promise when it listens, GetSingleClientSocket    *)
(* when it has accepted: there the main thread has to connect while it     *)
(* waits, and the first attempts may be refused.                           *)
(***************************************************************************)
CONSTANT Fixtures   \* which of the two set-ups are looked at

ASSUME FixturesAssumption == Fixtures \subseteq {"SetUp", "runServer_runClient"}

VARIABLES
  fixture,      \* one of Fixtures; it never changes
  server,       \* "opening", "promising", "accepting", "returned", "terminated"
  promise,      \* "empty", "value", "exception"
  clientSocket, \* "none", "connected", "refused" (RunClient gave up)
  main          \* "waiting", "joining", "done", "connected", "failed"

setupVars == <<fixture, server, promise, clientSocket, main>>

InitSetup ==
  /\ fixture \in Fixtures
  /\ server = "opening"
  /\ promise = "empty"
  /\ clientSocket = "none"
  /\ main = "waiting"

-----------------------------------------------------------------------------
(* The server's thread.                                                    *)

\* The acceptor is open, bound and listens.
Listen ==
  /\ server = "opening"
  /\ server' = IF fixture = "SetUp" THEN "accepting" ELSE "promising"
  /\ UNCHANGED <<fixture, promise, clientSocket, main>>

\* RunServer's set_value
Promise ==
  /\ server = "promising"
  /\ server' = "accepting"
  /\ promise' = "value"
  /\ UNCHANGED <<fixture, clientSocket, main>>

\* accept returns; GetSingleClientSocket hands its socket over.
AcceptClient ==
  /\ server = "accepting"
  /\ clientSocket = "connected"
  /\ server' = "returned"
  /\ promise' = "value"
  /\ UNCHANGED <<fixture, clientSocket, main>>

\* The catch clause, when open, bind, listen or accept throws.  A promise that
\* has its value throws once more, and the program ends.
SetException ==
  /\ server \in {"opening", "accepting"}
  /\ server' = IF promise = "empty" THEN "returned" ELSE "terminated"
  /\ promise' = IF promise = "empty" THEN "exception" ELSE promise
  /\ UNCHANGED <<fixture, clientSocket, main>>

-----------------------------------------------------------------------------
(* The main thread.                                                        *)

\* SetUp's loop: GetConnectedSocket.  Refused, it is tried again.
ConnectInSetUp ==
  /\ fixture = "SetUp"
  /\ main = "waiting"
  /\ promise = "empty"
  /\ clientSocket = "none"
  /\ server = "accepting"
  /\ clientSocket' = "connected"
  /\ UNCHANGED <<fixture, server, promise, main>>

\* SetUp's future.get
GetSocket ==
  /\ fixture = "SetUp"
  /\ main = "waiting"
  /\ promise # "empty"
  /\ main' = IF promise = "value" THEN "connected" ELSE "failed"
  /\ UNCHANGED <<fixture, server, promise, clientSocket>>

\* The test runServer_runClient: RunClient prints its exception, if any.
RunClient ==
  /\ fixture = "runServer_runClient"
  /\ main = "waiting"
  /\ \/ promise = "exception" /\ main' = "failed" /\ UNCHANGED clientSocket
     \/ promise = "value" /\ main' = "joining" /\ clientSocket' = "connected"
     \/ promise = "value" /\ main' = "joining" /\ clientSocket' = "refused"
  /\ UNCHANGED <<fixture, server, promise>>

\* The jthread of RunServer joins.
JoinServer ==
  /\ main = "joining"
  /\ server = "returned"
  /\ main' = "done"
  /\ UNCHANGED <<fixture, server, promise, clientSocket>>

ServerMoves == Listen \/ Promise \/ AcceptClient

MainMoves == ConnectInSetUp \/ GetSocket \/ RunClient \/ JoinServer

Setup == server # "terminated" /\ (ServerMoves \/ SetException \/ MainMoves)

\* Both threads run; nothing has to fail.
SetupFairness ==
  /\ WF_setupVars(server # "terminated" /\ ServerMoves)
  /\ WF_setupVars(server # "terminated" /\ MainMoves)
=============================================================================
