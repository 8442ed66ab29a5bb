------------------------------ MODULE IoBuffers ------------------------------
(***************************************************************************)
(* The stream helpers of asiolib/io_buffers.hpp, called by the tests of    *)
(* basics/server-client.cpp on the two ends of one connection.             *)
(*                                                                         *)
(* A connection holds at most Capacity bytes per direction; a write_some   *)
(* takes, and a read_some gives, any number of bytes from one up to what   *)
(* there is room for, or data.  A byte is its position in the message, so  *)
(* that a lost, repeated or swapped byte shows; some bytes of a message    *)
(* are delimiters.  A call is a sequence of steps of the thread it runs    *)
(* in; WriteAsync is two asynchronous operations of the thread that runs   *)
(* the io_context, and only they can be cancelled.                         *)
(***************************************************************************)
EXTENDS SingleConnection, Naturals, Sequences, FiniteSets, SequencesExt

CONSTANTS
  Scenarios,   \* which threads call what
  Sizes,       \* how long a message may be, and the template argument BufferSize
  Capacity     \* what the buffers of one direction hold

ASSUME BuffersAssumption ==
  /\ Scenarios \subseteq {"write_read_some", "asio_read_write", "asio_read_until",
                          "read_write_async", "cancel_async", "shutdown_send",
                          "both_ask", "both_answer", "two_lines"}
  /\ Sizes \subseteq Nat
  /\ Capacity \in Nat \ {0}

Ends == {"client", "server"}
Peer(e) == IF e = "client" THEN "server" ELSE "client"
Threads == {"t1", "t2"}

VARIABLES
  scenario,    \* one of Scenarios; this and the next three never change
  size,        \* the length of the message of each end
  marks,       \* the delimiters in it
  BufferSize,  \* what ReadFromSocket and Callback read
  todo,        \* the steps each thread has before it
  count,       \* totalByteWritten
  buffer,      \* what the current call has read
  outcome,     \* what the calls of each thread returned
  stream,      \* the bytes on their way from each end
  sendShut,    \* shutdown_send was called at this end
  broken,      \* the connection was lost
  thrown       \* the threads whose call ended with an exception

inputVars == <<scenario, size, marks, BufferSize>>
connVars == <<stream, sendShut, broken>>
ioVars == <<inputVars, todo, count, buffer, outcome, connVars, thrown>>
vars == <<setupVars, ioVars>>

Bytes(e) == [i \in 1..size[e] |-> i]

-----------------------------------------------------------------------------
(* The calls, as steps, and the scenarios.                                 *)

Steps(op) ==
  CASE op \in {"WriteToSocket", "WriteToSocketInSingleCall"} -> <<"write">>
    [] op \in {"ReadFromSocket", "ReadFromSocketInSingleCall"} -> <<"read", "return">>
    [] op = "ReadFromSocketByDelimiter" -> <<"readUntil", "getline">>
    [] op = "SendRequestAndGetReplay" -> <<"write", "shutdown", "readAll", "getline">>
    [] op = "GetRequestAndSendReplay" -> <<"readAll", "write", "shutdown", "getline">>
    [] op = "cancel" -> <<"cancel">>

Call(op, e) == LET s == Steps(op) IN
  [i \in 1..Len(s) |-> [op |-> op, do |-> s[i], sock |-> e]]

\* WriteAsync, whose Callback reads from the receiver until Callback2.
WriteAsync(sender, receiver) ==
  << [op |-> "WriteAsync", do |-> "write", sock |-> sender],
     [op |-> "WriteAsync", do |-> "callback", sock |-> sender],
     [op |-> "WriteAsync", do |-> "read", sock |-> receiver],
     [op |-> "WriteAsync", do |-> "return", sock |-> receiver] >>

\* A test that writes both messages and then reads both, in one thread.
WriteBothReadBoth(write, read) ==
  Call(write, "server") \o Call(write, "client")
    \o Call(read, "server") \o Call(read, "client")

\* What the two threads of a test call.  The last three are not in a test: both
\* ends ask, both ends answer, a message of more than one line is read.
Script(s) ==
  CASE s = "write_read_some" ->
         <<WriteBothReadBoth("WriteToSocket", "ReadFromSocket"), <<>>>>
    [] s = "asio_read_write" ->
         <<WriteBothReadBoth("WriteToSocketInSingleCall", "ReadFromSocketInSingleCall"), <<>>>>
    [] s = "asio_read_until" ->
         <<WriteBothReadBoth("WriteToSocketInSingleCall", "ReadFromSocketByDelimiter"), <<>>>>
    [] s = "read_write_async" -> <<WriteAsync("server", "client"), <<>>>>
    [] s = "cancel_async" -> <<Call("cancel", "server"), WriteAsync("server", "server")>>
    [] s = "shutdown_send" -> <<Call("SendRequestAndGetReplay", "client"),
                                Call("GetRequestAndSendReplay", "server")>>
    [] s = "both_ask" -> <<Call("SendRequestAndGetReplay", "client"),
                           Call("SendRequestAndGetReplay", "server")>>
    [] s = "both_answer" -> <<Call("GetRequestAndSendReplay", "client"),
                              Call("GetRequestAndSendReplay", "server")>>
    [] s = "two_lines" -> <<Call("WriteToSocket", "server"),
                            Call("ReadFromSocketByDelimiter", "client")
                              \o Call("ReadFromSocketByDelimiter", "client")>>

UsesBufferSize ==
  {"write_read_some", "asio_read_write", "read_write_async", "cancel_async"}

Init ==
  /\ InitSetup
  /\ scenario \in Scenarios
  /\ size \in [Ends -> Sizes]
  /\ marks \in [Ends -> {m \in SUBSET UNION {1..n : n \in Sizes} : Cardinality(m) <= 2}]
  /\ \A e \in Ends :
       marks[e] \subseteq IF scenario \in UsesBufferSize THEN {} ELSE 1..size[e]
  /\ BufferSize \in IF scenario \in UsesBufferSize THEN Sizes ELSE {0}
  /\ todo = [t \in Threads |-> Script(scenario)[IF t = "t1" THEN 1 ELSE 2]]
  /\ count = [t \in Threads |-> 0]
  /\ buffer = [t \in Threads |-> <<>>]
  /\ outcome = [t \in Threads |-> <<>>]
  /\ stream = [e \in Ends |-> <<>>]
  /\ sendShut = [e \in Ends |-> FALSE]
  /\ broken = FALSE
  /\ thrown = {}

-----------------------------------------------------------------------------
(* Steps of a thread.                                                      *)

Doing(t, what) == todo[t] # <<>> /\ Head(todo[t]).do \in what
Sock(t) == Head(todo[t]).sock
Advance(t) == todo' = [todo EXCEPT ![t] = Tail(@)]

\* An exception leaves the thread's call; the test gives up.
Throw(t) ==
  /\ todo' = [todo EXCEPT ![t] = <<>>]
  /\ thrown' = thrown \cup {t}
  /\ UNCHANGED <<count, buffer, outcome, connVars>>

\* n bytes of the message are written, those after the first from.
Put(t, from, n) ==
  /\ stream' = [stream EXCEPT ![Sock(t)] = @ \o [i \in 1..n |-> from + i]]
  /\ count' = [count EXCEPT ![t] = @ + n]
  /\ UNCHANGED <<todo, buffer, outcome, sendShut, broken, thrown>>

Room(e) == Capacity - Len(stream[e])

\* Mutant: every write_some begins at the first byte.
WriteSomeFromStart(t) ==
  /\ Doing(t, {"write"})
  /\ ~broken
  /\ \E n \in 1..size[Sock(t)] - count[t] : n <= Room(Sock(t)) /\ Put(t, 0, n)

\* Mutant: write_some is offered as many bytes as the whole message has.
WriteSomeTooMuch(t) ==
  /\ Doing(t, {"write"})
  /\ ~broken
  /\ count[t] < size[Sock(t)]
  /\ \E n \in 1..size[Sock(t)] : n <= Room(Sock(t)) /\ Put(t, count[t], n)

\* One write_some of the loop.
WriteSome(t) ==
  /\ Doing(t, {"write"})
  /\ ~broken
  /\ \E n \in 1..size[Sock(t)] - count[t] : n <= Room(Sock(t)) /\ Put(t, count[t], n)

\* The loop ends.
Written(t) ==
  /\ Doing(t, {"write"})
  /\ ~broken
  /\ count[t] = size[Sock(t)]
  /\ Advance(t)
  /\ count' = [count EXCEPT ![t] = 0]
  /\ UNCHANGED <<buffer, outcome, connVars, thrown>>

Arrived(e) == stream[Peer(e)]
Eof(e) == Arrived(e) = <<>> /\ sendShut[Peer(e)]

\* Has the read got what it is for?  (read_until stops at the first delimiter
\* among what has come, which may be more than a line.)
Enough(t) ==
  \/ Doing(t, {"read"}) /\ Len(buffer[t]) = BufferSize
  \/ Doing(t, {"readUntil"}) /\ ToSet(buffer[t]) \cap marks[Peer(Sock(t))] # {}
  \/ Doing(t, {"readAll"}) /\ Eof(Sock(t))

Reads == {"read", "readUntil", "readAll"}

\* One read_some of a reading call; read never asks for more than is missing.
ReadSome(t) ==
  /\ Doing(t, Reads)
  /\ ~broken
  /\ ~Enough(t)
  /\ \E n \in 1..Len(Arrived(Sock(t))) :
       /\ Doing(t, {"read"}) => n <= BufferSize - Len(buffer[t])
       /\ buffer' = [buffer EXCEPT ![t] = @ \o SubSeq(Arrived(Sock(t)), 1, n)]
       /\ stream' = [stream EXCEPT ![Peer(Sock(t))] = SubSeq(@, n + 1, Len(@))]
  /\ UNCHANGED <<todo, count, outcome, sendShut, broken, thrown>>

ReadEnds(t) ==
  /\ Doing(t, Reads)
  /\ ~broken
  /\ Enough(t)
  /\ Advance(t)
  /\ UNCHANGED <<count, buffer, outcome, connVars, thrown>>

\* The end of the stream is an exception except to the readers that wait for it.
ReadThrows(t) ==
  /\ Doing(t, {"read", "readUntil"})
  /\ ~Enough(t)
  /\ Eof(Sock(t))
  /\ Throw(t)

\* Mutant: shutdown(shutdown_receive)
ShutdownReceive(t) ==
  /\ Doing(t, {"shutdown"})
  /\ ~broken
  /\ Advance(t)
  /\ UNCHANGED <<count, buffer, outcome, connVars, thrown>>

\* shutdown(shutdown_send)
ShutdownSend(t) ==
  /\ Doing(t, {"shutdown"})
  /\ ~broken
  /\ Advance(t)
  /\ sendShut' = [sendShut EXCEPT ![Sock(t)] = TRUE]
  /\ UNCHANGED <<count, buffer, outcome, stream, broken, thrown>>

\* std::getline: the bytes before the first delimiter, or all of them.
Line(s, delimiters) ==
  LET i == SelectInSeq(s, LAMBDA b : b \in delimiters) IN
  IF i = 0 THEN s ELSE SubSeq(s, 1, i - 1)

\* The call returns what it has read.  The rest of a streambuf goes with it.
Return(t) ==
  /\ Doing(t, {"return", "getline"})
  /\ Advance(t)
  /\ outcome' = [outcome EXCEPT ![t] = Append(@,
       [sock |-> Sock(t), op |-> Head(todo[t]).op,
        value |-> IF Doing(t, {"return"}) THEN buffer[t]
                  ELSE Line(buffer[t], marks[Peer(Sock(t))])])]
  /\ buffer' = [buffer EXCEPT ![t] = <<>>]
  /\ UNCHANGED <<count, connVars, thrown>>

\* Callback starts to read; until then no operation is there to be cancelled.
Callback(t) ==
  /\ Doing(t, {"callback"})
  /\ Advance(t)
  /\ UNCHANGED <<count, buffer, outcome, connVars, thrown>>

\* socket::cancel.  Callback throws the error out of run, Callback2 returns.
CancelSocket(t) ==
  /\ Doing(t, {"cancel"})
  /\ LET Hit(u, what) == /\ Doing(u, {what})
                         /\ Head(todo[u]).op = "WriteAsync"
                         /\ Sock(u) = Sock(t)
     IN  /\ todo' = [u \in Threads |->
                      IF u = t \/ ~(Hit(u, "write") \/ Hit(u, "read"))
                      THEN IF u = t THEN Tail(todo[u]) ELSE todo[u]
                      ELSE <<>>]
         /\ thrown' = thrown \cup {u \in Threads : Hit(u, "write")}
  /\ UNCHANGED <<count, buffer, outcome, connVars>>

-----------------------------------------------------------------------------
(* The connection is lost; whatever uses it throws.                        *)

Break ==
  /\ ~broken
  /\ broken' = TRUE
  /\ UNCHANGED <<todo, count, buffer, outcome, stream, sendShut, thrown>>

BrokenThrows(t) ==
  /\ broken
  /\ Doing(t, Reads \cup {"write", "shutdown"})
  /\ Throw(t)

Step(t) ==
  /\ main = "connected"
  /\ \/ WriteSome(t) \/ Written(t) \/ ReadSome(t) \/ ReadEnds(t) \/ ReadThrows(t)
     \/ ShutdownSend(t) \/ Return(t) \/ Callback(t) \/ CancelSocket(t) \/ BrokenThrows(t)
  /\ UNCHANGED <<setupVars, inputVars>>

Next ==
  \/ Setup /\ UNCHANGED ioVars
  \/ \E t \in Threads : Step(t)
  \/ main = "connected" /\ Break /\ UNCHANGED <<setupVars, inputVars>>

Spec == Init /\ [][Next]_vars

\* Each thread runs when it can.
FairSpec ==
  /\ Spec
  /\ WF_vars(server # "terminated" /\ ServerMoves /\ UNCHANGED ioVars)
  /\ WF_vars(server # "terminated" /\ MainMoves /\ UNCHANGED ioVars)
  /\ \A t \in Threads : WF_vars(Step(t))

-----------------------------------------------------------------------------
(* Properties.                                                             *)

\* Types; and no call writes more than its message, or reads more than it wants.
TypeOK ==
  /\ server \in {"opening", "promising", "accepting", "returned", "terminated"}
  /\ promise \in {"empty", "value", "exception"}
  /\ main \in {"waiting", "joining", "done", "connected", "failed"}
  /\ \A t \in Threads :
       /\ todo[t] # <<>> =>
            count[t] <= IF Doing(t, {"write"}) THEN size[Sock(t)] ELSE 0
       /\ Doing(t, {"read"}) => Len(buffer[t]) <= BufferSize
  /\ thrown \subseteq Threads
  /\ \A e \in Ends : Len(stream[e]) <= Capacity

\* The bytes of m from position i up to the next delimiter.
LineFrom(m, i, delimiters) == Line(SubSeq(m, i, Len(m)), delimiters)

\* The k-th of the results q is what the peer wrote, whole and in order: BufferSize
\* bytes from the first on, the line up to the delimiter, or for a request or replay
\* its first line.  A later read by delimiter at the same end may find its line
\* torn, as the streambuf of the first went with bytes after its delimiter, but no
\* byte of a line read before.
IsWhole(q, k) ==
  LET o == q[k]
      m == Bytes(Peer(o.sock))
      earlier == {j \in 1..k - 1 : q[j].sock = o.sock}
  IN  IF o.op \in {"ReadFromSocket", "ReadFromSocketInSingleCall", "WriteAsync"}
      THEN o.value = SubSeq(m, 1, BufferSize)
      ELSE \E i \in 1..Len(m) + 1 :
             /\ o.value = LineFrom(m, i, marks[Peer(o.sock)])
             /\ IF earlier = {} THEN i = 1
                ELSE \E d \in marks[Peer(o.sock)] :
                       d < i /\ \A j \in earlier : \A b \in ToSet(q[j].value) : b < d

\* A call that returns has what the peer wrote, from its first byte on, however it
\* was cut on the way.
WholeOrThrown ==
  \A t \in Threads : \A k \in DOMAIN outcome[t] : IsWhole(outcome[t], k)

Finished == \A t \in Threads : todo[t] = <<>>

Fits(e) == size[e] <= Capacity

\* Do the buffers and the other end let all calls of the scenario return?
CanReturn ==
  CASE scenario \in {"write_read_some", "asio_read_write"} ->
         \A e \in Ends : Fits(e) /\ BufferSize <= size[e]
    [] scenario = "asio_read_until" -> \A e \in Ends : Fits(e) /\ marks[e] # {}
    [] scenario = "read_write_async" -> Fits("server") /\ BufferSize <= size["server"]
    [] scenario = "shutdown_send" -> TRUE
    [] scenario = "both_ask" -> \E e \in Ends : Fits(e)
    [] OTHER -> FALSE

\* Unless the messages fit, the scenario does not end, except that the connection
\* is lost: one thread that writes first at both ends needs room for both messages,
\* two requests meeting need room for one, two answers wait for each other for ever.
OnlyIfItFits ==
  ~CanReturn /\ scenario \notin {"two_lines", "cancel_async"} => broken \/ ~Finished

\* The set-up ends, its promise fulfilled once.  Then all calls return, without
\* exception, exactly if the messages fit; only the half-close protocol of the two
\* functions made for each other works for all messages.
ReturnsIfItFits ==
  /\ fixture = "SetUp" => <>(main # "waiting") /\ [](server # "terminated")
  /\ (main = "connected" /\ CanReturn) ~> (Finished /\ (thrown = {} \/ broken))
  /\ []OnlyIfItFits
=============================================================================
