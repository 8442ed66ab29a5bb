------------------------- MODULE IoBuffersRoomProofs -------------------------
(***************************************************************************)
(* A scenario of the stream helpers ends only if the messages fit, or the  *)
(* connection is lost; and only a lost connection makes a call throw: two  *)
(* theorems, with their proofs.                                            *)
(*                                                                         *)
(* Nobody reads before somebody has written a whole message; until then a  *)
(* stream holds all that was written, and it has no more room than         *)
(* Capacity.  Only the scripts that half-close an end have reads that the  *)
(* end of a stream ends well.                                              *)
(***************************************************************************)
EXTENDS IoBuffersProofs

Boths == {"write_read_some", "asio_read_write", "asio_read_until"}

\* The message of e is enough for the call that reads it.
Satisfies(e) ==
  IF scenario = "asio_read_until" THEN marks[e] # {} ELSE BufferSize <= size[e]

\* One thread writes at the server's end, then at the client's, and then reads.
BothRoom ==
  LET k == Pc("t1") IN
  /\ todo["t2"] = <<>>
  /\ \A e \in Ends : ~sendShut[e]
  /\ k = 1 => Len(stream["server"]) = count["t1"]
  /\ k <= 1 => Len(stream["client"]) = 0
  /\ k = 2 => Len(stream["client"]) = count["t1"]
  /\ k \geq 2 => Fits("server")
  /\ k \geq 3 => Fits("client")
  /\ k \geq 4 => Satisfies("client")
  /\ k \geq 6 => Satisfies("server")

\* The server's message is written before the client's end is read.
AsyncRoom ==
  LET k == Pc("t1") IN
  /\ todo["t2"] = <<>>
  /\ \A e \in Ends : ~sendShut[e]
  /\ k = 1 => Len(stream["server"]) = count["t1"]
  /\ k \geq 2 => Fits("server")
  /\ k \geq 4 => Satisfies("server")

\* Of two requests one is written before the other end reads.
AskRoom ==
  LET k1 == Pc("t1")
      k2 == Pc("t2")
  IN  /\ k1 <= 2 /\ k2 <= 2 =>
           /\ Len(stream["client"]) = IF k1 = 1 THEN count["t1"] ELSE size["client"]
           /\ Len(stream["server"]) = IF k2 = 1 THEN count["t2"] ELSE size["server"]
      /\ k1 \geq 2 \/ k2 \geq 2 => \E e \in Ends : Fits(e)

\* Two answers wait for each other.
AnswerRoom ==
  /\ Pc("t1") = 1 /\ Pc("t2") = 1
  /\ \A e \in Ends : ~sendShut[e]

RoomInv ==
  ~broken =>
    /\ scenario \in Boths => BothRoom
    /\ scenario = "read_write_async" => AsyncRoom
    /\ scenario = "both_ask" => AskRoom
    /\ scenario = "both_answer" => AnswerRoom

-----------------------------------------------------------------------------
(* The scripts of the scenarios.                                           *)

\* Three tests write both messages and then read both.
LEMMA BothPlan ==
  ASSUME scenario \in Boths
  PROVE  LET s == Plan("t1") IN
         /\ Plan("t2") = <<>>
         /\ Len(s) = 6
         /\ s[1].do = "write" /\ s[1].sock = "server"
         /\ s[2].do = "write" /\ s[2].sock = "client"
         /\ s[3].do = (IF scenario = "asio_read_until" THEN "readUntil" ELSE "read")
         /\ s[3].sock = "server"
         /\ s[4].do \in Delivers
         /\ s[5].do = s[3].do /\ s[5].sock = "client"
         /\ s[6].do \in Delivers
<1>1. CASE scenario = "write_read_some"
  <2>1. Plan("t1") = WriteBothReadBoth("WriteToSocket", "ReadFromSocket") /\ Plan("t2") = <<>>
    BY <1>1 DEF Plan, Script
  <2>2. QED  BY <1>1, <2>1, BothSteps DEF Whole, Delivers
<1>2. CASE scenario = "asio_read_write"
  <2>1. /\ Plan("t1") = WriteBothReadBoth("WriteToSocketInSingleCall",
                                          "ReadFromSocketInSingleCall")
        /\ Plan("t2") = <<>>
    BY <1>2 DEF Plan, Script
  <2>2. QED  BY <1>2, <2>1, BothSteps DEF Whole, Delivers
<1>3. CASE scenario = "asio_read_until"
  <2>1. /\ Plan("t1") = WriteBothReadBoth("WriteToSocketInSingleCall",
                                          "ReadFromSocketByDelimiter")
        /\ Plan("t2") = <<>>
    BY <1>3 DEF Plan, Script
  <2>2. QED  BY <1>3, <2>1, BothSteps DEF Whole, Delivers
<1>4. QED  BY <1>1, <1>2, <1>3 DEF Boths

\* WriteAsync writes at the server's end and reads at the client's.
LEMMA AsyncPlan ==
  ASSUME scenario = "read_write_async"
  PROVE  LET s == Plan("t1") IN
         /\ Plan("t2") = <<>>
         /\ Len(s) = 4
         /\ s[1].do = "write" /\ s[1].sock = "server"
         /\ s[2].do = "callback"
         /\ s[3].do = "read" /\ s[3].sock = "client"
         /\ s[4].do = "return"
<1>1. Plan("t1") = WriteAsync("server", "client") /\ Plan("t2") = <<>>
  BY DEF Plan, Script
<1> DEFINE c == WriteAsync("server", "client")
<1> HIDE DEF c
<1>2. /\ Len(c) = 4
      /\ c[1] = [op |-> "WriteAsync", do |-> "write", sock |-> "server"]
      /\ c[2] = [op |-> "WriteAsync", do |-> "callback", sock |-> "server"]
      /\ c[3] = [op |-> "WriteAsync", do |-> "read", sock |-> "client"]
      /\ c[4] = [op |-> "WriteAsync", do |-> "return", sock |-> "client"]
  BY AsyncSteps, Names DEF c
<1>3. QED  BY <1>1, <1>2 DEF c

\* Both ends ask: they write, shut down and read.
LEMMA AskPlan ==
  ASSUME scenario = "both_ask"
  PROVE  \A t \in Threads :
           LET s == Plan(t) IN
           /\ Len(s) = 4
           /\ s[1].do = "write" /\ s[1].sock = IF t = "t1" THEN "client" ELSE "server"
           /\ s[2].do = "shutdown"
           /\ s[3].do = "readAll"
           /\ s[4].do = "getline"
<1>1. /\ Plan("t1") = Call("SendRequestAndGetReplay", "client")
      /\ Plan("t2") = Call("SendRequestAndGetReplay", "server")
  BY DEF Plan, Script
<1>2. QED
  <2> SUFFICES ASSUME NEW t \in Threads, NEW e, e = IF t = "t1" THEN "client" ELSE "server"
               PROVE  LET s == Plan(t) IN
                      /\ Len(s) = 4
                      /\ s[1].do = "write" /\ s[1].sock = e
                      /\ s[2].do = "shutdown"
                      /\ s[3].do = "readAll"
                      /\ s[4].do = "getline"
    OBVIOUS
  <2>1. e \in Ends /\ Plan(t) = Call("SendRequestAndGetReplay", e)
    BY <1>1, Names DEF Threads
  <2> DEFINE c == Call("SendRequestAndGetReplay", e)
  <2> HIDE DEF c
  <2>2. /\ Len(c) = 4
        /\ c[1] = [op |-> "SendRequestAndGetReplay", do |-> "write", sock |-> e]
        /\ c[2] = [op |-> "SendRequestAndGetReplay", do |-> "shutdown", sock |-> e]
        /\ c[3] = [op |-> "SendRequestAndGetReplay", do |-> "readAll", sock |-> e]
        /\ c[4] = [op |-> "SendRequestAndGetReplay", do |-> "getline", sock |-> e]
    BY <2>1, HalfSteps DEF c, Halves
  <2>3. QED  BY <2>1, <2>2 DEF c

\* Both ends answer: they read first.
LEMMA AnswerPlan ==
  ASSUME scenario = "both_answer"
  PROVE  \A t \in Threads :
           LET s == Plan(t) IN
           /\ Len(s) = 4
           /\ s[1].do = "readAll" /\ s[1].sock = IF t = "t1" THEN "client" ELSE "server"
<1>1. /\ Plan("t1") = Call("GetRequestAndSendReplay", "client")
      /\ Plan("t2") = Call("GetRequestAndSendReplay", "server")
  BY DEF Plan, Script
<1>2. QED
  <2> SUFFICES ASSUME NEW t \in Threads, NEW e, e = IF t = "t1" THEN "client" ELSE "server"
               PROVE  LET s == Plan(t) IN
                      /\ Len(s) = 4
                      /\ s[1].do = "readAll" /\ s[1].sock = e
    OBVIOUS
  <2>1. e \in Ends /\ Plan(t) = Call("GetRequestAndSendReplay", e)
    BY <1>1, Names DEF Threads
  <2> DEFINE c == Call("GetRequestAndSendReplay", e)
  <2> HIDE DEF c
  <2>2. /\ Len(c) = 4
        /\ c[1] = [op |-> "GetRequestAndSendReplay", do |-> "readAll", sock |-> e]
        /\ c[2] = [op |-> "GetRequestAndSendReplay", do |-> "write", sock |-> e]
        /\ c[3] = [op |-> "GetRequestAndSendReplay", do |-> "shutdown", sock |-> e]
        /\ c[4] = [op |-> "GetRequestAndSendReplay", do |-> "getline", sock |-> e]
    BY <2>1, HalfSteps DEF c, Halves
  <2>3. QED  BY <2>1, <2>2 DEF c

-----------------------------------------------------------------------------
(* What a step changes, while the connection is there.                     *)

Effect(t) ==
  LET s == Plan(t)
      k == Pc(t)
      d == s[k].do
      e == s[k].sock
      p == Peer(e)
  IN  \/ /\ d = "write"
         /\ Pc(t)' = k
         /\ Len(stream'[e]) - count'[t] = Len(stream[e]) - count[t]
         /\ stream'[p] = stream[p] /\ sendShut' = sendShut
      \/ /\ d = "write"
         /\ count[t] = size[e]
         /\ Pc(t)' = k + 1 /\ count'[t] = 0
         /\ stream' = stream /\ sendShut' = sendShut
      \/ /\ d \in Reads
         /\ Pc(t)' = k /\ count'[t] = count[t]
         /\ stream'[e] = stream[e] /\ sendShut' = sendShut
      \/ /\ d \in Reads
         /\ d = "read" => BufferSize <= size[p]
         /\ d = "readUntil" => marks[p] # {}
         /\ d = "readAll" => sendShut[p]
         /\ Pc(t)' = k + 1 /\ count'[t] = count[t]
         /\ stream' = stream /\ sendShut' = sendShut
      \/ /\ d \in {"read", "readUntil"}
         /\ sendShut[p]
      \/ /\ d = "shutdown"
         /\ Pc(t)' = k + 1 /\ count'[t] = count[t]
         /\ stream' = stream
      \/ /\ d \in Delivers \cup {"callback"}
         /\ Pc(t)' = k + 1 /\ count'[t] = count[t]
         /\ stream' = stream /\ sendShut' = sendShut
      \/ d = "cancel"

\* Each step of a thread is one of these, and leaves the other thread alone.
LEMMA StepEffect ==
  ASSUME IInv, NEW t \in Threads, Step(t), ~broken
  PROVE  /\ todo[t] # <<>> /\ Pc(t) \in 1..Len(Plan(t))
         /\ Plan(t)[Pc(t)].sock \in Ends
         /\ Effect(t)
         /\ Plan(t)[Pc(t)].do # "cancel" => \A u \in Threads \ {t} :
              Pc(u)' = Pc(u) /\ count'[u] = count[u] /\ todo'[u] = todo[u]
<1> DEFINE s == Plan(t)
           k == Pc(t)
           d == s[k].do
           e == s[k].sock
           p == Peer(e)
<1>1. StateTypes /\ OnScript
  BY DEF IInv
<1>2. todo[t] # <<>>
  BY DEF Step, WriteSome, Written, ReadSome, ReadEnds, ReadThrows, ShutdownSend, Return,
         Callback, CancelSocket, BrokenThrows, Doing
<1>3. /\ k \in 1..Len(s) /\ e \in Ends /\ p \in Ends /\ p # e
      /\ Sock(t) = e /\ \A what : Doing(t, what) <=> d \in what
  BY <1>1, <1>2, AtStep DEF Peer, Ends
<1>4. /\ Len(s) \in Nat /\ Len(todo[t]) \in Nat
      /\ Len(Tail(todo[t])) = Len(todo[t]) - 1
      /\ Pc(t) = Len(s) - Len(todo[t]) + 1
  <2>1. todo[t] \in Seq(ScriptSteps) /\ s \in Seq(ScriptSteps)
    BY <1>1, PlanFacts DEF OnScript, Ordered
  <2> DEFINE q == todo[t]
  <2>2. q \in Seq(ScriptSteps) /\ q # <<>>
    BY <1>2, <2>1
  <2> HIDE DEF q
  <2>3. Len(Tail(q)) = Len(q) - 1 /\ Len(q) \in Nat
    BY <2>2, HeadTailProperties
  <2>4. QED  BY <2>1, <2>3 DEF q, Pc
<1>5. Plan(t)' = s
  BY DEF Step, inputVars, Plan
<1>6. /\ todo'[t] = todo[t] => Pc(t)' = k
      /\ todo'[t] = Tail(todo[t]) => Pc(t)' = k + 1
  <2> DEFINE n == Len(s)
             m == Len(todo[t])
             n2 == Len(todo'[t])
  <2>1. Pc(t)' = n - n2 + 1 /\ k = n - m + 1
    BY <1>4, <1>5 DEF Pc
  <2>2. n \in Nat /\ m \in Nat
        /\ (todo'[t] = todo[t] => n2 = m)
        /\ (todo'[t] = Tail(todo[t]) => n2 = m - 1)
    BY <1>4
  <2> HIDE DEF s, k, n, m, n2
  <2>3. QED  BY <2>1, <2>2
<1>7. \A u \in Threads : todo'[u] = todo[u] => Pc(u)' = Pc(u)
  BY DEF Step, inputVars, Plan, Pc
<1>8. count \in [Threads -> Nat] /\ todo \in [Threads -> Seq(ScriptSteps)]
      /\ stream \in [Ends -> Seq(Nat)] /\ buffer[t] \in Seq(Nat)
  BY <1>1 DEF StateTypes, OnScript
<1> HIDE DEF s, k, d, e, p
<1>9. CASE WriteSome(t)
  <2>1. PICK n \in 1..size[e] - count[t] : Put(t, count[t], n)
    BY <1>3, <1>9 DEF WriteSome
  <2>2. n \in Nat /\ todo' = todo
    BY <1>1, <1>3, <1>8, <2>1 DEF StateTypes, Put
  <2> DEFINE new == [i \in 1..n |-> count[t] + i]
  <2>3. new \in Seq(Nat) /\ Len(new) = n
    BY <1>8, <2>2
  <2>4. stream' = [stream EXCEPT ![e] = @ \o new] /\ count' = [count EXCEPT ![t] = @ + n]
        /\ sendShut' = sendShut
    BY <1>3, <2>1 DEF Put
  <2> HIDE DEF new
  <2>5. Len(stream[e] \o new) = Len(stream[e]) + n
    <3>1. stream[e] \in Seq(Nat)
      BY <1>3, <1>8
    <3>2. QED  BY <2>3, <3>1, ConcatProperties
  <2>6. Len(stream'[e]) - count'[t] = Len(stream[e]) - count[t] /\ stream'[p] = stream[p]
    <3>1. Len(stream[e]) \in Nat /\ count[t] \in Nat
      BY <1>3, <1>8
    <3>2. stream'[e] = stream[e] \o new /\ count'[t] = count[t] + n /\ stream'[p] = stream[p]
      BY <1>3, <1>8, <2>4
    <3>3. QED  BY <2>2, <2>5, <3>1, <3>2
  <2>7. d = "write"
    BY <1>3, <1>9 DEF WriteSome
  <2>8. Effect(t)
    BY <1>6, <2>2, <2>4, <2>6, <2>7 DEF Effect, s, k, d, e, p
  <2>9. QED  BY <1>2, <1>3, <1>7, <1>8, <2>2, <2>4, <2>8 DEF s, k, d, e
<1>10. ASSUME todo' = [todo EXCEPT ![t] = Tail(@)], count' = [count EXCEPT ![t] = 0] \/ count' = count
       PROVE  /\ Pc(t)' = k + 1
              /\ \A u \in Threads \ {t} :
                   Pc(u)' = Pc(u) /\ count'[u] = count[u] /\ todo'[u] = todo[u]
  BY <1>6, <1>7, <1>8, <1>10
<1>11. CASE Written(t)
  <2>1. /\ d = "write" /\ count[t] = size[e]
        /\ todo' = [todo EXCEPT ![t] = Tail(@)] /\ count' = [count EXCEPT ![t] = 0]
        /\ stream' = stream /\ sendShut' = sendShut
    BY <1>3, <1>11 DEF Written, Advance, connVars
  <2>2. count'[t] = 0
    BY <1>8, <2>1
  <2>3. Effect(t)
    BY <1>10, <2>1, <2>2 DEF Effect, s, k, d, e, p
  <2>4. QED  BY <1>2, <1>3, <1>10, <2>1, <2>3 DEF s, k, d, e
<1>12. CASE ReadSome(t)
  <2>1. /\ d \in Reads /\ todo' = todo /\ count' = count /\ sendShut' = sendShut
        /\ stream'[e] = stream[e]
    BY <1>3, <1>8, <1>12 DEF ReadSome, p
  <2>2. Effect(t)
    BY <1>6, <2>1 DEF Effect, s, k, d, e, p
  <2>3. QED  BY <1>2, <1>3, <1>7, <2>1, <2>2 DEF s, k, d, e
<1>13. CASE ReadEnds(t)
  <2>1. /\ d \in Reads /\ Enough(t) /\ todo' = [todo EXCEPT ![t] = Tail(@)]
        /\ count' = count /\ stream' = stream /\ sendShut' = sendShut
    BY <1>3, <1>13 DEF ReadEnds, Advance, connVars
  <2>2. d = "readUntil" => marks[p] # {}
    BY <1>3, <2>1 DEF Enough, p
  <2>3. d = "readAll" => sendShut[p]
    BY <1>3, <2>1 DEF Enough, Eof, p
  <2>4. d = "read" => BufferSize <= size[p]
    <3>1. SUFFICES ASSUME d = "read" PROVE BufferSize <= size[p]
      OBVIOUS
    <3>2. Len(buffer[t]) = BufferSize
      BY <1>3, <2>1, <3>1 DEF Enough
    <3>3. PICK w \in [Ends -> Nat], r \in [Ends -> Nat] : Positions(w, r)
      BY DEF IInv
    <3>4. PICK j \in k + 1..Len(s) : Fills(s, k, j)
      BY <1>1, <1>3, <3>1, PlanFacts DEF Ordered, InOrder, Reads, s, d
    <3>5. InRead(t, k, j) /\ j \in 1..Len(s)
      <4>1. j \in 1..Len(s) /\ k <= k /\ k <= j
        BY <1>3, <1>4
      <4>2. QED  BY <3>4, <4>1 DEF InRead, s, k
    <3>6. Len(buffer[t]) <= r[p]
      BY <1>2, <1>3, <3>3, <3>5 DEF Positions, Reading, s, e, p
    <3>7. r[p] <= w[p] /\ w[p] <= size[p]
      BY <1>3, <3>3 DEF Positions, Flow
    <3>8. r[p] \in Nat /\ w[p] \in Nat /\ size[p] \in Nat
      BY <1>1, <1>3 DEF StateTypes
    <3>9. QED  BY <3>2, <3>6, <3>7, <3>8
  <2>5. Effect(t)
    BY <1>10, <2>1, <2>2, <2>3, <2>4 DEF Effect, s, k, d, e, p
  <2>6. QED  BY <1>2, <1>3, <1>10, <2>1, <2>5 DEF s, k, d, e
<1>14. CASE ReadThrows(t)
  <2>1. d \in {"read", "readUntil"} /\ sendShut[p] /\ Throw(t)
    BY <1>3, <1>14 DEF ReadThrows, Eof, p
  <2>2. Effect(t)
    BY <2>1 DEF Effect, s, k, d, e, p
  <2>3. \A u \in Threads \ {t} : todo'[u] = todo[u] /\ count'[u] = count[u]
    BY <1>8, <2>1 DEF Throw
  <2>4. QED  BY <1>2, <1>3, <1>7, <2>2, <2>3 DEF s, k, d, e
<1>15. CASE ShutdownSend(t)
  <2>1. /\ d = "shutdown" /\ todo' = [todo EXCEPT ![t] = Tail(@)]
        /\ count' = count /\ stream' = stream
    BY <1>3, <1>15 DEF ShutdownSend, Advance
  <2>2. Effect(t)
    BY <1>10, <2>1 DEF Effect, s, k, d, e, p
  <2>3. QED  BY <1>2, <1>3, <1>10, <2>1, <2>2 DEF s, k, d, e
<1>16. CASE Return(t) \/ Callback(t)
  <2>1. /\ d \in Delivers \cup {"callback"} /\ todo' = [todo EXCEPT ![t] = Tail(@)]
        /\ count' = count /\ stream' = stream /\ sendShut' = sendShut
    BY <1>3, <1>16 DEF Return, Callback, Advance, Delivers, connVars
  <2>2. Effect(t)
    BY <1>10, <2>1 DEF Effect, s, k, d, e, p
  <2>3. QED  BY <1>2, <1>3, <1>10, <2>1, <2>2 DEF s, k, d, e
<1>17. CASE CancelSocket(t)
  <2>1. d = "cancel"
    BY <1>3, <1>17 DEF CancelSocket
  <2>2. QED  BY <1>2, <1>3, <2>1 DEF Effect, s, k, d, e
<1>18. QED
  BY <1>9, <1>11, <1>12, <1>13, <1>14, <1>15, <1>16, <1>17 DEF Step, BrokenThrows

-----------------------------------------------------------------------------
(* The invariant of the room.                                              *)

\* What a step of a thread leaves as it is.
LEMMA StepInputs ==
  ASSUME NEW t \in Threads, Step(t)
  PROVE  /\ scenario' = scenario /\ size' = size /\ marks' = marks
         /\ BufferSize' = BufferSize
         /\ \A e : (Fits(e)' <=> Fits(e)) /\ (Satisfies(e)' <=> Satisfies(e))
  BY DEF Step, inputVars, Fits, Satisfies

\* Lengths and counts are numbers, and a stream has no more than its room.
LEMMA Lengths ==
  ASSUME IInv
  PROVE  /\ \A e \in Ends : Len(stream[e]) \in Nat /\ size[e] \in Nat
         /\ \A e \in Ends : Len(stream[e]) <= Capacity
         /\ \A t \in Threads : count[t] \in Nat /\ Pc(t) \in Nat
         /\ Capacity \in Nat
<1>1. StateTypes /\ OnScript
  BY DEF IInv
<1>2. \A t \in Threads : Pc(t) \in Nat
  <2> SUFFICES ASSUME NEW t \in Threads PROVE Pc(t) \in Nat
    OBVIOUS
  <2>1. Len(Plan(t)) \in Nat /\ Len(todo[t]) \in Nat /\ Len(todo[t]) <= Len(Plan(t))
    BY <1>1, PlanFacts DEF OnScript, Ordered
  <2>2. QED  BY <2>1 DEF Pc
<1>3. QED  BY <1>1, <1>2, Bounds, BuffersAssumption DEF StateTypes

\* They are numbers after the step, too.
LEMMA LengthsNext ==
  ASSUME IInv, NEW t \in Threads, Step(t)
  PROVE  /\ \A e \in Ends : Len(stream'[e]) \in Nat
         /\ \A u \in Threads : count'[u] \in Nat
<1>1. StateTypes'
  BY NextKeeps DEF Next, IInv
<1>2. stream' \in [Ends -> Seq(Nat)] /\ count' \in [Threads -> Nat]
  BY <1>1 DEF StateTypes
<1>3. QED  BY <1>2

\* The tests that write both messages first.
LEMMA BothKeeps ==
  ASSUME IInv, scenario \in Boths, BothRoom, ~broken, NEW t \in Threads, Step(t)
  PROVE  BothRoom'
<1> DEFINE s == Plan("t1")
           k == Pc("t1")
           l == Pc("t1")'
<1>1. t = "t1"
  BY StepEffect DEF BothRoom, Threads
<1>2. /\ s[1].do = "write" /\ s[1].sock = "server"
      /\ s[2].do = "write" /\ s[2].sock = "client"
      /\ s[3].do \in {"read", "readUntil"} /\ s[3].sock = "server"
      /\ s[3].do = "read" <=> scenario # "asio_read_until"
      /\ s[4].do \in {"return", "getline"}
      /\ s[5].do = s[3].do /\ s[5].sock = "client"
      /\ s[6].do \in {"return", "getline"}
      /\ Len(s) = 6
  BY BothPlan DEF Delivers
<1>3. k \in 1..Len(s) /\ Effect("t1")
  BY <1>1, StepEffect
<1> HIDE DEF s, k, l
<1>4. k = 1 \/ k = 2 \/ k = 3 \/ k = 4 \/ k = 5 \/ k = 6
  BY <1>2, <1>3
<1>5. s[k].do # "cancel" /\ s[k].do # "shutdown" /\ s[k].do # "callback"
  BY <1>2, <1>4
<1>6. todo'["t2"] = todo["t2"]
  BY <1>1, <1>5, StepEffect DEF s, k, Threads
<1>7. \A e \in Ends : ~sendShut'[e]
  BY <1>1, <1>3, <1>5, StepEffect DEF Effect, BothRoom, Peer, Ends, s, k
<1>8. CASE k = 1
  <2>1. \/ /\ l = 1 /\ stream'["client"] = stream["client"]
           /\ Len(stream'["server"]) - count'["t1"] = Len(stream["server"]) - count["t1"]
        \/ /\ l = 2 /\ stream' = stream /\ count["t1"] = size["server"] /\ count'["t1"] = 0
    BY <1>2, <1>3, <1>8 DEF Effect, Peer, Reads, Delivers, s, k, l
  <2>2. Len(stream["server"]) = count["t1"] /\ Len(stream["client"]) = 0
    BY <1>8 DEF BothRoom, k
  <2>3. l = 1 => Len(stream'["server"]) = count'["t1"]
    <3>1. Len(stream'["server"]) \in Nat /\ count'["t1"] \in Nat
          /\ Len(stream["server"]) \in Nat /\ count["t1"] \in Nat
      BY Lengths, LengthsNext DEF Ends, Threads
    <3>2. QED  BY <2>1, <2>2, <3>1
  <2>4. l = 2 => Fits("server")
    BY <2>1, <2>2, Lengths DEF Fits, Ends
  <2>5. /\ l = 1 \/ l = 2
        /\ Len(stream'["client"]) = 0
        /\ l = 2 => count'["t1"] = 0
    BY <2>1, <2>2
  <2>6. QED  BY <1>6, <1>7, <2>3, <2>4, <2>5, StepInputs DEF BothRoom, l
<1>9. CASE k = 2
  <2>1. \/ /\ l = 2
           /\ Len(stream'["client"]) - count'["t1"] = Len(stream["client"]) - count["t1"]
        \/ l = 3 /\ stream' = stream /\ count["t1"] = size["client"]
    BY <1>2, <1>3, <1>9 DEF Effect, Peer, Reads, Delivers, s, k, l
  <2>2. Len(stream["client"]) = count["t1"] /\ Fits("server")
    BY <1>9 DEF BothRoom, k
  <2>3. l = 2 => Len(stream'["client"]) = count'["t1"]
    <3>1. Len(stream'["client"]) \in Nat /\ count'["t1"] \in Nat
          /\ Len(stream["client"]) \in Nat /\ count["t1"] \in Nat
      BY Lengths, LengthsNext DEF Ends, Threads
    <3>2. QED  BY <2>1, <2>2, <3>1
  <2>4. l = 3 => Fits("client")
    BY <2>1, <2>2, Lengths DEF Fits, Ends
  <2>5. l = 2 \/ l = 3
    BY <2>1
  <2>6. QED  BY <1>6, <1>7, <2>2, <2>3, <2>4, <2>5, StepInputs DEF BothRoom, l
<1>10. CASE k = 3 \/ k = 5
  <2> DEFINE p == IF k = 3 THEN "client" ELSE "server"
  <2>1. l = k \/ (l = k + 1 /\ Satisfies(p))
    <3>1. /\ s[k].do \in {"read", "readUntil"} /\ p = Peer(s[k].sock) /\ ~sendShut[p]
          /\ s[k].do = "read" <=> scenario # "asio_read_until"
      BY <1>2, <1>10 DEF Peer, BothRoom, Ends
    <3>2. QED  BY <1>3, <3>1 DEF Effect, Satisfies, Delivers, s, k, l
  <2>2. Fits("server") /\ Fits("client") /\ (k = 5 => Satisfies("client"))
    BY <1>10 DEF BothRoom, k
  <2>3. QED  BY <1>6, <1>7, <1>10, <2>1, <2>2, StepInputs DEF BothRoom, l
<1>11. CASE k = 4 \/ k = 6
  <2>1. l = k + 1
    BY <1>2, <1>3, <1>11 DEF Effect, Reads, s, k, l
  <2>2. Fits("server") /\ Fits("client") /\ Satisfies("client")
        /\ (k = 6 => Satisfies("server"))
    BY <1>11 DEF BothRoom, k
  <2>3. QED  BY <1>6, <1>7, <1>11, <2>1, <2>2, StepInputs DEF BothRoom, l
<1>12. QED  BY <1>4, <1>8, <1>9, <1>10, <1>11

\* The test of WriteAsync.
LEMMA AsyncKeeps ==
  ASSUME IInv, scenario = "read_write_async", AsyncRoom, ~broken, NEW t \in Threads, Step(t)
  PROVE  AsyncRoom'
<1> DEFINE s == Plan("t1")
           k == Pc("t1")
           l == Pc("t1")'
<1>1. t = "t1"
  BY StepEffect DEF AsyncRoom, Threads
<1>2. /\ s[1].do = "write" /\ s[1].sock = "server"
      /\ s[2].do = "callback"
      /\ s[3].do = "read" /\ s[3].sock = "client"
      /\ s[4].do = "return"
      /\ Len(s) = 4
  BY AsyncPlan
<1>3. k \in 1..Len(s) /\ Effect("t1")
  BY <1>1, StepEffect
<1> HIDE DEF s, k, l
<1>4. k = 1 \/ k = 2 \/ k = 3 \/ k = 4
  BY <1>2, <1>3
<1>5. s[k].do # "cancel" /\ s[k].do # "shutdown"
  BY <1>2, <1>4
<1>6. todo'["t2"] = todo["t2"]
  BY <1>1, <1>5, StepEffect DEF s, k, Threads
<1>7. \A e \in Ends : ~sendShut'[e]
  BY <1>1, <1>3, <1>5, StepEffect DEF Effect, AsyncRoom, Peer, Ends, s, k
<1>8. CASE k = 1
  <2>1. \/ /\ l = 1
           /\ Len(stream'["server"]) - count'["t1"] = Len(stream["server"]) - count["t1"]
        \/ l = 2 /\ count["t1"] = size["server"]
    BY <1>2, <1>3, <1>8 DEF Effect, Reads, Delivers, s, k, l
  <2>2. Len(stream["server"]) = count["t1"]
    BY <1>8 DEF AsyncRoom, k
  <2>3. l = 1 => Len(stream'["server"]) = count'["t1"]
    <3>1. Len(stream'["server"]) \in Nat /\ count'["t1"] \in Nat
          /\ Len(stream["server"]) \in Nat /\ count["t1"] \in Nat
      BY Lengths, LengthsNext DEF Ends, Threads
    <3>2. QED  BY <2>1, <2>2, <3>1
  <2>4. l = 2 => Fits("server")
    BY <2>1, <2>2, Lengths DEF Fits, Ends
  <2>5. l = 1 \/ l = 2
    BY <2>1
  <2>6. QED  BY <1>6, <1>7, <2>3, <2>4, <2>5, StepInputs DEF AsyncRoom, l
<1>9. CASE k = 2
  <2>1. l = 3
    BY <1>2, <1>3, <1>9 DEF Effect, Reads, s, k, l
  <2>2. Fits("server")
    BY <1>9 DEF AsyncRoom, k
  <2>3. QED  BY <1>6, <1>7, <2>1, <2>2, StepInputs DEF AsyncRoom, l
<1>10. CASE k = 3
  <2>1. l = 3 \/ (l = 4 /\ Satisfies("server"))
    <3>1. s[k].do = "read" /\ "server" = Peer(s[k].sock) /\ ~sendShut["server"]
      BY <1>2, <1>10 DEF Peer, AsyncRoom, Ends
    <3>2. QED  BY <1>3, <1>10, <3>1 DEF Effect, Satisfies, Delivers, s, k, l
  <2>2. Fits("server")
    BY <1>10 DEF AsyncRoom, k
  <2>3. QED  BY <1>6, <1>7, <2>1, <2>2, StepInputs DEF AsyncRoom, l
<1>11. CASE k = 4
  <2>1. l = 5
    BY <1>2, <1>3, <1>11 DEF Effect, Reads, s, k, l
  <2>2. Fits("server") /\ Satisfies("server")
    BY <1>11 DEF AsyncRoom, k
  <2>3. QED  BY <1>6, <1>7, <2>1, <2>2, StepInputs DEF AsyncRoom, l
<1>12. QED  BY <1>4, <1>8, <1>9, <1>10, <1>11

\* Two requests.
LEMMA AskKeeps ==
  ASSUME IInv, scenario = "both_ask", AskRoom, ~broken, NEW t \in Threads, Step(t)
  PROVE  AskRoom'
<1>1. PICK u \in Threads : u # t /\ \A v \in Threads : v = t \/ v = u
  BY DEF Threads
<1>2. PICK e \in Ends : e = IF t = "t1" THEN "client" ELSE "server"
  BY DEF Ends
<1>3. PICK c \in Ends : c = IF u = "t1" THEN "client" ELSE "server"
  BY DEF Ends
<1>4. e # c /\ Peer(e) = c
  BY <1>1, <1>2, <1>3 DEF Threads, Ends, Peer
<1>5. AskRoom <=>
        /\ Pc(t) <= 2 /\ Pc(u) <= 2 =>
             /\ Len(stream[e]) = IF Pc(t) = 1 THEN count[t] ELSE size[e]
             /\ Len(stream[c]) = IF Pc(u) = 1 THEN count[u] ELSE size[c]
        /\ Pc(t) \geq 2 \/ Pc(u) \geq 2 => \E x \in Ends : Fits(x)
  BY <1>1, <1>2, <1>3 DEF AskRoom, Threads
<1>6. AskRoom' <=>
        /\ Pc(t)' <= 2 /\ Pc(u)' <= 2 =>
             /\ Len(stream'[e]) = IF Pc(t)' = 1 THEN count'[t] ELSE size'[e]
             /\ Len(stream'[c]) = IF Pc(u)' = 1 THEN count'[u] ELSE size'[c]
        /\ Pc(t)' \geq 2 \/ Pc(u)' \geq 2 => \E x \in Ends : Fits(x)'
  BY <1>1, <1>2, <1>3 DEF AskRoom, Threads
<1> DEFINE s == Plan(t)
           k == Pc(t)
           l == Pc(t)'
<1>7. /\ s[1].do = "write" /\ s[1].sock = e
      /\ s[2].do = "shutdown"
      /\ s[3].do = "readAll"
      /\ s[4].do = "getline"
      /\ Len(s) = 4
  BY <1>2, AskPlan
<1>8. k \in 1..Len(s) /\ Effect(t)
  BY StepEffect
<1> HIDE DEF s, k, l
<1>9. k = 1 \/ k = 2 \/ k = 3 \/ k = 4
  BY <1>7, <1>8
<1>10. Pc(u)' = Pc(u) /\ count'[u] = count[u]
  <2>1. s[k].do # "cancel"
    BY <1>7, <1>9
  <2>2. QED  BY <1>1, <2>1, StepEffect DEF s, k
<1>11. size' = size /\ \A x : Fits(x)' <=> Fits(x)
  BY StepInputs
<1>12. /\ Len(stream[e]) \in Nat /\ Len(stream'[e]) \in Nat /\ size[e] \in Nat
       /\ count[t] \in Nat /\ count'[t] \in Nat /\ Len(stream[e]) <= Capacity
       /\ Pc(u) \in Nat /\ Capacity \in Nat
  BY Lengths, LengthsNext
<1>13. CASE k = 1
  <2>1. \/ /\ l = 1
           /\ Len(stream'[e]) - count'[t] = Len(stream[e]) - count[t]
           /\ stream'[c] = stream[c]
        \/ l = 2 /\ stream' = stream /\ count[t] = size[e]
    BY <1>4, <1>7, <1>8, <1>13 DEF Effect, Reads, Delivers, s, k, l
  <2>2. CASE Pc(u) \geq 2
    <3>1. \E x \in Ends : Fits(x)
      BY <1>5, <2>2
    <3>2. Pc(u) <= 2 => /\ Len(stream[e]) = count[t]
                        /\ Len(stream[c]) = size[c]
      BY <1>5, <1>13, <2>2 DEF k
    <3>3. l = 1 \/ l = 2
      BY <2>1
    <3>4. Pc(u) <= 2 => Len(stream'[e]) = IF l = 1 THEN count'[t] ELSE size[e]
      BY <1>12, <2>1, <3>2
    <3>5. stream'[c] = stream[c]
      BY <2>1
    <3>6. QED  BY <1>6, <1>10, <1>11, <2>2, <3>1, <3>2, <3>4, <3>5 DEF l
  <2>3. CASE ~(Pc(u) \geq 2)
    <3>1. Pc(u) <= 2 /\ Len(stream[e]) = count[t]
          /\ Len(stream[c]) = IF Pc(u) = 1 THEN count[u] ELSE size[c]
      BY <1>5, <1>12, <1>13, <2>3 DEF k
    <3>2. Len(stream'[e]) = IF l = 1 THEN count'[t] ELSE size[e]
      BY <1>12, <2>1, <3>1
    <3>3. l \geq 2 => Fits(e)
      BY <1>12, <2>1, <3>1 DEF Fits
    <3>4. stream'[c] = stream[c]
      BY <2>1
    <3>5. QED  BY <1>6, <1>10, <1>11, <2>3, <3>1, <3>2, <3>3, <3>4 DEF l
  <2>4. QED  BY <2>2, <2>3
<1>14. CASE k \geq 2
  <2>1. \E x \in Ends : Fits(x)
    BY <1>5, <1>14 DEF k
  <2>2. l \in Nat /\ l \geq 3
    <3>1. CASE k = 2
      <4>1. l = 3
        BY <1>7, <1>8, <3>1 DEF Effect, Reads, Delivers, s, k, l
      <4>2. QED  BY <4>1
    <3>2. CASE k = 3
      <4>1. l = 3 \/ l = 4
        BY <1>7, <1>8, <3>2 DEF Effect, Reads, Delivers, s, k, l
      <4>2. QED  BY <4>1
    <3>3. CASE k = 4
      <4>1. l = 5
        BY <1>7, <1>8, <3>3 DEF Effect, Reads, Delivers, s, k, l
      <4>2. QED  BY <4>1
    <3>4. QED  BY <1>9, <1>14, <3>1, <3>2, <3>3
  <2>3. QED  BY <1>6, <1>10, <1>11, <2>1, <2>2 DEF l
<1>15. QED  BY <1>9, <1>13, <1>14

\* Two answers.
LEMMA AnswerKeeps ==
  ASSUME IInv, scenario = "both_answer", AnswerRoom, ~broken, NEW t \in Threads, Step(t)
  PROVE  AnswerRoom'
<1> DEFINE s == Plan(t)
<1>1. /\ s[1].do = "readAll" /\ s[1].sock \in Ends
  BY AnswerPlan DEF Ends
<1>2. Pc(t) = 1
  BY DEF AnswerRoom, Threads
<1>3. Effect(t) /\ \A u \in Threads \ {t} : Pc(u)' = Pc(u)
  BY <1>1, <1>2, StepEffect
<1>4. ~sendShut[Peer(s[1].sock)]
  BY <1>1 DEF AnswerRoom, Peer, Ends
<1>5. Pc(t)' = 1 /\ sendShut' = sendShut
  BY <1>1, <1>2, <1>3, <1>4 DEF Effect, Delivers
<1>6. QED  BY <1>3, <1>5 DEF AnswerRoom, Threads

-----------------------------------------------------------------------------
(* The theorem.                                                            *)

\* Every step keeps the invariant of the room.
LEMMA RoomKeeps == IInv /\ RoomInv /\ [Next]_vars => RoomInv'
<1> SUFFICES ASSUME IInv, RoomInv, [Next]_vars, ~broken' PROVE RoomInv'
  BY DEF RoomInv
<1>1. CASE UNCHANGED ioVars
  <2>1. /\ scenario' = scenario /\ size' = size /\ marks' = marks
        /\ BufferSize' = BufferSize /\ todo' = todo /\ count' = count
        /\ stream' = stream /\ sendShut' = sendShut /\ broken' = broken
    BY <1>1 DEF ioVars, inputVars, connVars
  <2>2. \A t \in Threads : Pc(t)' = Pc(t)
    BY <2>1 DEF Pc, Plan
  <2>3. \A e : (Fits(e)' <=> Fits(e)) /\ (Satisfies(e)' <=> Satisfies(e))
    BY <2>1 DEF Fits, Satisfies
  <2>4. (BothRoom' <=> BothRoom) /\ (AsyncRoom' <=> AsyncRoom)
    BY <2>1, <2>2, <2>3 DEF BothRoom, AsyncRoom, Threads
  <2>5. (AskRoom' <=> AskRoom) /\ (AnswerRoom' <=> AnswerRoom)
    BY <2>1, <2>2, <2>3 DEF AskRoom, AnswerRoom, Threads
  <2>6. QED  BY <2>1, <2>4, <2>5 DEF RoomInv
<1>2. CASE Break
  BY <1>2 DEF Break
<1>3. ASSUME NEW t \in Threads, Step(t)
      PROVE  RoomInv'
  <2>1. ~broken
    BY <1>3 DEF Step, WriteSome, Written, ReadSome, ReadEnds, ReadThrows, ShutdownSend,
                Return, Callback, CancelSocket, BrokenThrows, Throw, Put, connVars
  <2>2. scenario' = scenario
    BY <1>3, StepInputs
  <2>3. scenario \in Boths => BothRoom'
    BY <1>3, <2>1, BothKeeps DEF RoomInv
  <2>4. scenario = "read_write_async" => AsyncRoom'
    BY <1>3, <2>1, AsyncKeeps DEF RoomInv
  <2>5. scenario = "both_ask" => AskRoom'
    BY <1>3, <2>1, AskKeeps DEF RoomInv
  <2>6. scenario = "both_answer" => AnswerRoom'
    BY <1>3, <2>1, AnswerKeeps DEF RoomInv
  <2>7. QED  BY <2>2, <2>3, <2>4, <2>5, <2>6 DEF RoomInv
<1>4. QED  BY <1>1, <1>2, <1>3 DEF Next, vars

\* At first all streams are empty.
LEMMA RoomInit == Init => RoomInv
<1> SUFFICES ASSUME Init PROVE RoomInv
  OBVIOUS
<1>1. \A t \in Threads : todo[t] = Plan(t) /\ count[t] = 0
  BY DEF Init, Plan
<1>2. IInv
  BY InitKeeps
<1>3. \A t \in Threads : Pc(t) = 1
  <2> SUFFICES ASSUME NEW t \in Threads PROVE Pc(t) = 1
    OBVIOUS
  <2>1. Len(Plan(t)) \in Nat
    BY <1>2, PlanFacts DEF IInv, Ordered
  <2>2. QED  BY <1>1, <2>1 DEF Pc
<1>4. \A e \in Ends : Len(stream[e]) = 0 /\ ~sendShut[e]
  BY DEF Init
<1>5. scenario \in Boths => BothRoom
  BY <1>1, <1>3, <1>4, BothPlan DEF BothRoom, Ends, Threads
<1>6. scenario = "read_write_async" => AsyncRoom
  BY <1>1, <1>3, <1>4, AsyncPlan DEF AsyncRoom, Ends, Threads
<1>7. AskRoom /\ AnswerRoom
  BY <1>1, <1>3, <1>4 DEF AskRoom, AnswerRoom, Ends, Threads
<1>8. QED  BY <1>5, <1>6, <1>7 DEF RoomInv

\* A script that is over had room.
LEMMA RoomEnough == IInv /\ RoomInv => OnlyIfItFits
<1> SUFFICES ASSUME IInv, RoomInv, ~broken, Finished,
                    scenario \notin {"two_lines", "cancel_async"}
             PROVE  CanReturn
  BY DEF OnlyIfItFits
<1>1. scenario \in Scenarios
  BY DEF IInv, OnScript
<1>2. \A t \in Threads : Pc(t) = Len(Plan(t)) + 1
  <2> SUFFICES ASSUME NEW t \in Threads PROVE Pc(t) = Len(Plan(t)) + 1
    OBVIOUS
  <2>1. Len(Plan(t)) \in Nat /\ todo[t] = <<>>
    BY PlanFacts DEF IInv, Ordered, Finished
  <2>2. QED  BY <2>1 DEF Pc
<1>3. CASE scenario \in Boths
  <2>1. Pc("t1") = 7
    <3> DEFINE n == Len(Plan("t1"))
    <3>1. n = 6
      BY <1>3, BothPlan DEF Threads
    <3>2. Pc("t1") = n + 1
      BY <1>2 DEF Threads
    <3> HIDE DEF n
    <3>3. QED  BY <3>1, <3>2
  <2>2. \A e \in Ends : Fits(e) /\ Satisfies(e)
    BY <1>3, <2>1 DEF RoomInv, BothRoom, Ends
  <2>3. QED  BY <1>3, <2>2 DEF CanReturn, Satisfies, Boths
<1>4. CASE scenario = "read_write_async"
  <2>1. Pc("t1") = 5
    <3> DEFINE n == Len(Plan("t1"))
    <3>1. n = 4
      BY <1>4, AsyncPlan DEF Threads
    <3>2. Pc("t1") = n + 1
      BY <1>2 DEF Threads
    <3> HIDE DEF n
    <3>3. QED  BY <3>1, <3>2
  <2>2. Fits("server") /\ Satisfies("server")
    BY <1>4, <2>1 DEF RoomInv, AsyncRoom
  <2>3. QED  BY <1>4, <2>2 DEF CanReturn, Satisfies
<1>5. CASE scenario = "both_ask"
  <2>1. Pc("t1") = 5
    <3> DEFINE n == Len(Plan("t1"))
    <3>1. n = 4
      BY <1>5, AskPlan DEF Threads
    <3>2. Pc("t1") = n + 1
      BY <1>2 DEF Threads
    <3> HIDE DEF n
    <3>3. QED  BY <3>1, <3>2
  <2>2. \E e \in Ends : Fits(e)
    BY <1>5, <2>1 DEF RoomInv, AskRoom
  <2>3. QED  BY <1>5, <2>2 DEF CanReturn
<1>6. CASE scenario = "both_answer"
  <2>1. Pc("t1") = 5
    <3> DEFINE n == Len(Plan("t1"))
    <3>1. n = 4
      BY <1>6, AnswerPlan DEF Threads
    <3>2. Pc("t1") = n + 1
      BY <1>2 DEF Threads
    <3> HIDE DEF n
    <3>3. QED  BY <3>1, <3>2
  <2>2. QED  BY <1>6, <2>1 DEF RoomInv, AnswerRoom
<1>7. CASE scenario = "shutdown_send"
  BY <1>7 DEF CanReturn
<1>8. QED  BY <1>1, <1>3, <1>4, <1>5, <1>6, <1>7, BuffersAssumption DEF Boths

\* Whatever the sizes, a scenario whose messages do not fit does not end unless the
\* connection is lost: the calls that write first need room for what they write,
\* and two GetRequestAndSendReplay wait for each other for ever.
THEOREM EndsOnlyIfItFits == Spec => []OnlyIfItFits
BY Invariant, RoomInit, RoomKeeps, RoomEnough, PTL DEF Spec

-----------------------------------------------------------------------------
(* Exceptions.                                                             *)

HalfClosing == {"shutdown_send", "both_ask", "both_answer"}

\* The steps that may end a call with an exception while the connection is there
\* are in scripts that never shut down an end.
LEMMA StepKinds ==
  ASSUME scenario \in Scenarios, NEW t \in Threads, NEW i \in 1..Len(Plan(t))
  PROVE  /\ Plan(t)[i].do = "shutdown" => scenario \in HalfClosing
         /\ Plan(t)[i].do \in {"read", "readUntil"} => scenario \notin HalfClosing
         /\ Plan(t)[i].do = "cancel" => scenario = "cancel_async"
<1> DEFINE Kinds(d) == /\ d = "shutdown" => scenario \in HalfClosing
                       /\ d \in {"read", "readUntil"} => scenario \notin HalfClosing
                       /\ d = "cancel" => scenario = "cancel_async"
<1> SUFFICES Kinds(Plan(t)[i].do)
  OBVIOUS
<1>2. CASE scenario \in Boths
  <2>1. CASE t = "t1"
    <3> DEFINE s == Plan("t1")
    <3>1. /\ Len(s) = 6
          /\ s[1].do = "write" /\ s[2].do = "write"
          /\ s[3].do \in {"read", "readUntil"} /\ s[5].do \in {"read", "readUntil"}
          /\ s[4].do \in Delivers /\ s[6].do \in Delivers
      BY <1>2, BothPlan
    <3>2. i \in 1..Len(s) /\ Plan(t) = s
      BY <2>1
    <3> HIDE DEF s
    <3>3. i \in {1, 2, 3, 4, 5, 6}
      BY <3>1, <3>2
    <3>4. s[i].do \in {"write", "read", "readUntil"} \cup Delivers
      BY <3>1, <3>3
    <3> QED  BY <1>2, <3>2, <3>4 DEF Boths, HalfClosing, Delivers
  <2>2. CASE t = "t2"
    BY <1>2, <2>2, BothPlan, NothingToDo
  <2> QED  BY <2>1, <2>2 DEF Threads
<1>3. CASE scenario = "read_write_async"
  <2>1. CASE t = "t1"
    <3> DEFINE s == Plan("t1")
    <3>1. /\ Len(s) = 4
          /\ s[1].do = "write" /\ s[2].do = "callback"
          /\ s[3].do = "read" /\ s[4].do = "return"
      BY <1>3, AsyncPlan
    <3>2. i \in 1..Len(s) /\ Plan(t) = s
      BY <2>1
    <3> HIDE DEF s
    <3>3. i \in {1, 2, 3, 4}
      BY <3>1, <3>2
    <3>4. s[i].do \in {"write", "callback", "read", "return"}
      BY <3>1, <3>3
    <3> QED  BY <1>3, <3>2, <3>4 DEF HalfClosing
  <2>2. CASE t = "t2"
    BY <1>3, <2>2, AsyncPlan, NothingToDo
  <2> QED  BY <2>1, <2>2 DEF Threads
<1>4. CASE scenario = "cancel_async"
  <2>1. /\ Plan("t1") = Call("cancel", "server")
        /\ Plan("t2") = WriteAsync("server", "server")
    BY <1>4 DEF Plan, Script
  <2>2. CASE t = "t1"
    <3> DEFINE s == Plan("t1")
    <3>1. s = <<[op |-> "cancel", do |-> "cancel", sock |-> "server"]>>
      BY <2>1, CallSteps, Names
    <3>2. i \in 1..Len(s) /\ Plan(t) = s
      BY <2>2
    <3> HIDE DEF s
    <3>3. s[i].do = "cancel"
      BY <3>1, <3>2
    <3> QED  BY <1>4, <3>2, <3>3
  <2>3. CASE t = "t2"
    <3> DEFINE s == WriteAsync("server", "server")
    <3>1. i \in 1..Len(s) /\ Plan(t) = s
      BY <2>1, <2>3
    <3> HIDE DEF s
    <3>2. /\ Len(s) = 4
          /\ s[1] = [op |-> "WriteAsync", do |-> "write", sock |-> "server"]
          /\ s[2] = [op |-> "WriteAsync", do |-> "callback", sock |-> "server"]
          /\ s[3] = [op |-> "WriteAsync", do |-> "read", sock |-> "server"]
          /\ s[4] = [op |-> "WriteAsync", do |-> "return", sock |-> "server"]
      BY AsyncSteps, Names DEF s
    <3>3. i \in {1, 2, 3, 4}
      BY <3>1, <3>2
    <3>4. s[i].do \in {"write", "callback", "read", "return"}
      BY <3>2, <3>3
    <3> QED  BY <1>4, <3>1, <3>4 DEF HalfClosing
  <2> QED  BY <2>2, <2>3 DEF Threads
<1>5. CASE scenario \in HalfClosing
  <2>1. PICK op \in Halves, e \in Ends : Plan(t) = Call(op, e)
    <3>1. \E op \in {"SendRequestAndGetReplay", "GetRequestAndSendReplay"}, e \in Ends :
            Plan(t) = Call(op, e)
      BY <1>5, Names DEF Plan, Script, HalfClosing, Threads
    <3> QED  BY <3>1 DEF Halves
  <2> DEFINE s == Call(op, e)
             At(ask, answer) == IF op = "SendRequestAndGetReplay" THEN ask ELSE answer
  <2>2. i \in 1..Len(s) /\ Plan(t) = s
    BY <2>1
  <2> HIDE DEF s
  <2>3. /\ Len(s) = 4
        /\ s[1] = [op |-> op, do |-> At("write", "readAll"), sock |-> e]
        /\ s[2] = [op |-> op, do |-> At("shutdown", "write"), sock |-> e]
        /\ s[3] = [op |-> op, do |-> At("readAll", "shutdown"), sock |-> e]
        /\ s[4] = [op |-> op, do |-> "getline", sock |-> e]
    BY HalfSteps DEF s
  <2>4. i \in {1, 2, 3, 4}
    BY <2>2, <2>3
  <2>5. s[i].do \in {"write", "shutdown", "readAll", "getline"}
    BY <2>3, <2>4
  <2> QED  BY <1>5, <2>2, <2>5 DEF HalfClosing
<1>6. CASE scenario = "two_lines"
  <2> DEFINE c == Call("ReadFromSocketByDelimiter", "client")
  <2>1. Plan("t1") = Call("WriteToSocket", "server") /\ Plan("t2") = c \o c
    BY <1>6 DEF Plan, Script
  <2>2. CASE t = "t1"
    <3> DEFINE s == Plan("t1")
    <3>1. s = <<[op |-> "WriteToSocket", do |-> "write", sock |-> "server"]>>
      BY <2>1, CallSteps, Names
    <3>2. i \in 1..Len(s) /\ Plan(t) = s
      BY <2>2
    <3> HIDE DEF s
    <3>3. s[i].do = "write"
      BY <3>1, <3>2
    <3> QED  BY <3>2, <3>3
  <2>3. CASE t = "t2"
    <3> DEFINE read == [op |-> "ReadFromSocketByDelimiter", do |-> "readUntil",
                        sock |-> "client"]
               give == [op |-> "ReadFromSocketByDelimiter", do |-> "getline",
                        sock |-> "client"]
    <3>1. c = <<read, give>>
      BY CallSteps, Names
    <3>2. read.do = "readUntil" /\ give.do = "getline"
      OBVIOUS
    <3>3. read \in ScriptSteps /\ give \in ScriptSteps
      BY StepTypes, Names DEF Reads
    <3> HIDE DEF c, read, give
    <3>4. /\ c \in Seq(ScriptSteps) /\ Len(c) = 2
          /\ \A k \in {1, 2} : c[k].do \in {"readUntil", "getline"}
      BY <3>1, <3>2, <3>3, StepTypes
    <3> DEFINE s == c \o c
    <3>5. /\ Len(s) = 4
          /\ s[1] = c[1] /\ s[2] = c[2] /\ s[3] = c[1] /\ s[4] = c[2]
      <4>1. c \in Seq(ScriptSteps) /\ Len(c) = 2
        BY <3>4
      <4>2. /\ Len(c \o c) = Len(c) + Len(c)
            /\ \A k \in 1..Len(c) + Len(c) :
                 (c \o c)[k] = IF k <= Len(c) THEN c[k] ELSE c[k - Len(c)]
        BY <4>1, ConcatProperties, Zenon
      <4>3. Len(c \o c) = 4
        BY <4>1, <4>2
      <4>4. \A k \in 1..4 : (c \o c)[k] = IF k <= 2 THEN c[k] ELSE c[k - 2]
        BY <4>1, <4>2
      <4>5. s = c \o c
        OBVIOUS
      <4> HIDE DEF s
      <4>6. Len(s) = 4 /\ \A k \in 1..4 : s[k] = IF k <= 2 THEN c[k] ELSE c[k - 2]
        BY <4>3, <4>4, <4>5
      <4> QED  BY <4>6
    <3>6. i \in 1..Len(s) /\ Plan(t) = s
      BY <2>1, <2>3
    <3> HIDE DEF s
    <3>7. s[i].do \in {"readUntil", "getline"}
      BY <3>4, <3>5, <3>6
    <3> QED  BY <1>6, <3>6, <3>7 DEF HalfClosing
  <2> QED  BY <2>2, <2>3 DEF Threads
<1> QED
  BY <1>2, <1>3, <1>4, <1>5, <1>6, BuffersAssumption DEF Boths, HalfClosing

\* While the connection is there no call ends with an exception, other than one
\* that is cancelled; and only a half-close ends a stream.
ThrowInv ==
  /\ scenario # "cancel_async" => thrown = {} \/ broken
  /\ scenario \notin HalfClosing => \A e \in Ends : ~sendShut[e]

\* Every step keeps it.
LEMMA ThrowKeeps == IInv /\ ThrowInv /\ [Next]_vars => ThrowInv'
<1> SUFFICES ASSUME IInv, ThrowInv, [Next]_vars PROVE ThrowInv'
  OBVIOUS
<1> USE DEF ThrowInv
<1>1. CASE UNCHANGED ioVars
  BY <1>1 DEF ioVars, inputVars, connVars
<1>2. CASE Break /\ UNCHANGED inputVars
  BY <1>2 DEF Break, inputVars
<1>3. ASSUME NEW t \in Threads, Step(t)
      PROVE  ThrowInv'
  <2>0. OnScript /\ scenario' = scenario /\ scenario \in Scenarios
    BY <1>3 DEF IInv, OnScript, Step, inputVars
  <2>1. ASSUME NEW what, Doing(t, what)
        PROVE  /\ what = {"shutdown"} => scenario \in HalfClosing
               /\ what = {"read", "readUntil"} =>
                    scenario \notin HalfClosing /\ Peer(Sock(t)) \in Ends
               /\ what = {"cancel"} => scenario = "cancel_async"
    <3>1. todo[t] # <<>>
      BY <2>1 DEF Doing
    <3>2. /\ Pc(t) \in 1..Len(Plan(t))
          /\ Plan(t)[Pc(t)].do \in what
      BY <2>0, <2>1, <3>1, AtStep
    <3> QED  BY <2>0, <3>2, StepKinds, Names DEF Peer
  <2>2. CASE \/ WriteSome(t) \/ Written(t) \/ ReadSome(t) \/ ReadEnds(t)
             \/ Return(t) \/ Callback(t)
    <3>1. UNCHANGED <<thrown, sendShut, broken>>
      BY <2>2 DEF WriteSome, Put, Written, ReadSome, ReadEnds, Return, Callback, connVars
    <3> QED  BY <2>0, <3>1
  <2>3. CASE ReadThrows(t)
    <3>1. Doing(t, {"read", "readUntil"}) /\ sendShut[Peer(Sock(t))]
      BY <2>3 DEF ReadThrows, Eof
    <3> QED  BY <2>1, <3>1
  <2>4. CASE ShutdownSend(t)
    <3>1. scenario \in HalfClosing
      BY <2>1, <2>4 DEF ShutdownSend
    <3> QED  BY <2>0, <2>4, <3>1 DEF ShutdownSend
  <2>5. CASE CancelSocket(t)
    <3>1. scenario = "cancel_async"
      BY <2>1, <2>5 DEF CancelSocket
    <3> QED  BY <2>0, <2>5, <3>1 DEF CancelSocket, connVars
  <2>6. CASE BrokenThrows(t)
    BY <2>0, <2>6 DEF BrokenThrows, Throw, connVars
  <2> QED  BY <1>3, <2>2, <2>3, <2>4, <2>5, <2>6 DEF Step
<1> QED  BY <1>1, <1>2, <1>3 DEF Next, vars

\* Only a lost connection, or a cancellation, makes a call of these functions throw:
\* too small a buffer makes calls wait, and what they read always suffices.
OnlyLossThrows == scenario # "cancel_async" => thrown = {} \/ broken

\* The exceptions of io_buffers.hpp tell of the connection only, whatever the sizes.
THEOREM ThrowsOnlyIfLost == Spec => []OnlyLossThrows
<1>1. Init => ThrowInv
  BY DEF Init, ThrowInv
<1>2. ThrowInv => OnlyLossThrows
  BY DEF ThrowInv, OnlyLossThrows
<1> QED  BY <1>1, <1>2, Invariant, ThrowKeeps, PTL DEF Spec
=============================================================================
