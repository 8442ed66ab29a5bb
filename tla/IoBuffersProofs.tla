--------------------------- MODULE IoBuffersProofs ---------------------------
(***************************************************************************)
(* Theorems about the stream helpers, with their proofs.                   *)
(*                                                                         *)
(* The bytes of a message are numbered, so a stream at any moment is the   *)
(* run of numbers between how many the peer has read and how many were     *)
(* written.  The invariant is stated about these two positions of either   *)
(* end, which the state does not keep, and about where in its script each  *)
(* thread is.                                                              *)
(***************************************************************************)
EXTENDS IoBuffers, SequenceTheorems, WellFoundedInduction, TLAPS

WholeReads == {"ReadFromSocket", "ReadFromSocketInSingleCall", "WriteAsync"}
Halves == {"SendRequestAndGetReplay", "GetRequestAndSendReplay"}

Ops == WholeReads \cup Halves \cup
  {"WriteToSocket", "WriteToSocketInSingleCall", "ReadFromSocketByDelimiter", "cancel"}

Dos == Reads \cup {"write", "return", "getline", "shutdown", "callback", "cancel"}

ScriptSteps == [op : Ops, do : Dos, sock : Ends]

\* The script of a thread, and the step it is at.
Plan(t) == Script(scenario)[IF t = "t1" THEN 1 ELSE 2]
Pc(t) == Len(Plan(t)) - Len(todo[t]) + 1

Delivers == {"return", "getline"}

\* Step j returns what step i of the script s reads.
Fills(s, i, j) ==
  /\ i < j
  /\ s[i].sock = s[j].sock
  /\ s[i].op = s[j].op
  /\ \/ s[i].do = "read" /\ s[j].do = "return" /\ s[i].op \in WholeReads
     \/ s[i].do = "readUntil" /\ s[j].do = "getline" /\ s[i].op = "ReadFromSocketByDelimiter"
     \/ s[i].do = "readAll" /\ s[j].do = "getline" /\ s[i].op \in Halves
  /\ \A k \in i + 1 .. j - 1 : s[k].do \in {"write", "shutdown"}

-----------------------------------------------------------------------------
(* What holds of the two scripts of every scenario.                        *)

\* A thread writes an end in one call.
WrittenOnce(s) ==
  \A i, j \in 1..Len(s) :
    s[i].do = "write" /\ s[j].do = "write" /\ s[i].sock = s[j].sock => i = j

\* Two threads write different ends, and read different ends.
Apart(s, c) ==
  \A i \in 1..Len(s) : \A j \in 1..Len(c) :
    /\ s[i].do = "write" /\ c[j].do = "write" => s[i].sock # c[j].sock
    /\ s[i].do \in Reads /\ c[j].do \in Reads => s[i].sock # c[j].sock

\* What an end returns twice is lines.
LinesIfTwice(s) ==
  \A i, j \in 1..Len(s) :
    /\ i # j
    /\ s[i].do \in Delivers
    /\ s[j].do \in Delivers
    /\ s[i].sock = s[j].sock
    => s[i].op = "ReadFromSocketByDelimiter" /\ s[j].op = "ReadFromSocketByDelimiter"

\* A shutdown comes after the write; what is read is returned before the next
\* read, and what is returned was read.
InOrder(s) ==
  \A i \in 1..Len(s) :
    /\ s[i].do = "shutdown" =>
         \E h \in 1..i - 1 : s[h].do = "write" /\ s[h].sock = s[i].sock
    /\ s[i].do \in Delivers => \E h \in 1..i - 1 : Fills(s, h, i)
    /\ s[i].do \in Reads => \E j \in i + 1..Len(s) : Fills(s, i, j)

Ordered(s) == s \in Seq(ScriptSteps) /\ WrittenOnce(s) /\ LinesIfTwice(s) /\ InOrder(s)

WellFormed(p) == Ordered(p[1]) /\ Ordered(p[2]) /\ Apart(p[1], p[2])

-----------------------------------------------------------------------------
(* The inductive invariant.                                                *)

\* s is the n bytes after position a.
Run(s, a, n) == s \in Seq(Nat) /\ Len(s) = n /\ \A i \in 1..n : s[i] = a + i

StateTypes ==
  /\ size \in [Ends -> Nat]
  /\ marks \in [Ends -> SUBSET Nat]
  /\ BufferSize \in Nat
  /\ count \in [Threads -> Nat]
  /\ buffer \in [Threads -> Seq(Nat)]
  /\ outcome \in [Threads -> Seq([sock : Ends, op : Ops, value : Seq(Nat)])]
  /\ stream \in [Ends -> Seq(Nat)]
  /\ sendShut \in [Ends -> BOOLEAN]
  /\ broken \in BOOLEAN
  /\ thrown \subseteq Threads

\* A thread that goes on is at a step of its script.
OnScript ==
  /\ scenario \in Scenarios
  /\ todo \in [Threads -> Seq(ScriptSteps)]
  /\ \A t \in Threads :
       /\ Len(todo[t]) <= Len(Plan(t))
       /\ \A i \in 1..Len(todo[t]) :
            todo[t][i] = Plan(t)[Len(Plan(t)) - Len(todo[t]) + i]

\* w bytes of each end were written, and r of them read by the peer.
Flow(w, r) ==
  \A e \in Ends :
    /\ r[e] <= w[e]
    /\ w[e] <= size[e]
    /\ Run(stream[e], r[e], w[e] - r[e])
    /\ Len(stream[e]) <= Capacity
    /\ sendShut[e] => w[e] = size[e]

Writing(t, w) ==
  todo[t] # <<>> =>
    /\ ~Doing(t, {"write"}) => count[t] = 0
    /\ \A i \in 1..Len(Plan(t)) : Plan(t)[i].do = "write" =>
         LET e == Plan(t)[i].sock IN
         /\ i < Pc(t) => w[e] = size[e]
         /\ i = Pc(t) => w[e] = count[t]
         /\ i > Pc(t) => w[e] = 0

InRead(t, i, j) == Fills(Plan(t), i, j) /\ i <= Pc(t) /\ Pc(t) <= j

\* What the current read has got.
Reading(t, r) ==
  todo[t] # <<>> =>
    /\ (\A i, j \in 1..Len(Plan(t)) : ~InRead(t, i, j)) => buffer[t] = <<>>
    /\ \A i, j \in 1..Len(Plan(t)) : InRead(t, i, j) =>
         LET p == Peer(Plan(t)[i].sock)
             n == Len(buffer[t])
         IN  /\ n <= r[p]
             /\ Run(buffer[t], r[p] - n, n)
             /\ Plan(t)[i].do = "read" => n <= BufferSize /\ (i < Pc(t) => n = BufferSize)
             /\ Plan(t)[i].do = "readUntil" /\ i < Pc(t) =>
                  \E k \in 1..n : buffer[t][k] \in marks[p]
             /\ Plan(t)[i].do = "readAll" /\ i < Pc(t) => r[p] = size[p]

\* Where the next read of an end begins: at the first byte, or after a delimiter
\* that comes after all that was returned before.
Base(t, i, r) ==
  LET p == Peer(Plan(t)[i].sock) IN
  IF i <= Pc(t) THEN r[p] - Len(buffer[t]) ELSE r[p]

Earlier(t, e) == {k \in DOMAIN outcome[t] : outcome[t][k].sock = e}

Below(t, e, d) ==
  \A k \in Earlier(t, e) : \A x \in 1..Len(outcome[t][k].value) : outcome[t][k].value[x] < d

\* Reads at i, returned at j, are the next of their end.
NextRead(t, i, j) ==
  /\ Fills(Plan(t), i, j)
  /\ Pc(t) <= j
  /\ \A k \in Pc(t)..j - 1 :
       ~(Plan(t)[k].do \in Delivers /\ Plan(t)[k].sock = Plan(t)[i].sock)

StartsAt(t, e, b) ==
  IF Earlier(t, e) = {} THEN b = 0
  ELSE \E d \in marks[Peer(e)] : d <= b /\ Below(t, e, d)

Begins(t, r) ==
  todo[t] # <<>> =>
    \A i, j \in 1..Len(Plan(t)) :
      NextRead(t, i, j) => StartsAt(t, Plan(t)[i].sock, Base(t, i, r))

\* Every outcome is that of a step the thread has behind it.
Returned(t) ==
  \A k \in DOMAIN outcome[t] : \E j \in 1..Len(Plan(t)) :
    /\ j < Pc(t)
    /\ Plan(t)[j].do \in Delivers
    /\ Plan(t)[j].sock = outcome[t][k].sock
    /\ Plan(t)[j].op = outcome[t][k].op

Positions(w, r) ==
  /\ Flow(w, r)
  /\ \A t \in Threads : Writing(t, w) /\ Reading(t, r) /\ Begins(t, r) /\ Returned(t)

IInv ==
  /\ StateTypes
  /\ OnScript
  /\ WholeOrThrown
  /\ \E w, r \in [Ends -> Nat] : Positions(w, r)

-----------------------------------------------------------------------------
(* The scripts are well formed.                                            *)

\* The steps of the calls.
LEMMA CallSteps ==
  ASSUME NEW e \in Ends
  PROVE  /\ \A op \in {"WriteToSocket", "WriteToSocketInSingleCall"} :
              Call(op, e) = <<[op |-> op, do |-> "write", sock |-> e]>>
         /\ \A op \in {"ReadFromSocket", "ReadFromSocketInSingleCall"} :
              Call(op, e) = <<[op |-> op, do |-> "read", sock |-> e],
                              [op |-> op, do |-> "return", sock |-> e]>>
         /\ Call("ReadFromSocketByDelimiter", e) =
              <<[op |-> "ReadFromSocketByDelimiter", do |-> "readUntil", sock |-> e],
                [op |-> "ReadFromSocketByDelimiter", do |-> "getline", sock |-> e]>>
         /\ Call("SendRequestAndGetReplay", e) =
              <<[op |-> "SendRequestAndGetReplay", do |-> "write", sock |-> e],
                [op |-> "SendRequestAndGetReplay", do |-> "shutdown", sock |-> e],
                [op |-> "SendRequestAndGetReplay", do |-> "readAll", sock |-> e],
                [op |-> "SendRequestAndGetReplay", do |-> "getline", sock |-> e]>>
         /\ Call("GetRequestAndSendReplay", e) =
              <<[op |-> "GetRequestAndSendReplay", do |-> "readAll", sock |-> e],
                [op |-> "GetRequestAndSendReplay", do |-> "write", sock |-> e],
                [op |-> "GetRequestAndSendReplay", do |-> "shutdown", sock |-> e],
                [op |-> "GetRequestAndSendReplay", do |-> "getline", sock |-> e]>>
         /\ Call("cancel", e) = <<[op |-> "cancel", do |-> "cancel", sock |-> e]>>
  BY DEF Call, Steps

\* Sequences of at most four steps are sequences of steps.
LEMMA StepTypes ==
  /\ \A op \in Ops, do \in Dos, e \in Ends :
       [op |-> op, do |-> do, sock |-> e] \in ScriptSteps
  /\ \A x \in ScriptSteps : <<x>> \in Seq(ScriptSteps)
  /\ \A x, y \in ScriptSteps : <<x, y>> \in Seq(ScriptSteps)
  /\ \A x, y, z, v \in ScriptSteps : <<x, y, z, v>> \in Seq(ScriptSteps)
<1>1. \A op \in Ops, do \in Dos, e \in Ends :
        [op |-> op, do |-> do, sock |-> e] \in ScriptSteps
  BY DEF ScriptSteps
<1>2. QED  BY <1>1

\* The names of the operations and of the steps are those of the scripts.
LEMMA Names ==
  /\ WholeReads \cup Halves \subseteq Ops
  /\ {"WriteToSocket", "WriteToSocketInSingleCall", "ReadFromSocketByDelimiter", "cancel"}
       \subseteq Ops
  /\ Reads \cup {"write", "return", "getline", "shutdown", "callback", "cancel"} \subseteq Dos
  /\ "client" \in Ends /\ "server" \in Ends
  BY DEF Ops, Dos, Ends

\* Two calls of one step followed by two of two steps.
LEMMA Joined ==
  ASSUME NEW a \in Seq(ScriptSteps), NEW b \in Seq(ScriptSteps),
         NEW c \in Seq(ScriptSteps), NEW d \in Seq(ScriptSteps),
         Len(a) \geq 1, Len(a) \leq 1, Len(b) \geq 1, Len(b) \leq 1,
         Len(c) \geq 2, Len(c) \leq 2, Len(d) \geq 2, Len(d) \leq 2
  PROVE  /\ a \o b \o c \o d \in Seq(ScriptSteps)
         /\ Len(a \o b \o c \o d) = 6
         /\ (a \o b \o c \o d)[1] = a[1]
         /\ (a \o b \o c \o d)[2] = b[1]
         /\ (a \o b \o c \o d)[3] = c[1]
         /\ (a \o b \o c \o d)[4] = c[2]
         /\ (a \o b \o c \o d)[5] = d[1]
         /\ (a \o b \o c \o d)[6] = d[2]
<1> DEFINE ab == a \o b
           abc == ab \o c
           abcd == abc \o d
<1>1. /\ ab \in Seq(ScriptSteps) /\ Len(ab) \geq 2 /\ Len(ab) \leq 2
      /\ ab[1] = a[1] /\ ab[2] = b[1]
  BY ConcatProperties
<1> HIDE DEF ab
<1>2. /\ abc \in Seq(ScriptSteps) /\ Len(abc) \geq 4 /\ Len(abc) \leq 4
      /\ abc[1] = ab[1] /\ abc[2] = ab[2] /\ abc[3] = c[1] /\ abc[4] = c[2]
  BY <1>1, ConcatProperties
<1> HIDE DEF abc
<1>3. /\ abcd \in Seq(ScriptSteps) /\ Len(abcd) \geq 6 /\ Len(abcd) \leq 6
      /\ abcd[1] = abc[1] /\ abcd[2] = abc[2] /\ abcd[3] = abc[3] /\ abcd[4] = abc[4]
      /\ abcd[5] = d[1] /\ abcd[6] = d[2]
  BY <1>2, ConcatProperties
<1>4. QED  BY <1>1, <1>2, <1>3 DEF ab, abc

Whole == {"ReadFromSocket", "ReadFromSocketInSingleCall"}

\* A thread that does nothing.
LEMMA NothingToDo ==
  Len(<<>>) = 0 /\ Ordered(<<>>) /\ \A s : Apart(s, <<>>)
  BY DEF Ordered, WrittenOnce, LinesIfTwice, InOrder, Apart

\* The steps of a test that writes both messages and then reads both, whichever
\* call reads.
LEMMA BothSteps ==
  ASSUME NEW op \in {"WriteToSocket", "WriteToSocketInSingleCall"},
         NEW rop \in Whole \cup {"ReadFromSocketByDelimiter"}
  PROVE  LET s == WriteBothReadBoth(op, rop)
             read == IF rop \in Whole THEN "read" ELSE "readUntil"
             give == IF rop \in Whole THEN "return" ELSE "getline"
         IN  /\ s \in Seq(ScriptSteps)
             /\ Len(s) = 6
             /\ s[1] = [op |-> op, do |-> "write", sock |-> "server"]
             /\ s[2] = [op |-> op, do |-> "write", sock |-> "client"]
             /\ s[3] = [op |-> rop, do |-> read, sock |-> "server"]
             /\ s[4] = [op |-> rop, do |-> give, sock |-> "server"]
             /\ s[5] = [op |-> rop, do |-> read, sock |-> "client"]
             /\ s[6] = [op |-> rop, do |-> give, sock |-> "client"]
<1> DEFINE a == Call(op, "server")
           b == Call(op, "client")
           c == Call(rop, "server")
           d == Call(rop, "client")
           s == a \o b \o c \o d
           read == IF rop \in Whole THEN "read" ELSE "readUntil"
           give == IF rop \in Whole THEN "return" ELSE "getline"
<1>1. /\ a = <<[op |-> op, do |-> "write", sock |-> "server"]>>
      /\ b = <<[op |-> op, do |-> "write", sock |-> "client"]>>
      /\ c = <<[op |-> rop, do |-> read, sock |-> "server"],
               [op |-> rop, do |-> give, sock |-> "server"]>>
      /\ d = <<[op |-> rop, do |-> read, sock |-> "client"],
               [op |-> rop, do |-> give, sock |-> "client"]>>
  BY CallSteps DEF Ends, Whole
<1>2. /\ a \in Seq(ScriptSteps) /\ b \in Seq(ScriptSteps)
      /\ c \in Seq(ScriptSteps) /\ d \in Seq(ScriptSteps)
  <2>1. op \in Ops /\ rop \in Ops /\ read \in Dos /\ give \in Dos /\ "write" \in Dos
    BY Names DEF WholeReads, Whole, Reads
  <2> HIDE DEF a, b, c, d, read, give
  <2>2. QED  BY <1>1, <2>1, StepTypes, Names
<1>3. /\ s \in Seq(ScriptSteps)
      /\ Len(s) = 6
      /\ s[1] = [op |-> op, do |-> "write", sock |-> "server"]
      /\ s[2] = [op |-> op, do |-> "write", sock |-> "client"]
      /\ s[3] = [op |-> rop, do |-> read, sock |-> "server"]
      /\ s[4] = [op |-> rop, do |-> give, sock |-> "server"]
      /\ s[5] = [op |-> rop, do |-> read, sock |-> "client"]
      /\ s[6] = [op |-> rop, do |-> give, sock |-> "client"]
  <2> HIDE DEF a, b, c, d
  <2>1. /\ Len(a) \geq 1 /\ Len(a) \leq 1 /\ Len(b) \geq 1 /\ Len(b) \leq 1
        /\ Len(c) \geq 2 /\ Len(c) \leq 2 /\ Len(d) \geq 2 /\ Len(d) \leq 2
    BY <1>1
  <2>2. QED  BY <1>1, <1>2, <2>1, Joined
<1>4. QED  BY <1>3 DEF s, WriteBothReadBoth

\* It is well formed.
LEMMA BothWellFormed ==
  ASSUME NEW op \in {"WriteToSocket", "WriteToSocketInSingleCall"},
         NEW rop \in Whole \cup {"ReadFromSocketByDelimiter"}
  PROVE  WellFormed(<<WriteBothReadBoth(op, rop), <<>>>>)
<1> DEFINE s == WriteBothReadBoth(op, rop)
           read == IF rop \in Whole THEN "read" ELSE "readUntil"
           give == IF rop \in Whole THEN "return" ELSE "getline"
<1>1. /\ s \in Seq(ScriptSteps)
      /\ Len(s) = 6
      /\ s[1] = [op |-> op, do |-> "write", sock |-> "server"]
      /\ s[2] = [op |-> op, do |-> "write", sock |-> "client"]
      /\ s[3] = [op |-> rop, do |-> read, sock |-> "server"]
      /\ s[4] = [op |-> rop, do |-> give, sock |-> "server"]
      /\ s[5] = [op |-> rop, do |-> read, sock |-> "client"]
      /\ s[6] = [op |-> rop, do |-> give, sock |-> "client"]
  BY BothSteps
<1> HIDE DEF s
<1>2. Fills(s, 3, 4) /\ Fills(s, 5, 6)
  BY <1>1 DEF Fills, WholeReads, Whole
<1>3. LinesIfTwice(s)
  BY <1>1 DEF LinesIfTwice, Delivers, Whole
<1>4. InOrder(s)
  BY <1>1, <1>2 DEF InOrder, Delivers, Reads, Whole
<1>5. WrittenOnce(s)
  BY <1>1 DEF WrittenOnce
<1>6. WellFormed(<<s, <<>>>>)
  BY <1>1, <1>3, <1>4, <1>5, NothingToDo DEF WellFormed, Ordered
<1>7. QED  BY <1>6 DEF s

\* The steps of a request or a replay.
LEMMA HalfSteps ==
  ASSUME NEW op \in Halves, NEW e \in Ends
  PROVE  LET c == Call(op, e)
             At(ask, answer) == IF op = "SendRequestAndGetReplay" THEN ask ELSE answer
         IN  /\ c \in Seq(ScriptSteps)
             /\ Len(c) = 4
             /\ c[1] = [op |-> op, do |-> At("write", "readAll"), sock |-> e]
             /\ c[2] = [op |-> op, do |-> At("shutdown", "write"), sock |-> e]
             /\ c[3] = [op |-> op, do |-> At("readAll", "shutdown"), sock |-> e]
             /\ c[4] = [op |-> op, do |-> "getline", sock |-> e]
<1> DEFINE c == Call(op, e)
           At(ask, answer) == IF op = "SendRequestAndGetReplay" THEN ask ELSE answer
<1>1. c = <<[op |-> op, do |-> At("write", "readAll"), sock |-> e],
            [op |-> op, do |-> At("shutdown", "write"), sock |-> e],
            [op |-> op, do |-> At("readAll", "shutdown"), sock |-> e],
            [op |-> op, do |-> "getline", sock |-> e]>>
  BY CallSteps DEF Halves
<1>2. /\ op \in Ops /\ "getline" \in Dos
      /\ At("write", "readAll") \in Dos
      /\ At("shutdown", "write") \in Dos
      /\ At("readAll", "shutdown") \in Dos
  BY Names DEF Halves, Reads
<1> HIDE DEF c, At
<1>3. QED  BY <1>1, <1>2, StepTypes DEF c, At

\* Tests whose threads ask or answer, one at either end.
LEMMA HalvesWellFormed ==
  ASSUME NEW op1 \in Halves, NEW op2 \in Halves
  PROVE  WellFormed(<<Call(op1, "client"), Call(op2, "server")>>)
<1> DEFINE p == Call(op1, "client")
           q == Call(op2, "server")
           At(op, ask, answer) == IF op = "SendRequestAndGetReplay" THEN ask ELSE answer
<1> HIDE DEF p, q
<1>1. /\ p \in Seq(ScriptSteps)
      /\ Len(p) = 4
      /\ p[1] = [op |-> op1, do |-> At(op1, "write", "readAll"), sock |-> "client"]
      /\ p[2] = [op |-> op1, do |-> At(op1, "shutdown", "write"), sock |-> "client"]
      /\ p[3] = [op |-> op1, do |-> At(op1, "readAll", "shutdown"), sock |-> "client"]
      /\ p[4] = [op |-> op1, do |-> "getline", sock |-> "client"]
  BY HalfSteps, Names DEF p
<1>2. /\ q \in Seq(ScriptSteps)
      /\ Len(q) = 4
      /\ q[1] = [op |-> op2, do |-> At(op2, "write", "readAll"), sock |-> "server"]
      /\ q[2] = [op |-> op2, do |-> At(op2, "shutdown", "write"), sock |-> "server"]
      /\ q[3] = [op |-> op2, do |-> At(op2, "readAll", "shutdown"), sock |-> "server"]
      /\ q[4] = [op |-> op2, do |-> "getline", sock |-> "server"]
  BY HalfSteps, Names DEF q
<1>3. Fills(p, At(op1, 3, 1), 4) /\ Fills(q, At(op2, 3, 1), 4)
  BY <1>1, <1>2 DEF Fills, Halves
<1>4. Ordered(p)
  BY <1>1, <1>3 DEF Ordered, WrittenOnce, LinesIfTwice, InOrder, Delivers, Reads, Halves
<1>5. Ordered(q)
  BY <1>2, <1>3 DEF Ordered, WrittenOnce, LinesIfTwice, InOrder, Delivers, Reads, Halves
<1>6. Apart(p, q)
  <2>1. \A i \in 1..4 : p[i].sock = "client" /\ q[i].sock = "server"
    BY <1>1, <1>2
  <2>2. QED  BY <1>1, <1>2, <2>1 DEF Apart
<1>7. QED  BY <1>4, <1>5, <1>6 DEF WellFormed, p, q

\* The steps of WriteAsync.
LEMMA AsyncSteps ==
  ASSUME NEW e \in Ends
  PROVE  LET s == WriteAsync("server", e) IN
         /\ s \in Seq(ScriptSteps)
         /\ Len(s) = 4
         /\ s[1] = [op |-> "WriteAsync", do |-> "write", sock |-> "server"]
         /\ s[2] = [op |-> "WriteAsync", do |-> "callback", sock |-> "server"]
         /\ s[3] = [op |-> "WriteAsync", do |-> "read", sock |-> e]
         /\ s[4] = [op |-> "WriteAsync", do |-> "return", sock |-> e]
  BY StepTypes, Names DEF WriteAsync, WholeReads, Reads

\* The scripts with WriteAsync, beside a thread that at most cancels.
LEMMA AsyncWellFormed ==
  /\ WellFormed(<<WriteAsync("server", "client"), <<>>>>)
  /\ WellFormed(<<Call("cancel", "server"), WriteAsync("server", "server")>>)
<1>1. ASSUME NEW e \in Ends, NEW s \in Seq(ScriptSteps), NEW c \in Seq(ScriptSteps),
             Len(s) = 4,
             s[1] = [op |-> "WriteAsync", do |-> "write", sock |-> "server"],
             s[2] = [op |-> "WriteAsync", do |-> "callback", sock |-> "server"],
             s[3] = [op |-> "WriteAsync", do |-> "read", sock |-> e],
             s[4] = [op |-> "WriteAsync", do |-> "return", sock |-> e],
             \A i \in 1..Len(c) : c[i].do = "cancel"
      PROVE  WellFormed(<<s, c>>) /\ WellFormed(<<c, s>>)
  <2>1. Fills(s, 3, 4)
    BY <1>1 DEF Fills, WholeReads
  <2>2. Ordered(s)
    BY <1>1, <2>1 DEF Ordered, WrittenOnce, LinesIfTwice, InOrder, Delivers, Reads
  <2>3. Ordered(c)
    BY <1>1 DEF Ordered, WrittenOnce, LinesIfTwice, InOrder, Delivers, Reads
  <2>4. Apart(s, c) /\ Apart(c, s)
    BY <1>1 DEF Apart, Reads
  <2>5. QED  BY <2>2, <2>3, <2>4 DEF WellFormed
<1>2. WellFormed(<<WriteAsync("server", "client"), <<>>>>)
  <2> DEFINE s == WriteAsync("server", "client")
  <2> HIDE DEF s
  <2>1. "client" \in Ends /\ \A i \in 1..Len(<<>>) : <<>>[i].do = "cancel"
    BY Names
  <2>2. /\ s \in Seq(ScriptSteps)
        /\ Len(s) = 4
        /\ s[1] = [op |-> "WriteAsync", do |-> "write", sock |-> "server"]
        /\ s[2] = [op |-> "WriteAsync", do |-> "callback", sock |-> "server"]
        /\ s[3] = [op |-> "WriteAsync", do |-> "read", sock |-> "client"]
        /\ s[4] = [op |-> "WriteAsync", do |-> "return", sock |-> "client"]
    BY AsyncSteps, Names DEF s
  <2>3. WellFormed(<<s, <<>>>>)
    BY <1>1, <2>1, <2>2, StepTypes, NothingToDo DEF Ordered
  <2>4. QED  BY <2>3 DEF s
<1>3. WellFormed(<<Call("cancel", "server"), WriteAsync("server", "server")>>)
  <2> DEFINE s == WriteAsync("server", "server")
             c == Call("cancel", "server")
  <2>1. c = <<[op |-> "cancel", do |-> "cancel", sock |-> "server"]>>
    BY CallSteps, Names
  <2> HIDE DEF s, c
  <2>2. c \in Seq(ScriptSteps) /\ \A i \in 1..Len(c) : c[i].do = "cancel"
    BY <2>1, StepTypes, Names
  <2>3. /\ s \in Seq(ScriptSteps)
        /\ Len(s) = 4
        /\ s[1] = [op |-> "WriteAsync", do |-> "write", sock |-> "server"]
        /\ s[2] = [op |-> "WriteAsync", do |-> "callback", sock |-> "server"]
        /\ s[3] = [op |-> "WriteAsync", do |-> "read", sock |-> "server"]
        /\ s[4] = [op |-> "WriteAsync", do |-> "return", sock |-> "server"]
    BY AsyncSteps, Names DEF s
  <2>4. WellFormed(<<c, s>>)
    BY <1>1, <2>2, <2>3, Names
  <2>5. QED  BY <2>4 DEF s, c
<1>4. QED  BY <1>2, <1>3

\* The script that reads two lines.
LEMMA LinesWellFormed ==
  WellFormed(<<Call("WriteToSocket", "server"),
               Call("ReadFromSocketByDelimiter", "client")
                 \o Call("ReadFromSocketByDelimiter", "client")>>)
<1> DEFINE p == Call("WriteToSocket", "server")
           c == Call("ReadFromSocketByDelimiter", "client")
           q == c \o c
           read == [op |-> "ReadFromSocketByDelimiter", do |-> "readUntil",
                    sock |-> "client"]
           give == [op |-> "ReadFromSocketByDelimiter", do |-> "getline",
                    sock |-> "client"]
<1>1. p \in Seq(ScriptSteps) /\ Len(p) = 1 /\ p[1].do = "write"
  <2>1. p = <<[op |-> "WriteToSocket", do |-> "write", sock |-> "server"]>>
    BY CallSteps, Names
  <2> HIDE DEF p
  <2>2. QED  BY <2>1, StepTypes, Names
<1>2. c \in Seq(ScriptSteps) /\ Len(c) = 2 /\ c[1] = read /\ c[2] = give
  <2>1. c = <<read, give>>
    BY CallSteps, Names
  <2>2. read \in ScriptSteps /\ give \in ScriptSteps
    BY StepTypes, Names DEF Reads
  <2> HIDE DEF c, read, give
  <2>3. QED  BY <2>1, <2>2, StepTypes
<1>3. /\ q \in Seq(ScriptSteps) /\ Len(q) = 4
      /\ q[1] = read /\ q[2] = give /\ q[3] = read /\ q[4] = give
  <2> HIDE DEF c, read, give
  <2>1. QED  BY <1>2, ConcatProperties
<1> HIDE DEF p, q
<1>4. Fills(q, 1, 2) /\ Fills(q, 3, 4)
  BY <1>3 DEF Fills
<1>5. Ordered(q)
  BY <1>3, <1>4 DEF Ordered, WrittenOnce, LinesIfTwice, InOrder, Delivers, Reads
<1>6. Ordered(p)
  BY <1>1 DEF Ordered, WrittenOnce, LinesIfTwice, InOrder, Delivers, Reads
<1>7. Apart(p, q)
  BY <1>1, <1>3 DEF Apart, Reads
<1>8. QED  BY <1>5, <1>6, <1>7 DEF WellFormed, p, q

\* All scripts are well formed.
LEMMA ScriptsWellFormed == \A s \in Scenarios : WellFormed(Script(s))
<1> SUFFICES ASSUME NEW s \in Scenarios PROVE WellFormed(Script(s))
  OBVIOUS
<1>1. CASE s \in {"write_read_some", "asio_read_write", "asio_read_until"}
  BY <1>1, BothWellFormed DEF Script, Whole
<1>2. CASE s \in {"shutdown_send", "both_ask", "both_answer"}
  BY <1>2, HalvesWellFormed DEF Script, Halves
<1>3. CASE s \in {"read_write_async", "cancel_async"}
  BY <1>3, AsyncWellFormed DEF Script
<1>4. CASE s = "two_lines"
  BY <1>4, LinesWellFormed DEF Script
<1>5. QED  BY <1>1, <1>2, <1>3, <1>4, BuffersAssumption

-----------------------------------------------------------------------------
(* Runs of bytes, and their lines.                                         *)

\* Two runs with the same ends are one sequence.
LEMMA RunEqual ==
  ASSUME NEW s, NEW t, NEW a \in Nat, NEW n \in Nat, Run(s, a, n), Run(t, a, n)
  PROVE  s = t
  BY SeqEqual DEF Run

\* A run is longer by the bytes that follow it.
LEMMA RunGrows ==
  ASSUME NEW s, NEW t, NEW a \in Nat, NEW m \in Nat, NEW n \in Nat,
         Run(s, a, m), Run(t, a + m, n)
  PROVE  Run(s \o t, a, m + n)
<1>1. /\ s \o t \in Seq(Nat)
      /\ Len(s \o t) = m + n
      /\ \A i \in 1..m + n : (s \o t)[i] = IF i <= m THEN s[i] ELSE t[i - m]
  BY ConcatProperties DEF Run
<1> DEFINE u == s \o t
<1> HIDE DEF u
<1>2. ASSUME NEW i \in 1..m + n
      PROVE  u[i] = a + i
  <2>1. CASE i <= m
    BY <1>1, <2>1 DEF u, Run
  <2>2. CASE ~(i <= m)
    <3>1. i - m \in 1..n
      BY <2>2
    <3>2. t[i - m] = a + m + (i - m)
      BY <3>1 DEF Run
    <3>3. u[i] = t[i - m]
      BY <1>1, <2>2 DEF u
    <3>4. QED  BY <3>2, <3>3
  <2>3. QED  BY <2>1, <2>2
<1>3. QED  BY <1>1, <1>2 DEF u, Run

\* A part of a run is a run.
LEMMA RunPart ==
  ASSUME NEW s, NEW a \in Nat, NEW n \in Nat, Run(s, a, n),
         NEW i \in 1..n + 1, NEW j \in i - 1..n
  PROVE  Run(SubSeq(s, i, j), a + i - 1, j - i + 1)
<1>1. \A k \in i..j : s[k] = a + k /\ s[k] \in Nat
  BY DEF Run
<1>2. /\ SubSeq(s, i, j) \in Seq(Nat)
      /\ Len(SubSeq(s, i, j)) = IF i <= j THEN j - i + 1 ELSE 0
      /\ \A k \in 1..j - i + 1 : SubSeq(s, i, j)[k] = s[i + k - 1]
  BY <1>1, SubSeqProperties
<1> DEFINE u == SubSeq(s, i, j)
<1> HIDE DEF u
<1>3. Len(u) = j - i + 1
  BY <1>2 DEF u
<1>4. \A k \in 1..j - i + 1 : u[k] = (a + i - 1) + k
  <2>1. \A k \in 1..j - i + 1 : i + k - 1 \in i..j
    OBVIOUS
  <2>2. \A k \in 1..j - i + 1 : u[k] = s[i + k - 1]
    BY <1>2 DEF u
  <2>3. QED  BY <1>1, <2>1, <2>2
<1>5. QED  BY <1>2, <1>3, <1>4 DEF u, Run

\* A message is the run of its bytes.
LEMMA BytesRun ==
  ASSUME NEW e, size[e] \in Nat
  PROVE  Run(Bytes(e), 0, size[e])
  BY DEF Run, Bytes

\* A nonempty set of natural numbers has a least element.
LEMMA LeastNatural ==
  ASSUME NEW X, X \subseteq Nat, X # {}
  PROVE  \E x \in X : \A y \in X : x <= y
<1> DEFINE L == OpToRel(<, Nat)
<1>1. \A x, y \in Nat : <<y, x>> \notin L => x <= y
  BY DEF OpToRel
<1>2. IsWellFoundedOn(L, Nat)
  BY NatLessThanWellFounded
<1> HIDE DEF L
<1>3. \E x \in X : \A y \in X : ~(<<y, x>> \in L)
  BY <1>2, WFMin
<1>4. QED  BY <1>1, <1>3, Zenon

\* The line of s ends before the first delimiter.
LEMMA LineEnds ==
  ASSUME NEW s \in Seq(Nat), NEW D, NEW f \in 1..Len(s),
         s[f] \in D, \A x \in 1..f - 1 : s[x] \notin D
  PROVE  Line(s, D) = SubSeq(s, 1, f - 1)
<1> DEFINE X == {i \in 1..Len(s) : s[i] \in D}
<1>1. f \in X /\ \A y \in X : f <= y
  OBVIOUS
<1>2. Min(X) = f
  BY <1>1 DEF Min
<1>3. Line(s, D) = IF X = {} THEN s ELSE SubSeq(s, 1, Min(X) - 1)
  BY <1>1, <1>2 DEF Line, SelectInSeq
<1>4. QED  BY <1>1, <1>2, <1>3

\* Without a delimiter the line is all of s.
LEMMA LineOfAll ==
  ASSUME NEW s, NEW D, \A i \in 1..Len(s) : s[i] \notin D
  PROVE  Line(s, D) = s
  BY DEF Line, SelectInSeq

\* With one there is a first one.
LEMMA FirstDelimiter ==
  ASSUME NEW s \in Seq(Nat), NEW D, NEW k \in 1..Len(s), s[k] \in D
  PROVE  \E f \in 1..Len(s) : s[f] \in D /\ \A x \in 1..f - 1 : s[x] \notin D
<1> DEFINE X == {i \in 1..Len(s) : s[i] \in D}
<1>1. X \subseteq Nat /\ X # {}
  OBVIOUS
<1>2. PICK f \in X : \A y \in X : f <= y
  BY <1>1, LeastNatural
<1>3. QED  BY <1>2

\* The line of what was read, from position a, is the line of the message from
\* there, when the reader has seen a delimiter; its bytes come before a delimiter
\* that was read.
LEMMA LineRead ==
  ASSUME NEW e, size[e] \in Nat, NEW D, NEW s, NEW a \in Nat, NEW n \in Nat,
         Run(s, a, n), a + n <= size[e], NEW k \in 1..n, s[k] \in D
  PROVE  /\ Line(s, D) = LineFrom(Bytes(e), a + 1, D)
         /\ \E d \in D : /\ d \in Nat /\ a < d /\ d <= a + n
                         /\ \A x \in 1..Len(Line(s, D)) : Line(s, D)[x] < d
<1> DEFINE m == SubSeq(Bytes(e), a + 1, size[e])
<1>1. Run(m, a, size[e] - a)
  <2>1. a + 1 \in 1..size[e] + 1 /\ size[e] \in (a + 1) - 1..size[e]
    OBVIOUS
  <2>2. Run(m, 0 + (a + 1) - 1, size[e] - (a + 1) + 1)
    BY <2>1, BytesRun, RunPart
  <2>3. QED  BY <2>2
<1>2. PICK f \in 1..Len(s) : s[f] \in D /\ \A x \in 1..f - 1 : s[x] \notin D
  BY FirstDelimiter DEF Run
<1>3. f \in 1..n /\ f \in 1..size[e] - a /\ s[f] = a + f
  BY <1>2 DEF Run
<1>4. Line(s, D) = SubSeq(s, 1, f - 1)
  BY <1>2, LineEnds DEF Run
<1>5. Line(m, D) = SubSeq(m, 1, f - 1)
  <2> HIDE DEF m
  <2>1. m \in Seq(Nat) /\ Len(m) = size[e] - a /\ \A x \in 1..size[e] - a : m[x] = a + x
    BY <1>1 DEF Run
  <2>2. \A x \in 1..n : s[x] = a + x
    BY DEF Run
  <2>3. f \in 1..Len(m)
    BY <1>3, <2>1
  <2>4. \A x \in 1..f : x \in 1..n /\ x \in 1..size[e] - a
    BY <1>3
  <2>5. \A x \in 1..f : m[x] = s[x]
    BY <2>1, <2>2, <2>4
  <2>6. m[f] \in D /\ \A x \in 1..f - 1 : m[x] \notin D
    BY <1>2, <1>3, <2>5
  <2>7. QED  BY <2>1, <2>3, <2>6, LineEnds
<1>6. Run(SubSeq(s, 1, f - 1), a, f - 1)
  <2>1. 1 \in 1..n + 1 /\ f - 1 \in 1 - 1..n
    BY <1>3
  <2>2. Run(SubSeq(s, 1, f - 1), a + 1 - 1, (f - 1) - 1 + 1)
    BY <2>1, RunPart
  <2>3. QED  BY <1>3, <2>2
<1>7. Run(SubSeq(m, 1, f - 1), a, f - 1)
  <2> HIDE DEF m
  <2>1. 1 \in 1..(size[e] - a) + 1 /\ f - 1 \in 1 - 1..size[e] - a
    BY <1>3
  <2>2. size[e] - a \in Nat
    OBVIOUS
  <2>3. Run(SubSeq(m, 1, f - 1), a + 1 - 1, (f - 1) - 1 + 1)
    BY <1>1, <2>1, <2>2, RunPart
  <2>4. QED  BY <1>3, <2>3
<1>8. Line(s, D) = Line(m, D)
  <2>1. f - 1 \in Nat
    BY <1>3
  <2>2. QED  BY <1>4, <1>5, <1>6, <1>7, <2>1, RunEqual
<1>9. LineFrom(Bytes(e), a + 1, D) = Line(m, D)
  BY BytesRun DEF LineFrom, Run
<1>10. \A x \in 1..Len(Line(s, D)) : Line(s, D)[x] < a + f
  BY <1>3, <1>4, <1>6 DEF Run
<1>11. a + f \in D /\ a + f \in Nat /\ a < a + f /\ a + f <= a + n
  BY <1>2, <1>3
<1>12. QED  BY <1>8, <1>9, <1>10, <1>11

\* A whole message has the line of the message.
LEMMA LineOfMessage ==
  ASSUME NEW e, size[e] \in Nat, NEW D, NEW s, Run(s, 0, size[e])
  PROVE  Line(s, D) = LineFrom(Bytes(e), 1, D)
<1>1. s = Bytes(e)
  BY BytesRun, RunEqual
<1>2. Bytes(e) \in Seq(Nat) /\ SubSeq(Bytes(e), 1, Len(Bytes(e))) = Bytes(e)
  BY BytesRun, SubSeqFull DEF Run
<1>3. QED  BY <1>1, <1>2 DEF LineFrom

-----------------------------------------------------------------------------
(* Threads and their scripts.                                              *)

\* The script of a thread is well formed, and apart from the other one's.
LEMMA PlanFacts ==
  ASSUME OnScript, NEW t \in Threads
  PROVE  /\ Ordered(Plan(t))
         /\ \A u \in Threads : u # t => Apart(Plan(t), Plan(u))
<1>1. WellFormed(Script(scenario))
  BY ScriptsWellFormed DEF OnScript
<1> DEFINE p == Script(scenario)
<1>2. /\ Plan("t1") = p[1] /\ Plan("t2") = p[2]
  BY DEF Plan
<1> HIDE DEF p
<1>3. Ordered(p[1]) /\ Ordered(p[2]) /\ Apart(p[1], p[2])
  BY <1>1 DEF WellFormed, p
<1>4. Apart(p[2], p[1])
  BY <1>3 DEF Apart
<1>5. QED  BY <1>2, <1>3, <1>4 DEF Threads

\* A thread that goes on is at a step of its script.
LEMMA AtStep ==
  ASSUME OnScript, NEW t \in Threads, todo[t] # <<>>
  PROVE  /\ Pc(t) \in 1..Len(Plan(t))
         /\ Plan(t)[Pc(t)] \in ScriptSteps
         /\ Head(todo[t]) = Plan(t)[Pc(t)]
         /\ Sock(t) = Plan(t)[Pc(t)].sock
         /\ Sock(t) \in Ends
         /\ \A what : Doing(t, what) <=> Plan(t)[Pc(t)].do \in what
<1>1. Plan(t) \in Seq(ScriptSteps)
  BY PlanFacts DEF Ordered
<1>2. /\ todo[t] \in Seq(ScriptSteps)
      /\ Len(todo[t]) \in Nat /\ Len(todo[t]) \geq 1
      /\ Len(todo[t]) <= Len(Plan(t))
      /\ todo[t][1] = Plan(t)[Len(Plan(t)) - Len(todo[t]) + 1]
  BY DEF OnScript
<1>3. Pc(t) \in 1..Len(Plan(t))
  BY <1>1, <1>2 DEF Pc
<1>4. Head(todo[t]) = todo[t][1]
  <2> DEFINE q == todo[t]
  <2>1. q \in Seq(ScriptSteps) /\ Len(q) \geq 1
    BY <1>2
  <2> HIDE DEF q
  <2>2. Head(q) = q[1]
    BY <2>1
  <2>3. QED  BY <2>2 DEF q
<1>5. Plan(t)[Pc(t)] \in ScriptSteps
  BY <1>1, <1>3
<1>6. QED  BY <1>2, <1>3, <1>4, <1>5 DEF Doing, Sock, ScriptSteps, Pc

\* What is left of a script, less its first step, is what is left of the script.
LEMMA LeftOfScript ==
  ASSUME NEW s \in Seq(ScriptSteps), NEW q \in Seq(ScriptSteps), q # <<>>,
         Len(q) <= Len(s), \A i \in 1..Len(q) : q[i] = s[Len(s) - Len(q) + i]
  PROVE  /\ Tail(q) \in Seq(ScriptSteps)
         /\ Len(Tail(q)) = Len(q) - 1
         /\ \A i \in 1..Len(Tail(q)) : Tail(q)[i] = s[Len(s) - Len(Tail(q)) + i]
<1>1. /\ Tail(q) \in Seq(ScriptSteps)
      /\ Len(Tail(q)) = Len(q) - 1
      /\ \A i \in 1..Len(Tail(q)) : Tail(q)[i] = q[i + 1]
  BY HeadTailProperties
<1> DEFINE u == Tail(q)
<1> HIDE DEF u
<1>2. Len(q) \in Nat /\ Len(s) \in Nat
  OBVIOUS
<1>3. \A i \in 1..Len(u) : /\ i + 1 \in 1..Len(q)
                          /\ Len(s) - Len(q) + (i + 1) = Len(s) - Len(u) + i
  BY <1>1, <1>2 DEF u
<1>4. \A i \in 1..Len(u) : u[i] = s[Len(s) - Len(u) + i]
  BY <1>1, <1>3 DEF u
<1>5. QED  BY <1>1, <1>4 DEF u

\* A thread stays where it is, goes one step on, or gives up.
Goes(t) ==
  \/ todo'[t] = todo[t]
  \/ todo[t] # <<>> /\ todo'[t] = Tail(todo[t])
  \/ todo'[t] = <<>>

\* Then it still follows its script.
LEMMA ScriptKept ==
  ASSUME OnScript, scenario' = scenario, DOMAIN todo' = Threads,
         todo' = [t \in Threads |-> todo'[t]], \A t \in Threads : Goes(t)
  PROVE  /\ OnScript'
         /\ \A t \in Threads :
              /\ Plan(t)' = Plan(t)
              /\ Pc(t) \in Nat /\ Pc(t) <= Pc(t)'
              /\ todo'[t] = todo[t] => Pc(t)' = Pc(t)
              /\ todo[t] # <<>> /\ todo'[t] = Tail(todo[t]) => Pc(t)' = Pc(t) + 1
<1>1. \A t \in Threads : Plan(t)' = Plan(t)
  BY DEF Plan
<1>2. ASSUME NEW t \in Threads
      PROVE  /\ todo'[t] \in Seq(ScriptSteps)
             /\ Len(todo'[t]) <= Len(todo[t])
             /\ Len(todo[t]) <= Len(Plan(t))
             /\ Len(Plan(t)) \in Nat /\ Len(todo[t]) \in Nat
             /\ todo[t] # <<>> /\ todo'[t] = Tail(todo[t]) =>
                  Len(todo'[t]) = Len(todo[t]) - 1
             /\ \A i \in 1..Len(todo'[t]) :
                  todo'[t][i] = Plan(t)[Len(Plan(t)) - Len(todo'[t]) + i]
  <2>1. /\ todo[t] \in Seq(ScriptSteps) /\ Plan(t) \in Seq(ScriptSteps)
        /\ Len(todo[t]) <= Len(Plan(t))
        /\ \A i \in 1..Len(todo[t]) :
             todo[t][i] = Plan(t)[Len(Plan(t)) - Len(todo[t]) + i]
    BY PlanFacts DEF OnScript, Ordered
  <2> DEFINE s == Plan(t)
             q == todo[t]
             u == todo'[t]
  <2>2. u = q \/ (q # <<>> /\ u = Tail(q)) \/ u = <<>>
    BY DEF Goes
  <2> HIDE DEF s, q, u
  <2>3. q # <<>> => /\ Tail(q) \in Seq(ScriptSteps)
                    /\ Len(Tail(q)) = Len(q) - 1
                    /\ \A i \in 1..Len(Tail(q)) :
                         Tail(q)[i] = s[Len(s) - Len(Tail(q)) + i]
    BY <2>1, LeftOfScript DEF s, q
  <2>4. Len(s) \in Nat /\ Len(q) \in Nat
    BY <2>1 DEF s, q
  <2>5. q # <<>> /\ u = Tail(q) => Len(u) = Len(q) - 1
    BY <2>3
  <2>6. u \in Seq(ScriptSteps) /\ Len(u) <= Len(q)
    <3>1. CASE u = q
      BY <3>1, <2>1 DEF q
    <3>2. CASE q # <<>> /\ u = Tail(q)
      BY <3>2, <2>3, <2>4
    <3>3. CASE u = <<>>
      BY <3>3, <2>4
    <3>4. QED  BY <2>2, <3>1, <3>2, <3>3
  <2>7. \A i \in 1..Len(u) : u[i] = s[Len(s) - Len(u) + i]
    <3>1. CASE u = q
      BY <3>1, <2>1 DEF q, s
    <3>2. CASE q # <<>> /\ u = Tail(q)
      BY <3>2, <2>3
    <3>3. CASE u = <<>>
      BY <3>3
    <3>4. QED  BY <2>2, <3>1, <3>2, <3>3
  <2>8. QED  BY <2>1, <2>4, <2>5, <2>6, <2>7 DEF s, q, u
<1>3. todo' \in [Threads -> Seq(ScriptSteps)]
  BY <1>2
<1>4. OnScript'
  <2>1. ASSUME NEW t \in Threads
        PROVE  /\ Len(todo'[t]) <= Len(Plan(t)')
               /\ \A i \in 1..Len(todo'[t]) :
                    todo'[t][i] = Plan(t)'[Len(Plan(t)') - Len(todo'[t]) + i]
    <3>1. Len(todo'[t]) <= Len(Plan(t))
      <4>1. Len(todo'[t]) \in Nat
        BY <1>2
      <4>2. QED  BY <1>2, <4>1
    <3>2. QED  BY <1>1, <1>2, <3>1
  <2>2. QED  BY <1>3, <2>1 DEF OnScript
<1>5. ASSUME NEW t \in Threads
      PROVE  /\ Pc(t) \in Nat /\ Pc(t) <= Pc(t)'
             /\ todo'[t] = todo[t] => Pc(t)' = Pc(t)
             /\ todo[t] # <<>> /\ todo'[t] = Tail(todo[t]) => Pc(t)' = Pc(t) + 1
  <2> DEFINE k == Len(Plan(t))
             m == Len(todo[t])
             n == Len(todo'[t])
  <2>1. /\ k \in Nat /\ m \in Nat /\ n \in Nat /\ m <= k /\ n <= m
        /\ todo'[t] = todo[t] => n = m
        /\ todo[t] # <<>> /\ todo'[t] = Tail(todo[t]) => n = m - 1
    BY <1>2
  <2>2. Pc(t) = k - m + 1 /\ Pc(t)' = k - n + 1
    BY <1>1 DEF Pc
  <2> HIDE DEF k, m, n
  <2>3. QED  BY <2>1, <2>2
<1>6. QED  BY <1>1, <1>4, <1>5

\* What one read fills is returned before another read begins.
LEMMA FillsApart ==
  ASSUME NEW s, NEW i \in Nat, NEW j \in Nat, NEW a \in Nat, NEW b \in Nat,
         Fills(s, i, j), Fills(s, a, b)
  PROVE  /\ \A k \in Nat : i <= k /\ k <= j /\ a <= k /\ k <= b => i = a /\ j = b
         /\ ~(a <= j /\ j < b)
         /\ s[i].do \in Reads /\ s[j].do \in Delivers /\ s[i].do \notin Delivers
         /\ s[j].do \notin Reads
<1>1. /\ s[i].do \in Reads /\ s[j].do \in Delivers /\ s[a].do \in Reads
      /\ s[b].do \in Delivers /\ i < j /\ a < b
      /\ \A k \in Nat : i < k /\ k < j => s[k].do \in {"write", "shutdown"}
      /\ \A k \in Nat : a < k /\ k < b => s[k].do \in {"write", "shutdown"}
  BY DEF Fills, Reads, Delivers
<1>2. \A x : ~(x \in Reads /\ x \in Delivers) /\ ~(x \in Reads /\ x \in {"write", "shutdown"})
             /\ ~(x \in Delivers /\ x \in {"write", "shutdown"})
  BY DEF Reads, Delivers
<1>3. ~(a <= j /\ j < b)
  BY <1>1, <1>2
<1>4. ~(i <= b /\ b < j)
  BY <1>1, <1>2
<1>5. ASSUME NEW k \in Nat, i <= k, k <= j, a <= k, k <= b
      PROVE  i = a /\ j = b
  <2>1. j = b
    BY <1>3, <1>4, <1>5
  <2>2. i = a
    BY <1>1, <1>2, <2>1
  <2>3. QED  BY <2>1, <2>2
<1>6. QED  BY <1>1, <1>2, <1>3, <1>5

\* The socket of a step is one of the two ends.
LEMMA StepSock ==
  ASSUME OnScript, NEW t \in Threads, NEW i \in 1..Len(Plan(t))
  PROVE  /\ Plan(t)[i] \in ScriptSteps
         /\ Plan(t)[i].sock \in Ends
         /\ Peer(Plan(t)[i].sock) \in Ends
<1>1. Plan(t)[i] \in ScriptSteps
  BY PlanFacts DEF Ordered
<1>2. QED  BY <1>1 DEF ScriptSteps, Peer, Ends

\* No read begins within another one.
LEMMA NoReadWithin ==
  ASSUME NEW s, NEW j \in Nat, NEW a \in Nat, NEW b \in Nat, NEW k \in Nat,
         Fills(s, a, b), a <= k, k + 1 <= b, Fills(s, k + 1, j)
  PROVE  FALSE
<1>1. s[k + 1].do \in Reads /\ s[b].do \in Delivers
  BY DEF Fills, Reads, Delivers
<1>2. k + 1 \in a + 1..b - 1 => s[k + 1].do \in {"write", "shutdown"}
  BY DEF Fills
<1>3. k + 1 \in a + 1..b - 1
  BY <1>1 DEF Reads, Delivers
<1>4. QED  BY <1>1, <1>2, <1>3 DEF Reads

-----------------------------------------------------------------------------
(* What a step does to what is known of a thread.                          *)

Known(t, w, r) == Writing(t, w) /\ Reading(t, r) /\ Begins(t, r) /\ Returned(t)

SameInputs == UNCHANGED <<scenario, size, marks, BufferSize>>

\* What a thread has read is not touched by a step that reads other ends.
LEMMA ReadingStays ==
  ASSUME OnScript, SameInputs, NEW t \in Threads, NEW w, NEW r, NEW r2, Known(t, w, r),
         todo'[t] = todo[t], buffer'[t] = buffer[t], outcome'[t] = outcome[t],
         \A i \in 1..Len(Plan(t)) : Plan(t)[i].do \in Reads =>
           r2[Peer(Plan(t)[i].sock)] = r[Peer(Plan(t)[i].sock)]
  PROVE  Reading(t, r2)' /\ Begins(t, r2)' /\ Returned(t)'
<1>1. Plan(t)' = Plan(t) /\ Pc(t)' = Pc(t)
  BY DEF Plan, Pc, SameInputs
<1>2. \A i, j : Fills(Plan(t), i, j) => Plan(t)[i].do \in Reads
  BY DEF Fills, Reads
<1>3. \A e : Earlier(t, e)' = Earlier(t, e)
  BY DEF Earlier
<1>4. \A e, b : StartsAt(t, e, b)' <=> StartsAt(t, e, b)
  <2>1. \A e, d : Below(t, e, d)' <=> Below(t, e, d)
    BY <1>3 DEF Below
  <2>2. QED  BY <1>3, <2>1 DEF StartsAt, SameInputs
<1>5. Reading(t, r2)'
  BY <1>1, <1>2 DEF Reading, InRead, Known, SameInputs
<1>6. Begins(t, r2)'
  <2>1. \A i, j : NextRead(t, i, j)' <=> NextRead(t, i, j)
    BY <1>1 DEF NextRead
  <2>2. ASSUME NEW i \in 1..Len(Plan(t)), NEW j, NextRead(t, i, j)
        PROVE  Base(t, i, r2)' = Base(t, i, r)
    BY <1>1, <1>2, <2>2 DEF NextRead, Base
  <2>3. QED  BY <1>1, <1>4, <2>1, <2>2 DEF Begins, Known
<1>7. Returned(t)'
  BY <1>1 DEF Returned, Known
<1>8. QED  BY <1>5, <1>6, <1>7

\* What a thread has written is not touched by a step that writes other ends.
LEMMA WritingStays ==
  ASSUME OnScript, SameInputs, NEW t \in Threads, NEW w, NEW r, NEW w2, Known(t, w, r),
         todo'[t] = todo[t], count'[t] = count[t],
         \A i \in 1..Len(Plan(t)) : Plan(t)[i].do = "write" =>
           w2[Plan(t)[i].sock] = w[Plan(t)[i].sock]
  PROVE  Writing(t, w2)'
<1>1. Plan(t)' = Plan(t) /\ Pc(t)' = Pc(t)
  BY DEF Plan, Pc, SameInputs
<1>2. QED  BY <1>1 DEF Writing, Doing, Known, SameInputs

\* A thread whose call is left by an exception or a cancellation.
LEMMA GivesUp ==
  ASSUME OnScript, SameInputs, NEW t \in Threads,
         NEW w, NEW r, Known(t, w, r),
         todo'[t] = <<>>, outcome'[t] = outcome[t], Pc(t) <= Pc(t)'
  PROVE  Known(t, w, r)'
<1>1. Plan(t)' = Plan(t)
  BY DEF Plan, SameInputs
<1>2. Writing(t, w)' /\ Reading(t, r)' /\ Begins(t, r)'
  BY DEF Writing, Reading, Begins
<1>3. Returned(t)'
  <2>1. Pc(t) \in Int /\ Pc(t)' \in Int
    BY <1>1, PlanFacts DEF Pc, OnScript, Ordered
  <2>2. QED  BY <1>1, <2>1 DEF Returned, Known
<1>4. QED  BY <1>2, <1>3 DEF Known

\* A thread that has done its step, which was not to return what it read.
LEMMA GoesOn ==
  ASSUME OnScript, SameInputs, StateTypes, NEW t \in Threads,
         NEW w \in [Ends -> Nat], NEW r \in [Ends -> Nat], Known(t, w, r),
         todo[t] # <<>>, Pc(t)' = Pc(t) + 1,
         Plan(t)[Pc(t)].do \notin Delivers,
         Doing(t, {"write"}) => count[t] = size[Sock(t)],
         Plan(t)[Pc(t)].do = "read" => Len(buffer[t]) = BufferSize,
         Plan(t)[Pc(t)].do = "readUntil" =>
           \E k \in 1..Len(buffer[t]) : buffer[t][k] \in marks[Peer(Sock(t))],
         Plan(t)[Pc(t)].do = "readAll" => r[Peer(Sock(t))] = size[Peer(Sock(t))],
         count'[t] = 0, buffer'[t] = buffer[t], outcome'[t] = outcome[t]
  PROVE  Known(t, w, r)'
<1> DEFINE s == Plan(t)
           k == Pc(t)
<1>1. s' = s
  BY DEF Plan, SameInputs
<1>2. /\ k \in 1..Len(s) /\ Sock(t) = s[k].sock
      /\ \A what : Doing(t, what) <=> s[k].do \in what
      /\ Len(s) \in Nat
  BY AtStep, PlanFacts DEF Ordered
<1>3. \A e : Earlier(t, e)' = Earlier(t, e)
  BY DEF Earlier
<1>4. \A e, b : StartsAt(t, e, b)' <=> StartsAt(t, e, b)
  <2>1. \A e, d : Below(t, e, d)' <=> Below(t, e, d)
    BY <1>3 DEF Below
  <2>2. QED  BY <1>3, <2>1 DEF StartsAt, SameInputs
<1>5. Writing(t, w)'
  <2>1. ASSUME NEW i \in 1..Len(s), s[i].do = "write"
        PROVE  LET e == s[i].sock IN
               /\ i < k + 1 => w[e] = size[e]
               /\ i = k + 1 => w[e] = 0
               /\ i > k + 1 => w[e] = 0
    <3>1. CASE i < k
      BY <1>2, <2>1, <3>1 DEF Writing, Known
    <3>2. CASE i = k
      BY <1>2, <2>1, <3>2 DEF Writing, Known
    <3>3. CASE i > k
      BY <1>2, <2>1, <3>3 DEF Writing, Known
    <3>4. QED  BY <1>2, <3>1, <3>2, <3>3
  <2>2. QED  BY <1>1, <2>1 DEF Writing, SameInputs
<1>6. \A i, j \in 1..Len(s) : InRead(t, i, j) => Fills(s, i, j) /\ i <= k /\ k + 1 <= j
  <2>1. \A i, j \in 1..Len(s) : Fills(s, i, j) => s[j].do \in Delivers
    BY DEF Fills, Delivers
  <2>2. QED  BY <1>2, <2>1 DEF InRead
<1>7. \A i, j \in 1..Len(s) : Fills(s, i, j) /\ i = k + 1 =>
        /\ buffer[t] = <<>>
        /\ \A a, b \in 1..Len(s) : ~InRead(t, a, b)
  <2>1. ASSUME NEW i \in 1..Len(s), NEW j \in 1..Len(s), Fills(s, i, j), i = k + 1,
               NEW a \in 1..Len(s), NEW b \in 1..Len(s), InRead(t, a, b)
        PROVE  FALSE
    <3>1. Fills(s, a, b) /\ a <= k /\ k + 1 <= b
      BY <1>6, <2>1
    <3>2. k + 1 \in Nat /\ k + 1 <= j
      BY <1>2, <2>1 DEF Fills
    <3>3. i \in Nat /\ j \in Nat /\ a \in Nat /\ b \in Nat /\ k \in Nat
      BY <1>2
    <3> HIDE DEF s, k
    <3>4. QED  BY <2>1, <3>1, <3>3, NoReadWithin
  <2>2. QED  BY <2>1 DEF Reading, Known
<1>8. Reading(t, r)'
  <2>1. ASSUME \A i, j \in 1..Len(s) : ~(Fills(s, i, j) /\ i <= k + 1 /\ k + 1 <= j)
        PROVE  buffer[t] = <<>>
    BY <1>2, <1>6, <2>1 DEF Reading, Known
  <2>2. ASSUME NEW i \in 1..Len(s), NEW j \in 1..Len(s),
               Fills(s, i, j), i <= k + 1, k + 1 <= j
        PROVE  LET p == Peer(s[i].sock)
                   n == Len(buffer[t])
               IN  /\ n <= r[p]
                   /\ Run(buffer[t], r[p] - n, n)
                   /\ s[i].do = "read" => n <= BufferSize /\ (i < k + 1 => n = BufferSize)
                   /\ s[i].do = "readUntil" /\ i < k + 1 =>
                        \E x \in 1..n : buffer[t][x] \in marks[p]
                   /\ s[i].do = "readAll" /\ i < k + 1 => r[p] = size[p]
    <3>1. CASE i = k + 1
      <4>1. buffer[t] = <<>>
        BY <1>7, <2>2, <3>1
      <4>2. s[i].sock \in Ends /\ Peer(s[i].sock) \in Ends
        BY StepSock
      <4>3. r[Peer(s[i].sock)] \in Nat /\ BufferSize \in Nat
        BY <4>2 DEF StateTypes
      <4>4. QED  BY <3>1, <4>1, <4>3 DEF Run
    <3>2. CASE i < k
      <4>1. InRead(t, i, j)
        BY <1>2, <2>2, <3>2 DEF InRead
      <4>2. QED  BY <1>2, <3>2, <4>1 DEF Reading, Known
    <3>3. CASE i = k
      <4>1. InRead(t, i, j)
        BY <1>2, <2>2, <3>3 DEF InRead
      <4>2. QED  BY <1>2, <3>3, <4>1 DEF Reading, Known
    <3>4. QED  BY <1>2, <2>2, <3>1, <3>2, <3>3
  <2>3. QED  BY <1>1, <2>1, <2>2 DEF Reading, InRead, SameInputs
<1>9. Begins(t, r)'
  <2>1. ASSUME NEW i \in 1..Len(s), NEW j \in 1..Len(s), NextRead(t, i, j)'
        PROVE  StartsAt(t, s[i].sock, Base(t, i, r))'
    <3>1. /\ Fills(s, i, j) /\ k + 1 <= j
          /\ \A x \in k + 1..j - 1 : ~(s[x].do \in Delivers /\ s[x].sock = s[i].sock)
      BY <1>1, <2>1 DEF NextRead
    <3>2. NextRead(t, i, j)
      BY <1>2, <3>1 DEF NextRead
    <3>3. Base(t, i, r)' = Base(t, i, r)
      <4>1. Base(t, i, r)' = IF i <= k + 1 THEN r[Peer(s[i].sock)] - Len(buffer[t])
                             ELSE r[Peer(s[i].sock)]
        BY <1>1 DEF Base
      <4>2. CASE i = k + 1
        <5>1. buffer[t] = <<>> /\ r[Peer(s[i].sock)] \in Nat
          BY <1>7, <3>1, <4>2, StepSock
        <5>2. QED  BY <1>2, <4>1, <4>2, <5>1 DEF Base
      <4>3. CASE i # k + 1
        BY <1>2, <4>1, <4>3 DEF Base
      <4>4. QED  BY <4>2, <4>3
    <3>4. StartsAt(t, s[i].sock, Base(t, i, r))
      BY <3>2 DEF Begins, Known
    <3> DEFINE e == s[i].sock
               b == Base(t, i, r)
    <3>5. StartsAt(t, e, b)'
      BY <1>1, <3>3, <3>4 DEF StartsAt, Below, Earlier, SameInputs
    <3>6. QED  BY <3>5
  <2>2. QED  BY <1>1, <2>1 DEF Begins
<1>10. Returned(t)'
  <2>1. ASSUME NEW x \in DOMAIN outcome[t]
        PROVE  \E j \in 1..Len(s) :
                 /\ j < k + 1
                 /\ s[j].do \in Delivers
                 /\ s[j].sock = outcome[t][x].sock
                 /\ s[j].op = outcome[t][x].op
    BY <1>2 DEF Returned, Known
  <2>2. QED  BY <1>1, <2>1 DEF Returned
<1>11. QED  BY <1>5, <1>8, <1>9, <1>10 DEF Known

-----------------------------------------------------------------------------
(* The steps that neither move bytes nor return.                           *)

\* The thread has done its step.
Done(t) ==
  /\ todo[t] # <<>>
  /\ ~Doing(t, Delivers)
  /\ Doing(t, {"write"}) => count[t] = size[Sock(t)]
  /\ Doing(t, Reads) => Enough(t)

\* What was returned is as good after a step that returns nothing.
LEMMA WholeKept ==
  ASSUME WholeOrThrown, SameInputs, outcome' = outcome
  PROVE  WholeOrThrown'
<1>1. \A q, k : IsWhole(q, k)' <=> IsWhole(q, k)
  BY DEF IsWhole, Bytes, SameInputs
<1>2. QED  BY <1>1 DEF WholeOrThrown

\* Threads that stay, give up or have done their step keep the invariant.
LEMMA MovesKeep ==
  ASSUME IInv, SameInputs,
         todo' = [u \in Threads |-> todo'[u]], count' \in [Threads -> Nat],
         buffer' = buffer, outcome' = outcome, stream' = stream,
         sendShut' \in [Ends -> BOOLEAN], broken' \in BOOLEAN, thrown' \subseteq Threads,
         \A u \in Threads :
           \/ todo'[u] = todo[u] /\ count'[u] = count[u]
           \/ todo'[u] = <<>>
           \/ /\ Done(u)
              /\ todo'[u] = Tail(todo[u])
              /\ count'[u] = IF Doing(u, {"write"}) THEN 0 ELSE count[u],
         \A e \in Ends : sendShut'[e] =>
           sendShut[e] \/ \E u \in Threads : Doing(u, {"shutdown"}) /\ Sock(u) = e
  PROVE  IInv'
<1>1. PICK w \in [Ends -> Nat], r \in [Ends -> Nat] : Positions(w, r)
  BY DEF IInv
<1>2. StateTypes /\ OnScript /\ WholeOrThrown
  BY DEF IInv
<1>3. StateTypes' /\ WholeOrThrown'
  BY <1>2, WholeKept DEF StateTypes, SameInputs
<1>4. /\ OnScript'
      /\ \A t \in Threads :
           /\ Pc(t) <= Pc(t)'
           /\ todo[t] # <<>> /\ todo'[t] = Tail(todo[t]) => Pc(t)' = Pc(t) + 1
  <2>1. scenario' = scenario /\ \A t \in Threads : Goes(t)
    BY DEF Goes, Done, SameInputs
  <2>2. QED  BY <1>2, <2>1, ScriptKept
<1>5. ASSUME NEW t \in Threads
      PROVE  Known(t, w, r)'
  <2>1. Known(t, w, r)
    BY <1>1 DEF Positions, Known
  <2>2. CASE todo'[t] = todo[t] /\ count'[t] = count[t]
    BY <1>2, <2>1, <2>2, ReadingStays, WritingStays DEF Known
  <2>3. CASE todo'[t] = <<>>
    BY <1>2, <1>4, <2>1, <2>3, GivesUp
  <2>4. CASE /\ Done(t)
             /\ todo'[t] = Tail(todo[t])
             /\ count'[t] = IF Doing(t, {"write"}) THEN 0 ELSE count[t]
    <3> DEFINE s == Plan(t)
               k == Pc(t)
               p == Peer(Sock(t))
    <3>1. /\ Sock(t) = s[k].sock /\ Sock(t) \in Ends /\ p \in Ends
          /\ \A what : Doing(t, what) <=> s[k].do \in what
      BY <1>2, <2>4, AtStep DEF Done, Peer, Ends
    <3>2. Pc(t)' = Pc(t) + 1 /\ todo[t] # <<>> /\ s[k].do \notin Delivers
      BY <1>4, <2>4, <3>1 DEF Done
    <3>3. count'[t] = 0
      BY <2>1, <2>4, <3>2 DEF Known, Writing
    <3>4. Doing(t, {"write"}) => count[t] = size[Sock(t)]
      BY <2>4 DEF Done
    <3>5. s[k].do = "read" => Len(buffer[t]) = BufferSize
      BY <2>4, <3>1 DEF Done, Enough, Reads
    <3>6. s[k].do = "readUntil" =>
            \E x \in 1..Len(buffer[t]) : buffer[t][x] \in marks[p]
      <4>1. s[k].do = "readUntil" => ToSet(buffer[t]) \cap marks[p] # {}
        BY <2>4, <3>1 DEF Done, Enough, Reads
      <4>2. buffer[t] \in Seq(Nat)
        BY <1>2 DEF StateTypes
      <4>3. DOMAIN buffer[t] = 1..Len(buffer[t])
        BY <4>2
      <4>4. ToSet(buffer[t]) \cap marks[p] # {} =>
              \E x \in DOMAIN buffer[t] : buffer[t][x] \in marks[p]
        BY DEF ToSet
      <4>5. QED  BY <4>1, <4>3, <4>4
    <3>7. s[k].do = "readAll" => r[p] = size[p]
      <4>1. s[k].do = "readAll" => stream[p] = <<>> /\ sendShut[p]
        BY <2>4, <3>1 DEF Done, Enough, Reads, Eof, Arrived
      <4>2. /\ r[p] <= w[p] /\ Len(stream[p]) = w[p] - r[p]
            /\ sendShut[p] => w[p] = size[p]
            /\ r[p] \in Nat /\ w[p] \in Nat
        BY <1>1, <3>1 DEF Positions, Flow, Run
      <4>3. QED  BY <4>1, <4>2
    <3>8. QED  BY <1>2, <2>1, <3>2, <3>3, <3>4, <3>5, <3>6, <3>7, GoesOn
  <2>5. QED  BY <2>2, <2>3, <2>4
<1>6. Flow(w, r)'
  <2>1. ASSUME NEW e \in Ends, sendShut'[e]
        PROVE  w[e] = size[e]
    <3>1. CASE sendShut[e]
      BY <1>1, <3>1 DEF Positions, Flow
    <3>2. CASE \E u \in Threads : Doing(u, {"shutdown"}) /\ Sock(u) = e
      <4>1. PICK u \in Threads : Doing(u, {"shutdown"}) /\ Sock(u) = e
        BY <3>2
      <4>2. /\ todo[u] # <<>> /\ Pc(u) \in 1..Len(Plan(u))
            /\ Plan(u)[Pc(u)].do = "shutdown" /\ Plan(u)[Pc(u)].sock = e
        BY <1>2, <4>1, AtStep DEF Doing
      <4>3. PICK h \in 1..Pc(u) - 1 : Plan(u)[h].do = "write" /\ Plan(u)[h].sock = e
        BY <1>2, <4>2, PlanFacts DEF Ordered, InOrder
      <4>4. h \in 1..Len(Plan(u)) /\ h < Pc(u)
        BY <4>2
      <4>5. Writing(u, w)
        BY <1>1 DEF Positions
      <4>6. QED  BY <4>2, <4>3, <4>4, <4>5 DEF Writing
    <3>3. QED  BY <2>1, <3>1, <3>2
  <2>2. QED  BY <1>1, <2>1 DEF Positions, Flow, SameInputs
<1>7. Positions(w, r)'
  BY <1>5, <1>6 DEF Positions, Known
<1>8. QED  BY <1>3, <1>4, <1>7 DEF IInv

-----------------------------------------------------------------------------
(* The steps that move bytes.                                              *)

\* The other threads write and read other ends.
LEMMA OthersApart ==
  ASSUME OnScript, NEW t \in Threads, NEW k \in 1..Len(Plan(t)),
         NEW u \in Threads, u # t, NEW i \in 1..Len(Plan(u))
  PROVE  /\ Plan(t)[k].do = "write" /\ Plan(u)[i].do = "write" =>
              Plan(t)[k].sock # Plan(u)[i].sock
         /\ Plan(t)[k].do \in Reads /\ Plan(u)[i].do \in Reads =>
              Peer(Plan(t)[k].sock) # Peer(Plan(u)[i].sock)
<1>1. /\ Plan(t)[k].do = "write" /\ Plan(u)[i].do = "write" =>
           Plan(t)[k].sock # Plan(u)[i].sock
      /\ Plan(t)[k].do \in Reads /\ Plan(u)[i].do \in Reads =>
           Plan(t)[k].sock # Plan(u)[i].sock
  BY PlanFacts DEF Apart
<1>2. Plan(t)[k].sock \in Ends /\ Plan(u)[i].sock \in Ends
  BY StepSock
<1>3. QED  BY <1>1, <1>2 DEF Peer, Ends

\* A write_some puts the next bytes of the message behind the others.
LEMMA WriteSomeKeeps ==
  ASSUME IInv, NEW t \in Threads, WriteSome(t), UNCHANGED inputVars
  PROVE  IInv'
<1>1. PICK w \in [Ends -> Nat], r \in [Ends -> Nat] : Positions(w, r)
  BY DEF IInv
<1>2. StateTypes /\ OnScript /\ WholeOrThrown /\ SameInputs
  BY DEF IInv, inputVars, SameInputs
<1> DEFINE e == Sock(t)
           k == Pc(t)
           s == Plan(t)
<1>3. /\ k \in 1..Len(s) /\ e = s[k].sock /\ e \in Ends /\ s[k].do = "write"
      /\ todo[t] # <<>> /\ Doing(t, {"write"}) /\ Len(s) \in Nat
  BY <1>2, AtStep, PlanFacts DEF WriteSome, Doing, Ordered
<1>4. w[e] = count[t]
  BY <1>1, <1>3 DEF Positions, Writing
<1>5. /\ r[e] \in Nat /\ w[e] \in Nat /\ r[e] <= w[e] /\ w[e] <= size[e]
      /\ size[e] \in Nat /\ Run(stream[e], r[e], w[e] - r[e])
  BY <1>1, <1>2, <1>3 DEF Positions, Flow, StateTypes
<1>6. PICK n \in 1..size[e] - count[t] : n <= Room(e) /\ Put(t, count[t], n)
  BY DEF WriteSome
<1>7. n \in Nat /\ n \geq 1 /\ w[e] + n <= size[e]
  BY <1>4, <1>5, <1>6
<1> DEFINE new == [i \in 1..n |-> count[t] + i]
<1>8. /\ stream' = [stream EXCEPT ![e] = @ \o new]
      /\ count' = [count EXCEPT ![t] = @ + n]
      /\ UNCHANGED <<todo, buffer, outcome, sendShut, broken, thrown>>
  BY <1>6 DEF Put
<1>9. Run(new, w[e], n)
  BY <1>4, <1>5, <1>7 DEF Run
<1> HIDE DEF e, k, s, new
<1>10. Run(stream[e] \o new, r[e], w[e] + n - r[e])
  <2>1. w[e] - r[e] \in Nat /\ r[e] + (w[e] - r[e]) = w[e]
        /\ (w[e] - r[e]) + n = w[e] + n - r[e]
    BY <1>5, <1>7
  <2>2. Run(stream[e] \o new, r[e], (w[e] - r[e]) + n)
    BY <1>5, <1>7, <1>9, <2>1, RunGrows
  <2>3. QED  BY <2>1, <2>2
<1>11. PICK w2 \in [Ends -> Nat] :
         w2[e] = w[e] + n /\ \A x \in Ends : x # e => w2[x] = w[x]
  <2> DEFINE v == [x \in Ends |-> IF x = e THEN w[e] + n ELSE w[x]]
  <2>1. v \in [Ends -> Nat]
    BY <1>5, <1>7
  <2>2. v[e] = w[e] + n /\ \A x \in Ends : x # e => v[x] = w[x]
    BY <1>3
  <2> HIDE DEF v
  <2>3. QED  BY <2>1, <2>2
<1>12. StateTypes'
  <2>1. count' \in [Threads -> Nat]
    BY <1>2, <1>7, <1>8 DEF StateTypes
  <2>2. stream' \in [Ends -> Seq(Nat)]
    <3>1. stream[e] \o new \in Seq(Nat)
      BY <1>10 DEF Run
    <3>2. QED  BY <1>2, <1>8, <3>1 DEF StateTypes
  <2>3. QED  BY <1>2, <1>8, <2>1, <2>2 DEF StateTypes, SameInputs
<1>13. OnScript' /\ \A u \in Threads : Plan(u)' = Plan(u) /\ Pc(u)' = Pc(u)
  BY <1>2, <1>8 DEF OnScript, Plan, Pc, SameInputs
<1>14. WholeOrThrown'
  BY <1>2, <1>8, WholeKept
<1>15. Flow(w2, r)'
  <2>1. ASSUME NEW x \in Ends, x # e
        PROVE  stream'[x] = stream[x] /\ w2[x] = w[x]
    BY <1>2, <1>8, <1>11, <2>1 DEF StateTypes
  <2>2. stream'[e] = stream[e] \o new
    BY <1>2, <1>3, <1>8 DEF StateTypes
  <2>3. Len(stream'[e]) <= Capacity
    <3>1. Len(stream'[e]) = w[e] + n - r[e] /\ Len(stream[e]) = w[e] - r[e]
      BY <1>5, <1>10, <2>2 DEF Run
    <3>2. QED  BY <1>5, <1>6, <1>7, <3>1, BuffersAssumption DEF Room
  <2>4. sendShut[e] => FALSE
    BY <1>1, <1>3, <1>5, <1>7 DEF Positions, Flow
  <2>5. /\ r[e] <= w2[e] /\ w2[e] <= size[e] /\ Run(stream'[e], r[e], w2[e] - r[e])
    BY <1>5, <1>7, <1>10, <1>11, <2>2
  <2>6. ASSUME NEW x \in Ends
        PROVE  /\ r[x] <= w2[x]
               /\ w2[x] <= size[x]
               /\ Run(stream'[x], r[x], w2[x] - r[x])
               /\ Len(stream'[x]) <= Capacity
               /\ sendShut[x] => w2[x] = size[x]
    <3>1. CASE x = e
      BY <2>3, <2>4, <2>5, <3>1
    <3>2. CASE x # e
      BY <1>1, <2>1, <3>2 DEF Positions, Flow
    <3>3. QED  BY <3>1, <3>2
  <2>7. QED  BY <1>2, <1>8, <2>6 DEF Flow, SameInputs
<1>16. ASSUME NEW u \in Threads, u # t
       PROVE  Known(u, w2, r)'
  <2>1. \A i \in 1..Len(Plan(u)) : Plan(u)[i].do = "write" =>
          w2[Plan(u)[i].sock] = w[Plan(u)[i].sock]
    BY <1>2, <1>3, <1>11, <1>16, OthersApart, StepSock DEF e, k, s
  <2>2. Known(u, w, r) /\ count'[u] = count[u]
    BY <1>1, <1>2, <1>8, <1>16 DEF Positions, Known, StateTypes
  <2>3. Writing(u, w2)'
    BY <1>2, <1>8, <2>1, <2>2, WritingStays
  <2>4. QED  BY <1>2, <1>8, <2>2, <2>3, ReadingStays DEF Known
<1>17. Known(t, w2, r)'
  <2>1. Known(t, w, r)
    BY <1>1 DEF Positions, Known
  <2>2. Reading(t, r)' /\ Begins(t, r)' /\ Returned(t)'
    BY <1>2, <1>8, <2>1, ReadingStays
  <2>3. count'[t] = w2[e]
    BY <1>2, <1>4, <1>8, <1>11 DEF StateTypes
  <2>4. ASSUME NEW i \in 1..Len(s), s[i].do = "write"
        PROVE  LET x == s[i].sock IN
               /\ i < k => w2[x] = size[x]
               /\ i = k => w2[x] = count'[t]
               /\ i > k => w2[x] = 0
    <3>1. CASE i = k
      BY <1>3, <2>3, <3>1
    <3>2. CASE i # k
      <4>1. s[i].sock # e /\ s[i].sock \in Ends
        BY <1>2, <1>3, <2>4, <3>2, PlanFacts, StepSock DEF s, Ordered, WrittenOnce
      <4>2. w2[s[i].sock] = w[s[i].sock]
        BY <1>11, <4>1
      <4>3. QED  BY <1>3, <2>1, <2>4, <3>2, <4>2 DEF Known, Writing, s, k
    <3>3. QED  BY <3>1, <3>2
  <2>5. Doing(t, {"write"})'
    BY <1>3, <1>8 DEF Doing
  <2>6. Writing(t, w2)'
    BY <1>2, <1>13, <2>4, <2>5 DEF Writing, SameInputs, s, k
  <2>7. QED  BY <2>2, <2>6 DEF Known
<1>18. Positions(w2, r)'
  BY <1>15, <1>16, <1>17 DEF Positions, Known
<1>19. QED  BY <1>11, <1>12, <1>13, <1>14, <1>18 DEF IInv

\* A read that is under way is the only one the thread is in.
LEMMA OneRead ==
  ASSUME NEW s, NEW i \in Nat, NEW j \in Nat, NEW a \in Nat, NEW b \in Nat, NEW k \in Nat,
         Fills(s, i, j), i <= k, k <= j, Fills(s, a, b), a <= k, k <= b
  PROVE  a = i /\ b = j
<1>1. (\A m \in Nat : i <= m /\ m <= j /\ a <= m /\ m <= b => i = a /\ j = b)
  BY FillsApart
<1>2. QED  BY <1>1

\* A read_some takes the next bytes of the stream.
LEMMA ReadSomeKeeps ==
  ASSUME IInv, NEW t \in Threads, ReadSome(t), UNCHANGED inputVars
  PROVE  IInv'
<1>1. PICK w \in [Ends -> Nat], r \in [Ends -> Nat] : Positions(w, r)
  BY DEF IInv
<1>2. StateTypes /\ OnScript /\ WholeOrThrown /\ SameInputs
  BY DEF IInv, inputVars, SameInputs
<1> DEFINE e == Sock(t)
           p == Peer(e)
           k == Pc(t)
           s == Plan(t)
           m == Len(buffer[t])
<1>3. /\ k \in 1..Len(s) /\ e = s[k].sock /\ e \in Ends /\ p \in Ends /\ s[k].do \in Reads
      /\ todo[t] # <<>> /\ Len(s) \in Nat /\ \A what : Doing(t, what) <=> s[k].do \in what
  BY <1>2, AtStep, PlanFacts DEF ReadSome, Doing, Ordered, Peer, Ends
<1>4. PICK j \in k + 1..Len(s) : Fills(s, k, j)
  BY <1>2, <1>3, PlanFacts DEF Ordered, InOrder
<1>5. /\ r[p] \in Nat /\ w[p] \in Nat /\ r[p] <= w[p] /\ w[p] <= size[p] /\ size[p] \in Nat
      /\ Run(stream[p], r[p], w[p] - r[p]) /\ Len(stream[p]) <= Capacity
      /\ sendShut[p] => w[p] = size[p]
  BY <1>1, <1>2, <1>3 DEF Positions, Flow, StateTypes
<1>6. /\ m \in Nat /\ m <= r[p] /\ Run(buffer[t], r[p] - m, m)
      /\ s[k].do = "read" => m <= BufferSize
      /\ BufferSize \in Nat
  <2>1. InRead(t, k, j) /\ j \in 1..Len(s)
    BY <1>3, <1>4 DEF InRead
  <2>2. Reading(t, r)
    BY <1>1 DEF Positions
  <2>3. m \in Nat /\ BufferSize \in Nat
    BY <1>2 DEF StateTypes
  <2>4. QED  BY <1>3, <2>1, <2>2, <2>3 DEF Reading
<1>7. PICK n \in 1..Len(stream[p]) :
        /\ s[k].do = "read" => n <= BufferSize - m
        /\ buffer' = [buffer EXCEPT ![t] = @ \o SubSeq(stream[p], 1, n)]
        /\ stream' = [stream EXCEPT ![p] = SubSeq(@, n + 1, Len(@))]
  BY <1>3 DEF ReadSome, Arrived
<1>8. UNCHANGED <<todo, count, outcome, sendShut, broken, thrown>>
  BY DEF ReadSome
<1>9. n \in Nat /\ n \geq 1 /\ n <= w[p] - r[p]
  BY <1>5, <1>7 DEF Run
<1> HIDE DEF e, p, k, s, m
<1>10. /\ Run(SubSeq(stream[p], 1, n), r[p], n)
       /\ Run(SubSeq(stream[p], n + 1, Len(stream[p])), r[p] + n, w[p] - (r[p] + n))
  <2>1. Len(stream[p]) = w[p] - r[p] /\ w[p] - r[p] \in Nat
    BY <1>5 DEF Run
  <2>2. 1 \in 1..(w[p] - r[p]) + 1 /\ n \in 1 - 1..w[p] - r[p]
    BY <1>5, <1>9
  <2>3. n + 1 \in 1..(w[p] - r[p]) + 1 /\ w[p] - r[p] \in (n + 1) - 1..w[p] - r[p]
    BY <1>5, <1>9
  <2>4. /\ Run(SubSeq(stream[p], 1, n), r[p] + 1 - 1, n - 1 + 1)
        /\ Run(SubSeq(stream[p], n + 1, w[p] - r[p]), r[p] + (n + 1) - 1,
               (w[p] - r[p]) - (n + 1) + 1)
    BY <1>5, <2>1, <2>2, <2>3, RunPart
  <2>5. /\ r[p] + 1 - 1 = r[p] /\ n - 1 + 1 = n /\ r[p] + (n + 1) - 1 = r[p] + n
        /\ (w[p] - r[p]) - (n + 1) + 1 = w[p] - (r[p] + n)
    BY <1>5, <1>9
  <2>6. QED  BY <2>1, <2>4, <2>5
<1>11. Run(buffer'[t], (r[p] + n) - (m + n), m + n)
  <2>1. r[p] - m \in Nat /\ (r[p] - m) + m = r[p] /\ (r[p] + n) - (m + n) = r[p] - m
    BY <1>5, <1>6, <1>9
  <2>2. Run(buffer[t] \o SubSeq(stream[p], 1, n), r[p] - m, m + n)
    BY <1>6, <1>9, <1>10, <2>1, RunGrows
  <2>3. buffer'[t] = buffer[t] \o SubSeq(stream[p], 1, n)
    BY <1>2, <1>7 DEF StateTypes
  <2>4. QED  BY <2>1, <2>2, <2>3
<1>12. PICK r2 \in [Ends -> Nat] :
         r2[p] = r[p] + n /\ \A x \in Ends : x # p => r2[x] = r[x]
  <2> DEFINE v == [x \in Ends |-> IF x = p THEN r[p] + n ELSE r[x]]
  <2>1. v \in [Ends -> Nat]
    BY <1>5, <1>9
  <2>2. v[p] = r[p] + n /\ \A x \in Ends : x # p => v[x] = r[x]
    BY <1>3
  <2> HIDE DEF v
  <2>3. QED  BY <2>1, <2>2
<1>13. StateTypes'
  <2>1. buffer' \in [Threads -> Seq(Nat)]
    <3>1. buffer[t] \o SubSeq(stream[p], 1, n) \in Seq(Nat)
      BY <1>2, <1>7, <1>11 DEF Run, StateTypes
    <3>2. QED  BY <1>2, <1>7, <3>1 DEF StateTypes
  <2>2. stream' \in [Ends -> Seq(Nat)]
    <3>1. SubSeq(stream[p], n + 1, Len(stream[p])) \in Seq(Nat)
      BY <1>10 DEF Run
    <3>2. QED  BY <1>2, <1>7, <3>1 DEF StateTypes
  <2>3. QED  BY <1>2, <1>8, <2>1, <2>2 DEF StateTypes, SameInputs
<1>14. OnScript' /\ \A u \in Threads : Plan(u)' = Plan(u) /\ Pc(u)' = Pc(u)
  BY <1>2, <1>8 DEF OnScript, Plan, Pc, SameInputs
<1>15. WholeOrThrown'
  BY <1>2, <1>8, WholeKept
<1>16. Flow(w, r2)'
  <2>1. ASSUME NEW x \in Ends, x # p
        PROVE  stream'[x] = stream[x] /\ r2[x] = r[x]
    BY <1>2, <1>7, <1>12, <2>1 DEF StateTypes
  <2>2. stream'[p] = SubSeq(stream[p], n + 1, Len(stream[p]))
    BY <1>2, <1>3, <1>7 DEF StateTypes
  <2>3. /\ r2[p] <= w[p]
        /\ Run(stream'[p], r2[p], w[p] - r2[p])
    BY <1>5, <1>9, <1>10, <1>12, <2>2
  <2>4. Len(stream'[p]) <= Capacity
    <3>1. Len(stream'[p]) = w[p] - r2[p] /\ Len(stream[p]) = w[p] - r[p]
      BY <1>5, <2>3 DEF Run
    <3>2. QED  BY <1>5, <1>9, <1>12, <3>1, BuffersAssumption
  <2>5. ASSUME NEW x \in Ends
        PROVE  /\ r2[x] <= w[x]
               /\ w[x] <= size[x]
               /\ Run(stream'[x], r2[x], w[x] - r2[x])
               /\ Len(stream'[x]) <= Capacity
               /\ sendShut[x] => w[x] = size[x]
    <3>1. CASE x = p
      BY <1>5, <2>3, <2>4, <3>1
    <3>2. CASE x # p
      BY <1>1, <2>1, <3>2 DEF Positions, Flow
    <3>3. QED  BY <3>1, <3>2
  <2>6. QED  BY <1>2, <1>8, <2>5 DEF Flow, SameInputs
<1>17. ASSUME NEW u \in Threads, u # t
       PROVE  Known(u, w, r2)'
  <2>1. \A i \in 1..Len(Plan(u)) : Plan(u)[i].do \in Reads =>
          r2[Peer(Plan(u)[i].sock)] = r[Peer(Plan(u)[i].sock)]
    <3> SUFFICES ASSUME NEW i \in 1..Len(Plan(u)), Plan(u)[i].do \in Reads
                 PROVE  r2[Peer(Plan(u)[i].sock)] = r[Peer(Plan(u)[i].sock)]
      OBVIOUS
    <3>1. Peer(Plan(u)[i].sock) # Peer(Plan(t)[k].sock)
      BY <1>2, <1>3, <1>17, OthersApart DEF k, s
    <3>2. Peer(Plan(u)[i].sock) \in Ends
      BY <1>2, StepSock
    <3>3. QED  BY <1>3, <1>12, <3>1, <3>2 DEF e, p, s
  <2>2. Known(u, w, r) /\ buffer'[u] = buffer[u]
    BY <1>1, <1>2, <1>7, <1>17 DEF Positions, Known, StateTypes
  <2>3. Writing(u, w)'
    BY <1>2, <1>8, <2>2, WritingStays
  <2>4. QED  BY <1>2, <1>8, <2>1, <2>2, <2>3, ReadingStays DEF Known
<1>18. \A i, b \in 1..Len(s) : Fills(s, i, b) /\ i <= k /\ k <= b => i = k /\ b = j
  <2>1. k \in Nat /\ j \in Nat /\ k <= j
    BY <1>3, <1>4
  <2>2. \A i \in 1..Len(s) : i \in Nat
    OBVIOUS
  <2>3. ASSUME NEW i \in 1..Len(s), NEW b \in 1..Len(s), Fills(s, i, b), i <= k, k <= b
        PROVE  i = k /\ b = j
    <3>1. i \in Nat /\ b \in Nat /\ k <= k
      BY <2>1, <2>2
    <3>2. QED  BY <1>4, <2>1, <2>3, <3>1, OneRead
  <2>4. QED  BY <2>3
<1>19. Len(buffer'[t]) = m + n
  BY <1>11 DEF Run
<1>20. Reading(t, r2)'
  <2>1. ASSUME NEW i \in 1..Len(s), NEW b \in 1..Len(s),
               Fills(s, i, b), i <= k, k <= b
        PROVE  LET q == Peer(s[i].sock)
                   l == Len(buffer'[t])
               IN  /\ l <= r2[q]
                   /\ Run(buffer'[t], r2[q] - l, l)
                   /\ s[i].do = "read" => l <= BufferSize /\ (i < k => l = BufferSize)
                   /\ s[i].do = "readUntil" /\ i < k =>
                        \E x \in 1..l : buffer'[t][x] \in marks[q]
                   /\ s[i].do = "readAll" /\ i < k => r2[q] = size[q]
    <3>1. i = k /\ Peer(s[i].sock) = p
      BY <1>3, <1>18, <2>1 DEF p
    <3>2. ~(i < k)
      BY <1>3, <3>1
    <3>3. m + n <= r2[p] /\ (s[k].do = "read" => m + n <= BufferSize)
      BY <1>5, <1>6, <1>7, <1>9, <1>12
    <3>4. Run(buffer'[t], r2[p] - (m + n), m + n)
      BY <1>11, <1>12
    <3>5. QED  BY <1>19, <3>1, <3>2, <3>3, <3>4
  <2>2. \E i, b \in 1..Len(s) : Fills(s, i, b) /\ i <= k /\ k <= b
    BY <1>3, <1>4
  <2>3. QED  BY <1>2, <1>14, <2>1, <2>2 DEF Reading, InRead, SameInputs, s, k
<1>21. Begins(t, r2)'
  <2>1. ASSUME NEW i \in 1..Len(s), NEW b \in 1..Len(s), NextRead(t, i, b)
        PROVE  Base(t, i, r2)' = Base(t, i, r)
    <3>1. Fills(s, i, b) /\ k <= b /\ s[i].sock \in Ends
      BY <1>2, <2>1, StepSock DEF NextRead, s, k
    <3>2. Base(t, i, r2)' = IF i <= k THEN r2[Peer(s[i].sock)] - (m + n)
                            ELSE r2[Peer(s[i].sock)]
      BY <1>14, <1>19 DEF Base, s, k
    <3>3. CASE i <= k
      <4>1. i = k /\ Peer(s[i].sock) = p
        BY <1>3, <1>18, <3>1, <3>3 DEF p
      <4>2. Base(t, i, r2)' = r2[p] - (m + n) /\ Base(t, i, r) = r[p] - m
        BY <3>2, <3>3, <4>1 DEF Base, s, k, m
      <4>3. QED  BY <1>5, <1>6, <1>9, <1>12, <4>2
    <3>4. CASE ~(i <= k)
      <4>1. s[i].sock # e
        <5>1. SUFFICES ASSUME s[i].sock = e PROVE FALSE
          OBVIOUS
        <5>2. s[j].do \in Delivers /\ s[j].sock = e
          BY <1>3, <1>4 DEF Fills, Delivers
        <5>3. ~(j \in k..b - 1)
          BY <2>1, <5>1, <5>2 DEF NextRead, s, k
        <5>4. i \in Nat /\ b \in Nat /\ k \in Nat /\ j \in Nat /\ i < b /\ b <= j /\ k < i
          BY <1>3, <1>4, <3>1, <3>4, <5>3 DEF Fills
        <5>5. i \in k + 1..j - 1 /\ s[i].do \in Reads
          BY <3>1, <5>4 DEF Fills, Reads
        <5>6. s[i].do \in {"write", "shutdown"}
          BY <1>4, <5>5 DEF Fills
        <5>7. QED  BY <5>5, <5>6 DEF Reads
      <4>2. Peer(s[i].sock) # p /\ Peer(s[i].sock) \in Ends
        BY <1>3, <3>1, <4>1 DEF Peer, Ends, p
      <4>3. QED  BY <1>12, <3>2, <3>4, <4>2 DEF Base, s, k
    <3>5. QED  BY <3>3, <3>4
  <2>2. \A i, b : NextRead(t, i, b)' <=> NextRead(t, i, b)
    BY <1>14 DEF NextRead
  <2>3. \A x, b : StartsAt(t, x, b)' <=> StartsAt(t, x, b)
    <3>1. \A x : Earlier(t, x)' = Earlier(t, x)
      BY <1>8 DEF Earlier
    <3>2. \A x, d : Below(t, x, d)' <=> Below(t, x, d)
      BY <1>8, <3>1 DEF Below
    <3>3. QED  BY <1>2, <3>1, <3>2 DEF StartsAt, SameInputs
  <2>4. \A i, b \in 1..Len(s) : NextRead(t, i, b) => StartsAt(t, s[i].sock, Base(t, i, r))
    BY <1>1, <1>3 DEF Positions, Begins, s
  <2>5. QED  BY <1>14, <2>1, <2>2, <2>3, <2>4 DEF Begins, s
<1>22. Known(t, w, r2)'
  <2>1. Known(t, w, r)
    BY <1>1 DEF Positions, Known
  <2>2. Writing(t, w)'
    BY <1>2, <1>8, <2>1, WritingStays
  <2>3. Returned(t)'
    BY <1>8, <1>14, <2>1 DEF Returned, Known
  <2>4. QED  BY <1>20, <1>21, <2>2, <2>3 DEF Known
<1>23. Positions(w, r2)'
  BY <1>16, <1>17, <1>22 DEF Positions, Known
<1>24. QED  BY <1>12, <1>13, <1>14, <1>15, <1>23 DEF IInv

-----------------------------------------------------------------------------
(* The step that returns what was read.                                    *)

\* A line is a sequence of bytes.
LEMMA LineType ==
  ASSUME NEW s \in Seq(Nat), NEW D
  PROVE  Line(s, D) \in Seq(Nat)
<1>1. CASE \A i \in 1..Len(s) : s[i] \notin D
  BY <1>1, LineOfAll
<1>2. CASE \E i \in 1..Len(s) : s[i] \in D
  <2>1. PICK f \in 1..Len(s) : s[f] \in D /\ \A x \in 1..f - 1 : s[x] \notin D
    BY <1>2, FirstDelimiter
  <2>2. \A x \in 1..f - 1 : s[x] \in Nat
    OBVIOUS
  <2>3. SubSeq(s, 1, f - 1) \in Seq(Nat)
    BY <2>2, SubSeqProperties
  <2>4. QED  BY <2>1, <2>3, LineEnds
<1>3. QED  BY <1>1, <1>2

Results == [sock : Ends, op : Ops, value : Seq(Nat)]

\* What was returned is as good after the next result.
LEMMA Appended ==
  ASSUME NEW q \in Seq(Results), NEW o \in Results, NEW k \in DOMAIN q, IsWhole(q, k)
  PROVE  IsWhole(Append(q, o), k)
<1> DEFINE q2 == Append(q, o)
<1>1. \A i \in 1..Len(q) : q2[i] = q[i]
  BY AppendProperties
<1>2. k \in 1..Len(q) /\ Len(q) \in Nat
  OBVIOUS
<1>3. \A i \in 1..k - 1 : i \in 1..Len(q)
  BY <1>2
<1> HIDE DEF q2
<1>4. q2[k] = q[k] /\ \A i \in 1..k - 1 : q2[i] = q[i]
  BY <1>1, <1>2, <1>3
<1>5. {i \in 1..k - 1 : q2[i].sock = q2[k].sock} = {i \in 1..k - 1 : q[i].sock = q[k].sock}
  BY <1>4
<1> DEFINE E == {i \in 1..k - 1 : q[i].sock = q[k].sock}
<1>6. \A i \in E : q2[i] = q[i]
  BY <1>4
<1>7. IsWhole(q2, k)
  <2>1. CASE q[k].op \in {"ReadFromSocket", "ReadFromSocketInSingleCall", "WriteAsync"}
    BY <1>4, <2>1 DEF IsWhole
  <2>2. CASE q[k].op \notin {"ReadFromSocket", "ReadFromSocketInSingleCall", "WriteAsync"}
    <3> HIDE DEF E
    <3> DEFINE p == Peer(q[k].sock)
    <3>1. PICK i \in 1..Len(Bytes(p)) + 1 :
            /\ q[k].value = LineFrom(Bytes(p), i, marks[p])
            /\ IF E = {} THEN i = 1
               ELSE \E d \in marks[p] :
                      d < i /\ \A j \in E : \A b \in ToSet(q[j].value) : b < d
      BY <2>2 DEF IsWhole, E
    <3>2. IF E = {} THEN i = 1
          ELSE \E d \in marks[p] :
                 d < i /\ \A j \in E : \A b \in ToSet(q2[j].value) : b < d
      BY <1>6, <3>1
    <3>3. QED  BY <1>4, <1>5, <2>2, <3>1, <3>2 DEF IsWhole, E
  <2>3. QED  BY <2>1, <2>2
<1>8. QED  BY <1>7 DEF q2

\* A result is whole if it is the first bytes, or a line that begins behind a
\* delimiter which is behind all lines returned before it.
LEMMA NewIsWhole ==
  ASSUME NEW q \in Seq(Results), NEW o \in Results,
         o.op \in WholeReads => o.value = SubSeq(Bytes(Peer(o.sock)), 1, BufferSize),
         o.op \notin WholeReads =>
           \E i \in 1..Len(Bytes(Peer(o.sock))) + 1 :
             /\ o.value = LineFrom(Bytes(Peer(o.sock)), i, marks[Peer(o.sock)])
             /\ \/ i = 1 /\ \A j \in DOMAIN q : q[j].sock # o.sock
                \/ /\ \E j \in DOMAIN q : q[j].sock = o.sock
                   /\ \E d \in marks[Peer(o.sock)] :
                        /\ d < i
                        /\ \A j \in DOMAIN q : q[j].sock = o.sock =>
                             \A x \in 1..Len(q[j].value) : q[j].value[x] < d
  PROVE  IsWhole(Append(q, o), Len(q) + 1)
<1> DEFINE q2 == Append(q, o)
           k == Len(q) + 1
           E == {j \in 1..k - 1 : q2[j].sock = o.sock}
           p == Peer(o.sock)
<1>1. (\A i \in 1..Len(q) : q2[i] = q[i]) /\ q2[k] = o
  BY AppendProperties
<1>2. DOMAIN q = 1..Len(q) /\ Len(q) \in Nat /\ 1..k - 1 = 1..Len(q)
  OBVIOUS
<1>3. \A j \in DOMAIN q : q[j].value \in Seq(Nat)
  <2>1. \A j \in 1..Len(q) : q[j] \in Results
    OBVIOUS
  <2>2. QED  BY <1>2, <2>1 DEF Results
<1> HIDE DEF q2
<1>4. E = {j \in DOMAIN q : q[j].sock = o.sock} /\ \A j \in E : q2[j] = q[j]
  BY <1>1, <1>2
<1>5. \A j \in E : ToSet(q2[j].value) = {q[j].value[x] : x \in 1..Len(q[j].value)}
  BY <1>3, <1>4 DEF ToSet
<1> HIDE DEF E, k
<1>6. CASE o.op \in WholeReads
  BY <1>1, <1>6 DEF IsWhole, WholeReads, q2, k
<1>7. CASE o.op \notin WholeReads
  <2>1. PICK i \in 1..Len(Bytes(p)) + 1 :
             /\ o.value = LineFrom(Bytes(p), i, marks[p])
             /\ \/ i = 1 /\ \A j \in DOMAIN q : q[j].sock # o.sock
                \/ /\ \E j \in DOMAIN q : q[j].sock = o.sock
                   /\ \E d \in marks[p] :
                        /\ d < i
                        /\ \A j \in DOMAIN q : q[j].sock = o.sock =>
                             \A x \in 1..Len(q[j].value) : q[j].value[x] < d
    BY <1>7
  <2>2. IF E = {} THEN i = 1
        ELSE \E d \in marks[p] : d < i /\ \A j \in E : \A b \in ToSet(q2[j].value) : b < d
    <3>1. CASE i = 1 /\ \A j \in DOMAIN q : q[j].sock # o.sock
      BY <1>4, <3>1
    <3>2. CASE /\ \E j \in DOMAIN q : q[j].sock = o.sock
               /\ \E d \in marks[p] :
                    /\ d < i
                    /\ \A j \in DOMAIN q : q[j].sock = o.sock =>
                         \A x \in 1..Len(q[j].value) : q[j].value[x] < d
      <4>1. PICK d \in marks[p] :
               /\ d < i
               /\ \A j \in DOMAIN q : q[j].sock = o.sock =>
                    \A x \in 1..Len(q[j].value) : q[j].value[x] < d
        BY <3>2
      <4>2. ASSUME NEW j \in E, NEW b \in ToSet(q2[j].value)
            PROVE  b < d
        <5>1. j \in DOMAIN q /\ q[j].sock = o.sock
          BY <1>4
        <5>2. PICK x \in 1..Len(q[j].value) : b = q[j].value[x]
          BY <1>5
        <5>3. QED  BY <4>1, <5>1, <5>2
      <4>3. QED  BY <1>4, <3>2, <4>1, <4>2
    <3>3. QED  BY <2>1, <3>1, <3>2
  <2>3. QED  BY <1>1, <1>7, <2>1, <2>2 DEF IsWhole, WholeReads, q2, E, k
<1>8. QED  BY <1>6, <1>7

\* A thread that returns gives back all that one read of its script has got.
LEMMA GivesBack ==
  ASSUME StateTypes, OnScript, NEW t \in Threads, NEW w \in [Ends -> Nat],
         NEW r \in [Ends -> Nat], Flow(w, r), Known(t, w, r), Doing(t, Delivers)
  PROVE  LET s == Plan(t)
             k == Pc(t)
             p == Peer(s[k].sock)
             n == Len(buffer[t])
         IN  \E h \in 1..k - 1 :
               /\ Fills(s, h, k)
               /\ p \in Ends /\ n \in Nat /\ r[p] - n \in Nat /\ r[p] <= size[p]
               /\ size[p] \in Nat
               /\ Run(buffer[t], r[p] - n, n)
               /\ StartsAt(t, s[k].sock, r[p] - n)
               /\ s[h].do = "read" => n = BufferSize
               /\ s[h].do = "readUntil" => \E x \in 1..n : buffer[t][x] \in marks[p]
               /\ s[h].do = "readAll" => r[p] = size[p]
<1> DEFINE s == Plan(t)
           k == Pc(t)
           p == Peer(s[k].sock)
           n == Len(buffer[t])
<1>1. /\ k \in 1..Len(s) /\ s[k].do \in Delivers /\ todo[t] # <<>> /\ Len(s) \in Nat
      /\ s[k].sock \in Ends /\ p \in Ends
  BY AtStep, PlanFacts, StepSock DEF Doing, Ordered
<1>2. PICK h \in 1..k - 1 : Fills(s, h, k)
  BY <1>1, PlanFacts DEF Ordered, InOrder
<1>3. h \in 1..Len(s) /\ h < k /\ s[h].sock = s[k].sock
  BY <1>1, <1>2 DEF Fills
<1>4. InRead(t, h, k) /\ NextRead(t, h, k)
  BY <1>1, <1>2, <1>3 DEF InRead, NextRead
<1>5. /\ n <= r[p]
      /\ Run(buffer[t], r[p] - n, n)
      /\ s[h].do = "read" => n = BufferSize
      /\ s[h].do = "readUntil" => \E x \in 1..n : buffer[t][x] \in marks[p]
      /\ s[h].do = "readAll" => r[p] = size[p]
  BY <1>1, <1>3, <1>4 DEF Known, Reading
<1>6. StartsAt(t, s[k].sock, r[p] - n)
  <2>1. StartsAt(t, s[h].sock, Base(t, h, r))
    BY <1>1, <1>3, <1>4 DEF Known, Begins
  <2>2. Base(t, h, r) = r[p] - n
    BY <1>1, <1>3 DEF Base
  <2>3. QED  BY <1>3, <2>1, <2>2
<1>7. r[p] \in Nat /\ w[p] \in Nat /\ size[p] \in Nat /\ n \in Nat /\ r[p] <= size[p]
  <2>1. size[p] \in Nat /\ n \in Nat
    BY <1>1 DEF StateTypes
  <2>2. r[p] <= w[p] /\ w[p] <= size[p] /\ r[p] \in Nat /\ w[p] \in Nat
    BY <1>1 DEF Flow
  <2>3. QED  BY <2>1, <2>2
<1>8. QED  BY <1>1, <1>2, <1>5, <1>6, <1>7

\* Only lines are returned twice.
LEMMA TwiceALine ==
  ASSUME OnScript, NEW t \in Threads, Returned(t), Doing(t, Delivers)
  PROVE  Earlier(t, Plan(t)[Pc(t)].sock) # {} =>
           Plan(t)[Pc(t)].op = "ReadFromSocketByDelimiter"
<1> DEFINE s == Plan(t)
           k == Pc(t)
<1>1. k \in 1..Len(s) /\ s[k].do \in Delivers /\ LinesIfTwice(s)
  BY AtStep, PlanFacts DEF Doing, Ordered
<1>2. ASSUME NEW x \in Earlier(t, s[k].sock)
      PROVE  s[k].op = "ReadFromSocketByDelimiter"
  <2>1. x \in DOMAIN outcome[t] /\ outcome[t][x].sock = s[k].sock
    BY DEF Earlier
  <2>2. PICK j \in 1..Len(s) : j < k /\ s[j].do \in Delivers /\ s[j].sock = s[k].sock
    BY <2>1 DEF Returned
  <2>3. QED  BY <1>1, <2>2 DEF LinesIfTwice
<1>3. QED  BY <1>2

\* What the call of t returns at this step.
Result(t) ==
  [sock |-> Sock(t), op |-> Head(todo[t]).op,
   value |-> IF Doing(t, {"return"}) THEN buffer[t]
             ELSE Line(buffer[t], marks[Peer(Sock(t))])]

\* It is whole; and after a line there is a delimiter among what was read, behind
\* that line and all lines before it.
LEMMA ResultIsWhole ==
  ASSUME StateTypes, OnScript, NEW t \in Threads, NEW w \in [Ends -> Nat],
         NEW r \in [Ends -> Nat], Flow(w, r), Known(t, w, r), Doing(t, Delivers)
  PROVE  LET s == Plan(t)
             k == Pc(t)
             p == Peer(s[k].sock)
         IN  /\ Result(t) \in Results
             /\ IsWhole(Append(outcome[t], Result(t)), Len(outcome[t]) + 1)
             /\ s[k].op = "ReadFromSocketByDelimiter" =>
                  \E d \in marks[p] :
                    /\ d <= r[p]
                    /\ Below(t, s[k].sock, d)
                    /\ \A x \in 1..Len(Result(t).value) : Result(t).value[x] < d
<1> DEFINE s == Plan(t)
           k == Pc(t)
           e == s[k].sock
           p == Peer(e)
           n == Len(buffer[t])
           o == Result(t)
           q == outcome[t]
           D == marks[p]
<1>1. PICK h \in 1..k - 1 :
        /\ Fills(s, h, k)
        /\ p \in Ends /\ n \in Nat /\ r[p] - n \in Nat /\ r[p] <= size[p]
        /\ size[p] \in Nat
        /\ Run(buffer[t], r[p] - n, n)
        /\ StartsAt(t, e, r[p] - n)
        /\ s[h].do = "read" => n = BufferSize
        /\ s[h].do = "readUntil" => \E x \in 1..n : buffer[t][x] \in D
        /\ s[h].do = "readAll" => r[p] = size[p]
  BY GivesBack
<1>2. /\ k \in 1..Len(s) /\ s[k] \in ScriptSteps /\ e \in Ends /\ s[k].op \in Ops
      /\ Sock(t) = e /\ Head(todo[t]) = s[k]
      /\ \A what : Doing(t, what) <=> s[k].do \in what
  BY AtStep DEF Doing, ScriptSteps
<1>3. /\ o.sock = e /\ o.op = s[k].op
      /\ o.value = IF s[k].do = "return" THEN buffer[t] ELSE Line(buffer[t], D)
  BY <1>2 DEF Result
<1>4. o \in Results
  <2>1. buffer[t] \in Seq(Nat)
    BY DEF StateTypes
  <2>2. Line(buffer[t], D) \in Seq(Nat)
    BY <2>1, LineType
  <2>3. QED  BY <1>2, <1>3, <2>1, <2>2 DEF Results, Result
<1>5. q \in Seq(Results) /\ DOMAIN q = 1..Len(q)
  <2>1. outcome \in [Threads -> Seq(Results)]
    BY DEF StateTypes, Results
  <2>2. q \in Seq(Results)
    BY <2>1
  <2>3. QED  BY <2>2
<1>6. Earlier(t, e) # {} => s[k].op = "ReadFromSocketByDelimiter"
  BY TwiceALine DEF Known
<1>7. Earlier(t, e) = {} => r[p] - n = 0 /\ r[p] = n
  BY <1>1 DEF StartsAt
<1>8. Earlier(t, e) = {j \in DOMAIN q : q[j].sock = e}
  BY DEF Earlier
<1> HIDE DEF s, k, e, p, n, o, q, D
<1>9. CASE s[k].op \in WholeReads
  <2>1. /\ s[k].do = "return" /\ s[h].do = "read"
        /\ s[k].op # "ReadFromSocketByDelimiter"
    BY <1>1, <1>9 DEF Fills, WholeReads, Halves
  <2>2. r[p] - n = 0 /\ n = BufferSize /\ n <= size[p]
    BY <1>1, <1>6, <1>7, <2>1
  <2>3. o.value = SubSeq(Bytes(p), 1, BufferSize)
    <3>1. Run(buffer[t], 0, n)
      BY <1>1, <2>2
    <3>2. Run(SubSeq(Bytes(p), 1, n), 0, n)
      <4>1. 1 \in 1..size[p] + 1 /\ n \in 1 - 1..size[p]
        BY <1>1, <2>2
      <4>2. Run(SubSeq(Bytes(p), 1, n), 0 + 1 - 1, n - 1 + 1)
        BY <1>1, <4>1, BytesRun, RunPart
      <4>3. 0 + 1 - 1 = 0 /\ n - 1 + 1 = n
        BY <1>1
      <4>4. QED  BY <4>2, <4>3
    <3>3. buffer[t] = SubSeq(Bytes(p), 1, n)
      BY <1>1, <3>1, <3>2, RunEqual
    <3>4. QED  BY <1>3, <2>1, <2>2, <3>3
  <2>4. IsWhole(Append(q, o), Len(q) + 1)
    BY <1>3, <1>4, <1>5, <1>9, <2>3, NewIsWhole DEF p
  <2>5. QED  BY <1>4, <2>1, <2>4 DEF s, k, q, o
<1>10. CASE s[k].op \in Halves
  <2>1. /\ s[k].do = "getline" /\ s[h].do = "readAll"
        /\ s[k].op # "ReadFromSocketByDelimiter" /\ s[k].op \notin WholeReads
    BY <1>1, <1>10 DEF Fills, WholeReads, Halves
  <2>2. r[p] - n = 0 /\ n = size[p] /\ Earlier(t, e) = {}
    BY <1>1, <1>6, <1>7, <2>1
  <2>3. o.value = LineFrom(Bytes(p), 1, D)
    <3>1. Run(buffer[t], 0, size[p])
      BY <1>1, <2>2
    <3>2. QED  BY <1>1, <1>3, <2>1, <3>1, LineOfMessage
  <2>4. 1 \in 1..Len(Bytes(p)) + 1
    BY <1>1, BytesRun DEF Run
  <2>5. \A j \in DOMAIN q : q[j].sock # o.sock
    BY <1>3, <1>8, <2>2
  <2>6. IsWhole(Append(q, o), Len(q) + 1)
    BY <1>3, <1>4, <1>5, <2>1, <2>3, <2>4, <2>5, NewIsWhole DEF p, D
  <2>7. QED  BY <1>4, <2>1, <2>6 DEF s, k, q, o
<1>11. CASE s[k].op = "ReadFromSocketByDelimiter"
  <2>1. /\ s[k].do = "getline" /\ s[h].do = "readUntil" /\ s[k].op \notin WholeReads
    BY <1>1, <1>11 DEF Fills, WholeReads, Halves
  <2> DEFINE a == r[p] - n
  <2>2. a \in Nat /\ a + n = r[p] /\ a + n <= size[p] /\ Run(buffer[t], a, n)
    <3>1. a \in Nat /\ n \in Nat /\ r[p] <= size[p] /\ Run(buffer[t], a, n)
      BY <1>1
    <3>2. n + (r[p] - n) = r[p]
      <4>1. r[p] \in Nat
        BY <1>1
      <4>2. QED  BY <1>1, <4>1
    <3>3. QED  BY <3>1, <3>2
  <2> HIDE DEF a
  <2>3. PICK x \in 1..n : buffer[t][x] \in D
    BY <1>1, <2>1
  <2>4. /\ Line(buffer[t], D) = LineFrom(Bytes(p), a + 1, D)
        /\ \E d \in D : /\ d \in Nat /\ a < d /\ d <= a + n
                        /\ \A y \in 1..Len(Line(buffer[t], D)) : Line(buffer[t], D)[y] < d
    BY <1>1, <2>2, <2>3, LineRead
  <2>5. PICK d \in D : /\ d \in Nat /\ a < d /\ d <= a + n
                       /\ \A y \in 1..Len(o.value) : o.value[y] < d
    BY <1>3, <2>1, <2>4
  <2>6. a + 1 \in 1..Len(Bytes(p)) + 1
    <3>1. Len(Bytes(p)) = size[p]
      BY <1>1, BytesRun DEF Run
    <3>2. QED  BY <1>1, <2>2, <3>1
  <2>7. CASE Earlier(t, e) = {}
    <3>1. a + 1 = 1 /\ \A j \in DOMAIN q : q[j].sock # o.sock
      BY <1>3, <1>7, <1>8, <2>7 DEF a
    <3>2. IsWhole(Append(q, o), Len(q) + 1)
      BY <1>3, <1>4, <1>5, <2>1, <2>4, <2>6, <3>1, NewIsWhole DEF p, D
    <3>3. Below(t, e, d)
      BY <2>7 DEF Below
    <3>4. QED  BY <1>4, <2>2, <2>5, <3>2, <3>3 DEF s, k, q, o, e, p, D
  <2>8. CASE Earlier(t, e) # {}
    <3>1. PICK f \in D : f <= a /\ Below(t, e, f)
      BY <1>1, <2>8 DEF StartsAt, a, p, D
    <3>2. f \in Nat
      BY <1>1 DEF StateTypes, D
    <3>3. /\ \E j \in DOMAIN q : q[j].sock = o.sock
          /\ f < a + 1
          /\ \A j \in DOMAIN q : q[j].sock = o.sock =>
               \A y \in 1..Len(q[j].value) : q[j].value[y] < f
      BY <1>3, <1>8, <2>2, <2>8, <3>1, <3>2 DEF Below, q
    <3>4. IsWhole(Append(q, o), Len(q) + 1)
      BY <1>3, <1>4, <1>5, <2>1, <2>4, <2>6, <3>1, <3>3, NewIsWhole DEF p, D
    <3>5. Below(t, e, d)
      <4>1. f < d /\ d \in Nat
        BY <2>2, <2>5, <3>1, <3>2
      <4>2. \A j \in Earlier(t, e) : outcome[t][j].value \in Seq(Nat)
        <5>1. \A j \in 1..Len(q) : q[j] \in Results
          BY <1>5
        <5>2. QED  BY <1>5, <1>8, <5>1 DEF Results, q
      <4>3. ASSUME NEW j \in Earlier(t, e), NEW y \in 1..Len(outcome[t][j].value)
            PROVE  outcome[t][j].value[y] < d
        <5>1. outcome[t][j].value[y] \in Nat
          BY <4>2
        <5>2. outcome[t][j].value[y] < f
          BY <3>1 DEF Below
        <5>3. QED  BY <3>2, <4>1, <5>1, <5>2
      <4>4. QED  BY <4>3 DEF Below
    <3>6. QED  BY <1>4, <2>2, <2>5, <3>4, <3>5 DEF s, k, q, o, e, p, D
  <2>9. QED  BY <2>7, <2>8
<1>12. QED
  <2>1. s[k].op \in WholeReads \/ s[k].op \in Halves \/ s[k].op = "ReadFromSocketByDelimiter"
    BY <1>1 DEF Fills
  <2>2. QED  BY <1>9, <1>10, <1>11, <2>1

\* After it, what is known of the thread still holds.
LEMMA ReturnKnown ==
  ASSUME StateTypes, OnScript, SameInputs, NEW t \in Threads, NEW w \in [Ends -> Nat],
         NEW r \in [Ends -> Nat], Flow(w, r), Known(t, w, r), Doing(t, Delivers),
         Pc(t)' = Pc(t) + 1, count'[t] = count[t], buffer'[t] = <<>>,
         outcome'[t] = Append(outcome[t], Result(t))
  PROVE  Known(t, w, r)'
<1> DEFINE s == Plan(t)
           k == Pc(t)
           q == outcome[t]
           o == Result(t)
<1>1. s' = s
  BY DEF Plan, SameInputs
<1>e. PICK e \in Ends : e = s[k].sock
  BY AtStep DEF Doing
<1> DEFINE p == Peer(e)
<1>2. /\ k \in 1..Len(s) /\ p \in Ends /\ s[k].do \in Delivers
      /\ \A what : Doing(t, what) <=> s[k].do \in what
      /\ Sock(t) = e /\ Head(todo[t]) = s[k] /\ todo[t] # <<>>
      /\ Len(s) \in Nat /\ LinesIfTwice(s)
  BY <1>e, AtStep, StepSock, PlanFacts DEF Doing, Ordered
<1>3. PICK h \in 1..k - 1 : Fills(s, h, k)
  BY <1>2, PlanFacts DEF Ordered, InOrder
<1>4. /\ o \in Results /\ o.sock = e /\ o.op = s[k].op
      /\ s[k].op = "ReadFromSocketByDelimiter" =>
           \E d \in marks[p] :
             /\ d <= r[p]
             /\ Below(t, e, d)
             /\ \A x \in 1..Len(o.value) : o.value[x] < d
  <2>1. o \in Results
    BY ResultIsWhole
  <2>2. o.sock = e /\ o.op = s[k].op
    BY <1>e, <1>2 DEF Result
  <2> HIDE DEF o, p
  <2>3. QED  BY <1>e, <2>1, <2>2, ResultIsWhole DEF o, p
<1>5. q \in Seq(Results)
  <2>1. outcome \in [Threads -> Seq(Results)]
    BY DEF StateTypes, Results
  <2>2. QED  BY <2>1
<1>6. /\ DOMAIN outcome'[t] = 1..Len(q) + 1 /\ Len(q) \in Nat /\ DOMAIN q = 1..Len(q)
      /\ \A x \in 1..Len(q) : outcome'[t][x] = q[x]
      /\ outcome'[t][Len(q) + 1] = o
  <2>1. outcome'[t] = Append(q, o)
    OBVIOUS
  <2> HIDE DEF q, o
  <2>2. QED  BY <1>4, <1>5, <2>1, AppendProperties
<1>7. ASSUME NEW i \in 1..Len(s), NEW j \in 1..Len(s), Fills(s, i, j), k + 1 <= j
      PROVE  i \geq k + 1
  <2>1. i \in Nat /\ j \in Nat /\ h \in Nat /\ k \in Nat /\ k < j
    BY <1>2, <1>7
  <2> HIDE DEF s, k
  <2>2. ~(i <= k /\ k < j)
    BY <1>3, <1>7, <2>1, FillsApart
  <2>3. QED  BY <2>1, <2>2
<1> HIDE DEF p, q, o
<1>8. Writing(t, w)'
  <2>1. count[t] = 0
    BY <1>2 DEF Known, Writing, Delivers
  <2>2. ASSUME NEW i \in 1..Len(s), s[i].do = "write"
        PROVE  LET x == s[i].sock IN
               /\ i < k + 1 => w[x] = size[x]
               /\ i = k + 1 => w[x] = 0
               /\ i > k + 1 => w[x] = 0
    <3>1. CASE i < k
      BY <1>2, <2>2, <3>1 DEF Writing, Known
    <3>2. CASE i = k
      BY <1>2, <2>2, <3>2 DEF Delivers
    <3>3. CASE i > k
      BY <1>2, <2>2, <3>3 DEF Writing, Known
    <3>4. QED  BY <1>2, <3>1, <3>2, <3>3
  <2>3. QED  BY <1>1, <2>1, <2>2 DEF Writing, SameInputs
<1>9. Reading(t, r)'
  <2>1. ASSUME NEW i \in 1..Len(s), NEW j \in 1..Len(s),
               Fills(s, i, j), i <= k + 1, k + 1 <= j
        PROVE  LET x == Peer(s[i].sock) IN
               /\ 0 <= r[x]
               /\ Run(<<>>, r[x] - 0, 0)
               /\ s[i].do = "read" => 0 <= BufferSize
               /\ ~(i < k + 1)
    <3>1. Peer(s[i].sock) \in Ends
      BY StepSock
    <3>2. r[Peer(s[i].sock)] \in Nat /\ BufferSize \in Nat
      BY <3>1 DEF StateTypes
    <3>3. i \geq k + 1
      BY <1>7, <2>1
    <3>4. QED  BY <1>2, <3>2, <3>3 DEF Run
  <2>2. buffer'[t] = <<>> /\ Len(<<>>) = 0
    OBVIOUS
  <2>3. QED  BY <1>1, <2>1, <2>2 DEF Reading, InRead, SameInputs
<1>10. Begins(t, r)'
  <2>1. ASSUME NEW i \in 1..Len(s), NEW j \in 1..Len(s), NextRead(t, i, j)'
        PROVE  StartsAt(t, s[i].sock, Base(t, i, r))'
    <3>1. /\ Fills(s, i, j) /\ k + 1 <= j
          /\ \A x \in k + 1..j - 1 : ~(s[x].do \in Delivers /\ s[x].sock = s[i].sock)
      BY <1>1, <2>1 DEF NextRead
    <3>2. i \geq k + 1 /\ s[i].sock \in Ends /\ Peer(s[i].sock) \in Ends
          /\ r[Peer(s[i].sock)] \in Nat
      BY <1>7, <3>1, StepSock
    <3>c. PICK c \in Ends : c = s[i].sock
      BY <3>2
    <3> DEFINE b == r[Peer(c)]
    <3>3. Base(t, i, r)' = b
      <4>1. Base(t, i, r)' = IF i <= k + 1 THEN b - Len(<<>>) ELSE b
        BY <1>1, <3>c DEF Base
      <4>2. Len(<<>>) = 0
        OBVIOUS
      <4>3. QED  BY <3>2, <3>c, <4>1, <4>2
    <3>4. IF Earlier(t, c)' = {} THEN b = 0
          ELSE \E d \in marks[Peer(c)] : d <= b /\ Below(t, c, d)'
      <4>1. CASE c = e
        <5>1. s[j].do \in Delivers /\ s[j].sock = e /\ j # k
          BY <1>2, <3>1, <3>c, <4>1 DEF Fills, Delivers
        <5>2. s[k].op = "ReadFromSocketByDelimiter"
          BY <1>e, <1>2, <5>1 DEF LinesIfTwice
        <5>3. PICK d \in marks[p] :
                /\ d <= r[p]
                /\ Below(t, e, d)
                /\ \A x \in 1..Len(o.value) : o.value[x] < d
          BY <1>4, <5>2
        <5>4. Len(q) + 1 \in Earlier(t, e)'
          BY <1>4, <1>6 DEF Earlier
        <5>5. Below(t, e, d)'
          <6>1. ASSUME NEW x \in Earlier(t, e)'
                PROVE  \/ x \in Earlier(t, e) /\ outcome'[t][x] = q[x]
                       \/ outcome'[t][x] = o
            BY <1>6 DEF Earlier, q
          <6>2. QED  BY <5>3, <6>1 DEF Below, q
        <5>6. QED  BY <4>1, <5>3, <5>4, <5>5 DEF p
      <4>2. CASE c # e
        <5>1. NextRead(t, i, j)
          <6>1. \A x \in k..j - 1 : x = k \/ x \in k + 1..j - 1
            BY <1>2
          <6>2. k <= j
            BY <1>2, <3>1
          <6>3. QED  BY <1>e, <3>1, <3>c, <4>2, <6>1, <6>2 DEF NextRead
        <5>2. StartsAt(t, c, Base(t, i, r))
          BY <1>2, <3>c, <5>1 DEF Known, Begins
        <5>3. Base(t, i, r) = b
          BY <1>2, <3>2, <3>c DEF Base
        <5>4. Earlier(t, c)' = Earlier(t, c)
          BY <1>4, <1>6, <4>2 DEF Earlier, q
        <5>5. \A x \in Earlier(t, c) : outcome'[t][x] = outcome[t][x]
          BY <1>6 DEF Earlier, q
        <5>6. \A d : Below(t, c, d)' <=> Below(t, c, d)
          BY <5>4, <5>5 DEF Below
        <5>7. QED  BY <5>2, <5>3, <5>4, <5>6 DEF StartsAt
      <4>3. QED  BY <4>1, <4>2
    <3>5. StartsAt(t, c, b)'
      BY <3>4 DEF StartsAt, SameInputs
    <3>6. QED  BY <1>1, <3>3, <3>5, <3>c
  <2>2. QED  BY <1>1, <2>1 DEF Begins
<1>11. Returned(t)'
  <2>1. ASSUME NEW x \in DOMAIN outcome'[t]
        PROVE  \E j \in 1..Len(s) :
                 /\ j < k + 1
                 /\ s[j].do \in Delivers
                 /\ s[j].sock = outcome'[t][x].sock
                 /\ s[j].op = outcome'[t][x].op
    <3>1. CASE x = Len(q) + 1
      <4>1. /\ k < k + 1 /\ s[k].do \in Delivers /\ s[k].sock = outcome'[t][x].sock
            /\ s[k].op = outcome'[t][x].op
        BY <1>e, <1>2, <1>4, <1>6, <3>1
      <4>2. QED  BY <1>2, <4>1
    <3>2. CASE x \in DOMAIN outcome[t]
      <4>1. outcome'[t][x] = outcome[t][x]
        BY <1>6, <3>2 DEF q
      <4>2. PICK j \in 1..Len(s) :
              /\ j < k
              /\ s[j].do \in Delivers
              /\ s[j].sock = outcome[t][x].sock
              /\ s[j].op = outcome[t][x].op
        BY <3>2 DEF Returned, Known
      <4>3. j < k + 1
        BY <1>2, <4>2
      <4>4. QED  BY <4>1, <4>2, <4>3
    <3>3. x = Len(q) + 1 \/ x \in DOMAIN outcome[t]
      BY <1>6 DEF q
    <3>4. QED  BY <3>1, <3>2, <3>3
  <2>2. QED  BY <1>1, <2>1 DEF Returned
<1>12. QED  BY <1>8, <1>9, <1>10, <1>11 DEF Known

\* A return hands over what was read.
LEMMA ReturnKeeps ==
  ASSUME IInv, NEW t \in Threads, Return(t), UNCHANGED inputVars
  PROVE  IInv'
<1>1. PICK w \in [Ends -> Nat], r \in [Ends -> Nat] : Positions(w, r)
  BY DEF IInv
<1>2. StateTypes /\ OnScript /\ WholeOrThrown /\ SameInputs
  BY DEF IInv, inputVars, SameInputs
<1>3. /\ Doing(t, Delivers) /\ todo[t] # <<>>
      /\ todo' = [todo EXCEPT ![t] = Tail(@)]
      /\ outcome' = [outcome EXCEPT ![t] = Append(@, Result(t))]
      /\ buffer' = [buffer EXCEPT ![t] = <<>>]
      /\ UNCHANGED <<count, connVars, thrown>>
  BY DEF Return, Advance, Result, Doing, Delivers
<1>4. Flow(w, r) /\ \A u \in Threads : Known(u, w, r)
  BY <1>1 DEF Positions, Known
<1>5. /\ Result(t) \in Results
      /\ IsWhole(Append(outcome[t], Result(t)), Len(outcome[t]) + 1)
  BY <1>2, <1>3, <1>4, ResultIsWhole
<1>6. outcome \in [Threads -> Seq(Results)]
  BY <1>2 DEF StateTypes, Results
<1>7. /\ outcome'[t] = Append(outcome[t], Result(t)) /\ buffer'[t] = <<>>
      /\ todo'[t] = Tail(todo[t])
      /\ \A u \in Threads \ {t} :
           outcome'[u] = outcome[u] /\ buffer'[u] = buffer[u] /\ todo'[u] = todo[u]
  BY <1>2, <1>3, <1>6 DEF StateTypes, OnScript
<1>8. OnScript' /\ Pc(t)' = Pc(t) + 1
  <2>1. scenario' = scenario /\ \A u \in Threads : Goes(u)
    BY <1>2, <1>3, <1>7 DEF Goes, SameInputs
  <2>2. todo' = [u \in Threads |-> todo'[u]] /\ DOMAIN todo' = Threads
    BY <1>2, <1>3 DEF OnScript
  <2>3. QED  BY <1>2, <1>3, <1>7, <2>1, <2>2, ScriptKept
<1>9. StateTypes'
  <2>1. outcome' \in [Threads -> Seq(Results)]
    <3>1. Append(outcome[t], Result(t)) \in Seq(Results)
      BY <1>5, <1>6, AppendProperties
    <3>2. QED  BY <1>3, <1>6, <3>1
  <2>2. outcome' \in [Threads -> Seq([sock : Ends, op : Ops, value : Seq(Nat)])]
    BY <2>1 DEF Results
  <2>3. buffer' \in [Threads -> Seq(Nat)]
    BY <1>2, <1>3 DEF StateTypes
  <2>4. QED  BY <1>2, <1>3, <2>2, <2>3 DEF StateTypes, SameInputs, connVars
<1>10. WholeOrThrown'
  <2>1. \A q, k : IsWhole(q, k)' <=> IsWhole(q, k)
    BY <1>2 DEF IsWhole, Bytes, SameInputs
  <2>2. ASSUME NEW u \in Threads, NEW k \in DOMAIN outcome'[u]
        PROVE  IsWhole(outcome'[u], k)
    <3>1. CASE u # t
      BY <1>2, <1>7, <2>2, <3>1 DEF WholeOrThrown
    <3>2. CASE u = t
      <4> DEFINE q == outcome[t]
                 o == Result(t)
      <4>1. q \in Seq(Results) /\ o \in Results /\ IsWhole(Append(q, o), Len(q) + 1)
        BY <1>5, <1>6
      <4>2. \A x \in DOMAIN q : IsWhole(q, x)
        BY <1>2 DEF WholeOrThrown
      <4>3. outcome'[u] = Append(q, o)
        BY <1>7, <3>2
      <4> HIDE DEF q, o
      <4>4. k \in DOMAIN q \/ k = Len(q) + 1
        BY <2>2, <4>1, <4>3, AppendProperties
      <4>5. QED  BY <4>1, <4>2, <4>3, <4>4, Appended
    <3>3. QED  BY <3>1, <3>2
  <2>3. QED  BY <2>1, <2>2 DEF WholeOrThrown
<1>11. Known(t, w, r)'
  BY <1>2, <1>3, <1>4, <1>7, <1>8, ReturnKnown
<1>12. ASSUME NEW u \in Threads, u # t
       PROVE  Known(u, w, r)'
  <2>1. Known(u, w, r) /\ count'[u] = count[u]
    BY <1>3, <1>4
  <2>2. Writing(u, w)'
    BY <1>2, <1>7, <1>12, <2>1, WritingStays
  <2>3. QED  BY <1>2, <1>7, <1>12, <2>1, <2>2, ReadingStays DEF Known
<1>13. Flow(w, r)'
  BY <1>2, <1>3, <1>4 DEF Flow, SameInputs, connVars
<1>14. Positions(w, r)'
  BY <1>11, <1>12, <1>13 DEF Positions, Known
<1>15. QED  BY <1>8, <1>9, <1>10, <1>14 DEF IInv

-----------------------------------------------------------------------------
(* The theorems.                                                           *)

\* At first nothing is written or read.
LEMMA InitKeeps == Init => IInv
<1> SUFFICES ASSUME Init PROVE IInv
  OBVIOUS
<1>1. StateTypes
  <2>1. size \in [Ends -> Nat]
    BY BuffersAssumption DEF Init
  <2>2. \A n \in Sizes : n \in Nat
    BY BuffersAssumption
  <2>3. \A m \in SUBSET UNION {1..n : n \in Sizes} : m \subseteq Nat
    BY <2>2
  <2>4. marks \in [Ends -> SUBSET Nat]
    <3>1. marks \in [Ends -> {m \in SUBSET UNION {1..n : n \in Sizes} : Cardinality(m) <= 2}]
      BY DEF Init
    <3>2. \A e \in Ends : marks[e] \in SUBSET UNION {1..n : n \in Sizes}
      BY <3>1
    <3>3. QED  BY <2>3, <3>1, <3>2
  <2>5. BufferSize \in Nat
    BY <2>2 DEF Init
  <2>6. /\ count \in [Threads -> Nat]
        /\ buffer \in [Threads -> Seq(Nat)]
        /\ outcome \in [Threads -> Seq([sock : Ends, op : Ops, value : Seq(Nat)])]
        /\ stream \in [Ends -> Seq(Nat)]
    <3>1. \A S : <<>> \in Seq(S)
      OBVIOUS
    <3>2. QED  BY <3>1 DEF Init
  <2>7. sendShut \in [Ends -> BOOLEAN] /\ broken \in BOOLEAN /\ thrown \subseteq Threads
    BY DEF Init
  <2>8. QED  BY <2>1, <2>4, <2>5, <2>6, <2>7 DEF StateTypes
<1>2. \A t \in Threads : todo[t] = Plan(t)
  BY DEF Init, Plan
<1>3. OnScript
  <2>1. scenario \in Scenarios /\ todo = [t \in Threads |-> Plan(t)]
    BY DEF Init, Plan
  <2>2. \A t \in Threads : Plan(t) \in Seq(ScriptSteps)
    <3>1. WellFormed(Script(scenario))
      BY <2>1, ScriptsWellFormed
    <3> DEFINE p == Script(scenario)
    <3>2. Plan("t1") = p[1] /\ Plan("t2") = p[2]
      BY DEF Plan
    <3> HIDE DEF p
    <3>3. QED  BY <3>1, <3>2 DEF WellFormed, Ordered, Threads, p
  <2>3. ASSUME NEW t \in Threads
        PROVE  /\ Len(todo[t]) <= Len(Plan(t))
               /\ \A i \in 1..Len(todo[t]) :
                    todo[t][i] = Plan(t)[Len(Plan(t)) - Len(todo[t]) + i]
    <3> DEFINE p == Plan(t)
    <3>1. todo[t] = p /\ Len(p) \in Nat
      BY <1>2, <2>2
    <3> HIDE DEF p
    <3>2. Len(p) <= Len(p) /\ \A i \in 1..Len(p) : p[i] = p[Len(p) - Len(p) + i]
      BY <3>1
    <3>3. QED  BY <3>1, <3>2 DEF p
  <2>4. QED  BY <2>1, <2>2, <2>3 DEF OnScript
<1>4. WholeOrThrown
  BY DEF Init, WholeOrThrown
<1>5. PICK z \in [Ends -> Nat] : \A e \in Ends : z[e] = 0
  <2> DEFINE y == [e \in Ends |-> 0]
  <2>1. y \in [Ends -> Nat] /\ \A e \in Ends : y[e] = 0
    OBVIOUS
  <2> HIDE DEF y
  <2>2. QED  BY <2>1
<1>6. Flow(z, z)
  <2>1. \A e \in Ends : Len(stream[e]) <= Capacity
    BY BuffersAssumption DEF Init
  <2>2. \A e \in Ends : Run(stream[e], z[e], z[e] - z[e])
    BY <1>5 DEF Init, Run
  <2>3. QED  BY <1>1, <1>5, <2>1, <2>2 DEF Flow, Init, StateTypes
<1>7. ASSUME NEW t \in Threads
      PROVE  Known(t, z, z)
  <2>1. Pc(t) = 1 /\ Len(Plan(t)) \in Nat
    <3>1. Len(Plan(t)) \in Nat
      BY <1>3, PlanFacts DEF Ordered
    <3>2. QED  BY <1>2, <3>1 DEF Pc
  <2>2. count[t] = 0 /\ buffer[t] = <<>> /\ outcome[t] = <<>>
    BY DEF Init
  <2>3. \A i \in 1..Len(Plan(t)) : Plan(t)[i].sock \in Ends /\ Peer(Plan(t)[i].sock) \in Ends
    BY <1>3, StepSock
  <2>4. Writing(t, z)
    BY <1>5, <2>1, <2>2, <2>3 DEF Writing
  <2>5. Reading(t, z)
    <3>1. \A i, j \in 1..Len(Plan(t)) : InRead(t, i, j) => ~(i < Pc(t))
      BY <2>1
    <3>2. Run(<<>>, 0, 0) /\ Len(<<>>) = 0 /\ BufferSize \in Nat
      BY <1>1 DEF Run, StateTypes
    <3>3. QED  BY <1>5, <2>2, <2>3, <3>1, <3>2 DEF Reading
  <2>6. Begins(t, z)
    <3>1. \A e : Earlier(t, e) = {}
      BY <2>2 DEF Earlier
    <3>2. \A i \in 1..Len(Plan(t)) : Base(t, i, z) = 0
      BY <1>5, <2>2, <2>3 DEF Base
    <3>3. QED  BY <3>1, <3>2 DEF Begins, StartsAt
  <2>7. Returned(t)
    BY <2>2 DEF Returned
  <2>8. QED  BY <2>4, <2>5, <2>6, <2>7 DEF Known
<1>8. Positions(z, z)
  BY <1>6, <1>7 DEF Positions, Known
<1>9. QED  BY <1>1, <1>3, <1>4, <1>8 DEF IInv

\* Every step keeps the invariant.
LEMMA NextKeeps == IInv /\ [Next]_vars => IInv'
<1> SUFFICES ASSUME IInv, [Next]_vars PROVE IInv'
  OBVIOUS
<1>1. StateTypes /\ OnScript
  BY DEF IInv
<1>2. ASSUME UNCHANGED ioVars
      PROVE  IInv'
  BY <1>1, <1>2, MovesKeep
     DEF ioVars, inputVars, connVars, SameInputs, StateTypes, OnScript
<1>3. ASSUME Break, UNCHANGED inputVars
      PROVE  IInv'
  BY <1>1, <1>3, MovesKeep DEF Break, inputVars, SameInputs, StateTypes, OnScript
<1>4. ASSUME NEW t \in Threads, Step(t)
      PROVE  IInv'
  <2>1. UNCHANGED inputVars /\ SameInputs
    BY <1>4 DEF Step, inputVars, SameInputs
  <2>2. CASE WriteSome(t)
    BY <2>1, <2>2, WriteSomeKeeps
  <2>3. CASE ReadSome(t)
    BY <2>1, <2>3, ReadSomeKeeps
  <2>4. CASE Return(t)
    BY <2>1, <2>4, ReturnKeeps
  <2>5. ASSUME Throw(t)
        PROVE  IInv'
    <3>1. \A u \in Threads : todo'[u] = <<>> \/ (todo'[u] = todo[u] /\ count'[u] = count[u])
      BY <1>1, <2>5 DEF Throw, OnScript
    <3>2. todo' = [u \in Threads |-> todo'[u]] /\ count' \in [Threads -> Nat]
      BY <1>1, <2>5 DEF Throw, OnScript, StateTypes
    <3>3. /\ buffer' = buffer /\ outcome' = outcome /\ stream' = stream
          /\ sendShut' = sendShut /\ broken' = broken /\ thrown' \subseteq Threads
      BY <1>1, <2>5 DEF Throw, connVars, StateTypes
    <3>4. QED  BY <1>1, <2>1, <3>1, <3>2, <3>3, MovesKeep DEF StateTypes
  <2>6. ASSUME Done(t), todo' = [todo EXCEPT ![t] = Tail(@)],
               count' = [count EXCEPT ![t] = IF Doing(t, {"write"}) THEN 0 ELSE @],
               UNCHANGED <<buffer, outcome, stream, broken, thrown>>,
               sendShut' \in [Ends -> BOOLEAN],
               \A e \in Ends : sendShut'[e] => sendShut[e] \/ (Doing(t, {"shutdown"}) /\ Sock(t) = e)
        PROVE  IInv'
    <3>1. ASSUME NEW u \in Threads
          PROVE  \/ todo'[u] = todo[u] /\ count'[u] = count[u]
                 \/ /\ Done(u)
                    /\ todo'[u] = Tail(todo[u])
                    /\ count'[u] = IF Doing(u, {"write"}) THEN 0 ELSE count[u]
      BY <1>1, <2>6 DEF OnScript, StateTypes
    <3>2. todo' = [u \in Threads |-> todo'[u]] /\ count' \in [Threads -> Nat]
      BY <1>1, <2>6 DEF OnScript, StateTypes
    <3>3. \A e \in Ends : sendShut'[e] =>
            sendShut[e] \/ \E u \in Threads : Doing(u, {"shutdown"}) /\ Sock(u) = e
      BY <2>6
    <3>4. broken' \in BOOLEAN /\ thrown' \subseteq Threads
      BY <1>1, <2>6 DEF StateTypes
    <3>5. QED  BY <2>1, <2>6, <3>1, <3>2, <3>3, <3>4, MovesKeep
  <2>7. count \in [Threads -> Nat] /\ sendShut \in [Ends -> BOOLEAN]
    BY <1>1 DEF StateTypes
  <2>8. CASE Written(t)
    <3>1. Done(t)
      BY <2>8 DEF Written, Done, Doing, Delivers, Reads
    <3>2. QED  BY <2>6, <2>7, <2>8, <3>1 DEF Written, Advance, connVars
  <2>9. CASE ReadEnds(t)
    <3>1. Done(t) /\ ~Doing(t, {"write"})
      BY <2>9 DEF ReadEnds, Done, Doing, Delivers, Reads
    <3>2. QED  BY <2>6, <2>7, <2>9, <3>1 DEF ReadEnds, Advance, connVars
  <2>10. CASE ShutdownSend(t)
    <3>1. Done(t) /\ ~Doing(t, {"write"})
      BY <2>10 DEF ShutdownSend, Done, Doing, Delivers, Reads
    <3>2. QED  BY <2>6, <2>7, <2>10, <3>1 DEF ShutdownSend, Advance
  <2>11. CASE Callback(t)
    <3>1. Done(t) /\ ~Doing(t, {"write"})
      BY <2>11 DEF Callback, Done, Doing, Delivers, Reads
    <3>2. QED  BY <2>6, <2>7, <2>11, <3>1 DEF Callback, Advance, connVars
  <2>12. CASE CancelSocket(t)
    <3>1. Done(t) /\ ~Doing(t, {"write"})
      BY <2>12 DEF CancelSocket, Done, Doing, Delivers, Reads
    <3>2. ASSUME NEW u \in Threads
          PROVE  IF u = t THEN todo'[u] = Tail(todo[u])
                 ELSE todo'[u] = todo[u] \/ todo'[u] = <<>>
      BY <2>12 DEF CancelSocket
    <3>3. /\ todo' = [u \in Threads |-> todo'[u]]
          /\ UNCHANGED <<count, buffer, outcome, connVars>>
          /\ thrown' \subseteq Threads
      BY <1>1, <2>12 DEF CancelSocket, StateTypes
    <3>4. QED  BY <1>1, <2>1, <3>1, <3>2, <3>3, MovesKeep DEF StateTypes, connVars
  <2>13. ReadThrows(t) \/ BrokenThrows(t) => Throw(t)
    BY DEF ReadThrows, BrokenThrows
  <2>14. QED  BY <1>4, <2>2, <2>3, <2>4, <2>5, <2>8, <2>9, <2>10, <2>11, <2>12, <2>13 DEF Step
<1>5. QED  BY <1>2, <1>3, <1>4 DEF Next, vars

\* The inductive invariant.
THEOREM Invariant == Spec => []IInv
BY InitKeeps, NextKeeps, PTL DEF Spec

\* A call that returns has what the peer wrote, from its first byte on, whatever
\* the sizes of messages and buffers, and however the bytes were cut on their way.
THEOREM ReadsAreWhole == Spec => []WholeOrThrown
<1>1. IInv => WholeOrThrown
  BY DEF IInv
<1>2. QED  BY <1>1, Invariant, PTL

\* No call writes more than its message or reads more than it wants.
LEMMA Bounds ==
  ASSUME IInv
  PROVE  /\ \A t \in Threads :
              /\ todo[t] # <<>> =>
                   count[t] <= IF Doing(t, {"write"}) THEN size[Sock(t)] ELSE 0
              /\ Doing(t, {"read"}) => Len(buffer[t]) <= BufferSize
         /\ thrown \subseteq Threads
         /\ \A e \in Ends : Len(stream[e]) <= Capacity
<1>1. PICK w \in [Ends -> Nat], r \in [Ends -> Nat] : Positions(w, r)
  BY DEF IInv
<1>2. StateTypes /\ OnScript
  BY DEF IInv
<1>3. ASSUME NEW t \in Threads, todo[t] # <<>>
      PROVE  count[t] <= IF Doing(t, {"write"}) THEN size[Sock(t)] ELSE 0
  <2>1. CASE ~Doing(t, {"write"})
    <3>1. count[t] = 0
      BY <1>1, <1>3, <2>1 DEF Positions, Writing
    <3>2. QED  BY <2>1, <3>1
  <2>2. CASE Doing(t, {"write"})
    <3>1. /\ Pc(t) \in 1..Len(Plan(t)) /\ Plan(t)[Pc(t)].do = "write"
          /\ Sock(t) = Plan(t)[Pc(t)].sock /\ Sock(t) \in Ends
      BY <1>2, <1>3, <2>2, AtStep
    <3>2. w[Sock(t)] = count[t]
      BY <1>1, <1>3, <3>1 DEF Positions, Writing
    <3>3. w[Sock(t)] <= size[Sock(t)]
      BY <1>1, <3>1 DEF Positions, Flow
    <3>4. QED  BY <2>2, <3>2, <3>3
  <2>3. QED  BY <2>1, <2>2
<1>4. ASSUME NEW t \in Threads, Doing(t, {"read"})
      PROVE  Len(buffer[t]) <= BufferSize
  <2>1. todo[t] # <<>> /\ Pc(t) \in 1..Len(Plan(t)) /\ Plan(t)[Pc(t)].do = "read"
        /\ Len(Plan(t)) \in Nat
    BY <1>2, <1>4, AtStep, PlanFacts DEF Doing, Ordered
  <2>2. PICK j \in Pc(t) + 1..Len(Plan(t)) : Fills(Plan(t), Pc(t), j)
    BY <1>2, <2>1, PlanFacts DEF Ordered, InOrder, Reads
  <2>3. InRead(t, Pc(t), j) /\ j \in 1..Len(Plan(t))
    BY <2>1, <2>2 DEF InRead
  <2>4. QED  BY <1>1, <2>1, <2>3 DEF Positions, Reading
<1>5. QED  BY <1>1, <1>2, <1>3, <1>4 DEF StateTypes, Positions, Flow

\* The set-up: a promise is kept once.  GetSingleClientSocket keeps it as it
\* returns, so it cannot keep it again; RunServer keeps it before it accepts.
SetupOK ==
  /\ fixture \in {"SetUp", "runServer_runClient"}
  /\ server \in {"opening", "promising", "accepting", "returned", "terminated"}
  /\ promise \in {"empty", "value", "exception"}
  /\ main \in {"waiting", "joining", "done", "connected", "failed"}
  /\ main = "connected" => fixture = "SetUp" /\ server = "returned" /\ promise = "value"
  /\ server \in {"opening", "promising"} => promise = "empty"
  /\ promise # "empty" /\ fixture = "SetUp" => server = "returned"
  /\ fixture = "SetUp" => server \notin {"promising", "terminated"}
  /\ promise = "exception" => server = "returned"
  /\ server = "terminated" => promise = "value"

\* The tests read and write on a connection that both threads of the set-up have
\* left, with its promise kept.
LEMMA SetupKeeps == Spec => []SetupOK
<1>1. Init => SetupOK
  BY FixturesAssumption DEF Init, InitSetup, SetupOK
<1>2. SetupOK /\ [Next]_vars => SetupOK'
  <2> SUFFICES ASSUME SetupOK, [Next]_vars PROVE SetupOK'
    OBVIOUS
  <2>1. CASE UNCHANGED setupVars
    BY <2>1 DEF SetupOK, setupVars
  <2>2. CASE Setup
    BY <2>2 DEF SetupOK, Setup, ServerMoves, SetException, MainMoves, Listen, Promise,
                AcceptClient, ConnectInSetUp, GetSocket, RunClient, JoinServer
  <2>3. QED  BY <2>1, <2>2 DEF Next, Step, Break, vars
<1>3. QED  BY <1>1, <1>2, PTL DEF Spec

\* Types; and no call writes more than its message, or reads more than it wants,
\* and no stream holds more than its buffers.
THEOREM TypeCorrect == Spec => []TypeOK
<1>1. IInv /\ SetupOK => TypeOK
  BY Bounds DEF SetupOK, TypeOK
<1>2. QED  BY <1>1, Invariant, SetupKeeps, PTL

\* The promise of GetSingleClientSocket is kept once, whatever fails.
THEOREM KeptOnce == Spec => [](fixture = "SetUp" => server # "terminated")
<1>1. SetupOK => (fixture = "SetUp" => server # "terminated")
  BY DEF SetupOK
<1>2. QED  BY <1>1, SetupKeeps, PTL
=============================================================================
