---------------------------- MODULE StreamProofs ----------------------------
(***************************************************************************)
(* Proofs about the streams a client opens to a container.                 *)
(*                                                                         *)
(* The exec and port-forward relays (ExecRelay): whatever the sizes of     *)
(* pipes and connections, however much is written and typed, and for every *)
(* kind of session, the output a client receives is whole and the status   *)
(* it receives is true.                                                    *)
(*                                                                         *)
(* Its log (ContainerLog, in the second part): whatever the sizes of the   *)
(* channels, however much is written and for any number of requests, a     *)
(* client receives the lines it is owed once and in order.                 *)
(***************************************************************************)
EXTENDS ExecRelay, LogContract, TLAPS

-----------------------------------------------------------------------------
(* The inductive invariant.                                                *)

Has(q) == \E i \in DOMAIN q : q[i] \in Statuses
OnlyClose(q) == \A i \in DOMAIN q : q[i] = Close
Tidy(q) == \A i \in DOMAIN q : q[i] \in Statuses => \A j \in i + 1 .. Len(q) : q[j] = Close

(* What happens before the agent has a session, ...                        *)
Fresh ==
    /\ client = "new" <=> server.pc = "idle"
    /\ server.pc \in {"idle", "connect"} => agent.pc = "idle" /\ s2c = << >>
    /\ agent.pc \in {"idle", "start"} =>
         ~reaped /\ n2s = << >> /\ \A s \in AllStreams : pipe[s] = << >> /\ wrote[s] = 0

(* ... and once its readers have met the ends of their pipes.              *)
Ending == {"code", "status", "close"}
Drained ==
    ~agent.blind /\ agent.pc \in Ending => \A s \in kind.streams : s \notin proc.outs

(* A status is sent once, after everything else but the close.             *)
Relaying == client = "open" /\ server.pc = "relay"
Last ==
    /\ Has(got) \/ Has(s2c) \/ Has(n2s) => agent.pc \in {"close", "closed"}
    /\ Tidy(got)
    /\ client = "open" => Tidy(s2c) /\ (Has(got) => OnlyClose(s2c))
    /\ Relaying => Tidy(n2s) /\ (Has(got) \/ Has(s2c) => OnlyClose(n2s))

(* It says what the process ended with, wherever it is on its way.         *)
In(st, q) == \E i \in DOMAIN q : q[i] = st
OnItsWay(st) == In(st, got) \/ In(st, s2c) \/ In(st, n2s) \/ (agent.pc = "status" /\ agent.status = st)
Truth ==
    /\ reaped => proc.st = "exited"
    /\ \A st \in Statuses : OnItsWay(st) /\ kind.tells /\ ~agent.blind =>
         proc.st = "exited" /\ (st = Success <=> proc.code = 0)

(* The chunks of s up to a are with the client, those up to b on their way *)
(* from the server, those up to c from the node, and the rest in the pipe. *)
Ledger(s, a, b, c) ==
    /\ Carries(got, s, 0, a)
    /\ client = "open" => Carries(s2c, s, a, b)
    /\ Relaying => Carries(n2s, s, b, c)
    /\ Relaying /\ agent.pc = "pump" => Carries(pipe[s], s, c, wrote[s])
    /\ ~agent.blind /\ s \in kind.streams =>
         /\ Has(got) => a = wrote[s]
         /\ client = "open" /\ Has(s2c) => b = wrote[s]
         /\ Relaying /\ (Has(n2s) \/ agent.pc \in Ending) => c = wrote[s]
Balanced == \A s \in AllStreams : \E a, b, c \in 0 .. wrote[s] : Ledger(s, a, b, c)

(* A pipe holds the chunks of its own stream.                              *)
Own == \A s \in AllStreams : \A i \in DOMAIN pipe[s] : pipe[s][i][1] = s

IInv == TypeOK /\ Own /\ Fresh /\ Drained /\ Last /\ Truth /\ Balanced
-----------------------------------------------------------------------------
(* The frames, and what sequences of them carry.                           *)

(* The frames are told apart by their channel; a chunk is its stream and   *)
(* its number.                                                             *)
LEMMA FrameFacts ==
    /\ Success # Failure /\ Statuses \subseteq Frames /\ {Error, Close} \subseteq Frames
    /\ Chunks \subseteq Frames
    /\ Close \notin Statuses /\ Error \notin Statuses /\ Close # Error
    /\ \A s \in AllStreams : Close[1] # s /\ Error[1] # s
    /\ \A st \in Statuses, s \in AllStreams : st[1] # s
    /\ \A f \in Chunks : f[1] \in AllStreams /\ f[2] \in Nat /\ f = <<f[1], f[2]>>
    /\ \A f \in Frames, s \in AllStreams : f[1] = s => f \in Chunks
    /\ \A f \in Chunks : f \notin Statuses /\ f # Close
    /\ \A s \in AllStreams, n \in Nat : <<s, n>> \in Chunks
BY DEF Success, Failure, Statuses, Frames, Error, Close, Chunks, AllStreams

(* Nothing in an empty sequence.                                           *)
LEMMA CarriesNothing ==
    ASSUME NEW s \in AllStreams, NEW a \in Nat, NEW b \in Nat
    PROVE  Carries(<< >>, s, a, b) <=> a = b
BY DEF Carries

LEMMA CarriesEarlier ==
    ASSUME NEW q \in Seq(Frames), NEW s \in AllStreams, NEW a \in Nat, NEW b \in Nat,
           Carries(q, s, a, b)
    PROVE  a <= b
BY DEF Carries

(* A sequence without chunks of s.                                         *)
LEMMA CarriesNone ==
    ASSUME NEW q \in Seq(Frames), NEW s \in AllStreams, NEW a \in Nat, NEW b \in Nat,
           \A i \in DOMAIN q : q[i][1] # s
    PROVE  Carries(q, s, a, b) <=> a = b
BY DEF Carries

(* A frame that is no chunk of s is appended, ...                          *)
LEMMA AppendOther ==
    ASSUME NEW q \in Seq(Frames), NEW f \in Frames, NEW s \in AllStreams,
           NEW a \in Nat, NEW b \in Nat, Carries(q, s, a, b), f[1] # s
    PROVE  Carries(Append(q, f), s, a, b)
<1> DEFINE r == Append(q, f)
<1>1. r \in Seq(Frames) /\ Len(r) = Len(q) + 1 /\ r[Len(q) + 1] = f
      /\ (\A i \in 1 .. Len(q) : r[i] = q[i]) /\ DOMAIN r = 1 .. Len(q) + 1 /\ DOMAIN q = 1 .. Len(q)
      /\ Len(q) \in Nat
  OBVIOUS
<1> HIDE DEF r
<1>2. \A i \in DOMAIN r : r[i][1] = s => i \in DOMAIN q /\ r[i] = q[i]
  BY <1>1
<1>3. \A i \in DOMAIN q : i \in DOMAIN r /\ r[i] = q[i]
  BY <1>1
<1>4. Carries(r, s, a, b)
  BY <1>2, <1>3 DEF Carries
<1> QED
  BY <1>4 DEF r

(* ... or the next chunk of s.                                             *)
LEMMA AppendNext ==
    ASSUME NEW q \in Seq(Frames), NEW s \in AllStreams,
           NEW a \in Nat, NEW b \in Nat, Carries(q, s, a, b)
    PROVE  Carries(Append(q, <<s, b + 1>>), s, a, b + 1)
<1> DEFINE f == <<s, b + 1>>
           r == Append(q, f)
<1>1. r \in Seq(Frames) /\ Len(r) = Len(q) + 1 /\ r[Len(q) + 1] = f
      /\ (\A i \in 1 .. Len(q) : r[i] = q[i]) /\ DOMAIN r = 1 .. Len(q) + 1 /\ DOMAIN q = 1 .. Len(q)
      /\ Len(q) \in Nat
  BY FrameFacts
<1>2. f[1] = s /\ f[2] = b + 1
  OBVIOUS
<1>0. a <= b
  BY DEF Carries
<1>3. \A i \in DOMAIN r : r[i][1] = s => r[i][2] \in a + 1 .. b + 1
  <2> TAKE i \in DOMAIN r
  <2>1. CASE i = Len(q) + 1
    BY <1>0, <1>1, <1>2, <2>1
  <2>2. CASE i \in DOMAIN q
    BY <1>0, <1>1, <2>2 DEF Carries
  <2> QED
    BY <1>1, <2>1, <2>2
<1>4. \A n \in a + 1 .. b + 1 : \E i \in DOMAIN r : r[i] = <<s, n>>
  <2> TAKE n \in a + 1 .. b + 1
  <2>1. CASE n = b + 1
    BY <1>1, <2>1
  <2>2. CASE n \in a + 1 .. b
    <3>1. PICK i \in DOMAIN q : q[i] = <<s, n>>
      BY <2>2 DEF Carries
    <3> HIDE DEF r
    <3> QED
      BY <1>1, <3>1
  <2>3. n = b + 1 \/ n \in a + 1 .. b
    OBVIOUS
  <2> HIDE DEF r, f
  <2> QED
    BY <2>1, <2>2, <2>3
<1>5. \A i, j \in DOMAIN r : i < j /\ r[i][1] = s /\ r[j][1] = s => r[i][2] < r[j][2]
  <2> SUFFICES ASSUME NEW i \in DOMAIN r, NEW j \in DOMAIN r, i < j, r[i][1] = s, r[j][1] = s
               PROVE  r[i][2] < r[j][2]
    OBVIOUS
  <2>1. i \in DOMAIN q /\ r[i] = q[i] /\ q[i][2] \in a + 1 .. b
    BY <1>1 DEF Carries
  <2>2. CASE j = Len(q) + 1
    BY <1>1, <1>2, <2>1, <2>2
  <2>3. CASE j \in DOMAIN q
    BY <1>1, <2>1, <2>3 DEF Carries
  <2> QED
    BY <1>1, <2>2, <2>3
<1> HIDE DEF r
<1>6. Carries(r, s, a, b + 1)
  BY <1>0, <1>3, <1>4, <1>5 DEF Carries
<1> QED
  BY <1>6 DEF r, f

(* A frame that is no chunk of s is taken, ...                             *)
LEMMA TailOther ==
    ASSUME NEW q \in Seq(Frames), q # << >>, NEW s \in AllStreams,
           NEW a \in Nat, NEW b \in Nat, Carries(q, s, a, b), Head(q)[1] # s
    PROVE  Carries(Tail(q), s, a, b)
<1> DEFINE r == Tail(q)
<1>1. r \in Seq(Frames) /\ Len(r) = Len(q) - 1 /\ (\A i \in 1 .. Len(r) : r[i] = q[i + 1])
      /\ DOMAIN r = 1 .. Len(r) /\ DOMAIN q = 1 .. Len(q) /\ Head(q) = q[1] /\ Len(q) \in Nat
      /\ Len(q) > 0
  OBVIOUS
<1> HIDE DEF r
<1>2. \A i \in DOMAIN r : i + 1 \in DOMAIN q /\ r[i] = q[i + 1]
  BY <1>1
<1>3. \A i \in DOMAIN q : q[i][1] = s => i - 1 \in DOMAIN r /\ r[i - 1] = q[i]
  BY <1>1
<1>4. \A i \in DOMAIN r : r[i][1] = s => r[i][2] \in a + 1 .. b
  BY <1>2 DEF Carries
<1>5. \A n \in a + 1 .. b : \E i \in DOMAIN r : r[i] = <<s, n>>
  <2> TAKE n \in a + 1 .. b
  <2>1. PICK i \in DOMAIN q : q[i] = <<s, n>>
    BY DEF Carries
  <2>2. q[i][1] = s
    BY <2>1
  <2>3. i - 1 \in DOMAIN r /\ r[i - 1] = <<s, n>>
    BY <1>3, <2>1, <2>2
  <2> QED
    BY <2>3
<1>6. \A i, j \in DOMAIN r : i < j /\ r[i][1] = s /\ r[j][1] = s => r[i][2] < r[j][2]
  <2> SUFFICES ASSUME NEW i \in DOMAIN r, NEW j \in DOMAIN r, i < j, r[i][1] = s, r[j][1] = s
               PROVE  r[i][2] < r[j][2]
    OBVIOUS
  <2>1. i + 1 \in DOMAIN q /\ j + 1 \in DOMAIN q /\ r[i] = q[i + 1] /\ r[j] = q[j + 1]
    BY <1>2
  <2>2. i + 1 < j + 1
    BY <1>1
  <2>3. q[i + 1][2] < q[j + 1][2]
    BY <2>1, <2>2 DEF Carries
  <2> QED
    BY <2>1, <2>3
<1>7. Carries(r, s, a, b)
  BY <1>4, <1>5, <1>6 DEF Carries
<1> QED
  BY <1>7 DEF r

(* ... or a chunk of s, which is the first one.                            *)
LEMMA TailNext ==
    ASSUME NEW q \in Seq(Frames), q # << >>, NEW s \in AllStreams,
           NEW a \in Nat, NEW b \in Nat, Carries(q, s, a, b), Head(q)[1] = s
    PROVE  /\ Head(q) = <<s, a + 1>> /\ a + 1 \in Nat /\ a + 1 <= b
           /\ Carries(Tail(q), s, a + 1, b)
<1> DEFINE r == Tail(q)
<1>1. r \in Seq(Frames) /\ Len(r) = Len(q) - 1 /\ (\A i \in 1 .. Len(r) : r[i] = q[i + 1])
      /\ DOMAIN r = 1 .. Len(r) /\ DOMAIN q = 1 .. Len(q) /\ Head(q) = q[1] /\ Len(q) \in Nat
      /\ Len(q) > 0 /\ q[1] \in Frames
  OBVIOUS
<1> HIDE DEF r
<1>2. \A i \in DOMAIN r : i + 1 \in DOMAIN q /\ r[i] = q[i + 1]
  BY <1>1
<1>3. \A i \in DOMAIN q : i # 1 => i - 1 \in DOMAIN r /\ r[i - 1] = q[i]
  BY <1>1
<1>4. q[1][2] \in a + 1 .. b /\ q[1] = <<s, q[1][2]>>
  BY <1>1, FrameFacts DEF Carries
<1>5. q[1][2] = a + 1
  <2>1. PICK i \in DOMAIN q : q[i] = <<s, a + 1>>
    BY <1>4 DEF Carries
  <2>2. CASE i = 1
    BY <2>1, <2>2
  <2>3. CASE i # 1
    <3>1. 1 \in DOMAIN q /\ 1 < i /\ q[i][1] = s /\ q[i][2] = a + 1
      BY <1>1, <2>1, <2>3
    <3>2. q[1][2] < q[i][2]
      BY <1>1, <3>1 DEF Carries
    <3> QED
      BY <1>4, <3>1, <3>2
  <2> QED
    BY <2>2, <2>3
<1>6. \A i \in DOMAIN r : r[i][1] = s => r[i][2] \in (a + 1) + 1 .. b
  <2> SUFFICES ASSUME NEW i \in DOMAIN r, r[i][1] = s
               PROVE  r[i][2] \in (a + 1) + 1 .. b
    OBVIOUS
  <2>1. i + 1 \in DOMAIN q /\ 1 \in DOMAIN q /\ r[i] = q[i + 1] /\ 1 < i + 1
    BY <1>1, <1>2
  <2>2. q[i + 1][2] \in a + 1 .. b /\ q[1][2] < q[i + 1][2]
    BY <1>1, <2>1 DEF Carries
  <2> QED
    BY <1>5, <2>1, <2>2
<1>7. \A n \in (a + 1) + 1 .. b : \E i \in DOMAIN r : r[i] = <<s, n>>
  <2> TAKE n \in (a + 1) + 1 .. b
  <2>1. PICK i \in DOMAIN q : q[i] = <<s, n>>
    BY DEF Carries
  <2>2. q[i][2] = n
    BY <2>1
  <2> QED
    BY <1>3, <1>5, <2>1, <2>2
<1>8. \A i, j \in DOMAIN r : i < j /\ r[i][1] = s /\ r[j][1] = s => r[i][2] < r[j][2]
  <2> SUFFICES ASSUME NEW i \in DOMAIN r, NEW j \in DOMAIN r, i < j, r[i][1] = s, r[j][1] = s
               PROVE  r[i][2] < r[j][2]
    OBVIOUS
  <2>1. i + 1 \in DOMAIN q /\ j + 1 \in DOMAIN q /\ r[i] = q[i + 1] /\ r[j] = q[j + 1]
    BY <1>2
  <2>2. i + 1 < j + 1
    BY <1>1
  <2>3. q[i + 1][2] < q[j + 1][2]
    BY <2>1, <2>2 DEF Carries
  <2> QED
    BY <2>1, <2>3
<1>9. Carries(r, s, a + 1, b)
  BY <1>4, <1>6, <1>7, <1>8 DEF Carries
<1> QED
  BY <1>1, <1>4, <1>5, <1>9 DEF r
-----------------------------------------------------------------------------
(* Types.                                                                  *)

(* The kinds are sessions, and the sizes are numbers.                      *)
LEMMA KindFacts ==
    ASSUME kind \in Kinds
    PROVE  kind.streams \subseteq AllStreams /\ kind \in Session
BY ExecRelayAssumption DEF Session

LEMMA SizeFacts ==
    UpSize \in Nat /\ DownSize \in Nat /\ PipeSize \in Nat /\ MaxOut \in Nat /\ MaxIn \in Nat
BY ExecRelayAssumption

(* The records, as the handlers update them.                               *)
LEMMA AgentMoves ==
    ASSUME NEW g \in Agents,
           NEW to \in {"idle", "start", "pump", "code", "status", "close", "closed"},
           NEW why \in {"none", "start", "done", "write", "hangup"}
    PROVE  /\ [g EXCEPT !.pc = to] \in Agents
           /\ [g EXCEPT !.pc = to, !.why = why] \in Agents
           /\ [g EXCEPT !.pc = to, !.blind = TRUE] \in Agents
           /\ \A st \in Statuses : /\ [g EXCEPT !.pc = to, !.status = st] \in Agents
                                  /\ [g EXCEPT !.pc = to, !.status = st, !.blind = TRUE] \in Agents
BY DEF Agents

LEMMA RelayMoves ==
    ASSUME NEW v \in Relays, NEW to \in {"idle", "connect", "relay", "closed"},
           NEW why \in {"none", "connect", "write", "client", "node"}
    PROVE  /\ [v EXCEPT !.pc = to] \in Relays
           /\ [v EXCEPT !.pc = to, !.why = why] \in Relays
BY DEF Relays

LEMMA ProcMoves ==
    /\ \A c \in {0, 1} : Ended(c) \in Procs
    /\ \A p \in Procs : [p EXCEPT !.reads = FALSE] \in Procs /\ [p EXCEPT !.outs = {}] \in Procs
    /\ kind \in Kinds =>
         [st |-> "running", code |-> 0, reads |-> TRUE, outs |-> kind.streams] \in Procs
    /\ proc \in Procs => Dropped \in Procs
<1>1. \A c \in {0, 1} : Ended(c) \in Procs
  BY DEF Ended, Procs
<1>2. \A p \in Procs : [p EXCEPT !.reads = FALSE] \in Procs /\ [p EXCEPT !.outs = {}] \in Procs
  BY Zenon DEF Procs
<1>3. kind \in Kinds =>
         [st |-> "running", code |-> 0, reads |-> TRUE, outs |-> kind.streams] \in Procs
  BY KindFacts DEF Procs
<1>4. proc \in Procs => Dropped \in Procs
  <2>1. [st |-> "exited", code |-> 1, reads |-> FALSE, outs |-> {}] \in Procs
    BY DEF Procs
  <2> QED
    BY <2>1 DEF Dropped
<1> QED
  BY <1>1, <1>2, <1>3, <1>4

RelayTypes ==
    /\ server \in Relays /\ c2s \in Seq({Data, Close}) /\ s2n \in Seq({Data, Close})
    /\ s2c \in Seq(Frames) /\ n2s \in Seq(Frames)
SessionTypes ==
    /\ agent \in Agents /\ proc \in Procs /\ pipe \in [AllStreams -> Seq(Chunks)]
    /\ s2n \in Seq({Data, Close}) /\ stdin \in 0 .. PipeSize

(* A loop of the relay that returns keeps the types, ...                   *)
LEMMA EndRelayTypes ==
    ASSUME TypeOK, NEW why \in {"write", "client", "node"},
           NEW up2 \in Seq({Data, Close}), NEW down2 \in Seq(Frames), EndRelay(why, up2, down2)
    PROVE  RelayTypes'
<1>1. server' \in Relays
  <2>1. server \in Relays
    BY DEF TypeOK
  <2> QED
    BY <2>1, RelayMoves, Zenon DEF EndRelay
<1>2. c2s' \in Seq({Data, Close}) /\ n2s' \in Seq(Frames)
  BY DEF EndRelay
<1>3. s2n' \in Seq({Data, Close})
  <2>1. s2n \in Seq({Data, Close}) /\ s2n \o up2 \in Seq({Data, Close})
    BY DEF TypeOK
  <2> QED
    BY <2>1 DEF EndRelay
<1>4. s2c' \in Seq(Frames)
  <2>1. s2c \in Seq(Frames) /\ s2c \o down2 \in Seq(Frames)
    BY DEF TypeOK
  <2> QED
    BY <2>1 DEF EndRelay
<1> QED
  BY <1>1, <1>2, <1>3, <1>4 DEF RelayTypes

(* ... and so does a session that ends.                                    *)
LEMMA EndSessionTypes ==
    ASSUME TypeOK, NEW why \in {"done", "write", "hangup"}, EndSession(why)
    PROVE  SessionTypes'
<1>1. agent' \in Agents
  <2>1. agent \in Agents
    BY DEF TypeOK
  <2> QED
    BY <2>1, AgentMoves, Zenon DEF EndSession
<1>2. proc' \in Procs
  BY ProcMoves DEF TypeOK, EndSession
<1>3. pipe' \in [AllStreams -> Seq(Chunks)] /\ s2n' \in Seq({Data, Close}) /\ stdin' \in 0 .. PipeSize
  BY SizeFacts DEF EndSession
<1> QED
  BY <1>1, <1>2, <1>3 DEF SessionTypes

LEMMA InitInv == Init => IInv
<1> SUFFICES ASSUME Init
             PROVE  IInv
  OBVIOUS
<1>1. TypeOK
  <2>1. server \in Relays /\ agent \in Agents /\ proc \in Procs
    BY DEF Init, Relays, Agents, Procs, Statuses
  <2>2. wrote \in [AllStreams -> 0 .. MaxOut] /\ pipe \in [AllStreams -> Seq(Chunks)]
        /\ typed \in 0 .. MaxIn /\ stdin \in 0 .. PipeSize
    BY SizeFacts DEF Init
  <2>3. got \in Seq(Frames) /\ c2s \in Seq({Data, Close}) /\ s2n \in Seq({Data, Close})
        /\ s2c \in Seq(Frames) /\ n2s \in Seq(Frames)
    BY DEF Init
  <2> QED
    BY <2>1, <2>2, <2>3 DEF Init, TypeOK
<1>2. Own /\ Fresh /\ Drained
  BY DEF Init, Own, Fresh, Drained, Ending
<1>3. Last
  BY DEF Init, Last, Has, Tidy, OnlyClose, Relaying
<1>4. Truth
  BY DEF Init, Truth, OnItsWay, In
<1>5. Balanced
  <2> SUFFICES ASSUME NEW s \in AllStreams
               PROVE  \E a, b, c \in 0 .. wrote[s] : Ledger(s, a, b, c)
    BY DEF Balanced
  <2>1. wrote[s] = 0 /\ got = << >> /\ client # "open" /\ agent.pc = "idle"
    BY DEF Init
  <2>2. ~Has(got)
    BY <2>1 DEF Has
  <2>3. Ledger(s, 0, 0, 0)
    BY <2>1, <2>2, CarriesNothing DEF Ledger, Relaying
  <2> QED
    BY <2>1, <2>3
<1> QED
  BY <1>1, <1>2, <1>3, <1>4, <1>5 DEF IInv
-----------------------------------------------------------------------------
LEMMA TypeStep ==
    ASSUME TypeOK, [Next]_vars
    PROVE  TypeOK'
<1> USE SizeFacts
<1>0. server \in Relays /\ agent \in Agents /\ proc \in Procs /\ kind \in Kinds
  BY DEF TypeOK
<1>e. << >> \in Seq({Data, Close}) /\ << >> \in Seq(Frames)
  OBVIOUS
<1>1. ASSUME NEW asked \in Containers \cup {NoName}, NEW ok \in BOOLEAN, Request(asked, ok)
      PROVE  TypeOK'
  <2>1. server' \in Relays
    BY <1>0, <1>1, RelayMoves, Zenon DEF Request
  <2> QED
    BY <1>1, <2>1 DEF Request, TypeOK, process
<1>2. CASE Connect
  <2>1. server' \in Relays /\ agent' \in Agents
    BY <1>0, <1>2, RelayMoves, AgentMoves, Zenon DEF Connect
  <2> QED
    BY <1>2, <2>1 DEF Connect, TypeOK, ends, process
<1>3. CASE ConnectErr
  <2>1. server' \in Relays
    BY <1>0, <1>3, RelayMoves, Zenon DEF ConnectErr
  <2>2. s2c' \in Seq(Frames)
    BY <1>3, FrameFacts DEF ConnectErr
  <2> QED
    BY <1>3, <2>1, <2>2 DEF ConnectErr, TypeOK, ends, process
<1>4. CASE ClientRead
  BY <1>4 DEF ClientRead, TypeOK, process
<1>5. CASE ClientCut
  BY <1>5 DEF ClientCut, TypeOK, relay, process
<1>6. CASE ServerUp
  BY <1>6 DEF ServerUp, TypeOK, ends, process
<1>7. CASE ServerUpErr
  <2>1. CASE EndRelay("write", << >>, << >>)
    <3>1. RelayTypes'
      BY <1>e, <2>1, EndRelayTypes
    <3> QED
      BY <1>7, <3>1 DEF ServerUpErr, TypeOK, RelayTypes, ends, process
  <2>2. CASE c2s' = Tail(c2s) /\ UNCHANGED <<server, s2c, s2n, n2s>>
    BY <1>7, <2>2 DEF ServerUpErr, TypeOK, ends, process
  <2> QED
    BY <1>7, <2>1, <2>2 DEF ServerUpErr
<1>8. CASE ServerUpClose
  <2>1. PICK u \in Seq({Data, Close}) : EndRelay("client", u, << >>)
    <3>1. << >> \in Seq({Data, Close}) /\ <<Close>> \in Seq({Data, Close})
      OBVIOUS
    <3> QED
      BY <1>8, <3>1 DEF ServerUpClose
  <2>2. RelayTypes'
    BY <1>e, <2>1, EndRelayTypes
  <2> QED
    BY <1>8, <2>2 DEF ServerUpClose, TypeOK, RelayTypes, ends, process
<1>9. CASE ServerUpEof
  <2>1. RelayTypes'
    BY <1>9, <1>e, EndRelayTypes DEF ServerUpEof
  <2> QED
    BY <1>9, <2>1 DEF ServerUpEof, TypeOK, RelayTypes, ends, process
<1>10. CASE ServerDown
  <2>1. s2c' \in Seq(Frames) /\ n2s' \in Seq(Frames)
    BY <1>10 DEF ServerDown, TypeOK
  <2> QED
    BY <1>10, <2>1 DEF ServerDown, TypeOK, ends, process
<1>11. CASE ServerDownErr
  <2>1. CASE EndRelay("client", << >>, << >>)
    <3>1. RelayTypes'
      BY <1>e, <2>1, EndRelayTypes
    <3> QED
      BY <1>11, <3>1 DEF ServerDownErr, TypeOK, RelayTypes, ends, process
  <2>2. CASE n2s' = Tail(n2s) /\ UNCHANGED <<server, c2s, s2c, s2n>>
    BY <1>11, <2>2 DEF ServerDownErr, TypeOK, ends, process
  <2> QED
    BY <1>11, <2>1, <2>2 DEF ServerDownErr
<1>12. CASE ServerDownClose
  <2>1. PICK d \in Seq(Frames) : EndRelay("node", << >>, d)
    <3>1. << >> \in Seq(Frames) /\ <<Close>> \in Seq(Frames)
      BY FrameFacts
    <3> QED
      BY <1>12, <3>1 DEF ServerDownClose
  <2>2. RelayTypes'
    BY <1>e, <2>1, EndRelayTypes
  <2> QED
    BY <1>12, <2>2 DEF ServerDownClose, TypeOK, RelayTypes, ends, process
<1>13. CASE ServerDownEof
  <2>1. RelayTypes'
    BY <1>13, <1>e, EndRelayTypes DEF ServerDownEof
  <2> QED
    BY <1>13, <2>1 DEF ServerDownEof, TypeOK, RelayTypes, ends, process
<1>14. CASE AgentStart
  <2>1. agent' \in Agents /\ proc' \in Procs
    BY <1>0, <1>14, AgentMoves, ProcMoves, Zenon DEF AgentStart
  <2> QED
    BY <1>14, <2>1 DEF AgentStart, TypeOK, ends, relay
<1>15. CASE AgentStartErr
  <2>1. agent' \in Agents
    BY <1>0, <1>15, AgentMoves, Zenon DEF AgentStartErr
  <2>2. n2s' \in Seq(Frames)
    <3>1. <<Error, Close>> \in Seq(Frames) /\ <<Error>> \in Seq(Frames) /\ n2s \in Seq(Frames)
      BY FrameFacts DEF TypeOK
    <3> QED
      BY <1>15, <3>1 DEF AgentStartErr
  <2> QED
    BY <1>15, <2>1, <2>2 DEF AgentStartErr, TypeOK, ends, process
<1>16. ASSUME NEW s \in AllStreams, AgentPump(s)
       PROVE  TypeOK'
  <2>1. agent' \in Agents
    <3>1. CASE server.pc = "closed"
      BY <1>0, <1>16, <3>1, AgentMoves, Zenon DEF AgentPump
    <3>2. CASE server.pc # "closed"
      BY <1>0, <1>16, <3>2 DEF AgentPump
    <3> QED
      BY <3>1, <3>2
  <2>2. pipe[s] \in Seq(Chunks) /\ pipe[s] # << >>
    BY <1>16 DEF AgentPump, TypeOK
  <2>3. Head(pipe[s]) \in Frames /\ Tail(pipe[s]) \in Seq(Chunks)
    BY <2>2, FrameFacts
  <2>4. n2s' \in Seq(Frames)
    <3>1. n2s \in Seq(Frames) /\ Append(n2s, Head(pipe[s])) \in Seq(Frames)
      BY <2>3 DEF TypeOK
    <3> QED
      BY <1>16, <3>1 DEF AgentPump
  <2>5. pipe' \in [AllStreams -> Seq(Chunks)]
    BY <1>16, <2>3 DEF AgentPump, TypeOK
  <2> QED
    BY <1>16, <2>1, <2>4, <2>5 DEF AgentPump, TypeOK, ends
<1>17. CASE AgentOutEnd
  <2>1. agent' \in Agents
    BY <1>0, <1>17, AgentMoves, Zenon DEF AgentOutEnd
  <2> QED
    BY <1>17, <2>1 DEF AgentOutEnd, TypeOK, ends, relay, process
<1>18. CASE AgentOutErr
  <2>1. agent' \in Agents
    BY <1>0, <1>18, AgentMoves, Zenon DEF AgentOutErr
  <2> QED
    BY <1>18, <2>1 DEF AgentOutErr, TypeOK, ends, relay, process
<1>19. CASE AgentCode
  <2>1. agent' \in Agents
    BY <1>0, <1>19, AgentMoves, Zenon DEF AgentCode, Statuses
  <2> QED
    BY <1>19, <2>1 DEF AgentCode, TypeOK, ends, relay, process
<1>20. CASE AgentNoCode
  <2>1. agent' \in Agents
    BY <1>0, <1>20, AgentMoves, Zenon DEF AgentNoCode, Statuses
  <2> QED
    BY <1>20, <2>1 DEF AgentNoCode, TypeOK, ends, relay, process
<1>21. CASE AgentStatus
  <2>1. agent' \in Agents
    BY <1>0, <1>21, AgentMoves, Zenon DEF AgentStatus
  <2>2. agent.status \in Frames
    BY <1>0, FrameFacts DEF Agents
  <2>3. n2s' \in Seq(Frames)
    <3>1. n2s \in Seq(Frames) /\ Append(n2s, agent.status) \in Seq(Frames)
      BY <2>2 DEF TypeOK
    <3> QED
      BY <1>21, <3>1 DEF AgentStatus
  <2> QED
    BY <1>21, <2>1, <2>3 DEF AgentStatus, TypeOK, ends, process
<1>22. CASE AgentClose
  <2>1. n2s' \in Seq(Frames)
    <3>1. n2s \in Seq(Frames) /\ Append(n2s, Close) \in Seq(Frames)
      BY FrameFacts DEF TypeOK
    <3> QED
      BY <1>22, <3>1 DEF AgentClose
  <2>2. SessionTypes'
    BY <1>22, EndSessionTypes DEF AgentClose
  <2> QED
    BY <1>22, <2>1, <2>2 DEF AgentClose, TypeOK, SessionTypes, ends
<1>23. CASE AgentIn
  BY <1>23 DEF AgentIn, TypeOK, ends
<1>24. CASE AgentInErr
  <2>1. SessionTypes'
    BY <1>24, EndSessionTypes DEF AgentInErr
  <2> QED
    BY <1>24, <2>1 DEF AgentInErr, TypeOK, SessionTypes, ends
<1>25. CASE AgentInLost
  BY <1>25 DEF AgentInLost, TypeOK, ends, process
<1>26. CASE AgentInClose
  <2>1. SessionTypes'
    BY <1>26, EndSessionTypes DEF AgentInClose
  <2> QED
    BY <1>26, <2>1 DEF AgentInClose, TypeOK, SessionTypes, ends
<1>27. CASE ClientType
  BY <1>27 DEF ClientType, TypeOK, process
<1>28. ASSUME NEW frames \in {<<Close>>, << >>}, ClientLeave(frames)
       PROVE  TypeOK'
  <2>1. c2s' \in Seq({Data, Close}) /\ s2c' \in Seq(Frames)
    <3>0. << >> \in Seq({Data, Close}) /\ <<Close>> \in Seq({Data, Close})
      OBVIOUS
    <3>1. c2s \in Seq({Data, Close}) /\ frames \in Seq({Data, Close})
      BY <3>0 DEF TypeOK
    <3>2. c2s \o frames \in Seq({Data, Close})
      BY <3>1
    <3> QED
      BY <1>28, <1>e, <3>2 DEF ClientLeave
  <2> QED
    BY <1>28, <2>1 DEF ClientLeave, TypeOK, process
<1>29. ASSUME NEW s \in AllStreams, ProcWrite(s)
       PROVE  TypeOK'
  <2>1. wrote["out"] \in Nat /\ wrote["err"] \in Nat /\ wrote[s] \in Nat
    BY DEF TypeOK, AllStreams
  <2>2. wrote[s] + 1 \in 0 .. MaxOut
    BY <1>29, <2>1 DEF ProcWrite, AllStreams
  <2>3. wrote' \in [AllStreams -> 0 .. MaxOut]
    BY <1>29, <2>2 DEF ProcWrite, TypeOK
  <2>4. <<s, wrote[s] + 1>> \in Chunks
    BY <2>1, FrameFacts
  <2>5. pipe' \in [AllStreams -> Seq(Chunks)]
    BY <1>29, <2>4 DEF ProcWrite, TypeOK
  <2> QED
    BY <1>29, <2>3, <2>5 DEF ProcWrite, TypeOK, ends, relay
<1>30. CASE Reap
  BY <1>30 DEF Reap, TypeOK, ends, relay
<1>31. CASE ProcRead
  BY <1>31 DEF ProcRead, TypeOK, ends, relay
<1>32. CASE ProcClose
  <2>1. proc' \in Procs
    BY <1>0, <1>32, ProcMoves DEF ProcClose
  <2> QED
    BY <1>32, <2>1 DEF ProcClose, TypeOK, ends, relay
<1>33. CASE ContainerStop
  <2>1. proc' \in Procs
    BY <1>0, <1>33, ProcMoves DEF ContainerStop
  <2> QED
    BY <1>33, <2>1 DEF ContainerStop, TypeOK, ends, relay
<1>34. ASSUME NEW c \in {0, 1}, ProcExit(c)
       PROVE  TypeOK'
  <2>1. proc' \in Procs
    BY <1>0, <1>34, ProcMoves DEF ProcExit
  <2> QED
    BY <1>34, <2>1 DEF ProcExit, TypeOK, ends, relay
<1>35. CASE UNCHANGED vars
  BY <1>35 DEF vars, TypeOK, ends, relay, process
<1> QED
  BY <1>1, <1>2, <1>3, <1>4, <1>5, <1>6, <1>7, <1>8, <1>9, <1>10, <1>11, <1>12, <1>13, <1>14,
     <1>15, <1>16, <1>17, <1>18, <1>19, <1>20, <1>21, <1>22, <1>23, <1>24, <1>25, <1>26, <1>27,
     <1>28, <1>29, <1>30, <1>31, <1>32, <1>33, <1>34, <1>35
     DEF Next, Setup, ClientStep, UpStep, DownStep, OutStep, InStep
-----------------------------------------------------------------------------
(***************************************************************************)
(* What the steps do to the part of the state the invariant is about.      *)
(* Most of them only narrow the way: they send no chunk and no status, and *)
(* whoever leaves does not come back.                                      *)
(***************************************************************************)
ProcAges ==
    /\ proc'.outs \subseteq proc.outs
    /\ proc.st = "exited" => proc'.st = "exited" /\ proc'.code = proc.code
AgentIs(to) ==
    /\ agent'.pc = to /\ agent'.blind = agent.blind /\ agent'.status = agent.status
Narrows ==
    /\ UNCHANGED <<kind, got, wrote>>
    /\ client' = client \/ (client = "open" /\ client' \in {"left", "ended"})
    /\ server'.pc = server.pc \/ (server.pc = "relay" /\ server'.pc = "closed")
    /\ \/ s2c' = s2c
       \/ s2c' = << >> /\ client' # "open"
       \/ s2c' = Append(s2c, Close) /\ server.pc = "relay" /\ server'.pc = "closed"
    /\ \/ n2s' = n2s
       \/ n2s' = << >> /\ server'.pc = "closed"
       \/ n2s # << >> /\ n2s' = Tail(n2s) /\ client' # "open"
    /\ \/ agent' = agent /\ pipe' = pipe
       \/ InSession /\ AgentIs("closed")
    /\ ProcAges
    /\ reaped' => reaped \/ (InSession /\ proc.st = "exited")

(* A process that is dropped or stops has ended.                           *)
LEMMA ProcEnds ==
    ASSUME TypeOK
    PROVE  /\ proc' = proc => ProcAges
           /\ proc' = Dropped => ProcAges
           /\ proc' = [proc EXCEPT !.reads = FALSE] => ProcAges
           /\ proc' = [proc EXCEPT !.outs = {}] => ProcAges
           /\ \A c \in {0, 1} : proc.st = "running" /\ proc' = Ended(c) => ProcAges
<1> USE DEF ProcAges
<1>0. proc \in Procs
  BY DEF TypeOK
<1>1. proc' = proc => ProcAges
  OBVIOUS
<1>2. proc' = Dropped => ProcAges
  <2>1. CASE kind.kills /\ ~reaped /\ proc.st = "running"
    BY <2>1 DEF Dropped
  <2>2. CASE ~(kind.kills /\ ~reaped /\ proc.st = "running")
    BY <2>2, <1>1 DEF Dropped
  <2> QED
    BY <2>1, <2>2
<1>3. proc' = [proc EXCEPT !.reads = FALSE] => ProcAges
  BY <1>0 DEF Procs
<1>4. proc' = [proc EXCEPT !.outs = {}] => ProcAges
  BY <1>0 DEF Procs
<1>5. \A c \in {0, 1} : proc.st = "running" /\ proc' = Ended(c) => ProcAges
  BY DEF Ended
<1> QED
  BY <1>1, <1>2, <1>3, <1>4, <1>5

(* The relay ends.                                                         *)
RelayOnly ==
    /\ kind' = kind /\ got' = got /\ client' = client /\ agent' = agent /\ wrote' = wrote
    /\ pipe' = pipe /\ proc' = proc /\ reaped' = reaped
SessionOnly ==
    /\ kind' = kind /\ got' = got /\ client' = client /\ server' = server /\ s2c' = s2c
    /\ n2s' = n2s /\ wrote' = wrote /\ reaped' = reaped
LEMMA EndRelayNarrows ==
    ASSUME TypeOK, server.pc = "relay", NEW why \in {"write", "client", "node"}, NEW u \in Seq({Data, Close}),
           NEW down2 \in {<< >>, <<Close>>}, EndRelay(why, u, down2),
           RelayOnly
    PROVE  Narrows
<1>1. server'.pc = "closed"
  <2>1. server' = [server EXCEPT !.pc = "closed", !.why = why]
    BY DEF EndRelay, RelayOnly
  <2>2. server \in Relays
    BY DEF TypeOK
  <2> QED
    BY <2>1, <2>2 DEF Relays
<1>2. n2s' = << >>
  BY DEF EndRelay, RelayOnly
<1>3. \/ s2c' = s2c
      \/ s2c' = << >> /\ client' # "open"
      \/ s2c' = Append(s2c, Close) /\ server.pc = "relay" /\ server'.pc = "closed"
  <2>1. s2c \in Seq(Frames) /\ s2c \o << >> = s2c /\ s2c \o <<Close>> = Append(s2c, Close)
    BY DEF TypeOK
  <2> QED
    BY <1>1, <2>1 DEF EndRelay, RelayOnly
<1>4. ProcAges
  BY ProcEnds DEF RelayOnly
<1> QED
  BY <1>1, <1>2, <1>3, <1>4 DEF Narrows, RelayOnly
(* The steps that only narrow the way.                                     *)
LEMMA NarrowSteps ==
    ASSUME TypeOK
    PROVE  /\ ClientCut \/ ClientType \/ ClientLeave(<<Close>>) \/ ClientLeave(<< >>) => Narrows
           /\ UpStep => Narrows
           /\ ServerDownErr \/ ServerDownClose \/ ServerDownEof => Narrows
           /\ InStep => Narrows
           /\ Reap \/ ProcRead \/ ProcClose \/ ContainerStop => Narrows
           /\ (\E c \in {0, 1} : ProcExit(c)) => Narrows
           /\ UNCHANGED vars => Narrows
<1>0. UNCHANGED proc => ProcAges
  BY ProcEnds
<1>e. << >> \in Seq({Data, Close}) /\ <<Close>> \in Seq({Data, Close})
  OBVIOUS
<1>1. ClientCut \/ ClientType => Narrows
  BY <1>0 DEF ClientCut, ClientType, Narrows, relay, process
<1>2. ASSUME NEW frames, ClientLeave(frames)
      PROVE  Narrows
  BY <1>0, <1>2 DEF ClientLeave, Narrows, process
<1>3. ServerUp => Narrows
  BY <1>0 DEF ServerUp, Narrows, ends, process
<1>4. ASSUME ServerUpErr
      PROVE  Narrows
  <2>1. CASE EndRelay("write", << >>, << >>)
    <3>1. server.pc = "relay" /\ RelayOnly
      BY <1>4 DEF ServerUpErr, RelayOnly, ends, process
    <3> QED
      BY <1>e, <2>1, <3>1, EndRelayNarrows
  <2>2. CASE c2s' = Tail(c2s) /\ UNCHANGED <<server, s2c, s2n, n2s>>
    BY <1>0, <1>4, <2>2 DEF ServerUpErr, Narrows, ends, process
  <2> QED
    BY <1>4, <2>1, <2>2 DEF ServerUpErr
<1>5. ASSUME ServerUpClose
      PROVE  Narrows
  <2>1. PICK u \in Seq({Data, Close}) : EndRelay("client", u, << >>)
    BY <1>5, <1>e DEF ServerUpClose
  <2>2. server.pc = "relay" /\ RelayOnly
    BY <1>5 DEF ServerUpClose, RelayOnly, ends, process
  <2> QED
    BY <1>e, <2>1, <2>2, EndRelayNarrows
<1>6. ASSUME ServerUpEof
      PROVE  Narrows
  <2>1. server.pc = "relay" /\ RelayOnly /\ EndRelay("client", << >>, << >>)
    BY <1>6 DEF ServerUpEof, RelayOnly, ends, process
  <2> QED
    BY <1>e, <2>1, EndRelayNarrows
<1>7. ASSUME ServerDownErr
      PROVE  Narrows
  <2>1. CASE EndRelay("client", << >>, << >>)
    <3>1. server.pc = "relay" /\ RelayOnly
      BY <1>7 DEF ServerDownErr, RelayOnly, ends, process
    <3> QED
      BY <1>e, <2>1, <3>1, EndRelayNarrows
  <2>2. CASE n2s' = Tail(n2s) /\ UNCHANGED <<server, c2s, s2c, s2n>>
    BY <1>0, <1>7, <2>2 DEF ServerDownErr, Narrows, ends, process
  <2> QED
    BY <1>7, <2>1, <2>2 DEF ServerDownErr
<1>8. ASSUME ServerDownClose
      PROVE  Narrows
  <2>1. PICK d \in {<< >>, <<Close>>} : EndRelay("node", << >>, d)
    BY <1>8 DEF ServerDownClose
  <2>2. server.pc = "relay" /\ RelayOnly
    BY <1>8 DEF ServerDownClose, RelayOnly, ends, process
  <2> QED
    BY <1>e, <2>1, <2>2, EndRelayNarrows
<1>9. ASSUME ServerDownEof
      PROVE  Narrows
  <2>1. server.pc = "relay" /\ RelayOnly /\ EndRelay("node", << >>, << >>)
    BY <1>9 DEF ServerDownEof, RelayOnly, ends, process
  <2> QED
    BY <1>e, <2>1, EndRelayNarrows
<1>10. AgentIn \/ AgentInLost => Narrows
  BY <1>0 DEF AgentIn, AgentInLost, Narrows, ends, process
<1>11. ASSUME NEW why \in {"write", "hangup"}, InSession, EndSession(why),
              SessionOnly
       PROVE  Narrows
  <2>1. AgentIs("closed")
    <3>1. agent' = [agent EXCEPT !.pc = "closed", !.why = why]
      BY <1>11 DEF EndSession
    <3>2. agent \in Agents
      BY DEF TypeOK
    <3> QED
      BY <3>1, <3>2 DEF Agents, AgentIs
  <2>2. ProcAges
    BY <1>11, ProcEnds DEF EndSession
  <2> QED
    BY <1>11, <2>1, <2>2 DEF Narrows, SessionOnly
<1>12. ASSUME AgentInErr
       PROVE  Narrows
  <2>1. InSession /\ EndSession("write") /\ SessionOnly
    BY <1>12 DEF AgentInErr, SessionOnly, ends
  <2> QED
    BY <1>11, <2>1
<1>13. ASSUME AgentInClose
       PROVE  Narrows
  <2>1. InSession /\ EndSession("hangup") /\ SessionOnly
    BY <1>13 DEF AgentInClose, SessionOnly, ends
  <2> QED
    BY <1>11, <2>1
<1>14. Reap \/ ProcRead => Narrows
  BY <1>0 DEF Reap, ProcRead, Narrows, ends, relay
<1>15. ASSUME ProcClose
       PROVE  Narrows
  <2>1. ProcAges
    BY <1>15, ProcEnds DEF ProcClose
  <2> QED
    BY <1>15, <2>1 DEF ProcClose, Narrows, ends, relay
<1>16. ASSUME ContainerStop
       PROVE  Narrows
  <2>1. ProcAges
    BY <1>16, ProcEnds DEF ContainerStop
  <2> QED
    BY <1>16, <2>1 DEF ContainerStop, Narrows, ends, relay
<1>17. ASSUME NEW c \in {0, 1}, ProcExit(c)
       PROVE  Narrows
  <2>1. ProcAges
    BY <1>17, ProcEnds DEF ProcExit
  <2> QED
    BY <1>17, <2>1 DEF ProcExit, Narrows, ends, relay
<1>18. UNCHANGED vars => Narrows
  BY <1>0 DEF vars, Narrows, ends, relay, process
<1> QED
  BY <1>1, <1>2, <1>3, <1>4, <1>5, <1>6, <1>7, <1>8, <1>9, <1>10, <1>12, <1>13, <1>14, <1>15,
     <1>16, <1>17, <1>18 DEF UpStep, InStep
(* What the other steps do to the relay's and the agent's records.         *)
LEMMA Moves ==
    ASSUME TypeOK
    PROVE  /\ \A asked, ok : Request(asked, ok) =>
                \/ server'.pc = "connect" /\ client' = "open"
                \/ server'.pc = "closed" /\ client' = "ended"
           /\ Connect => server'.pc = "relay" /\ AgentIs("start")
           /\ ConnectErr => server'.pc = "closed"
           /\ AgentStart => AgentIs("pump")
           /\ AgentStartErr => AgentIs("closed")
           /\ \A s : AgentPump(s) /\ server.pc = "closed" => agent'.pc \in Ending /\ agent'.blind
           /\ AgentOutEnd => AgentIs("code") \/ AgentIs("close")
           /\ AgentOutErr => agent'.pc = "code" /\ agent'.blind
           /\ AgentCode => /\ agent'.pc = "status" /\ agent'.blind = agent.blind
                           /\ agent'.status = IF kind.tells /\ proc.code # 0 THEN Failure ELSE Success
           /\ AgentNoCode => agent'.pc = "status" /\ agent'.blind
           /\ AgentStatus => AgentIs("close")
           /\ AgentClose => AgentIs("closed") /\ ProcAges
<1>0. server \in Relays /\ agent \in Agents
  BY DEF TypeOK
<1>1. \A asked, ok : Request(asked, ok) =>
        \/ server'.pc = "connect" /\ client' = "open"
        \/ server'.pc = "closed" /\ client' = "ended"
  BY <1>0 DEF Request, Relays
<1>2. Connect => server'.pc = "relay" /\ AgentIs("start")
  BY <1>0 DEF Connect, Relays, Agents, AgentIs
<1>3. ConnectErr => server'.pc = "closed"
  BY <1>0 DEF ConnectErr, Relays
<1>4. AgentStart => AgentIs("pump")
  BY <1>0 DEF AgentStart, Agents, AgentIs
<1>5. AgentStartErr => AgentIs("closed")
  BY <1>0 DEF AgentStartErr, Agents, AgentIs
<1>6. \A s : AgentPump(s) /\ server.pc = "closed" => agent'.pc \in Ending /\ agent'.blind
  BY <1>0 DEF AgentPump, Agents, Ending
<1>7. AgentOutEnd => AgentIs("code") \/ AgentIs("close")
  BY <1>0 DEF AgentOutEnd, Agents, AgentIs
<1>8. AgentOutErr => agent'.pc = "code" /\ agent'.blind
  BY <1>0 DEF AgentOutErr, Agents
<1>9. AgentCode => /\ agent'.pc = "status" /\ agent'.blind = agent.blind
                   /\ agent'.status = IF kind.tells /\ proc.code # 0 THEN Failure ELSE Success
  BY <1>0 DEF AgentCode, Agents
<1>10. AgentNoCode => agent'.pc = "status" /\ agent'.blind
  BY <1>0 DEF AgentNoCode, Agents
<1>11. AgentStatus => AgentIs("close")
  BY <1>0 DEF AgentStatus, Agents, AgentIs
<1>12. AgentClose => AgentIs("closed")
  BY <1>0 DEF AgentClose, EndSession, Agents, AgentIs
<1>13. AgentClose => ProcAges
  BY ProcEnds DEF AgentClose, EndSession
<1> QED
  BY <1>1, <1>2, <1>3, <1>4, <1>5, <1>6, <1>7, <1>8, <1>9, <1>10, <1>11, <1>12, <1>13

(* Every step is one of these.                                             *)
LEMMA Steps ==
    ASSUME TypeOK, [Next]_vars
    PROVE  \/ Narrows
           \/ \E asked \in Containers \cup {NoName}, ok \in BOOLEAN : Request(asked, ok)
           \/ Connect \/ ConnectErr \/ ClientRead \/ ServerDown
           \/ AgentStart \/ AgentStartErr
           \/ \E s \in AllStreams : AgentPump(s)
           \/ AgentOutEnd \/ AgentOutErr \/ AgentCode \/ AgentNoCode \/ AgentStatus \/ AgentClose
           \/ \E s \in AllStreams : ProcWrite(s)
BY NarrowSteps DEF Next, Setup, ClientStep, DownStep, OutStep
-----------------------------------------------------------------------------
(* Before there is a session.                                              *)
LEMMA FreshStep ==
    ASSUME IInv, [Next]_vars
    PROVE  Fresh'
<1> USE DEF Fresh, IInv
<1>0. TypeOK
  OBVIOUS
<1>1. CASE Narrows
  BY <1>1 DEF Narrows, InSession, AgentIs
<1>2. ASSUME NEW asked, NEW ok, Request(asked, ok)
      PROVE  Fresh'
  BY <1>0, <1>2, Moves DEF Request, process
<1>3. CASE Connect
  BY <1>0, <1>3, Moves DEF Connect, AgentIs, ends, process
<1>4. CASE ConnectErr
  BY <1>0, <1>4, Moves DEF ConnectErr, AgentIs, ends, process
<1>5. CASE ClientRead
  BY <1>5 DEF ClientRead, process
<1>6. CASE ServerDown
  BY <1>6 DEF ServerDown, ends, process
<1>7. CASE AgentStart
  BY <1>0, <1>7, Moves DEF AgentStart, AgentIs, ends, relay
<1>8. CASE AgentStartErr
  BY <1>0, <1>8, Moves DEF AgentStartErr, AgentIs, ends, process
<1>9. ASSUME NEW s \in AllStreams, AgentPump(s)
      PROVE  Fresh'
  <2>1. agent.pc = "pump" /\ agent'.pc \notin {"idle", "start"}
    BY <1>0, <1>9, Moves DEF AgentPump, Ending
  <2> QED
    BY <1>9, <2>1 DEF AgentPump, ends
<1>10. CASE AgentOutEnd
  BY <1>0, <1>10, Moves DEF AgentOutEnd, AgentIs, ends, relay, process
<1>11. CASE AgentOutErr
  BY <1>0, <1>11, Moves DEF AgentOutErr, ends, relay, process
<1>12. CASE AgentCode
  BY <1>0, <1>12, Moves DEF AgentCode, ends, relay, process
<1>13. CASE AgentNoCode
  BY <1>0, <1>13, Moves DEF AgentNoCode, ends, relay, process
<1>14. CASE AgentStatus
  BY <1>0, <1>14, Moves DEF AgentStatus, AgentIs, ends, process
<1>15. CASE AgentClose
  BY <1>0, <1>15, Moves DEF AgentClose, AgentIs, ends
<1>16. ASSUME NEW s \in AllStreams, ProcWrite(s)
       PROVE  Fresh'
  BY <1>16 DEF ProcWrite, InSession, ends, relay
<1> QED
  BY <1>0, <1>1, <1>2, <1>3, <1>4, <1>5, <1>6, <1>7, <1>8, <1>9, <1>10, <1>11, <1>12, <1>13,
     <1>14, <1>15, <1>16, Steps

(* Once the readers have met the ends of their pipes nothing is written.   *)
LEMMA DrainedStep ==
    ASSUME IInv, [Next]_vars
    PROVE  Drained'
<1> USE DEF Drained, Ending
<1>0. TypeOK /\ Drained
  BY DEF IInv
<1>1. CASE Narrows
  BY <1>0, <1>1 DEF Narrows, ProcAges, AgentIs
<1>2. ASSUME NEW asked, NEW ok, Request(asked, ok)
      PROVE  Drained'
  BY <1>0, <1>2 DEF Request, process
<1>3. CASE Connect
  BY <1>0, <1>3, Moves DEF AgentIs
<1>4. CASE ConnectErr
  BY <1>0, <1>4 DEF ConnectErr, process
<1>5. CASE ClientRead
  BY <1>0, <1>5 DEF ClientRead, process
<1>6. CASE ServerDown
  BY <1>0, <1>6 DEF ServerDown, process
<1>7. CASE AgentStart
  BY <1>0, <1>7, Moves DEF AgentIs
<1>8. CASE AgentStartErr
  BY <1>0, <1>8, Moves DEF AgentIs
<1>9. ASSUME NEW s \in AllStreams, AgentPump(s)
      PROVE  Drained'
  BY <1>0, <1>9, Moves DEF AgentPump
<1>10. CASE AgentOutEnd
  BY <1>10 DEF AgentOutEnd, ReadersDone, process
<1>11. CASE AgentOutErr
  BY <1>0, <1>11, Moves
<1>12. CASE AgentCode
  BY <1>0, <1>12, Moves DEF AgentCode, process
<1>13. CASE AgentNoCode
  BY <1>0, <1>13, Moves
<1>14. CASE AgentStatus
  BY <1>0, <1>14, Moves DEF AgentStatus, AgentIs, process
<1>15. CASE AgentClose
  BY <1>0, <1>15, Moves DEF AgentIs
<1>16. ASSUME NEW s \in AllStreams, ProcWrite(s)
       PROVE  Drained'
  BY <1>0, <1>16 DEF ProcWrite
<1> QED
  BY <1>0, <1>1, <1>2, <1>3, <1>4, <1>5, <1>6, <1>7, <1>8, <1>9, <1>10, <1>11, <1>12, <1>13,
     <1>14, <1>15, <1>16, Steps
-----------------------------------------------------------------------------
(* Statuses in sequences of frames: what an append adds, ...               *)
LEMMA Appended ==
    ASSUME NEW q \in Seq(Frames), NEW f \in Frames
    PROVE  /\ \A st \in Statuses : In(st, Append(q, f)) => In(st, q) \/ f = st
           /\ Has(Append(q, f)) <=> Has(q) \/ f \in Statuses
           /\ ~Has(q) => Tidy(Append(q, f))
           /\ Tidy(q) => Tidy(Append(q, Close))
           /\ OnlyClose(q) => OnlyClose(Append(q, Close))
<1> DEFINE Longer(g) == Append(q, g)
<1>1. \A g \in Frames : /\ DOMAIN Longer(g) = 1 .. Len(q) + 1 /\ Len(Longer(g)) = Len(q) + 1
                        /\ \A i \in 1 .. Len(q) : Longer(g)[i] = q[i]
                        /\ Longer(g)[Len(q) + 1] = g
  OBVIOUS
<1>2. DOMAIN q = 1 .. Len(q) /\ Len(q) \in Nat /\ Close \in Frames /\ Close \notin Statuses
  BY FrameFacts
<1> HIDE DEF Longer
<1>3. \A st \in Statuses : In(st, Longer(f)) => In(st, q) \/ f = st
  BY <1>1, <1>2 DEF In
<1>4. Has(Longer(f)) <=> Has(q) \/ f \in Statuses
  BY <1>1, <1>2 DEF Has
<1>5. ~Has(q) => Tidy(Longer(f))
  <2> SUFFICES ASSUME ~Has(q), NEW i \in DOMAIN Longer(f), Longer(f)[i] \in Statuses,
                      NEW j \in i + 1 .. Len(Longer(f))
               PROVE  FALSE
    BY DEF Tidy
  <2>1. i \notin 1 .. Len(q)
    BY <1>1, <1>2 DEF Has
  <2> QED
    BY <1>1, <1>2, <2>1
<1>6. Tidy(q) => Tidy(Longer(Close))
  <2> SUFFICES ASSUME Tidy(q), NEW i \in DOMAIN Longer(Close), Longer(Close)[i] \in Statuses,
                      NEW j \in i + 1 .. Len(Longer(Close))
               PROVE  Longer(Close)[j] = Close
    BY DEF Tidy
  <2>1. i \in 1 .. Len(q) /\ q[i] \in Statuses
    BY <1>1, <1>2
  <2>2. CASE j = Len(q) + 1
    BY <1>1, <1>2, <2>2
  <2>3. CASE j \in i + 1 .. Len(q)
    <3>1. j \in 1 .. Len(q)
      BY <1>2, <2>1, <2>3
    <3>2. q[j] = Close
      BY <1>2, <2>1, <2>3 DEF Tidy
    <3> QED
      BY <1>1, <1>2, <3>1, <3>2
  <2> QED
    BY <1>1, <1>2, <2>1, <2>2, <2>3
<1>7. OnlyClose(q) => OnlyClose(Longer(Close))
  BY <1>1, <1>2 DEF OnlyClose
<1> QED
  BY <1>3, <1>4, <1>5, <1>6, <1>7 DEF Longer

(* ... and what is left when the first frame is taken.                     *)
LEMMA Taken ==
    ASSUME NEW q \in Seq(Frames), q # << >>
    PROVE  /\ Head(q) \in Frames /\ Tail(q) \in Seq(Frames)
           /\ \A st \in Statuses : In(st, Tail(q)) \/ Head(q) = st => In(st, q)
           /\ Has(Tail(q)) \/ Head(q) \in Statuses => Has(q)
           /\ Tidy(q) => Tidy(Tail(q)) /\ (Head(q) \in Statuses => OnlyClose(Tail(q)))
           /\ OnlyClose(q) => OnlyClose(Tail(q)) /\ Head(q) = Close
<1> DEFINE r == Tail(q)
<1>1. r \in Seq(Frames) /\ Len(r) = Len(q) - 1 /\ (\A i \in 1 .. Len(r) : r[i] = q[i + 1])
      /\ DOMAIN r = 1 .. Len(r) /\ DOMAIN q = 1 .. Len(q) /\ Head(q) = q[1] /\ Len(q) \in Nat
      /\ Len(q) > 0 /\ q[1] \in Frames
  OBVIOUS
<1> HIDE DEF r
<1>2. \A i \in DOMAIN r : i + 1 \in DOMAIN q /\ r[i] = q[i + 1]
  BY <1>1
<1>3. \A st \in Statuses : In(st, r) \/ Head(q) = st => In(st, q)
  BY <1>1, <1>2 DEF In
<1>4. Has(r) \/ Head(q) \in Statuses => Has(q)
  BY <1>1, <1>2 DEF Has
<1>5. Tidy(q) => Tidy(r)
  <2> SUFFICES ASSUME Tidy(q), NEW i \in DOMAIN r, r[i] \in Statuses, NEW j \in i + 1 .. Len(r)
               PROVE  r[j] = Close
    BY DEF Tidy
  <2>1. j \in DOMAIN r /\ j + 1 \in (i + 1) + 1 .. Len(q) /\ i + 1 \in DOMAIN q
    BY <1>1, <1>2
  <2> QED
    BY <1>2, <2>1 DEF Tidy
<1>6. Tidy(q) /\ Head(q) \in Statuses => OnlyClose(r)
  <2> SUFFICES ASSUME Tidy(q), q[1] \in Statuses, NEW i \in DOMAIN r
               PROVE  r[i] = Close
    BY <1>1 DEF OnlyClose
  <2>1. 1 \in DOMAIN q /\ i + 1 \in 1 + 1 .. Len(q)
    BY <1>1
  <2> QED
    BY <1>2, <2>1 DEF Tidy
<1>7. OnlyClose(q) => OnlyClose(r) /\ Head(q) = Close
  BY <1>1, <1>2 DEF OnlyClose
<1> QED
  BY <1>1, <1>3, <1>4, <1>5, <1>6, <1>7 DEF r

(* Nothing is in an empty sequence, and no status among closes.            *)
LEMMA Empty ==
    /\ \A st : ~In(st, << >>)
    /\ ~Has(<< >>) /\ Tidy(<< >>) /\ OnlyClose(<< >>)
    /\ \A q : OnlyClose(q) => ~Has(q)
<1>1. Close \notin Statuses
  BY FrameFacts
<1> QED
  BY <1>1 DEF In, Has, Tidy, OnlyClose

(* An error and a close are no statuses.                                   *)
LEMMA ErrorFrames ==
    ASSUME NEW q \in {<<Error, Close>>, <<Error>>}
    PROVE  /\ \A st \in Statuses : ~In(st, q)
           /\ ~Has(q) /\ Tidy(q) /\ q \in Seq(Frames)
           /\ \A s \in AllStreams, a \in Nat : Carries(q, s, a, a)
<1>1. Close \notin Statuses /\ Error \notin Statuses /\ {Error, Close} \subseteq Frames
  BY FrameFacts
<1>2. q \in Seq(Frames) /\ \A i \in DOMAIN q : q[i] \in {Error, Close}
  <2>1. CASE q = <<Error, Close>>
    BY <1>1, <2>1
  <2>2. CASE q = <<Error>>
    BY <1>1, <2>2
  <2> QED
    BY <2>1, <2>2
<1>3. \A s \in AllStreams : \A i \in DOMAIN q : q[i][1] # s
  BY <1>2, FrameFacts
<1>4. \A s \in AllStreams, a \in Nat : Carries(q, s, a, a)
  BY <1>2, <1>3, CarriesNone
<1> QED
  BY <1>1, <1>2, <1>4 DEF In, Has, Tidy
-----------------------------------------------------------------------------
(***************************************************************************)
(* A status is true where it is made, and the process has then ended for   *)
(* good.                                                                   *)
(***************************************************************************)
LEMMA TruthStep ==
    ASSUME IInv, [Next]_vars
    PROVE  Truth'
<1>0. TypeOK /\ Truth /\ Last
  BY DEF IInv
<1>f. got \in Seq(Frames) /\ s2c \in Seq(Frames) /\ n2s \in Seq(Frames)
  BY <1>0 DEF TypeOK
<1>g. Close \in Frames /\ Close \notin Statuses /\ Success # Failure
  BY FrameFacts
<1>n. ASSUME agent.pc \notin {"close", "closed"}
      PROVE  \A st \in Statuses : ~In(st, got) /\ ~In(st, s2c) /\ ~In(st, n2s)
  BY <1>0, <1>n DEF Last, Has, In
<1>r. ASSUME proc' = proc \/ ProcAges, reaped' => reaped \/ proc.st = "exited", kind' = kind,
             agent.blind => agent'.blind,
             \A st \in Statuses : OnItsWay(st)' /\ ~agent'.blind => OnItsWay(st)
      PROVE  Truth'
  BY <1>0, <1>r DEF Truth, ProcAges
<1>1. CASE Narrows
  <2>1. agent'.blind = agent.blind /\ (agent'.pc = "status" => agent' = agent)
    BY <1>1 DEF Narrows, AgentIs
  <2>2. \A st \in Statuses : In(st, s2c)' => In(st, s2c)
    <3>1. \/ s2c' = s2c \/ s2c' = << >> \/ s2c' = Append(s2c, Close)
      BY <1>1 DEF Narrows
    <3>2. \A st \in Statuses : In(st, Append(s2c, Close)) => In(st, s2c)
      BY <1>f, <1>g, Appended
    <3> QED
      BY <3>1, <3>2, Empty
  <2>3. \A st \in Statuses : In(st, n2s)' => In(st, n2s)
    <3>1. \/ n2s' = n2s \/ n2s' = << >> \/ (n2s # << >> /\ n2s' = Tail(n2s))
      BY <1>1 DEF Narrows
    <3>2. n2s # << >> => \A st \in Statuses : In(st, Tail(n2s)) => In(st, n2s)
      BY <1>f, Taken
    <3> QED
      BY <3>1, <3>2, Empty
  <2>4. \A st \in Statuses : OnItsWay(st)' => OnItsWay(st)
    BY <1>1, <2>1, <2>2, <2>3 DEF OnItsWay, Narrows
  <2>5. ProcAges /\ (reaped' => reaped \/ proc.st = "exited") /\ kind' = kind
    BY <1>1 DEF Narrows
  <2> QED
    BY <2>1, <2>4, <2>5, <1>r
<1>2. ASSUME NEW asked, NEW ok, Request(asked, ok)
      PROVE  Truth'
  BY <1>0, <1>2 DEF Request, Truth, OnItsWay, process
<1>3. CASE Connect
  <2>1. \A st \in Statuses : OnItsWay(st)' => OnItsWay(st)
    BY <1>0, <1>3, Moves DEF Connect, OnItsWay, AgentIs, ends
  <2>2. agent'.blind = agent.blind
    BY <1>0, <1>3, Moves DEF AgentIs
  <2>3. proc' = proc /\ kind' = kind /\ reaped' = reaped
    BY <1>3 DEF Connect, process
  <2> QED
    BY <2>1, <2>2, <2>3, <1>r
<1>4. CASE ConnectErr
  <2>1. \A st \in Statuses : In(st, s2c)' => In(st, s2c)
    BY <1>4, ErrorFrames, Empty DEF ConnectErr
  <2> QED
    BY <1>0, <1>4, <2>1 DEF ConnectErr, Truth, OnItsWay, ends, process
<1>5. CASE ClientRead
  <2>1. \A st \in Statuses : In(st, s2c)' \/ Head(s2c) = st => In(st, s2c)
    BY <1>5, <1>f, Taken DEF ClientRead
  <2>2. Head(s2c) \in Frames
    BY <1>5, <1>f, Taken DEF ClientRead
  <2>3. \A st \in Statuses : In(st, got)' => In(st, got) \/ In(st, s2c)
    BY <1>5, <1>f, <2>1, <2>2, Appended DEF ClientRead
  <2> QED
    BY <1>0, <1>5, <2>1, <2>3 DEF ClientRead, Truth, OnItsWay, process
<1>6. CASE ServerDown
  <2>1. \A st \in Statuses : In(st, n2s)' \/ Head(n2s) = st => In(st, n2s)
    BY <1>6, <1>f, Taken DEF ServerDown
  <2>2. Head(n2s) \in Frames
    BY <1>6, <1>f, Taken DEF ServerDown
  <2>3. \A st \in Statuses : In(st, s2c)' => In(st, s2c) \/ In(st, n2s)
    BY <1>6, <1>f, <2>1, <2>2, Appended DEF ServerDown
  <2> QED
    BY <1>0, <1>6, <2>1, <2>3 DEF ServerDown, Truth, OnItsWay, ends, process
<1>7. CASE AgentStart
  <2>1. agent'.pc = "pump" /\ agent.pc = "start"
    BY <1>0, <1>7, Moves DEF AgentStart, AgentIs
  <2>2. \A st \in Statuses : ~OnItsWay(st)'
    BY <1>7, <1>n, <2>1 DEF AgentStart, OnItsWay, ends, relay
  <2>3. ~reaped'
    BY <1>0, <1>7 DEF AgentStart, IInv, Fresh, Truth
  <2> QED
    BY <2>2, <2>3 DEF Truth
<1>8. CASE AgentStartErr
  <2>1. agent'.pc = "closed" /\ agent.pc = "start"
    BY <1>0, <1>8, Moves DEF AgentStartErr, AgentIs
  <2>2. \A st \in Statuses : In(st, n2s)' => In(st, n2s)
    BY <1>8, ErrorFrames DEF AgentStartErr
  <2>3. \A st \in Statuses : ~OnItsWay(st)'
    BY <1>8, <1>n, <2>1, <2>2 DEF AgentStartErr, OnItsWay, ends
  <2>4. reaped' => proc'.st = "exited"
    BY <1>0, <1>8 DEF AgentStartErr, Truth, process
  <2> QED
    BY <2>3, <2>4 DEF Truth
<1>9. ASSUME NEW s \in AllStreams, AgentPump(s)
      PROVE  Truth'
  <2>1. proc' = proc /\ kind' = kind /\ reaped' = reaped /\ got' = got /\ s2c' = s2c
    BY <1>9 DEF AgentPump, ends
  <2>2. CASE server.pc = "closed"
    <3>1. agent'.blind
      BY <1>0, <1>9, <2>2, Moves
    <3> QED
      BY <2>1, <3>1, <1>r
  <2>3. CASE server.pc # "closed"
    <3>1. agent' = agent /\ n2s' = Append(n2s, Head(pipe[s]))
      BY <1>9, <2>3 DEF AgentPump
    <3>2. pipe[s] \in Seq(Chunks) /\ pipe[s] # << >>
      BY <1>0, <1>9 DEF AgentPump, TypeOK
    <3>3. Head(pipe[s]) \in Chunks
      BY <3>2
    <3>4. Head(pipe[s]) \in Frames /\ Head(pipe[s]) \notin Statuses
      BY <3>3, FrameFacts
    <3>5. \A st \in Statuses : In(st, n2s)' => In(st, n2s)
      BY <1>f, <3>1, <3>4, Appended
    <3> QED
      BY <1>0, <2>1, <3>1, <3>5 DEF Truth, OnItsWay
  <2> QED
    BY <2>2, <2>3
<1>10. CASE AgentOutEnd
  <2>1. \A st \in Statuses : OnItsWay(st)' => OnItsWay(st)
    BY <1>0, <1>10, Moves DEF AgentOutEnd, OnItsWay, AgentIs, ends, relay
  <2>2. agent'.blind = agent.blind
    BY <1>0, <1>10, Moves DEF AgentIs
  <2>3. proc' = proc /\ kind' = kind /\ reaped' = reaped
    BY <1>10 DEF AgentOutEnd, process
  <2> QED
    BY <2>1, <2>2, <2>3, <1>r
<1>11. CASE AgentOutErr
  <2>1. agent'.blind
    BY <1>0, <1>11, Moves
  <2>2. proc' = proc /\ kind' = kind /\ reaped' = reaped
    BY <1>11 DEF AgentOutErr, process
  <2> QED
    BY <2>1, <2>2, <1>r
<1>12. CASE AgentCode
  <2>1. agent.pc = "code" /\ (kind.tells => reaped)
    BY <1>12 DEF AgentCode
  <2>2. agent'.status = IF kind.tells /\ proc.code # 0 THEN Failure ELSE Success
    BY <1>0, <1>12, Moves
  <2>3. proc' = proc /\ kind' = kind /\ reaped' = reaped /\ got' = got /\ s2c' = s2c /\ n2s' = n2s
    BY <1>12 DEF AgentCode, ends, relay, process
  <2>4. \A st \in Statuses : OnItsWay(st)' => st = agent'.status
    BY <1>n, <2>1, <2>3 DEF OnItsWay
  <2>5. reaped => proc.st = "exited"
    BY <1>0 DEF Truth
  <2>6. kind.tells => /\ proc.st = "exited"
                      /\ agent'.status = Success <=> proc.code = 0
    BY <1>g, <2>1, <2>2, <2>5
  <2> QED
    BY <2>3, <2>4, <2>5, <2>6 DEF Truth
<1>13. CASE AgentNoCode
  <2>1. agent'.blind
    BY <1>0, <1>13, Moves
  <2>2. proc' = proc /\ kind' = kind /\ reaped' = reaped
    BY <1>13 DEF AgentNoCode, process
  <2> QED
    BY <2>1, <2>2, <1>r
<1>14. CASE AgentStatus
  <2>1. agent'.pc = "close" /\ agent'.blind = agent.blind
    BY <1>0, <1>14, Moves DEF AgentIs
  <2>2. agent.status \in Frames
    BY <1>0, FrameFacts DEF TypeOK, Agents
  <2>3. \A st \in Statuses : In(st, n2s)' => In(st, n2s) \/ agent.status = st
    BY <1>14, <1>f, <2>2, Appended DEF AgentStatus
  <2>4. agent.pc = "status" /\ got' = got /\ s2c' = s2c
    BY <1>14 DEF AgentStatus, ends
  <2>5. \A st \in Statuses : OnItsWay(st)' => OnItsWay(st)
    BY <2>1, <2>3, <2>4 DEF OnItsWay
  <2>6. proc' = proc /\ kind' = kind /\ reaped' = reaped
    BY <1>14 DEF AgentStatus, process
  <2> QED
    BY <2>1, <2>5, <2>6, <1>r
<1>15. CASE AgentClose
  <2>1. agent'.pc = "closed" /\ agent'.blind = agent.blind /\ ProcAges
    BY <1>0, <1>15, Moves DEF AgentIs
  <2>2. \A st \in Statuses : In(st, n2s)' => In(st, n2s)
    BY <1>15, <1>f, <1>g, Appended DEF AgentClose
  <2>3. got' = got /\ s2c' = s2c /\ kind' = kind /\ reaped' = reaped
    BY <1>15 DEF AgentClose, ends
  <2>4. \A st \in Statuses : OnItsWay(st)' => OnItsWay(st)
    BY <2>1, <2>2, <2>3 DEF OnItsWay
  <2> QED
    BY <2>1, <2>3, <2>4, <1>r
<1>16. ASSUME NEW s \in AllStreams, ProcWrite(s)
       PROVE  Truth'
  BY <1>0, <1>16 DEF ProcWrite, Truth, OnItsWay, ends, relay
<1> QED
  BY <1>0, <1>1, <1>2, <1>3, <1>4, <1>5, <1>6, <1>7, <1>8, <1>9, <1>10, <1>11, <1>12, <1>13,
     <1>14, <1>15, <1>16, Steps
-----------------------------------------------------------------------------
(* A status is the last frame before the close, on the whole way.          *)
LEMMA LastStep ==
    ASSUME IInv, [Next]_vars
    PROVE  Last'
<1>0. TypeOK /\ Last
  BY DEF IInv
<1>f. got \in Seq(Frames) /\ s2c \in Seq(Frames) /\ n2s \in Seq(Frames)
  BY <1>0 DEF TypeOK
<1>g. Close \in Frames /\ Close \notin Statuses
  BY FrameFacts
<1>n. ASSUME agent.pc \notin {"close", "closed"}
      PROVE  ~Has(got) /\ ~Has(s2c) /\ ~Has(n2s)
  BY <1>0, <1>n DEF Last
<1>s. ASSUME got' = got, s2c' = s2c, n2s' = n2s, client' = client, server' = server,
             agent.pc \in {"close", "closed"} => agent'.pc \in {"close", "closed"}
      PROVE  Last'
  BY <1>0, <1>s DEF Last, Relaying
<1>a. \* A frame is sent from the node before there is a status, or it is the close.
      ASSUME NEW f \in Frames, n2s' = Append(n2s, f), got' = got, s2c' = s2c,
             client' = client, server' = server,
             agent.pc \in {"close", "closed"} => agent'.pc \in {"close", "closed"},
             f = Close \/ (agent.pc \notin {"close", "closed"}
                            /\ (f \in Statuses => agent'.pc \in {"close", "closed"}))
      PROVE  Last'
  <2>1. CASE f = Close
    <3>1. Has(n2s') <=> Has(n2s)
      BY <1>a, <1>f, <1>g, <2>1, Appended
    <3>2. (Tidy(n2s) => Tidy(n2s')) /\ (OnlyClose(n2s) => OnlyClose(n2s'))
      BY <1>a, <1>f, <2>1, Appended
    <3> QED
      BY <1>0, <1>a, <3>1, <3>2 DEF Last, Relaying
  <2>2. CASE agent.pc \notin {"close", "closed"}
             /\ (f \in Statuses => agent'.pc \in {"close", "closed"})
    <3>1. ~Has(got) /\ ~Has(s2c) /\ ~Has(n2s)
      BY <1>n, <2>2
    <3>2. (Has(n2s') => f \in Statuses) /\ Tidy(n2s')
      BY <1>a, <1>f, <3>1, Appended
    <3> QED
      BY <1>0, <1>a, <2>2, <3>1, <3>2 DEF Last, Relaying
  <2> QED
    BY <1>a, <2>1, <2>2
<1>1. CASE Narrows
  <2>1. got' = got /\ (client' = "open" => client = "open")
        /\ (Relaying' => Relaying /\ n2s' = n2s /\ s2c' = s2c)
    BY <1>1 DEF Narrows, Relaying
  <2>2. agent.pc \in {"close", "closed"} => agent'.pc \in {"close", "closed"}
    BY <1>1 DEF Narrows, AgentIs
  <2>3. /\ Has(s2c') => Has(s2c)
        /\ client' = "open" => (Tidy(s2c) => Tidy(s2c')) /\ (OnlyClose(s2c) => OnlyClose(s2c'))
    <3>1. s2c' = s2c \/ (s2c' = << >> /\ client' # "open") \/ s2c' = Append(s2c, Close)
      BY <1>1 DEF Narrows
    <3>2. /\ Has(Append(s2c, Close)) => Has(s2c)
          /\ Tidy(s2c) => Tidy(Append(s2c, Close))
          /\ OnlyClose(s2c) => OnlyClose(Append(s2c, Close))
      BY <1>f, <1>g, Appended
    <3> QED
      BY <3>1, <3>2, Empty
  <2>4. Has(n2s') => Has(n2s)
    <3>1. \/ n2s' = n2s \/ n2s' = << >> \/ (n2s # << >> /\ n2s' = Tail(n2s))
      BY <1>1 DEF Narrows
    <3>2. n2s # << >> => (Has(Tail(n2s)) => Has(n2s))
      BY <1>f, Taken
    <3> QED
      BY <3>1, <3>2, Empty
  <2> QED
    BY <1>0, <2>1, <2>2, <2>3, <2>4 DEF Last, Relaying
<1>2. ASSUME NEW asked, NEW ok, Request(asked, ok)
      PROVE  Last'
  <2>1. s2c = << >> /\ n2s = << >> /\ agent.pc = "idle" /\ server'.pc # "relay"
    BY <1>0, <1>2, Moves DEF Request, IInv, Fresh
  <2>2. got' = got /\ s2c' = s2c /\ n2s' = n2s /\ agent' = agent
    BY <1>2 DEF Request
  <2> QED
    BY <1>0, <2>1, <2>2, Empty DEF Last, Relaying
<1>3. CASE Connect
  <2>1. s2c = << >> /\ n2s = << >> /\ agent.pc = "idle"
    BY <1>0, <1>3 DEF Connect, IInv, Fresh
  <2>2. got' = got /\ s2c' = s2c /\ n2s' = n2s /\ client' = client
    BY <1>3 DEF Connect, ends
  <2>3. ~Has(got)
    BY <1>n, <2>1
  <2> QED
    BY <1>0, <2>1, <2>2, <2>3, Empty DEF Last, Relaying
<1>4. CASE ConnectErr
  <2>1. server'.pc = "closed" /\ got' = got /\ n2s' = n2s /\ agent' = agent /\ client' = client
    BY <1>0, <1>4, Moves DEF ConnectErr, ends
  <2>2. ~Has(got) /\ ~Has(n2s)
    BY <1>4, <1>n DEF ConnectErr, IInv, Fresh
  <2>3. ~Has(s2c') /\ Tidy(s2c')
    BY <1>4, ErrorFrames, Empty DEF ConnectErr
  <2> QED
    BY <1>0, <2>1, <2>2, <2>3 DEF Last, Relaying
<1>5. CASE ClientRead
  <2> DEFINE f == Head(s2c)
  <2>1. client = "open" /\ s2c # << >> /\ s2c' = Tail(s2c) /\ got' = Append(got, f) /\ n2s' = n2s
        /\ server' = server /\ agent' = agent
    BY <1>5 DEF ClientRead, process
  <2>2. /\ f \in Frames
        /\ Has(Tail(s2c)) \/ f \in Statuses => Has(s2c)
        /\ Tidy(s2c) => Tidy(Tail(s2c)) /\ (f \in Statuses => OnlyClose(Tail(s2c)))
        /\ OnlyClose(s2c) => OnlyClose(Tail(s2c)) /\ f = Close
    BY <1>f, <2>1, Taken
  <2>3. /\ Has(Append(got, f)) <=> Has(got) \/ f \in Statuses
        /\ ~Has(got) => Tidy(Append(got, f))
        /\ Tidy(got) => Tidy(Append(got, Close))
    BY <1>f, <2>2, Appended
  <2> HIDE DEF f
  <2>4. Tidy(s2c) /\ Tidy(got) /\ (Has(got) => OnlyClose(s2c))
    BY <1>0, <2>1 DEF Last
  <2>5. Tidy(got')
    BY <2>1, <2>2, <2>3, <2>4
  <2>6. Tidy(s2c') /\ (Has(got') => OnlyClose(s2c'))
    BY <2>1, <2>2, <2>3, <2>4
  <2>7. Has(got') \/ Has(s2c') => Has(got) \/ Has(s2c)
    BY <2>1, <2>2, <2>3
  <2>8. Relaying' => Relaying
    BY <2>1 DEF Relaying
  <2> QED
    BY <1>0, <2>1, <2>5, <2>6, <2>7, <2>8 DEF Last
<1>6. CASE ServerDown
  <2> DEFINE f == Head(n2s)
  <2>1. Relaying /\ n2s # << >> /\ f # Close /\ n2s' = Tail(n2s) /\ got' = got
        /\ (s2c' = s2c \/ s2c' = Append(s2c, f)) /\ server' = server /\ agent' = agent
        /\ client' = client
    BY <1>6 DEF ServerDown, ends, Relaying
  <2>2. /\ f \in Frames
        /\ Has(Tail(n2s)) \/ f \in Statuses => Has(n2s)
        /\ Tidy(n2s) => Tidy(Tail(n2s)) /\ (f \in Statuses => OnlyClose(Tail(n2s)))
        /\ OnlyClose(n2s) => OnlyClose(Tail(n2s)) /\ f = Close
    BY <1>f, <2>1, Taken
  <2>3. /\ Has(Append(s2c, f)) <=> Has(s2c) \/ f \in Statuses
        /\ ~Has(s2c) => Tidy(Append(s2c, f))
    BY <1>f, <2>2, Appended
  <2> HIDE DEF f
  <2>4. Tidy(n2s) /\ Tidy(s2c) /\ ~Has(got) /\ ~Has(s2c)
    BY <1>0, <2>1, <2>2 DEF Last, Relaying
  <2>5. Tidy(s2c')
    BY <2>1, <2>3, <2>4
  <2>6. Tidy(n2s') /\ (Has(s2c') => OnlyClose(n2s'))
    BY <2>1, <2>2, <2>3, <2>4
  <2>7. Has(s2c') \/ Has(n2s') => Has(n2s)
    BY <2>1, <2>2, <2>3, <2>4
  <2> QED
    BY <1>0, <2>1, <2>4, <2>5, <2>6, <2>7 DEF Last
<1>7. CASE AgentStart
  BY <1>7, <1>s DEF AgentStart, ends, relay
<1>8. CASE AgentStartErr
  <2>1. agent.pc = "start" /\ agent'.pc = "closed"
    BY <1>0, <1>8, Moves DEF AgentStartErr, AgentIs
  <2>2. ~Has(got) /\ ~Has(s2c)
    BY <1>n, <2>1
  <2>3. n2s' = n2s \/ (~Has(n2s') /\ Tidy(n2s'))
    BY <1>8, ErrorFrames DEF AgentStartErr
  <2>4. got' = got /\ s2c' = s2c /\ client' = client /\ server' = server
    BY <1>8 DEF AgentStartErr, ends
  <2> QED
    BY <1>0, <2>1, <2>2, <2>3, <2>4 DEF Last, Relaying
<1>9. ASSUME NEW s \in AllStreams, AgentPump(s)
      PROVE  Last'
  <2>1. agent.pc = "pump" /\ got' = got /\ s2c' = s2c /\ client' = client /\ server' = server
    BY <1>9 DEF AgentPump, ends
  <2>2. CASE server.pc = "closed"
    <3>1. n2s' = n2s
      BY <1>9, <2>2 DEF AgentPump
    <3> QED
      BY <1>s, <2>1, <3>1
  <2>3. CASE server.pc # "closed"
    <3>1. agent' = agent /\ n2s' = Append(n2s, Head(pipe[s]))
      BY <1>9, <2>3 DEF AgentPump
    <3>2. pipe[s] \in Seq(Chunks) /\ pipe[s] # << >>
      BY <1>0, <1>9 DEF AgentPump, TypeOK
    <3>3. Head(pipe[s]) \in Chunks
      BY <3>2
    <3>4. Head(pipe[s]) \in Frames /\ Head(pipe[s]) \notin Statuses
      BY <3>3, FrameFacts
    <3> QED
      BY <1>a, <2>1, <3>1, <3>4
  <2> QED
    BY <2>2, <2>3
<1>10. CASE AgentOutEnd
  BY <1>10, <1>s DEF AgentOutEnd, ends, relay
<1>11. CASE AgentOutErr
  BY <1>11, <1>s DEF AgentOutErr, ends, relay
<1>12. CASE AgentCode
  BY <1>12, <1>s DEF AgentCode, ends, relay
<1>13. CASE AgentNoCode
  BY <1>13, <1>s DEF AgentNoCode, ends, relay
<1>14. CASE AgentStatus
  <2>1. agent.pc = "status" /\ agent'.pc = "close" /\ got' = got /\ s2c' = s2c
        /\ client' = client /\ server' = server
    BY <1>0, <1>14, Moves DEF AgentStatus, AgentIs, ends
  <2>2. agent.status \in Frames
    BY <1>0, FrameFacts DEF TypeOK, Agents
  <2>3. n2s' = n2s \/ n2s' = Append(n2s, agent.status)
    BY <1>14 DEF AgentStatus
  <2> QED
    BY <1>a, <1>s, <2>1, <2>2, <2>3
<1>15. CASE AgentClose
  <2>1. agent'.pc = "closed" /\ got' = got /\ s2c' = s2c /\ client' = client /\ server' = server
    BY <1>0, <1>15, Moves DEF AgentClose, AgentIs, ends
  <2>2. n2s' = n2s \/ n2s' = Append(n2s, Close)
    BY <1>15 DEF AgentClose
  <2> QED
    BY <1>a, <1>g, <1>s, <2>1, <2>2
<1>16. ASSUME NEW s \in AllStreams, ProcWrite(s)
       PROVE  Last'
  BY <1>16, <1>s DEF ProcWrite, ends, relay
<1> QED
  BY <1>0, <1>1, <1>2, <1>3, <1>4, <1>5, <1>6, <1>7, <1>8, <1>9, <1>10, <1>11, <1>12, <1>13,
     <1>14, <1>15, <1>16, Steps
-----------------------------------------------------------------------------
LEMMA OwnStep ==
    ASSUME IInv, [Next]_vars
    PROVE  Own'
<1>0. TypeOK /\ Own
  BY DEF IInv
<1>s. ASSUME pipe' = pipe
      PROVE  Own'
  BY <1>0, <1>s DEF Own
<1>e. ASSUME pipe' = [s \in AllStreams |-> << >>]
      PROVE  Own'
  BY <1>e DEF Own
<1>1. ASSUME NEW s \in AllStreams, AgentPump(s)
      PROVE  Own'
  <2>1. pipe[s] \in Seq(Chunks) /\ pipe[s] # << >> /\ pipe' = [pipe EXCEPT ![s] = Tail(@)]
        /\ pipe \in [AllStreams -> Seq(Chunks)]
    BY <1>0, <1>1 DEF AgentPump, TypeOK
  <2>2. \A i \in DOMAIN Tail(pipe[s]) : Tail(pipe[s])[i] = pipe[s][i + 1] /\ i + 1 \in DOMAIN pipe[s]
    BY <2>1
  <2> QED
    BY <1>0, <2>1, <2>2 DEF Own
<1>2. ASSUME NEW s \in AllStreams, ProcWrite(s)
      PROVE  Own'
  <2> DEFINE f == <<s, wrote[s] + 1>>
  <2>1. pipe[s] \in Seq(Chunks) /\ pipe' = [pipe EXCEPT ![s] = Append(@, f)]
        /\ pipe \in [AllStreams -> Seq(Chunks)] /\ f[1] = s
    BY <1>0, <1>2 DEF ProcWrite, TypeOK
  <2> HIDE DEF f
  <2>2. \A i \in DOMAIN Append(pipe[s], f) :
          \/ i \in DOMAIN pipe[s] /\ Append(pipe[s], f)[i] = pipe[s][i]
          \/ Append(pipe[s], f)[i] = f
    BY <2>1
  <2> QED
    BY <1>0, <2>1, <2>2 DEF Own
<1>3. Connect \/ ConnectErr \/ ClientStep \/ UpStep \/ DownStep => pipe' = pipe
  BY DEF Connect, ConnectErr, ClientStep, ClientRead, ClientCut, UpStep, ServerUp, ServerUpErr,
         ServerUpClose, ServerUpEof, DownStep, ServerDown, ServerDownErr, ServerDownClose,
         ServerDownEof, relay, process
<1>4. AgentStart \/ AgentStartErr \/ AgentOutEnd \/ AgentOutErr \/ AgentCode \/ AgentNoCode
      \/ AgentStatus => pipe' = pipe
  BY DEF AgentStart, AgentStartErr, AgentOutEnd, AgentOutErr, AgentCode, AgentNoCode,
         AgentStatus, process
<1>5. AgentClose \/ AgentInErr \/ AgentInClose => pipe' = [s \in AllStreams |-> << >>]
  BY DEF AgentClose, AgentInErr, AgentInClose, EndSession
<1>6. AgentIn \/ AgentInLost \/ ClientType \/ ClientLeave(<<Close>>) \/ ClientLeave(<< >>) => pipe' = pipe
  BY DEF AgentIn, AgentInLost, ClientType, ClientLeave, process
<1>7. Reap \/ ProcRead \/ ProcClose \/ ContainerStop => pipe' = pipe
  BY DEF Reap, ProcRead, ProcClose, ContainerStop
<1>8. \A c \in {0, 1} : ProcExit(c) => pipe' = pipe
  BY DEF ProcExit
<1>9. \A asked, ok : Request(asked, ok) => pipe' = pipe
  BY DEF Request, process
<1>10. UNCHANGED vars => pipe' = pipe
  BY DEF vars, process
<1> QED
  BY <1>s, <1>e, <1>1, <1>2, <1>3, <1>4, <1>5, <1>6, <1>7, <1>8, <1>9, <1>10
     DEF Next, Setup, OutStep, InStep
-----------------------------------------------------------------------------
(***************************************************************************)
(* No chunk is lost, overtaken or doubled between the process and a client *)
(* that stays, and none is behind a status.                                *)
(***************************************************************************)
LEMMA BalancedStep ==
    ASSUME IInv, [Next]_vars
    PROVE  Balanced'
<1>0. TypeOK /\ Own /\ Fresh /\ Drained /\ Last /\ Balanced
  BY DEF IInv
<1>f. got \in Seq(Frames) /\ s2c \in Seq(Frames) /\ n2s \in Seq(Frames)
  BY <1>0 DEF TypeOK
<1>g. Close \in Frames /\ Close \notin Statuses /\ \A r \in AllStreams : Close[1] # r
  BY FrameFacts
<1> SUFFICES ASSUME NEW s \in AllStreams
             PROVE  \E a, b, c \in 0 .. wrote'[s] : Ledger(s, a, b, c)'
  BY DEF Balanced
<1>w. wrote[s] \in Nat
  BY <1>0, SizeFacts DEF TypeOK
<1>p. pipe[s] \in Seq(Frames)
  <2>1. pipe[s] \in Seq(Chunks) /\ Chunks \subseteq Frames
    BY <1>0, FrameFacts DEF TypeOK
  <2> QED
    BY <2>1
<1>l. PICK a \in 0 .. wrote[s], b \in 0 .. wrote[s], c \in 0 .. wrote[s] : Ledger(s, a, b, c)
  BY <1>0 DEF Balanced
<1>m. a \in Nat /\ b \in Nat /\ c \in Nat
  BY <1>l, <1>w
<1>n. ASSUME agent.pc \notin {"close", "closed"}
      PROVE  ~Has(got) /\ ~Has(s2c) /\ ~Has(n2s)
  BY <1>0, <1>n DEF Last
<1>z. \* Nothing is written yet.
      ASSUME wrote[s] = 0, wrote' = wrote, got' = got,
             client' = "open" => Carries(s2c', s, 0, 0),
             Relaying' => Carries(n2s', s, 0, 0),
             Relaying' /\ agent'.pc = "pump" => Carries(pipe'[s], s, 0, 0)
      PROVE  \E x, y, z \in 0 .. wrote'[s] : Ledger(s, x, y, z)'
  <2>1. a = 0 /\ 0 \in 0 .. wrote'[s] /\ wrote'[s] = 0
    BY <1>l, <1>z
  <2>2. Ledger(s, 0, 0, 0)'
    BY <1>l, <1>z, <2>1 DEF Ledger
  <2> QED
    BY <2>1, <2>2
<1>k. \* The agent moves on, and what is on its way does not.
      ASSUME wrote' = wrote, got' = got, s2c' = s2c, n2s' = n2s, client' = client,
             server' = server, kind' = kind, agent'.pc # "pump",
             agent'.blind \/ (agent'.blind = agent.blind
                               /\ (agent'.pc \in Ending => agent.pc \in Ending))
      PROVE  \E x, y, z \in 0 .. wrote'[s] : Ledger(s, x, y, z)'
  <2>1. Ledger(s, a, b, c)'
    BY <1>l, <1>k DEF Ledger, Relaying
  <2> QED
    BY <1>k, <1>l, <2>1
<1>1. CASE Narrows
  <2>1. got' = got /\ wrote' = wrote /\ kind' = kind /\ (client' = "open" => client = "open")
        /\ (Relaying' => Relaying /\ n2s' = n2s)
    BY <1>1 DEF Narrows, Relaying
  <2>2. client' = "open" => (Has(s2c') => Has(s2c))
    <3>1. client' = "open" => s2c' = s2c \/ s2c' = Append(s2c, Close)
      BY <1>1 DEF Narrows
    <3>2. Has(Append(s2c, Close)) => Has(s2c)
      BY <1>f, <1>g, Appended
    <3> QED
      BY <3>1, <3>2
  <2>3. client' = "open" => Carries(s2c', s, a, b)
    <3>1. client' = "open" => s2c' = s2c \/ s2c' = Append(s2c, Close)
      BY <1>1 DEF Narrows
    <3>2. client = "open" => Carries(s2c, s, a, b) /\ Carries(Append(s2c, Close), s, a, b)
      BY <1>f, <1>g, <1>l, <1>m, AppendOther DEF Ledger
    <3> QED
      BY <2>1, <3>1, <3>2
  <2>4. agent'.blind = agent.blind /\ (agent'.pc = "pump" => agent.pc = "pump" /\ pipe' = pipe)
        /\ (agent'.pc \in Ending => agent.pc \in Ending)
    BY <1>1 DEF Narrows, AgentIs, Ending
  <2>5. Ledger(s, a, b, c)'
    BY <1>l, <2>1, <2>2, <2>3, <2>4 DEF Ledger
  <2> QED
    BY <1>l, <2>1, <2>5
<1>2. ASSUME NEW asked, NEW ok, Request(asked, ok)
      PROVE  \E x, y, z \in 0 .. wrote'[s] : Ledger(s, x, y, z)'
  <2>1. s2c = << >> /\ wrote[s] = 0 /\ server'.pc # "relay"
    BY <1>0, <1>2, Moves DEF Request, Fresh
  <2>2. wrote' = wrote /\ got' = got /\ s2c' = s2c /\ ~Relaying'
    BY <1>2, <2>1 DEF Request, Relaying, process
  <2>3. Carries(s2c', s, 0, 0)
    BY <2>1, <2>2, CarriesNothing
  <2> QED
    BY <1>z, <2>1, <2>2, <2>3
<1>3. CASE Connect
  <2>1. s2c = << >> /\ n2s = << >> /\ wrote[s] = 0 /\ agent'.pc = "start"
    BY <1>0, <1>3, Moves DEF Connect, Fresh, AgentIs
  <2>2. wrote' = wrote /\ got' = got /\ s2c' = s2c /\ n2s' = n2s
    BY <1>3 DEF Connect, ends, process
  <2> QED
    BY <1>z, <2>1, <2>2, CarriesNothing
<1>4. CASE ConnectErr
  <2>1. wrote[s] = 0 /\ ~Relaying' /\ wrote' = wrote /\ got' = got
    BY <1>0, <1>4, Moves DEF ConnectErr, Fresh, Relaying, ends, process
  <2>2. Carries(s2c', s, 0, 0)
    BY <1>4, ErrorFrames, CarriesNothing DEF ConnectErr
  <2> QED
    BY <1>z, <2>1, <2>2
<1>5. CASE ClientRead
  <2> DEFINE f == Head(s2c)
  <2>1. client = "open" /\ s2c # << >> /\ s2c' = Tail(s2c) /\ got' = Append(got, f) /\ n2s' = n2s
        /\ server' = server /\ agent' = agent /\ wrote' = wrote /\ pipe' = pipe /\ kind' = kind
    BY <1>5 DEF ClientRead, process
  <2>2. f \in Frames /\ Tail(s2c) \in Seq(Frames) /\ (Has(Tail(s2c)) \/ f \in Statuses => Has(s2c))
        /\ (Tidy(s2c) /\ f \in Statuses => OnlyClose(Tail(s2c)))
    BY <1>f, <2>1, Taken
  <2>3. Has(Append(got, f)) <=> Has(got) \/ f \in Statuses
    BY <1>f, <2>2, Appended
  <2>4. Carries(got, s, 0, a) /\ Carries(s2c, s, a, b) /\ Tidy(s2c)
    BY <1>0, <1>l, <2>1 DEF Ledger, Last
  <2>5. Relaying' => Relaying
    BY <2>1 DEF Relaying
  <2>6. CASE f[1] = s
    <3>1. f = <<s, a + 1>> /\ a + 1 <= b /\ Carries(Tail(s2c), s, a + 1, b)
      BY <1>f, <1>m, <2>1, <2>4, <2>6, TailNext
    <3>2. Carries(Append(got, <<s, a + 1>>), s, 0, a + 1)
      BY <1>f, <1>m, <2>4, AppendNext
    <3>3. f \notin Statuses
      BY <2>6, FrameFacts
    <3>4. a + 1 \in 0 .. wrote[s] /\ a # wrote[s]
      BY <1>l, <1>m, <1>w, <3>1
    <3> HIDE DEF f
    <3>5. Ledger(s, a + 1, b, c)'
      BY <1>l, <2>1, <2>2, <2>3, <2>5, <3>1, <3>2, <3>3, <3>4 DEF Ledger
    <3> QED
      BY <1>l, <2>1, <3>4, <3>5
  <2>7. CASE f[1] # s
    <3>1. Carries(Tail(s2c), s, a, b)
      BY <1>f, <1>m, <2>1, <2>4, <2>7, TailOther
    <3>2. Carries(Append(got, f), s, 0, a)
      BY <1>f, <1>m, <2>2, <2>4, <2>7, AppendOther
    <3>3. f \in Statuses => a = b
      <4>1. OnlyClose(Tail(s2c)) => \A i \in DOMAIN Tail(s2c) : Tail(s2c)[i][1] # s
        BY <1>g DEF OnlyClose
      <4> QED
        BY <1>m, <2>2, <2>4, <3>1, <4>1, CarriesNone
    <3> HIDE DEF f
    <3>4. Ledger(s, a, b, c)'
      BY <1>l, <2>1, <2>2, <2>3, <2>5, <3>1, <3>2, <3>3 DEF Ledger
    <3> QED
      BY <1>l, <2>1, <3>4
  <2> QED
    BY <2>6, <2>7
<1>6. CASE ServerDown
  <2> DEFINE f == Head(n2s)
  <2>1. Relaying /\ n2s # << >> /\ f # Close /\ n2s' = Tail(n2s) /\ got' = got /\ wrote' = wrote
        /\ (s2c' = Append(s2c, f) \/ (f = Error /\ s2c' = s2c)) /\ server' = server
        /\ agent' = agent /\ client' = client /\ pipe' = pipe /\ kind' = kind /\ client = "open"
    BY <1>6 DEF ServerDown, ends, process, Relaying
  <2>2. f \in Frames /\ Tail(n2s) \in Seq(Frames) /\ (Has(Tail(n2s)) \/ f \in Statuses => Has(n2s))
        /\ (Tidy(n2s) /\ f \in Statuses => OnlyClose(Tail(n2s)))
    BY <1>f, <2>1, Taken
  <2>3. Has(Append(s2c, f)) <=> Has(s2c) \/ f \in Statuses
    BY <1>f, <2>2, Appended
  <2>4. Carries(s2c, s, a, b) /\ Carries(n2s, s, b, c) /\ Tidy(n2s)
    BY <1>0, <1>l, <2>1 DEF Ledger, Last
  <2>5. CASE f[1] = s
    <3>1. f = <<s, b + 1>> /\ b + 1 <= c /\ Carries(Tail(n2s), s, b + 1, c)
      BY <1>f, <1>m, <2>1, <2>4, <2>5, TailNext
    <3>2. Carries(Append(s2c, <<s, b + 1>>), s, a, b + 1)
      BY <1>f, <1>m, <2>4, AppendNext
    <3>3. f \notin Statuses /\ f # Error
      BY <2>5, FrameFacts
    <3>4. b + 1 \in 0 .. wrote[s] /\ b # wrote[s]
      BY <1>l, <1>m, <1>w, <3>1
    <3> HIDE DEF f
    <3>5. Ledger(s, a, b + 1, c)'
      BY <1>l, <2>1, <2>2, <2>3, <3>1, <3>2, <3>3, <3>4 DEF Ledger, Relaying
    <3> QED
      BY <1>l, <2>1, <3>4, <3>5
  <2>6. CASE f[1] # s
    <3>1. Carries(Tail(n2s), s, b, c)
      BY <1>f, <1>m, <2>1, <2>4, <2>6, TailOther
    <3>2. Carries(Append(s2c, f), s, a, b)
      BY <1>f, <1>m, <2>2, <2>4, <2>6, AppendOther
    <3>3. f \in Statuses => b = c
      <4>1. OnlyClose(Tail(n2s)) => \A i \in DOMAIN Tail(n2s) : Tail(n2s)[i][1] # s
        BY <1>g DEF OnlyClose
      <4> QED
        BY <1>m, <2>2, <2>4, <3>1, <4>1, CarriesNone
    <3> HIDE DEF f
    <3>4. Ledger(s, a, b, c)'
      BY <1>l, <2>1, <2>2, <2>3, <2>4, <3>1, <3>2, <3>3 DEF Ledger, Relaying
    <3> QED
      BY <1>l, <2>1, <3>4
  <2> QED
    BY <2>5, <2>6
<1>7. CASE AgentStart
  <2>1. wrote[s] = 0 /\ n2s = << >> /\ pipe[s] = << >>
    BY <1>0, <1>7 DEF AgentStart, Fresh
  <2>2. wrote' = wrote /\ got' = got /\ s2c' = s2c /\ n2s' = n2s /\ client' = client /\ pipe' = pipe
    BY <1>7 DEF AgentStart, ends, relay
  <2>3. a = 0 /\ b = 0
    BY <1>l, <2>1
  <2>4. client = "open" => Carries(s2c, s, 0, 0)
    BY <1>l, <2>3 DEF Ledger
  <2> QED
    BY <1>z, <2>1, <2>2, <2>4, CarriesNothing
<1>8. CASE AgentStartErr
  <2>1. wrote[s] = 0 /\ agent'.pc = "closed"
    BY <1>0, <1>8, Moves DEF AgentStartErr, Fresh, AgentIs
  <2>2. wrote' = wrote /\ got' = got /\ s2c' = s2c /\ client' = client
    BY <1>8 DEF AgentStartErr, ends, process
  <2>3. a = 0 /\ b = 0
    BY <1>l, <2>1
  <2>4. client = "open" => Carries(s2c, s, 0, 0)
    BY <1>l, <2>3 DEF Ledger
  <2>5. Relaying' => Carries(n2s', s, 0, 0)
    BY <1>8, ErrorFrames DEF AgentStartErr, Relaying
  <2> QED
    BY <1>z, <2>1, <2>2, <2>4, <2>5
<1>9. ASSUME NEW t \in AllStreams, AgentPump(t)
      PROVE  \E x, y, z \in 0 .. wrote'[s] : Ledger(s, x, y, z)'
  <2>1. agent.pc = "pump" /\ got' = got /\ s2c' = s2c /\ client' = client /\ server' = server
        /\ wrote' = wrote /\ kind' = kind /\ pipe[t] # << >> /\ pipe' = [pipe EXCEPT ![t] = Tail(@)]
    BY <1>9 DEF AgentPump, ends
  <2>2. CASE server.pc = "closed"
    <3>1. n2s' = n2s /\ agent'.blind /\ agent'.pc # "pump"
      BY <1>0, <1>9, <2>2, Moves DEF AgentPump, Ending
    <3> QED
      BY <1>k, <2>1, <3>1
  <2>3. CASE server.pc # "closed"
    <3>1. agent' = agent /\ n2s' = Append(n2s, Head(pipe[t]))
      BY <1>9, <2>3 DEF AgentPump
    <3>2. ~Has(got) /\ ~Has(s2c) /\ ~Has(n2s)
      BY <1>n, <2>1
    <3>3. pipe[t] \in Seq(Chunks) /\ pipe \in [AllStreams -> Seq(Chunks)]
      BY <1>0 DEF TypeOK
    <3>4. Head(pipe[t]) \in Chunks /\ Head(pipe[t]) = pipe[t][1] /\ 1 \in DOMAIN pipe[t]
      BY <2>1, <3>3
    <3>5. Head(pipe[t]) \in Frames /\ Head(pipe[t]) \notin Statuses /\ Head(pipe[t])[1] = t
      BY <1>0, <3>4, FrameFacts DEF Own
    <3>6. ~Has(n2s')
      BY <1>f, <3>1, <3>2, <3>5, Appended
    <3>7. CASE ~Relaying
      <4>1. ~Relaying'
        BY <2>1, <3>7 DEF Relaying
      <4>2. Ledger(s, a, b, c)'
        BY <1>l, <2>1, <3>1, <4>1 DEF Ledger
      <4> QED
        BY <1>l, <2>1, <4>2
    <3>8. CASE Relaying /\ t = s
      <4>1. Carries(n2s, s, b, c) /\ Carries(pipe[s], s, c, wrote[s])
        BY <1>l, <2>1, <3>8 DEF Ledger
      <4>2. /\ Head(pipe[s]) = <<s, c + 1>> /\ c + 1 <= wrote[s]
            /\ Carries(Tail(pipe[s]), s, c + 1, wrote[s])
        BY <1>p, <1>m, <1>w, <2>1, <3>5, <3>8, <4>1, TailNext
      <4>3. Carries(Append(n2s, <<s, c + 1>>), s, b, c + 1)
        BY <1>f, <1>m, <4>1, AppendNext
      <4>4. pipe'[s] = Tail(pipe[s]) /\ c + 1 \in 0 .. wrote[s]
        BY <1>m, <1>w, <2>1, <3>3, <3>8, <4>2
      <4>5. Ledger(s, a, b, c + 1)'
        BY <1>l, <2>1, <3>1, <3>2, <3>6, <3>8, <4>2, <4>3, <4>4 DEF Ledger, Ending
      <4> QED
        BY <1>l, <2>1, <4>4, <4>5
    <3>9. CASE Relaying /\ t # s
      <4>1. Carries(n2s, s, b, c)
        BY <1>l, <3>9 DEF Ledger
      <4>2. Carries(Append(n2s, Head(pipe[t])), s, b, c)
        BY <1>f, <1>m, <3>5, <3>9, <4>1, AppendOther
      <4>3. pipe'[s] = pipe[s]
        BY <2>1, <3>3, <3>9
      <4>4. Ledger(s, a, b, c)'
        BY <1>l, <2>1, <3>1, <3>2, <3>6, <3>9, <4>2, <4>3 DEF Ledger, Ending
      <4> QED
        BY <1>l, <2>1, <4>4
    <3> QED
      BY <3>7, <3>8, <3>9
  <2> QED
    BY <2>2, <2>3
<1>10. CASE AgentOutEnd
  <2>1. wrote' = wrote /\ got' = got /\ s2c' = s2c /\ n2s' = n2s /\ client' = client
        /\ server' = server /\ kind' = kind /\ agent.pc = "pump"
    BY <1>10 DEF AgentOutEnd, ends, relay, process
  <2>2. agent'.pc # "pump" /\ agent'.blind = agent.blind
    BY <1>0, <1>10, Moves DEF AgentIs
  <2>3. Relaying /\ s \in kind.streams => c = wrote[s]
    <3>1. s \in kind.streams => pipe[s] = << >>
      BY <1>10 DEF AgentOutEnd, ReadersDone
    <3>2. Relaying => Carries(pipe[s], s, c, wrote[s])
      BY <1>l, <2>1 DEF Ledger
    <3> QED
      BY <1>m, <1>w, <3>1, <3>2, CarriesNothing
  <2>4. Ledger(s, a, b, c)'
    BY <1>l, <2>1, <2>2, <2>3 DEF Ledger, Relaying
  <2> QED
    BY <1>l, <2>1, <2>4
<1>11. CASE AgentOutErr
  <2>1. agent'.pc # "pump" /\ agent'.blind
    BY <1>0, <1>11, Moves
  <2>2. wrote' = wrote /\ got' = got /\ s2c' = s2c /\ n2s' = n2s /\ client' = client
        /\ server' = server /\ kind' = kind
    BY <1>11 DEF AgentOutErr, ends, relay, process
  <2> QED
    BY <1>k, <2>1, <2>2
<1>12. CASE AgentCode
  <2>1. agent'.pc = "status" /\ agent'.blind = agent.blind /\ agent.pc \in Ending
    BY <1>0, <1>12, Moves DEF AgentCode, Ending
  <2>2. wrote' = wrote /\ got' = got /\ s2c' = s2c /\ n2s' = n2s /\ client' = client
        /\ server' = server /\ kind' = kind
    BY <1>12 DEF AgentCode, ends, relay, process
  <2> QED
    BY <1>k, <2>1, <2>2
<1>13. CASE AgentNoCode
  <2>1. agent'.pc # "pump" /\ agent'.blind
    BY <1>0, <1>13, Moves
  <2>2. wrote' = wrote /\ got' = got /\ s2c' = s2c /\ n2s' = n2s /\ client' = client
        /\ server' = server /\ kind' = kind
    BY <1>13 DEF AgentNoCode, ends, relay, process
  <2> QED
    BY <1>k, <2>1, <2>2
<1>14. CASE AgentStatus
  <2>1. wrote' = wrote /\ got' = got /\ s2c' = s2c /\ client' = client
        /\ server' = server /\ kind' = kind /\ agent.pc \in Ending
    BY <1>14 DEF AgentStatus, ends, process, Ending
  <2>2. agent'.pc = "close" /\ agent'.blind = agent.blind
    BY <1>0, <1>14, Moves DEF AgentIs
  <2>3. n2s' = n2s \/ n2s' = Append(n2s, agent.status)
    BY <1>14 DEF AgentStatus
  <2>4. agent.status \in Frames /\ agent.status[1] # s
    BY <1>0, FrameFacts DEF TypeOK, Agents
  <2>5. Relaying => Carries(n2s', s, b, c)
    BY <1>f, <1>l, <1>m, <2>3, <2>4, AppendOther DEF Ledger
  <2>6. Ledger(s, a, b, c)'
    BY <1>l, <2>1, <2>2, <2>5 DEF Ledger, Relaying
  <2> QED
    BY <1>l, <2>1, <2>6
<1>15. CASE AgentClose
  <2>1. wrote' = wrote /\ got' = got /\ s2c' = s2c /\ client' = client
        /\ server' = server /\ kind' = kind
    BY <1>15 DEF AgentClose, ends
  <2>2. agent'.pc = "closed" /\ agent'.blind = agent.blind
    BY <1>0, <1>15, Moves DEF AgentIs
  <2>3. n2s' = n2s \/ n2s' = Append(n2s, Close)
    BY <1>15 DEF AgentClose
  <2>4. Relaying => Carries(n2s', s, b, c)
    BY <1>f, <1>g, <1>l, <1>m, <2>3, AppendOther DEF Ledger
  <2>5. Has(n2s') => Has(n2s)
    BY <1>f, <1>g, <2>3, Appended
  <2>6. Ledger(s, a, b, c)'
    BY <1>l, <2>1, <2>2, <2>4, <2>5 DEF Ledger, Relaying, Ending
  <2> QED
    BY <1>l, <2>1, <2>6
<1>16. ASSUME NEW t \in AllStreams, ProcWrite(t)
       PROVE  \E x, y, z \in 0 .. wrote'[s] : Ledger(s, x, y, z)'
  <2>1. got' = got /\ s2c' = s2c /\ n2s' = n2s /\ client' = client /\ server' = server
        /\ kind' = kind /\ agent' = agent /\ InSession /\ t \in proc.outs
        /\ wrote' = [wrote EXCEPT ![t] = @ + 1]
        /\ pipe' = [pipe EXCEPT ![t] = Append(@, <<t, wrote[t] + 1>>)]
    BY <1>16 DEF ProcWrite, ends, relay
  <2>2. wrote \in [AllStreams -> 0 .. MaxOut] /\ pipe \in [AllStreams -> Seq(Chunks)]
    BY <1>0 DEF TypeOK
  <2>3. CASE t # s
    <3>1. wrote'[s] = wrote[s] /\ pipe'[s] = pipe[s]
      BY <2>1, <2>2, <2>3
    <3>2. Ledger(s, a, b, c)'
      BY <1>l, <2>1, <3>1 DEF Ledger, Relaying
    <3> QED
      BY <1>l, <3>1, <3>2
  <2>4. CASE t = s
    <3>1. wrote'[s] = wrote[s] + 1 /\ pipe'[s] = Append(pipe[s], <<s, wrote[s] + 1>>)
      BY <2>1, <2>2, <2>4
    <3>2. a \in 0 .. wrote'[s] /\ b \in 0 .. wrote'[s] /\ c \in 0 .. wrote'[s]
      BY <1>l, <1>w, <3>1
    <3>3. ~agent.blind /\ s \in kind.streams => agent.pc = "pump"
      BY <1>0, <2>1, <2>4 DEF Drained, Ending, InSession
    <3>4. ~agent.blind /\ s \in kind.streams => ~Has(got) /\ ~Has(s2c) /\ ~Has(n2s)
      BY <1>n, <3>3
    <3>5. Carries(pipe[s], s, c, wrote[s]) => Carries(pipe'[s], s, c, wrote'[s])
      BY <1>m, <1>p, <1>w, <3>1, AppendNext
    <3>6. Ledger(s, a, b, c)'
      BY <1>l, <2>1, <3>3, <3>4, <3>5 DEF Ledger, Relaying, Ending
    <3> QED
      BY <3>2, <3>6
  <2> QED
    BY <2>3, <2>4
<1> QED
  BY <1>0, <1>1, <1>2, <1>3, <1>4, <1>5, <1>6, <1>7, <1>8, <1>9, <1>10, <1>11, <1>12, <1>13,
     <1>14, <1>15, <1>16, Steps
-----------------------------------------------------------------------------
LEMMA NextInv == IInv /\ [Next]_vars => IInv'
BY TypeStep, OwnStep, FreshStep, DrainedStep, LastStep, TruthStep, BalancedStep DEF IInv

LEMMA Invariance == Spec => []IInv
BY InitInv, NextInv, PTL DEF Spec

(* The records, queues and counters of the relay, the agent and the        *)
(* process keep their types, for every set of kinds and every size.        *)
THEOREM ExecTypeCorrect == Spec => []TypeOK
<1>1. IInv => TypeOK
  BY DEF IInv
<1> QED
  BY <1>1, Invariance, PTL

(* Whatever is told to the client about the end of a command whose exit    *)
(* code is known is true (agent.rs, the status channel).                   *)
THEOREM ExecStatusIsTrue == Spec => []StatusIsTrue
<1>1. IInv => StatusIsTrue
  BY DEF IInv, Truth, StatusIsTrue, Says, OnItsWay, In
<1> QED
  BY <1>1, Invariance, PTL

(* The client receives the output in order and without a gap, all of it    *)
(* before the status, and nothing but the close after that.                *)
THEOREM ExecOutputIsWhole == Spec => []OutputIsWhole
<1>1. IInv => OutputIsWhole
  <2> SUFFICES ASSUME IInv
               PROVE  OutputIsWhole
    OBVIOUS
  <2>1. \A s \in AllStreams : \E n \in 0 .. wrote[s] :
          /\ Carries(got, s, 0, n)
          /\ ~agent.blind /\ s \in kind.streams /\ Has(got) => n = wrote[s]
    BY DEF IInv, Balanced, Ledger
  <2>2. \A s \in AllStreams : \E n \in 0 .. wrote[s] : Carries(got, s, 0, n)
    BY <2>1
  <2>3. kind.streams \subseteq AllStreams
    BY KindFacts DEF IInv, TypeOK
  <2>4. ASSUME NEW i \in DOMAIN got, got[i] \in Statuses
        PROVE  /\ ~agent.blind => \A s \in kind.streams : Carries(got, s, 0, wrote[s])
               /\ \A j \in i + 1 .. Len(got) : got[j] = Close
    <3>1. Has(got)
      BY <2>4 DEF Has
    <3>2. \A j \in i + 1 .. Len(got) : got[j] = Close
      BY <2>4 DEF IInv, Last, Tidy
    <3> QED
      BY <2>1, <2>3, <3>1, <3>2
  <2> QED
    BY <2>2, <2>4 DEF OutputIsWhole
<1> QED
  BY <1>1, Invariance, PTL
-----------------------------------------------------------------------------
(***************************************************************************)
(* The log of a container, an instance beside the relays: its variables    *)
(* are those of LogContract and the ones below.  Nothing here rests on     *)
(* ExecRelay or on its assumption.                                         *)
(***************************************************************************)
CONSTANTS Pumps, TailOf, Mine, Capacity, ChanSize, Free, MaxLines

VARIABLES lock, sent, pump, closed, removed, recorded, at

Log == INSTANCE ContainerLog

(* The part of ContainerLogAssumption that the proofs need.                *)
LogConstants ==
    /\ Pumps \cap Followers = {} /\ Free \notin Pumps \cup Followers
    /\ Capacity \in Nat \ {0}
    /\ TailOf \in [Followers -> Nat] /\ LimitOf \in [Followers -> Nat]

(* Sequences of numbers that rise.                                         *)
Rising(s) == \A i, j \in DOMAIN s : i < j => s[i] < s[j]

(* What render_log gives: the lines of the backlog, in order.              *)
LEMMA KeptBounds ==
    ASSUME LogConstants, NEW f \in Followers, NEW a \in Nat \ {0}, NEW n \in Nat, a <= n + 1
    PROVE  Kept(f, a, n) \in Nat /\ a + Kept(f, a, n) <= n + 1
<1>1. LimitOf[f] \in Nat
  BY DEF LogConstants
<1> QED
  BY <1>1 DEF Kept

LEMMA FirstLineBounds ==
    ASSUME LogConstants, NEW f \in Followers, NEW n \in Nat
    PROVE  Log!FirstLine(f, n) \in Nat \ {0} /\ Log!FirstLine(f, n) <= n + 1
<1>1. TailOf[f] \in Nat
  BY DEF LogConstants
<1> QED
  BY <1>1 DEF Log!FirstLine

LEMMA RunElements ==
    ASSUME NEW a \in Nat, NEW k \in Nat, NEW s, s = [i \in 1 .. k |-> a + i - 1]
    PROVE  s \in Seq(Nat) /\ Rising(s) /\ Range(s) = a .. a + k - 1
<1>1. s \in [1 .. k -> Nat] /\ \A i \in 1 .. k : s[i] = a + i - 1
  OBVIOUS
<1>2. s \in Seq(Nat) /\ DOMAIN s = 1 .. k
  BY <1>1
<1>3. Rising(s)
  BY <1>1, <1>2 DEF Rising
<1>4. ASSUME NEW x \in a .. a + k - 1 PROVE x \in Range(s)
  <2>1. x - a + 1 \in 1 .. k /\ s[x - a + 1] = x
    BY <1>1
  <2> QED
    BY <1>2, <2>1 DEF Range
<1>5. ASSUME NEW x \in Range(s) PROVE x \in a .. a + k - 1
  BY <1>1, <1>2, <1>5 DEF Range
<1>6. Range(s) = a .. a + k - 1
  BY <1>4, <1>5
<1> QED
  BY <1>2, <1>3, <1>6

LEMMA RenderedLines ==
    ASSUME LogConstants, NEW f \in Followers, NEW a \in Nat \ {0}, NEW n \in Nat, a <= n + 1
    PROVE  /\ Log!Rendered(f, a, n) \in Seq(Nat) /\ Rising(Log!Rendered(f, a, n))
           /\ Range(Log!Rendered(f, a, n)) = a .. a + Kept(f, a, n) - 1
<1>1. Kept(f, a, n) \in Nat
  BY KeptBounds
<1>2. Log!Kept(f, a, n) = Kept(f, a, n)
  BY DEF Kept, Intact, Log!Kept, Log!Intact
<1>3. Log!Rendered(f, a, n) = [i \in 1 .. Kept(f, a, n) |-> a + i - 1]
  BY <1>2 DEF Log!Rendered
<1> QED
  BY <1>1, <1>3, RunElements

(* The lines of a request are in the file before it was read, and those    *)
(* it is owed from after that are beyond.                                  *)
LEMMA OwedLines ==
    ASSUME LogConstants, NEW f \in Followers, file \in Nat, upto[f] \in Nat, upto[f] <= file,
           first[f] \in Nat \ {0}, first[f] <= upto[f] + 1
    PROVE  /\ Backlog(f) \subseteq 1 .. upto[f] /\ Owed(f) \subseteq 1 .. file
           /\ \A x \in 1 .. upto[f] : x \in Owed(f) <=> x \in Backlog(f)
           /\ \A x \in upto[f] + 1 .. file : x \in Owed(f) <=> x \notin Garbled
<1>1. /\ Kept(f, first[f], upto[f]) \in Nat
      /\ first[f] + Kept(f, first[f], upto[f]) <= upto[f] + 1
  BY KeptBounds
<1>2. Backlog(f) \subseteq 1 .. upto[f]
  BY <1>1 DEF Backlog
<1> QED
  BY <1>2 DEF Owed

(* What was asked of the file, and what was in it.                         *)
Span == \A f \in Followers : first[f] <= upto[f] + 1 /\ upto[f] <= file

LEMMA LogTypeInit == Log!Init => Log!TypeOK
<1> SUFFICES ASSUME Log!Init PROVE Log!TypeOK
  OBVIOUS
<1>1. << >> \in Seq(Nat) /\ << >> \in Seq(Seq(Nat)) /\ 1 \in Nat \ {0}
  OBVIOUS
<1> QED
  BY <1>1 DEF Log!Init, Log!TypeOK

LEMMA LogTypeNext ==
    ASSUME LogConstants, Log!TypeOK, Span, [Log!Next]_(Log!vars)
    PROVE  Log!TypeOK'
<1> USE DEF Log!TypeOK
<1>1. CASE UNCHANGED Log!vars
  BY <1>1 DEF Log!vars, Log!log, Log!place, Log!requests
<1>2. ASSUME NEW p \in Pumps, Log!PumpStep(p) PROVE Log!TypeOK'
  <2>1. CASE Log!AppendWrite(p)
    BY <2>1 DEF Log!AppendWrite, Log!place, Log!requests
  <2>2. CASE Log!AppendSend(p)
    BY <2>2 DEF Log!AppendSend, Log!place, Log!requests
  <2>3. CASE Log!Eof(p)
    BY <2>3 DEF Log!Eof, Log!place, Log!requests
  <2> QED
    BY <1>2, <2>1, <2>2, <2>3 DEF Log!PumpStep
<1>3. ASSUME NEW f \in Followers, Log!Forward(f) PROVE Log!TypeOK'
  <2>1. CASE Log!StreamErr(f) \/ Log!CheckClosed(f) \/ Log!SendErr(f) \/ Log!PollEmpty(f)
             \/ Log!NoticeClosed(f) \/ Log!Wake(f) \/ Log!EndStream(f)
    BY <2>1 DEF Log!StreamErr, Log!CheckClosed, Log!SendErr, Log!PollEmpty, Log!NoticeClosed,
                Log!Wake, Log!EndStream, Log!log, Log!place
  <2>2. CASE Log!SnapshotRead(f)
    BY <2>2, FirstLineBounds DEF Log!SnapshotRead, Log!place
  <2>3. CASE Log!Subscribe(f)
    BY <2>3 DEF Log!Subscribe, Log!place
  <2>4. CASE Log!SendBacklog(f)
    <3> DEFINE lines == Log!Rendered(f, first[f], upto[f])
    <3>1. queue' = queue \/ queue' = [queue EXCEPT ![f] = <<lines>>]
      BY <2>4 DEF Log!SendBacklog
    <3>2. lines \in Seq(Nat)
      BY <2>4, RenderedLines DEF Span, Log!SendBacklog
    <3>3. queue' \in [Followers -> Seq(Seq(Nat))]
      <4> HIDE DEF lines
      <4>1. <<lines>> \in Seq(Seq(Nat))
        BY <3>2
      <4> QED
        BY <3>1, <4>1
    <3>4. \E q \in {"gone", "check"} : pc' = [pc EXCEPT ![f] = q]
      BY <2>4 DEF Log!SendBacklog
    <3> QED
      BY <2>4, <3>3, <3>4 DEF Log!SendBacklog, Log!log, Log!place
  <2>5. CASE Log!Receive(f)
    <3>1. at' \in [Followers -> Nat]
      BY <2>5 DEF Log!Receive
    <3>2. queue' \in [Followers -> Seq(Seq(Nat))]
      <4>1. <<at[f] + 1>> \in Seq(Nat)
        OBVIOUS
      <4>2. Append(queue[f], <<at[f] + 1>>) \in Seq(Seq(Nat))
        BY <4>1
      <4> QED
        BY <2>5, <4>2 DEF Log!Receive
    <3> QED
      BY <2>5, <3>1, <3>2 DEF Log!Receive, Log!log, Log!place
  <2>6. CASE Log!PassOver(f)
    BY <2>6 DEF Log!PassOver, Log!log, Log!place
  <2>7. CASE Log!Lag(f)
    <3>1. sent - Capacity \in Nat
      BY <2>7 DEF Log!Lag, Log!Behind, LogConstants
    <3> QED
      BY <2>7, <3>1 DEF Log!Lag, Log!log, Log!place
  <2> QED
    BY <1>3, <2>1, <2>2, <2>3, <2>4, <2>5, <2>6, <2>7 DEF Log!Forward
<1>4. ASSUME NEW f \in Followers, Log!Body(f) PROVE Log!TypeOK'
  <2>1. queue[f] \in Seq(Seq(Nat)) /\ queue[f] # << >> /\ seen[f] \in Seq(Nat)
    BY <1>4 DEF Log!Body
  <2>2. Tail(queue[f]) \in Seq(Seq(Nat)) /\ Head(queue[f]) \in Seq(Nat)
    BY <2>1
  <2>3. seen[f] \o Head(queue[f]) \in Seq(Nat)
    BY <2>1, <2>2
  <2> QED
    BY <1>4, <2>2, <2>3 DEF Log!Body, Log!log, Log!place
<1>5. ASSUME NEW f \in Followers, Log!HangUp(f) PROVE Log!TypeOK'
  BY <1>5 DEF Log!HangUp, Log!log, Log!place
<1>6. ASSUME NEW f \in Followers, Log!Refuse(f) PROVE Log!TypeOK'
  BY <1>6 DEF Log!Refuse, Log!log, Log!place
<1>7. ASSUME NEW f \in Followers, NEW n, Log!Resolve(f, n) PROVE Log!TypeOK'
  BY <1>7 DEF Log!Resolve, Log!log, Log!place
<1>8. ASSUME NEW f \in Followers, NEW n, Log!GetLogs(f, n) PROVE Log!TypeOK'
  <2>1. /\ Log!FirstLine(f, file) \in Nat \ {0}
        /\ Log!Rendered(f, Log!FirstLine(f, file), file) \in Seq(Nat)
    <3>1. /\ Log!FirstLine(f, file) \in Nat \ {0} /\ file \in Nat
          /\ Log!FirstLine(f, file) <= file + 1
      BY FirstLineBounds
    <3> QED
      BY <3>1, RenderedLines
  <2> QED
    BY <1>8, <2>1 DEF Log!GetLogs, Log!log, Log!place
<1>9. CASE Log!RemoveContainer
  BY <1>9 DEF Log!RemoveContainer, Log!log, Log!requests
<1>10. ASSUME NEW c \in Containers, Log!Record(c) PROVE Log!TypeOK'
  BY <1>10 DEF Log!Record, Log!log, Log!requests
<1> QED
  BY <1>1, <1>2, <1>3, <1>4, <1>5, <1>6, <1>7, <1>8, <1>9, <1>10 DEF Log!Next

(***************************************************************************)
(* Who holds the file lock, and that only the pump that has written a line *)
(* and not yet published it can make the file longer than the channel.     *)
(***************************************************************************)
Locking ==
    /\ \A p \in Pumps : pump[p] = "send" <=> lock = p
    /\ \A f \in Followers : pc[f] = "snapshot" => lock = f
    /\ file = IF lock \in Pumps THEN sent + 1 ELSE sent

(* Where the receivers are in the channel: from the subscription on, past  *)
(* the lines its request has read from the file.                           *)
Engaged(f) == pc[f] \in {"check", "loop", "polled", "drain", "ended", "cut", "gone"}
Positions ==
    \A f \in Followers : /\ at[f] <= sent
                         /\ pc[f] = "snapshot" => upto[f] = file
                         /\ pc[f] = "backlog" => at[f] = upto[f]
                         /\ Engaged(f) => upto[f] <= at[f]

(* What is known once the pumps have ended.                                *)
AtTheEnd ==
    /\ closed => Log!Exited
    /\ \A f \in Followers :
         /\ pc[f] = "drain" => closed
         /\ pc[f] = "ended" /\ ~lagged[f] => at[f] = sent /\ Log!Exited

SharedInv == Locking /\ Span /\ Positions /\ AtTheEnd

LEMMA SharedInvInit == LogConstants /\ Log!Init => SharedInv
  BY DEF LogConstants, Log!Init, SharedInv, Locking, Span, Positions, Engaged, AtTheEnd

LEMMA SpanNext ==
    ASSUME LogConstants, Log!TypeOK, Span, [Log!Next]_(Log!vars)
    PROVE  Span'
<1>1. ASSUME UNCHANGED <<first, upto>>, file' = file \/ file' = file + 1 PROVE Span'
  BY <1>1 DEF Span, Log!TypeOK
<1>2. ASSUME NEW f \in Followers,
             Log!SnapshotRead(f) \/ \E n \in Containers \cup {NoName} : Log!GetLogs(f, n)
      PROVE  Span'
  <2>1. /\ first' = [first EXCEPT ![f] = Log!FirstLine(f, file)]
        /\ upto' = [upto EXCEPT ![f] = file] /\ file' = file
    BY <1>2 DEF Log!SnapshotRead, Log!GetLogs, Log!log
  <2>2. Log!FirstLine(f, file) <= file + 1
    BY FirstLineBounds DEF Log!TypeOK
  <2> QED
    BY <2>1, <2>2 DEF Span, Log!TypeOK
<1>3. ASSUME NEW p \in Pumps, Log!PumpStep(p) PROVE Span'
  BY <1>1, <1>3 DEF Log!PumpStep, Log!AppendWrite, Log!AppendSend, Log!Eof, Log!requests
<1>4. ASSUME NEW f \in Followers, Log!Forward(f), ~Log!SnapshotRead(f) PROVE Span'
  BY <1>1, <1>4 DEF Log!Forward, Log!StreamErr, Log!Subscribe, Log!SendBacklog, Log!CheckClosed,
     Log!Receive, Log!PassOver, Log!SendErr, Log!Lag, Log!PollEmpty, Log!NoticeClosed, Log!Wake,
     Log!EndStream, Log!log
<1>5. ASSUME NEW f \in Followers,
             \/ Log!Refuse(f) \/ Log!Body(f) \/ Log!HangUp(f)
             \/ \E n \in Containers \cup {NoName} : Log!Resolve(f, n)
      PROVE  Span'
  BY <1>1, <1>5 DEF Log!Refuse, Log!Body, Log!HangUp, Log!Resolve, Log!log
<1>6. CASE Log!RemoveContainer \/ \E c \in Containers : Log!Record(c)
  BY <1>1, <1>6 DEF Log!RemoveContainer, Log!Record, Log!log, Log!requests
<1>7. CASE UNCHANGED Log!vars
  BY <1>1, <1>7 DEF Log!vars, Log!log, Log!requests
<1> QED
  BY <1>2, <1>3, <1>4, <1>5, <1>6, <1>7 DEF Log!Next

LEMMA SharedInvNext ==
    ASSUME LogConstants, Log!TypeOK, SharedInv, [Log!Next]_(Log!vars)
    PROVE  SharedInv'
<1> USE DEF SharedInv
<1>0. Span'
  BY SpanNext
<1>1. ASSUME UNCHANGED <<lock, file, sent, pump, closed, pc, at, lagged, upto>> PROVE SharedInv'
  BY <1>0, <1>1 DEF Locking, Positions, Engaged, AtTheEnd, Log!Exited
<1>2. ASSUME NEW p \in Pumps, Log!AppendWrite(p) PROVE SharedInv'
  <2>1. /\ pump[p] = "read" /\ lock = Free /\ lock' = p /\ file' = file + 1
        /\ pump' = [pump EXCEPT ![p] = "send"]
        /\ UNCHANGED <<sent, closed, pc, at, lagged, upto>>
    BY <1>2 DEF Log!AppendWrite, Log!requests
  <2>2. ~Log!Exited
    BY <2>1 DEF Log!Exited
  <2>3. Locking'
    BY <2>1 DEF Locking, LogConstants, Log!TypeOK
  <2>4. Positions'
    BY <2>1 DEF Positions, Engaged, Locking, LogConstants
  <2>5. AtTheEnd'
    BY <2>1, <2>2 DEF AtTheEnd
  <2> QED
    BY <1>0, <2>3, <2>4, <2>5
<1>3. ASSUME NEW p \in Pumps, Log!AppendSend(p) PROVE SharedInv'
  <2>1. /\ pump[p] = "send" /\ lock' = Free /\ sent' = sent + 1
        /\ pump' = [pump EXCEPT ![p] = "read"]
        /\ UNCHANGED <<file, closed, pc, at, lagged, upto>>
    BY <1>3 DEF Log!AppendSend, Log!requests
  <2>2. ~Log!Exited /\ lock = p
    BY <2>1 DEF Log!Exited, Locking
  <2>3. Locking'
    BY <2>1, <2>2 DEF Locking, LogConstants, Log!TypeOK
  <2>4. Positions'
    BY <2>1 DEF Positions, Engaged, Log!TypeOK
  <2>5. AtTheEnd'
    BY <2>1, <2>2 DEF AtTheEnd
  <2> QED
    BY <1>0, <2>3, <2>4, <2>5
<1>4. ASSUME NEW p \in Pumps, Log!Eof(p) PROVE SharedInv'
  <2>1. /\ pump[p] = "read" /\ pump' = [pump EXCEPT ![p] = "done"]
        /\ closed' => closed \/ Log!Exited'
        /\ UNCHANGED <<lock, file, sent, pc, at, lagged, upto>>
        /\ closed => closed'
    BY <1>4 DEF Log!Eof, Log!requests
  <2>2. ~Log!Exited
    BY <2>1 DEF Log!Exited
  <2>3. Locking'
    BY <2>1 DEF Locking, Log!TypeOK
  <2>4. Positions'
    BY <2>1 DEF Positions, Engaged
  <2>5. AtTheEnd'
    BY <2>1, <2>2 DEF AtTheEnd
  <2> QED
    BY <1>0, <2>3, <2>4, <2>5
<1>5. ASSUME NEW f \in Followers,
             \/ Log!Refuse(f) \/ Log!StreamErr(f) \/ Log!SendErr(f)
             \/ Log!SendBacklog(f) \/ Log!CheckClosed(f)
             \/ \E n \in Containers \cup {NoName} : Log!Resolve(f, n) \/ Log!GetLogs(f, n)
      PROVE  SharedInv'
  <2>1. /\ \E q \in {"refused", "gone", "check", "cut", "loop", "resolved", "answered"} :
             pc' = [pc EXCEPT ![f] = q]
        /\ UNCHANGED <<lock, file, sent, pump, closed, at, lagged>>
        /\ pc[f] # "snapshot"
    BY <1>5 DEF Log!Refuse, Log!StreamErr, Log!SendErr, Log!SendBacklog, Log!CheckClosed,
                Log!Resolve, Log!GetLogs, Log!HasLine, Log!log
  <2>2. /\ \A g \in Followers : g # f => pc'[g] = pc[g]
        /\ pc'[f] \notin {"snapshot", "backlog", "drain", "ended"}
    BY <2>1 DEF Log!TypeOK
  <2>3. /\ \A g \in Followers : g # f => upto'[g] = upto[g]
        /\ Engaged(f)' => (Engaged(f) \/ pc[f] = "backlog") /\ upto'[f] = upto[f]
    BY <1>5 DEF Log!Refuse, Log!StreamErr, Log!SendErr, Log!HasLine, Log!SendBacklog,
                Log!CheckClosed, Log!Resolve, Log!GetLogs, Log!TypeOK, Engaged
  <2>4. Locking'
    BY <2>1, <2>2 DEF Locking
  <2>5. Positions'
    BY <2>1, <2>2, <2>3 DEF Positions, Engaged, Log!TypeOK
  <2>6. AtTheEnd'
    BY <2>1, <2>2 DEF AtTheEnd, Log!Exited
  <2> QED
    BY <1>0, <2>4, <2>5, <2>6
<1>6. ASSUME NEW f \in Followers, Log!SnapshotRead(f) PROVE SharedInv'
  <2>1. /\ lock = Free /\ lock' = f /\ pc' = [pc EXCEPT ![f] = "snapshot"]
        /\ upto' = [upto EXCEPT ![f] = file]
        /\ UNCHANGED <<file, sent, pump, closed, at, lagged>>
    BY <1>6 DEF Log!SnapshotRead
  <2>2. /\ pc'[f] = "snapshot" /\ upto'[f] = file
        /\ \A g \in Followers : g # f => pc'[g] = pc[g] /\ upto'[g] = upto[g]
    BY <2>1 DEF Log!TypeOK
  <2>3. lock \notin Pumps /\ lock \notin Followers /\ f \notin Pumps
    BY <2>1 DEF LogConstants
  <2>4. Locking'
    BY <2>1, <2>2, <2>3 DEF Locking
  <2>5. Positions'
    BY <2>1, <2>2 DEF Positions, Engaged
  <2>6. AtTheEnd'
    BY <2>1, <2>2 DEF AtTheEnd, Log!Exited
  <2> QED
    BY <1>0, <2>4, <2>5, <2>6
<1>7. ASSUME NEW f \in Followers, Log!Subscribe(f) PROVE SharedInv'
  <2>1. /\ pc[f] = "snapshot" /\ lock' = Free /\ pc' = [pc EXCEPT ![f] = "backlog"]
        /\ at' = [at EXCEPT ![f] = sent]
        /\ UNCHANGED <<file, sent, pump, closed, lagged, upto>>
    BY <1>7 DEF Log!Subscribe
  <2>2. /\ pc'[f] = "backlog" /\ at'[f] = sent
        /\ \A g \in Followers : g # f => pc'[g] = pc[g] /\ at'[g] = at[g]
    BY <2>1 DEF Log!TypeOK
  <2>3. lock = f /\ f \notin Pumps /\ Free \notin Pumps
    BY <2>1 DEF Locking, LogConstants
  <2>4. Locking'
    BY <2>1, <2>2, <2>3 DEF Locking
  <2>5. Positions'
    BY <2>1, <2>2, <2>3 DEF Positions, Engaged, Locking, Log!TypeOK
  <2>6. AtTheEnd'
    BY <2>1, <2>2 DEF AtTheEnd, Log!Exited
  <2> QED
    BY <1>0, <2>4, <2>5, <2>6
<1>8. ASSUME NEW f \in Followers, Log!Receive(f) \/ Log!PassOver(f) PROVE SharedInv'
  <2>1. /\ pc[f] \in {"loop", "drain"} /\ at[f] < sent
        /\ at' = [at EXCEPT ![f] = @ + 1]
        /\ UNCHANGED <<lock, file, sent, pump, closed, pc, lagged, upto>>
    BY <1>8 DEF Log!Receive, Log!PassOver, Log!HasLine, Log!log
  <2>2. at'[f] = at[f] + 1 /\ \A g \in Followers : g # f => at'[g] = at[g]
    BY <2>1 DEF Log!TypeOK
  <2>3. Locking'
    BY <2>1 DEF Locking
  <2>4. Positions'
    BY <2>1, <2>2 DEF Positions, Engaged, Log!TypeOK
  <2>5. AtTheEnd'
    BY <2>1, <2>2 DEF AtTheEnd, Log!Exited
  <2> QED
    BY <1>0, <2>3, <2>4, <2>5
<1>9. ASSUME NEW f \in Followers, Log!Lag(f) PROVE SharedInv'
  <2>1. /\ pc[f] \in {"loop", "drain"}
        /\ at' = [at EXCEPT ![f] = sent - Capacity] /\ at[f] < sent - Capacity
        /\ lagged' = [lagged EXCEPT ![f] = TRUE]
        /\ pc' = [pc EXCEPT ![f] = IF pc[f] = "drain" THEN "ended" ELSE pc[f]]
        /\ UNCHANGED <<lock, file, sent, pump, closed, upto>>
    BY <1>9 DEF Log!Lag, Log!Behind, Log!log, LogConstants, Log!TypeOK
  <2>2. /\ at'[f] = sent - Capacity /\ lagged'[f] /\ pc'[f] \in {"loop", "ended"}
        /\ \A g \in Followers :
             g # f => at'[g] = at[g] /\ lagged'[g] = lagged[g] /\ pc'[g] = pc[g]
    BY <2>1 DEF Log!TypeOK
  <2>3. Locking'
    BY <2>1, <2>2 DEF Locking
  <2>4. Positions'
    BY <2>1, <2>2 DEF Positions, Engaged, LogConstants, Log!TypeOK
  <2>5. AtTheEnd'
    BY <2>1, <2>2 DEF AtTheEnd, Log!Exited
  <2> QED
    BY <1>0, <2>3, <2>4, <2>5
<1>10. ASSUME NEW f \in Followers,
              Log!PollEmpty(f) \/ Log!NoticeClosed(f) \/ Log!Wake(f) \/ Log!EndStream(f)
       PROVE  SharedInv'
  <2>1. /\ UNCHANGED <<lock, file, sent, pump, closed, at, lagged, upto>>
        /\ pc[f] \in {"loop", "polled", "drain"}
        /\ \/ \E q \in {"polled", "loop"} : pc' = [pc EXCEPT ![f] = q]
           \/ pc' = [pc EXCEPT ![f] = "drain"] /\ closed
           \/ /\ pc' = [pc EXCEPT ![f] = "ended"] /\ at[f] = sent
              /\ pc[f] = "drain" \/ Log!Exited
    BY <1>10 DEF Log!PollEmpty, Log!NoticeClosed, Log!Wake, Log!EndStream, Log!SenderGone, Log!log
  <2>2. /\ \/ pc'[f] \in {"polled", "loop"}
           \/ pc'[f] = "drain" /\ closed
           \/ pc'[f] = "ended" /\ at[f] = sent /\ (pc[f] = "drain" \/ Log!Exited)
        /\ \A g \in Followers : g # f => pc'[g] = pc[g]
    BY <2>1 DEF Log!TypeOK
  <2>3. Log!Exited' = Log!Exited
    BY <2>1 DEF Log!Exited
  <2>4. Locking'
    BY <2>1, <2>2 DEF Locking
  <2>5. Positions'
    BY <2>1, <2>2 DEF Positions, Engaged
  <2>6. AtTheEnd'
    BY <2>1, <2>2, <2>3 DEF AtTheEnd
  <2> QED
    BY <1>0, <2>4, <2>5, <2>6
<1>11. ASSUME NEW f \in Followers, Log!Body(f) \/ Log!HangUp(f) PROVE SharedInv'
  BY <1>1, <1>11 DEF Log!Body, Log!HangUp, Log!log
<1>12. ASSUME Log!RemoveContainer \/ \E c \in Containers : Log!Record(c) PROVE SharedInv'
  BY <1>1, <1>12 DEF Log!RemoveContainer, Log!Record, Log!log, Log!requests
<1>13. CASE UNCHANGED Log!vars
  BY <1>1, <1>13 DEF Log!vars, Log!log, Log!requests
<1>14. CASE Log!Next
  BY <1>2, <1>3, <1>4, <1>5, <1>6, <1>7, <1>8, <1>9, <1>10, <1>11, <1>12, <1>14
     DEF Log!Next, Log!PumpStep, Log!Forward
<1> QED
  BY <1>13, <1>14
(***************************************************************************)
(* What is on its way to a client: the lines of the items of a queue, in   *)
(* the order in which they will be added to those it has seen.             *)
(***************************************************************************)
Lines(q) == UNION {Range(item) : item \in Range(q)}

Ordered(s, q) ==
    /\ Rising(s)
    /\ \A j \in DOMAIN q : Rising(q[j])
    /\ \A j \in DOMAIN q : \A x \in Range(s), y \in Range(q[j]) : x < y
    /\ \A j, k \in DOMAIN q : j < k => \A x \in Range(q[j]), y \in Range(q[k]) : x < y

LEMMA LinesOf ==
    ASSUME NEW q
    PROVE  \A x : x \in Lines(q) <=> \E j \in DOMAIN q : x \in Range(q[j])
  BY DEF Lines, Range

LEMMA RangeBelow ==
    ASSUME NEW s \in Seq(Nat) PROVE Range(s) \subseteq Nat
  BY DEF Range

LEMMA OrderedFirst ==
    ASSUME NEW s \in Seq(Nat), Rising(s)
    PROVE  Ordered(<< >>, <<s>>) /\ Lines(<<s>>) = Range(s)
<1>1. DOMAIN <<s>> = {1} /\ <<s>>[1] = s /\ DOMAIN << >> = {}
  OBVIOUS
<1>2. Ordered(<< >>, <<s>>)
  <2>1. Range(<< >>) = {} /\ Rising(<< >>)
    BY <1>1 DEF Range, Rising
  <2> QED
    BY <1>1, <2>1 DEF Ordered
<1>3. Lines(<<s>>) = Range(s)
  BY <1>1, LinesOf
<1> QED
  BY <1>2, <1>3

(* A line behind all the others joins the queue.                           *)
LEMMA OrderedAppend ==
    ASSUME NEW s \in Seq(Nat), NEW q \in Seq(Seq(Nat)), Ordered(s, q), NEW n \in Nat,
           \A x \in Range(s) \cup Lines(q) : x < n
    PROVE  Ordered(s, Append(q, <<n>>)) /\ Lines(Append(q, <<n>>)) = Lines(q) \cup {n}
<1> DEFINE w == Append(q, <<n>>)
           m == Len(q)
<1>1. /\ m \in Nat /\ DOMAIN q = 1 .. m /\ DOMAIN w = 1 .. m + 1
      /\ \A j \in 1 .. m : w[j] = q[j]
      /\ w[m + 1] = <<n>>
  OBVIOUS
<1>2. Rising(<<n>>) /\ Range(<<n>>) = {n}
  BY DEF Rising, Range
<1> HIDE DEF w, m
<1>3. ASSUME NEW j \in DOMAIN w
      PROVE  \/ j \in DOMAIN q /\ w[j] = q[j] /\ Range(w[j]) \subseteq Lines(q)
             \/ j = m + 1 /\ w[j] = <<n>>
  <2>1. j \in 1 .. m + 1 /\ m \in Nat
    BY <1>1
  <2>2. j \in 1 .. m \/ j = m + 1
    BY ONLY <2>1
  <2> QED
    BY <1>1, <2>2, LinesOf
<1>4. Ordered(s, w)
  <2>1. Rising(s) /\ \A j \in DOMAIN w : Rising(w[j])
    BY <1>2, <1>3 DEF Ordered
  <2>2. ASSUME NEW j \in DOMAIN w, NEW x \in Range(s), NEW y \in Range(w[j]) PROVE x < y
    <3>1. CASE w[j] = <<n>>
      BY <1>2, <2>2, <3>1
    <3>2. CASE j \in DOMAIN q /\ w[j] = q[j]
      BY <2>2, <3>2 DEF Ordered
    <3> QED
      BY <1>3, <3>1, <3>2
  <2>3. ASSUME NEW j \in DOMAIN w, NEW k \in DOMAIN w, j < k, NEW x \in Range(w[j]),
               NEW y \in Range(w[k])
        PROVE  x < y
    <3>1. j \in DOMAIN q /\ w[j] = q[j] /\ x \in Lines(q)
      <4>1. j # m + 1
        BY <1>1, <2>3
      <4> QED
        BY <1>3, <4>1
    <3>2. CASE w[k] = <<n>>
      BY <1>2, <3>1, <3>2
    <3>3. CASE k \in DOMAIN q /\ w[k] = q[k]
      BY <2>3, <3>1, <3>3 DEF Ordered
    <3> QED
      BY <1>3, <3>2, <3>3
  <2> QED
    BY <2>1, <2>2, <2>3 DEF Ordered
<1>5. ASSUME NEW x PROVE x \in Lines(w) <=> x \in Lines(q) \/ x = n
  <2>1. m + 1 \in DOMAIN w /\ \A j \in DOMAIN q : j \in DOMAIN w /\ w[j] = q[j]
    BY <1>1
  <2> QED
    BY <1>1, <1>2, <1>3, <2>1, LinesOf
<1> QED
  BY <1>4, <1>5 DEF w

LEMMA SeqElements ==
    ASSUME NEW S, NEW q \in Seq(S)
    PROVE  /\ Len(q) \in Nat /\ DOMAIN q = 1 .. Len(q)
           /\ \A i \in 1 .. Len(q) : q[i] \in S
  OBVIOUS

LEMMA ConcatElements ==
    ASSUME NEW S, NEW q \in Seq(S), NEW r \in Seq(S)
    PROVE  /\ Len(q \o r) = Len(q) + Len(r) /\ DOMAIN (q \o r) = 1 .. Len(q) + Len(r)
           /\ \A i \in 1 .. Len(q) : (q \o r)[i] = q[i]
           /\ \A i \in 1 .. Len(r) : (q \o r)[Len(q) + i] = r[i]
           /\ Range(q \o r) = Range(q) \cup Range(r)
<1>1. /\ Len(q) \in Nat /\ Len(r) \in Nat /\ DOMAIN q = 1 .. Len(q) /\ DOMAIN r = 1 .. Len(r)
      /\ Len(q \o r) = Len(q) + Len(r) /\ DOMAIN (q \o r) = 1 .. Len(q) + Len(r)
      /\ \A i \in 1 .. Len(q) : (q \o r)[i] = q[i]
  OBVIOUS
<1>2. ASSUME NEW i \in 1 .. Len(r) PROVE (q \o r)[Len(q) + i] = r[i]
  BY <1>1
<1> DEFINE m == Len(q)
           k == Len(r)
           w == q \o r
<1>3. Range(w) = Range(q) \cup Range(r)
  <2>1. /\ m \in Nat /\ k \in Nat /\ DOMAIN q = 1 .. m /\ DOMAIN r = 1 .. k /\ DOMAIN w = 1 .. m + k
        /\ \A i \in 1 .. m : w[i] = q[i]
        /\ \A i \in 1 .. k : w[m + i] = r[i]
    BY <1>1, <1>2
  <2> HIDE DEF m, k, w
  <2>2. ASSUME NEW x \in Range(w) PROVE x \in Range(q) \cup Range(r)
    <3>1. PICK i \in 1 .. m + k : w[i] = x
      BY <2>1 DEF Range
    <3>2. CASE i <= m
      BY <2>1, <3>1, <3>2 DEF Range
    <3>3. CASE ~(i <= m)
      <4>1. i - m \in 1 .. k /\ m + (i - m) = i
        BY <2>1, <3>3
      <4>2. w[m + (i - m)] = r[i - m]
        BY <2>1, <4>1
      <4> QED
        BY <2>1, <3>1, <4>1, <4>2 DEF Range
    <3> QED
      BY <3>2, <3>3
  <2>3. ASSUME NEW x \in Range(q) PROVE x \in Range(w)
    <3>1. PICK i \in 1 .. m : q[i] = x
      BY <2>1 DEF Range
    <3>2. i \in DOMAIN w /\ w[i] = x
      BY <2>1, <3>1
    <3> QED
      BY <3>2 DEF Range
  <2>4. ASSUME NEW x \in Range(r) PROVE x \in Range(w)
    <3>1. PICK i \in 1 .. k : r[i] = x
      BY <2>1 DEF Range
    <3>2. m + i \in DOMAIN w /\ w[m + i] = x
      BY <2>1, <3>1
    <3> QED
      BY <3>2 DEF Range
  <2> QED
    BY <2>2, <2>3, <2>4
<1> QED
  BY <1>1, <1>2, <1>3


(* The first item goes from the queue to the client.                       *)
LEMMA OrderedTaken ==
    ASSUME NEW s \in Seq(Nat), NEW q \in Seq(Seq(Nat)), Ordered(s, q), q # << >>
    PROVE  /\ Ordered(s \o Head(q), Tail(q))
           /\ Range(s \o Head(q)) = Range(s) \cup Range(Head(q))
           /\ Lines(q) = Range(Head(q)) \cup Lines(Tail(q))
           /\ \A x \in Range(Head(q)), y \in Lines(Tail(q)) : x < y
<1> DEFINE h == Head(q)
           t == Tail(q)
           w == s \o h
           n == Len(q)
           m == Len(s)
           k == Len(h)
<1>1. /\ n \in Nat \ {0} /\ DOMAIN q = 1 .. n /\ DOMAIN t = 1 .. n - 1
      /\ h = q[1] /\ h \in Seq(Nat)
      /\ \A j \in 1 .. n - 1 : t[j] = q[j + 1] /\ j + 1 \in 1 .. n
  OBVIOUS
<1>2. /\ m \in Nat /\ k \in Nat /\ DOMAIN s = 1 .. m /\ DOMAIN h = 1 .. k /\ DOMAIN w = 1 .. m + k
      /\ \A i \in 1 .. m : w[i] = s[i] /\ s[i] \in Range(s)
      /\ \A i \in 1 .. k : w[m + i] = h[i] /\ h[i] \in Range(h)
      /\ Range(w) = Range(s) \cup Range(h)
  <2> HIDE DEF h
  <2>1. s \in Seq(Nat) /\ h \in Seq(Nat)
    BY <1>1
  <2>2. m \in Nat /\ k \in Nat /\ DOMAIN s = 1 .. m /\ DOMAIN h = 1 .. k
    BY <2>1, SeqElements
  <2>3. /\ DOMAIN w = 1 .. m + k /\ \A i \in 1 .. m : w[i] = s[i]
        /\ \A i \in 1 .. k : w[m + i] = h[i]
        /\ Range(w) = Range(s) \cup Range(h)
    BY <2>1, ConcatElements
  <2> HIDE DEF m, k, w
  <2> QED
    BY <2>2, <2>3 DEF Range
<1>3. Range(h) \subseteq Nat /\ Range(s) \subseteq Nat
  BY <1>1, RangeBelow
<1>4. 1 \in DOMAIN q
  BY <1>1
<1> HIDE DEF h, t, w, n, m, k
<1>5. /\ Rising(s) /\ Rising(h)
      /\ \A x \in Range(s), y \in Range(h) : x < y
  BY <1>1, <1>4 DEF Ordered
<1>6. ASSUME NEW j \in DOMAIN t
      PROVE  /\ Rising(t[j])
             /\ \A x \in Range(s) \cup Range(h), y \in Range(t[j]) : x < y
             /\ \A i \in DOMAIN t : j < i => \A x \in Range(t[j]), y \in Range(t[i]) : x < y
  <2>1. j + 1 \in DOMAIN q /\ t[j] = q[j + 1] /\ 1 < j + 1
    BY <1>1
  <2>2. Rising(t[j]) /\ \A x \in Range(s), y \in Range(t[j]) : x < y
    BY <2>1 DEF Ordered
  <2>3. \A x \in Range(h), y \in Range(t[j]) : x < y
    BY <1>1, <1>4, <2>1 DEF Ordered
  <2>4. ASSUME NEW i \in DOMAIN t, j < i, NEW x \in Range(t[j]), NEW y \in Range(t[i]) PROVE x < y
    <3>1. i + 1 \in DOMAIN q /\ t[i] = q[i + 1] /\ j + 1 < i + 1
      BY <1>1, <2>4
    <3> QED
      BY <2>1, <2>4, <3>1 DEF Ordered
  <2> QED
    BY <2>2, <2>3, <2>4
<1>7. Rising(w)
  <2> SUFFICES ASSUME NEW i \in 1 .. m + k, NEW j \in 1 .. m + k, i < j PROVE w[i] < w[j]
    BY <1>2 DEF Rising
  <2>1. CASE j <= m
    <3>1. i \in 1 .. m /\ j \in 1 .. m
      BY <1>2, <2>1
    <3>2. s[i] < s[j]
      BY <1>2, <1>5, <3>1 DEF Rising
    <3> QED
      BY <1>2, <3>1, <3>2
  <2>2. CASE i <= m /\ ~(j <= m)
    <3>1. i \in 1 .. m /\ j - m \in 1 .. k /\ m + (j - m) = j
      BY <1>2, <2>2
    <3>2. w[i] \in Range(s) /\ w[m + (j - m)] \in Range(h)
      BY <1>2, <3>1
    <3> QED
      BY <1>5, <3>1, <3>2
  <2>3. CASE ~(i <= m)
    <3>1. i - m \in 1 .. k /\ m + (i - m) = i /\ j - m \in 1 .. k /\ m + (j - m) = j /\ i - m < j - m
      BY <1>2, <2>3
    <3>2. h[i - m] < h[j - m]
      BY <1>2, <1>5, <3>1 DEF Rising
    <3>3. w[m + (i - m)] = h[i - m] /\ w[m + (j - m)] = h[j - m]
      BY <1>2, <3>1
    <3> QED
      BY <3>1, <3>2, <3>3
  <2> QED
    BY <1>2, <2>1, <2>2, <2>3
<1>8. Ordered(w, t)
  BY <1>2, <1>6, <1>7 DEF Ordered
<1>9. ASSUME NEW x PROVE x \in Lines(q) <=> x \in Range(h) \/ x \in Lines(t)
  <2>1. ASSUME x \in Lines(q) PROVE x \in Range(h) \/ x \in Lines(t)
    <3>1. PICK j \in 1 .. n : x \in Range(q[j])
      BY <1>1, <2>1, LinesOf
    <3>2. CASE j = 1
      BY <1>1, <3>1, <3>2
    <3>3. CASE j # 1
      <4>1. j - 1 \in 1 .. n - 1 /\ (j - 1) + 1 = j
        BY <1>1, <3>3
      <4>2. j - 1 \in DOMAIN t /\ t[j - 1] = q[j]
        BY <1>1, <4>1
      <4> QED
        BY <3>1, <4>2, LinesOf
    <3> QED
      BY <3>2, <3>3
  <2>2. ASSUME x \in Range(h) PROVE x \in Lines(q)
    BY <1>1, <1>4, <2>2, LinesOf
  <2>3. ASSUME x \in Lines(t) PROVE x \in Lines(q)
    <3>1. PICK j \in DOMAIN t : x \in Range(t[j])
      BY <2>3, LinesOf
    <3>2. j + 1 \in DOMAIN q /\ t[j] = q[j + 1]
      BY <1>1
    <3> QED
      BY <3>1, <3>2, LinesOf
  <2> QED
    BY <2>1, <2>2, <2>3
<1>10. ASSUME NEW x \in Range(h), NEW y \in Lines(t) PROVE x < y
  <2>1. PICK j \in DOMAIN t : y \in Range(t[j])
    BY LinesOf
  <2> QED
    BY <1>6, <2>1
<1> QED
  BY <1>2, <1>8, <1>9, <1>10 DEF h, t, w

(***************************************************************************)
(* What is known of one request.  What its client has seen and what is on  *)
(* its way is owed to it, in order, and lies behind the receiver; a client *)
(* that stays and whose receiver never lagged has or will have all that it *)
(* is owed from behind the receiver.                                       *)
(***************************************************************************)
Waiting(f) == pc[f] \in {"new", "resolved", "snapshot", "backlog", "refused"}
Given(f)   == Received(f) \cup Lines(queue[f])

Unsent(f) ==
    /\ Waiting(f) => seen[f] = << >> /\ ~lagged[f]
    /\ Waiting(f) \/ pc[f] = "answered" \/ f \in away => queue[f] = << >>
Sound(f) ==
    /\ Given(f) \subseteq Owed(f)
    /\ \A x \in Given(f) : pc[f] = "answered" \/ x <= at[f]
NoGap(f) == ~lagged[f] => \A x \in Owed(f), y \in Received(f) : x < y => x \in Received(f)
Complete(f) ==
    Engaged(f) /\ f \notin away /\ ~lagged[f] => \A x \in Owed(f) : x <= at[f] => x \in Given(f)

FollowerInv(f) ==
    Unsent(f) /\ Ordered(seen[f], queue[f]) /\ Sound(f) /\ NoGap(f) /\ Complete(f)

LEMMA EmptySequence ==
    Range(<< >>) = {} /\ Lines(<< >>) = {} /\ Ordered(<< >>, << >>)
<1>1. DOMAIN << >> = {}
  OBVIOUS
<1> QED
  BY <1>1 DEF Range, Lines, Ordered, Rising

LEMMA FollowerInvInit ==
    ASSUME Log!Init, NEW f \in Followers PROVE FollowerInv(f)
  BY EmptySequence DEF Log!Init, FollowerInv, Unsent, Sound, NoGap, Complete, Engaged, Given,
     Received

(* A request that has been sent nothing yet, and still is not.             *)
LEMMA FollowerInvBefore ==
    ASSUME NEW f \in Followers, FollowerInv(f), Waiting(f), Waiting(f)',
           queue'[f] = queue[f], seen'[f] = seen[f], lagged'[f] = lagged[f]
    PROVE  FollowerInv(f)'
<1>1. seen'[f] = << >> /\ queue'[f] = << >> /\ ~lagged'[f]
  BY DEF FollowerInv, Unsent
<1>2. ~Engaged(f)' /\ Given(f)' = {} /\ Received(f)' = {}
  BY <1>1, EmptySequence DEF Waiting, Engaged, Given, Received
<1> QED
  BY <1>1, <1>2, EmptySequence DEF FollowerInv, Unsent, Sound, NoGap, Complete

(* A step that sends the client nothing; the file may grow.                *)
Untouched(f) ==
    /\ queue'[f] = queue[f] /\ seen'[f] = seen[f] /\ lagged'[f] = lagged[f]
    /\ f \in away' <=> f \in away
    /\ first'[f] = first[f] /\ upto'[f] = upto[f] /\ at'[f] = at[f]

LEMMA FollowerInvMoved ==
    ASSUME LogConstants, Log!TypeOK, Log!TypeOK', SharedInv, NEW f \in Followers, FollowerInv(f),
           Untouched(f), file' = file \/ file' = file + 1,
           Waiting(f)' => Waiting(f), pc'[f] = "answered" <=> pc[f] = "answered",
           Engaged(f)' => Engaged(f)
    PROVE  FollowerInv(f)'
<1>1. /\ file \in Nat /\ file' \in Nat /\ upto[f] \in Nat /\ upto[f] <= file
      /\ first[f] \in Nat \ {0} /\ first[f] <= upto[f] + 1
      /\ at[f] \in Nat /\ at[f] <= file
  BY DEF Log!TypeOK, SharedInv, Span, Positions, Locking
<1>2. Owed(f) \subseteq Owed(f)' /\ \A x \in Owed(f)' \ Owed(f) : x \in Nat /\ x > file
  BY <1>1 DEF Owed, Backlog, Kept, Intact, Untouched
<1>3. Owed(f) \subseteq 1 .. file
  BY <1>1, OwedLines
<1>4. Given(f)' = Given(f) /\ Received(f)' = Received(f) /\ Received(f) \subseteq Given(f)
  BY DEF Untouched, Given, Received
<1>5. Given(f) \subseteq 1 .. file
  BY <1>3 DEF FollowerInv, Sound
<1>6. Unsent(f)' /\ Ordered(seen[f], queue[f])'
  BY DEF FollowerInv, Unsent, Untouched
<1>7. Sound(f)'
  BY <1>2, <1>4 DEF FollowerInv, Sound, Untouched
<1>8. NoGap(f)'
  <2> SUFFICES ASSUME ~lagged'[f], NEW x \in Owed(f)', NEW y \in Received(f), x < y
               PROVE  x \in Received(f)
    BY <1>4 DEF NoGap
  <2>1. x \in Owed(f)
    BY <1>1, <1>2, <1>4, <1>5
  <2> QED
    BY <2>1 DEF FollowerInv, NoGap, Untouched
<1>9. Complete(f)'
  <2> SUFFICES ASSUME Engaged(f)', f \notin away', ~lagged'[f], NEW x \in Owed(f)', x <= at'[f]
               PROVE  x \in Given(f)
    BY <1>4 DEF Complete
  <2>1. x \in Owed(f)
    BY <1>1, <1>2 DEF Untouched
  <2> QED
    BY <2>1 DEF FollowerInv, Complete, Untouched
<1> QED
  BY <1>6, <1>7, <1>8, <1>9 DEF FollowerInv

(* handle_logs answers with the file.                                      *)
LEMMA GetLogsKeeps ==
    ASSUME LogConstants, Log!TypeOK, NEW f \in Followers, FollowerInv(f), NEW n,
           Log!GetLogs(f, n)
    PROVE  FollowerInv(f)'
<1> DEFINE a == Log!FirstLine(f, file)
           s == Log!Rendered(f, a, file)
<1>1. /\ pc[f] = "new" /\ pc'[f] = "answered" /\ first'[f] = a /\ upto'[f] = file
      /\ seen'[f] = s /\ UNCHANGED <<file, queue, away, at, lagged>>
  BY DEF Log!GetLogs, Log!TypeOK, Log!log
<1>2. /\ queue'[f] = << >> /\ ~lagged'[f]
  BY <1>1 DEF FollowerInv, Unsent, Waiting
<1>3. file \in Nat /\ a \in Nat \ {0} /\ a <= file + 1
  BY FirstLineBounds DEF Log!TypeOK
<1> HIDE DEF a
<1>4. s \in Seq(Nat) /\ Rising(s) /\ Range(s) = a .. a + Kept(f, a, file) - 1
  BY <1>3, RenderedLines
<1>5. Kept(f, a, file) \in Nat /\ a + Kept(f, a, file) <= file + 1
  BY <1>3, KeptBounds
<1> HIDE DEF s
<1>6. Backlog(f)' = Range(s)
  BY <1>1, <1>4 DEF Backlog, Kept, Intact
<1>7. Owed(f)' = Range(s)
  BY <1>1, <1>3, <1>6 DEF Owed
<1>8. Given(f)' = Range(s) /\ Received(f)' = Range(s)
  BY <1>1, <1>2, EmptySequence DEF Given, Received
<1>9. Ordered(seen[f], queue[f])'
  <2>1. DOMAIN << >> = {}
    OBVIOUS
  <2> QED
    BY <1>1, <1>2, <1>4, <2>1 DEF Ordered
<1> QED
  BY <1>1, <1>2, <1>7, <1>8, <1>9
     DEF FollowerInv, Unsent, Waiting, Sound, NoGap, Complete, Engaged

(* The backlog is all that is owed from before the subscription.           *)
LEMMA SendBacklogKeeps ==
    ASSUME LogConstants, Log!TypeOK, SharedInv, NEW f \in Followers, FollowerInv(f),
           Log!SendBacklog(f)
    PROVE  FollowerInv(f)'
<1> DEFINE s == Log!Rendered(f, first[f], upto[f])
<1>1. /\ pc[f] = "backlog" /\ pc'[f] \in {"gone", "check"}
      /\ \/ queue'[f] = queue[f] /\ (s = << >> \/ f \in away)
         \/ queue'[f] = <<s>> /\ f \notin away
      /\ UNCHANGED <<file, away, at, lagged, first, upto, seen>>
  <2> HIDE DEF s
  <2>1. /\ pc[f] = "backlog" /\ \E q \in {"gone", "check"} : pc' = [pc EXCEPT ![f] = q]
        /\ \/ queue' = queue /\ (s = << >> \/ f \in away)
           \/ queue' = [queue EXCEPT ![f] = <<s>>] /\ f \notin away
        /\ UNCHANGED <<file, away, at, lagged, first, upto, seen>>
    BY DEF Log!SendBacklog, Log!log, s
  <2> QED
    BY <2>1 DEF Log!TypeOK
<1>2. seen[f] = << >> /\ queue[f] = << >> /\ ~lagged[f]
  BY <1>1 DEF FollowerInv, Unsent, Waiting
<1>3. /\ file \in Nat /\ upto[f] \in Nat /\ upto[f] <= file /\ at[f] = upto[f]
      /\ first[f] \in Nat \ {0} /\ first[f] <= upto[f] + 1
  BY <1>1 DEF Log!TypeOK, SharedInv, Span, Positions
<1>4. s \in Seq(Nat) /\ Rising(s) /\ Range(s) = Backlog(f)
  BY <1>3, RenderedLines DEF Backlog
<1> HIDE DEF s
<1>5. /\ Backlog(f) \subseteq 1 .. upto[f] /\ Owed(f) \subseteq 1 .. file
      /\ \A x \in 1 .. upto[f] : x \in Owed(f) <=> x \in Backlog(f)
  BY <1>3, OwedLines
<1>6. Owed(f)' = Owed(f) /\ Received(f)' = {}
  BY <1>1, <1>2, EmptySequence DEF Owed, Backlog, Kept, Intact, Received
<1>7. /\ Ordered(seen[f], queue[f])'
      /\ f \in away => queue'[f] = << >> /\ Given(f)' = {}
      /\ f \notin away => Given(f)' = Backlog(f)
  <2>1. CASE f \in away
    BY <1>1, <1>2, <1>6, <2>1, EmptySequence DEF Given
  <2>2. CASE f \notin away /\ s = << >> /\ queue'[f] = queue[f]
    BY <1>1, <1>2, <1>4, <1>6, <2>2, EmptySequence DEF Given
  <2>3. CASE f \notin away /\ queue'[f] = <<s>>
    BY <1>1, <1>2, <1>4, <1>6, <2>3, OrderedFirst DEF Given
  <2> QED
    BY <1>1, <2>1, <2>2, <2>3
<1>8. Sound(f)'
  BY <1>1, <1>3, <1>5, <1>6, <1>7 DEF Sound
<1>9. Complete(f)'
  BY <1>1, <1>3, <1>5, <1>6, <1>7 DEF Complete
<1> QED
  BY <1>1, <1>2, <1>6, <1>7, <1>8, <1>9 DEF FollowerInv, Unsent, Waiting, NoGap

(* The receiver moves past a line, which is sent on if it is text.         *)
LEMMA ReceiveKeeps ==
    ASSUME LogConstants, Log!TypeOK, SharedInv, NEW f \in Followers, FollowerInv(f),
           Log!Receive(f) \/ Log!PassOver(f)
    PROVE  FollowerInv(f)'
<1> DEFINE n == at[f] + 1
<1>1. /\ pc[f] \in {"loop", "drain"} /\ pc' = pc /\ at[f] < sent /\ at'[f] = n
      /\ UNCHANGED <<file, away, lagged, first, upto, seen>>
      /\ \/ n \in Garbled /\ queue'[f] = queue[f]
         \/ n \notin Garbled /\ queue'[f] = Append(queue[f], <<n>>) /\ f \notin away
  BY DEF Log!Receive, Log!PassOver, Log!HasLine, Log!IsText, Log!TypeOK, Log!log
<1>2. /\ file \in Nat /\ upto[f] \in Nat /\ upto[f] <= file
      /\ first[f] \in Nat \ {0} /\ first[f] <= upto[f] + 1
      /\ at[f] \in Nat /\ upto[f] <= at[f] /\ sent \in Nat /\ sent <= file
      /\ queue[f] \in Seq(Seq(Nat)) /\ seen[f] \in Seq(Nat)
  BY <1>1 DEF Log!TypeOK, SharedInv, Span, Positions, Engaged, Locking
<1>3. /\ Owed(f) \subseteq 1 .. file
      /\ \A x \in upto[f] + 1 .. file : x \in Owed(f) <=> x \notin Garbled
  BY <1>2, OwedLines
<1>4. n \in Nat /\ n \in upto[f] + 1 .. file
  BY <1>1, <1>2
<1>5. Owed(f)' = Owed(f) /\ Received(f)' = Received(f)
  BY <1>1 DEF Owed, Backlog, Kept, Intact, Received
<1>6. \A x \in Given(f) : x \in Owed(f) /\ x \in Nat /\ x <= at[f] /\ x < n
  BY <1>1, <1>2, <1>3 DEF FollowerInv, Sound
<1>7. Ordered(seen[f], queue[f])' /\ Given(f)' = IF n \in Garbled THEN Given(f) ELSE Given(f) \cup {n}
  <2>1. CASE n \in Garbled
    BY <1>1, <1>5, <2>1 DEF FollowerInv, Given
  <2>2. CASE n \notin Garbled
    <3>1. \A x \in Range(seen[f]) \cup Lines(queue[f]) : x < n
      BY <1>6 DEF Given, Received
    <3> HIDE DEF n
    <3>2. /\ Ordered(seen[f], Append(queue[f], <<n>>))
          /\ Lines(Append(queue[f], <<n>>)) = Lines(queue[f]) \cup {n}
      BY <1>2, <1>4, <3>1, OrderedAppend DEF FollowerInv
    <3> QED
      BY <1>1, <1>5, <2>2, <3>2 DEF Given
  <2> QED
    BY <2>1, <2>2
<1>8. Unsent(f)'
  BY <1>1 DEF FollowerInv, Unsent, Waiting
<1>9. Sound(f)'
  BY <1>1, <1>3, <1>4, <1>5, <1>6, <1>7 DEF Sound
<1>10. NoGap(f)'
  BY <1>1, <1>5 DEF FollowerInv, NoGap
<1>11. Complete(f)'
  <2> SUFFICES ASSUME f \notin away, ~lagged[f], NEW x \in Owed(f), x <= n
               PROVE  x \in Given(f)'
    BY <1>1, <1>5 DEF Complete
  <2>1. CASE x = n
    BY <1>3, <1>4, <1>7, <2>1
  <2>2. CASE x # n
    <3>1. x <= at[f]
      BY <1>2, <1>3, <2>2
    <3>2. x \in Given(f)
      BY <1>1, <3>1 DEF FollowerInv, Complete, Engaged
    <3> QED
      BY <1>7, <3>2
  <2> QED
    BY <2>1, <2>2
<1> QED
  BY <1>7, <1>8, <1>9, <1>10, <1>11 DEF FollowerInv

LEMMA LagKeeps ==
    ASSUME LogConstants, Log!TypeOK, NEW f \in Followers, FollowerInv(f), Log!Lag(f)
    PROVE  FollowerInv(f)'
<1>1. /\ pc[f] \in {"loop", "drain"} /\ pc'[f] \in {"loop", "ended"}
      /\ at'[f] = sent - Capacity /\ at[f] < sent - Capacity /\ lagged'[f]
      /\ at[f] \in Nat /\ sent - Capacity \in Int
      /\ UNCHANGED <<file, away, queue, first, upto, seen>>
  BY DEF Log!Lag, Log!Behind, Log!TypeOK, LogConstants, Log!log
<1>2. Owed(f)' = Owed(f) /\ Given(f)' = Given(f)
  BY <1>1 DEF Owed, Backlog, Kept, Intact, Given, Received
<1>3. Unsent(f)' /\ Ordered(seen[f], queue[f])' /\ NoGap(f)' /\ Complete(f)'
  BY <1>1 DEF FollowerInv, Unsent, Waiting, NoGap, Complete
<1>4. ASSUME NEW x \in Given(f) PROVE x \in Owed(f) /\ x <= at'[f]
  <2>1. x \in Owed(f) /\ x <= at[f]
    BY <1>1 DEF FollowerInv, Sound
  <2>2. x \in Int
    <3>1. x \in Received(f) \/ x \in Lines(queue[f])
      BY DEF Given
    <3>2. CASE x \in Received(f)
      BY <3>2, RangeBelow DEF Received, Log!TypeOK
    <3>3. CASE x \in Lines(queue[f])
      <4>1. queue[f] \in Seq(Seq(Nat))
        BY DEF Log!TypeOK
      <4>2. PICK j \in DOMAIN queue[f] : x \in Range(queue[f][j])
        BY <3>3, LinesOf
      <4>3. queue[f][j] \in Seq(Nat)
        BY <4>1
      <4> QED
        BY <4>2, <4>3, RangeBelow
    <3> QED
      BY <3>1, <3>2, <3>3
  <2> QED
    BY <1>1, <2>1, <2>2
<1> QED
  BY <1>2, <1>3, <1>4 DEF FollowerInv, Sound

LEMMA HangUpKeeps ==
    ASSUME NEW f \in Followers, Log!TypeOK, FollowerInv(f), Log!HangUp(f)
    PROVE  FollowerInv(f)'
<1>1. /\ queue'[f] = << >> /\ f \in away'
      /\ UNCHANGED <<file, pc, at, lagged, first, upto, seen>>
  BY DEF Log!HangUp, Log!TypeOK, Log!log
<1>2. Owed(f)' = Owed(f) /\ Received(f)' = Received(f) /\ Given(f)' = Received(f)
  BY <1>1, EmptySequence DEF Owed, Backlog, Kept, Intact, Given, Received
<1>3. Ordered(seen[f], queue[f])'
  <2>1. DOMAIN << >> = {}
    OBVIOUS
  <2> QED
    BY <1>1, <2>1 DEF FollowerInv, Ordered
<1> QED
  BY <1>1, <1>2, <1>3 DEF FollowerInv, Unsent, Waiting, Sound, Given, NoGap, Complete

LEMMA BodyKeeps ==
    ASSUME LogConstants, Log!TypeOK, SharedInv, NEW f \in Followers, FollowerInv(f), Log!Body(f)
    PROVE  FollowerInv(f)'
<1> DEFINE h == Head(queue[f])
           t == Tail(queue[f])
<1>1. /\ queue[f] # << >> /\ queue'[f] = t /\ seen'[f] = seen[f] \o h
      /\ UNCHANGED <<file, pc, away, at, lagged, first, upto>>
  BY DEF Log!Body, Log!TypeOK, Log!log
<1>2. /\ Ordered(seen[f] \o h, t) /\ Range(seen[f] \o h) = Range(seen[f]) \cup Range(h)
      /\ Lines(queue[f]) = Range(h) \cup Lines(t)
      /\ \A x \in Range(h), y \in Lines(t) : x < y
  <2>1. queue[f] \in Seq(Seq(Nat)) /\ seen[f] \in Seq(Nat)
    BY DEF Log!TypeOK
  <2> QED
    BY <1>1, <2>1, OrderedTaken DEF FollowerInv
<1> HIDE DEF h, t
<1>3. /\ Owed(f)' = Owed(f) /\ Received(f)' = Received(f) \cup Range(h)
      /\ Given(f)' = Given(f) /\ Given(f) = Received(f)' \cup Lines(t)
  BY <1>1, <1>2 DEF Owed, Backlog, Kept, Intact, Given, Received
<1>4. ~Waiting(f) /\ pc[f] # "answered" /\ f \notin away
  BY <1>1 DEF FollowerInv, Unsent
<1>5. NoGap(f)'
  <2> SUFFICES ASSUME ~lagged[f], NEW x \in Owed(f), NEW y \in Received(f)', x < y
               PROVE  x \in Received(f)'
    BY <1>1, <1>3 DEF NoGap
  <2>1. CASE y \in Received(f)
    BY <1>3, <2>1 DEF FollowerInv, NoGap
  <2>2. CASE y \in Range(h)
    <3>1. y <= at[f] /\ y \in Given(f)
      BY <1>3, <1>4, <2>2 DEF FollowerInv, Sound
    <3>2. x \in Int /\ y \in Int /\ at[f] \in Int
      <4>1. Owed(f) \subseteq 1 .. file /\ at[f] \in Nat
        BY OwedLines DEF Log!TypeOK, SharedInv, Span
      <4> QED
        BY <3>1, <4>1 DEF FollowerInv, Sound
    <3>3. x \in Given(f)
      BY <1>4, <3>1, <3>2 DEF FollowerInv, Complete, Engaged, Waiting, Log!TypeOK
    <3>4. x \notin Lines(t)
      BY <1>2, <2>2, <3>2
    <3> QED
      BY <1>3, <3>3, <3>4
  <2> QED
    BY <1>3, <2>1, <2>2
<1> QED
  BY <1>1, <1>2, <1>3, <1>4, <1>5
     DEF FollowerInv, Unsent, Waiting, Sound, Complete, Engaged

LogInv == Log!TypeOK /\ SharedInv /\ \A f \in Followers : FollowerInv(f)

LEMMA LogInvInit == LogConstants /\ Log!Init => LogInv
  BY LogTypeInit, SharedInvInit, FollowerInvInit DEF LogInv

LEMMA LogInvNext ==
    ASSUME LogConstants, LogInv, [Log!Next]_(Log!vars)
    PROVE  LogInv'
<1> USE DEF LogInv
<1>1. Log!TypeOK' /\ SharedInv'
  BY LogTypeNext, SharedInvNext DEF SharedInv
<1>2. ASSUME NEW g \in Followers, Untouched(g), pc'[g] = pc[g], file' = file \/ file' = file + 1
      PROVE  FollowerInv(g)'
  BY <1>1, <1>2, FollowerInvMoved DEF Waiting, Engaged
(* A step of one request leaves the others alone.                          *)
<1>3. ASSUME NEW f \in Followers,
             \/ Log!Refuse(f) \/ Log!Forward(f) \/ Log!Body(f) \/ Log!HangUp(f)
             \/ \E n \in Containers \cup {NoName} : Log!Resolve(f, n) \/ Log!GetLogs(f, n)
      PROVE  file' = file /\ \A g \in Followers : g # f => Untouched(g) /\ pc'[g] = pc[g]
  <2> DEFINE Apart == file' = file /\ \A g \in Followers : g # f => Untouched(g) /\ pc'[g] = pc[g]
  <2> USE DEF Log!TypeOK, Log!log, Untouched
  <2>1. CASE Log!Forward(f)
    <3>1. CASE Log!StreamErr(f) \/ Log!CheckClosed(f) \/ Log!SendErr(f) \/ Log!PollEmpty(f)
               \/ Log!NoticeClosed(f) \/ Log!Wake(f) \/ Log!EndStream(f)
      BY <3>1 DEF Log!StreamErr, Log!CheckClosed, Log!SendErr, Log!PollEmpty, Log!NoticeClosed,
                  Log!Wake, Log!EndStream
    <3>2. CASE Log!SnapshotRead(f) \/ Log!Subscribe(f)
      BY <3>2 DEF Log!SnapshotRead, Log!Subscribe
    <3>3. CASE Log!SendBacklog(f)
      BY <3>3 DEF Log!SendBacklog
    <3>4. CASE Log!Receive(f) \/ Log!PassOver(f) \/ Log!Lag(f)
      BY <3>4 DEF Log!Receive, Log!PassOver, Log!Lag
    <3> QED
      BY <2>1, <3>1, <3>2, <3>3, <3>4 DEF Log!Forward
  <2>2. CASE Log!Refuse(f) \/ Log!Body(f) \/ Log!HangUp(f)
    BY <2>2 DEF Log!Refuse, Log!Body, Log!HangUp
  <2>3. ASSUME NEW n, Log!Resolve(f, n) \/ Log!GetLogs(f, n) PROVE Apart
    BY <2>3 DEF Log!Resolve, Log!GetLogs
  <2> QED
    BY <1>3, <2>1, <2>2, <2>3
<1>4. ASSUME NEW f \in Followers,
             \/ Log!Refuse(f) \/ Log!StreamErr(f) \/ Log!SnapshotRead(f) \/ Log!Subscribe(f)
             \/ \E n \in Containers \cup {NoName} : Log!Resolve(f, n)
      PROVE  FollowerInv(f)'
  <2>1. /\ Waiting(f) /\ Waiting(f)'
        /\ queue'[f] = queue[f] /\ seen'[f] = seen[f] /\ lagged'[f] = lagged[f]
    BY <1>4 DEF Log!Refuse, Log!StreamErr, Log!SnapshotRead, Log!Subscribe, Log!Resolve,
                Log!TypeOK, Waiting
  <2> QED
    BY <2>1, FollowerInvBefore
<1>5. ASSUME NEW f \in Followers,
             \/ Log!CheckClosed(f) \/ Log!SendErr(f) \/ Log!PollEmpty(f) \/ Log!NoticeClosed(f)
             \/ Log!Wake(f) \/ Log!EndStream(f)
      PROVE  FollowerInv(f)'
  <2>1. /\ Untouched(f) /\ file' = file
        /\ pc[f] \in {"check", "loop", "polled", "drain"}
        /\ pc'[f] \in {"cut", "loop", "gone", "polled", "drain", "ended"}
    BY <1>5 DEF Log!CheckClosed, Log!SendErr, Log!HasLine, Log!PollEmpty, Log!NoticeClosed,
                Log!Wake, Log!EndStream, Log!TypeOK, Log!log, Untouched
  <2>2. ~Waiting(f)' /\ Engaged(f) /\ pc[f] # "answered" /\ pc'[f] # "answered"
    BY <2>1 DEF Waiting, Engaged
  <2> QED
    BY <1>1, <2>1, <2>2, FollowerInvMoved
<1>6. ASSUME NEW f \in Followers,
             \/ Log!Refuse(f) \/ Log!Forward(f) \/ Log!Body(f) \/ Log!HangUp(f)
             \/ \E n \in Containers \cup {NoName} : Log!Resolve(f, n) \/ Log!GetLogs(f, n)
      PROVE  \A g \in Followers : FollowerInv(g)'
  <2>1. FollowerInv(f)'
    BY <1>4, <1>5, <1>6, SendBacklogKeeps, ReceiveKeeps, LagKeeps, BodyKeeps, HangUpKeeps,
       GetLogsKeeps DEF Log!Forward
  <2>2. ASSUME NEW g \in Followers, g # f PROVE FollowerInv(g)'
    BY <1>2, <1>3, <1>6, <2>2
  <2> QED
    BY <2>1, <2>2
<1>7. ASSUME UNCHANGED Log!requests, file' = file \/ file' = file + 1
      PROVE  \A g \in Followers : FollowerInv(g)'
  BY <1>2, <1>7 DEF Log!requests, Untouched
<1>8. CASE UNCHANGED Log!vars
  BY <1>1, <1>7, <1>8 DEF Log!vars, Log!log
<1>9. CASE Log!Next
  <2>1. ASSUME NEW p \in Pumps, Log!PumpStep(p) PROVE \A g \in Followers : FollowerInv(g)'
    BY <1>7, <2>1 DEF Log!PumpStep, Log!AppendWrite, Log!AppendSend, Log!Eof
  <2>2. ASSUME Log!RemoveContainer \/ \E c \in Containers : Log!Record(c)
        PROVE  \A g \in Followers : FollowerInv(g)'
    BY <1>7, <2>2 DEF Log!RemoveContainer, Log!Record, Log!log
  <2>3. \A g \in Followers : FollowerInv(g)'
    BY <1>6, <1>9, <2>1, <2>2 DEF Log!Next
  <2> QED
    BY <1>1, <2>3
<1> QED
  BY <1>8, <1>9

LEMMA LogInvariant ==
    ASSUME LogConstants PROVE Log!Spec => []LogInv
<1>1. Log!Init => LogInv
  BY LogInvInit
<1>2. LogInv /\ [Log!Next]_(Log!vars) => LogInv'
  BY LogInvNext
<1> QED
  BY <1>1, <1>2, PTL DEF Log!Spec

(* Every variable of the log, its pumps and the requests for it keeps its  *)
(* type in every reachable state (embedded.rs, the log handlers).          *)
THEOREM LogTypeCorrect ==
    ASSUME LogConstants PROVE Log!Spec => []Log!TypeOK
<1>1. Log!Spec => []LogInv
  BY LogInvariant
<1>2. LogInv => Log!TypeOK
  BY DEF LogInv
<1> QED
  BY <1>1, <1>2, PTL

(***************************************************************************)
(* A client receives only lines it is owed, each at most once and in order *)
(* and, unless its receiver lagged, none before an earlier one it is owed: *)
(* append and snapshot_and_follow hold one lock, so that no line falls     *)
(* between the snapshot and the subscription and none is in both           *)
(* (embedded.rs:443-445).  It is not owed the lines that are not UTF-8,    *)
(* nor, for one of them, the file, nor what limitBytes cuts (LogContract). *)
(***************************************************************************)
THEOREM LogExactlyOnce ==
    ASSUME LogConstants PROVE Log!Spec => []ExactlyOnce
<1>1. Log!Spec => []LogInv
  BY LogInvariant
<1>2. LogInv => ExactlyOnce
  BY DEF LogInv, FollowerInv, Ordered, Rising, Sound, Given, NoGap, ExactlyOnce
<1> QED
  BY <1>1, <1>2, PTL

(***************************************************************************)
(* A stream that ends with its container and never lagged has handed over  *)
(* every line it owes: closed is set by the last pump, after all its lines *)
(* are published, and a forwarder that sees it before it has them all      *)
(* drains what is left (embedded.rs:1105-1114).                            *)
(***************************************************************************)
THEOREM LogNothingLost ==
    ASSUME LogConstants PROVE Log!Spec => []NothingLostAtTheEnd
<1>1. Log!Spec => []LogInv
  BY LogInvariant
<1>2. LogInv => NothingLostAtTheEnd
  <2> SUFFICES ASSUME LogInv, NEW f \in Followers, pc[f] = "ended", ~lagged[f], f \notin away
               PROVE  Owed(f) \subseteq Received(f) \cup Underway(f)
    BY DEF NothingLostAtTheEnd
  <2>1. at[f] = sent /\ Log!Exited
    BY DEF LogInv, SharedInv, AtTheEnd
  <2>2. lock \notin Pumps
    BY <2>1 DEF LogInv, SharedInv, Locking, Log!Exited
  <2>3. file = at[f]
    BY <2>1, <2>2 DEF LogInv, SharedInv, Locking
  <2>4. Owed(f) \subseteq 1 .. file
    BY OwedLines DEF LogInv, Log!TypeOK, SharedInv, Span
  <2>5. \A x \in Owed(f) : x <= at[f] => x \in Given(f)
    BY DEF LogInv, FollowerInv, Complete, Engaged
  <2>6. Given(f) = Received(f) \cup Underway(f)
    BY DEF Given, Lines, Underway
  <2> QED
    BY <2>3, <2>4, <2>5, <2>6
<1> QED
  BY <1>1, <1>2, PTL
=============================================================================
