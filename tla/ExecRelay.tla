----------------------------- MODULE ExecRelay -----------------------------
(***************************************************************************)
(* One kubectl exec or port-forward: the client, the relay in the API      *)
(* server (server/api.rs), the handler in the agent (node/agent.rs) and    *)
(* the session an engine opens (node/runtime), or the TCP connection to    *)
(* the pod.  Server and agent each run two loops, one per direction,       *)
(* under a select! that drops both as soon as one of them returns.         *)
(*                                                                         *)
(* Output is chunks <<stream, number>>; what a chunk, a frame of stdin or  *)
(* an argument says is left out, and so are resize frames, which change    *)
(* nothing but the terminal.  A connection and a pipe hold a few frames;   *)
(* what was sent before its sender closed it is still delivered.           *)
(***************************************************************************)
EXTENDS Integers, Sequences, FiniteSets

CONSTANTS
    Containers,  \* the containers in the pod's spec
    NoName,      \* no container is named in the request
    Kinds,       \* what the requests open: Pipes, Tty, Docker, Wasm, Forward
    UpSize,      \* frames a connection holds towards the process
    DownSize,    \* and towards the client
    PipeSize,    \* chunks a pipe holds, with the channel its reader fills
    MaxOut,      \* bound: chunks the process writes
    MaxIn        \* bound: frames of stdin the client sends

(***************************************************************************)
(* The sessions.  streams: what is read separately and merged; status:     *)
(* whether the end is reported on the error channel; tells: whether there  *)
(* is an exit code to wait for; kills: whether the process is killed when  *)
(* the session is dropped; strict: whether writing to a process that no    *)
(* longer reads must fail; shaky: whether output and exit code come over   *)
(* a connection to a daemon, and may fail; apart: whether the command runs *)
(* beside the container, whether that runs or not.                         *)
(***************************************************************************)
Pipes   == [streams |-> {"out", "err"}, status |-> TRUE, tells |-> TRUE,
            kills |-> TRUE, strict |-> TRUE, shaky |-> FALSE, apart |-> FALSE]
Tty     == [streams |-> {"out"}, status |-> TRUE, tells |-> TRUE,
            kills |-> TRUE, strict |-> FALSE, shaky |-> FALSE, apart |-> FALSE]
Docker  == [streams |-> {"out"}, status |-> TRUE, tells |-> TRUE,
            kills |-> FALSE, strict |-> FALSE, shaky |-> TRUE, apart |-> FALSE]
Wasm    == [streams |-> {"out", "err"}, status |-> TRUE, tells |-> FALSE,
            kills |-> FALSE, strict |-> TRUE, shaky |-> FALSE, apart |-> TRUE]
Forward == [streams |-> {"out"}, status |-> FALSE, tells |-> FALSE,
            kills |-> FALSE, strict |-> FALSE, shaky |-> FALSE, apart |-> FALSE]

AllStreams == {"out", "err"}
Session == [streams : SUBSET AllStreams, status : BOOLEAN, tells : BOOLEAN, kills : BOOLEAN,
            strict : BOOLEAN, shaky : BOOLEAN, apart : BOOLEAN]

ASSUME ExecRelayAssumption ==
    /\ IsFiniteSet(Containers) /\ NoName \notin Containers /\ Kinds \subseteq Session
    /\ {UpSize, DownSize, PipeSize} \subseteq Nat \ {0} /\ {MaxOut, MaxIn} \subseteq Nat

VARIABLES
    kind,      \* the session requested
    up,        \* whether the containers run
    client,    \* "new", "open", "left" (hung up), "ended" (its connection is closed)
    typed,     \* frames of stdin the client has sent
    got,       \* the frames it has received
    server,    \* [pc, why]: the relay
    c2s, s2c,  \* frames between client and server
    s2n, n2s,  \* frames between server and node
    agent,     \* [pc, status, blind, why]: the node's handler
    proc,      \* [st, code, reads, outs]: the process, or the peer in the pod
    stdin,     \* frames in its stdin
    wrote,     \* stream -> chunks written
    pipe,      \* stream -> chunks between the process and the agent
    reaped     \* the exit code has been sent to the agent

relay   == <<server, c2s, s2c, s2n, n2s>>
process == <<proc, stdin, wrote, pipe, reaped>>
ends    == <<client, typed, got>>
vars == <<kind, up, ends, relay, agent, process>>

(* The frames: a channel and what it says.                                 *)
Data    == <<"stdin", 0>>
Success == <<"status", 0>>
Failure == <<"status", 1>>
Error   == <<"error", 0>>
Close   == <<"close", 0>>

Init ==
    /\ kind \in Kinds
    /\ up = TRUE
    /\ client = "new" /\ typed = 0 /\ got = << >>
    /\ server = [pc |-> "idle", why |-> "none"]
    /\ c2s = << >> /\ s2c = << >> /\ s2n = << >> /\ n2s = << >>
    /\ agent = [pc |-> "idle", status |-> Success, blind |-> FALSE, why |-> "none"]
    /\ proc = [st |-> "none", code |-> 0, reads |-> FALSE, outs |-> {}]
    /\ stdin = 0
    /\ wrote = [s \in AllStreams |-> 0]
    /\ pipe = [s \in AllStreams |-> << >>]
    /\ reaped = FALSE
-----------------------------------------------------------------------------
(* The request: exec_pod and port_forward_pod.                             *)

(* The container named, or the only one there is.                          *)
Chosen(asked) ==
    IF asked # NoName THEN asked
    ELSE IF Cardinality(Containers) = 1 THEN CHOOSE c \in Containers : TRUE
    ELSE NoName

(* The pod has to exist, to be bound and its node to have an address.      *)
Request(asked, reachable) ==
    LET ok == reachable /\ (kind.status => Chosen(asked) # NoName)
    IN  /\ server.pc = "idle"
        /\ server' = [server EXCEPT !.pc = IF ok THEN "connect" ELSE "closed"]
        /\ client' = IF ok THEN "open" ELSE "ended"
        /\ UNCHANGED <<kind, up, typed, got, c2s, s2c, s2n, n2s, agent, process>>

(* The agent's handler upgrades the connection, if the container is in     *)
(* pod_containers, ...                                                     *)
Connect ==
    /\ server.pc = "connect"
    /\ server' = [server EXCEPT !.pc = "relay"]
    /\ agent' = [agent EXCEPT !.pc = "start"]
    /\ UNCHANGED <<kind, up, ends, c2s, s2c, s2n, n2s, process>>

(* ... or it is not, or there is no agent: the client is told and closed.  *)
ConnectErr ==
    /\ server.pc = "connect"
    /\ server' = [server EXCEPT !.pc = "closed", !.why = "connect"]
    /\ s2c' = IF client = "left" THEN << >> ELSE <<Error, Close>>
    /\ UNCHANGED <<kind, up, ends, c2s, s2n, n2s, agent, process>>
-----------------------------------------------------------------------------
(* The client.                                                             *)

ClientType ==
    /\ client = "open" /\ typed < MaxIn
    /\ server.pc \in {"connect", "relay"} /\ Len(c2s) < UpSize
    /\ typed' = typed + 1
    /\ c2s' = Append(c2s, Data)
    /\ UNCHANGED <<kind, up, client, got, server, s2c, s2n, n2s, agent, process>>

ClientRead ==
    /\ client = "open" /\ s2c # << >>
    /\ s2c' = Tail(s2c)
    /\ got' = Append(got, Head(s2c))
    /\ client' = IF Head(s2c) = Close THEN "ended" ELSE "open"
    /\ UNCHANGED <<kind, up, typed, server, c2s, s2n, n2s, agent, process>>

(* The connection is closed without a close frame.                         *)
ClientCut ==
    /\ client = "open" /\ s2c = << >> /\ server.pc = "closed"
    /\ client' = "ended"
    /\ UNCHANGED <<kind, up, typed, got, relay, agent, process>>

(* It hangs up, with a close frame or without.                             *)
ClientLeave(frames) ==
    /\ client = "open"
    /\ client' = "left"
    /\ c2s' = IF server.pc = "closed" THEN << >> ELSE c2s \o frames
    /\ s2c' = << >>
    /\ UNCHANGED <<kind, up, typed, got, server, s2n, n2s, agent, process>>
-----------------------------------------------------------------------------
(* The relay: handle_exec_websocket, handle_portforward_websocket.         *)

(* A loop returns, and both connections are dropped.                       *)
EndRelay(why, up2, down2) ==
    /\ server' = [server EXCEPT !.pc = "closed", !.why = why]
    /\ c2s' = << >> /\ n2s' = << >>
    /\ s2n' = IF agent.pc = "closed" THEN << >> ELSE s2n \o up2
    /\ s2c' = IF client = "left" THEN << >> ELSE s2c \o down2

(* client_to_node: a frame is passed on, waiting for room, or cannot be,   *)
ServerUp ==
    /\ server.pc = "relay" /\ c2s # << >> /\ Head(c2s) = Data
    /\ agent.pc # "closed" /\ Len(s2n) < UpSize
    /\ c2s' = Tail(c2s) /\ s2n' = Append(s2n, Data)
    /\ UNCHANGED <<kind, up, ends, server, s2c, n2s, agent, process>>

(* since the node has closed its end; the network may tell only later.     *)
ServerUpErr ==
    /\ server.pc = "relay" /\ c2s # << >> /\ Head(c2s) = Data
    /\ agent.pc = "closed"
    /\ \/ EndRelay("write", << >>, << >>)
       \/ c2s' = Tail(c2s) /\ UNCHANGED <<server, s2c, s2n, n2s>>
    /\ UNCHANGED <<kind, up, ends, agent, process>>

(* The client's close frame is forwarded, for an exec.                     *)
ServerUpClose ==
    /\ server.pc = "relay" /\ c2s # << >> /\ Head(c2s) = Close
    /\ kind.status => Len(s2n) < UpSize \/ agent.pc = "closed"
    /\ EndRelay("client", IF kind.status THEN <<Close>> ELSE << >>, << >>)
    /\ UNCHANGED <<kind, up, ends, agent, process>>

ServerUpEof ==
    /\ server.pc = "relay" /\ c2s = << >> /\ client = "left"
    /\ EndRelay("client", << >>, << >>)
    /\ UNCHANGED <<kind, up, ends, agent, process>>

(* node_to_client: a frame is passed on; the relay of port-forward drops   *)
(* text frames, which is what the agent's errors are, ...                  *)
ServerDown ==
    /\ server.pc = "relay" /\ n2s # << >> /\ Head(n2s) # Close
    /\ client = "open" /\ Len(s2c) < DownSize
    /\ n2s' = Tail(n2s)
    /\ s2c' = IF Head(n2s) = Error /\ ~kind.status THEN s2c ELSE Append(s2c, Head(n2s))
    /\ UNCHANGED <<kind, up, ends, server, c2s, s2n, agent, process>>

ServerDownErr ==
    /\ server.pc = "relay" /\ n2s # << >> /\ Head(n2s) # Close
    /\ client = "left"
    /\ \/ EndRelay("client", << >>, << >>)
       \/ n2s' = Tail(n2s) /\ UNCHANGED <<server, c2s, s2c, s2n>>
    /\ UNCHANGED <<kind, up, ends, agent, process>>

(* ... until the agent closes.                                             *)
ServerDownClose ==
    /\ server.pc = "relay" /\ n2s # << >> /\ Head(n2s) = Close
    /\ EndRelay("node", << >>, IF kind.status THEN <<Close>> ELSE << >>)
    /\ UNCHANGED <<kind, up, ends, agent, process>>

ServerDownEof_Early ==
    /\ server.pc = "relay" /\ agent.pc = "closed"
    /\ EndRelay("node", << >>, << >>)
    /\ UNCHANGED <<kind, up, ends, agent, process>>
ServerDownEof ==
    /\ server.pc = "relay" /\ n2s = << >> /\ agent.pc = "closed"
    /\ EndRelay("node", << >>, << >>)
    /\ UNCHANGED <<kind, up, ends, agent, process>>
-----------------------------------------------------------------------------
(* The agent's handler.                                                    *)

(* runtime.exec, or the connection to the pod: a session is opened, ...    *)
AgentStart ==
    /\ agent.pc = "start"
    /\ up \/ kind.apart
    /\ agent' = [agent EXCEPT !.pc = "pump"]
    /\ proc' = [st |-> "running", code |-> 0, reads |-> TRUE, outs |-> kind.streams]
    /\ UNCHANGED <<kind, up, ends, relay, stdin, wrote, pipe, reaped>>

(* ... or cannot be: the container has gone since it was looked up, the    *)
(* command cannot be started, the connection is refused.                   *)
AgentStartErr ==
    /\ agent.pc = "start" /\ ~kind.apart
    /\ agent' = [agent EXCEPT !.pc = "closed", !.why = "start"]
    /\ n2s' = IF server.pc = "closed" THEN n2s
              ELSE IF kind.status THEN <<Error, Close>> ELSE <<Error>>
    /\ UNCHANGED <<kind, up, ends, server, c2s, s2c, s2n, process>>

InSession == agent.pc \in {"pump", "code", "status", "close"}

(* KillOnDrop: a process that was not reaped is killed.                    *)
Dropped_Forgotten == proc
Dropped ==
    IF kind.kills /\ ~reaped /\ proc.st = "running"
    THEN [st |-> "exited", code |-> 1, reads |-> FALSE, outs |-> {}] ELSE proc

(* One of the loops has returned: select! drops the other, the session and *)
(* the connection to the server.                                           *)
EndSession(why) ==
    /\ agent' = [agent EXCEPT !.pc = "closed", !.why = why]
    /\ proc' = Dropped
    /\ pipe' = [s \in AllStreams |-> << >>]
    /\ s2n' = << >> /\ stdin' = 0

(* docker_to_ws, tcp_to_ws: a chunk is sent; when it cannot be, the loop   *)
(* is left, ...                                                            *)
AgentPump(s) ==
    /\ agent.pc = "pump" /\ pipe[s] # << >>
    /\ pipe' = [pipe EXCEPT ![s] = Tail(@)]
    /\ IF server.pc = "closed"
       THEN agent' = [agent EXCEPT !.pc = IF kind.status THEN "code" ELSE "close", !.blind = TRUE]
            /\ UNCHANGED n2s
       ELSE Len(n2s) < DownSize /\ n2s' = Append(n2s, Head(pipe[s])) /\ UNCHANGED agent
    /\ UNCHANGED <<kind, up, ends, server, c2s, s2c, s2n, proc, stdin, wrote, reaped>>

(* ... as it is when the output ends, every reader having met its end,     *)
ReadersDone_Any == \E s \in kind.streams : s \notin proc.outs /\ pipe[s] = << >>
ReadersDone == \A s \in kind.streams : s \notin proc.outs /\ pipe[s] = << >>
AgentOutEnd ==
    /\ agent.pc = "pump"
    /\ ReadersDone
    /\ agent' = [agent EXCEPT !.pc = IF kind.status THEN "code" ELSE "close"]
    /\ UNCHANGED <<kind, up, ends, relay, process>>

(* or fails.                                                               *)
AgentOutErr ==
    /\ agent.pc = "pump" /\ kind.shaky
    /\ agent' = [agent EXCEPT !.pc = "code", !.blind = TRUE]
    /\ UNCHANGED <<kind, up, ends, relay, process>>

(* The exit code is waited for; ...                                        *)
AgentCode_NoWait ==
    /\ agent.pc = "code"
    /\ agent' = [agent EXCEPT !.pc = "status",
                              !.status = IF kind.tells /\ reaped /\ proc.code # 0
                                         THEN Failure ELSE Success]
    /\ UNCHANGED <<kind, up, ends, relay, process>>
AgentCode ==
    /\ agent.pc = "code"
    /\ kind.tells => reaped
    /\ agent' = [agent EXCEPT !.pc = "status",
                              !.status = IF kind.tells /\ proc.code # 0
                                         THEN Failure ELSE Success]
    /\ UNCHANGED <<kind, up, ends, relay, process>>

(* ... without one, after five seconds of a process that has closed its    *)
(* output or when the daemon gives no answer, it is taken for a success.   *)
AgentNoCode ==
    /\ agent.pc = "code" /\ kind.tells
    /\ proc.st = "running" \/ kind.shaky
    /\ agent' = [agent EXCEPT !.pc = "status", !.status = Success, !.blind = TRUE]
    /\ UNCHANGED <<kind, up, ends, relay, process>>

AgentStatus ==
    /\ agent.pc = "status"
    /\ agent' = [agent EXCEPT !.pc = "close"]
    /\ IF server.pc = "closed" THEN UNCHANGED n2s
       ELSE Len(n2s) < DownSize /\ n2s' = Append(n2s, agent.status)
    /\ UNCHANGED <<kind, up, ends, server, c2s, s2c, s2n, process>>

AgentClose ==
    /\ agent.pc = "close"
    /\ IF server.pc = "closed" THEN UNCHANGED n2s
       ELSE Len(n2s) < DownSize /\ n2s' = Append(n2s, Close)
    /\ EndSession("done")
    /\ UNCHANGED <<kind, up, ends, server, c2s, s2c, wrote, reaped>>

(* ws_to_docker, ws_to_tcp: a frame is written, waiting for room; ...      *)
AgentIn ==
    /\ InSession /\ s2n # << >> /\ Head(s2n) = Data
    /\ proc.reads /\ stdin < PipeSize
    /\ s2n' = Tail(s2n) /\ stdin' = stdin + 1
    /\ UNCHANGED <<kind, up, ends, server, c2s, s2c, n2s, agent, proc, wrote, pipe,
                   reaped>>

(* ... when nobody reads any more the write fails and the session is over. *)
AgentInErr ==
    /\ InSession /\ s2n # << >> /\ Head(s2n) = Data
    /\ ~proc.reads
    /\ EndSession("write")
    /\ UNCHANGED <<kind, up, ends, server, c2s, s2c, n2s, wrote, reaped>>

AgentInLost ==
    /\ InSession /\ s2n # << >> /\ Head(s2n) = Data
    /\ ~proc.reads /\ ~kind.strict
    /\ s2n' = Tail(s2n)
    /\ UNCHANGED <<kind, up, ends, server, c2s, s2c, n2s, agent, process>>

(* The client's close, or the end of the connection to the server.         *)
AgentInClose_FrameOnly ==
    /\ InSession
    /\ s2n # << >> /\ Head(s2n) = Close
    /\ EndSession("hangup")
    /\ UNCHANGED <<kind, up, ends, server, c2s, s2c, n2s, wrote, reaped>>
AgentInClose ==
    /\ InSession
    /\ \/ s2n # << >> /\ Head(s2n) = Close
       \/ s2n = << >> /\ server.pc = "closed"
    /\ EndSession("hangup")
    /\ UNCHANGED <<kind, up, ends, server, c2s, s2c, n2s, wrote, reaped>>
-----------------------------------------------------------------------------
(* The engine's side of the session.                                       *)

(* reap_exec, and Docker's polling of the exec.                            *)
Reap ==
    /\ InSession /\ kind.tells /\ proc.st = "exited" /\ ~reaped
    /\ reaped' = TRUE
    /\ UNCHANGED <<kind, up, ends, relay, agent, proc, stdin, wrote, pipe>>

(* What the process may do while its session lasts: write, ...             *)
ProcWrite(s) ==
    /\ InSession /\ s \in proc.outs /\ wrote["out"] + wrote["err"] < MaxOut
    /\ Len(pipe[s]) < PipeSize
    /\ wrote' = [wrote EXCEPT ![s] = @ + 1]
    /\ pipe' = [pipe EXCEPT ![s] = Append(@, <<s, wrote[s] + 1>>)]
    /\ UNCHANGED <<kind, up, ends, relay, agent, proc, stdin, reaped>>

(* read, ...                                                               *)
ProcRead ==
    /\ InSession /\ proc.reads /\ stdin > 0
    /\ stdin' = stdin - 1
    /\ UNCHANGED <<kind, up, ends, relay, agent, proc, wrote, pipe, reaped>>

(* close its stdin or its output, ...                                      *)
ProcClose ==
    /\ InSession /\ proc.st = "running"
    /\ \/ proc.reads /\ proc' = [proc EXCEPT !.reads = FALSE]
       \/ proc.outs # {} /\ proc' = [proc EXCEPT !.outs = {}]
    /\ UNCHANGED <<kind, up, ends, relay, agent, stdin, wrote, pipe, reaped>>

(* and end.                                                                *)
Ended(c) == [st |-> "exited", code |-> c, reads |-> FALSE, outs |-> {}]
ProcExit(c) ==
    /\ InSession /\ proc.st = "running"
    /\ proc' = Ended(c)
    /\ UNCHANGED <<kind, up, ends, relay, agent, stdin, wrote, pipe, reaped>>

(* The container stops, and takes what runs in it along.                   *)
ContainerStop ==
    /\ up /\ agent.pc # "closed"
    /\ up' = FALSE
    /\ proc' = IF proc.st = "running" /\ ~kind.apart THEN Ended(1) ELSE proc
    /\ UNCHANGED <<kind, ends, relay, agent, stdin, wrote, pipe, reaped>>

ClientStep == ClientRead \/ ClientCut
UpStep     == ServerUp \/ ServerUpErr \/ ServerUpClose \/ ServerUpEof
DownStep   == ServerDown \/ ServerDownErr \/ ServerDownClose \/ ServerDownEof
OutStep    == \/ AgentStart \/ AgentStartErr \/ (\E s \in AllStreams : AgentPump(s)) \/ AgentOutEnd
              \/ AgentOutErr \/ AgentCode \/ AgentNoCode \/ AgentStatus \/ AgentClose
InStep     == AgentIn \/ AgentInErr \/ AgentInLost \/ AgentInClose
Setup      == Connect \/ ConnectErr

Next ==
    \/ \E asked \in Containers \cup {NoName}, ok \in BOOLEAN : Request(asked, ok)
    \/ Setup \/ ClientStep \/ UpStep \/ DownStep \/ OutStep \/ InStep
    \/ ClientType \/ ClientLeave(<<Close>>) \/ ClientLeave(<< >>)
    \/ \E s \in AllStreams : ProcWrite(s)
    \/ Reap \/ ProcRead \/ ProcClose \/ ContainerStop
    \/ \E c \in {0, 1} : ProcExit(c)

Spec == Init /\ [][Next]_vars

(***************************************************************************)
(* Both loops under a select! are polled, the engine's tasks run, timers   *)
(* fire, and a client that stays reads.  Nobody owes a keystroke, a        *)
(* hang-up or anything the process does.                                   *)
(***************************************************************************)
FairSpec ==
    /\ Spec
    /\ WF_vars(Setup) /\ WF_vars(ClientStep)
    /\ WF_vars(UpStep) /\ WF_vars(DownStep) /\ WF_vars(OutStep) /\ WF_vars(InStep)
    /\ WF_vars(Reap)
-----------------------------------------------------------------------------
Statuses == {Success, Failure}
Chunks   == AllStreams \X Nat
Frames   == Statuses \cup {Error, Close} \cup Chunks
Relays   == [pc : {"idle", "connect", "relay", "closed"},
             why : {"none", "connect", "write", "client", "node"}]
Agents   == [pc : {"idle", "start", "pump", "code", "status", "close", "closed"},
             status : Statuses, blind : BOOLEAN,
             why : {"none", "start", "done", "write", "hangup"}]
Procs    == [st : {"none", "running", "exited"}, code : {0, 1}, reads : BOOLEAN,
             outs : SUBSET AllStreams]
TypeOK ==
    /\ kind \in Kinds /\ up \in BOOLEAN
    /\ client \in {"new", "open", "left", "ended"} /\ typed \in 0 .. MaxIn
    /\ got \in Seq(Frames)
    /\ server \in Relays
    /\ c2s \in Seq({Data, Close}) /\ s2n \in Seq({Data, Close})
    /\ s2c \in Seq(Frames) /\ n2s \in Seq(Frames)
    /\ agent \in Agents
    /\ proc \in Procs
    /\ stdin \in 0 .. PipeSize
    /\ wrote \in [AllStreams -> 0 .. MaxOut]
    /\ pipe \in [AllStreams -> Seq(Chunks)]
    /\ reaped \in BOOLEAN

(* The chunks of s in q are those from a + 1 to b, in this order.          *)
Carries(q, s, a, b) ==
    /\ a <= b
    /\ \A i \in DOMAIN q : q[i][1] = s => q[i][2] \in a + 1 .. b
    /\ \A n \in a + 1 .. b : \E i \in DOMAIN q : q[i] = <<s, n>>
    /\ \A i, j \in DOMAIN q : i < j /\ q[i][1] = s /\ q[j][1] = s => q[i][2] < q[j][2]

Says(st) == \E i \in DOMAIN got : got[i] = st

(***************************************************************************)
(* The client receives the chunks of a stream in the order they were       *)
(* written, without a gap, and when it is told how the command ended it    *)
(* has received them all, and receives nothing but the close after that:   *)
(* the status is sent when every reader has met the end of its pipe and    *)
(* all is sent (embedded.rs:1283-1313, agent.rs:1304-1346).  The output of *)
(* a process the agent has lost sight of is not complete.                  *)
(***************************************************************************)
OutputIsWhole ==
    /\ \A s \in AllStreams : \E n \in 0 .. wrote[s] : Carries(got, s, 0, n)
    /\ \A i \in DOMAIN got : got[i] \in Statuses =>
         /\ ~agent.blind => \A s \in kind.streams : Carries(got, s, 0, wrote[s])
         /\ \A j \in i + 1 .. Len(got) : got[j] = Close

(***************************************************************************)
(* A command is reported to have succeeded only if it ended with code 0,   *)
(* and to have failed only if it did not: "so `kubectl exec` itself exits  *)
(* with that code" (agent.rs:1326-1327).  Left out are engines with no     *)
(* exit code and processes the agent has lost sight of.                    *)
(***************************************************************************)
StatusIsTrue ==
    \A st \in Statuses : Says(st) /\ kind.tells /\ ~agent.blind =>
        proc.st = "exited" /\ (st = Success <=> proc.code = 0)

(***************************************************************************)
(* "Tell kubectl how the exec finished" (agent.rs:1323): a client that     *)
(* stays is told how the command ended, when it ends by itself, unless a   *)
(* frame of stdin was written to somebody who no longer read: to the       *)
(* process, by the agent, or to the agent, by the server.                  *)
(***************************************************************************)
StatusArrives ==
    InSession /\ proc.st = "exited" /\ kind.status
        ~> (\E st \in Statuses : Says(st)) \/ client = "left" \/ "write" \in {agent.why, server.why}

(***************************************************************************)
(* "Without this, `kubectl exec -- sleep 1000` would outlive its           *)
(* WebSocket" (embedded.rs:688-689): a process whose client has hung up is *)
(* killed, unless its stdin stays full for ever, the one thing the agent   *)
(* can be waiting for that only the process can end.                       *)
(***************************************************************************)
DiesWithItsClient ==
    kind.kills /\ client = "left" /\ proc.st = "running"
        ~> proc.st # "running" \/ [](stdin = PipeSize)

(***************************************************************************)
(* Neither end is left behind: when the client hangs up or the process, or *)
(* the peer of a port-forward, has ended, the server's relay and the       *)
(* agent's handler both end, with the same exception.                      *)
(***************************************************************************)
BothEndsClose ==
    server.pc = "relay" /\ (client = "left" \/ proc.st = "exited")
        ~> (server.pc = "closed" /\ agent.pc = "closed") \/ [](stdin = PipeSize)
=============================================================================
