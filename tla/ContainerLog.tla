---------------------------- MODULE ContainerLog ----------------------------
(***************************************************************************)
(* The log of one container of the embedded runtime                        *)
(* (node/runtime/embedded.rs): two pumps append the lines of stdout and    *)
(* stderr to a file and publish them to a broadcast channel; a follower    *)
(* (kubectl logs -f) gets the file so far, then what is published, until   *)
(* the container is gone.  A request comes through the API server          *)
(* (get_pod_logs) and the agent (handle_logs, handle_follow_logs), which   *)
(* looks its container up; the answer goes through a channel between the   *)
(* forwarder and the response body, and the API server passes it on.       *)
(*                                                                         *)
(* Lines are numbered in the order they reach the file.  append and        *)
(* snapshot_and_follow hold the file lock over two effects each, and are   *)
(* two steps each here.  The broadcast channel keeps the last Capacity     *)
(* lines; a receiver that falls further behind is told it lagged and goes  *)
(* on at the oldest line kept.                                             *)
(***************************************************************************)
EXTENDS LogContract, FiniteSets

CONSTANTS
    Pumps,      \* stdout and stderr
    TailOf,     \* request -> how many lines of the file it asks for
    Mine,       \* the name of the container
    Containers, \* the names of the pod's containers
    NoName,     \* no container is named
    Capacity,   \* LOG_FANOUT_CAPACITY
    ChanSize,   \* items in the channel to the response body
    Free,       \* nobody holds the file lock
    MaxLines    \* bound: lines the container writes

ASSUME ContainerLogAssumption ==
    /\ Pumps \cap Followers = {} /\ Free \notin Pumps \cup Followers
    /\ IsFiniteSet(Pumps) /\ Pumps # {}
    /\ {Capacity, ChanSize} \subseteq Nat \ {0} /\ MaxLines \in Nat
    /\ Mine \in Containers /\ NoName \notin Containers /\ IsFiniteSet(Containers)
    /\ TailOf \in [Followers -> Nat] /\ LimitOf \in [Followers -> Nat]

VARIABLES
    lock,      \* who holds the file lock
    sent,      \* lines published
    pump,      \* "read", "send" (has written, not yet published), "done"
    closed,    \* the value in the watch channel
    removed,   \* the container has left the map of containers
    recorded,  \* the pod's containers in the agent's pod_containers
    at         \* request -> the last published line its receiver has been past

log   == <<lock, file, sent, pump, closed>>
place == <<removed, recorded>>
requests == <<pc, queue, away, at, lagged, first, upto, seen>>
vars  == <<log, place, requests>>


Receiving == {f \in Followers : pc[f] \in {"backlog", "check", "loop", "polled", "drain"}}
Exited    == \A p \in Pumps : pump[p] = "done"

Init ==
    /\ lock = Free
    /\ file = 0 /\ sent = 0
    /\ pump = [p \in Pumps |-> "read"]
    /\ closed = FALSE /\ removed = FALSE
    /\ recorded = {}
    /\ pc = [f \in Followers |-> "new"]
    /\ queue = [f \in Followers |-> << >>]
    /\ away = {}
    /\ at = [f \in Followers |-> 0]
    /\ lagged = [f \in Followers |-> FALSE]
    /\ first = [f \in Followers |-> 1]
    /\ upto = [f \in Followers |-> 0]
    /\ seen = [f \in Followers |-> << >>]
-----------------------------------------------------------------------------
(* append: the line goes to the file, under the lock,                      *)
AppendWrite_Unlocked(p) ==
    /\ pump[p] = "read"
    /\ file < MaxLines
    /\ file' = file + 1
    /\ pump' = [pump EXCEPT ![p] = "send"]
    /\ UNCHANGED <<lock, sent, closed, place, requests>>
AppendWrite(p) ==
    /\ pump[p] = "read"
    /\ file < MaxLines
    /\ lock = Free
    /\ lock' = p
    /\ file' = file + 1
    /\ pump' = [pump EXCEPT ![p] = "send"]
    /\ UNCHANGED <<sent, closed, place, requests>>

(* and to the channel, and the lock is released.                           *)
AppendSend(p) ==
    /\ pump[p] = "send"
    /\ sent' = sent + 1
    /\ lock' = Free
    /\ pump' = [pump EXCEPT ![p] = "read"]
    /\ UNCHANGED <<file, closed, place, requests>>

(***************************************************************************)
(* End of file on one pipe.  The pump that brings open_pumps to zero sets  *)
(* closed; watch::Sender::send keeps the old value when no receiver is     *)
(* there to see the new one.                                               *)
(***************************************************************************)
Eof_Silent(p) ==
    /\ pump[p] = "read"
    /\ pump' = [pump EXCEPT ![p] = "done"]
    /\ UNCHANGED <<lock, file, sent, closed, place, requests>>
Eof(p) ==
    /\ pump[p] = "read"
    /\ pump' = [pump EXCEPT ![p] = "done"]
    /\ closed' = (closed \/ (Exited' /\ Receiving # {}))
    /\ UNCHANGED <<lock, file, sent, place, requests>>

(* The agent's sync records a container of the pod, ...                    *)
Record(c) ==
    /\ ~removed /\ c \notin recorded
    /\ recorded' = recorded \cup {c}
    /\ UNCHANGED <<log, removed, requests>>

(* ... and its sweep, under the lock of its state, removes the containers  *)
(* of a pod that has gone and forgets them.  The log lives on with its     *)
(* pumps; the channel is closed once neither holds it.                     *)
RemoveContainer ==
    /\ Mine \in recorded
    /\ removed' = TRUE
    /\ recorded' = {}
    /\ UNCHANGED <<log, requests>>
-----------------------------------------------------------------------------
(* The request.                                                            *)

(* get_pod_logs: the container named, or the only one the pod has.         *)
Asked(name) ==
    IF name # NoName THEN name
    ELSE IF Containers = {Mine} THEN Mine ELSE NoName

(* It is answered with an error or a text when the pod is gone, unbound or *)
(* has several containers and none is named, or the node does not answer.  *)
Refuse(f) ==
    /\ pc[f] = "new"
    /\ pc' = [pc EXCEPT ![f] = "refused"]
    /\ UNCHANGED <<log, place, queue, away, at, lagged, first, upto, seen>>

(* The agent looks up the container by its name; without it, the only one  *)
(* it knows of that pod is taken.                                          *)
Resolved(asked) ==
    IF asked \in recorded THEN {asked}
    ELSE IF Cardinality(recorded) = 1 THEN recorded ELSE {}

(* handle_follow_logs gives the lock back between this and stream_logs.    *)
Resolve(f, name) ==
    /\ pc[f] = "new"
    /\ Asked(name) # NoName
    /\ pc' = [pc EXCEPT ![f] = IF Resolved(Asked(name)) = {Mine} THEN "resolved" ELSE "refused"]
    /\ UNCHANGED <<log, place, queue, away, at, lagged, first, upto, seen>>

(* read_to_string and render_log, of a file of n lines: the last Tail of   *)
(* them, cut to the limit.                                                 *)
FirstLine(f, n) == IF n > TailOf[f] THEN n - TailOf[f] + 1 ELSE 1
Rendered(f, a, n) == [i \in 1 .. Kept(f, a, n) |-> a + i - 1]

(* handle_logs: the lock is kept from the lookup to the reading, and the   *)
(* answer is the file so far.                                              *)
GetLogs(f, name) ==
    /\ pc[f] = "new"
    /\ Asked(name) # NoName /\ Resolved(Asked(name)) = {Mine}
    /\ lock = Free
    /\ pc' = [pc EXCEPT ![f] = "answered"]
    /\ first' = [first EXCEPT ![f] = FirstLine(f, file)]
    /\ upto' = [upto EXCEPT ![f] = file]
    /\ seen' = [seen EXCEPT ![f] = Rendered(f, FirstLine(f, file), file)]
    /\ UNCHANGED <<log, place, queue, away, at, lagged>>

(* stream_logs of a container that has been removed since.                 *)
StreamErr(f) ==
    /\ pc[f] = "resolved"
    /\ removed
    /\ pc' = [pc EXCEPT ![f] = "refused"]
    /\ UNCHANGED <<log, place, queue, away, at, lagged, first, upto, seen>>

(* snapshot_and_follow: the file is read, under the lock,                  *)
SnapshotRead(f) ==
    /\ pc[f] = "resolved"
    /\ ~removed
    /\ lock = Free
    /\ lock' = f
    /\ pc' = [pc EXCEPT ![f] = "snapshot"]
    /\ first' = [first EXCEPT ![f] = FirstLine(f, file)]
    /\ upto' = [upto EXCEPT ![f] = file]
    /\ UNCHANGED <<file, sent, pump, closed, place, queue, away, at, lagged, seen>>

(* the two channels are subscribed to, and the lock is released.           *)
Subscribe(f) ==
    /\ pc[f] = "snapshot"
    /\ lock' = Free
    /\ at' = [at EXCEPT ![f] = sent]
    /\ pc' = [pc EXCEPT ![f] = "backlog"]
    /\ UNCHANGED <<file, sent, pump, closed, place, queue, away, lagged, first, upto, seen>>

(* The forwarder sends the lines read as one item, if there are any, ...   *)
SendBacklog(f) ==
    LET lines == Rendered(f, first[f], upto[f])
    IN  /\ pc[f] = "backlog"
        /\ pc' = [pc EXCEPT ![f] = IF lines # << >> /\ f \in away THEN "gone" ELSE "check"]
        /\ queue' = IF lines = << >> \/ f \in away THEN queue
                    ELSE [queue EXCEPT ![f] = <<lines>>]
        /\ UNCHANGED <<log, place, away, at, lagged, first, upto, seen>>

(* ... and returns at once when the container is already marked closed.    *)
CheckClosed(f) ==
    /\ pc[f] = "check"
    /\ pc' = [pc EXCEPT ![f] = IF closed THEN "cut" ELSE "loop"]
    /\ UNCHANGED <<log, place, queue, away, at, lagged, first, upto, seen>>

Behind(f) == sent - at[f] > Capacity

(* live.recv() has a line, and the forwarder looks whether it is text.     *)
HasLine(f) == pc[f] \in {"loop", "drain"} /\ at[f] < sent /\ ~Behind(f)
IsText(f)  == at[f] + 1 \notin Garbled

(* It is, and is sent on when there is room.                               *)
Receive(f) ==
    /\ HasLine(f) /\ IsText(f) /\ f \notin away
    /\ Len(queue[f]) < ChanSize
    /\ at' = [at EXCEPT ![f] = @ + 1]
    /\ queue' = [queue EXCEPT ![f] = Append(@, <<at[f] + 1>>)]
    /\ UNCHANGED <<log, place, pc, away, lagged, first, upto, seen>>

(* It is not: render_live_line gives None and the line is passed over.     *)
PassOver(f) ==
    /\ HasLine(f) /\ ~IsText(f)
    /\ at' = [at EXCEPT ![f] = @ + 1]
    /\ UNCHANGED <<log, place, pc, queue, away, lagged, first, upto, seen>>

(* The body has been dropped: the send fails and the forwarder ends.       *)
SendErr_Retried(f) ==
    /\ HasLine(f) /\ IsText(f) /\ f \in away
    /\ UNCHANGED vars
SendErr(f) ==
    /\ HasLine(f) /\ IsText(f) /\ f \in away
    /\ pc' = [pc EXCEPT ![f] = "gone"]
    /\ UNCHANGED <<log, place, queue, away, at, lagged, first, upto, seen>>

(* live.recv() reports a lag: the receiver moves to the oldest line kept.  *)
(* In the drain the error ends the stream.                                 *)
Lag(f) ==
    /\ pc[f] \in {"loop", "drain"}
    /\ Behind(f)
    /\ at' = [at EXCEPT ![f] = sent - Capacity]
    /\ lagged' = [lagged EXCEPT ![f] = TRUE]
    /\ pc' = [pc EXCEPT ![f] = IF @ = "drain" THEN "ended" ELSE @]
    /\ UNCHANGED <<log, place, queue, away, first, upto, seen>>

(***************************************************************************)
(* select! is biased: live.recv() is polled first, and only when it has    *)
(* nothing is closed.changed().  Lines may come, and the pumps may end,    *)
(* between the two polls.  The sender of the channel goes with the last    *)
(* pump of a container that has been removed.                              *)
(***************************************************************************)
SenderGone == removed /\ Exited
PollEmpty(f) ==
    /\ pc[f] = "loop"
    /\ at[f] = sent /\ ~SenderGone
    /\ pc' = [pc EXCEPT ![f] = "polled"]
    /\ UNCHANGED <<log, place, queue, away, at, lagged, first, upto, seen>>

(* closed.changed() has the exit: what is buffered is drained.             *)
NoticeClosed_NoDrain(f) ==
    /\ pc[f] = "polled"
    /\ closed
    /\ pc' = [pc EXCEPT ![f] = "ended"]
    /\ UNCHANGED <<log, place, queue, away, at, lagged, first, upto, seen>>
NoticeClosed(f) ==
    /\ pc[f] = "polled"
    /\ closed
    /\ pc' = [pc EXCEPT ![f] = "drain"]
    /\ UNCHANGED <<log, place, queue, away, at, lagged, first, upto, seen>>

(* It has not, and the forwarder sleeps until live.recv() has something.   *)
Wake(f) ==
    /\ pc[f] = "polled"
    /\ at[f] < sent \/ SenderGone
    /\ pc' = [pc EXCEPT ![f] = "loop"]
    /\ UNCHANGED <<log, place, queue, away, at, lagged, first, upto, seen>>

(* The stream ends: drained, or the sender of the channel is gone.         *)
EndStream(f) ==
    /\ at[f] = sent
    /\ pc[f] = "drain" \/ (pc[f] = "loop" /\ SenderGone)
    /\ pc' = [pc EXCEPT ![f] = "ended"]
    /\ UNCHANGED <<log, place, queue, away, at, lagged, first, upto, seen>>

(* The body takes an item, and the API server passes it to the client.     *)
Body(f) ==
    /\ queue[f] # << >>
    /\ queue' = [queue EXCEPT ![f] = Tail(@)]
    /\ seen' = [seen EXCEPT ![f] = @ \o Head(queue[f])]
    /\ UNCHANGED <<log, place, pc, away, at, lagged, first, upto>>

(* kubectl goes away, and the body is dropped; the forwarder is not told.  *)
HangUp(f) ==
    /\ f \in Receiving \ away
    /\ away' = away \cup {f}
    /\ queue' = [queue EXCEPT ![f] = << >>]
    /\ UNCHANGED <<log, place, pc, at, lagged, first, upto, seen>>

PumpStep(p) == AppendWrite(p) \/ AppendSend(p) \/ Eof(p)
Forward(f) == \/ StreamErr(f) \/ SnapshotRead(f) \/ Subscribe(f) \/ SendBacklog(f)
              \/ CheckClosed(f) \/ Receive(f) \/ PassOver(f) \/ SendErr(f) \/ Lag(f)
              \/ PollEmpty(f) \/ NoticeClosed(f) \/ Wake(f) \/ EndStream(f)

Next ==
    \/ \E p \in Pumps : PumpStep(p)
    \/ \E f \in Followers : Refuse(f) \/ Forward(f) \/ Body(f) \/ HangUp(f)
    \/ \E f \in Followers, name \in Containers \cup {NoName} : Resolve(f, name) \/ GetLogs(f, name)
    \/ RemoveContainer \/ \E c \in Containers : Record(c)

Spec == Init /\ [][Next]_vars

(* A task that can run does, and a client that stays reads.  Nobody owes   *)
(* an exit, a removal, a request or a hang-up.                             *)
FairSpec ==
    /\ Spec
    /\ \A p \in Pumps : WF_vars(AppendSend(p))
    /\ \A f \in Followers : WF_vars(Forward(f)) /\ WF_vars(Body(f))
-----------------------------------------------------------------------------
TypeOK ==
    /\ lock \in Pumps \cup Followers \cup {Free}
    /\ file \in Nat /\ sent \in Nat
    /\ pump \in [Pumps -> {"read", "send", "done"}]
    /\ closed \in BOOLEAN /\ removed \in BOOLEAN
    /\ recorded \subseteq Containers
    /\ pc \in [Followers -> {"new", "resolved", "snapshot", "backlog", "check", "loop",
                             "polled", "drain", "ended", "cut", "gone", "answered", "refused"}]
    /\ queue \in [Followers -> Seq(Seq(Nat))] /\ away \subseteq Followers
    /\ at \in [Followers -> Nat]
    /\ lagged \in [Followers -> BOOLEAN]
    /\ first \in [Followers -> Nat \ {0}] /\ upto \in [Followers -> Nat]
    /\ seen \in [Followers -> Seq(Nat)]

Finished(f) == pc[f] \in {"ended", "cut", "gone"}

(***************************************************************************)
(* A follower that subscribed while the container ran has its stream ended *)
(* once the container exits, if it ever does.                              *)
(***************************************************************************)
FollowerEnds ==
    \A f \in Followers : f \in Receiving /\ ~Exited ~> (Finished(f) \/ []~Exited)

(***************************************************************************)
(* "Dropping the stream (kubectl hung up) drops `out`, the next send       *)
(* fails, and the task ends" (embedded.rs:1078-1080): the forwarder of a   *)
(* client that has gone ends, unless the container never writes another    *)
(* line of text and never exits.  (Neither a client that has gone nor a    *)
(* forwarder that has ended comes back.)                                   *)
(***************************************************************************)
ForwarderGoes ==
    \A f \in Followers :
        <>[](f \in away => Finished(f) \/ (~closed /\ at[f] + 1 .. sent \subseteq Garbled))
=============================================================================
