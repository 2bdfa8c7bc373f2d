------------------------------ MODULE WatchBus ------------------------------
(***************************************************************************)
(* The resources of the API and the change feed behind ?watch=true: the    *)
(* handlers that create, update and delete an object (server/api.rs), the  *)
(* bus of each server (server/bus.rs), its replication between the servers *)
(* of a Postgres cluster through change_log and LISTEN/NOTIFY              *)
(* (server/mod.rs, db/change_log.rs) and the watch streams                 *)
(* (server/table.rs).                                                      *)
(*                                                                         *)
(* One object of some kind is modelled, and the streams whose filter       *)
(* matches it.  A write makes the next version of it; 0 is no object, and  *)
(* what an event tells a client is the version it carries.  Events are     *)
(* numbered in the order they are published.  A broadcast channel keeps    *)
(* its last Capacity events.                                               *)
(***************************************************************************)
EXTENDS Bus, FiniteSets

CONSTANTS
    Kinds,      \* kinds of objects
    Handlers,   \* requests and controller steps in progress, at most
    Watchers,   \* clients that watch
    Nowhere,    \* not a server
    Capacity,   \* BUS_CAPACITY
    MaxWrites,  \* bound: writes and deletions of the object
    MaxFaults   \* bound: lost connections, failed statements, rounds of the pruner

ASSUME WatchBusAssumption ==
    /\ Nowhere \notin Servers
    /\ Capacity \in Nat \ {0} /\ MaxWrites \in Nat /\ MaxFaults \in Nat

VARIABLES
    kind,       \* the object's kind
    writes,     \* writes and deletions so far
    here,       \* whether the object is in its table
    handler,    \* [pc, server, obj] of each handler
    rep,        \* event -> how far its replication is
    log,        \* the events in change_log, oldest first
    listening,  \* the servers whose LISTEN connection is up
    inbox,      \* server -> notifications its listener has still to receive
    watch,      \* [pc, server, at, view, missed] of each watcher
    faults,     \* failures and prunings so far
    smooth      \* every write so far began when the one before it was known on
                \* every server (history)

object == <<kind, writes, here>>
feed == <<events, bus, rep, log, listening, inbox>>
vars == <<object, handler, feed, watch, faults, smooth>>

(***************************************************************************)
(* What the handlers of a kind do:                                         *)
(*   feed    : a write is published, and a watch subscribes to the bus     *)
(*   guarded : a deletion may be refused                                   *)
(* Nodes, service accounts, secrets, config maps and the four RBAC kinds   *)
(* are plain.                                                              *)
(***************************************************************************)
Plain     == [feed |-> TRUE, guarded |-> FALSE]
Namespace == [Plain EXCEPT !.guarded = TRUE]
Event     == [Plain EXCEPT !.feed = FALSE]

NoHandler == [pc |-> "idle", server |-> Nowhere, obj |-> 0]
NoWatch   == [pc |-> "idle", server |-> Nowhere, at |-> 0, view |-> 0, missed |-> FALSE]

Init ==
    /\ kind \in Kinds
    /\ writes = 0 /\ here = FALSE /\ smooth = TRUE
    /\ handler = [h \in Handlers |-> NoHandler]
    /\ events = << >>
    /\ bus = [s \in Servers |-> << >>]
    /\ rep = << >>
    /\ log = << >>
    /\ listening = {}
    /\ inbox = [s \in Servers |-> << >>]
    /\ watch = [w \in Watchers |-> NoWatch]
    /\ faults = 0

Fault == faults < MaxFaults /\ faults' = faults + 1
-----------------------------------------------------------------------------
(* What get finds: a version, or nothing.                                  *)
Stored == IF here THEN writes ELSE 0

Idle(h)  == handler[h].pc = "idle"
Start(h) == /\ Idle(h)
            /\ writes + Cardinality({g \in Handlers : handler[g].pc = "delete"}) < MaxWrites
            /\ smooth' = (smooth /\ (\A g \in Handlers : Idle(g)) /\ (\A e \in Ids : rep[e] = "done")
                                 /\ (\A s \in Servers : inbox[s] = << >>))

(* create and update: a handler writes the object, ...                     *)
Upsert(h, s) ==
    /\ Start(h)
    /\ writes' = writes + 1 /\ here' = TRUE
    /\ handler' = [handler EXCEPT ![h] = [pc |-> "read", server |-> s, obj |-> 0]]
    /\ UNCHANGED <<kind, feed, watch, faults>>

(* ... reads it back, as a later write may have left it, and fails when it *)
(* is gone, ...                                                            *)
ReadBack(h) ==
    /\ handler[h].pc = "read"
    /\ handler' = [handler EXCEPT ![h] = IF kind.feed /\ here
                                        THEN [@ EXCEPT !.pc = "publish", !.obj = Stored]
                                        ELSE NoHandler]
    /\ UNCHANGED <<object, feed, watch, faults, smooth>>

(* delete: the object is read for the event, ...                           *)
DeleteGet(h, s) ==
    /\ Start(h)
    /\ handler' = [handler EXCEPT ![h] = [pc |-> "delete", server |-> s,
                                          obj |-> IF kind.feed THEN Stored ELSE 0]]
    /\ UNCHANGED <<object, feed, watch, faults>>

(* ... and deleted, unless it is a system namespace or one with pods, ...  *)
DeleteRefused(h) ==
    /\ handler[h].pc = "delete" /\ kind.guarded
    /\ handler' = [handler EXCEPT ![h] = NoHandler]
    /\ UNCHANGED <<object, feed, watch, faults, smooth>>

(* ... which fails when it is not there; the event is about what was read, *)
(* if anything was.                                                        *)
DeleteRow_Silent(h) ==
    /\ handler[h].pc = "delete"
    /\ here' = FALSE
    /\ writes' = IF here THEN writes + 1 ELSE writes
    /\ handler' = [handler EXCEPT ![h] = NoHandler]
    /\ UNCHANGED <<kind, feed, watch, faults, smooth>>
DeleteRow(h) ==
    /\ handler[h].pc = "delete"
    /\ here' = FALSE
    /\ writes' = IF here THEN writes + 1 ELSE writes
    /\ handler' = [handler EXCEPT ![h] = IF here /\ @.obj # 0
                                        THEN [@ EXCEPT !.pc = "publish", !.obj = 0]
                                        ELSE NoHandler]
    /\ UNCHANGED <<kind, feed, watch, faults, smooth>>

(* The event is published: to the server's own channel at once, to the     *)
(* other servers by a task of its own.                                     *)
Publish(h) ==
    LET s == handler[h].server
    IN  /\ handler[h].pc = "publish"
        /\ events' = Append(events, [origin |-> s, obj |-> handler[h].obj])
        /\ Send(s, Len(events) + 1)
        /\ rep' = Append(rep, "insert")
        /\ handler' = [handler EXCEPT ![h] = NoHandler]
        /\ UNCHANGED <<object, log, listening, inbox, watch, faults, smooth>>

(* replicate: the row is inserted, ...                                     *)
Insert(e) ==
    /\ rep[e] = "insert"
    /\ rep' = [rep EXCEPT ![e] = "notify"]
    /\ log' = Append(log, e)
    /\ UNCHANGED <<object, handler, events, bus, listening, inbox, watch, faults, smooth>>

(* ... and every listening server is notified, the origin as well.         *)
Notify_Nobody(e) ==
    /\ rep[e] = "notify"
    /\ rep' = [rep EXCEPT ![e] = "done"]
    /\ UNCHANGED <<object, handler, events, bus, log, listening, inbox, watch, faults, smooth>>
Notify(e) ==
    /\ rep[e] = "notify"
    /\ rep' = [rep EXCEPT ![e] = "done"]
    /\ inbox' = [s \in Servers |->
                   IF s \in listening THEN Append(inbox[s], e) ELSE inbox[s]]
    /\ smooth' = (smooth /\ listening = Servers)
    /\ UNCHANGED <<object, handler, events, bus, log, listening, watch, faults>>

(* Either statement fails: a warning, and no second attempt.               *)
ReplicateErr(e) ==
    /\ rep[e] \in {"insert", "notify"}
    /\ Fault
    /\ rep' = [rep EXCEPT ![e] = "done"]
    /\ UNCHANGED <<object, handler, events, bus, log, listening, inbox, watch, smooth>>
-----------------------------------------------------------------------------
(* spawn_change_log_listener: connected.                                   *)
Listen(s) ==
    /\ s \notin listening
    /\ listening' = listening \cup {s}
    /\ UNCHANGED <<object, handler, events, bus, rep, log, inbox, watch, faults, smooth>>

(* recv fails: what was notified and not received is lost.                 *)
Disconnect(s) ==
    /\ s \in listening
    /\ Fault
    /\ listening' = listening \ {s}
    /\ inbox' = [inbox EXCEPT ![s] = << >>]
    /\ UNCHANGED <<object, handler, events, bus, rep, log, watch, smooth>>

(* A notification: the row is fetched; an echo of the server's own event   *)
(* and a row that was pruned are dropped, the rest goes to the channel.    *)
Relayed_Echo(s, e) == e \in Range(log)
Relayed(s, e) == e \in Range(log) /\ events[e].origin # s
Receive(s) ==
    /\ inbox[s] # << >>
    /\ inbox' = [inbox EXCEPT ![s] = Tail(@)]
    /\ IF Relayed(s, Head(inbox[s])) THEN Send(s, Head(inbox[s])) ELSE UNCHANGED bus
    /\ UNCHANGED <<object, handler, events, rep, log, listening, watch, faults, smooth>>

(* The fetch fails: a warning, and the notification is gone.               *)
FetchErr(s) ==
    /\ inbox[s] # << >>
    /\ Fault
    /\ inbox' = [inbox EXCEPT ![s] = Tail(@)]
    /\ UNCHANGED <<object, handler, events, bus, rep, log, listening, watch, smooth>>

(* The pruner: the k oldest rows are old enough.                           *)
Prune(k) ==
    /\ Fault
    /\ log' = SubSeq(log, k + 1, Len(log))
    /\ UNCHANGED <<object, handler, events, bus, rep, listening, inbox, watch, smooth>>
-----------------------------------------------------------------------------
(* A watch request: the table is listed, ...                               *)
List(w, s) ==
    /\ watch[w].pc = "idle"
    /\ watch' = [watch EXCEPT ![w] = [pc |-> "list", server |-> s, at |-> Len(bus[s]),
                                         view |-> Stored, missed |-> FALSE]]
    /\ UNCHANGED <<object, handler, feed, faults, smooth>>

(* ... then the bus is subscribed to and the list is sent; what came on    *)
(* the bus in between is on neither, ...                                   *)
Channel(w) == bus[watch[w].server]
Subscribe(w) ==
    /\ watch[w].pc = "list" /\ kind.feed
    /\ watch' = [watch EXCEPT ![w].pc = "live", ![w].at = Len(Channel(w)),
                              ![w].missed = @ \/ watch[w].at < Len(Channel(w))]
    /\ UNCHANGED <<object, handler, feed, faults, smooth>>

(* ... or, for a kind without a feed, the list and then only bookmarks.    *)
Snapshot(w) ==
    /\ watch[w].pc = "list" /\ ~kind.feed
    /\ watch' = [watch EXCEPT ![w] = [NoWatch EXCEPT !.pc = "mute"]]
    /\ UNCHANGED <<object, handler, feed, faults, smooth>>

(* The events that come are forwarded, ...                                 *)
Lags(w) == Len(Channel(w)) - watch[w].at > Capacity
Forward(w) ==
    /\ watch[w].pc = "live"
    /\ watch[w].at < Len(Channel(w)) /\ ~Lags(w)
    /\ watch' = [watch EXCEPT ![w].at = @ + 1,
                              ![w].view = events[Channel(w)[watch[w].at + 1]].obj]
    /\ UNCHANGED <<object, handler, feed, faults, smooth>>

(* ... until the receiver lags: the forwarder ends.  The stream is kept    *)
(* open by the bookmarks of the keepalive task ("mute").                   *)
Lagged(w) ==
    /\ watch[w].pc = "live"
    /\ Lags(w)
    /\ watch' = [watch EXCEPT ![w] = [NoWatch EXCEPT !.pc = "mute"]]
    /\ UNCHANGED <<object, handler, feed, faults, smooth>>

(* The client hangs up.                                                    *)
HangUp(w) ==
    /\ watch[w].pc \in {"live", "mute"}
    /\ watch' = [watch EXCEPT ![w] = NoWatch]
    /\ UNCHANGED <<object, handler, feed, faults, smooth>>

HandlerStep(h) == ReadBack(h) \/ DeleteRefused(h) \/ DeleteRow(h) \/ Publish(h)
Replicate(e) == Insert(e) \/ Notify(e) \/ ReplicateErr(e)
ListenerStep(s) == Listen(s) \/ Receive(s) \/ FetchErr(s)
WatchStep(w) == Subscribe(w) \/ Snapshot(w) \/ Forward(w) \/ Lagged(w)

Next ==
    \/ \E h \in Handlers : HandlerStep(h) \/ \E s \in Servers : Upsert(h, s) \/ DeleteGet(h, s)
    \/ \E e \in Ids : Replicate(e)
    \/ \E k \in 1 .. Len(log) : Prune(k)
    \/ \E s \in Servers : ListenerStep(s) \/ Disconnect(s)
    \/ \E w \in Watchers : WatchStep(w) \/ HangUp(w) \/ \E s \in Servers : List(w, s)

Spec == Init /\ [][Next]_vars

(* Every task that can run does; no client owes a request or a hang-up.    *)
FairSpec ==
    /\ Spec
    /\ \A h \in Handlers : WF_vars(HandlerStep(h))
    /\ \A e \in 1 .. MaxWrites : WF_vars(e \in Ids /\ Replicate(e))
    /\ \A s \in Servers : WF_vars(ListenerStep(s))
    /\ \A w \in Watchers : WF_vars(WatchStep(w))
-----------------------------------------------------------------------------
TypeOK ==
    /\ kind \in Kinds /\ writes \in 0 .. MaxWrites /\ here \in BOOLEAN /\ smooth \in BOOLEAN
    /\ handler \in [Handlers -> [pc : {"idle", "read", "delete", "publish"},
                                 server : Servers \cup {Nowhere}, obj : 0 .. MaxWrites]]
    /\ events \in Seq([origin : Servers, obj : 0 .. MaxWrites])
    /\ bus \in [Servers -> Seq(Ids)]
    /\ rep \in Seq({"insert", "notify", "done"}) /\ DOMAIN rep = Ids
    /\ log \in Seq(Ids)
    /\ listening \subseteq Servers
    /\ inbox \in [Servers -> Seq(Ids)]
    /\ \A w \in Watchers :
         /\ watch[w].pc \in {"idle", "list", "live", "mute"}
         /\ watch[w].view \in 0 .. MaxWrites
         /\ watch[w].pc \in {"list", "live"} => watch[w].at \in 0 .. Len(Channel(w))
    /\ faults \in 0 .. MaxFaults

(***************************************************************************)
(* An event published while a stream is live on a server that listens is   *)
(* forwarded on that stream, on whatever server it was published, unless   *)
(* the stream lags or ends: no interleaving of the two ways loses an       *)
(* event, once no statement fails, no connection is lost and nothing is    *)
(* pruned any more, whatever failed before (bus.rs:144-183,                *)
(* mod.rs:254-318, table.rs:197-214).                                      *)
(***************************************************************************)
Has(w, e) == \E i \in 1 .. watch[w].at : Channel(w)[i] = e
Reaches ==
    \A e \in 1 .. MaxWrites, w \in Watchers :
        /\ e \in Ids /\ rep[e] = "insert" /\ faults = MaxFaults
        /\ watch[w].pc = "live" /\ watch[w].server \in listening
        ~> watch[w].pc # "live" \/ Has(w, e)

(***************************************************************************)
(* "the client gets *live* updates after the initial snapshot"             *)
(* (table.rs:267-269): in the end a stream that forwards shows the object  *)
(* as it is, deleted or not, on whatever server it was written.  That      *)
(* needs every write to begin when the one before it is known everywhere,  *)
(* no failure and no pruning, and nothing on the bus between the list and  *)
(* the subscription: the events carry no version, so a client cannot tell  *)
(* an overtaken one.                                                       *)
(***************************************************************************)
ViewIsTrue ==
    \A w \in Watchers :
        <>[](smooth /\ faults = 0 /\ watch[w].pc = "live" /\ ~watch[w].missed
                => watch[w].view = Stored)
=============================================================================
