-------------------------------- MODULE Bus --------------------------------
(***************************************************************************)
(* The buses of the servers of a cluster (server/bus.rs): each server has  *)
(* one broadcast channel, to which its own handlers and its listener send. *)
(* Events are numbered in the order they are published, and a channel is   *)
(* all that was ever sent to it; how much of it a receiver can still get   *)
(* is the receiver's matter (WatchBus).                                    *)
(***************************************************************************)
EXTENDS Integers, Sequences, Functions

CONSTANT Servers  \* server processes on one Postgres database

VARIABLES
    events,  \* the events published: [origin, obj]
    bus      \* server -> the events sent to its channel

Ids == DOMAIN events

(* tx.send: an event goes to the channel of a server.                      *)
Send(s, e) == bus' = [bus EXCEPT ![s] = Append(@, e)]

(***************************************************************************)
(* An event reaches the channel of a server at most once, whichever way it *)
(* comes: "loop avoidance via instance_id" (bus.rs:16-17).                 *)
(***************************************************************************)
NoEcho == \A s \in Servers : IsInjective(bus[s])
=============================================================================
