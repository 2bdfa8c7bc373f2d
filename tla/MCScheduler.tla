----------------------------- MODULE MCScheduler -----------------------------
(* Small clusters for Scheduler.                                           *)
EXTENDS Scheduler, TLC

CONSTANTS n1, n2, p1, p2, p3

Pod(cpu, mem, disk, app, anti, near) ==
    [cpu |-> cpu, mem |-> mem, disk |-> disk, app |-> app, anti |-> anti, near |-> near,
     node |-> NoNode, phase |-> "Pending"]
Pinned(pod, node, phase) == [pod EXCEPT !.node = node, !.phase = phase]
Node(cpu, mem, zone, disk, created) ==
    [cpu |-> cpu, mem |-> mem, zone |-> zone, disk |-> disk, created |-> created]

(* Two machines of one zone, one with no declared memory and one that the  *)
(* third pod may not go to; two pods that must not share a zone, of which  *)
(* the larger fills either machine, and one that wants to be near them.    *)
(* The first may also come with a node, the second with another size.      *)
MCMachines == n1 :> Node(2, Unlimited, "a", TRUE, 1) @@ n2 :> Node(2, 2, "a", FALSE, 2)
Small == Pod(1, 0, "any", "web", "web", "none")
Large == Pod(2, 1, "any", "web", "web", "none")
MCManifests == p1 :> {Small, Pinned(Small, n2, "Pending")}
            @@ p2 :> {Large, Small}
            @@ p3 :> {Pod(1, 1, "no", "db", "none", "web")}
=============================================================================
