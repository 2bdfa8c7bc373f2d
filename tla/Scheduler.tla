------------------------------ MODULE Scheduler ------------------------------
(***************************************************************************)
(* The scheduler (server/scheduler.rs) over the pods and nodes tables: the *)
(* predicates and the score as operators, a tick as one step per database  *)
(* call.  A pod's manifest is what was last written under its name: its    *)
(* requests, nodeSelector, labels and affinity terms, and the nodeName and *)
(* the phase it may come with (a DaemonSet's pod, a pod a user pins, a pod *)
(* written back as it was read).  A node's labels, zone and allocatable    *)
(* are the value of Machine at its name.                                   *)
(*                                                                         *)
(* Quantities are numbers: a manifest or a machine has already been read   *)
(* by parse_cpu_millicores and parse_memory_bytes.  Unlimited stands for   *)
(* an allocatable that is missing or does not parse.                       *)
(***************************************************************************)
EXTENDS PodTable

CONSTANTS
    Schedulers,  \* the scheduler tasks of the masters
    Machine,     \* node -> [cpu, mem, zone, disk, created]
    Manifest,    \* pod name -> the manifests that may be written under it:
                 \* [cpu, mem, disk, app, anti, near, node, phase]
    NoNode,      \* node_name IS NULL
    NoZone,      \* a node without the topology label
    Unlimited,   \* no allocatable for a resource
    MostAllocated, \* TRUE for bin-packing, FALSE for spreading
    MaxCreates,  \* bound: pods the user creates
    MaxFlaps     \* bound: nodes, pods and statements that come, go or fail

Nodes == DOMAIN Machine
Names == DOMAIN Manifest
Specs == UNION {Manifest[p] : p \in Names}
Phases == {"Pending", "Running", "Failed"}

(* "none" in anti or near says that the pod has no such term.              *)
ASSUME SchedulerAssumption ==
    /\ NoNode \notin Nodes
    /\ IsFiniteSet(Nodes) /\ IsFiniteSet(Names)
    /\ \A m \in Specs : /\ m.cpu \in Nat /\ m.mem \in Nat /\ m.app # "none"
                        /\ m.node \in Nodes \cup {NoNode} /\ m.phase \in Phases
    /\ \A n \in Nodes : /\ Machine[n].cpu \in Nat \cup {Unlimited}
                        /\ Machine[n].mem \in Nat \cup {Unlimited}
                        /\ Machine[n].created \in Nat
    /\ MostAllocated \in BOOLEAN
    /\ MaxCreates \in Nat /\ MaxFlaps \in Nat

VARIABLES
    pods,    \* the pods table
    ready,   \* the nodes that list_ready returns
    sched,   \* the tick of each scheduler
    creates, \* pods created so far
    flaps,   \* changes of the environment so far
    crowded  \* history: the nodes on which more has come to stand than a tick knows

vars == <<pods, ready, sched, creates, flaps, crowded>>

None  == [n \in {} |-> 0]
Idle  == [pc |-> "idle", queue |-> None, nodes |-> {}, existing |-> {}]
Terminal == {"Succeeded", "Failed"}

(* An entry of the existing_pods vector: a row, or the copy pushed after a *)
(* bind in this tick, which stands beside the row it was copied from.      *)
Entry(name, spec, node, phase, pushed) ==
    [name |-> name, spec |-> spec, node |-> node, phase |-> phase, pushed |-> pushed]
Snapshot == {Entry(p, pods[p].spec, pods[p].node, pods[p].phase, FALSE) : p \in DOMAIN pods}

(***************************************************************************)
(* The history: a write brings load to a node when it leaves a row there   *)
(* that was not there, asked for something else or had come to its end.    *)
(* It crowds every tick that has listed the pods before, but for the tick  *)
(* that knows of it because it is its own.                                 *)
(***************************************************************************)
Known(old, q, row) ==
    /\ q \in DOMAIN old /\ old[q].node = row.node /\ old[q].spec = row.spec
    /\ old[q].phase \in Terminal => row.phase \in Terminal
Arrivals(old, new) ==
    {n \in Nodes : \E q \in DOMAIN new : new[q].node = n /\ ~Known(old, q, new[q])}
Crowd(knowing) ==
    crowded' = [t \in Schedulers |->
                  IF sched'[t].pc # "bind" THEN {}
                  ELSE crowded[t] \cup (IF t \in knowing THEN {} ELSE Arrivals(pods, pods'))]
-----------------------------------------------------------------------------
(* Predicates.                                                             *)

On(node, existing) ==
    {e \in existing : e.node = node /\ e.phase \notin Terminal}

(* sum_used_on_node: the sum of what the pods on a node ask for is the     *)
(* number of units asked for, the k-th of an entry e being <<e, k>>.       *)
Units(asked, node, existing) ==
    UNION {{e} \X (1 .. asked[e.spec]) : e \in On(node, existing)}
Used(asked, node, existing) == Cardinality(Units(asked, node, existing))
Cpu == [m \in Specs |-> m.cpu]
Mem == [m \in Specs |-> m.mem]
UsedCpu(node, existing) == Used(Cpu, node, existing)
UsedMem(node, existing) == Used(Mem, node, existing)

(* node_fits: a resource is compared only when the pod asks for it and the *)
(* node declares it.                                                       *)
Fits(asked, used, limit) ==
    asked > 0 /\ limit # Unlimited => used + asked <= limit
NodeFits(spec, node, existing) ==
    /\ Fits(spec.cpu, UsedCpu(node, existing), Machine[node].cpu)
    /\ Fits(spec.mem, UsedMem(node, existing), Machine[node].mem)

(* nodeSelector and the required node-affinity terms: here, whether a node *)
(* with the label is asked for ("yes"), refused ("no") or neither.         *)
LabelsMatch(spec, node) ==
    CASE spec.disk = "any" -> TRUE
      [] spec.disk = "yes" -> Machine[node].disk
      [] spec.disk = "no"  -> ~Machine[node].disk

(* pod_affinity_satisfied: the zone of an existing pod is looked up among  *)
(* the listed nodes; a pod elsewhere, whatever its phase, has no zone.     *)
ZoneOf(node, listed) == IF node \in listed THEN Machine[node].zone ELSE NoZone
SharesZone(app, node, listed, existing) ==
    \E e \in existing :
        /\ e.spec.app = app
        /\ ZoneOf(e.node, listed) # NoZone
        /\ ZoneOf(e.node, listed) = Machine[node].zone
AffinityHolds_NearOnly(spec, node, listed, existing) ==
    spec.near # "none" => SharesZone(spec.near, node, listed, existing)
AffinityHolds(spec, node, listed, existing) ==
    /\ spec.near # "none" => SharesZone(spec.near, node, listed, existing)
    /\ spec.anti # "none" => ~SharesZone(spec.anti, node, listed, existing)

Candidates(spec, listed, existing) ==
    {n \in listed : /\ LabelsMatch(spec, n)
                    /\ AffinityHolds(spec, n, listed, existing)
                    /\ NodeFits(spec, n, existing)}

(***************************************************************************)
(* score_node: the mean, over the resources with a positive allocatable,   *)
(* of the percentage that is free (or used) once the pod is placed,        *)
(* rounded half up.  Of(x, c) / c is one resource's percentage.            *)
(***************************************************************************)
Of(used, limit) ==
    LET u == IF used > limit THEN limit ELSE used
    IN  100 * (IF MostAllocated THEN u ELSE limit - u)
Counts(limit) == limit # Unlimited /\ limit > 0
Rounded(num, den) == (2 * num + den) \div (2 * den)
Score(spec, node, existing) ==
    LET c == Machine[node].cpu
        m == Machine[node].mem
        pc == Of(UsedCpu(node, existing) + spec.cpu, c)
        pm == Of(UsedMem(node, existing) + spec.mem, m)
    IN  CASE Counts(c) /\ Counts(m)   -> Rounded(pc * m + pm * c, 2 * c * m)
          [] Counts(c) /\ ~Counts(m)  -> Rounded(pc, c)
          [] ~Counts(c) /\ Counts(m)  -> Rounded(pm, m)
          [] OTHER                    -> 0

(* find_node_for_pod, empty when no node will do: max_by_key returns the   *)
(* last of the best, and the list is newest first.                         *)
Best(spec, nodes, existing) ==
    {n \in nodes : \A o \in nodes : Score(spec, n, existing) >= Score(spec, o, existing)}
FirstCreated(nodes) == {n \in nodes : \A o \in nodes : Machine[n].created <= Machine[o].created}
FindNode(spec, listed, existing) ==
    UNION {FirstCreated(best) :
             best \in {Best(spec, cs, existing) : cs \in {Candidates(spec, listed, existing)}}}
-----------------------------------------------------------------------------
(* schedule_pending_pods, one step per call.                               *)

Init ==
    /\ pods = None
    /\ ready \in SUBSET Nodes
    /\ sched = [s \in Schedulers |-> Idle]
    /\ creates = 0 /\ flaps = 0
    /\ crowded = [s \in Schedulers |-> {}]

Flap == flaps < MaxFlaps /\ flaps' = flaps + 1

(* list_unscheduled: the rows as they are, oldest first; an empty list     *)
(* ends the tick.                                                          *)
Unscheduled == {p \in DOMAIN pods : pods[p].node = NoNode /\ pods[p].phase = "Pending"}
ListUnscheduled(s) ==
    /\ sched[s].pc = "idle"
    /\ Unscheduled # {}
    /\ sched' = [sched EXCEPT ![s] =
         [Idle EXCEPT !.pc = "nodes", !.queue = [p \in Unscheduled |-> pods[p]]]]
    /\ UNCHANGED <<pods, ready, creates, flaps>>
    /\ Crowd({})

(* list_ready; no Ready node ends the tick.                                *)
ListReady(s) ==
    /\ sched[s].pc = "nodes"
    /\ sched' = [sched EXCEPT ![s] =
         IF ready = {} THEN Idle ELSE [@ EXCEPT !.pc = "pods", !.nodes = ready]]
    /\ UNCHANGED <<pods, ready, creates, flaps>>
    /\ Crowd({})

(* PodRepository::list.                                                    *)
ListExisting(s) ==
    /\ sched[s].pc = "pods"
    /\ sched' = [sched EXCEPT ![s].pc = "bind", ![s].existing = Snapshot]
    /\ UNCHANGED <<pods, ready, creates, flaps>>
    /\ Crowd({})

(* unwrap_or_default: its error is taken for an empty cluster.             *)
ListExistingErr(s) ==
    /\ sched[s].pc = "pods"
    /\ Flap
    /\ sched' = [sched EXCEPT ![s].pc = "bind", ![s].existing = {}]
    /\ crowded' = [crowded EXCEPT ![s] = Nodes]
    /\ UNCHANGED <<pods, ready, creates>>

(* The oldest pod of the queue leaves it.                                  *)
Oldest(queue) ==
    CHOOSE p \in DOMAIN queue : \A o \in DOMAIN queue : queue[p].created <= queue[o].created
After(tick, p) ==
    IF DOMAIN tick.queue = {p} THEN Idle
    ELSE [tick EXCEPT !.queue = [o \in DOMAIN tick.queue \ {p} |-> tick.queue[o]]]
Pushed(tick, p, n) ==
    [tick EXCEPT !.existing = @ \cup {Entry(p, tick.queue[p].spec, n, "Pending", TRUE)}]

(* Whether the row of the pod to be placed still holds the manifest that   *)
(* was listed, if there still is one.                                      *)
AsListed(s) ==
    LET p == Oldest(sched[s].queue)
    IN  p \in DOMAIN pods => pods[p].spec = sched[s].queue[p].spec

(* schedule_pod succeeds: a node is found for the pod as it was listed,    *)
(* the UPDATE binds by name, whatever the row holds by now, and the bound  *)
(* copy joins existing_pods.                                               *)
Bind_NoPush(s) ==
    LET p == Oldest(sched[s].queue)
        tick == sched[s]
        spec == tick.queue[p].spec
    IN  /\ sched[s].pc = "bind"
        /\ UNCHANGED <<ready, creates, flaps>>
        /\ \E n \in FindNode(spec, tick.nodes, tick.existing) :
             /\ pods' = BindToNode(pods, p, n)
             /\ sched' = [sched EXCEPT ![s] = After(@, p)]
        /\ Crowd(IF AsListed(s) THEN {s} ELSE {})
Bind(s) ==
    LET p == Oldest(sched[s].queue)
        tick == sched[s]
        spec == tick.queue[p].spec
    IN  /\ sched[s].pc = "bind"
        /\ UNCHANGED <<ready, creates, flaps>>
        /\ \E n \in FindNode(spec, tick.nodes, tick.existing) :
             /\ pods' = BindToNode(pods, p, n)
             /\ sched' = [sched EXCEPT ![s] = After(Pushed(@, p, n), p)]
        /\ Crowd(IF AsListed(s) THEN {s} ELSE {})

(* schedule_pod fails, for want of a candidate: the loop goes on.          *)
Stuck(tick) ==
    LET p == Oldest(tick.queue)
    IN  Candidates(tick.queue[p].spec, tick.nodes, tick.existing) = {}
Skip_EndsTick(s) ==
    /\ sched[s].pc = "bind"
    /\ UNCHANGED <<pods, ready, creates, flaps>>
    /\ Stuck(sched[s])
    /\ sched' = [sched EXCEPT ![s] = Idle]
    /\ Crowd({})
Skip(s) ==
    /\ sched[s].pc = "bind"
    /\ UNCHANGED <<pods, ready, creates, flaps>>
    /\ Stuck(sched[s])
    /\ sched' = [sched EXCEPT ![s] = After(@, Oldest(@.queue))]
    /\ Crowd({})

(* bind_to_node errs: the pod is not pushed and the loop goes on.          *)
BindErr(s) ==
    /\ sched[s].pc = "bind"
    /\ Flap
    /\ UNCHANGED <<pods, ready, creates>>
    /\ ~Stuck(sched[s])
    /\ sched' = [sched EXCEPT ![s] = After(@, Oldest(@.queue))]
    /\ Crowd({})

(* list_ready errs: the tick ends.                                         *)
ListReadyErr(s) ==
    /\ sched[s].pc = "nodes"
    /\ Flap
    /\ sched' = [sched EXCEPT ![s] = Idle]
    /\ UNCHANGED <<pods, ready, creates>>
    /\ Crowd({})

Step(s) == \/ ListUnscheduled(s) \/ ListReady(s) \/ ListExisting(s) \/ ListExistingErr(s)
           \/ Bind(s) \/ Skip(s) \/ BindErr(s) \/ ListReadyErr(s)
-----------------------------------------------------------------------------
(* The rest of the control plane.                                          *)

(* The upsert writes the nodeName and the status of the manifest as they   *)
(* are: without the one the pod has no node, without the other it is       *)
(* Pending.                                                                *)
NewRow(n, m) ==
    [uid |-> n, created |-> n, node |-> m.node, phase |-> m.phase, ip |-> FALSE, spec |-> m]

(* create_pod with a name not in use, by a user or by a controller.        *)
UserCreate(p, m) ==
    /\ creates < MaxCreates
    /\ p \notin DOMAIN pods
    /\ creates' = creates + 1
    /\ pods' = Upsert(pods, p, NewRow(creates + 1, m))
    /\ UNCHANGED <<ready, sched, flaps>>
    /\ Crowd({})

(* create_pod or update_pod over a row, with the same or another manifest. *)
UserApply(p, m) ==
    /\ p \in DOMAIN pods
    /\ Flap
    /\ pods' = Upsert(pods, p, NewRow(0, m))
    /\ UNCHANGED <<ready, sched, creates>>
    /\ Crowd({})

(* delete_pod, or a controller's scale-down.                               *)
UserDelete(p) ==
    /\ p \in DOMAIN pods
    /\ Flap
    /\ pods' = Remove(pods, p)
    /\ UNCHANGED <<ready, sched, creates>>
    /\ Crowd({})

(* update_pod_status: what the agent of a bound pod saw of its containers, *)
(* by name, even if the pod has been written again since and has no node.  *)
(* A pod whose container did not start is reported Failed; the agent tries *)
(* again at its next sync, and may then report it Running.                 *)
Report(p, phase) ==
    /\ p \in DOMAIN pods
    /\ pods[p].phase # phase
    /\ Flap
    /\ pods' = UpdateStatus(pods, p, phase, TRUE)
    /\ UNCHANGED <<ready, sched, creates>>
    /\ Crowd({})

(* A node registers, is deleted, or is written without a status.           *)
NodeFlap(n) ==
    /\ Flap
    /\ ready' = IF n \in ready THEN ready \ {n} ELSE ready \cup {n}
    /\ UNCHANGED <<pods, sched, creates, crowded>>

Environment ==
    \/ \E p \in Names : \E m \in Manifest[p] : UserCreate(p, m) \/ UserApply(p, m)
    \/ \E p \in Names : UserDelete(p)
    \/ \E p \in Names, ph \in Phases : Report(p, ph)
    \/ \E n \in Nodes : NodeFlap(n)

Next == (\E s \in Schedulers : Step(s)) \/ Environment

Spec == Init /\ [][Next]_vars

(* The loop ticks every two seconds for ever.                              *)
FairSpec == Spec /\ \A s \in Schedulers : WF_vars(Step(s))
-----------------------------------------------------------------------------
Stamps  == 0 .. MaxCreates
Rows    == [uid : Stamps, created : Stamps, node : Nodes \cup {NoNode}, phase : Phases,
            ip : BOOLEAN, spec : Specs]
Queues  == UNION {[S -> Rows] : S \in SUBSET Names}
Entries == [name : Names, spec : Specs, node : Nodes \cup {NoNode}, phase : Phases,
            pushed : BOOLEAN]
Ticks   == [pc : {"idle", "nodes", "pods", "bind"}, queue : Queues,
            nodes : SUBSET Nodes, existing : SUBSET Entries]
TypeOK ==
    /\ DOMAIN pods \subseteq Names
    /\ \A p \in DOMAIN pods : pods[p] \in Rows
    /\ ready \subseteq Nodes
    /\ sched \in [Schedulers -> Ticks]
    /\ creates \in Stamps /\ flaps \in Nat
    /\ crowded \in [Schedulers -> SUBSET Nodes]

(***************************************************************************)
(* The capacity predicate (scheduler.rs:257-264) survives copies that are  *)
(* out of date: a tick that binds several pods from one copy of the table, *)
(* each for itself, never brings what the pods of a node ask for past what *)
(* the node has, whatever is deleted, ends or is unbound meanwhile.  It    *)
(* may where the copy knows less than is there, and only there: since it   *)
(* was read something came to the node past this tick, as a pod that comes *)
(* with a nodeName (repository.rs:71), a manifest written again, a Failed  *)
(* pod that runs again (scheduler.rs:346) or another master's bind; the    *)
(* list had failed (scheduler.rs:112); or the pod's own manifest has been  *)
(* written again after it was listed.                                      *)
(***************************************************************************)
Fuller(asked, limit, n) ==
    limit # Unlimited /\ Used(asked, n, Snapshot') > limit
                      /\ Used(asked, n, Snapshot') > Used(asked, n, Snapshot)
NoOvercommit ==
    [][\A s \in Schedulers : sched[s].pc = "bind" /\ sched'[s] # sched[s] /\ AsListed(s) =>
         \A n \in Nodes \ crowded[s] :
            ~Fuller(Cpu, Machine[n].cpu, n) /\ ~Fuller(Mem, Machine[n].mem, n)]_vars

(***************************************************************************)
(* A pod is never bound into a zone where a pod stands whose company it    *)
(* refuses (pod_affinity_satisfied, scheduler.rs:515-577), on that node or *)
(* on another, be it bound by the same tick a moment ago, unless the tick  *)
(* cannot know: the other came there past it, the list had failed, the     *)
(* pod's manifest was written again after it was listed, or the other's    *)
(* node was not Ready when the nodes were, since the zone of a pod is      *)
(* looked up among those alone (scheduler.rs:533-539).                     *)
(***************************************************************************)
Refuses(p, q) == pods[p].spec.anti = pods[q].spec.app
AntiAffinityKept ==
    [][\A s \in Schedulers : sched[s].pc = "bind" /\ sched'[s] # sched[s] /\ AsListed(s) =>
         LET p == Oldest(sched[s].queue)
         IN  \A q \in DOMAIN pods \ {p} :
               /\ p \in DOMAIN pods /\ Refuses(p, q)
               /\ pods[q].node \in sched[s].nodes \ crowded[s]
               /\ Machine[pods[q].node].zone # NoZone
               /\ pods'[p].node # pods[p].node
               => Machine[pods'[p].node].zone # Machine[pods[q].node].zone]_vars

(***************************************************************************)
(* A pending pod is not passed over for ever while a node would take it:   *)
(* a pod that cannot be placed does not hold up those behind it.           *)
(***************************************************************************)
PendingPodIsBound ==
    \A p \in Names :
        []<>~(p \in Unscheduled /\ Candidates(pods[p].spec, ready, Snapshot) # {})
==============================================================================
