------------------------------ MODULE DaemonSet ------------------------------
(***************************************************************************)
(* One DaemonSet and its pods: the daemonset controller                    *)
(* (server/controller.rs, reconcile_daemonsets), the handlers of the API   *)
(* server (server/api.rs), nodes that come and go and the phases the       *)
(* agents report.                                                          *)
(*                                                                         *)
(* A pod is created with its node, past the scheduler, under a fresh name. *)
(* The template's nodeSelector is the set of nodes it matches.  A pod's    *)
(* labels are those of the template, which the selector matches; Labelled  *)
(* is FALSE for a set whose selector and template have none, and then the  *)
(* pass finds no pods.  Every database call is a step of its own.          *)
(***************************************************************************)
EXTENDS PodTable

CONSTANTS
    Workers,    \* controller tasks that may run a pass
    Nodes,      \* the nodes
    Labelled,   \* whether the selector or the template has labels
    MaxPods,    \* bound: how many pods are ever created
    MaxEvents   \* bound: requests of the user, errors, failing pods, node changes

ASSUME DaemonSetAssumption ==
    IsFiniteSet(Nodes) /\ Labelled \in BOOLEAN /\ MaxPods \in Nat /\ MaxEvents \in Nat

VARIABLES
    pods,    \* the pods table
    set,     \* the row of the set, or NoSet
    nodes,   \* the nodes that list_ready returns
    worker,  \* the pass of each worker
    api,     \* the DELETE request in progress
    names,   \* pods created so far: the last name drawn
    uids,    \* sets created so far: the last uid drawn
    events,  \* requests, failures and changes so far
    apart    \* history: no two passes have overlapped

vars == <<pods, set, nodes, worker, api, names, uids, events, apart>>

NoSet == [uid |-> 0, want |-> {}, desired |-> 0, current |-> 0, ready |-> 0]
Exists == set # NoSet
Idle  == [pc |-> "idle", set |-> NoSet, target |-> {}, missing |-> {}, victims |-> {},
          current |-> 0, ready |-> 0]
NoRequest == [pc |-> "idle", listed |-> {}]

(* pod_for_daemonset.                                                      *)
NewPod(uid, n) == [uid |-> names + 1, created |-> names + 1, owner |-> uid, node |-> n,
                   phase |-> "Pending", ip |-> FALSE]

Owned(uid) == {p \in DOMAIN pods : pods[p].owner = uid}
On(S) == {pods[p].node : p \in S}
Running(S) == {p \in S : pods[p].phase = "Running"}

Init ==
    /\ pods = [p \in {} |-> 0]
    /\ set = NoSet
    /\ nodes = Nodes
    /\ worker = [w \in Workers |-> Idle]
    /\ api = NoRequest
    /\ names = 0 /\ uids = 0 /\ events = 0
    /\ apart = TRUE

Event == events < MaxEvents /\ events' = events + 1
-----------------------------------------------------------------------------
(* The controller.                                                         *)

(* reconcile_daemonsets: DaemonSetRepository::list, ...                    *)
ListSets(w) ==
    /\ worker[w].pc = "idle"
    /\ Exists
    /\ worker' = [worker EXCEPT ![w] = [Idle EXCEPT !.pc = "nodes", !.set = set]]
    /\ apart' = (apart /\ \A v \in Workers \ {w} : worker[v].pc = "idle")
    /\ UNCHANGED <<pods, set, nodes, api, names, uids, events>>

(* ... NodeRepository::list_ready, of which the nodeSelector keeps some.   *)
ListReady(w) ==
    /\ worker[w].pc = "nodes"
    /\ worker' = [worker EXCEPT ![w].pc = "list", 
                              ![w].target = nodes \cap worker[w].set.want]
    /\ UNCHANGED <<pods, set, nodes, api, names, uids, events, apart>>

(* reconcile_daemonset: the pods of the set, those it lacks and those on   *)
(* nodes that are not, or no longer, its own.  A pod covers its node       *)
(* whatever its phase.                                                     *)
After(pass) ==
    CASE pass.missing # {} -> [pass EXCEPT !.pc = "create"]
      [] pass.missing = {} /\ pass.victims # {} -> [pass EXCEPT !.pc = "delete"]
      [] OTHER -> [pass EXCEPT !.pc = "status"]
Plan_Anew(pass) ==
    LET owned == IF Labelled THEN Owned(pass.set.uid) ELSE {}
    IN  After([pass EXCEPT !.missing = pass.target \ On(Running(owned)),
                           !.victims = {p \in owned : pods[p].node \notin pass.target},
                           !.current = Cardinality(owned),
                           !.ready = Cardinality(Running(owned))])
Plan_KeepsAll(pass) ==
    LET owned == IF Labelled THEN Owned(pass.set.uid) ELSE {}
    IN  After([pass EXCEPT !.missing = pass.target \ On(owned),
                           !.victims = {p \in owned : pods[p].node \notin pass.set.want},
                           !.current = Cardinality(owned),
                           !.ready = Cardinality(Running(owned))])
Plan(pass) ==
    LET owned == IF Labelled THEN Owned(pass.set.uid) ELSE {}
    IN  After([pass EXCEPT !.missing = pass.target \ On(owned),
                           !.victims = {p \in owned : pods[p].node \notin pass.target},
                           !.current = Cardinality(owned),
                           !.ready = Cardinality(Running(owned))])
ListPods(w) ==
    /\ worker[w].pc = "list"
    /\ worker' = [worker EXCEPT ![w] = Plan(@)]
    /\ UNCHANGED <<pods, set, nodes, api, names, uids, events, apart>>

(* An error of either list ends the pass.                                  *)
ListErr(w) ==
    /\ worker[w].pc \in {"nodes", "list"}
    /\ Event
    /\ worker' = [worker EXCEPT ![w] = Idle]
    /\ UNCHANGED <<pods, set, nodes, api, names, uids, apart>>

(* The nodes without a pod get one, in the fixed order of the list.        *)
First(S) == CHOOSE n \in S : TRUE
Covered(pass) == After([pass EXCEPT !.missing = @ \ {First(pass.missing)}])
CreatePod(w) ==
    /\ worker[w].pc = "create"
    /\ names < MaxPods
    /\ pods' = Upsert(pods, names + 1, NewPod(worker[w].set.uid, First(worker[w].missing)))
    /\ names' = names + 1
    /\ worker' = [worker EXCEPT ![w] = Covered(@)]
    /\ UNCHANGED <<set, nodes, api, uids, events, apart>>

(* An error leaves the node to the next pass.                              *)
CreatePodErr(w) ==
    /\ worker[w].pc = "create"
    /\ Event
    /\ worker' = [worker EXCEPT ![w] = Covered(@)]
    /\ UNCHANGED <<pods, set, nodes, api, names, uids, apart>>

(* The pods elsewhere are deleted, newest first; errors are ignored.       *)
Latest(S) == CHOOSE p \in S : \A o \in S : o <= p
Without(pass, p) == After([pass EXCEPT !.victims = @ \ {p}])
DeletePod(w) ==
    /\ worker[w].pc = "delete"
    /\ LET p == Latest(worker[w].victims)
       IN  /\ worker' = [worker EXCEPT ![w] = Without(@, p)]
           /\ \/ pods' = Remove(pods, p) /\ UNCHANGED events
              \/ Event /\ UNCHANGED pods
    /\ UNCHANGED <<set, nodes, api, names, uids, apart>>

(* DaemonSetRepository::update_status, by name.                            *)
UpdateSetStatus(w) ==
    /\ worker[w].pc = "status"
    /\ worker' = [worker EXCEPT ![w] = Idle]
    /\ \/ /\ set' = IF Exists
                    THEN [set EXCEPT !.desired = Cardinality(worker[w].target),
                                     !.current = worker[w].current, !.ready = worker[w].ready]
                    ELSE set
          /\ UNCHANGED events
       \/ Event /\ UNCHANGED set
    /\ UNCHANGED <<pods, nodes, api, names, uids, apart>>

WorkerStep(w) ==
    \/ ListSets(w) \/ ListReady(w) \/ ListPods(w) \/ ListErr(w)
    \/ CreatePod(w) \/ CreatePodErr(w) \/ DeletePod(w) \/ UpdateSetStatus(w)
-----------------------------------------------------------------------------
(* The API server, the nodes and the agents.                               *)

(* create_daemonset and update_daemonset: an upsert, which keeps the uid   *)
(* and the status of a row that is there.                                  *)
ApplySet(want) ==
    /\ Event
    /\ IF Exists THEN set' = [set EXCEPT !.want = want] /\ UNCHANGED uids
       ELSE set' = [NoSet EXCEPT !.uid = uids + 1, !.want = want] /\ uids' = uids + 1
    /\ UNCHANGED <<pods, nodes, worker, api, names, apart>>

(* delete_daemonset: the row is read and the pods its matchLabels select   *)
(* are listed; without a row, a list or matchLabels there is no cascade.   *)
DeleteList ==
    /\ api.pc = "idle"
    /\ Exists
    /\ Event
    /\ \E listed \in {DOMAIN pods, {}} :
         api' = [pc |-> IF listed = {} THEN "row" ELSE "pods", listed |-> listed]
    /\ UNCHANGED <<pods, set, nodes, worker, names, uids, apart>>

DeleteOwnedPod ==
    /\ api.pc = "pods"
    /\ LET p == Latest(api.listed)
       IN  /\ \/ pods' = Remove(pods, p) /\ UNCHANGED events
              \/ Event /\ UNCHANGED pods
           /\ api' = [api EXCEPT !.listed = @ \ {p},
                                 !.pc = IF api.listed = {p} THEN "row" ELSE @]
    /\ UNCHANGED <<set, nodes, worker, names, uids, apart>>

(* The row goes last, or the request fails there.                          *)
DeleteRow ==
    /\ api.pc = "row"
    /\ api' = NoRequest
    /\ \/ set' = NoSet /\ UNCHANGED events
       \/ Event /\ UNCHANGED set
    /\ UNCHANGED <<pods, nodes, worker, names, uids, apart>>

(* delete_pod.                                                             *)
UserDeletePod(p) ==
    /\ Event
    /\ pods' = Remove(pods, p)
    /\ UNCHANGED <<set, nodes, worker, api, names, uids, apart>>

(* A node registers, is deleted, or is written without a status.           *)
NodeFlap(n) ==
    /\ Event
    /\ nodes' = IF n \in nodes THEN nodes \ {n} ELSE nodes \cup {n}
    /\ UNCHANGED <<pods, set, worker, api, names, uids, apart>>

(* update_pod_status: an agent reports that a pod runs, or that it failed. *)
ReportRunning(p) ==
    /\ pods[p].phase # "Running"
    /\ pods' = UpdateStatus(pods, p, "Running", TRUE)
    /\ UNCHANGED <<set, nodes, worker, api, names, uids, events, apart>>
ReportFailed(p) ==
    /\ pods[p].phase # "Failed"
    /\ Event
    /\ pods' = UpdateStatus(pods, p, "Failed", TRUE)
    /\ UNCHANGED <<set, nodes, worker, api, names, uids, apart>>

DeleteStep == DeleteOwnedPod \/ DeleteRow

Next ==
    \/ \E w \in Workers : WorkerStep(w)
    \/ \E want \in SUBSET Nodes : ApplySet(want)
    \/ DeleteList \/ DeleteStep
    \/ \E n \in Nodes : NodeFlap(n)
    \/ \E p \in DOMAIN pods : UserDeletePod(p) \/ ReportRunning(p) \/ ReportFailed(p)

Spec == Init /\ [][Next]_vars

(* The loop ticks for ever, a request runs to its end and the agents start *)
(* what is new; a pod that failed need not run again.                      *)
FairSpec ==
    /\ Spec
    /\ \A w \in Workers : WF_vars(WorkerStep(w))
    /\ WF_vars(DeleteStep)
    /\ WF_vars(\E p \in DOMAIN pods : pods[p].phase = "Pending" /\ ReportRunning(p))
-----------------------------------------------------------------------------
Rows == [uid : Nat, created : Nat, owner : Nat, node : Nodes,
         phase : {"Pending", "Running", "Failed"}, ip : BOOLEAN]
Sets == [uid : Nat, want : SUBSET Nodes, desired : Nat, current : Nat, ready : Nat]
Passes == [pc : {"idle", "nodes", "list", "create", "delete", "status"}, set : Sets,
           target : SUBSET Nodes, missing : SUBSET Nodes, victims : SUBSET (1 .. names),
           current : Nat, ready : Nat]
Requests == [pc : {"idle", "pods", "row"}, listed : SUBSET (1 .. names)]

TypeOK ==
    /\ DOMAIN pods \subseteq 1 .. names
    /\ \A p \in DOMAIN pods : pods[p] \in Rows
    /\ set \in Sets
    /\ nodes \subseteq Nodes
    /\ worker \in [Workers -> Passes]
    /\ api \in Requests
    /\ names \in Nat /\ uids \in Nat /\ events \in Nat /\ apart \in BOOLEAN

(***************************************************************************)
(* "Ensure exactly one pod from the template runs on every node"           *)
(* (controller.rs:436): no node has two pods of one set, whatever the      *)
(* user, the nodes and the agents do between the list and the creates of a *)
(* pass.  Once the passes of two masters have overlapped there may be two, *)
(* and no later pass takes one away.                                       *)
(***************************************************************************)
OnePerNode ==
    Labelled /\ apart =>
        \A p, q \in DOMAIN pods :
            pods[p].owner = pods[q].owner /\ pods[p].node = pods[q].node => p = q

(***************************************************************************)
(* Once the user is done and the nodes keep their state, the set has pods  *)
(* on every Ready node its selector matches and on no other, and its       *)
(* status counts them (controller.rs:490-545).                             *)
(***************************************************************************)
Settled ==
    LET owned == Owned(set.uid)
        target == nodes \cap set.want
    IN  /\ On(owned) = target
        /\ set.desired = Cardinality(target)
        /\ set.current = Cardinality(owned)
        /\ set.ready = Cardinality(Running(owned))
Converges == <>[](Exists /\ Labelled => Settled)
==============================================================================
