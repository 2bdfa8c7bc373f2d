---------------------------- MODULE PodLifecycle ----------------------------
(***************************************************************************)
(* The life of the pods of one node: the agent's pod sync (node/agent.rs)  *)
(* over a container runtime, the pod controller (server/controller.rs,     *)
(* reconcile_pods), the scheduler's binding and the user's requests, all   *)
(* working on the pods table, each from its own copy of it.                *)
(*                                                                         *)
(* A pod is a namespace and a name; the agent names its containers after   *)
(* the pod's name alone (RuntimeNames).  The pods are nobody's: no         *)
(* Deployment, StatefulSet or DaemonSet owns them.  A loop over a list     *)
(* takes the pods in any order, since the list's order is that of their    *)
(* creation.  Addresses and container statuses are left out, and so is     *)
(* what becomes of the pods bound to another node ("away").  The engines   *)
(* of the node are those of Engines; a pod chooses one by its class.       *)
(***************************************************************************)
EXTENDS PodTable, Engines

CONSTANTS
    Pods,          \* pods, as (namespace, name)
    RuntimeNames,  \* pod -> the runtime names of its containers
    Classes,       \* pod -> the runtimeClassNames its manifests give
    Nodes,         \* the lists of engines the node may have
    NoPod,         \* not a pod
    Always,        \* the pods whose restartPolicy is Always
    MaxOps,        \* bound: requests of the user
    MaxFaults      \* bound: containers that end by themselves, calls that fail,
                   \* restarts of the agent, changes of the node's state

Containers == UNION {{RuntimeNames[p][k] : k \in DOMAIN RuntimeNames[p]} : p \in Pods}

ASSUME PodLifecycleAssumption ==
    /\ \A p \in Pods : RuntimeNames[p] \in Seq(Containers) /\ RuntimeNames[p] # << >>
    /\ \A list \in Nodes : Buildable(list)
    /\ Always \subseteq Pods /\ NoPod \notin Pods
    /\ MaxOps \in Nat /\ MaxFaults \in Nat

VARIABLES
    engines,    \* the engines of the node, the default first
    pods,       \* the pods table
    container,  \* what each engine reports for each container name
    code,       \* exit code of the last container of each name: 0 or 1
    tracked,    \* the keys of pod_containers: <<pod, container name>>
    missed,     \* the names a failed lookup ever took for those of no container
    stray,      \* the names with a process that has outlived its agent
    sync,       \* the agent's pod sync
    ctl,        \* the pod controller's pass
    ready,      \* whether the node is in list_ready
    wanted,     \* the pods the user has created and not deleted
    ops, faults

history   == <<missed, stray>>
agentVars == <<container, code, tracked, history, sync>>
counters  == <<ops, faults>>
node      == <<engines, ready>>
vars == <<engines, pods, container, code, tracked, missed, stray, sync, ctl, ready, wanted,
          ops, faults>>

EngineNames == UNION {NamesOf(list) : list \in Nodes}
Runtime == INSTANCE RuntimeContract WITH Names <- EngineNames \X Containers

Phases == {"Pending", "Running", "Failed"}
NoNode == "none"
Bound(p) == p \in DOMAIN pods /\ pods[p].node = "here"
Names(p) == {RuntimeNames[p][k] : k \in DOMAIN RuntimeNames[p]}
FreshRow(class, where) == [uid |-> 0, created |-> 0, node |-> where, phase |-> "Pending",
                           ip |-> FALSE, class |-> class]

NoPods == [p \in {} |-> NoPod]

IdleSync == [pc |-> "idle", todo |-> {}, desired |-> NoPods, pod |-> NoPod, at |-> 0,
             failed |-> FALSE, running |-> TRUE]
IdleCtl  == [pc |-> "idle", todo |-> NoPods, pod |-> NoPod]

Init ==
    /\ engines \in Nodes
    /\ pods = NoPods
    /\ Runtime!Init
    /\ code = [c \in DOMAIN container |-> 0]
    /\ tracked = {} /\ missed = {} /\ stray = {}
    /\ sync = IdleSync /\ ctl = IdleCtl
    /\ ready = TRUE
    /\ wanted = {}
    /\ ops = 0 /\ faults = 0

Fault == faults < MaxFaults /\ faults' = faults + 1
-----------------------------------------------------------------------------
(* The agent: sync_pods.                                                   *)

(* The GET of the pods bound to this node; an error ends the sync.         *)
AgentList ==
    /\ sync.pc = "idle"
    /\ LET mine == {p \in Pods : Bound(p)}
       IN  sync' = [IdleSync EXCEPT !.pc = IF mine = {} THEN "sweep" ELSE "pick",
                                    !.todo = mine,
                                    !.desired = [p \in mine |-> pods[p].class]]
    /\ UNCHANGED <<pods, container, code, tracked, history, ctl, node, wanted, counters>>

AgentPick(p) ==
    /\ sync.pc = "pick"
    /\ p \in sync.todo
    /\ sync' = [sync EXCEPT !.pc = "container", !.pod = p, !.at = 1]
    /\ UNCHANGED <<pods, container, code, tracked, history, ctl, node, wanted, counters>>

(* One container of the pod has been dealt with.                           *)
Name == RuntimeNames[sync.pod][sync.at]
Observed_Latest(isRunning, hasFailed) ==
    sync' = [sync EXCEPT !.running = isRunning,
                         !.failed = @ \/ hasFailed,
                         !.at = @ + 1,
                         !.pc = IF sync.at = Len(RuntimeNames[sync.pod])
                                THEN "publish" ELSE "container"]
Observed(isRunning, hasFailed) ==
    sync' = [sync EXCEPT !.running = @ /\ isRunning,
                         !.failed = @ \/ hasFailed,
                         !.at = @ + 1,
                         !.pc = IF sync.at = Len(RuntimeNames[sync.pod])
                                THEN "publish" ELSE "container"]

(* A lookup in which the peers in deaf fail.                               *)
Lookup(deaf) ==
    /\ deaf \in Deaf(engines)
    /\ IF deaf = {} THEN UNCHANGED faults ELSE Fault
Here(deaf) == Found(engines, container, Name, deaf)

(* reconcile_pod, one container: there is one, in whatever state and       *)
(* whatever engine, and it is recorded, ...                                *)
AgentObserve_NotTracked ==
    /\ sync.pc \in {"container", "created"}
    /\ \E deaf \in Deaf(engines) :
         /\ Lookup(deaf)
         /\ \E e \in Here(deaf) :
              Observed(container[<<e, Name>>] = "running",
                       container[<<e, Name>>] = "exited" /\ code[<<e, Name>>] # 0)
    /\ UNCHANGED <<pods, container, code, tracked, history, ctl, node, wanted, ops>>
AgentObserve ==
    /\ sync.pc \in {"container", "created"}
    /\ \E deaf \in Deaf(engines) :
         /\ Lookup(deaf)
         /\ \E e \in Here(deaf) :
              Observed(container[<<e, Name>>] = "running",
                       container[<<e, Name>>] = "exited" /\ code[<<e, Name>>] # 0)
    /\ tracked' = tracked \cup {<<sync.pod, Name>>}
    /\ UNCHANGED <<pods, container, code, history, ctl, node, wanted, ops>>

(* ... or there is none that answers, ...                                  *)
AgentMissing ==
    /\ sync.pc = "container"
    /\ \E deaf \in Deaf(engines) : Lookup(deaf) /\ Here(deaf) = {}
    /\ missed' = IF Here({}) = {} THEN missed ELSE missed \cup {Name}
    /\ sync' = [sync EXCEPT !.pc = "create"]
    /\ UNCHANGED <<pods, container, code, tracked, stray, ctl, node, wanted, ops>>

(* ... and it is created by the engine of the pod's class, as the pod was  *)
(* listed, to be looked up again and observed as above, ...                *)
Chosen == ForClass(engines, sync.desired[sync.pod])
AgentStart ==
    /\ sync.pc = "create"
    /\ \E e \in Chosen : Runtime!Start(<<e, Name>>)
    /\ sync' = [sync EXCEPT !.pc = "created"]
    /\ UNCHANGED <<pods, code, tracked, history, ctl, node, wanted, counters>>

(* ... or the node has no such engine, or it fails, possibly after the     *)
(* container was made, or for the name is taken: the pod is failed, until  *)
(* the next sync tries again.                                              *)
AgentStartErr ==
    /\ sync.pc = "create"
    /\ \/ Chosen = {} /\ UNCHANGED <<container, code, faults>>
       \/ Chosen # {} /\ Fault /\ UNCHANGED <<container, code>>
       \/ \E e \in Chosen : container[<<e, Name>>] # "none" /\ UNCHANGED <<container, code, faults>>
       \/ \E e \in Chosen :
            /\ The(engines, e).shaky /\ container[<<e, Name>>] = "none" /\ Fault
            /\ container' = [container EXCEPT ![<<e, Name>>] = "exited"]
            /\ code' = [code EXCEPT ![<<e, Name>>] = 0]
    /\ Observed(TRUE, TRUE)
    /\ UNCHANGED <<pods, tracked, history, ctl, node, wanted, ops>>

(* The pod is done with, and the next of the list is taken.                *)
NextPod ==
    sync' = [IdleSync EXCEPT !.todo = sync.todo \ {sync.pod}, !.desired = sync.desired,
                             !.pc = IF sync.todo = {sync.pod} THEN "sweep" ELSE "pick"]

(* find_container fails in the default engine, or what was created is not  *)
(* found: the sync goes on with the next pod, and nothing is published.    *)
FindErr ==
    /\ \/ sync.pc \in {"container", "created"} /\ engines[1].shaky /\ Fault
       \/ sync.pc = "created" /\ \E deaf \in Deaf(engines) : Lookup(deaf) /\ Here(deaf) = {}
    /\ NextPod
    /\ UNCHANGED <<pods, container, code, tracked, history, ctl, node, wanted, ops>>

Phase(failed, running) ==
    IF failed THEN "Failed" ELSE IF running THEN "Running" ELSE "Pending"

(* publish_pod_status: by namespace and name, whatever that row is by now. *)
(* NotFound and other errors are logged and the sync goes on.              *)
AgentPublish ==
    /\ sync.pc = "publish"
    /\ NextPod
    /\ \/ /\ pods' = UpdateStatus(pods, sync.pod, Phase(sync.failed, sync.running), FALSE)
          /\ UNCHANGED faults
       \/ Fault /\ UNCHANGED pods
    /\ UNCHANGED <<container, code, tracked, history, ctl, node, wanted, ops>>

(* sweep_orphans, under the lock from end to end.                          *)
AgentSweep_Never == sync.pc = "sweep" /\ sync' = IdleSync
                    /\ UNCHANGED <<pods, container, code, tracked, history, ctl, node, wanted, counters>>
AgentSweep ==
    /\ sync.pc = "sweep"
    /\ LET orphans == {t \in tracked : t[1] \notin DOMAIN sync.desired}
       IN  /\ container' = Removed(engines, container, {t[2] : t \in orphans})
           /\ tracked' = tracked \ orphans
    /\ sync' = IdleSync
    /\ UNCHANGED <<pods, code, history, ctl, node, wanted, counters>>

(* The agent's process is restarted: its maps are empty, and what its      *)
(* engines do not know again goes on without them, or has ended with it.   *)
AgentRestart ==
    /\ Fault
    /\ container' = Restarted(engines, container)
    /\ stray' = stray \cup Outliving(engines, container)
    /\ tracked' = {}
    /\ sync' = IdleSync
    /\ UNCHANGED <<pods, code, missed, ctl, node, wanted, ops>>

(* send_heartbeat puts the node with its status, between two syncs.        *)
Heartbeat ==
    /\ sync.pc = "idle"
    /\ ~ready
    /\ ready' = TRUE
    /\ UNCHANGED <<engines, pods, agentVars, ctl, wanted, counters>>

AgentStep == \/ AgentList \/ (\E p \in Pods : AgentPick(p)) \/ AgentObserve \/ AgentMissing
             \/ AgentStart \/ AgentStartErr \/ FindErr \/ AgentPublish \/ AgentSweep

(* A container ends by itself, well or not.                                *)
ContainerExit(e, n, c) ==
    /\ Fault
    /\ The(engines, e).exits
    /\ Runtime!Exit(<<e, n>>)
    /\ code' = [code EXCEPT ![<<e, n>>] = c]
    /\ UNCHANGED <<pods, tracked, history, sync, ctl, node, wanted, ops>>
-----------------------------------------------------------------------------
(* The pod controller: reconcile_pods.                                     *)

(* What a pass does with a pod, by its copy and by the node's state as     *)
(* they were listed: it is marked Failed when it runs on a node that is    *)
(* not Ready; deleted, to be created again, when it had failed and is to   *)
(* be restarted always; left alone otherwise.                              *)
Lost(p)   == pods[p].node = "here" /\ ~ready /\ pods[p].phase = "Running"
Respin(p) == pods[p].phase = "Failed" /\ p \in Always

(* The list of pods and the list of Ready nodes.                           *)
CtlList ==
    LET todo == {p \in DOMAIN pods : Lost(p) \/ Respin(p)}
    IN  /\ ctl.pc = "idle"
        /\ todo # {}
        /\ ctl' = [IdleCtl EXCEPT !.pc = "pod", !.todo = [p \in todo |-> [
                        op |-> IF Lost(p) THEN "mark" ELSE "respin", class |-> pods[p].class]]]
        /\ UNCHANGED <<pods, agentVars, node, wanted, counters>>

AfterPod(p) ==
    [ctl EXCEPT !.todo = [q \in DOMAIN ctl.todo \ {p} |-> ctl.todo[q]],
                !.pc = IF DOMAIN ctl.todo = {p} THEN "idle" ELSE "pod",
                !.pod = NoPod]

(* A pod of the list, whatever its row is by now.  Errors are ignored.     *)
CtlPod(p) ==
    /\ ctl.pc = "pod"
    /\ p \in DOMAIN ctl.todo
    /\ ctl' = IF ctl.todo[p].op = "respin" THEN [ctl EXCEPT !.pc = "create", !.pod = p]
              ELSE AfterPod(p)
    /\ \/ /\ pods' = IF ctl.todo[p].op = "respin" THEN Remove(pods, p)
                     ELSE UpdateStatus(pods, p, "Failed", FALSE)
          /\ UNCHANGED faults
       \/ Fault /\ UNCHANGED pods
    /\ UNCHANGED <<agentVars, node, wanted, ops>>

(* The copy is created again: Pending, without a node.                     *)
CtlCreate ==
    /\ ctl.pc = "create"
    /\ ctl' = AfterPod(ctl.pod)
    /\ \/ pods' = Upsert(pods, ctl.pod, FreshRow(ctl.todo[ctl.pod].class, NoNode))
          /\ UNCHANGED faults
       \/ Fault /\ UNCHANGED pods
    /\ UNCHANGED <<agentVars, node, wanted, ops>>

CtlStep == CtlList \/ (\E p \in Pods : CtlPod(p)) \/ CtlCreate
-----------------------------------------------------------------------------
(* The rest of the cluster.                                                *)

(* The scheduler binds a pending pod, to this node or to another.          *)
Schedule(p) ==
    /\ p \in DOMAIN pods
    /\ pods[p].node = NoNode /\ pods[p].phase = "Pending"
    /\ \E where \in {"away"} \cup (IF ready THEN {"here"} ELSE {}) :
         pods' = BindToNode(pods, p, where)
    /\ UNCHANGED <<agentVars, ctl, node, wanted, counters>>

Request == ops < MaxOps /\ ops' = ops + 1

(* create_pod and update_pod, with a manifest that may come with a node.   *)
UserApply(p) ==
    /\ Request
    /\ \E class \in Classes[p], where \in {NoNode, "here"} :
         pods' = Upsert(pods, p, FreshRow(class, where))
    /\ wanted' = wanted \cup {p}
    /\ UNCHANGED <<agentVars, ctl, node, faults>>

UserDelete(p) ==
    /\ p \in DOMAIN pods
    /\ Request
    /\ pods' = Remove(pods, p)
    /\ wanted' = wanted \ {p}
    /\ UNCHANGED <<agentVars, ctl, node, faults>>

(* The user deletes the node, or puts one without a status.                *)
NodeGone ==
    /\ ready
    /\ Fault
    /\ ready' = FALSE
    /\ UNCHANGED <<engines, pods, agentVars, ctl, wanted, ops>>

Next ==
    \/ AgentStep \/ Heartbeat \/ AgentRestart \/ CtlStep \/ NodeGone
    \/ \E p \in Pods : Schedule(p) \/ UserApply(p) \/ UserDelete(p)
    \/ \E e \in NamesOf(engines), n \in Containers, c \in {0, 1} : ContainerExit(e, n, c)

Spec == Init /\ [][Next]_vars

(* The agent syncs and the controller passes every five seconds, the       *)
(* scheduler ticks every two and heartbeats come every ten, between syncs. *)
(* Nothing orders the three processes.                                     *)
FairSpec == /\ Spec /\ WF_vars(AgentStep) /\ SF_vars(Heartbeat) /\ WF_vars(CtlStep)
            /\ \A p \in Pods : WF_vars(Schedule(p))
-----------------------------------------------------------------------------
AnyClass == UNION {Classes[p] : p \in Pods}
Rows  == [uid : {0}, created : {0}, node : {NoNode, "here", "away"}, phase : Phases,
          ip : BOOLEAN, class : AnyClass]
Syncs == [pc : {"idle", "pick", "container", "create", "created", "publish", "sweep"},
          todo : SUBSET Pods,
          desired : UNION {[S -> AnyClass] : S \in SUBSET Pods}, pod : Pods \cup {NoPod},
          at : Nat, failed : BOOLEAN, running : BOOLEAN]
Plans == UNION {[S -> [op : {"mark", "respin"}, class : AnyClass]] : S \in SUBSET Pods}
Ctls  == [pc : {"idle", "pod", "create"}, todo : Plans, pod : Pods \cup {NoPod}]
OnContainer == {"container", "create", "created"}
TypeOK ==
    /\ engines \in Nodes
    /\ DOMAIN pods \subseteq Pods /\ \A p \in DOMAIN pods : pods[p] \in Rows
    /\ container \in [EngineNames \X Containers -> Runtime!States]
    /\ code \in [EngineNames \X Containers -> {0, 1}]
    /\ tracked \subseteq Pods \X Containers
    /\ missed \subseteq Containers /\ stray \subseteq Containers
    /\ sync \in Syncs
    /\ sync.pc = "pick" => sync.todo # {}
    /\ sync.pc \in OnContainer => sync.pod \in Pods /\ sync.at \in DOMAIN RuntimeNames[sync.pod]
    /\ sync.todo \subseteq DOMAIN sync.desired
    /\ sync.pc \in OnContainer \cup {"publish"} => sync.pod \in sync.todo
    /\ ctl \in Ctls
    /\ ctl.pc # "idle" => DOMAIN ctl.todo # {}
    /\ ctl.pc = "create" => ctl.pod \in DOMAIN ctl.todo
    /\ ready \in BOOLEAN /\ wanted \subseteq Pods
    /\ ops \in 0 .. MaxOps /\ faults \in 0 .. MaxFaults

(***************************************************************************)
(* Every container of an engine that removes is one the agent has          *)
(* recorded, and can sweep, or is about to record: none is lost between    *)
(* the start and the record, whatever fails, or by a sweep                 *)
(* (agent.rs:366-377, 263-284).  The processes that outlived an earlier    *)
(* agent (stray) are not among its containers, and nothing finds them      *)
(* again (embedded.rs:23-26).                                              *)
(***************************************************************************)
Removing == {e \in NamesOf(engines) : The(engines, e).removes}
Tracks ==
    \A e \in Removing, n \in Containers : container[<<e, n>>] # "none" =>
        \/ \E p \in Pods : <<p, n>> \in tracked
        \/ sync.pc = "created" /\ Name = n

(***************************************************************************)
(* "Stop containers we started for pods the server no longer assigns to    *)
(* this node" (agent.rs:263-264): again and again there is no container    *)
(* left whose pod is not bound here, also for pods that are deleted and    *)
(* created again behind the agent's back, by the user or by the pod        *)
(* controller, or run by another engine from then on.  The engines that    *)
(* inherit the trait's no-op keep theirs, and a stray process is left      *)
(* running for ever: it is not one that this agent started.                *)
(***************************************************************************)
Orphan(n) == /\ \E e \in Removing : container[<<e, n>>] # "none"
             /\ ~\E p \in Pods : Bound(p) /\ n \in Names(p)
OrphansAreStopped == []<>(\A n \in Containers : ~Orphan(n))

(***************************************************************************)
(* No two engines have a container of the same name, whatever the class of *)
(* a pod was and is (agent.rs:315-341, mod.rs:257-270): the lookup goes    *)
(* through all engines before a container is created in one.  Except for a *)
(* name whose container was in a peer that failed to answer then, which is *)
(* only logged (mod.rs:266).                                               *)
(***************************************************************************)
NeverTwice ==
    \A n \in Containers \ missed :
        Cardinality({e \in NamesOf(engines) : container[<<e, n>>] # "none"}) <= 1

(***************************************************************************)
(* Once nothing changes or fails any more, the phase of every pod bound    *)
(* here is the one its containers have, each as the lookup finds it,       *)
(* whatever was published late or got lost; and Failed when one cannot be  *)
(* started because the node has no engine of the pod's class ("an error    *)
(* the agent surfaces on the pod", mod.rs:206-207).  A pod that is         *)
(* restarted always need not settle: the pod controller may go on for ever *)
(* deleting and creating it.                                               *)
(***************************************************************************)
TruePhase(p) ==
    LET held(n) == Found(engines, container, n, {})
        engine  == ForClass(engines, pods[p].class)
    IN  Phase(\E n \in Names(p) :
                 \/ held(n) = {} /\ engine = {}
                 \/ \E e \in held(n) : container[<<e, n>>] = "exited" /\ code[<<e, n>>] # 0,
              \A n \in Names(p) : \E e \in held(n) : container[<<e, n>>] = "running")
StatusConverges == <>[](\A p \in Pods \ Always : Bound(p) => pods[p].phase = TruePhase(p))

(***************************************************************************)
(* A pod the user wants is given a node: "Find and schedule all pending    *)
(* pods" (scheduler.rs:84).                                                *)
(***************************************************************************)
WantedIsBound ==
    \A p \in Pods : p \in wanted ~> p \notin wanted \/ (p \in DOMAIN pods /\ pods[p].node # NoNode)
=============================================================================
