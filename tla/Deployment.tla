----------------------------- MODULE Deployment -----------------------------
(***************************************************************************)
(* One Deployment and the pods around it: the deployment controller        *)
(* (server/controller.rs, reconcile_deployments), the deployment and pod   *)
(* handlers of the API server (server/api.rs) and the phases the node      *)
(* agents report, over the two tables in db/repository.rs.                 *)
(*                                                                         *)
(* Every database call is a step of its own, since each one is an await:   *)
(* between the list and the writes of a pass, or of a cascading delete,    *)
(* the other tasks run.  A worker is the controller task of one master;    *)
(* more than one stands for masters whose leases overlap.  Pods are named  *)
(* afresh (a UUID suffix), so a name is never used twice.  Events and      *)
(* watch notifications are left out: they change neither table.            *)
(***************************************************************************)
EXTENDS PodTable

CONSTANTS
    Workers,      \* controller tasks that may run a pass
    Selectors,    \* the selector kinds the user's manifests have
    BarePods,     \* the labels of the pods the user creates directly
    MaxReplicas,  \* bound: the largest replica count asked for
    MaxPods,      \* bound: how many pods are ever created
    MaxEvents     \* bound: requests of the user, database errors, failing pods

(* spec.selector.matchLabels: labels the template's pods carry, an empty   *)
(* map, or no map.  The template always has labels ("app").                *)
ASSUME DeploymentAssumption ==
    /\ Selectors \subseteq {"labels", "empty", "none"}
    /\ BarePods \subseteq {"app", "other", "unlabelled"}
    /\ MaxReplicas \in Nat /\ MaxPods \in Nat /\ MaxEvents \in Nat

VARIABLES
    pods,    \* the pods table
    dep,     \* the row of the deployment, or NoDep
    worker,  \* the pass of each worker
    api,     \* the DELETE request in progress
    names,   \* pods created so far: the last name drawn
    uids,    \* deployments created so far: the last uid drawn
    events   \* requests and failures so far

vars == <<pods, dep, worker, api, names, uids, events>>

NoOwner == 0
NoDep   == [uid |-> 0, replicas |-> 0, sel |-> "none", ready |-> 0]
Exists  == dep # NoDep

Phases  == {"Pending", "Running", "Failed"}
Labels  == {"app", "other", "unlabelled"}

(* The effective selector of a pass: matchLabels, or the template labels   *)
(* when matchLabels is empty or missing.  Either way it is {app}.          *)
Selected(p) == pods[p].labels = "app"
Owned(uid)  == {p \in DOMAIN pods : Selected(p) /\ pods[p].owner = uid}
Running(S)  == {p \in S : pods[p].phase = "Running"}

(* The selector of a cascading delete: matchLabels as it stands.  An empty *)
(* map selects every pod that has labels.                                  *)
Cascaded(sel) ==
    {p \in DOMAIN pods : \/ sel = "labels" /\ Selected(p)
                         \/ sel = "empty" /\ pods[p].labels # "unlabelled"}

Idle == [pc |-> "idle", dep |-> NoDep, todo |-> 0, victims |-> {}, ready |-> 0,
         alone |-> FALSE]
NoRequest == [pc |-> "idle", dep |-> NoDep, listed |-> {}]

Init ==
    /\ pods = [p \in {} |-> 0]
    /\ dep = NoDep
    /\ worker = [w \in Workers |-> Idle]
    /\ api = NoRequest
    /\ names = 0 /\ uids = 0 /\ events = 0

NewPod(owner, labels) ==
    [uid |-> names + 1, created |-> names + 1, owner |-> owner,
     labels |-> labels, phase |-> "Pending", ip |-> FALSE, node |-> FALSE]

(* What the environment does to the system, within the bound.              *)
Event   == events < MaxEvents /\ events' = events + 1
Fault   == Event
Request == Event
-----------------------------------------------------------------------------
(* The controller: reconcile_deployments and reconcile_deployment.         *)

Quiet(w) == \A v \in Workers \ {w} : worker[v].pc = "idle"

(* DeploymentRepository::list: the pass works on this copy of the row.     *)
(* alone is history: no other worker's pass has overlapped this one.       *)
ListDeployments(w) ==
    /\ worker[w].pc = "idle"
    /\ Exists
    /\ worker' = [v \in Workers |->
                    IF v = w THEN [Idle EXCEPT !.pc = "list", !.dep = dep,
                                               !.alone = Quiet(w)]
                             ELSE [worker[v] EXCEPT !.alone = FALSE]]
    /\ UNCHANGED <<pods, dep, api, names, uids, events>>

(* PodRepository::list and the comparison with the desired count.  Every   *)
(* owned pod counts, whatever its phase; the surplus is the newest pods.   *)
Plan_OffByOne(w) ==
    LET owned == Owned(worker[w].dep.uid)
        surplus == Cardinality(owned) - worker[w].dep.replicas
    IN  [worker[w] EXCEPT
            !.pc = IF surplus <= 0 THEN "create" ELSE "delete",
            !.todo = IF surplus <= 0 THEN 1 - surplus ELSE 0,
            !.victims = IF surplus > 0 THEN Newest(pods, owned, surplus) ELSE {},
            !.ready = Cardinality(Running(owned))]
Plan_OneTooFew(w) ==
    LET owned == Owned(worker[w].dep.uid)
        surplus == Cardinality(owned) - worker[w].dep.replicas
    IN  [worker[w] EXCEPT
            !.pc = IF surplus < 0 THEN "create"
                   ELSE IF surplus > 1 THEN "delete" ELSE "status",
            !.todo = IF surplus < 0 THEN 0 - surplus ELSE 0,
            !.victims = IF surplus > 1 THEN Newest(pods, owned, surplus - 1) ELSE {},
            !.ready = Cardinality(Running(owned))]
Plan(w) ==
    LET owned == Owned(worker[w].dep.uid)
        surplus == Cardinality(owned) - worker[w].dep.replicas
    IN  [worker[w] EXCEPT
            !.pc = IF surplus < 0 THEN "create"
                   ELSE IF surplus > 0 THEN "delete" ELSE "status",
            !.todo = IF surplus < 0 THEN 0 - surplus ELSE 0,
            !.victims = IF surplus > 0 THEN Newest(pods, owned, surplus) ELSE {},
            !.ready = Cardinality(Running(owned))]

ListPods(w) ==
    /\ worker[w].pc = "list"
    /\ worker' = [worker EXCEPT ![w] = Plan(w)]
    /\ UNCHANGED <<pods, dep, api, names, uids, events>>

(* An error of the list ends the pass of this deployment.                  *)
ListPodsErr(w) ==
    /\ worker[w].pc = "list"
    /\ Fault
    /\ worker' = [worker EXCEPT ![w] = Idle]
    /\ UNCHANGED <<pods, dep, api, names, uids>>

AfterCreate(w) ==
    worker' = [worker EXCEPT ![w].todo = @ - 1,
                             ![w].pc = IF worker[w].todo = 1 THEN "status" ELSE @]

(* create_pod_for_deployment.                                              *)
CreatePod(w) ==
    /\ worker[w].pc = "create"
    /\ names < MaxPods
    /\ pods' = Upsert(pods, names + 1, NewPod(worker[w].dep.uid, "app"))
    /\ names' = names + 1
    /\ AfterCreate(w)
    /\ UNCHANGED <<dep, api, uids, events>>

(* Its error is logged and the loop goes on.                               *)
CreatePodErr(w) ==
    /\ worker[w].pc = "create"
    /\ Fault
    /\ AfterCreate(w)
    /\ UNCHANGED <<pods, dep, api, names, uids>>

AfterDelete(w, p) ==
    worker' = [worker EXCEPT ![w].victims = @ \ {p},
                             ![w].pc = IF worker[w].victims = {p}
                                       THEN "status" ELSE @]

(* The deletions go from the newest to the oldest.  A victim that is gone  *)
(* is NotFound, which is ignored like any error.                           *)
DeletePod(w) ==
    /\ worker[w].pc = "delete"
    /\ LET p == CHOOSE v \in worker[w].victims : \A o \in worker[w].victims : o <= v
       IN  /\ AfterDelete(w, p)
           /\ \/ pods' = Remove(pods, p) /\ UNCHANGED events
              \/ Fault /\ UNCHANGED pods
    /\ UNCHANGED <<dep, api, names, uids>>

(* DeploymentRepository::update_status, by name: the row may have been     *)
(* deleted, or be another deployment of the same name, since the list.     *)
UpdateDeploymentStatus(w) ==
    /\ worker[w].pc = "status"
    /\ worker' = [worker EXCEPT ![w] = Idle]
    /\ \/ /\ dep' = IF Exists THEN [dep EXCEPT !.ready = worker[w].ready] ELSE dep
          /\ UNCHANGED events
       \/ Fault /\ UNCHANGED dep
    /\ UNCHANGED <<pods, api, names, uids>>

WorkerStep(w) ==
    \/ ListDeployments(w) \/ ListPods(w) \/ ListPodsErr(w) \/ CreatePod(w)
    \/ CreatePodErr(w) \/ DeletePod(w) \/ UpdateDeploymentStatus(w)
-----------------------------------------------------------------------------
(* The API server.                                                         *)

(* create_deployment and update_deployment: the same upsert, which keeps   *)
(* the uid and the status of a row that is there.                          *)
ApplyDeployment(r, sel) ==
    /\ Request
    /\ IF Exists
       THEN /\ dep' = [dep EXCEPT !.replicas = r, !.sel = sel]
            /\ UNCHANGED uids
       ELSE /\ dep' = [uid |-> uids + 1, replicas |-> r, sel |-> sel, ready |-> 0]
            /\ uids' = uids + 1
    /\ UNCHANGED <<pods, worker, api, names>>

(* delete_deployment: the row is read,                                     *)
DeleteGet ==
    /\ api.pc = "idle"
    /\ Exists
    /\ Request
    /\ api' = [pc |-> "list", dep |-> dep, listed |-> {}]
    /\ UNCHANGED <<pods, dep, worker, names, uids>>

(* the pods its matchLabels select are listed,                             *)
DeleteList ==
    /\ api.pc = "list"
    /\ LET listed == Cascaded(api.dep.sel)
       IN  api' = [api EXCEPT !.listed = listed,
                              !.pc = IF listed = {} THEN "row" ELSE "pods"]
    /\ UNCHANGED <<pods, dep, worker, names, uids, events>>

(* each is deleted, newest first, errors ignored,                          *)
DeleteOwnedPod ==
    /\ api.pc = "pods"
    /\ LET p == CHOOSE v \in api.listed : \A o \in api.listed : o <= v
       IN  /\ \/ pods' = Remove(pods, p) /\ UNCHANGED events
              \/ Fault /\ UNCHANGED pods
           /\ api' = [api EXCEPT !.listed = @ \ {p},
                                 !.pc = IF api.listed = {p} THEN "row" ELSE @]
    /\ UNCHANGED <<dep, worker, names, uids>>

(* and the row goes last; NotFound when another request deleted it.        *)
DeleteRow ==
    /\ api.pc = "row"
    /\ dep' = NoDep
    /\ api' = NoRequest
    /\ UNCHANGED <<pods, worker, names, uids, events>>

(* An error of the list or of the last delete ends the request there.      *)
DeleteErr ==
    /\ api.pc \in {"list", "row"}
    /\ Fault
    /\ api' = NoRequest
    /\ UNCHANGED <<pods, dep, worker, names, uids>>

(* create_pod: a pod nobody owns.                                          *)
UserCreatePod(labels) ==
    /\ Request
    /\ names < MaxPods
    /\ pods' = Upsert(pods, names + 1, NewPod(NoOwner, labels))
    /\ names' = names + 1
    /\ UNCHANGED <<dep, worker, api, uids>>

(* delete_pod.                                                             *)
UserDeletePod(p) ==
    /\ Request
    /\ pods' = Remove(pods, p)
    /\ UNCHANGED <<dep, worker, api, names, uids>>

(* update_pod_status: the agent reports that a pod runs, be it one that it *)
(* could not start before, ...                                             *)
ReportRunning(p) ==
    /\ pods[p].phase # "Running"
    /\ pods' = UpdateStatus(pods, p, "Running", TRUE)
    /\ UNCHANGED <<dep, worker, api, names, uids, events>>

(* ... that it failed, or that its containers ended well ("Pending").      *)
ReportStopped(p, phase) ==
    /\ pods[p].phase # phase
    /\ Fault
    /\ pods' = UpdateStatus(pods, p, phase, TRUE)
    /\ UNCHANGED <<dep, worker, api, names, uids>>

DeleteStep == DeleteList \/ DeleteOwnedPod \/ DeleteRow \/ DeleteErr

User ==
    \/ \E r \in 0 .. MaxReplicas, sel \in Selectors : ApplyDeployment(r, sel)
    \/ DeleteGet
    \/ \E l \in BarePods : UserCreatePod(l)
    \/ \E p \in DOMAIN pods : UserDeletePod(p)

Agent == \E p \in DOMAIN pods :
    ReportRunning(p) \/ \E phase \in {"Pending", "Failed"} : ReportStopped(p, phase)

Next == (\E w \in Workers : WorkerStep(w)) \/ User \/ DeleteStep \/ Agent

Spec == Init /\ [][Next]_vars

(* The controller loop ticks for ever, a request runs to its end and the   *)
(* agents start what is new; the user owes nothing, and a pod that failed  *)
(* need not run again.                                                     *)
Fairness ==
    /\ \A w \in Workers : WF_vars(WorkerStep(w))
    /\ WF_vars(DeleteStep)
    /\ WF_vars(\E p \in DOMAIN pods : pods[p].phase = "Pending" /\ ReportRunning(p))

FairSpec == Spec /\ Fairness
-----------------------------------------------------------------------------
Rows == [uid : Nat, created : Nat, owner : Nat, labels : Labels,
         phase : Phases, ip : BOOLEAN, node : BOOLEAN]
Deps == [uid : Nat, replicas : Nat, sel : Selectors \cup {"none"}, ready : Nat]

Passes == [pc : {"idle", "list", "create", "delete", "status"}, dep : Deps, todo : Nat,
           victims : SUBSET (1 .. names), ready : Nat, alone : BOOLEAN]
Requests == [pc : {"idle", "list", "pods", "row"}, dep : Deps, listed : SUBSET (1 .. names)]

TypeOK ==
    /\ DOMAIN pods \subseteq 1 .. names
    /\ \A p \in DOMAIN pods : pods[p] \in Rows
    /\ dep \in Deps
    /\ worker \in [Workers -> Passes]
    /\ api \in Requests
    /\ names \in Nat /\ uids \in Nat /\ events \in Nat

(***************************************************************************)
(* A pass that creates never takes its deployment past the count it was    *)
(* asked for, whatever the user, the agents and a cascading delete do      *)
(* between its steps, and whatever earlier overlapping masters left behind *)
(* (controller.rs:160-188).  Only a pass of another master that overlaps   *)
(* this very pass can make it overshoot.                                   *)
(***************************************************************************)
NeverOvershoots ==
    \A w \in Workers : worker[w].pc = "create" /\ worker[w].alone =>
        Cardinality(Owned(worker[w].dep.uid)) + worker[w].todo
            <= worker[w].dep.replicas

(***************************************************************************)
(* Once the user is done, the deployment has the count asked for and its   *)
(* status says how many of its pods run, also when two masters' passes     *)
(* overlap and when database calls fail: the loop is self-stabilising.     *)
(***************************************************************************)
Settled == Exists => /\ Cardinality(Owned(dep.uid)) = dep.replicas
                     /\ dep.ready = Cardinality(Running(Owned(dep.uid)))
Converges == <>[]Settled
=============================================================================
