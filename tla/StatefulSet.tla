----------------------------- MODULE StatefulSet -----------------------------
(***************************************************************************)
(* One StatefulSet and its pods: the statefulset controller                *)
(* (server/controller.rs, reconcile_statefulsets), the handlers of the API *)
(* server (server/api.rs) and the phases the agents report.                *)
(*                                                                         *)
(* The pods are named <set>-<i>, so a pod is its index: whoever created    *)
(* it, the controller takes a pod of that name for its own.  Every         *)
(* database call is a step of its own, but for the get and the delete of a *)
(* pod that is trimmed: the delete goes by name, so the pair takes effect  *)
(* when the delete does.  A worker is the controller task of one master.   *)
(***************************************************************************)
EXTENDS PodTable

CONSTANTS
    Workers,      \* controller tasks that may run a pass
    Cap,          \* how many indices above the wanted ones a pass looks at: 32
    MaxReplicas,  \* bound: the largest replica count asked for
    MaxEvents     \* bound: requests of the user, database errors, failing pods

ASSUME StatefulSetAssumption ==
    Cap \in Nat \ {0} /\ MaxReplicas \in Nat /\ MaxEvents \in Nat

VARIABLES
    pods,    \* the pods table: index -> row
    set,     \* the row of the set, or NoSet
    worker,  \* the pass of each worker
    api,     \* the DELETE request in progress
    events,  \* requests and failures so far
    calm     \* history: nothing has happened that unsettles the order

vars == <<pods, set, worker, api, events, calm>>

Indices == 0 .. MaxReplicas - 1
Phases  == {"Pending", "Running", "Failed"}
NoSet == [exists |-> FALSE, replicas |-> 0, parallel |-> FALSE, ready |-> 0, current |-> 0]
Idle  == [pc |-> "idle", set |-> NoSet, at |-> 0, ready |-> 0, current |-> 0]
NoRequest == [pc |-> "idle", listed |-> {}]
(* pod_for_statefulset.                                                    *)
NewPod == [uid |-> 0, created |-> 0, phase |-> "Pending", ip |-> FALSE]

Init ==
    /\ pods = [i \in {} |-> NewPod]
    /\ set = NoSet
    /\ worker = [w \in Workers |-> Idle]
    /\ api = NoRequest
    /\ events = 0
    /\ calm = TRUE

Event    == events < MaxEvents /\ events' = events + 1
Unsettle == Event /\ calm' = FALSE
Running(i) == pods[i].phase = "Running"
-----------------------------------------------------------------------------
(* The controller: reconcile_statefulset.                                  *)

(* The scale-down begins at the highest index it looks at.                 *)
Trim(pass) == [pass EXCEPT !.pc = "trim", !.at = pass.set.replicas + Cap - 1]
Walk(pass, i) ==
    IF i < pass.set.replicas THEN [pass EXCEPT !.pc = "walk", !.at = i] ELSE Trim(pass)
(* A pass whose set is OrderedReady stops at the index it is at.           *)
Onward_Unordered(pass) == Walk(pass, pass.at + 1)
Onward(pass) == IF pass.set.parallel THEN Walk(pass, pass.at + 1) ELSE Trim(pass)

Quiet(w) == \A v \in Workers \ {w} : worker[v].pc = "idle"

(* StatefulSetRepository::list: the pass works on this copy of the row.    *)
ListSets(w) ==
    /\ worker[w].pc = "idle"
    /\ set.exists
    /\ worker' = [worker EXCEPT ![w] = Walk([Idle EXCEPT !.set = set], 0)]
    /\ calm' = (calm /\ Quiet(w))
    /\ UNCHANGED <<pods, set, api, events>>

(* PodRepository::get: the pod runs, or is there and does not run, or is   *)
(* missing.  Only a pod that is there counts.                              *)
Visited(pass) ==
    LET i == pass.at
        seen == [pass EXCEPT !.current = @ + 1]
    IN  CASE i \notin DOMAIN pods -> [pass EXCEPT !.pc = "create"]
          [] i \in DOMAIN pods /\ Running(i) -> Walk([seen EXCEPT !.ready = @ + 1], i + 1)
          [] OTHER -> Onward(seen)
GetPod(w) ==
    /\ worker[w].pc = "walk"
    /\ worker' = [worker EXCEPT ![w] = Visited(@)]
    /\ UNCHANGED <<pods, set, api, events, calm>>

(* Any error of the get is taken for a missing pod.                        *)
GetPodErr(w) ==
    /\ worker[w].pc = "walk"
    /\ Unsettle
    /\ worker' = [worker EXCEPT ![w].pc = "create"]
    /\ UNCHANGED <<pods, set, api>>

(* PodRepository::create is an upsert: it replaces a pod that is there,    *)
(* because the get has failed, another pass has created it or a user has.  *)
CreatePod(w) ==
    /\ worker[w].pc = "create"
    /\ pods' = Upsert(pods, worker[w].at, NewPod)
    /\ worker' = [worker EXCEPT ![w] = Onward(@)]
    /\ UNCHANGED <<set, api, events, calm>>

(* Its error ends the walk.                                                *)
CreatePodErr(w) ==
    /\ worker[w].pc = "create"
    /\ Unsettle
    /\ worker' = [worker EXCEPT ![w] = Trim(@)]
    /\ UNCHANGED <<pods, set, api>>

(* One index of the scale-down, from the highest: an error of the get is   *)
(* taken for a missing pod, one of the delete is ignored.                  *)
TrimPod(w) ==
    /\ worker[w].pc = "trim"
    /\ worker' = [worker EXCEPT ![w].at = @ - 1,
                                ![w].pc = IF worker[w].at = worker[w].set.replicas
                                          THEN "status" ELSE @]
    /\ \/ pods' = Remove(pods, worker[w].at) /\ UNCHANGED <<events, calm>>
       \/ worker[w].at \in DOMAIN pods /\ Unsettle /\ UNCHANGED pods
    /\ UNCHANGED <<set, api>>

(* StatefulSetRepository::update_status, by name.                          *)
UpdateSetStatus_Swapped(w) ==
    /\ worker[w].pc = "status"
    /\ worker' = [worker EXCEPT ![w] = Idle]
    /\ \/ /\ set' = IF set.exists
                    THEN [set EXCEPT !.ready = worker[w].current, !.current = worker[w].ready]
                    ELSE set
          /\ UNCHANGED <<events, calm>>
       \/ Unsettle /\ UNCHANGED set
    /\ UNCHANGED <<pods, api>>
UpdateSetStatus(w) ==
    /\ worker[w].pc = "status"
    /\ worker' = [worker EXCEPT ![w] = Idle]
    /\ \/ /\ set' = IF set.exists
                    THEN [set EXCEPT !.ready = worker[w].ready, !.current = worker[w].current]
                    ELSE set
          /\ UNCHANGED <<events, calm>>
       \/ Unsettle /\ UNCHANGED set
    /\ UNCHANGED <<pods, api>>

WorkerStep(w) ==
    \/ ListSets(w) \/ GetPod(w) \/ GetPodErr(w) \/ CreatePod(w) \/ CreatePodErr(w)
    \/ TrimPod(w) \/ UpdateSetStatus(w)
-----------------------------------------------------------------------------
(* The API server.                                                         *)

(* create_statefulset and update_statefulset: an upsert, which keeps the   *)
(* status of a row that is there.                                          *)
ApplySet(r, parallel) ==
    /\ Event
    /\ set' = [set EXCEPT !.exists = TRUE, !.replicas = r, !.parallel = parallel]
    /\ calm' = (calm /\ ~parallel /\ r + Cap >= MaxReplicas)
    /\ UNCHANGED <<pods, worker, api>>

(* delete_statefulset: the row is read and the pods its matchLabels select *)
(* are listed; without a row, a list or matchLabels there is no cascade.   *)
DeleteList ==
    /\ api.pc = "idle"
    /\ set.exists
    /\ Unsettle
    /\ \E listed \in {DOMAIN pods, {}} :
         api' = [pc |-> IF listed = {} THEN "row" ELSE "pods", listed |-> listed]
    /\ UNCHANGED <<pods, set, worker>>

DeleteOwnedPod ==
    /\ api.pc = "pods"
    /\ \E i \in api.listed :
         /\ \/ pods' = Remove(pods, i) /\ UNCHANGED <<events, calm>>
            \/ Unsettle /\ UNCHANGED pods
         /\ api' = [api EXCEPT !.listed = @ \ {i},
                               !.pc = IF api.listed = {i} THEN "row" ELSE @]
    /\ UNCHANGED <<set, worker>>

(* The row goes last, or the request fails there.                          *)
DeleteRow ==
    /\ api.pc = "row"
    /\ api' = NoRequest
    /\ \/ set' = NoSet /\ UNCHANGED <<events, calm>>
       \/ Unsettle /\ UNCHANGED set
    /\ UNCHANGED <<pods, worker>>

(* create_pod and update_pod by the name of a pod of the set: an upsert,   *)
(* with the phase of the manifest.                                         *)
UserApplyPod(i, phase) ==
    /\ Unsettle
    /\ pods' = Upsert(pods, i, [NewPod EXCEPT !.phase = phase])
    /\ UNCHANGED <<set, worker, api>>

(* delete_pod.                                                             *)
UserDeletePod(i) ==
    /\ Unsettle
    /\ pods' = Remove(pods, i)
    /\ UNCHANGED <<set, worker, api>>

(* update_pod_status: an agent reports that a pod runs, or that it failed. *)
ReportRunning(i) ==
    /\ pods[i].phase # "Running"
    /\ pods' = UpdateStatus(pods, i, "Running", TRUE)
    /\ UNCHANGED <<set, worker, api, events, calm>>
ReportFailed(i) ==
    /\ pods[i].phase # "Failed"
    /\ Unsettle
    /\ pods' = UpdateStatus(pods, i, "Failed", TRUE)
    /\ UNCHANGED <<set, worker, api>>

DeleteStep == DeleteOwnedPod \/ DeleteRow

Next ==
    \/ \E w \in Workers : WorkerStep(w)
    \/ \E r \in 0 .. MaxReplicas, parallel \in BOOLEAN : ApplySet(r, parallel)
    \/ DeleteList \/ DeleteStep
    \/ \E i \in Indices, phase \in Phases : UserApplyPod(i, phase)
    \/ \E i \in DOMAIN pods : UserDeletePod(i) \/ ReportRunning(i) \/ ReportFailed(i)

Spec == Init /\ [][Next]_vars

(* The loop ticks for ever, a request runs to its end and the agents start *)
(* what is new; a pod that failed need not run again.                      *)
FairSpec ==
    /\ Spec
    /\ \A w \in Workers : WF_vars(WorkerStep(w))
    /\ WF_vars(DeleteStep)
    /\ WF_vars(\E i \in DOMAIN pods : pods[i].phase = "Pending" /\ ReportRunning(i))
-----------------------------------------------------------------------------
Rows == [uid : {0}, created : {0}, phase : Phases, ip : BOOLEAN]
Sets == [exists : BOOLEAN, replicas : 0 .. MaxReplicas, parallel : BOOLEAN,
         ready : 0 .. MaxReplicas, current : 0 .. MaxReplicas]
Passes == [pc : {"idle", "walk", "create", "trim", "status"}, set : Sets, at : Int,
           ready : 0 .. MaxReplicas, current : 0 .. MaxReplicas]
(* A pass counts no more than it has walked past and stays within its set. *)
OnTrack(pass) ==
    /\ pass.ready <= pass.current /\ pass.current <= pass.set.replicas
    /\ pass.pc \in {"walk", "create"} => pass.current <= pass.at /\ pass.at < pass.set.replicas
    /\ pass.pc = "trim" => pass.at >= pass.set.replicas
TypeOK ==
    /\ DOMAIN pods \subseteq Indices
    /\ \A i \in DOMAIN pods : pods[i] \in Rows
    /\ set \in Sets
    /\ worker \in [Workers -> Passes]
    /\ \A w \in Workers : OnTrack(worker[w])
    /\ api \in [pc : {"idle", "pods", "row"}, listed : SUBSET Indices]
    /\ events \in Nat /\ calm \in BOOLEAN

(***************************************************************************)
(* OrderedReady: "creation halts at the first not-yet-Running pod so we    *)
(* stay strictly sequential" (controller.rs:337-338).  As long as no pod   *)
(* fails, no user creates, changes or deletes one, no call errs and no two *)
(* passes overlap, at most one pod of the set is starting, however the set *)
(* is scaled, within what a scale-down looks at, and whatever the agents   *)
(* report between the steps of a pass.                                     *)
(***************************************************************************)
OneStartsAtATime ==
    calm => Cardinality({i \in DOMAIN pods : ~Running(i)}) <= 1

(***************************************************************************)
(* Once the user is done, the set has the indices asked for and no other   *)
(* that a scale-down looks at, and its status counts them, also after two  *)
(* masters' passes overlapped or a user created or deleted a pod of the    *)
(* set between the steps of a pass (controller.rs:367), unless a pod that  *)
(* failed holds up those behind it.                                        *)
(***************************************************************************)
HeldUp == ~set.parallel /\ \E i \in DOMAIN pods : pods[i].phase = "Failed"
Settled ==
    /\ DOMAIN pods \cap 0 .. set.replicas + Cap - 1 = 0 .. set.replicas - 1
    /\ set.current = set.replicas
    /\ set.ready = Cardinality({i \in 0 .. set.replicas - 1 : Running(i)})
Converges == <>[](set.exists => HeldUp \/ Settled)
=============================================================================
