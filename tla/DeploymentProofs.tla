-------------------------- MODULE DeploymentProofs --------------------------
(***************************************************************************)
(* Proofs about the deployment controller, for every number of masters, of *)
(* replicas, of pods, of requests and of failures.                         *)
(***************************************************************************)
EXTENDS Deployment, FiniteSetTheorems, TLAPS

(* A pass in its creating loop has a pod left to create.                   *)
HasWork == \A w \in Workers : worker[w].pc = "create" => worker[w].todo > 0

(* The uid of a deployment is never the owner of a pod nobody owns.        *)
RealUid ==
    /\ Exists => dep.uid # NoOwner
    /\ \A w \in Workers : worker[w].pc # "idle" => worker[w].dep.uid # NoOwner

(* A pass that has been alone since it began is alone now.                 *)
AloneIsQuiet == \A w \in Workers : worker[w].alone => Quiet(w)

Typed == TypeOK /\ HasWork
IInv  == Typed /\ RealUid /\ AloneIsQuiet /\ NeverOvershoots

(* The pods of a deployment are finitely many.                             *)
LEMMA OwnedFinite ==
    ASSUME TypeOK, NEW u
    PROVE  /\ IsFiniteSet(Owned(u)) /\ Cardinality(Owned(u)) \in Nat
           /\ Cardinality(Running(Owned(u))) \in Nat
<1>1. IsFiniteSet(1 .. names)
  BY FS_Interval DEF TypeOK
<1>2. Owned(u) \subseteq 1 .. names /\ Running(Owned(u)) \subseteq 1 .. names
  BY DEF TypeOK, Owned, Running
<1>3. IsFiniteSet(Owned(u)) /\ IsFiniteSet(Running(Owned(u)))
  BY <1>1, <1>2, FS_Subset
<1> QED
  BY <1>3, FS_CardinalityType

(* Two of the writes of the pods table, as functions.                      *)
LEMMA RemoveShrinks ==
    ASSUME NEW t, NEW n
    PROVE  /\ DOMAIN Remove(t, n) = DOMAIN t \ {n}
           /\ \A m \in DOMAIN t \ {n} : Remove(t, n)[m] = t[m]
  BY DEF Remove
LEMMA UpdateStatusTyped ==
    ASSUME NEW t, \A m \in DOMAIN t : t[m] \in Rows, NEW n, NEW phase \in Phases
    PROVE  /\ DOMAIN UpdateStatus(t, n, phase, TRUE) = DOMAIN t
           /\ \A m \in DOMAIN t : /\ UpdateStatus(t, n, phase, TRUE)[m] \in Rows
                                  /\ UpdateStatus(t, n, phase, TRUE)[m].owner = t[m].owner
                                  /\ UpdateStatus(t, n, phase, TRUE)[m].labels = t[m].labels
<1>1. ASSUME NEW r \in Rows
      PROVE  LET s == [[r EXCEPT !.phase = phase] EXCEPT !.ip = TRUE]
             IN  s \in Rows /\ s.owner = r.owner /\ s.labels = r.labels
  BY DEF Rows
<1>2. CASE n \in DOMAIN t
  <2>1. UpdateStatus(t, n, phase, TRUE)
          = [t EXCEPT ![n] = [[t[n] EXCEPT !.phase = phase] EXCEPT !.ip = TRUE]]
    BY <1>2 DEF UpdateStatus
  <2> QED
    BY <1>1, <1>2, <2>1
<1>3. CASE n \notin DOMAIN t
  BY <1>3 DEF UpdateStatus
<1> QED
  BY <1>2, <1>3

(* Names are only drawn, never given back.                                 *)
LEMMA TypesGrow ==
    ASSUME names \in Nat, names' \in Nat, names' >= names
    PROVE  Passes \subseteq Passes' /\ Requests \subseteq Requests'
<1>1. 1 .. names \subseteq 1 .. names'
  OBVIOUS
<1>2. SUBSET (1 .. names) \subseteq SUBSET (1 .. names')
  BY <1>1
<1> QED
  BY <1>2 DEF Passes, Requests

LEMMA PassParts ==
    ASSUME NEW r \in Passes
    PROVE  /\ r.dep \in Deps /\ r.todo \in Nat /\ r.victims \subseteq 1 .. names
           /\ r.dep.uid \in Nat /\ r.dep.replicas \in Nat /\ r.ready \in Nat
           /\ r.alone \in BOOLEAN
  BY DEF Passes, Deps

LEMMA IdleTyped == /\ NoDep \in Deps /\ Idle \in Passes /\ NoRequest \in Requests
                   /\ Idle \in Passes' /\ NoRequest \in Requests'
  BY DEF NoDep, Idle, NoRequest, Passes, Requests, Deps

(* What reconcile_deployment decides from its list keeps the types.        *)
LEMMA PlanTyped ==
    ASSUME Typed, NEW w \in Workers
    PROVE  /\ Plan(w) \in Passes
           /\ Plan(w).pc = "create" => Plan(w).todo > 0
<1> DEFINE owned == Owned(worker[w].dep.uid)
           surplus == Cardinality(owned) - worker[w].dep.replicas
<1>1. worker[w] \in Passes
  BY DEF Typed, TypeOK
<1>2. /\ Cardinality(owned) \in Nat /\ Cardinality(Running(owned)) \in Nat
      /\ worker[w].dep.replicas \in Nat
  BY <1>1, OwnedFinite, PassParts DEF Typed
<1>3. Newest(pods, owned, surplus) \in SUBSET (1 .. names)
  BY DEF Newest, Owned, Typed, TypeOK
<1>4. surplus \in Int /\ (surplus < 0 => 0 - surplus \in Nat /\ 0 - surplus > 0)
  BY <1>2
<1> HIDE DEF owned, surplus
<1> DEFINE pc == IF surplus < 0 THEN "create" ELSE IF surplus > 0 THEN "delete" ELSE "status"
           todo == IF surplus < 0 THEN 0 - surplus ELSE 0
           victims == IF surplus > 0 THEN Newest(pods, owned, surplus) ELSE {}
           ready == Cardinality(Running(owned))
<1>5. Plan(w) = [worker[w] EXCEPT !.pc = pc, !.todo = todo, !.victims = victims,
                                  !.ready = ready]
  BY DEF Plan, owned, surplus
<1>6. /\ pc \in {"create", "delete", "status"} /\ todo \in Nat
      /\ victims \in SUBSET (1 .. names) /\ ready \in Nat
      /\ pc = "create" => todo > 0
  BY <1>2, <1>3, <1>4
<1> HIDE DEF pc, todo, victims, ready
<1> QED
  BY <1>1, <1>5, <1>6 DEF Passes

(* A step of a worker that puts a typed pass in the place of its own.      *)
LEMMA WorkerTyped ==
    ASSUME Typed, NEW w \in Workers, NEW r \in Passes', worker' = [worker EXCEPT ![w] = r],
           r.pc = "create" => r.todo > 0, names' \in Nat, names' >= names
    PROVE  worker' \in [Workers -> Passes'] /\ HasWork'
<1>1. worker \in [Workers -> Passes'] /\ names \in Nat
  BY TypesGrow DEF Typed, TypeOK
<1> QED
  BY <1>1 DEF Typed, HasWork

(* One step keeps the types of all variables.                              *)
LEMMA TypedNext == Typed /\ [Next]_vars => Typed'
<1> SUFFICES ASSUME Typed, [Next]_vars PROVE Typed'
  OBVIOUS
<1>0. /\ DOMAIN pods \subseteq 1 .. names
      /\ \A p \in DOMAIN pods : pods[p] \in Rows
      /\ dep \in Deps
      /\ worker \in [Workers -> Passes]
      /\ api \in Requests
      /\ names \in Nat /\ uids \in Nat /\ events \in Nat
      /\ names + 1 \notin DOMAIN pods
      /\ HasWork
  <2>1. DOMAIN pods \subseteq 1 .. names /\ names \in Nat
    BY DEF Typed, TypeOK
  <2>2. names + 1 \notin 1 .. names
    BY <2>1
  <2> QED
    BY <2>1, <2>2 DEF Typed, TypeOK
<1> USE DEF Typed, TypeOK
<1>1. CASE UNCHANGED vars
  BY <1>0, <1>1 DEF vars, HasWork, Passes, Requests
<1>p. (names' = names) => /\ Passes' = Passes /\ Requests' = Requests
                          /\ names' \in Nat /\ names' >= names
  BY <1>0 DEF Passes, Requests
<1>e. /\ Event => events' \in Nat
      /\ Fault => events' \in Nat
      /\ Request => events' \in Nat
  BY <1>0 DEF Event, Fault, Request
<1>i. ASSUME NEW w \in Workers, worker' = [worker EXCEPT ![w] = Idle], names' = names
      PROVE  worker' \in [Workers -> Passes'] /\ HasWork'
  <2>1. Idle.pc # "create"
    BY DEF Idle
  <2> QED
    BY <1>i, <1>p, <2>1, IdleTyped, WorkerTyped
<1>2. ASSUME NEW w \in Workers, ListDeployments(w) PROVE Typed'
  <2>1. worker' = [v \in Workers |-> IF v = w
            THEN [Idle EXCEPT !.pc = "list", !.dep = dep, !.alone = Quiet(w)]
            ELSE [worker[v] EXCEPT !.alone = FALSE]]
    BY <1>2 DEF ListDeployments
  <2>2. Quiet(w) \in BOOLEAN
    BY DEF Quiet
  <2>3. [Idle EXCEPT !.pc = "list", !.dep = dep, !.alone = Quiet(w)] \in Passes
    BY <1>0, <2>2 DEF Passes, Idle
  <2>4. ASSUME NEW v \in Workers
        PROVE  /\ [worker[v] EXCEPT !.alone = FALSE] \in Passes
               /\ [worker[v] EXCEPT !.alone = FALSE].pc = worker[v].pc
               /\ [worker[v] EXCEPT !.alone = FALSE].todo = worker[v].todo
    <3>1. worker[v] \in Passes
      BY <1>0
    <3> QED
      BY <3>1 DEF Passes
  <2>5. worker' \in [Workers -> Passes]
    BY <2>1, <2>3, <2>4
  <2>6. HasWork'
    BY <1>0, <2>1, <2>4 DEF HasWork, Idle
  <2> QED
    BY <1>0, <1>2, <1>p, <2>5, <2>6 DEF ListDeployments
<1>3. ASSUME NEW w \in Workers, ListPods(w) PROVE Typed'
  BY <1>0, <1>3, <1>p, PlanTyped, WorkerTyped DEF ListPods
<1>4. ASSUME NEW w \in Workers, ListPodsErr(w) PROVE Typed'
  BY <1>0, <1>4, <1>p, <1>e, <1>i DEF ListPodsErr
<1>c. ASSUME NEW w \in Workers, AfterCreate(w), worker[w].pc = "create",
             names' \in Nat, names' >= names
      PROVE  worker' \in [Workers -> Passes'] /\ HasWork'
  <2> DEFINE r == [[worker[w] EXCEPT !.todo = @ - 1]
                     EXCEPT !.pc = IF worker[w].todo = 1 THEN "status" ELSE @]
  <2>1. worker[w] \in Passes /\ worker[w].todo > 0 /\ worker[w].todo \in Nat
    BY <1>0, <1>c, PassParts DEF HasWork
  <2>2. worker[w].todo - 1 \in Nat
    BY <2>1
  <2>3. r \in Passes
    BY <2>1, <2>2 DEF Passes
  <2>4. r.pc = "create" => r.todo > 0
    BY <2>1, <2>2 DEF Passes
  <2>5. worker' = [worker EXCEPT ![w] = r]
    BY <1>0, <1>c DEF AfterCreate
  <2>6. r \in Passes'
    BY <1>0, <1>c, <2>3, TypesGrow
  <2> HIDE DEF r
  <2> QED
    BY <1>c, <2>4, <2>5, <2>6, WorkerTyped
<1>n. ASSUME NEW row \in Rows, pods' = Upsert(pods, names + 1, row), names' = names + 1
      PROVE  /\ DOMAIN pods' \subseteq 1 .. names'
             /\ \A p \in DOMAIN pods' : pods'[p] \in Rows
             /\ names' \in Nat /\ names' >= names
  <2> DEFINE n == names + 1
  <2>1. n \notin DOMAIN pods /\ pods' = Upsert(pods, n, row)
    BY <1>0, <1>n
  <2> HIDE DEF n
  <2>3. DOMAIN pods' = DOMAIN pods \cup {n} /\ pods'[n] = row
        /\ \A p \in DOMAIN pods : pods'[p] = pods[p]
    BY <2>1 DEF Upsert
  <2>2. 1 .. names \cup {names + 1} \subseteq 1 .. names' /\ names' \in Nat /\ names' >= names
    BY <1>0, <1>n
  <2> QED
    BY <1>0, <1>n, <2>3, <2>2 DEF n
<1>5. ASSUME NEW w \in Workers, CreatePod(w) PROVE Typed'
  <2>1. NewPod(worker[w].dep.uid, "app") \in Rows
    BY <1>0, PassParts DEF NewPod, Rows, Labels, Phases
  <2>2. /\ DOMAIN pods' \subseteq 1 .. names'
        /\ \A p \in DOMAIN pods' : pods'[p] \in Rows
        /\ names' \in Nat /\ names' >= names
    BY <1>5, <1>n, <2>1 DEF CreatePod
  <2>3. worker' \in [Workers -> Passes'] /\ HasWork'
    BY <1>5, <1>c, <2>2 DEF CreatePod
  <2>4. api' \in Requests'
    BY <1>0, <1>5, <2>2, TypesGrow DEF CreatePod
  <2> QED
    BY <1>0, <1>5, <2>2, <2>3, <2>4 DEF CreatePod
<1>6. ASSUME NEW w \in Workers, CreatePodErr(w) PROVE Typed'
  BY <1>0, <1>6, <1>c, <1>p DEF CreatePodErr, Fault, Event
<1>r. ASSUME NEW p, \/ pods' = Remove(pods, p) /\ UNCHANGED events
                    \/ Fault /\ UNCHANGED pods,
             names' = names
      PROVE  /\ DOMAIN pods' \subseteq 1 .. names'
             /\ \A q \in DOMAIN pods' : pods'[q] \in Rows
             /\ events' \in Nat
  <2>1. CASE pods' = Remove(pods, p) /\ UNCHANGED events
    <3>1. /\ DOMAIN pods' = DOMAIN pods \ {p}
          /\ \A q \in DOMAIN pods \ {p} : pods'[q] = pods[q]
      BY <2>1, RemoveShrinks
    <3> QED
      BY <1>0, <1>r, <2>1, <3>1
  <2>2. CASE Fault /\ UNCHANGED pods
    BY <1>0, <1>e, <1>r, <2>2
  <2> QED
    BY <1>r, <2>1, <2>2
<1>7. ASSUME NEW w \in Workers, DeletePod(w) PROVE Typed'
  <2>1. PICK p : /\ AfterDelete(w, p)
                 /\ \/ pods' = Remove(pods, p) /\ UNCHANGED events
                    \/ Fault /\ UNCHANGED pods
    BY <1>7 DEF DeletePod
  <2>2. names' = names
    BY <1>7 DEF DeletePod
  <2> DEFINE r == [[worker[w] EXCEPT !.victims = @ \ {p}]
                     EXCEPT !.pc = IF worker[w].victims = {p} THEN "status" ELSE @]
  <2>3. worker[w] \in Passes
    BY <1>0
  <2>4. r \in Passes /\ r.pc # "create"
    BY <1>7, <2>3 DEF Passes, DeletePod
  <2>5. worker' = [worker EXCEPT ![w] = r]
    BY <1>0, <2>1 DEF AfterDelete
  <2> HIDE DEF r
  <2>6. worker' \in [Workers -> Passes'] /\ HasWork'
    BY <1>p, <2>2, <2>4, <2>5, WorkerTyped
  <2> QED
    BY <1>0, <1>7, <1>p, <1>r, <2>1, <2>2, <2>6 DEF DeletePod
<1>8. ASSUME NEW w \in Workers, UpdateDeploymentStatus(w) PROVE Typed'
  <2>2. worker[w].ready \in Nat
    BY <1>0, PassParts
  <2>3. dep' \in Deps
    BY <1>0, <1>8, <2>2 DEF UpdateDeploymentStatus, Deps
  <2> QED
    BY <1>0, <1>8, <1>p, <1>e, <1>i, <2>3 DEF UpdateDeploymentStatus
<1>9. ASSUME NEW r \in 0 .. MaxReplicas, NEW sel \in Selectors, ApplyDeployment(r, sel)
      PROVE Typed'
  <2>1. r \in Nat
    BY DeploymentAssumption
  <2>2. dep' \in Deps /\ uids' \in Nat
    <3>1. CASE Exists
      BY <1>0, <1>9, <2>1, <3>1 DEF ApplyDeployment, Deps
    <3>2. CASE ~Exists
      BY <1>0, <1>9, <2>1, <3>2 DEF ApplyDeployment, Deps
    <3> QED
      BY <3>1, <3>2
  <2> QED
    BY <1>0, <1>9, <1>p, <1>e, <2>2 DEF ApplyDeployment, HasWork
<1>10. CASE DeleteGet
  <2>1. api' \in Requests
    BY <1>0, <1>10 DEF DeleteGet, Requests
  <2> QED
    BY <1>0, <1>10, <1>p, <2>1 DEF DeleteGet, Request, Event, HasWork
<1>11. CASE DeleteList
  <2>1. Cascaded(api.dep.sel) \subseteq 1 .. names
    BY <1>0 DEF Cascaded
  <2>2. api' \in Requests
    BY <1>0, <1>11, <2>1 DEF DeleteList, Requests
  <2> QED
    BY <1>0, <1>11, <1>p, <2>2 DEF DeleteList, HasWork
<1>12. CASE DeleteOwnedPod
  <2>1. PICK p : /\ \/ pods' = Remove(pods, p) /\ UNCHANGED events
                    \/ Fault /\ UNCHANGED pods
                 /\ api' = [api EXCEPT !.listed = @ \ {p},
                                       !.pc = IF api.listed = {p} THEN "row" ELSE @]
    BY <1>12 DEF DeleteOwnedPod
  <2>2. api' \in Requests
    BY <1>0, <2>1 DEF Requests
  <2> QED
    BY <1>0, <1>12, <1>p, <1>r, <2>1, <2>2, SMTT(30) DEF DeleteOwnedPod, HasWork
<1>13. CASE DeleteRow
  BY <1>0, <1>13, <1>p, IdleTyped DEF DeleteRow, HasWork
<1>14. CASE DeleteErr
  BY <1>0, <1>14, <1>p, IdleTyped DEF DeleteErr, Fault, Event, HasWork
<1>15. ASSUME NEW l \in BarePods, UserCreatePod(l) PROVE Typed'
  <2>1. NewPod(NoOwner, l) \in Rows
    BY <1>0, DeploymentAssumption DEF NewPod, Rows, Labels, Phases, NoOwner
  <2>2. /\ DOMAIN pods' \subseteq 1 .. names'
        /\ \A p \in DOMAIN pods' : pods'[p] \in Rows
        /\ names' \in Nat /\ names' >= names
    BY <1>15, <1>n, <2>1 DEF UserCreatePod
  <2>3. worker' \in [Workers -> Passes'] /\ api' \in Requests' /\ HasWork'
    BY <1>0, <1>15, <2>2, TypesGrow DEF UserCreatePod, HasWork
  <2> QED
    BY <1>0, <1>15, <2>2, <2>3 DEF UserCreatePod, Request, Event
<1>16. ASSUME NEW p \in DOMAIN pods, UserDeletePod(p) PROVE Typed'
  <2>1. /\ DOMAIN pods' \subseteq 1 .. names
        /\ \A q \in DOMAIN pods' : pods'[q] \in Rows
    <3>1. pods' = Remove(pods, p)
      BY <1>16 DEF UserDeletePod
    <3>2. /\ DOMAIN pods' = DOMAIN pods \ {p}
          /\ \A q \in DOMAIN pods \ {p} : pods'[q] = pods[q]
      BY <3>1, RemoveShrinks
    <3> QED
      BY <1>0, <3>2
  <2> QED
    BY <1>0, <1>16, <1>p, <1>e, <2>1 DEF UserDeletePod, HasWork
<1>17. ASSUME NEW p \in DOMAIN pods, ReportRunning(p) PROVE Typed'
  BY <1>0, <1>17, <1>p, UpdateStatusTyped DEF ReportRunning, Phases, HasWork
<1>18. ASSUME NEW p \in DOMAIN pods, NEW phase \in {"Pending", "Failed"},
              ReportStopped(p, phase)
       PROVE  Typed'
  <2>1. /\ DOMAIN pods' = DOMAIN pods
        /\ \A q \in DOMAIN pods' : pods'[q] \in Rows
    <3>1. phase \in Phases /\ pods' = UpdateStatus(pods, p, phase, TRUE)
      BY <1>18 DEF ReportStopped, Phases
    <3> QED
      BY <1>0, <3>1, UpdateStatusTyped
  <2> QED
    BY <1>0, <1>18, <1>p, <1>e, <2>1 DEF ReportStopped, HasWork
<1> QED
  BY <1>1, <1>2, <1>3, <1>4, <1>5, <1>6, <1>7, <1>8, <1>9, <1>10, <1>11, <1>12, <1>13,
     <1>14, <1>15, <1>16, <1>17, <1>18
  DEF Next, WorkerStep, User, DeleteStep, Agent

(* The uid of a deployment stays apart from that of a pod nobody owns.     *)
LEMMA RealUidNext == Typed /\ RealUid /\ [Next]_vars => RealUid'
<1> SUFFICES ASSUME Typed, RealUid, [Next]_vars PROVE RealUid'
  OBVIOUS
<1>0. /\ worker \in [Workers -> Passes] /\ dep \in Deps /\ uids \in Nat
      /\ Exists => dep.uid # 0
      /\ \A w \in Workers : worker[w].pc # "idle" => worker[w].dep.uid # 0
  BY DEF Typed, TypeOK, RealUid, NoOwner
<1> USE DEF RealUid, NoOwner
<1>1. CASE UNCHANGED vars
  BY <1>0, <1>1 DEF vars, Exists
<1>2. ASSUME NEW w \in Workers, ListDeployments(w) PROVE RealUid'
  <2>1. ASSUME NEW v \in Workers PROVE worker'[v].pc # "idle" => worker'[v].dep.uid # 0
    <3>1. worker[v] \in Passes
      BY <1>0
    <3>2. CASE v = w
      BY <1>0, <1>2, <3>2 DEF ListDeployments, Idle
    <3>3. CASE v # w
      BY <1>0, <1>2, <3>1, <3>3 DEF ListDeployments, Passes
    <3> QED
      BY <3>2, <3>3
  <2> QED
    BY <1>0, <1>2, <2>1 DEF ListDeployments, Exists
<1>3. ASSUME NEW w \in Workers, NEW r, worker' = [worker EXCEPT ![w] = r],
             r.pc # "idle" => r.dep.uid # 0, Exists' => dep'.uid # 0
      PROVE  RealUid'
  BY <1>0, <1>3
<1>4. ASSUME NEW w \in Workers, ListPods(w) PROVE RealUid'
  <2>1. Plan(w).dep = worker[w].dep
    BY <1>0 DEF Plan, Passes
  <2>2. worker[w].dep.uid # 0
    BY <1>0, <1>4 DEF ListPods
  <2> QED
    BY <1>0, <1>3, <1>4, <2>1, <2>2 DEF ListPods, Exists
<1>5. ASSUME NEW w \in Workers, worker' = [worker EXCEPT ![w] = Idle], Exists' => dep'.uid # 0
      PROVE  RealUid'
  BY <1>3, <1>5 DEF Idle
<1>6. ASSUME NEW w \in Workers, AfterCreate(w) \/ \E p : AfterDelete(w, p),
             worker[w].pc # "idle", dep' = dep
      PROVE  RealUid'
  <2>1. ASSUME NEW v \in Workers
        PROVE  worker'[v].dep = worker[v].dep /\ (v # w => worker'[v].pc = worker[v].pc)
    <3>1. worker[v] \in Passes
      BY <1>0
    <3>2. CASE AfterCreate(w)
      BY <1>0, <3>1, <3>2 DEF AfterCreate, Passes
    <3>3. ASSUME NEW p, AfterDelete(w, p)
          PROVE  worker'[v].dep = worker[v].dep /\ (v # w => worker'[v].pc = worker[v].pc)
      BY <1>0, <3>1, <3>3 DEF AfterDelete, Passes
    <3> QED
      BY <1>6, <3>2, <3>3
  <2> QED
    BY <1>0, <1>6, <2>1 DEF Exists
<1>7. ASSUME NEW w \in Workers, WorkerStep(w) PROVE RealUid'
  <2>1. CASE ListPodsErr(w)
    BY <1>0, <1>5, <2>1 DEF ListPodsErr, Exists
  <2>2. CASE CreatePod(w) \/ CreatePodErr(w)
    BY <1>6, <2>2 DEF CreatePod, CreatePodErr
  <2>3. CASE DeletePod(w)
    BY <1>6, <2>3 DEF DeletePod
  <2>4. CASE UpdateDeploymentStatus(w)
    <3>1. Exists' => dep'.uid # 0
      BY <1>0, <2>4 DEF UpdateDeploymentStatus, Exists, Deps
    <3> QED
      BY <1>5, <2>4, <3>1 DEF UpdateDeploymentStatus
  <2> QED
    BY <1>2, <1>4, <1>7, <2>1, <2>2, <2>3, <2>4 DEF WorkerStep
<1>8. ASSUME NEW r \in 0 .. MaxReplicas, NEW sel \in Selectors, ApplyDeployment(r, sel)
      PROVE RealUid'
  <2>1. CASE Exists
    BY <1>0, <1>8, <2>1 DEF ApplyDeployment, Deps
  <2>2. CASE ~Exists
    BY <1>0, <1>8, <2>2 DEF ApplyDeployment
  <2> QED
    BY <2>1, <2>2
<1>9. CASE DeleteRow
  BY <1>0, <1>9 DEF DeleteRow, Exists
<1>10. ASSUME UNCHANGED <<worker, dep>> PROVE RealUid'
  BY <1>0, <1>10 DEF Exists
<1> QED
  BY <1>1, <1>7, <1>8, <1>9, <1>10
  DEF Next, User, DeleteStep, Agent, DeleteGet, UserCreatePod, UserDeletePod, DeleteList,
      DeleteOwnedPod, DeleteErr, ReportRunning, ReportStopped

(* A pass that has been alone since it began is alone: a second one that   *)
(* begins takes the mark away.                                             *)
LEMMA AloneIsQuietNext == Typed /\ AloneIsQuiet /\ [Next]_vars => AloneIsQuiet'
<1> SUFFICES ASSUME Typed, AloneIsQuiet, [Next]_vars PROVE AloneIsQuiet'
  OBVIOUS
<1>0. /\ worker \in [Workers -> Passes]
      /\ \A v \in Workers : worker[v] \in Passes
      /\ \A w \in Workers : worker[w].alone => Quiet(w)
  BY DEF Typed, TypeOK, AloneIsQuiet
<1>1. ASSUME NEW w \in Workers, ListDeployments(w) PROVE AloneIsQuiet'
  <2>1. ASSUME NEW v \in Workers PROVE worker'[v].alone => v = w
    BY <1>0, <1>1 DEF ListDeployments, Passes
  <2>2. worker'[w].alone => Quiet(w)
    BY <1>1 DEF ListDeployments, Idle
  <2>3. ASSUME NEW v \in Workers \ {w} PROVE worker'[v].pc = worker[v].pc
    BY <1>0, <1>1 DEF ListDeployments, Passes
  <2> QED
    BY <2>1, <2>2, <2>3 DEF AloneIsQuiet, Quiet
<1>2. ASSUME NEW w \in Workers, worker[w].pc # "idle",
             worker' \in [Workers -> Passes'],
             \A v \in Workers \ {w} : worker'[v] = worker[v],
             worker'[w].alone => worker[w].alone
      PROVE  AloneIsQuiet'
  <2>1. \A v \in Workers \ {w} : ~worker[v].alone
    BY <1>0, <1>2 DEF Quiet
  <2> QED
    BY <1>0, <1>2, <2>1 DEF AloneIsQuiet, Quiet
<1>3. worker' \in [Workers -> Passes']
  BY TypedNext DEF Typed, TypeOK
<1>4. ASSUME NEW w \in Workers, WorkerStep(w) PROVE AloneIsQuiet'
  <2>1. CASE ListPodsErr(w) \/ UpdateDeploymentStatus(w)
    BY <1>0, <1>2, <1>3, <2>1 DEF ListPodsErr, UpdateDeploymentStatus, Idle
  <2>2. CASE CreatePod(w) \/ CreatePodErr(w)
    <3>1. /\ \A v \in Workers \ {w} : worker'[v] = worker[v]
          /\ worker'[w].alone = worker[w].alone
      BY <1>0, <2>2 DEF CreatePod, CreatePodErr, AfterCreate, Passes
    <3> QED
      BY <1>2, <1>3, <2>2, <3>1 DEF CreatePod, CreatePodErr
  <2>3. CASE DeletePod(w)
    <3>1. PICK p : AfterDelete(w, p)
      BY <2>3 DEF DeletePod
    <3>2. /\ \A v \in Workers \ {w} : worker'[v] = worker[v]
          /\ worker'[w].alone = worker[w].alone
      BY <1>0, <3>1 DEF AfterDelete, Passes
    <3> QED
      BY <1>2, <1>3, <2>3, <3>2 DEF DeletePod
  <2>4. CASE ListPods(w)
    <3>1. Plan(w).alone = worker[w].alone
      BY <1>0 DEF Plan, Passes
    <3> QED
      BY <1>0, <1>2, <1>3, <2>4, <3>1 DEF ListPods
  <2> QED
    BY <1>1, <1>4, <2>1, <2>2, <2>3, <2>4 DEF WorkerStep
<1>5. ASSUME UNCHANGED worker PROVE AloneIsQuiet'
  BY <1>0, <1>5 DEF AloneIsQuiet, Quiet
<1> QED
  BY <1>4, <1>5
  DEF Next, User, DeleteStep, Agent, DeleteGet, UserCreatePod, UserDeletePod, DeleteList,
      DeleteOwnedPod, DeleteRow, DeleteErr, ReportRunning, ReportStopped, ApplyDeployment, vars

(* A pass whose deployment has lost pods, or gained none, and that has not *)
(* more left to create, overshoots no more than before.                    *)
LEMMA StaysBelow ==
    ASSUME IInv, Typed', NEW w \in Workers,
           worker'[w].pc = "create", worker'[w].alone,
           worker[w].pc = "create", worker[w].alone,
           worker'[w].dep = worker[w].dep, worker'[w].todo <= worker[w].todo,
           Owned(worker[w].dep.uid)' \subseteq Owned(worker[w].dep.uid)
    PROVE  Cardinality(Owned(worker[w].dep.uid)') + worker'[w].todo <= worker'[w].dep.replicas
<1> DEFINE old == Owned(worker[w].dep.uid)
           new == Owned(worker[w].dep.uid)'
<1>1. IsFiniteSet(old) /\ Cardinality(old) \in Nat
  BY OwnedFinite DEF IInv, Typed
<1>2. Cardinality(new) <= Cardinality(old) /\ Cardinality(new) \in Nat
  BY <1>1, FS_Subset, FS_CardinalityType
<1>3. Cardinality(old) + worker[w].todo <= worker[w].dep.replicas
  BY DEF IInv, NeverOvershoots
<1>4. worker[w] \in Passes /\ worker'[w] \in Passes'
  BY DEF IInv, Typed, TypeOK
<1>5. worker[w].todo \in Nat /\ worker'[w].todo \in Nat /\ worker[w].dep.replicas \in Nat
  BY <1>4 DEF Passes, Deps
<1> HIDE DEF old, new
<1>6. Cardinality(new) + worker'[w].todo <= worker'[w].dep.replicas
  BY <1>1, <1>2, <1>3, <1>5
<1> QED
  BY <1>6 DEF new

(* A report of an agent changes nothing that decides who owns a pod.       *)
LEMMA StatusKeepsOwned ==
    ASSUME Typed, NEW p, NEW phase \in Phases, pods' = UpdateStatus(pods, p, phase, TRUE),
           NEW u
    PROVE  Owned(u)' \subseteq Owned(u)
<1>1. \A m \in DOMAIN pods : pods[m] \in Rows
  BY DEF Typed, TypeOK
<1>2. DOMAIN pods' = DOMAIN pods /\ \A q \in DOMAIN pods : /\ pods'[q].owner = pods[q].owner
                                                          /\ pods'[q].labels = pods[q].labels
  BY <1>1, UpdateStatusTyped
<1> QED
  BY <1>2 DEF Owned, Selected

(* What a deletion, a report and a pod that nobody owns do to the pods of  *)
(* a deployment.                                                           *)
LEMMA OwnedAfter ==
    ASSUME Typed, NEW u \in Nat \ {0},
           \/ UNCHANGED pods
           \/ \E p : pods' = Remove(pods, p)
           \/ \E p : \E phase \in Phases : pods' = UpdateStatus(pods, p, phase, TRUE)
           \/ \E l : pods' = Upsert(pods, names + 1, NewPod(NoOwner, l))
    PROVE  Owned(u)' \subseteq Owned(u)
<1>0. /\ \A p \in DOMAIN pods : pods[p] \in Rows
      /\ names + 1 \notin DOMAIN pods
  <2>1. DOMAIN pods \subseteq 1 .. names /\ names \in Nat
    BY DEF Typed, TypeOK
  <2>2. names + 1 \notin 1 .. names
    BY <2>1
  <2> QED
    BY <2>1, <2>2 DEF Typed, TypeOK
<1>1. CASE UNCHANGED pods
  BY <1>1 DEF Owned, Selected
<1>2. ASSUME NEW p, pods' = Remove(pods, p) PROVE Owned(u)' \subseteq Owned(u)
  <2>1. DOMAIN pods' = DOMAIN pods \ {p} /\ \A q \in DOMAIN pods' : pods'[q] = pods[q]
    BY <1>2 DEF Remove
  <2> QED
    BY <2>1 DEF Owned, Selected
<1>3. ASSUME NEW p, NEW phase \in Phases, pods' = UpdateStatus(pods, p, phase, TRUE)
      PROVE  Owned(u)' \subseteq Owned(u)
  BY <1>3, StatusKeepsOwned
<1>4. ASSUME NEW l, pods' = Upsert(pods, names + 1, NewPod(NoOwner, l))
      PROVE  Owned(u)' \subseteq Owned(u)
  <2> DEFINE n == names + 1
             row == NewPod(NoOwner, l)
  <2>1. row.owner = 0
    BY DEF NewPod, NoOwner
  <2>2. n \notin DOMAIN pods /\ pods' = Upsert(pods, n, row)
    BY <1>0, <1>4
  <2> HIDE DEF n, row
  <2>3. DOMAIN pods' = DOMAIN pods \cup {n} /\ pods'[n] = row
        /\ \A p \in DOMAIN pods : pods'[p] = pods[p]
    BY <2>2 DEF Upsert
  <2> QED
    BY <2>1, <2>3 DEF Owned, Selected
<1> QED
  BY <1>1, <1>2, <1>3, <1>4

(* A step that creates no pod of any deployment and leaves the creating    *)
(* passes as they are keeps NeverOvershoots.                               *)
LEMMA StaysBelowAll ==
    ASSUME IInv, Typed',
           \A w \in Workers : worker'[w].pc = "create" /\ worker'[w].alone =>
             /\ worker[w].pc = "create" /\ worker[w].alone
             /\ worker'[w].dep = worker[w].dep /\ worker'[w].todo <= worker[w].todo,
           \/ UNCHANGED pods
           \/ \E p : pods' = Remove(pods, p)
           \/ \E p : \E phase \in Phases : pods' = UpdateStatus(pods, p, phase, TRUE)
           \/ \E l : pods' = Upsert(pods, names + 1, NewPod(NoOwner, l))
    PROVE  NeverOvershoots'
<1> SUFFICES ASSUME NEW w \in Workers, worker'[w].pc = "create", worker'[w].alone
             PROVE  Cardinality(Owned(worker[w].dep.uid)') + worker'[w].todo
                      <= worker'[w].dep.replicas
  BY DEF NeverOvershoots
<1>1. /\ worker[w].pc = "create" /\ worker[w].alone
      /\ worker'[w].dep = worker[w].dep /\ worker'[w].todo <= worker[w].todo
  OBVIOUS
<1>2. worker[w].dep.uid \in Nat \ {0}
  <2>1. worker[w] \in Passes
    BY DEF IInv, Typed, TypeOK
  <2> QED
    BY <1>1, <2>1 DEF IInv, RealUid, NoOwner, Passes, Deps
<1>3. Owned(worker[w].dep.uid)' \subseteq Owned(worker[w].dep.uid)
  <2>1. PICK u \in Nat \ {0} : u = worker[w].dep.uid
    BY <1>2
  <2>2. Owned(u)' \subseteq Owned(u)
    BY OwnedAfter DEF IInv
  <2>3. Owned(worker[w].dep.uid) = Owned(u) /\ Owned(worker[w].dep.uid)' = Owned(u)'
    BY <1>1, <2>1 DEF Owned, Selected
  <2> QED
    BY <2>2, <2>3
<1> QED
  BY <1>1, <1>3, StaysBelow

(* A pod that a pass creates is one more pod and one less to create.       *)
LEMMA CreateStaysBelow ==
    ASSUME IInv, Typed', NEW w \in Workers, CreatePod(w)
    PROVE  NeverOvershoots'
<1>0. /\ worker \in [Workers -> Passes] /\ worker[w] \in Passes
      /\ names \in Nat /\ DOMAIN pods \subseteq 1 .. names
  BY DEF IInv, Typed, TypeOK
<1> DEFINE r == worker[w]
           n == names + 1
           row == NewPod(r.dep.uid, "app")
           old == Owned(r.dep.uid)
<1>1. r.todo \in Nat /\ r.todo > 0 /\ r.dep.replicas \in Nat
  BY <1>0, PassParts DEF IInv, Typed, HasWork, CreatePod
<1>2. /\ worker'[w].dep = r.dep /\ worker'[w].alone = r.alone
      /\ worker'[w].todo = r.todo - 1
      /\ \A v \in Workers \ {w} : worker'[v] = worker[v]
  BY <1>0 DEF CreatePod, AfterCreate, Passes
<1>3. ASSUME NEW v \in Workers, worker'[v].pc = "create", worker'[v].alone PROVE v = w
  <2>1. SUFFICES ASSUME v # w PROVE FALSE
    OBVIOUS
  <2>2. worker[v].alone /\ worker[w].pc = "create"
    BY <1>2, <1>3, <2>1 DEF CreatePod
  <2> QED
    BY <2>1, <2>2 DEF IInv, AloneIsQuiet, Quiet
<1>4. n \notin DOMAIN pods
  BY <1>0
<1>5. row.owner = r.dep.uid /\ row.labels = "app"
  BY DEF NewPod
<1>6. pods' = Upsert(pods, n, row)
  BY DEF CreatePod
<1> HIDE DEF n, row
<1>7. DOMAIN pods' = DOMAIN pods \cup {n} /\ pods'[n] = row
      /\ \A p \in DOMAIN pods : pods'[p] = pods[p]
  BY <1>4, <1>6 DEF Upsert
<1>8. Owned(r.dep.uid)' = old \cup {n} /\ n \notin old
  BY <1>2, <1>4, <1>5, <1>7 DEF Owned, Selected
<1>9. IsFiniteSet(old) /\ Cardinality(old) \in Nat
  BY OwnedFinite DEF IInv, Typed
<1> HIDE DEF old
<1>10. Cardinality(Owned(r.dep.uid)') = Cardinality(old) + 1
  BY <1>8, <1>9, FS_AddElement
<1>11. ASSUME r.alone PROVE Cardinality(old) + r.todo <= r.dep.replicas
  BY <1>11 DEF IInv, NeverOvershoots, CreatePod, old
<1>12. ASSUME r.alone
       PROVE  Cardinality(Owned(r.dep.uid)') + worker'[w].todo <= worker'[w].dep.replicas
  BY <1>1, <1>2, <1>9, <1>10, <1>11, <1>12
<1> QED
  BY <1>2, <1>3, <1>12 DEF NeverOvershoots

(* The list of a pass leaves it to create what is missing and no more.     *)
LEMMA ListStaysBelow ==
    ASSUME IInv, Typed', NEW w \in Workers, ListPods(w)
    PROVE  NeverOvershoots'
<1>0. /\ worker \in [Workers -> Passes] /\ worker[w] \in Passes
  BY DEF IInv, Typed, TypeOK
<1> SUFFICES ASSUME NEW v \in Workers, worker'[v].pc = "create", worker'[v].alone
             PROVE  Cardinality(Owned(worker[v].dep.uid)') + worker'[v].todo
                      <= worker'[v].dep.replicas
  BY DEF NeverOvershoots
<1> DEFINE r == worker[w]
           old == Owned(r.dep.uid)
<1>1. /\ worker'[w] = Plan(w) /\ \A u \in Workers \ {w} : worker'[u] = worker[u]
      /\ pods' = pods
  BY <1>0 DEF ListPods
<1>2. v = w
  <2>1. SUFFICES ASSUME v # w PROVE FALSE
    OBVIOUS
  <2>2. worker[v].alone /\ worker[w].pc = "list"
    BY <1>1, <2>1 DEF ListPods
  <2> QED
    BY <2>1, <2>2 DEF IInv, AloneIsQuiet, Quiet
<1>3. Plan(w).dep = r.dep
  BY <1>0 DEF Plan, Passes
<1>4. Owned(worker[v].dep.uid)' = old
  BY <1>1, <1>2, <1>3 DEF Owned, Selected
<1>5. Cardinality(old) \in Nat /\ r.dep.replicas \in Nat
  BY <1>0, OwnedFinite, PassParts DEF IInv, Typed
<1>6. Plan(w).pc = "create" => Plan(w).todo = 0 - (Cardinality(old) - r.dep.replicas)
  BY <1>0 DEF Plan, Passes
<1> HIDE DEF old
<1> QED
  BY <1>1, <1>2, <1>3, <1>4, <1>5, <1>6

(* Every step keeps the inductive invariant.                               *)
LEMMA IInvNext == IInv /\ [Next]_vars => IInv'
<1> SUFFICES ASSUME IInv, [Next]_vars PROVE IInv'
  OBVIOUS
<1>1. Typed' /\ RealUid' /\ AloneIsQuiet'
  BY TypedNext, RealUidNext, AloneIsQuietNext DEF IInv
<1>0. /\ worker \in [Workers -> Passes]
      /\ \A v \in Workers : worker[v] \in Passes /\ worker[v].todo \in Nat
  BY PassParts DEF IInv, Typed, TypeOK
<1> DEFINE Same(v) == /\ worker'[v].pc = "create" /\ worker'[v].alone
                         => /\ worker[v].pc = "create" /\ worker[v].alone
                            /\ worker'[v].dep = worker[v].dep
                            /\ worker'[v].todo <= worker[v].todo
           Harmless == \/ UNCHANGED pods
                       \/ \E p : pods' = Remove(pods, p)
                       \/ \E p : \E phase \in Phases : pods' = UpdateStatus(pods, p, phase, TRUE)
                       \/ \E l : pods' = Upsert(pods, names + 1, NewPod(NoOwner, l))
<1>2. ASSUME \A v \in Workers : Same(v), Harmless PROVE NeverOvershoots'
  BY <1>1, <1>2, StaysBelowAll
<1>3. ASSUME NEW w \in Workers, WorkerStep(w) PROVE NeverOvershoots'
  <2>1. CASE ListDeployments(w)
    <3>1. ASSUME NEW v \in Workers PROVE Same(v)
      BY <1>0, <2>1 DEF ListDeployments, Idle, Passes
    <3> QED
      BY <1>2, <2>1, <3>1 DEF ListDeployments
  <2>2. CASE ListPodsErr(w)
    <3>1. ASSUME NEW v \in Workers PROVE Same(v)
      BY <1>0, <2>2 DEF ListPodsErr, Idle
    <3> QED
      BY <1>2, <2>2, <3>1 DEF ListPodsErr
  <2>3. CASE CreatePodErr(w)
    <3>1. ASSUME NEW v \in Workers PROVE Same(v)
      BY <1>0, <2>3 DEF CreatePodErr, AfterCreate, Passes
    <3> QED
      BY <1>2, <2>3, <3>1 DEF CreatePodErr
  <2>4. CASE DeletePod(w)
    <3>1. PICK p : /\ AfterDelete(w, p)
                   /\ \/ pods' = Remove(pods, p) /\ UNCHANGED events
                      \/ Fault /\ UNCHANGED pods
      BY <2>4 DEF DeletePod
    <3>2. ASSUME NEW v \in Workers PROVE Same(v)
      BY <1>0, <2>4, <3>1 DEF DeletePod, AfterDelete, Passes
    <3> QED
      BY <1>2, <3>1, <3>2
  <2>5. CASE UpdateDeploymentStatus(w)
    <3>1. ASSUME NEW v \in Workers PROVE Same(v)
      BY <1>0, <2>5 DEF UpdateDeploymentStatus, Idle
    <3> QED
      BY <1>2, <2>5, <3>1 DEF UpdateDeploymentStatus
  <2> QED
    BY <1>1, <1>3, <2>1, <2>2, <2>3, <2>4, <2>5, CreateStaysBelow, ListStaysBelow
    DEF WorkerStep
<1>4. ASSUME UNCHANGED worker, Harmless PROVE NeverOvershoots'
  <2>1. ASSUME NEW v \in Workers PROVE Same(v)
    BY <1>0, <1>4
  <2> QED
    BY <1>2, <1>4, <2>1
<1>h. /\ UNCHANGED pods => Harmless
      /\ \A p : pods' = Remove(pods, p) => Harmless
      /\ \A p, phase : phase \in Phases /\ pods' = UpdateStatus(pods, p, phase, TRUE) => Harmless
      /\ \A l : pods' = Upsert(pods, names + 1, NewPod(NoOwner, l)) => Harmless
  OBVIOUS
<1> HIDE DEF Harmless
<1>5. CASE UNCHANGED vars
  BY <1>1, <1>4, <1>5, <1>h DEF IInv, vars
<1>6. CASE User
  BY <1>1, <1>4, <1>6, <1>h DEF IInv, User, ApplyDeployment, DeleteGet, UserCreatePod, UserDeletePod
<1>7. CASE DeleteStep
  BY <1>1, <1>4, <1>7, <1>h DEF IInv, DeleteStep, DeleteList, DeleteOwnedPod, DeleteRow, DeleteErr
<1>8. CASE Agent
  BY <1>1, <1>4, <1>8, <1>h DEF IInv, Agent, ReportRunning, ReportStopped, Phases
<1> QED
  BY <1>1, <1>3, <1>5, <1>6, <1>7, <1>8 DEF IInv, Next

(* The empty table and idle workers satisfy the invariant.                 *)
LEMMA InitIInv == Init => IInv
<1> SUFFICES ASSUME Init PROVE IInv
  OBVIOUS
<1>1. \A w \in Workers : worker[w].pc = "idle" /\ ~worker[w].alone
  BY DEF Init, Idle
<1>2. DOMAIN pods = {}
  BY DEF Init
<1>3. TypeOK
  BY <1>2, IdleTyped DEF Init, TypeOK
<1> QED
  BY <1>1, <1>3 DEF Init, IInv, Typed, HasWork, RealUid, AloneIsQuiet, NeverOvershoots, Exists

(* Every variable of the deployment model keeps its type, also the ones a  *)
(* pass carries across its awaits.                                         *)
THEOREM DeploymentTypeCorrect == Spec => []TypeOK
<1>1. Init => Typed
  BY InitIInv DEF IInv
<1>2. Typed => TypeOK
  BY DEF Typed
<1> QED
  BY <1>1, <1>2, TypedNext, PTL DEF Spec

(***************************************************************************)
(* A creating pass of reconcile_deployment (controller.rs:160-188) never   *)
(* takes its deployment past the count it was asked for, for any number of *)
(* masters and whatever users, agents and failures do between its awaits,  *)
(* unless another master's pass overlaps this very pass.                   *)
(***************************************************************************)
THEOREM DeploymentNeverOvershoots == Spec => []NeverOvershoots
<1>1. IInv => NeverOvershoots
  BY DEF IInv
<1> QED
  BY <1>1, InitIInv, IInvNext, PTL DEF Spec
=============================================================================
