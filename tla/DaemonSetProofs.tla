--------------------------- MODULE DaemonSetProofs ---------------------------
(***************************************************************************)
(* Proof that a daemonset never has two pods on one node, for any number   *)
(* of masters, any finite set of nodes and any number of pods, requests,   *)
(* node changes and failures, as long as no two passes overlap.            *)
(***************************************************************************)
EXTENDS DaemonSet, FiniteSetTheorems, TLAPS

(* A pass in its creating loop has a node left to cover, one in its        *)
(* deleting loop has none.                                                 *)
InLoop(pass) == /\ pass.pc = "create" => pass.missing # {}
                /\ pass.pc = "delete" => pass.missing = {}
HasWork == \A w \in Workers : InLoop(worker[w])

(* As long as no two passes have overlapped, one worker at most is busy.   *)
OneBusy == apart => \A v, w \in Workers :
                        worker[v].pc # "idle" /\ worker[w].pc # "idle" => v = w

(* The nodes a pass is about to cover have no pod of its set.              *)
Uncovered(w) == \A p \in DOMAIN pods : pods[p].owner = worker[w].set.uid =>
                                           pods[p].node \notin worker[w].missing
MissingIsFree ==
    Labelled /\ apart => \A w \in Workers : worker[w].pc = "create" => Uncovered(w)

Typed == TypeOK /\ HasWork
IInv  == Typed /\ OneBusy /\ MissingIsFree /\ OnePerNode

(* Facts about the data a pass carries.                                    *)
LEMMA IdleTyped == /\ NoSet \in Sets /\ Idle \in Passes /\ NoRequest \in Requests
                   /\ Idle \in Passes' /\ NoRequest \in Requests' /\ Idle.pc = "idle"
  BY DEF NoSet, Idle, NoRequest, Passes, Requests, Sets

LEMMA TypesGrow ==
    ASSUME names \in Nat, names' \in Nat, names' >= names
    PROVE  Passes \subseteq Passes' /\ Requests \subseteq Requests'
<1>1. 1 .. names \subseteq 1 .. names'
  OBVIOUS
<1>2. SUBSET (1 .. names) \subseteq SUBSET (1 .. names')
  BY <1>1
<1> QED
  BY <1>2 DEF Passes, Requests

(* After moves the pass on to the loop that still has work, and changes    *)
(* nothing else.                                                           *)
LEMMA AfterKeeps ==
    ASSUME NEW r \in Passes
    PROVE  /\ After(r) \in Passes
           /\ After(r).missing = r.missing /\ After(r).set = r.set
           /\ InLoop(After(r))
           /\ After(r).pc # "idle"
<1>1. CASE r.missing # {}
  <2>1. After(r) = [r EXCEPT !.pc = "create"]
    BY <1>1 DEF After
  <2> QED
    BY <1>1, <2>1 DEF Passes, InLoop
<1>2. CASE r.missing = {} /\ r.victims # {}
  <2>1. After(r) = [r EXCEPT !.pc = "delete"]
    BY <1>2 DEF After
  <2> QED
    BY <1>2, <2>1 DEF Passes, InLoop
<1>3. CASE r.missing = {} /\ r.victims = {}
  <2>1. After(r) = [r EXCEPT !.pc = "status"]
    BY <1>3 DEF After
  <2> QED
    BY <1>3, <2>1 DEF Passes, InLoop
<1> QED
  BY <1>1, <1>2, <1>3

(* The plan of reconcile_daemonset misses no node that has a pod.          *)
LEMMA PlanCorrect ==
    ASSUME TypeOK, NEW r \in Passes
    PROVE  /\ Plan(r) \in Passes
           /\ InLoop(Plan(r))
           /\ Plan(r).pc # "idle"
           /\ Plan(r).set = r.set
           /\ Labelled => \A p \in Owned(r.set.uid) : pods[p].node \notin Plan(r).missing
<1> DEFINE owned == IF Labelled THEN Owned(r.set.uid) ELSE {}
           victims == {p \in owned : pods[p].node \notin r.target}
           s == [r EXCEPT !.missing = r.target \ On(owned),
                          !.victims = victims,
                          !.current = Cardinality(owned),
                          !.ready = Cardinality(Running(owned))]
<1>1. IsFiniteSet(1 .. names)
  BY FS_Interval DEF TypeOK
<1>2. owned \subseteq 1 .. names /\ Running(owned) \subseteq 1 .. names
  BY DEF TypeOK, Owned, Running
<1>3. Cardinality(owned) \in Nat /\ Cardinality(Running(owned)) \in Nat
  BY <1>1, <1>2, FS_Subset, FS_CardinalityType
<1>4. Plan(r) = After(s)
  BY DEF Plan
<1>5. Labelled => \A p \in Owned(r.set.uid) : pods[p].node \in On(owned)
  BY DEF On
<1>6. victims \subseteq 1 .. names
  BY <1>2
<1> HIDE DEF owned, victims
<1>7. s \in Passes /\ s.set = r.set /\ s.missing = r.target \ On(owned)
  BY <1>3, <1>6 DEF Passes
<1> HIDE DEF s
<1> QED
  BY <1>4, <1>5, <1>7, AfterKeeps

LEMMA CoveredKeeps ==
    ASSUME NEW r \in Passes
    PROVE  /\ Covered(r) \in Passes
           /\ InLoop(Covered(r))
           /\ Covered(r).pc # "idle"
           /\ Covered(r).set = r.set
           /\ Covered(r).missing = r.missing \ {First(r.missing)}
<1> DEFINE s == [r EXCEPT !.missing = @ \ {First(r.missing)}]
<1>1. s \in Passes /\ s.set = r.set /\ s.missing = r.missing \ {First(r.missing)}
  BY DEF Passes
<1>2. Covered(r) = After(s)
  BY DEF Covered
<1> HIDE DEF s
<1> QED
  BY <1>1, <1>2, AfterKeeps

LEMMA WithoutKeeps ==
    ASSUME NEW r \in Passes, NEW p
    PROVE  /\ Without(r, p) \in Passes
           /\ InLoop(Without(r, p))
           /\ Without(r, p).set = r.set /\ Without(r, p).missing = r.missing
<1> DEFINE s == [r EXCEPT !.victims = @ \ {p}]
<1>1. s \in Passes /\ s.set = r.set /\ s.missing = r.missing
  BY DEF Passes
<1>2. Without(r, p) = After(s)
  BY DEF Without
<1> HIDE DEF s
<1> QED
  BY <1>1, <1>2, AfterKeeps

LEMMA FirstIsMember == ASSUME NEW S, S # {} PROVE First(S) \in S
  BY DEF First

(* A step of a worker that puts a typed pass in the place of its own.      *)
LEMMA WorkerTyped ==
    ASSUME Typed, NEW w \in Workers, NEW r \in Passes', worker' = [worker EXCEPT ![w] = r],
           InLoop(r), names' \in Nat, names' >= names
    PROVE  worker' \in [Workers -> Passes'] /\ HasWork'
<1>1. worker \in [Workers -> Passes'] /\ names \in Nat
  BY TypesGrow DEF Typed, TypeOK
<1> QED
  BY <1>1 DEF Typed, HasWork

(* A report of an agent changes neither the owner nor the node of a pod.   *)
LEMMA ReportKeeps ==
    ASSUME TypeOK, NEW q \in DOMAIN pods, NEW phase \in {"Pending", "Running", "Failed"},
           pods' = UpdateStatus(pods, q, phase, TRUE)
    PROVE  /\ DOMAIN pods' = DOMAIN pods
           /\ \A p \in DOMAIN pods : /\ pods'[p] \in Rows
                                     /\ pods'[p].owner = pods[p].owner
                                     /\ pods'[p].node = pods[p].node
<1>1. ASSUME NEW r \in Rows
      PROVE  LET s == [[r EXCEPT !.phase = phase] EXCEPT !.ip = TRUE]
             IN  s \in Rows /\ s.owner = r.owner /\ s.node = r.node
  BY DEF Rows
<1>2. pods' = [pods EXCEPT ![q] = [[pods[q] EXCEPT !.phase = phase] EXCEPT !.ip = TRUE]]
  BY DEF UpdateStatus
<1>3. \A p \in DOMAIN pods : pods[p] \in Rows
  BY DEF TypeOK
<1> QED
  BY <1>1, <1>2, <1>3

(* A deletion takes one pod, or none, out of the table.                    *)
LEMMA RemoveKeeps ==
    ASSUME NEW q, pods' = Remove(pods, q)
    PROVE  /\ DOMAIN pods' = DOMAIN pods \ {q}
           /\ \A p \in DOMAIN pods' : p \in DOMAIN pods /\ pods'[p] = pods[p]
  BY DEF Remove

(* A created pod has a fresh name, the set's uid and a node of its own.    *)
LEMMA CreateAdds ==
    ASSUME Typed, NEW w \in Workers, CreatePod(w)
    PROVE  /\ names + 1 \notin DOMAIN pods
           /\ DOMAIN pods' = DOMAIN pods \cup {names + 1}
           /\ \A p \in DOMAIN pods : pods'[p] = pods[p]
           /\ pods'[names + 1] = NewPod(worker[w].set.uid, First(worker[w].missing))
           /\ NewPod(worker[w].set.uid, First(worker[w].missing)) \in Rows
<1> DEFINE n == names + 1
           row == NewPod(worker[w].set.uid, First(worker[w].missing))
<1>1. names \in Nat /\ DOMAIN pods \subseteq 1 .. names /\ worker[w] \in Passes
  BY DEF Typed, TypeOK
<1>2. n \notin DOMAIN pods
  BY <1>1
<1>3. worker[w].missing # {}
  BY DEF Typed, HasWork, InLoop, CreatePod
<1>4. First(worker[w].missing) \in Nodes /\ worker[w].set.uid \in Nat
  BY <1>1, <1>3, FirstIsMember DEF Passes, Sets
<1>5. row \in Rows
  BY <1>1, <1>4 DEF NewPod, Rows
<1>6. pods' = Upsert(pods, n, row)
  BY DEF CreatePod
<1> HIDE DEF n, row
<1>7. /\ DOMAIN pods' = DOMAIN pods \cup {n}
      /\ \A p \in DOMAIN pods : pods'[p] = pods[p]
      /\ pods'[n] = row
  BY <1>2, <1>6 DEF Upsert
<1> QED
  BY <1>2, <1>5, <1>7 DEF n, row

(* One step keeps the types of all variables.                              *)
LEMMA TypedNext == Typed /\ [Next]_vars => Typed'
<1> SUFFICES ASSUME Typed, [Next]_vars PROVE Typed'
  OBVIOUS
<1>0. /\ DOMAIN pods \subseteq 1 .. names
      /\ \A p \in DOMAIN pods : pods[p] \in Rows
      /\ set \in Sets
      /\ nodes \subseteq Nodes
      /\ worker \in [Workers -> Passes]
      /\ api \in Requests
      /\ names \in Nat /\ uids \in Nat /\ events \in Nat /\ apart \in BOOLEAN
      /\ HasWork
  BY DEF Typed, TypeOK
<1>p. (names' = names) => /\ Passes' = Passes /\ Requests' = Requests
                          /\ names' \in Nat /\ names' >= names
  BY <1>0 DEF Passes, Requests
<1>e. Event => events' \in Nat
  BY <1>0 DEF Event
<1>i. ASSUME NEW w \in Workers, worker' = [worker EXCEPT ![w] = Idle], names' = names
      PROVE  worker' \in [Workers -> Passes'] /\ HasWork'
  BY <1>i, <1>p, IdleTyped, WorkerTyped DEF InLoop
<1>r. ASSUME NEW p, pods' = Remove(pods, p), names' = names
      PROVE  /\ DOMAIN pods' \subseteq 1 .. names'
             /\ \A q \in DOMAIN pods' : pods'[q] \in Rows
  BY <1>0, <1>r, RemoveKeeps
<1> USE DEF Typed, TypeOK
<1>1. CASE UNCHANGED vars
  BY <1>0, <1>1, <1>p DEF vars, HasWork
<1>2. ASSUME NEW w \in Workers, ListSets(w) PROVE Typed'
  <2> DEFINE r == [Idle EXCEPT !.pc = "nodes", !.set = set]
  <2>1. r \in Passes /\ r.pc = "nodes"
    BY <1>0, IdleTyped DEF Passes, Idle
  <2> HIDE DEF r
  <2>2. worker' = [worker EXCEPT ![w] = r]
    BY <1>2 DEF ListSets, r
  <2> QED
    BY <1>0, <1>2, <1>p, <2>1, <2>2, WorkerTyped DEF ListSets, InLoop
<1>3. ASSUME NEW w \in Workers, ListReady(w) PROVE Typed'
  <2> DEFINE r == [[worker[w] EXCEPT !.pc = "list"]
                     EXCEPT !.target = nodes \cap worker[w].set.want]
  <2>1. worker[w] \in Passes
    BY <1>0
  <2>2. r \in Passes /\ r.pc = "list"
    BY <1>0, <2>1 DEF Passes, Sets
  <2>3. worker' = [worker EXCEPT ![w] = r]
    BY <1>0, <1>3 DEF ListReady
  <2> HIDE DEF r
  <2> QED
    BY <1>0, <1>3, <1>p, <2>2, <2>3, WorkerTyped DEF ListReady, InLoop
<1>4. ASSUME NEW w \in Workers, ListPods(w) PROVE Typed'
  <2>1. worker[w] \in Passes /\ worker' = [worker EXCEPT ![w] = Plan(worker[w])]
    BY <1>0, <1>4 DEF ListPods
  <2>2. Plan(worker[w]) \in Passes /\ InLoop(Plan(worker[w]))
    BY <2>1, PlanCorrect
  <2> QED
    BY <1>0, <1>4, <1>p, <2>1, <2>2, WorkerTyped DEF ListPods
<1>5. ASSUME NEW w \in Workers, ListErr(w) PROVE Typed'
  BY <1>0, <1>5, <1>p, <1>e, <1>i DEF ListErr
<1>c. ASSUME NEW w \in Workers, worker' = [worker EXCEPT ![w] = Covered(@)],
             names' \in Nat, names' >= names
      PROVE  worker' \in [Workers -> Passes'] /\ HasWork'
  <2>1. worker[w] \in Passes
    BY <1>0
  <2>2. Covered(worker[w]) \in Passes /\ InLoop(Covered(worker[w]))
    BY <2>1, CoveredKeeps
  <2>3. Covered(worker[w]) \in Passes'
    BY <1>0, <1>c, <2>2, TypesGrow
  <2> QED
    BY <1>0, <1>c, <2>2, <2>3, WorkerTyped
<1>6. ASSUME NEW w \in Workers, CreatePod(w) PROVE Typed'
  <2>1. names' = names + 1 /\ names' \in Nat /\ names' >= names
    BY <1>0, <1>6 DEF CreatePod
  <2>2. DOMAIN pods \cup {names + 1} \subseteq 1 .. names'
    BY <1>0, <2>1
  <2>3. /\ DOMAIN pods' \subseteq 1 .. names'
        /\ \A p \in DOMAIN pods' : pods'[p] \in Rows
    BY <1>0, <1>6, <2>2, CreateAdds
  <2>4. worker' \in [Workers -> Passes'] /\ HasWork' /\ api' \in Requests'
    BY <1>0, <1>6, <1>c, <2>1, TypesGrow DEF CreatePod
  <2> QED
    BY <1>0, <1>6, <2>1, <2>3, <2>4 DEF CreatePod
<1>7. ASSUME NEW w \in Workers, CreatePodErr(w) PROVE Typed'
  BY <1>0, <1>7, <1>p, <1>e, <1>c DEF CreatePodErr
<1>8. ASSUME NEW w \in Workers, DeletePod(w) PROVE Typed'
  <2>1. PICK p : /\ worker' = [worker EXCEPT ![w] = Without(@, p)]
                 /\ \/ pods' = Remove(pods, p) /\ UNCHANGED events
                    \/ Event /\ UNCHANGED pods
    BY <1>8 DEF DeletePod
  <2>2. worker[w] \in Passes
    BY <1>0
  <2>5. worker' \in [Workers -> Passes'] /\ HasWork'
    BY <1>0, <1>8, <1>p, <2>1, <2>2, WithoutKeeps, WorkerTyped DEF DeletePod
  <2>6. /\ DOMAIN pods' \subseteq 1 .. names' /\ \A q \in DOMAIN pods' : pods'[q] \in Rows
        /\ events' \in Nat
    <3>1. names' = names
      BY <1>8 DEF DeletePod
    <3>2. CASE pods' = Remove(pods, p) /\ UNCHANGED events
      BY <1>0, <1>r, <3>1, <3>2
    <3>3. CASE Event /\ UNCHANGED pods
      BY <1>0, <1>e, <3>1, <3>3
    <3> QED
      BY <2>1, <3>2, <3>3
  <2> QED
    BY <1>0, <1>8, <1>p, <2>5, <2>6 DEF DeletePod
<1>9. ASSUME NEW w \in Workers, UpdateSetStatus(w) PROVE Typed'
  <2>1. worker[w] \in Passes
    BY <1>0
  <2>2. Cardinality(worker[w].target) \in Nat
    BY <2>1, DaemonSetAssumption, FS_Subset, FS_CardinalityType DEF Passes
  <2>3. worker[w].current \in Nat /\ worker[w].ready \in Nat
    BY <2>1 DEF Passes
  <2>4. set' \in Sets
    <3> DEFINE d == Cardinality(worker[w].target)
    <3>1. d \in Nat
      BY <2>2
    <3> HIDE DEF d
    <3>2. set' = set \/ set' = [set EXCEPT !.desired = d, !.current = worker[w].current,
                                          !.ready = worker[w].ready]
      BY <1>9 DEF UpdateSetStatus, d
    <3> QED
      BY <1>0, <2>3, <3>1, <3>2 DEF Sets
  <2> QED
    BY <1>0, <1>9, <1>p, <1>e, <1>i, <2>4 DEF UpdateSetStatus
<1>10. ASSUME NEW want \in SUBSET Nodes, ApplySet(want) PROVE Typed'
  <2>1. set' \in Sets /\ uids' \in Nat
    <3>1. CASE Exists
      BY <1>0, <1>10, <3>1 DEF ApplySet, Sets
    <3>2. CASE ~Exists
      <4>1. set' = [NoSet EXCEPT !.uid = uids + 1, !.want = want] /\ uids' = uids + 1
        BY <1>10, <3>2 DEF ApplySet
      <4>2. uids + 1 \in Nat
        BY <1>0
      <4> QED
        BY <4>1, <4>2, IdleTyped DEF Sets
    <3> QED
      BY <3>1, <3>2
  <2> QED
    BY <1>0, <1>10, <1>p, <1>e, <2>1 DEF ApplySet, HasWork
<1>11. CASE DeleteList
  <2>1. api' \in Requests
    BY <1>0, <1>11 DEF DeleteList, Requests
  <2> QED
    BY <1>0, <1>11, <1>p, <1>e, <2>1 DEF DeleteList, HasWork
<1>12. CASE DeleteOwnedPod
  <2>1. PICK p : /\ \/ pods' = Remove(pods, p) /\ UNCHANGED events
                    \/ Event /\ UNCHANGED pods
                 /\ api' = [api EXCEPT !.listed = @ \ {p},
                                       !.pc = IF api.listed = {p} THEN "row" ELSE @]
    BY <1>12 DEF DeleteOwnedPod
  <2>2. api' \in Requests
    BY <1>0, <2>1 DEF Requests
  <2> QED
    BY <1>0, <1>12, <1>p, <1>r, <1>e, <2>1, <2>2 DEF DeleteOwnedPod, HasWork
<1>13. CASE DeleteRow
  BY <1>0, <1>13, <1>p, <1>e, IdleTyped DEF DeleteRow, HasWork
<1>14. ASSUME NEW n \in Nodes, NodeFlap(n) PROVE Typed'
  BY <1>0, <1>14, <1>p, <1>e DEF NodeFlap, HasWork
<1>15. ASSUME NEW p \in DOMAIN pods, UserDeletePod(p) PROVE Typed'
  BY <1>0, <1>15, <1>p, <1>r, <1>e DEF UserDeletePod, HasWork
<1>16. ASSUME NEW p \in DOMAIN pods, ReportRunning(p) PROVE Typed'
  BY <1>0, <1>16, <1>p, ReportKeeps DEF ReportRunning, HasWork
<1>17. ASSUME NEW p \in DOMAIN pods, ReportFailed(p) PROVE Typed'
  BY <1>0, <1>17, <1>p, <1>e, ReportKeeps DEF ReportFailed, HasWork
<1> QED
  BY <1>1, <1>2, <1>3, <1>4, <1>5, <1>6, <1>7, <1>8, <1>9, <1>10, <1>11, <1>12, <1>13,
     <1>14, <1>15, <1>16, <1>17
  DEF Next, WorkerStep, DeleteStep

(* A step of a busy worker that leaves the others alone keeps OneBusy.     *)
LEMMA BusyStaysOne ==
    ASSUME OneBusy, apart' = apart, NEW w \in Workers, worker[w].pc # "idle",
           \A v \in Workers \ {w} : worker'[v] = worker[v]
    PROVE  OneBusy'
  BY DEF OneBusy

(* A step that adds no pod, keeps the owner and the node of those it       *)
(* leaves, and puts no worker into its creating loop.                      *)
LEMMA QuietStep ==
    ASSUME MissingIsFree, OnePerNode, apart' => apart,
           \A p \in DOMAIN pods' : /\ p \in DOMAIN pods
                                   /\ pods'[p].owner = pods[p].owner
                                   /\ pods'[p].node = pods[p].node,
           \A v \in Workers : worker'[v].pc = "create" =>
               /\ worker[v].pc = "create" /\ worker'[v].set = worker[v].set
               /\ worker'[v].missing \subseteq worker[v].missing
    PROVE  MissingIsFree' /\ OnePerNode'
<1>1. OnePerNode'
  BY DEF OnePerNode
<1>2. MissingIsFree'
  BY DEF MissingIsFree, Uncovered
<1> QED
  BY <1>1, <1>2

(* Every step keeps the inductive invariant.                               *)
LEMMA IInvNext == IInv /\ [Next]_vars => IInv'
<1> SUFFICES ASSUME IInv, [Next]_vars PROVE IInv'
  OBVIOUS
<1>0. /\ Typed /\ TypeOK /\ OneBusy /\ MissingIsFree /\ OnePerNode
      /\ worker \in [Workers -> Passes]
      /\ \A v \in Workers : worker[v] \in Passes
  BY DEF IInv, Typed, TypeOK
<1>t. Typed'
  BY <1>0, TypedNext
<1>1. ASSUME UNCHANGED <<worker, apart>>,
             \A p \in DOMAIN pods' : /\ p \in DOMAIN pods
                                     /\ pods'[p].owner = pods[p].owner
                                     /\ pods'[p].node = pods[p].node
      PROVE  IInv'
  <2>1. OneBusy'
    BY <1>0, <1>1 DEF OneBusy
  <2>2. MissingIsFree' /\ OnePerNode'
    BY <1>0, <1>1, QuietStep
  <2> QED
    BY <1>t, <2>1, <2>2 DEF IInv
<1>2. ASSUME NEW p, pods' = Remove(pods, p) \/ UNCHANGED pods
      PROVE  \A q \in DOMAIN pods' : /\ q \in DOMAIN pods
                                     /\ pods'[q].owner = pods[q].owner
                                     /\ pods'[q].node = pods[q].node
  BY <1>2, RemoveKeeps
<1>3. ASSUME NEW w \in Workers, NEW r, worker' = [worker EXCEPT ![w] = r],
             r.pc = "create" => /\ worker[w].pc = "create" /\ r.set = worker[w].set
                                /\ r.missing \subseteq worker[w].missing,
             worker[w].pc # "idle", apart' = apart,
             \A p \in DOMAIN pods' : /\ p \in DOMAIN pods
                                     /\ pods'[p].owner = pods[p].owner
                                     /\ pods'[p].node = pods[p].node
      PROVE  IInv'
  <2>1. worker'[w] = r /\ \A v \in Workers \ {w} : worker'[v] = worker[v]
    BY <1>0, <1>3
  <2>2. OneBusy'
    BY <1>0, <1>3, <2>1, BusyStaysOne
  <2>3. MissingIsFree' /\ OnePerNode'
    BY <1>0, <1>3, <2>1, QuietStep
  <2> QED
    BY <1>t, <2>2, <2>3 DEF IInv
<1>4. ASSUME NEW w \in Workers, ListSets(w) PROVE IInv'
  <2> DEFINE r == [Idle EXCEPT !.pc = "nodes", !.set = set]
  <2>1. r.pc = "nodes"
    BY DEF Idle
  <2>2. worker'[w].pc = "nodes" /\ \A v \in Workers \ {w} : worker'[v] = worker[v]
    BY <1>0, <1>4, <2>1 DEF ListSets
  <2>3. OneBusy'
    <3>1. ASSUME apart' PROVE \A v \in Workers \ {w} : worker'[v].pc = "idle"
      BY <1>4, <2>2, <3>1 DEF ListSets
    <3> QED
      BY <3>1 DEF OneBusy
  <2>4. MissingIsFree' /\ OnePerNode'
    BY <1>0, <1>4, <2>2, QuietStep DEF ListSets
  <2> QED
    BY <1>t, <2>3, <2>4 DEF IInv
<1>5. ASSUME NEW w \in Workers, ListReady(w) PROVE IInv'
  <2> DEFINE r == [[worker[w] EXCEPT !.pc = "list"]
                     EXCEPT !.target = nodes \cap worker[w].set.want]
  <2>1. r.pc = "list" /\ worker' = [worker EXCEPT ![w] = r]
    BY <1>0, <1>5 DEF ListReady, Passes
  <2> HIDE DEF r
  <2> QED
    BY <1>3, <1>5, <2>1 DEF ListReady
<1>6. ASSUME NEW w \in Workers, ListPods(w) PROVE IInv'
  <2>1. /\ worker'[w] = Plan(worker[w]) /\ \A v \in Workers \ {w} : worker'[v] = worker[v]
        /\ UNCHANGED <<pods, apart>> /\ worker[w].pc = "list"
    BY <1>0, <1>6 DEF ListPods
  <2>2. OneBusy'
    BY <1>0, <2>1, BusyStaysOne
  <2>3. OnePerNode'
    BY <1>0, <2>1 DEF OnePerNode
  <2>4. ASSUME Labelled, apart', NEW v \in Workers, worker'[v].pc = "create"
        PROVE  Uncovered(v)'
    <3>1. v = w
      <4>1. SUFFICES ASSUME v # w PROVE FALSE
        OBVIOUS
      <4> QED
        BY <1>0, <2>1, <2>4, <4>1 DEF OneBusy
    <3>2. /\ Plan(worker[w]).set = worker[w].set
          /\ \A p \in Owned(worker[w].set.uid) : pods[p].node \notin Plan(worker[w]).missing
      BY <1>0, <2>4, PlanCorrect
    <3> QED
      BY <2>1, <3>1, <3>2 DEF Uncovered, Owned
  <2>5. MissingIsFree'
    BY <2>4 DEF MissingIsFree
  <2> QED
    BY <1>t, <2>2, <2>3, <2>5 DEF IInv
<1>7. ASSUME NEW w \in Workers, ListErr(w) PROVE IInv'
  BY <1>3, <1>7, IdleTyped DEF ListErr
<1>8. ASSUME NEW w \in Workers, CreatePod(w) PROVE IInv'
  <2> DEFINE u == worker[w].set.uid
             n == First(worker[w].missing)
             q == names + 1
             row == NewPod(u, n)
  <2>1. /\ worker'[w] = Covered(worker[w]) /\ \A v \in Workers \ {w} : worker'[v] = worker[v]
        /\ UNCHANGED apart /\ worker[w].pc = "create"
    BY <1>0, <1>8 DEF CreatePod
  <2>2. OneBusy'
    BY <1>0, <2>1, BusyStaysOne
  <2>3. n \in worker[w].missing
    BY <1>0, <2>1, FirstIsMember DEF Typed, HasWork, InLoop
  <2>4. row.owner = u /\ row.node = n
    BY DEF NewPod
  <2>5. /\ q \notin DOMAIN pods
        /\ DOMAIN pods' = DOMAIN pods \cup {q}
        /\ \A p \in DOMAIN pods : pods'[p] = pods[p]
        /\ pods'[q] = row
    BY <1>0, <1>8, CreateAdds
  <2>6. Labelled /\ apart => \A p \in DOMAIN pods :
                               pods[p].owner = u => pods[p].node \notin worker[w].missing
    BY <1>0, <2>1 DEF MissingIsFree, Uncovered
  <2>7. Covered(worker[w]).set.uid = u /\ Covered(worker[w]).missing = worker[w].missing \ {n}
    BY <1>0, CoveredKeeps
  <2> HIDE DEF u, n, q, row
  <2>8. OnePerNode'
    BY <1>0, <2>1, <2>3, <2>4, <2>5, <2>6 DEF OnePerNode
  <2>9. ASSUME Labelled, apart', NEW v \in Workers, worker'[v].pc = "create"
        PROVE  Uncovered(v)'
    <3>1. v = w
      <4>1. SUFFICES ASSUME v # w PROVE FALSE
        OBVIOUS
      <4> QED
        BY <1>0, <2>1, <2>9, <4>1 DEF OneBusy
    <3>2. ASSUME NEW p \in DOMAIN pods', pods'[p].owner = u
          PROVE  pods'[p].node \notin worker[w].missing \ {n}
      BY <2>1, <2>4, <2>5, <2>6, <2>9, <3>2
    <3> QED
      BY <2>1, <2>7, <3>1, <3>2 DEF Uncovered
  <2>10. MissingIsFree'
    BY <2>9 DEF MissingIsFree
  <2> QED
    BY <1>t, <2>2, <2>8, <2>10 DEF IInv
<1>9. ASSUME NEW w \in Workers, CreatePodErr(w) PROVE IInv'
  <2>1. /\ Covered(worker[w]).set = worker[w].set
        /\ Covered(worker[w]).missing \subseteq worker[w].missing
    BY <1>0, CoveredKeeps
  <2> QED
    BY <1>3, <1>9, <2>1 DEF CreatePodErr
<1>10. ASSUME NEW w \in Workers, DeletePod(w) PROVE IInv'
  <2>1. PICK p : /\ worker' = [worker EXCEPT ![w] = Without(@, p)]
                 /\ pods' = Remove(pods, p) \/ UNCHANGED pods
    BY <1>10 DEF DeletePod
  <2>2. worker[w].pc = "delete" /\ worker[w].missing = {} /\ apart' = apart
    BY <1>0, <1>10 DEF DeletePod, Typed, HasWork, InLoop
  <2>3. Without(worker[w], p).pc # "create"
    BY <1>0, <2>2, WithoutKeeps DEF InLoop
  <2> QED
    BY <1>2, <1>3, <2>1, <2>2, <2>3
<1>11. ASSUME NEW w \in Workers, UpdateSetStatus(w) PROVE IInv'
  BY <1>3, <1>11, IdleTyped DEF UpdateSetStatus
<1>12. CASE UNCHANGED vars
  BY <1>1, <1>12 DEF vars
<1>13. CASE \/ \E want \in SUBSET Nodes : ApplySet(want)
            \/ DeleteList \/ DeleteRow
            \/ \E n \in Nodes : NodeFlap(n)
  BY <1>1, <1>13 DEF ApplySet, DeleteList, DeleteRow, NodeFlap
<1>14. CASE DeleteOwnedPod
  BY <1>1, <1>2, <1>14 DEF DeleteOwnedPod
<1>15. ASSUME NEW p \in DOMAIN pods, UserDeletePod(p) PROVE IInv'
  BY <1>1, <1>2, <1>15 DEF UserDeletePod
<1>16. ASSUME NEW p \in DOMAIN pods, ReportRunning(p) PROVE IInv'
  BY <1>0, <1>1, <1>16, ReportKeeps DEF ReportRunning
<1>17. ASSUME NEW p \in DOMAIN pods, ReportFailed(p) PROVE IInv'
  BY <1>0, <1>1, <1>17, ReportKeeps DEF ReportFailed
<1> QED
  BY <1>4, <1>5, <1>6, <1>7, <1>8, <1>9, <1>10, <1>11, <1>12, <1>13, <1>14, <1>15, <1>16,
     <1>17
  DEF Next, WorkerStep, DeleteStep

LEMMA InitIInv == Init => IInv
<1> SUFFICES ASSUME Init PROVE IInv
  OBVIOUS
<1>1. \A w \in Workers : worker[w].pc = "idle"
  BY IdleTyped DEF Init
<1>2. DOMAIN pods = {}
  BY DEF Init
<1>3. TypeOK
  BY <1>2, IdleTyped DEF Init, TypeOK
<1> QED
  BY <1>1, <1>2, <1>3 DEF IInv, Typed, HasWork, InLoop, OneBusy, MissingIsFree, OnePerNode

(* Every variable of the daemonset model keeps its type.                   *)
THEOREM DaemonSetTypeCorrect == Spec => []TypeOK
<1>1. Init => Typed
  BY InitIInv DEF IInv
<1>2. Typed => TypeOK
  BY DEF Typed
<1> QED
  BY <1>1, <1>2, TypedNext, PTL DEF Spec

(***************************************************************************)
(* reconcile_daemonset (controller.rs:436-545) never puts a second pod of  *)
(* a set on a node, for any number of masters and nodes and whatever the   *)
(* user, the nodes and the agents do between its awaits, until two         *)
(* masters' passes overlap.                                                *)
(***************************************************************************)
THEOREM DaemonSetOnePerNode == Spec => []OnePerNode
<1>1. IInv => OnePerNode
  BY DEF IInv
<1> QED
  BY <1>1, InitIInv, IInvNext, PTL DEF Spec
==============================================================================
