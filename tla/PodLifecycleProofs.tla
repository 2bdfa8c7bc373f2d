------------------------- MODULE PodLifecycleProofs -------------------------
(***************************************************************************)
(* Proofs about PodLifecycle, for every set of pods, whatever their        *)
(* containers, classes and restart policies, on every node that            *)
(* Engines::build can give.                                                *)
(***************************************************************************)
EXTENDS PodLifecycle, FiniteSetTheorems, WellFoundedInduction, TLAPS

(* A set of numbers that has a member has a least one.                     *)
LEMMA LeastMember ==
    ASSUME NEW S, S \subseteq Nat, S # {}
    PROVE  \E m \in S : \A u \in S : m <= u
<1> DEFINE R == OpToRel(<, Nat)
<1>1. \E m \in S : \A u \in S : ~(<<u, m>> \in R)
  <2>1. IsWellFoundedOn(R, Nat)
    BY NatLessThanWellFounded
  <2> HIDE DEF R
  <2> QED
    BY <2>1, WFMin
<1>2. PICK m \in S : \A u \in S : ~(<<u, m>> \in R)
  BY <1>1
<1>3. \A u \in S : ~(u < m)
  BY <1>2 DEF OpToRel
<1> QED
  BY <1>3

-----------------------------------------------------------------------------
(* Lemmas about the engines of a node (node/runtime/mod.rs).               *)

LEMMA TheEngine ==
    ASSUME NEW list, Buildable(list), NEW e \in NamesOf(list)
    PROVE  \E i \in DOMAIN list : The(list, e) = list[i] /\ list[i] \in Engine /\ list[i].name = e
<1>1. \E x \in {list[i] : i \in DOMAIN list} : x.name = e
  BY DEF NamesOf
<1>2. The(list, e) \in {list[i] : i \in DOMAIN list} /\ The(list, e).name = e
  BY <1>1 DEF The
<1>3. \A i \in DOMAIN list : list[i] \in Engine
  BY DEF Buildable
<1> QED
  BY <1>2, <1>3

(* The engine that removes is the embedded one; it forgets its containers  *)
(* when the agent is restarted, and no lookup in it fails.                 *)
LEMMA RemovingEngine ==
    ASSUME NEW list, Buildable(list), NEW e \in NamesOf(list), The(list, e).removes
    PROVE  /\ The(list, e) = Embedded
           /\ ~The(list, e).knows /\ ~The(list, e).shaky
           /\ e = "embedded" /\ e = list[1].name
           /\ ~list[1].shaky
<1>1. PICK i \in DOMAIN list : The(list, e) = list[i] /\ list[i] \in Engine /\ list[i].name = e
  BY TheEngine
<1>2. list[i] = Embedded
  BY <1>1 DEF Engine, Embedded, Wasm, Docker, Mock
<1>3. i = 1
  <2>1. i \in Nat /\ i >= 1
    BY DEF Buildable
  <2>2. ~(i > 1)
    BY <1>2 DEF Buildable, Embedded, Wasm, Docker
  <2> QED
    BY <2>1, <2>2
<1> QED
  BY <1>1, <1>2, <1>3 DEF Embedded

(* find_container finds a container when an engine that answers has one.   *)
LEMMA FoundIfAny ==
    ASSUME NEW list, Buildable(list), NEW cs, NEW n, NEW deaf, NEW e \in NamesOf(list) \ deaf,
           cs[<<e, n>>] # "none"
    PROVE  Found(list, cs, n, deaf) # {}
<1> DEFINE Has(i) == list[i].name \notin deaf /\ cs[<<list[i].name, n>>] # "none"
           S == {i \in DOMAIN list : Has(i)}
<1>1. S \subseteq Nat /\ S # {}
  <2>1. DOMAIN list \subseteq Nat
    BY DEF Buildable
  <2>2. PICK i \in DOMAIN list : e = list[i].name
    BY DEF NamesOf
  <2>3. i \in S
    BY <2>2
  <2> QED
    BY <2>1, <2>3
<1>2. \E m \in S : \A u \in S : m <= u
  <2> HIDE DEF S
  <2> QED
    BY <1>1, LeastMember
<1>3. PICK m \in S : \A u \in S : m <= u
  BY <1>2
<1>4. \A j \in 1 .. m - 1 : ~Has(j)
  <2> SUFFICES ASSUME NEW j \in 1 .. m - 1
               PROVE  j \notin S /\ j \in DOMAIN list
    OBVIOUS
  <2>1. DOMAIN list = 1 .. Len(list) /\ Len(list) \in Nat
    BY DEF Buildable
  <2>2. m \in 1 .. Len(list) /\ j \in 1 .. Len(list) /\ ~(m <= j)
    BY <2>1
  <2> QED
    BY <1>3, <2>1, <2>2
<1>5. list[m].name \in Found(list, cs, n, deaf)
  BY <1>4 DEF Found
<1> QED
  BY <1>5

(* The engine that removes is never the one that fails to answer.          *)
LEMMA RemovingAnswers ==
    ASSUME NEW list, Buildable(list), NEW e \in NamesOf(list), The(list, e).removes,
           NEW deaf \in Deaf(list)
    PROVE  e \notin deaf
<1>1. e = "embedded"
  BY RemovingEngine
<1>2. \A i \in DOMAIN list : list[i].shaky => list[i].name = "docker"
  <2>1. \A i \in DOMAIN list : list[i] \in Engine
    BY DEF Buildable
  <2> QED
    BY <2>1 DEF Engine, Embedded, Wasm, Docker, Mock
<1>3. \A x \in deaf : x = "docker"
  BY <1>2 DEF Deaf
<1> QED
  BY <1>1, <1>3

-----------------------------------------------------------------------------
(* The parts of TypeOK, by the process that owns the state.                *)
TableOK == DOMAIN pods \subseteq Pods /\ \A p \in DOMAIN pods : pods[p] \in Rows
NodeOK ==
    /\ engines \in Nodes
    /\ container \in [EngineNames \X Containers -> Runtime!States]
    /\ code \in [EngineNames \X Containers -> {0, 1}]
    /\ tracked \subseteq Pods \X Containers
    /\ missed \subseteq Containers /\ stray \subseteq Containers
SyncOK ==
    /\ sync \in Syncs
    /\ sync.pc = "pick" => sync.todo # {}
    /\ sync.pc \in OnContainer => sync.pod \in Pods /\ sync.at \in DOMAIN RuntimeNames[sync.pod]
    /\ sync.todo \subseteq DOMAIN sync.desired
    /\ sync.pc \in OnContainer \cup {"publish"} => sync.pod \in sync.todo
CtlOK ==
    /\ ctl \in Ctls
    /\ ctl.pc # "idle" => DOMAIN ctl.todo # {}
    /\ ctl.pc = "create" => ctl.pod \in DOMAIN ctl.todo
RestOK == /\ ready \in BOOLEAN /\ wanted \subseteq Pods
          /\ ops \in 0 .. MaxOps /\ faults \in 0 .. MaxFaults

LEMMA TypeParts ==
    TypeOK <=> TableOK /\ NodeOK /\ SyncOK /\ CtlOK /\ RestOK
BY DEF TypeOK, TableOK, NodeOK, SyncOK, CtlOK, RestOK

LEMMA EnginesBuildable ==
    ASSUME NodeOK
    PROVE  Buildable(engines) /\ NamesOf(engines) \subseteq EngineNames
BY PodLifecycleAssumption DEF NodeOK, EngineNames

LEMMA NameIsContainer ==
    ASSUME SyncOK, sync.pc \in OnContainer
    PROVE  Name \in Containers
BY DEF SyncOK, Name, Containers

LEMMA PodNames ==
    ASSUME NEW p \in Pods
    PROVE  /\ DOMAIN RuntimeNames[p] = 1 .. Len(RuntimeNames[p])
           /\ Len(RuntimeNames[p]) \in Nat /\ Len(RuntimeNames[p]) >= 1
BY PodLifecycleAssumption

-----------------------------------------------------------------------------
(* The agent's memory.                                                     *)

LEMMA IdleSyncOK ==
    IdleSync \in Syncs /\ IdleSync.pc = "idle" /\ IdleSync.todo = {}
<1>1. NoPods \in [{} -> AnyClass]
  BY DEF NoPods
<1>2. NoPods \in UNION {[S -> AnyClass] : S \in SUBSET Pods}
  BY <1>1
<1> QED
  BY <1>2 DEF IdleSync, Syncs

LEMMA NextPodOK ==
    ASSUME SyncOK, sync.pc \in OnContainer \cup {"publish"}, NextPod
    PROVE  SyncOK' /\ sync'.pc \in {"sweep", "pick"}
<1> DEFINE t == sync.todo \ {sync.pod}
           d == sync.desired
           c == IF sync.todo = {sync.pod} THEN "sweep" ELSE "pick"
<1>1. sync' = [IdleSync EXCEPT !.todo = t, !.desired = d, !.pc = c]
  BY DEF NextPod
<1>2. t \in SUBSET Pods /\ t \subseteq DOMAIN d /\ (c = "pick" => t # {})
      /\ c \in {"sweep", "pick"}
      /\ d \in UNION {[S -> AnyClass] : S \in SUBSET Pods}
  BY DEF SyncOK, Syncs
<1> HIDE DEF t, c, d
<1>3. sync' \in Syncs /\ sync'.pc = c /\ sync'.todo = t /\ sync'.desired = d
  <2>1. IdleSync \in Syncs
    BY IdleSyncOK
  <2>2. sync' = [[[IdleSync EXCEPT !.todo = t] EXCEPT !.desired = d] EXCEPT !.pc = c]
    BY <1>1, <2>1 DEF Syncs
  <2> QED
    BY <1>2, <2>1, <2>2 DEF Syncs
<1> QED
  BY <1>2, <1>3 DEF SyncOK, OnContainer

LEMMA ObservedOK ==
    ASSUME SyncOK, sync.pc \in OnContainer, NEW r \in BOOLEAN, NEW f \in BOOLEAN,
           Observed(r, f)
    PROVE  SyncOK' /\ sync'.pc \in {"publish", "container"}
<1> DEFINE a == sync.running /\ r
           b == sync.failed \/ f
           c == IF sync.at = Len(RuntimeNames[sync.pod]) THEN "publish" ELSE "container"
<1>1. sync' = [sync EXCEPT !.running = a, !.failed = b, !.at = sync.at + 1, !.pc = c]
  BY Zenon DEF Observed
<1>2. a \in BOOLEAN /\ b \in BOOLEAN
  OBVIOUS
<1>3. /\ sync \in Syncs /\ sync.pod \in Pods /\ sync.at \in DOMAIN RuntimeNames[sync.pod]
      /\ sync.pod \in sync.todo /\ sync.todo \subseteq DOMAIN sync.desired
  BY DEF SyncOK
<1>4. sync.at + 1 \in Nat
      /\ (sync.at # Len(RuntimeNames[sync.pod]) => sync.at + 1 \in DOMAIN RuntimeNames[sync.pod])
  BY <1>3, PodNames
<1>5. c \in {"publish", "container"}
      /\ (c = "container" => sync.at + 1 \in DOMAIN RuntimeNames[sync.pod])
  BY <1>4
<1> HIDE DEF a, b, c
<1>6. /\ sync' \in Syncs /\ sync'.pc = c /\ sync'.todo = sync.todo
      /\ sync'.desired = sync.desired /\ sync'.pod = sync.pod /\ sync'.at = sync.at + 1
  <2>1. sync' = [[[[sync EXCEPT !.running = a] EXCEPT !.failed = b]
                                EXCEPT !.at = sync.at + 1] EXCEPT !.pc = c]
    BY <1>1, <1>3 DEF Syncs
  <2>2. sync.at + 1 \in Nat
    BY <1>4
  <2> QED
    BY <1>2, <1>3, <1>5, <2>1, <2>2 DEF Syncs
<1> QED
  BY <1>3, <1>5, <1>6 DEF SyncOK, OnContainer

(* reconcile_pod goes on to the next stage with the same container.        *)
LEMMA StageOK ==
    ASSUME SyncOK, sync.pc \in OnContainer, NEW c \in OnContainer,
           sync' = [sync EXCEPT !.pc = c]
    PROVE  SyncOK' /\ sync'.pc = c /\ Name' = Name
<1>1. /\ sync' \in Syncs /\ sync'.pc = c /\ sync'.todo = sync.todo
      /\ sync'.desired = sync.desired /\ sync'.pod = sync.pod /\ sync'.at = sync.at
  BY DEF SyncOK, Syncs, OnContainer
<1> QED
  BY <1>1 DEF SyncOK, OnContainer, Name

LEMMA SyncNext ==
    ASSUME TypeOK, [Next]_vars
    PROVE  SyncOK'
<1>1. TableOK /\ SyncOK
  BY TypeParts
<1>2. CASE UNCHANGED sync
  BY <1>1, <1>2 DEF SyncOK
<1>3. CASE AgentList
  <2> DEFINE mine == {p \in Pods : Bound(p)}
             d == [p \in mine |-> pods[p].class]
             c == IF mine = {} THEN "sweep" ELSE "pick"
  <2>1. sync' = [IdleSync EXCEPT !.pc = c, !.todo = mine, !.desired = d]
    BY <1>3 DEF AgentList
  <2>2. d \in UNION {[S -> AnyClass] : S \in SUBSET Pods} /\ DOMAIN d = mine
    <3>1. \A p \in mine : pods[p].class \in AnyClass
      BY <1>1 DEF Bound, TableOK, Rows
    <3>2. d \in [mine -> AnyClass]
      BY <3>1
    <3> QED
      BY <3>2
  <2>3. c \in {"sweep", "pick"} /\ (c = "pick" => mine # {}) /\ mine \subseteq Pods
    OBVIOUS
  <2> HIDE DEF c, d, mine
  <2>4. sync' \in Syncs /\ sync'.pc = c /\ sync'.todo = mine /\ sync'.desired = d
    <3>1. IdleSync \in Syncs
      BY IdleSyncOK
    <3>2. sync' = [[[IdleSync EXCEPT !.pc = c] EXCEPT !.todo = mine] EXCEPT !.desired = d]
      BY <2>1, <3>1 DEF Syncs
    <3> QED
      BY <2>2, <2>3, <3>1, <3>2 DEF Syncs
  <2> QED
    BY <2>2, <2>3, <2>4 DEF SyncOK, OnContainer
<1>4. ASSUME NEW p \in Pods, AgentPick(p)
      PROVE  SyncOK'
  <2>1. /\ p \in sync.todo
        /\ sync' = [sync EXCEPT !.pc = "container", !.pod = p, !.at = 1]
    BY <1>4 DEF AgentPick
  <2>2. /\ sync' \in Syncs /\ sync'.pc = "container" /\ sync'.todo = sync.todo
        /\ sync'.desired = sync.desired /\ sync'.pod = p /\ sync'.at = 1
    <3>1. sync \in Syncs
      BY <1>1 DEF SyncOK
    <3>2. sync' = [[[sync EXCEPT !.pc = "container"] EXCEPT !.pod = p] EXCEPT !.at = 1]
      BY <2>1, <3>1 DEF Syncs
    <3> QED
      BY <3>1, <3>2 DEF Syncs
  <2> QED
    BY <1>1, <2>1, <2>2, PodNames DEF SyncOK, OnContainer
<1>5. CASE AgentObserve
  <2>0. PICK deaf \in Deaf(engines) : \E e \in Here(deaf) :
           Observed(container[<<e, Name>>] = "running",
                    container[<<e, Name>>] = "exited" /\ code[<<e, Name>>] # 0)
    BY <1>5 DEF AgentObserve
  <2>1. PICK e \in Here(deaf) :
           Observed(container[<<e, Name>>] = "running",
                    container[<<e, Name>>] = "exited" /\ code[<<e, Name>>] # 0)
    BY <2>0
  <2> DEFINE r == container[<<e, Name>>] = "running"
             f == container[<<e, Name>>] = "exited" /\ code[<<e, Name>>] # 0
  <2>2. r \in BOOLEAN /\ f \in BOOLEAN /\ Observed(r, f)
    BY <2>1
  <2> HIDE DEF r, f
  <2>3. sync.pc \in OnContainer
    BY <1>5 DEF AgentObserve, OnContainer
  <2> QED
    BY <1>1, <2>2, <2>3, ObservedOK
<1>6. CASE AgentStartErr
  BY <1>1, <1>6, ObservedOK DEF AgentStartErr, OnContainer
<1>7. CASE FindErr
  BY <1>1, <1>7, NextPodOK DEF FindErr, OnContainer
<1>8. CASE AgentPublish
  BY <1>1, <1>8, NextPodOK DEF AgentPublish
<1>9. ASSUME sync' = IdleSync
      PROVE  SyncOK'
  BY <1>9, IdleSyncOK DEF SyncOK, OnContainer
<1>10. CASE AgentSweep \/ AgentRestart
  BY <1>9, <1>10 DEF AgentSweep, AgentRestart
<1>11. CASE Heartbeat \/ NodeGone \/ CtlStep
  BY <1>2, <1>11 DEF Heartbeat, NodeGone, CtlStep, CtlList, CtlPod, CtlCreate, agentVars
<1>12. ASSUME NEW p \in Pods, Schedule(p) \/ UserApply(p) \/ UserDelete(p)
       PROVE  SyncOK'
  BY <1>2, <1>12 DEF Schedule, UserApply, UserDelete, agentVars
<1>13. ASSUME NEW e \in NamesOf(engines), NEW n \in Containers, NEW c \in {0, 1},
              ContainerExit(e, n, c)
       PROVE  SyncOK'
  BY <1>2, <1>13 DEF ContainerExit
<1>14. CASE UNCHANGED vars
  BY <1>2, <1>14 DEF vars
<1>15. CASE AgentMissing \/ AgentStart
  BY <1>1, <1>15, StageOK DEF AgentMissing, AgentStart, OnContainer
<1> QED
  BY <1>3, <1>4, <1>5, <1>6, <1>7, <1>8, <1>10, <1>11, <1>12, <1>13, <1>14, <1>15
  DEF Next, AgentStep

-----------------------------------------------------------------------------
(* The table, the controller's memory and the rest.                        *)

LEMMA UpsertOK ==
    ASSUME TableOK, NEW p \in Pods, NEW class \in AnyClass, NEW where \in {NoNode, "here"},
           pods' = Upsert(pods, p, FreshRow(class, where))
    PROVE  TableOK'
<1> DEFINE row == FreshRow(class, where)
<1>1. row \in Rows
  BY DEF FreshRow, Rows, Phases
<1> HIDE DEF row
<1>2. pods' = Upsert(pods, p, row)
  BY DEF row
<1>3. /\ DOMAIN pods' = DOMAIN pods \cup {p}
      /\ \A q \in DOMAIN pods \ {p} : pods'[q] = pods[q]
      /\ pods'[p] = IF p \in DOMAIN pods
                    THEN [row EXCEPT !.uid = pods[p].uid, !.created = pods[p].created]
                    ELSE row
  BY <1>2 DEF Upsert
<1>4. pods'[p] \in Rows
  <2>1. CASE p \in DOMAIN pods
    <3>1. pods[p].uid \in {0} /\ pods[p].created \in {0}
      BY <2>1 DEF TableOK, Rows
    <3>2. pods'[p] = [[row EXCEPT !.uid = pods[p].uid] EXCEPT !.created = pods[p].created]
      BY <1>1, <1>3, <2>1
    <3> QED
      BY <1>1, <3>1, <3>2 DEF Rows
  <2>2. CASE p \notin DOMAIN pods
    BY <1>1, <1>3, <2>2
  <2> QED
    BY <2>1, <2>2
<1> QED
  BY <1>3, <1>4 DEF TableOK

LEMMA StatusOK ==
    ASSUME TableOK, NEW p, NEW phase \in Phases,
           pods' = UpdateStatus(pods, p, phase, FALSE)
    PROVE  TableOK'
<1>1. CASE p \in DOMAIN pods
  <2>1. /\ DOMAIN pods' = DOMAIN pods
        /\ \A q \in DOMAIN pods \ {p} : pods'[q] = pods[q]
        /\ pods'[p] = [[pods[p] EXCEPT !.phase = phase] EXCEPT !.ip = FALSE]
    BY <1>1 DEF UpdateStatus
  <2>2. pods[p] \in Rows
    BY <1>1 DEF TableOK
  <2>3. pods'[p] \in Rows
    BY <2>1, <2>2 DEF Rows
  <2> QED
    BY <2>1, <2>3 DEF TableOK
<1>2. CASE p \notin DOMAIN pods
  BY <1>2 DEF UpdateStatus, TableOK
<1> QED
  BY <1>1, <1>2

LEMMA RemoveOK ==
    ASSUME TableOK, NEW p, pods' = Remove(pods, p)
    PROVE  TableOK'
BY DEF TableOK, Remove

LEMMA BindOK ==
    ASSUME TableOK, NEW p \in DOMAIN pods, NEW where \in {"here", "away"},
           pods' = BindToNode(pods, p, where)
    PROVE  TableOK'
<1>1. /\ DOMAIN pods' = DOMAIN pods
      /\ \A q \in DOMAIN pods \ {p} : pods'[q] = pods[q]
      /\ pods'[p] = [pods[p] EXCEPT !.node = where]
  BY DEF BindToNode
<1>2. pods[p] \in Rows
  BY DEF TableOK
<1>3. pods'[p] \in Rows
  BY <1>1, <1>2 DEF Rows
<1> QED
  BY <1>1, <1>3 DEF TableOK

LEMMA PlanOf ==
    ASSUME CtlOK, NEW p \in DOMAIN ctl.todo
    PROVE  p \in Pods /\ ctl.todo[p].class \in AnyClass /\ ctl.todo[p].op \in {"mark", "respin"}
<1>1. PICK S \in SUBSET Pods : ctl.todo \in [S -> [op : {"mark", "respin"}, class : AnyClass]]
  BY DEF CtlOK, Ctls, Plans
<1> QED
  BY <1>1

LEMMA TableNext ==
    ASSUME TypeOK, [Next]_vars
    PROVE  TableOK'
<1>1. TableOK /\ SyncOK /\ CtlOK
  BY TypeParts
<1>2. CASE UNCHANGED pods
  BY <1>1, <1>2 DEF TableOK
<1>3. CASE AgentPublish
  <2>1. Phase(sync.failed, sync.running) \in Phases
    BY DEF Phase, Phases
  <2> QED
    BY <1>1, <1>2, <1>3, <2>1, StatusOK DEF AgentPublish
<1>4. ASSUME NEW p \in Pods, CtlPod(p)
      PROVE  TableOK'
  BY <1>1, <1>2, <1>4, StatusOK, RemoveOK DEF CtlPod, Phases
<1>5. CASE CtlCreate
  <2>1. ctl.pod \in DOMAIN ctl.todo
    BY <1>1, <1>5 DEF CtlCreate, CtlOK
  <2>2. ctl.pod \in Pods /\ ctl.todo[ctl.pod].class \in AnyClass
    BY <1>1, <2>1, PlanOf
  <2> QED
    BY <1>1, <1>2, <1>5, <2>2, UpsertOK DEF CtlCreate
<1>6. ASSUME NEW p \in Pods, Schedule(p)
      PROVE  TableOK'
  <2>1. PICK where \in {"away"} \cup (IF ready THEN {"here"} ELSE {}) :
           pods' = BindToNode(pods, p, where)
    BY <1>6 DEF Schedule
  <2>2. where \in {"here", "away"} /\ p \in DOMAIN pods
    BY <1>6 DEF Schedule
  <2> QED
    BY <1>1, <2>1, <2>2, BindOK
<1>7. ASSUME NEW p \in Pods, UserApply(p)
      PROVE  TableOK'
  <2>1. PICK class \in Classes[p], where \in {NoNode, "here"} :
           pods' = Upsert(pods, p, FreshRow(class, where))
    BY <1>7 DEF UserApply
  <2>2. class \in AnyClass
    BY DEF AnyClass
  <2> QED
    BY <1>1, <2>1, <2>2, UpsertOK
<1>8. ASSUME NEW p \in Pods, UserDelete(p)
      PROVE  TableOK'
  BY <1>1, <1>8, RemoveOK DEF UserDelete
<1>9. CASE \/ AgentList \/ (\E p \in Pods : AgentPick(p)) \/ AgentObserve \/ AgentMissing
           \/ AgentStart \/ AgentStartErr \/ FindErr \/ AgentSweep \/ AgentRestart
  BY <1>2, <1>9 DEF AgentList, AgentPick, AgentObserve, AgentMissing, AgentStart, AgentStartErr,
                    FindErr, AgentSweep, AgentRestart
<1>10. CASE Heartbeat \/ NodeGone \/ CtlList
  BY <1>2, <1>10 DEF Heartbeat, NodeGone, CtlList
<1>11. ASSUME NEW e \in NamesOf(engines), NEW n \in Containers, NEW c \in {0, 1},
              ContainerExit(e, n, c)
       PROVE  TableOK'
  BY <1>2, <1>11 DEF ContainerExit
<1>12. CASE UNCHANGED vars
  BY <1>2, <1>12 DEF vars
<1> QED
  BY <1>3, <1>4, <1>5, <1>6, <1>7, <1>8, <1>9, <1>10, <1>11, <1>12
  DEF Next, AgentStep, CtlStep

LEMMA AfterPodOK ==
    ASSUME CtlOK, NEW p \in DOMAIN ctl.todo, ctl' = AfterPod(p)
    PROVE  CtlOK'
<1> DEFINE t == [q \in DOMAIN ctl.todo \ {p} |-> ctl.todo[q]]
           c == IF DOMAIN ctl.todo = {p} THEN "idle" ELSE "pod"
<1>1. ctl' = [ctl EXCEPT !.todo = t, !.pc = c, !.pod = NoPod]
  BY DEF AfterPod
<1>2. t \in Plans /\ DOMAIN t = DOMAIN ctl.todo \ {p}
  <2>1. PICK S \in SUBSET Pods : ctl.todo \in [S -> [op : {"mark", "respin"}, class : AnyClass]]
    BY DEF CtlOK, Ctls, Plans
  <2>2. t \in [S \ {p} -> [op : {"mark", "respin"}, class : AnyClass]]
    BY <2>1
  <2> QED
    BY <2>1, <2>2 DEF Plans
<1>3. c \in {"idle", "pod"} /\ (c = "pod" => DOMAIN t # {})
  BY <1>2
<1> HIDE DEF t, c
<1>4. ctl' \in Ctls /\ ctl'.pc = c /\ ctl'.todo = t
  <2>1. ctl \in Ctls
    BY DEF CtlOK
  <2>2. ctl' = [[[ctl EXCEPT !.todo = t] EXCEPT !.pc = c] EXCEPT !.pod = NoPod]
    BY <1>1, <2>1 DEF Ctls
  <2> QED
    BY <1>2, <1>3, <2>1, <2>2 DEF Ctls
<1> QED
  BY <1>3, <1>4 DEF CtlOK

LEMMA CtlNext ==
    ASSUME TypeOK, [Next]_vars
    PROVE  CtlOK'
<1>1. TableOK /\ CtlOK
  BY TypeParts
<1>2. CASE UNCHANGED ctl
  BY <1>1, <1>2 DEF CtlOK
<1>3. CASE CtlList
  <2> DEFINE mine == {p \in DOMAIN pods : Lost(p) \/ Respin(p)}
             t == [p \in mine |-> [op |-> IF Lost(p) THEN "mark" ELSE "respin",
                                   class |-> pods[p].class]]
  <2>1. mine # {} /\ ctl' = [IdleCtl EXCEPT !.pc = "pod", !.todo = t]
    BY <1>3 DEF CtlList
  <2>2. t \in Plans /\ DOMAIN t = mine
    <3>1. \A p \in mine : p \in Pods /\ pods[p].class \in AnyClass
      BY <1>1 DEF TableOK, Rows
    <3>2. t \in [mine -> [op : {"mark", "respin"}, class : AnyClass]]
      BY <3>1
    <3> QED
      BY <3>1, <3>2 DEF Plans
  <2> HIDE DEF t, mine
  <2>3. ctl' \in Ctls /\ ctl'.pc = "pod" /\ ctl'.todo = t
    <3>1. IdleCtl \in Ctls
      <4>1. NoPods \in [{} -> [op : {"mark", "respin"}, class : AnyClass]]
        BY DEF NoPods
      <4>2. NoPods \in Plans
        BY <4>1 DEF Plans
      <4> QED
        BY <4>2 DEF IdleCtl, Ctls
    <3>2. ctl' = [[IdleCtl EXCEPT !.pc = "pod"] EXCEPT !.todo = t]
      BY <2>1, <3>1 DEF Ctls
    <3> QED
      BY <2>2, <3>1, <3>2 DEF Ctls
  <2> QED
    BY <2>1, <2>2, <2>3 DEF CtlOK
<1>4. ASSUME NEW p \in Pods, CtlPod(p)
      PROVE  CtlOK'
  <2>1. p \in DOMAIN ctl.todo
    BY <1>4 DEF CtlPod
  <2>2. CASE ctl.todo[p].op = "respin"
    <3>1. ctl' = [ctl EXCEPT !.pc = "create", !.pod = p]
      BY <1>4, <2>2 DEF CtlPod
    <3>2. ctl' \in Ctls /\ ctl'.pc = "create" /\ ctl'.pod = p /\ ctl'.todo = ctl.todo
      <4>1. ctl \in Ctls
        BY <1>1 DEF CtlOK
      <4>2. ctl' = [[ctl EXCEPT !.pc = "create"] EXCEPT !.pod = p]
        BY <3>1, <4>1 DEF Ctls
      <4> QED
        BY <4>1, <4>2 DEF Ctls
    <3> QED
      BY <2>1, <3>2 DEF CtlOK
  <2>3. CASE ctl.todo[p].op # "respin"
    <3>1. ctl' = AfterPod(p)
      BY <1>4, <2>3 DEF CtlPod
    <3> QED
      BY <1>1, <2>1, <3>1, AfterPodOK
  <2> QED
    BY <2>2, <2>3
<1>5. CASE CtlCreate
  BY <1>1, <1>5, AfterPodOK DEF CtlCreate, CtlOK
<1>6. CASE AgentStep \/ AgentRestart
  BY <1>2, <1>6 DEF AgentStep, AgentList, AgentPick, AgentObserve, AgentMissing, AgentStart,
                    AgentStartErr, FindErr, AgentPublish, AgentSweep, AgentRestart
<1>7. CASE Heartbeat \/ NodeGone
  BY <1>2, <1>7 DEF Heartbeat, NodeGone
<1>8. ASSUME NEW p \in Pods, Schedule(p) \/ UserApply(p) \/ UserDelete(p)
      PROVE  CtlOK'
  BY <1>2, <1>8 DEF Schedule, UserApply, UserDelete
<1>9. ASSUME NEW e \in NamesOf(engines), NEW n \in Containers, NEW c \in {0, 1},
             ContainerExit(e, n, c)
      PROVE  CtlOK'
  BY <1>2, <1>9 DEF ContainerExit
<1>10. CASE UNCHANGED vars
  BY <1>2, <1>10 DEF vars
<1> QED
  BY <1>3, <1>4, <1>5, <1>6, <1>7, <1>8, <1>9, <1>10 DEF Next, CtlStep

LEMMA RestNext ==
    ASSUME TypeOK, [Next]_vars
    PROVE  RestOK'
<1>1. RestOK /\ MaxOps \in Nat /\ MaxFaults \in Nat
  BY TypeParts, PodLifecycleAssumption
<1>2. ASSUME UNCHANGED <<ready, wanted, ops>>, UNCHANGED faults \/ Fault
      PROVE  RestOK'
  BY <1>1, <1>2 DEF RestOK, Fault
<1>3. CASE AgentStep \/ AgentRestart
  <2>1. CASE AgentList \/ (\E p \in Pods : AgentPick(p)) \/ AgentStart \/ AgentSweep
    BY <1>2, <2>1 DEF AgentList, AgentPick, AgentStart, AgentSweep, counters, node
  <2>2. CASE AgentStartErr
    BY <1>2, <2>2 DEF AgentStartErr, node
  <2>3. CASE AgentPublish \/ AgentRestart
    BY <1>2, <2>3 DEF AgentPublish, AgentRestart, node
  <2>4. ASSUME NEW deaf, Lookup(deaf)
        PROVE  UNCHANGED faults \/ Fault
    BY <2>4 DEF Lookup
  <2>5. CASE AgentObserve \/ AgentMissing \/ FindErr
    <3>1. UNCHANGED faults \/ Fault
      BY <2>4, <2>5 DEF AgentObserve, AgentMissing, FindErr
    <3>2. UNCHANGED <<ready, wanted, ops>>
      BY <2>5 DEF AgentObserve, AgentMissing, FindErr, node
    <3> QED
      BY <1>2, <3>1, <3>2
  <2> QED
    BY <1>3, <2>1, <2>2, <2>3, <2>5 DEF AgentStep
<1>4. CASE CtlStep
  <2>1. CASE CtlList
    BY <1>2, <2>1 DEF CtlList, counters, node
  <2>2. ASSUME NEW p \in Pods, CtlPod(p)
        PROVE  RestOK'
    <3>1. UNCHANGED <<ready, wanted, ops>> /\ (UNCHANGED faults \/ Fault)
      BY <2>2, Zenon DEF CtlPod, node
    <3> QED
      BY <1>2, <3>1
  <2>3. CASE CtlCreate
    <3>1. UNCHANGED <<ready, wanted, ops>> /\ (UNCHANGED faults \/ Fault)
      BY <2>3, Zenon DEF CtlCreate, node
    <3> QED
      BY <1>2, <3>1
  <2> QED
    BY <1>4, <2>1, <2>2, <2>3 DEF CtlStep
<1>5. CASE Heartbeat \/ NodeGone
  <2>1. CASE Heartbeat
    <3>1. ready' \in BOOLEAN /\ UNCHANGED <<wanted, ops, faults>>
      BY <2>1 DEF Heartbeat, counters
    <3> QED
      BY <1>1, <3>1 DEF RestOK
  <2>2. CASE NodeGone
    <3>1. ready' \in BOOLEAN /\ UNCHANGED <<wanted, ops>> /\ Fault
      BY <2>2 DEF NodeGone
    <3> QED
      BY <1>1, <3>1 DEF RestOK, Fault
  <2> QED
    BY <1>5, <2>1, <2>2
<1>6. ASSUME NEW p \in Pods, Schedule(p) \/ UserApply(p) \/ UserDelete(p)
      PROVE  RestOK'
  <2>1. CASE Schedule(p)
    BY <1>2, <2>1 DEF Schedule, counters, node
  <2>2. CASE UserApply(p)
    BY <1>1, <2>2 DEF UserApply, Request, RestOK, node
  <2>3. CASE UserDelete(p)
    BY <1>1, <2>3 DEF UserDelete, Request, RestOK, node
  <2> QED
    BY <1>6, <2>1, <2>2, <2>3
<1>7. ASSUME NEW e \in NamesOf(engines), NEW n \in Containers, NEW c \in {0, 1},
             ContainerExit(e, n, c)
      PROVE  RestOK'
  BY <1>2, <1>7 DEF ContainerExit, node
<1>8. CASE UNCHANGED vars
  BY <1>2, <1>8 DEF vars
<1> QED
  BY <1>3, <1>4, <1>5, <1>6, <1>7, <1>8 DEF Next

-----------------------------------------------------------------------------
(* The engines and what they have.                                         *)

(* No name is used in two engines, but for those a failed lookup hid, ...  *)
OneHome ==
    \A n \in Containers \ missed : \A e, f \in NamesOf(engines) :
        container[<<e, n>>] # "none" /\ container[<<f, n>>] # "none" => e = f

(* ... since the agent creates only where no engine has the name.          *)
Vacant ==
    sync.pc = "create" =>
        Name \in missed \/ \A e \in NamesOf(engines) : container[<<e, Name>>] = "none"

IInv == TypeOK /\ Tracks /\ OneHome /\ Vacant

(* A step after which no engine has a container that it had not before.    *)
LEMMA NoNewContainer ==
    ASSUME OneHome, engines' = engines, missed \subseteq missed',
           \A e \in NamesOf(engines), n \in Containers :
               container'[<<e, n>>] # "none" => container[<<e, n>>] # "none"
    PROVE  OneHome'
BY DEF OneHome

(* A container is made where the agent found none.                         *)
LEMMA MadeOnce ==
    ASSUME NodeOK, SyncOK, OneHome, Vacant, sync.pc = "create",
           engines' = engines, missed' = missed,
           NEW e \in NamesOf(engines), NEW st \in Runtime!States,
           container' = [container EXCEPT ![<<e, Name>>] = st]
    PROVE  /\ OneHome'
           /\ container' \in [EngineNames \X Containers -> Runtime!States]
           /\ \A f \in NamesOf(engines), n \in Containers :
                 f # e \/ n # Name => container'[<<f, n>>] = container[<<f, n>>]
<1>1. Buildable(engines) /\ NamesOf(engines) \subseteq EngineNames /\ Name \in Containers
  BY EnginesBuildable, NameIsContainer DEF OnContainer
<1>2. Name \in missed \/ \A f \in NamesOf(engines) : container[<<f, Name>>] = "none"
  BY DEF Vacant
<1>3. PICK m : m = Name
  OBVIOUS
<1>4. container \in [EngineNames \X Containers -> Runtime!States]
  BY DEF NodeOK
<1>5. /\ container' \in [EngineNames \X Containers -> Runtime!States]
      /\ \A f \in NamesOf(engines), n \in Containers :
            f # e \/ n # m => container'[<<f, n>>] = container[<<f, n>>]
  BY <1>1, <1>3, <1>4
<1>6. OneHome'
  <2> SUFFICES ASSUME NEW n \in Containers \ missed, NEW f \in NamesOf(engines),
                      NEW g \in NamesOf(engines),
                      container'[<<f, n>>] # "none", container'[<<g, n>>] # "none"
               PROVE  f = g
    BY DEF OneHome
  <2>1. CASE n = m
    BY <1>2, <1>3, <1>5, <2>1
  <2>2. CASE n # m
    BY <1>5, <2>2 DEF OneHome
  <2> QED
    BY <2>1, <2>2
<1> QED
  BY <1>3, <1>5, <1>6

(* The agent comes to create a container only from a lookup.               *)
LEMMA OnlyFromLookup ==
    ASSUME SyncOK, AgentStep, ~AgentMissing
    PROVE  sync'.pc # "create"
<1>1. CASE AgentList
  BY <1>1 DEF AgentList, IdleSync
<1>2. ASSUME NEW p \in Pods, AgentPick(p)
      PROVE  sync'.pc = "container"
  BY <1>2 DEF AgentPick, SyncOK, Syncs
<1>3. CASE AgentObserve \/ AgentStartErr
  <2>1. ASSUME NEW r, NEW f, Observed(r, f)
        PROVE  sync'.pc \in {"publish", "container"}
    BY <2>1 DEF Observed, SyncOK, Syncs
  <2> QED
    BY <1>3, <2>1 DEF AgentObserve, AgentStartErr
<1>4. CASE AgentStart
  BY <1>4, StageOK DEF AgentStart, OnContainer
<1>5. CASE FindErr \/ AgentPublish
  BY <1>5 DEF FindErr, AgentPublish, NextPod, IdleSync
<1>6. CASE AgentSweep
  BY <1>6 DEF AgentSweep, IdleSync
<1> QED
  BY <1>1, <1>2, <1>3, <1>4, <1>5, <1>6 DEF AgentStep

(* What each step of the agent does to the engines.                        *)
LEMMA AgentKeeps ==
    ASSUME IInv, AgentStep
    PROVE  NodeOK' /\ OneHome' /\ Tracks' /\ Vacant'
<1>1. NodeOK /\ SyncOK /\ Tracks /\ OneHome /\ Vacant
  BY TypeParts DEF IInv
<1>2. engines' = engines /\ stray' = stray
  BY DEF AgentStep, AgentList, AgentPick, AgentObserve, AgentMissing, AgentStart, AgentStartErr,
         FindErr, AgentPublish, AgentSweep, node, history
<1>3. Buildable(engines) /\ NamesOf(engines) \subseteq EngineNames
  BY <1>1, EnginesBuildable
<1>4. AgentMissing \/ Vacant'
  BY <1>1, OnlyFromLookup DEF Vacant
<1>5. ASSUME UNCHANGED <<container, code, tracked, missed>>,
             \/ sync.pc # "created"
             \/ \A e \in Removing : container[<<e, Name>>] = "none"
      PROVE  NodeOK' /\ OneHome' /\ Tracks'
  <2>1. NodeOK' /\ OneHome'
    BY <1>1, <1>2, <1>5 DEF NodeOK, OneHome
  <2>2. Tracks'
    BY <1>1, <1>2, <1>5 DEF Tracks, Removing
  <2> QED
    BY <2>1, <2>2
<1>6. CASE AgentList \/ AgentPublish \/ \E p \in Pods : AgentPick(p)
  BY <1>4, <1>5, <1>6 DEF AgentList, AgentPick, AgentPublish, AgentMissing, history
<1>7. CASE FindErr
  <2>1. \A e \in Removing : container[<<e, Name>>] = "none"
    <3>1. CASE engines[1].shaky
      BY <1>3, <3>1, RemovingEngine DEF Removing
    <3>2. ASSUME NEW deaf \in Deaf(engines), Here(deaf) = {}, NEW e \in Removing
          PROVE  container[<<e, Name>>] = "none"
      <4>1. e \in NamesOf(engines) \ deaf
        BY <1>3, RemovingAnswers DEF Removing
      <4> QED
        BY <1>3, <3>2, <4>1, FoundIfAny DEF Here
    <3> QED
      BY <1>7, <3>1, <3>2 DEF FindErr
  <2>2. Vacant'
    BY <1>7, <1>1, NextPodOK DEF FindErr, OnContainer, Vacant
  <2> QED
    BY <1>5, <1>7, <2>1, <2>2 DEF FindErr, history
<1>8. CASE AgentObserve
  <2>1. /\ sync.pc \in OnContainer /\ UNCHANGED <<container, code, missed>>
        /\ tracked' = tracked \cup {<<sync.pod, Name>>}
    BY <1>8 DEF AgentObserve, OnContainer, history
  <2>2. Name \in Containers /\ sync.pod \in Pods
    BY <1>1, <2>1, NameIsContainer DEF SyncOK
  <2>3. PICK m : m = Name
    OBVIOUS
  <2>4. NodeOK' /\ OneHome'
    BY <1>1, <1>2, <2>1, <2>2 DEF NodeOK, OneHome
  <2>5. \A n \in Containers :
           (\E p \in Pods : <<p, n>> \in tracked) \/ m = n
           => \E p \in Pods : <<p, n>> \in tracked'
    BY <2>1, <2>2, <2>3
  <2>6. Tracks'
    BY <1>1, <1>2, <2>1, <2>3, <2>5 DEF Tracks, Removing
  <2>7. Vacant'
    <3>1. ASSUME NEW r, NEW f, Observed(r, f)
          PROVE  sync'.pc \in {"publish", "container"}
      BY <1>1, <3>1 DEF Observed, SyncOK, Syncs
    <3> QED
      BY <1>8, <3>1 DEF AgentObserve, Vacant
  <2> QED
    BY <2>4, <2>6, <2>7
<1>9. CASE AgentMissing
  <2>1. /\ sync.pc = "container" /\ UNCHANGED <<container, code, tracked>>
        /\ missed' = IF Here({}) = {} THEN missed ELSE missed \cup {Name}
        /\ sync' = [sync EXCEPT !.pc = "create"]
    BY <1>9 DEF AgentMissing
  <2>2. Name \in Containers
    BY <1>1, <2>1, NameIsContainer DEF OnContainer
  <2>3. NodeOK'
    BY <1>1, <1>2, <2>1, <2>2 DEF NodeOK
  <2>4. missed \subseteq missed'
    BY <2>1
  <2>5. OneHome'
    BY <1>1, <1>2, <2>1, <2>4, NoNewContainer
  <2>6. Tracks'
    BY <1>1, <1>2, <2>1 DEF Tracks, Removing
  <2>7. Name' = Name
    BY <1>1, <2>1, StageOK DEF OnContainer
  <2>8. Name \in missed' \/ \A e \in NamesOf(engines) : container[<<e, Name>>] = "none"
    BY <1>3, <2>1, FoundIfAny DEF Here
  <2>9. Vacant'
    BY <1>2, <2>1, <2>7, <2>8 DEF Vacant
  <2> QED
    BY <2>3, <2>5, <2>6, <2>9
<1>10. CASE AgentStart
  <2>1. PICK e \in Chosen : Runtime!Start(<<e, Name>>)
    BY <1>10 DEF AgentStart
  <2>2. e \in NamesOf(engines)
    BY DEF Chosen, ForClass
  <2>3. /\ sync.pc = "create" /\ UNCHANGED <<code, tracked, missed>>
        /\ container' = [container EXCEPT ![<<e, Name>>] = "running"]
    BY <1>10, <2>1 DEF AgentStart, Runtime!Start, history
  <2>4. sync'.pc = "created" /\ Name' = Name
    BY <1>1, <1>10, StageOK DEF AgentStart, OnContainer
  <2>5. PICK st \in Runtime!States : st = "running"
    BY DEF Runtime!States
  <2>6. /\ OneHome'
        /\ container' \in [EngineNames \X Containers -> Runtime!States]
        /\ \A f \in NamesOf(engines), n \in Containers :
              f # e \/ n # Name => container'[<<f, n>>] = container[<<f, n>>]
    BY <1>1, <1>2, <2>2, <2>3, <2>5, MadeOnce
  <2>7. NodeOK'
    BY <1>1, <1>2, <2>3, <2>6 DEF NodeOK
  <2>8. Tracks'
    <3> SUFFICES ASSUME NEW f \in Removing, NEW n \in Containers,
                        container'[<<f, n>>] # "none", n # Name
                 PROVE  \E p \in Pods : <<p, n>> \in tracked
      BY <1>2, <2>3, <2>4 DEF Tracks, Removing
    <3>1. container[<<f, n>>] # "none"
      BY <2>6 DEF Removing
    <3> QED
      BY <1>1, <2>3, <3>1 DEF Tracks
  <2>9. Vacant'
    BY <2>4 DEF Vacant
  <2> QED
    BY <2>6, <2>7, <2>8, <2>9
<1>11. CASE AgentStartErr
  <2>1. sync.pc = "create" /\ UNCHANGED <<tracked, missed>>
    BY <1>11 DEF AgentStartErr, history
  <2>2. Vacant'
    <3>1. sync'.pc \in {"publish", "container"}
      BY <1>1, <1>11 DEF AgentStartErr, Observed, SyncOK, Syncs
    <3> QED
      BY <3>1 DEF Vacant
  <2>3. CASE UNCHANGED <<container, code>>
    BY <1>5, <2>1, <2>2, <2>3
  <2>4. ASSUME NEW e \in Chosen, The(engines, e).shaky,
               container' = [container EXCEPT ![<<e, Name>>] = "exited"],
               code' = [code EXCEPT ![<<e, Name>>] = 0]
        PROVE  NodeOK' /\ OneHome' /\ Tracks'
    <3>1. e \in NamesOf(engines)
      BY <2>4 DEF Chosen, ForClass
    <3>2. PICK st \in Runtime!States : st = "exited"
      BY DEF Runtime!States
    <3>3. /\ OneHome'
          /\ container' \in [EngineNames \X Containers -> Runtime!States]
          /\ \A f \in NamesOf(engines), n \in Containers :
                f # e \/ n # Name => container'[<<f, n>>] = container[<<f, n>>]
      BY <1>1, <1>2, <2>1, <2>4, <3>1, <3>2, MadeOnce
    <3>4. code' \in [EngineNames \X Containers -> {0, 1}]
      BY <1>1, <2>4 DEF NodeOK
    <3>5. NodeOK'
      BY <1>1, <1>2, <2>1, <3>3, <3>4 DEF NodeOK
    <3>6. e \notin Removing
      BY <1>3, <2>4, RemovingEngine DEF Removing
    <3>7. Tracks'
      <4> SUFFICES ASSUME NEW f \in Removing, NEW n \in Containers,
                          container'[<<f, n>>] # "none"
                   PROVE  \E p \in Pods : <<p, n>> \in tracked
        BY <1>2, <2>1 DEF Tracks, Removing
      <4>1. f # e /\ f \in NamesOf(engines)
        BY <3>6 DEF Removing
      <4>2. container[<<f, n>>] # "none"
        BY <3>3, <4>1
      <4> QED
        BY <1>1, <2>1, <4>2 DEF Tracks
    <3> QED
      BY <3>3, <3>5, <3>7
  <2> QED
    BY <1>11, <2>2, <2>3, <2>4 DEF AgentStartErr
<1>12. CASE AgentSweep
  <2> DEFINE orphans == {t \in tracked : t[1] \notin DOMAIN sync.desired}
             names == {t[2] : t \in orphans}
  <2>1. /\ sync.pc = "sweep" /\ UNCHANGED <<code, missed>>
        /\ container' = Removed(engines, container, names)
        /\ tracked' = tracked \ orphans /\ sync' = IdleSync
    BY <1>12 DEF AgentSweep, history
  <2>2. container \in [EngineNames \X Containers -> Runtime!States]
    BY <1>1 DEF NodeOK
  <2>3. \A e \in EngineNames, n \in Containers :
           container'[<<e, n>>] =
             IF n \in names /\ e \in NamesOf(engines) /\ The(engines, e).removes
             THEN "none" ELSE container[<<e, n>>]
    <3> HIDE DEF names
    <3> QED
      BY <2>1, <2>2 DEF Removed
  <2>4. container' \in [EngineNames \X Containers -> Runtime!States]
    <3> HIDE DEF names
    <3>1. "none" \in Runtime!States
      BY DEF Runtime!States
    <3> QED
      BY <2>1, <2>2, <3>1 DEF Removed
  <2>5. NodeOK'
    BY <1>1, <1>2, <2>1, <2>4 DEF NodeOK
  <2>6. OneHome'
    BY <1>1, <1>2, <1>3, <2>1, <2>3, NoNewContainer
  <2>7. Tracks'
    <3> SUFFICES ASSUME NEW e \in Removing, NEW n \in Containers,
                        container'[<<e, n>>] # "none"
                 PROVE  \E p \in Pods : <<p, n>> \in tracked'
      BY <1>2 DEF Tracks, Removing
    <3>1. e \in NamesOf(engines) /\ The(engines, e).removes
      BY DEF Removing
    <3>2. n \notin names /\ container[<<e, n>>] # "none"
      BY <1>3, <2>3, <3>1
    <3>3. PICK p \in Pods : <<p, n>> \in tracked
      BY <1>1, <2>1, <3>2 DEF Tracks
    <3>4. <<p, n>> \notin orphans
      BY <3>2
    <3> QED
      BY <2>1, <3>3, <3>4
  <2>8. Vacant'
    BY <2>1 DEF Vacant, IdleSync
  <2> QED
    BY <2>5, <2>6, <2>7, <2>8
<1> QED
  BY <1>6, <1>7, <1>8, <1>9, <1>10, <1>11, <1>12 DEF AgentStep

LEMMA RestartKeeps ==
    ASSUME IInv, AgentRestart
    PROVE  NodeOK' /\ OneHome' /\ Tracks' /\ Vacant'
<1>1. NodeOK /\ OneHome
  BY TypeParts DEF IInv
<1>2. /\ engines' = engines /\ UNCHANGED <<code, missed>> /\ tracked' = {}
      /\ container' = Restarted(engines, container) /\ sync' = IdleSync
      /\ stray' = stray \cup Outliving(engines, container)
  BY DEF AgentRestart, node
<1>3. Buildable(engines) /\ NamesOf(engines) \subseteq EngineNames
  BY <1>1, EnginesBuildable
<1>4. container \in [EngineNames \X Containers -> Runtime!States]
  BY <1>1 DEF NodeOK
<1>5. \A e \in EngineNames, n \in Containers :
         container'[<<e, n>>] = IF e \in NamesOf(engines) /\ The(engines, e).knows
                                THEN container[<<e, n>>] ELSE "none"
  BY <1>2, <1>4 DEF Restarted
<1>6. container' \in [EngineNames \X Containers -> Runtime!States]
  <2>1. "none" \in Runtime!States
    BY DEF Runtime!States
  <2> QED
    BY <1>2, <1>4, <2>1 DEF Restarted
<1>7. stray' \subseteq Containers
  <2>1. Outliving(engines, container) \subseteq Containers
    BY <1>4 DEF Outliving
  <2> QED
    BY <1>1, <1>2, <2>1 DEF NodeOK
<1>8. NodeOK'
  BY <1>1, <1>2, <1>6, <1>7 DEF NodeOK
<1>9. OneHome'
  BY <1>1, <1>2, <1>3, <1>5, NoNewContainer
<1>10. Tracks'
  <2> SUFFICES ASSUME NEW e \in Removing, NEW n \in Containers
               PROVE  container'[<<e, n>>] = "none"
    BY <1>2 DEF Tracks, Removing
  <2>1. e \in NamesOf(engines) /\ ~The(engines, e).knows
    BY <1>3, RemovingEngine DEF Removing
  <2> QED
    BY <1>3, <1>5, <2>1
<1>11. Vacant'
  BY <1>2 DEF Vacant, IdleSync
<1> QED
  BY <1>8, <1>9, <1>10, <1>11

LEMMA ExitKeeps ==
    ASSUME IInv, NEW e \in NamesOf(engines), NEW n \in Containers, NEW c \in {0, 1},
           ContainerExit(e, n, c)
    PROVE  NodeOK' /\ OneHome' /\ Tracks' /\ Vacant'
<1>1. NodeOK /\ SyncOK /\ OneHome /\ Tracks /\ Vacant
  BY TypeParts DEF IInv
<1>2. /\ engines' = engines /\ UNCHANGED <<tracked, missed, stray, sync>>
      /\ container[<<e, n>>] = "running"
      /\ container' = [container EXCEPT ![<<e, n>>] = "exited"]
      /\ code' = [code EXCEPT ![<<e, n>>] = c]
  BY DEF ContainerExit, node, history, Runtime!Exit
<1>3. NamesOf(engines) \subseteq EngineNames
  BY <1>1, EnginesBuildable
<1>4. /\ container \in [EngineNames \X Containers -> Runtime!States]
      /\ code \in [EngineNames \X Containers -> {0, 1}]
  BY <1>1 DEF NodeOK
<1>5. /\ container' \in [EngineNames \X Containers -> Runtime!States]
      /\ code' \in [EngineNames \X Containers -> {0, 1}]
  BY <1>2, <1>4 DEF Runtime!States
<1>6. \A f \in NamesOf(engines), m \in Containers :
         container'[<<f, m>>] # "none" => container[<<f, m>>] # "none"
  BY <1>2, <1>3, <1>4
<1>7. NodeOK'
  BY <1>1, <1>2, <1>5 DEF NodeOK
<1>8. OneHome'
  BY <1>1, <1>2, <1>6, NoNewContainer
<1>9. Tracks'
  BY <1>1, <1>2, <1>6 DEF Tracks, Removing, Name
<1>10. Vacant'
  <2>1. sync.pc = "create" => Name \in Containers
    BY <1>1, NameIsContainer DEF OnContainer
  <2>2. Name' = Name
    BY <1>2 DEF Name
  <2> QED
    BY <1>1, <1>2, <1>6, <2>1, <2>2 DEF Vacant
<1> QED
  BY <1>7, <1>8, <1>9, <1>10

(* The other processes touch neither the engines nor the agent's memory.   *)
LEMMA OthersKeep ==
    ASSUME IInv, UNCHANGED <<engines, container, code, tracked, missed, stray, sync>>
    PROVE  NodeOK' /\ OneHome' /\ Tracks' /\ Vacant'
<1>1. NodeOK /\ OneHome /\ Tracks /\ Vacant
  BY TypeParts DEF IInv
<1> QED
  BY <1>1 DEF NodeOK, OneHome, Tracks, Vacant, Removing, Name

LEMMA NextInv ==
    ASSUME IInv, [Next]_vars
    PROVE  IInv'
<1>1. TypeOK
  BY DEF IInv
<1>2. TableOK' /\ SyncOK' /\ CtlOK' /\ RestOK'
  BY <1>1, TableNext, SyncNext, CtlNext, RestNext
<1>3. NodeOK' /\ OneHome' /\ Tracks' /\ Vacant'
  <2>1. CASE AgentStep
    BY <2>1, AgentKeeps
  <2>2. CASE AgentRestart
    BY <2>2, RestartKeeps
  <2>3. CASE Heartbeat \/ CtlStep \/ NodeGone
    BY <2>3, OthersKeep DEF Heartbeat, CtlStep, CtlList, CtlPod, CtlCreate, NodeGone,
                            agentVars, history, node
  <2>4. ASSUME NEW p \in Pods, Schedule(p) \/ UserApply(p) \/ UserDelete(p)
        PROVE  NodeOK' /\ OneHome' /\ Tracks' /\ Vacant'
    BY <2>4, OthersKeep DEF Schedule, UserApply, UserDelete, agentVars, history, node
  <2>5. ASSUME NEW e \in NamesOf(engines), NEW n \in Containers, NEW c \in {0, 1},
               ContainerExit(e, n, c)
        PROVE  NodeOK' /\ OneHome' /\ Tracks' /\ Vacant'
    BY <2>5, ExitKeeps
  <2>6. CASE UNCHANGED vars
    BY <2>6, OthersKeep DEF vars
  <2> QED
    BY <2>1, <2>2, <2>3, <2>4, <2>5, <2>6 DEF Next
<1>4. TypeOK'
  BY <1>2, <1>3, TypeParts, PTL
<1> QED
  BY <1>3, <1>4 DEF IInv

LEMMA InitInv ==
    Init => IInv
<1> SUFFICES ASSUME Init PROVE IInv
  OBVIOUS
<1>1. container = [c \in EngineNames \X Containers |-> "none"]
  BY DEF Init, Runtime!Init
<1>2. engines \in Nodes /\ NamesOf(engines) \subseteq EngineNames
  BY DEF Init, EngineNames
<1>3. NodeOK
  BY <1>1, <1>2 DEF Init, NodeOK, Runtime!States
<1>4. TableOK
  BY DEF Init, NoPods, TableOK
<1>5. SyncOK
  BY IdleSyncOK DEF Init, SyncOK, OnContainer
<1>6. CtlOK
  <2>1. NoPods \in [{} -> [op : {"mark", "respin"}, class : AnyClass]]
    BY DEF NoPods
  <2>2. NoPods \in Plans
    BY <2>1 DEF Plans
  <2>3. IdleCtl \in Ctls /\ IdleCtl.pc = "idle"
    BY <2>2 DEF IdleCtl, Ctls
  <2> QED
    BY <2>3 DEF Init, CtlOK
<1>7. RestOK
  BY PodLifecycleAssumption DEF Init, RestOK
<1>8. \A e \in NamesOf(engines), n \in Containers : container[<<e, n>>] = "none"
  BY <1>1, <1>2
<1>9. OneHome /\ Tracks
  BY <1>8 DEF OneHome, Tracks, Removing
<1>10. Vacant
  BY DEF Init, IdleSync, Vacant
<1> QED
  BY <1>3, <1>4, <1>5, <1>6, <1>7, <1>9, <1>10, TypeParts DEF IInv

LEMMA AlwaysInv ==
    Spec => []IInv
<1>1. IInv /\ [Next]_vars => IInv'
  BY NextInv
<1> QED
  BY <1>1, InitInv, PTL DEF Spec

(* Type correctness of the table and of the agent's and the controller's   *)
(* memories: among others, a sync is always at a container of its pod, and *)
(* the controller creates only a pod that it has planned to.               *)
THEOREM PodLifecycleTypeCorrect == Spec => []TypeOK
<1>1. IInv => TypeOK
  BY DEF IInv
<1> QED
  BY <1>1, AlwaysInv, PTL

(***************************************************************************)
(* No container of an engine that removes escapes the agent's map          *)
(* (agent.rs:366-377, 263-284), whatever starts, fails to start, fails to  *)
(* be looked up or is swept, but for the processes that a restart of the   *)
(* agent has left without an engine (embedded.rs:23-26).                   *)
(***************************************************************************)
THEOREM AgentTracks == Spec => []Tracks
<1>1. IInv => Tracks
  BY DEF IInv
<1> QED
  BY <1>1, AlwaysInv, PTL

(***************************************************************************)
(* A container name is never used in two engines (agent.rs:315-341,        *)
(* mod.rs:257-270), also when the class of a pod changes, unless a failed  *)
(* lookup in a peer has hidden the container of that name (mod.rs:266).    *)
(***************************************************************************)
THEOREM AgentNeverTwice == Spec => []NeverTwice
<1>1. OneHome => NeverTwice
  <2> SUFFICES ASSUME OneHome, NEW n \in Containers \ missed
               PROVE  Cardinality({e \in NamesOf(engines) : container[<<e, n>>] # "none"}) <= 1
    BY DEF NeverTwice
  <2> DEFINE S == {e \in NamesOf(engines) : container[<<e, n>>] # "none"}
  <2>1. \A e, f \in S : e = f
    BY DEF OneHome
  <2>2. ASSUME S = {}
        PROVE  Cardinality(S) = 0
    <3> HIDE DEF S
    <3> QED
      BY <2>2, FS_EmptySet
  <2>3. ASSUME NEW e \in S
        PROVE  Cardinality(S) = 1
    <3>1. S = {e}
      BY <2>1, <2>3
    <3> HIDE DEF S
    <3> QED
      BY <3>1, FS_Singleton
  <2> HIDE DEF S
  <2>4. Cardinality(S) = 0 \/ Cardinality(S) = 1
    BY <2>2, <2>3
  <2>5. Cardinality(S) <= 1
    BY <2>4
  <2> QED
    BY <2>5 DEF S
<1>2. IInv => NeverTwice
  BY <1>1 DEF IInv
<1> QED
  BY <1>2, AlwaysInv, PTL
=============================================================================
