-------------------------- MODULE StatefulSetProofs --------------------------
(***************************************************************************)
(* Proofs about the statefulset controller, for every number of masters,   *)
(* of replicas, of requests and of failures.                               *)
(***************************************************************************)
EXTENDS StatefulSet, FiniteSetTheorems, TLAPS

(***************************************************************************)
(* What holds as long as the run is calm.  No request is deleting; one     *)
(* worker at most is busy; the set and the copies of it ask for            *)
(* OrderedReady and for a count from which a scale-down reaches every      *)
(* index; the pods are a prefix of the indices and at most one of them is  *)
(* starting; a pass that walks has only running pods behind it, one that   *)
(* creates has none at its index, and one that trims has none above.       *)
(***************************************************************************)
OneBusy == \A v, w \in Workers : worker[v].pc # "idle" /\ worker[w].pc # "idle" => v = w
Tame(s) == ~s.parallel /\ s.replicas + Cap >= MaxReplicas
AllTame ==
    /\ set.exists => Tame(set)
    /\ \A w \in Workers : worker[w].pc # "idle" => Tame(worker[w].set)
IsPrefix == \A i \in DOMAIN pods : \A j \in 0 .. i : j \in DOMAIN pods
OneStarting == \A i, j \in DOMAIN pods : ~Running(i) /\ ~Running(j) => i = j
Orderly(pass) ==
    /\ pass.pc \in {"walk", "create"} =>
           \A j \in 0 .. pass.at - 1 : j \in DOMAIN pods /\ Running(j)
    /\ pass.pc = "create" => pass.at \notin DOMAIN pods
    /\ pass.pc = "trim" => \A i \in DOMAIN pods : i <= pass.at
CalmParts ==
    /\ api.pc = "idle" /\ OneBusy /\ AllTame /\ IsPrefix /\ OneStarting
    /\ \A w \in Workers : Orderly(worker[w])
CalmInv == calm => CalmParts

LEMMA IdleTyped == /\ NoSet \in Sets /\ Idle \in Passes /\ OnTrack(Idle)
                   /\ Idle.pc = "idle" /\ NewPod \in Rows
                   /\ NewPod.phase = "Pending"
  BY StatefulSetAssumption DEF NoSet, Idle, NewPod, Passes, Sets, Rows, OnTrack, Phases

LEMMA PassParts ==
    ASSUME NEW r \in Passes
    PROVE  /\ r.set \in Sets /\ r.set.replicas \in Nat /\ r.set.replicas <= MaxReplicas
           /\ r.at \in Int /\ r.ready \in Nat /\ r.current \in Nat
           /\ r.set.parallel \in BOOLEAN
  BY StatefulSetAssumption DEF Passes, Sets

(* Trim, Walk and Onward only move a pass.                                 *)
LEMMA TrimMoves ==
    ASSUME NEW r \in Passes, r.ready <= r.current, r.current <= r.set.replicas
    PROVE  /\ Trim(r) \in Passes /\ OnTrack(Trim(r))
           /\ Trim(r).set = r.set
           /\ Trim(r).pc = "trim" /\ Trim(r).at = r.set.replicas + Cap - 1
<1>1. r.set.replicas + Cap - 1 \in Int /\ r.set.replicas + Cap - 1 >= r.set.replicas
  BY PassParts, StatefulSetAssumption
<1> DEFINE a == r.set.replicas + Cap - 1
<1>2. Trim(r) = [r EXCEPT !.pc = "trim", !.at = a]
  BY DEF Trim
<1> HIDE DEF a
<1>3. /\ Trim(r) \in Passes /\ Trim(r).set = r.set
      /\ Trim(r).pc = "trim" /\ Trim(r).at = a /\ Trim(r).ready = r.ready
      /\ Trim(r).current = r.current
  BY <1>1, <1>2 DEF Passes, a
<1> QED
  BY <1>1, <1>3 DEF OnTrack, a

LEMMA WalkMoves ==
    ASSUME NEW r \in Passes, NEW i \in Nat, r.ready <= r.current, r.current <= i,
           i <= r.set.replicas
    PROVE  /\ Walk(r, i) \in Passes /\ OnTrack(Walk(r, i))
           /\ Walk(r, i).set = r.set
           /\ \/ Walk(r, i).pc = "walk" /\ Walk(r, i).at = i
              \/ Walk(r, i).pc = "trim" /\ Walk(r, i).at = r.set.replicas + Cap - 1
<1>1. CASE i < r.set.replicas
  <2>1. Walk(r, i) = [r EXCEPT !.pc = "walk", !.at = i]
    BY <1>1 DEF Walk
  <2>3. i \in Int
    OBVIOUS
  <2>2. /\ Walk(r, i) \in Passes /\ Walk(r, i).set = r.set
        /\ Walk(r, i).pc = "walk" /\ Walk(r, i).at = i /\ Walk(r, i).ready = r.ready
        /\ Walk(r, i).current = r.current
    BY <2>1, <2>3 DEF Passes
  <2> QED
    BY <1>1, <2>2, PassParts DEF OnTrack
<1>2. CASE ~(i < r.set.replicas)
  <2>1. Walk(r, i) = Trim(r)
    BY <1>2 DEF Walk
  <2>2. r.current <= r.set.replicas
    BY PassParts
  <2> QED
    BY <2>1, <2>2, TrimMoves
<1> QED
  BY <1>1, <1>2

LEMMA OnwardMoves ==
    ASSUME NEW r \in Passes, r.ready <= r.current, r.at \in Nat, r.current <= r.at + 1,
           r.at < r.set.replicas
    PROVE  /\ Onward(r) \in Passes /\ OnTrack(Onward(r))
           /\ Onward(r).set = r.set
           /\ \/ Onward(r).pc = "walk" /\ Onward(r).at = r.at + 1 /\ r.set.parallel
              \/ Onward(r).pc = "trim" /\ Onward(r).at = r.set.replicas + Cap - 1
<1>1. r.at + 1 \in Nat /\ r.at + 1 <= r.set.replicas /\ r.current <= r.set.replicas
  BY PassParts
<1>2. CASE r.set.parallel
  BY <1>1, <1>2, WalkMoves DEF Onward
<1>3. CASE ~r.set.parallel
  BY <1>1, <1>3, TrimMoves DEF Onward
<1> QED
  BY <1>2, <1>3

(* What the get of the walk finds decides where the pass goes.             *)
LEMMA VisitedMoves ==
    ASSUME NEW r \in Passes, OnTrack(r), r.pc = "walk"
    PROVE  /\ Visited(r) \in Passes /\ OnTrack(Visited(r))
           /\ Visited(r).set = r.set
           /\ \/ /\ Visited(r).pc = "create" /\ Visited(r).at = r.at
                 /\ r.at \notin DOMAIN pods
              \/ /\ Visited(r).pc = "walk" /\ Visited(r).at = r.at + 1
                 /\ r.at \in DOMAIN pods /\ (Running(r.at) \/ r.set.parallel)
              \/ Visited(r).pc = "trim" /\ Visited(r).at = r.set.replicas + Cap - 1
<1> DEFINE seen == [r EXCEPT !.current = @ + 1]
           up == [seen EXCEPT !.ready = @ + 1]
<1>0. /\ r.at \in Nat /\ r.at < r.set.replicas /\ r.ready <= r.current /\ r.current <= r.at
      /\ r.current + 1 \in 0 .. MaxReplicas /\ r.ready + 1 \in 0 .. MaxReplicas
      /\ r.ready <= r.current + 1 /\ r.ready + 1 <= r.current + 1 /\ r.current + 1 <= r.at + 1
      /\ r.at + 1 \in Nat /\ r.at + 1 <= r.set.replicas
  <2>1. r.ready <= r.current /\ r.current <= r.at /\ r.at < r.set.replicas
    BY DEF OnTrack
  <2> QED
    BY <2>1, PassParts, StatefulSetAssumption
<1>1. /\ seen \in Passes /\ seen.set = r.set /\ seen.at = r.at
      /\ seen.ready = r.ready /\ seen.current = r.current + 1
  BY <1>0 DEF Passes
<1>2. /\ up \in Passes /\ up.set = r.set /\ up.at = r.at
      /\ up.ready = r.ready + 1 /\ up.current = r.current + 1
  BY <1>0, <1>1 DEF Passes
<1>3. CASE r.at \notin DOMAIN pods
  <2> DEFINE c == [r EXCEPT !.pc = "create"]
  <2>1. Visited(r) = c
    BY <1>3 DEF Visited
  <2>2. /\ c \in Passes /\ c.set = r.set /\ c.at = r.at
        /\ c.ready = r.ready /\ c.current = r.current /\ c.pc = "create"
    BY DEF Passes
  <2> HIDE DEF c
  <2>3. OnTrack(c)
    BY <2>2 DEF OnTrack
  <2> QED
    BY <1>3, <2>1, <2>2, <2>3
<1>4. CASE r.at \in DOMAIN pods /\ Running(r.at)
  <2>1. Visited(r) = Walk(up, r.at + 1)
    BY <1>4 DEF Visited
  <2> HIDE DEF up
  <2> QED
    BY <1>0, <1>2, <1>4, <2>1, WalkMoves
<1>5. CASE r.at \in DOMAIN pods /\ ~Running(r.at)
  <2>1. Visited(r) = Onward(seen)
    BY <1>5 DEF Visited
  <2> HIDE DEF seen
  <2> QED
    BY <1>0, <1>1, <1>5, <2>1, OnwardMoves
<1> QED
  BY <1>3, <1>4, <1>5

(* A report changes no name in the table and moves one pod's phase.        *)
LEMMA ReportKeeps ==
    ASSUME TypeOK, NEW q \in DOMAIN pods, NEW phase \in Phases,
           pods' = UpdateStatus(pods, q, phase, TRUE)
    PROVE  /\ DOMAIN pods' = DOMAIN pods
           /\ \A p \in DOMAIN pods : /\ pods'[p] \in Rows
                                     /\ p # q => pods'[p] = pods[p]
           /\ pods'[q].phase = phase
<1>1. ASSUME NEW r \in Rows
      PROVE  LET s == [[r EXCEPT !.phase = phase] EXCEPT !.ip = TRUE]
             IN  s \in Rows /\ s.phase = phase
  BY DEF Rows
<1>2. pods' = [pods EXCEPT ![q] = [[pods[q] EXCEPT !.phase = phase] EXCEPT !.ip = TRUE]]
  BY DEF UpdateStatus
<1>3. \A p \in DOMAIN pods : pods[p] \in Rows
  BY DEF TypeOK
<1> QED
  BY <1>1, <1>2, <1>3

LEMMA RemoveKeeps ==
    ASSUME NEW q, pods' = Remove(pods, q)
    PROVE  /\ DOMAIN pods' = DOMAIN pods \ {q}
           /\ \A p \in DOMAIN pods' : p \in DOMAIN pods /\ pods'[p] = pods[p]
  BY DEF Remove

(* An upsert leaves the new row at its index, be it over an old one.       *)
LEMMA UpsertKeeps ==
    ASSUME TypeOK, NEW a \in Indices, NEW phase \in Phases,
           pods' = Upsert(pods, a, [NewPod EXCEPT !.phase = phase])
    PROVE  /\ DOMAIN pods' = DOMAIN pods \cup {a}
           /\ \A p \in DOMAIN pods \ {a} : pods'[p] = pods[p]
           /\ pods'[a] \in Rows
           /\ DOMAIN pods' \subseteq Indices /\ \A p \in DOMAIN pods' : pods'[p] \in Rows
<1> DEFINE new == [NewPod EXCEPT !.phase = phase]
<1>0. DOMAIN pods \subseteq Indices /\ \A p \in DOMAIN pods : pods[p] \in Rows
  BY DEF TypeOK
<1>1. new \in Rows
  BY IdleTyped DEF Rows
<1>2. ASSUME a \in DOMAIN pods
      PROVE  [new EXCEPT !.uid = pods[a].uid, !.created = pods[a].created] \in Rows
  BY <1>0, <1>1, <1>2 DEF Rows
<1> HIDE DEF new
<1>3. /\ DOMAIN pods' = DOMAIN pods \cup {a}
      /\ \A p \in DOMAIN pods \ {a} : pods'[p] = pods[p]
      /\ pods'[a] = IF a \in DOMAIN pods
                    THEN [new EXCEPT !.uid = pods[a].uid, !.created = pods[a].created]
                    ELSE new
  BY DEF Upsert, new
<1>4. pods'[a] \in Rows
  BY <1>1, <1>2, <1>3
<1> QED
  BY <1>0, <1>3, <1>4

LEMMA CreateAdds ==
    ASSUME TypeOK, NEW w \in Workers, CreatePod(w)
    PROVE  /\ worker[w].at \in Indices
           /\ DOMAIN pods' = DOMAIN pods \cup {worker[w].at}
           /\ \A p \in DOMAIN pods \ {worker[w].at} : pods'[p] = pods[p]
           /\ pods'[worker[w].at] \in Rows
<1>1. worker[w] \in Passes /\ OnTrack(worker[w]) /\ worker[w].pc = "create"
  BY DEF TypeOK, CreatePod
<1>2. worker[w].at \in Indices
  BY <1>1, PassParts, StatefulSetAssumption DEF OnTrack, Indices
<1>3. pods' = Upsert(pods, worker[w].at, [NewPod EXCEPT !.phase = "Pending"])
  BY DEF CreatePod, NewPod
<1> QED
  BY <1>2, <1>3, UpsertKeeps DEF Phases

(* A step of a worker that puts a pass of the right kind in its place.     *)
LEMMA WorkerTyped ==
    ASSUME TypeOK, NEW w \in Workers, NEW r \in Passes, OnTrack(r),
           worker' = [worker EXCEPT ![w] = r]
    PROVE  /\ worker' \in [Workers -> Passes]
           /\ \A v \in Workers : OnTrack(worker'[v])
           /\ worker'[w] = r /\ \A v \in Workers \ {w} : worker'[v] = worker[v]
  BY DEF TypeOK

(* What a step of worker w makes of its own pass, the first list aside.    *)
LEMMA PassOf ==
    ASSUME TypeOK, NEW w \in Workers,
           GetPod(w) \/ GetPodErr(w) \/ CreatePod(w) \/ CreatePodErr(w) \/ TrimPod(w)
             \/ UpdateSetStatus(w)
    PROVE  /\ worker' \in [Workers -> Passes]
           /\ \A v \in Workers : OnTrack(worker'[v])
           /\ \A v \in Workers \ {w} : worker'[v] = worker[v]
           /\ worker[w].pc # "idle"
<1> DEFINE r == worker[w]
<1>0. r \in Passes /\ OnTrack(r) /\ worker \in [Workers -> Passes]
  BY DEF TypeOK
<1>1. CASE GetPod(w)
  <2>1. worker' = [worker EXCEPT ![w] = Visited(r)] /\ r.pc = "walk"
    BY <1>1 DEF GetPod
  <2> HIDE DEF r
  <2> QED
    BY <1>0, <2>1, VisitedMoves, WorkerTyped DEF r
<1>2. CASE GetPodErr(w)
  <2> DEFINE s == [r EXCEPT !.pc = "create"]
  <2>1. worker' = [worker EXCEPT ![w] = s] /\ r.pc = "walk"
    BY <1>0, <1>2 DEF GetPodErr
  <2>2. /\ s \in Passes /\ s.pc = "create" /\ s.at = r.at /\ s.set = r.set
        /\ s.ready = r.ready /\ s.current = r.current
    BY <1>0 DEF Passes
  <2> HIDE DEF s
  <2>3. OnTrack(s)
    BY <1>0, <2>1, <2>2 DEF OnTrack
  <2> QED
    BY <2>1, <2>2, <2>3, WorkerTyped
<1>3. CASE CreatePod(w)
  <2>1. worker' = [worker EXCEPT ![w] = Onward(r)] /\ r.pc = "create"
    BY <1>3 DEF CreatePod
  <2>2. r.ready <= r.current /\ r.at \in Nat /\ r.current <= r.at + 1 /\ r.at < r.set.replicas
    <3>1. r.ready <= r.current /\ r.current <= r.at /\ r.at < r.set.replicas
      BY <1>0, <2>1 DEF OnTrack
    <3> QED
      BY <1>0, <3>1, PassParts
  <2>3. Onward(r) \in Passes /\ OnTrack(Onward(r))
    BY <1>0, <2>2, OnwardMoves
  <2> QED
    BY <2>1, <2>3, WorkerTyped
<1>4. CASE CreatePodErr(w)
  <2>1. worker' = [worker EXCEPT ![w] = Trim(r)] /\ r.pc = "create"
    BY <1>4 DEF CreatePodErr
  <2>2. Trim(r) \in Passes /\ OnTrack(Trim(r))
    BY <1>0, TrimMoves DEF OnTrack
  <2> QED
    BY <2>1, <2>2, WorkerTyped
<1>5. CASE TrimPod(w)
  <2> DEFINE s == [[r EXCEPT !.at = @ - 1]
                     EXCEPT !.pc = IF r.at = r.set.replicas THEN "status" ELSE @]
  <2>1. worker' = [worker EXCEPT ![w] = s] /\ r.pc = "trim"
    BY <1>0, <1>5 DEF TrimPod
  <2>2. r.at \in Int /\ r.at - 1 \in Int /\ r.set.replicas \in Nat
    BY <1>0, PassParts
  <2>3. /\ s \in Passes /\ s.at = r.at - 1 /\ s.set = r.set
        /\ s.pc = IF r.at = r.set.replicas THEN "status" ELSE "trim"
        /\ s.ready = r.ready /\ s.current = r.current
    BY <1>0, <2>1, <2>2 DEF Passes
  <2> HIDE DEF s
  <2>4. r.at >= r.set.replicas /\ r.ready <= r.current /\ r.current <= r.set.replicas
    BY <1>0, <2>1 DEF OnTrack
  <2>5. OnTrack(s)
    BY <2>2, <2>3, <2>4 DEF OnTrack
  <2> QED
    BY <2>1, <2>3, <2>5, WorkerTyped
<1>6. CASE UpdateSetStatus(w)
  BY <1>6, IdleTyped, WorkerTyped DEF UpdateSetStatus
<1> QED
  BY <1>1, <1>2, <1>3, <1>4, <1>5, <1>6

(* What the list makes of the passes.                                      *)
LEMMA PassBegins ==
    ASSUME TypeOK, NEW w \in Workers, ListSets(w)
    PROVE  /\ worker' \in [Workers -> Passes]
           /\ \A v \in Workers : OnTrack(worker'[v])
           /\ \A v \in Workers \ {w} : worker'[v] = worker[v]
           /\ worker'[w].set = set
           /\ \/ worker'[w].pc = "walk" /\ worker'[w].at = 0
              \/ worker'[w].pc = "trim" /\ worker'[w].at = set.replicas + Cap - 1
<1> DEFINE s == [Idle EXCEPT !.set = set]
<1>0. set \in Sets /\ set.replicas \in Nat
  BY StatefulSetAssumption DEF TypeOK, Sets
<1>1. s \in Passes /\ s.ready = 0 /\ s.current = 0 /\ s.set = set
  <2>1. Idle \in Passes /\ Idle.ready = 0 /\ Idle.current = 0
    BY IdleTyped DEF Idle
  <2> QED
    BY <1>0, <2>1 DEF Passes
<1>2. worker' = [worker EXCEPT ![w] = Walk(s, 0)]
  BY DEF ListSets
<1> HIDE DEF s
<1>3. /\ Walk(s, 0) \in Passes /\ OnTrack(Walk(s, 0)) /\ Walk(s, 0).set = set
      /\ \/ Walk(s, 0).pc = "walk" /\ Walk(s, 0).at = 0
         \/ Walk(s, 0).pc = "trim" /\ Walk(s, 0).at = set.replicas + Cap - 1
  BY <1>0, <1>1, WalkMoves
<1> QED
  BY <1>2, <1>3, WorkerTyped

(* One step keeps the types of all variables.                              *)
LEMMA TypeOKNext == TypeOK /\ [Next]_vars => TypeOK'
<1> SUFFICES ASSUME TypeOK, [Next]_vars PROVE TypeOK'
  OBVIOUS
<1> DEFINE Req == [pc : {"idle", "pods", "row"}, listed : SUBSET Indices]
<1>0. /\ DOMAIN pods \subseteq Indices
      /\ \A i \in DOMAIN pods : pods[i] \in Rows
      /\ set \in Sets /\ worker \in [Workers -> Passes]
      /\ \A w \in Workers : OnTrack(worker[w])
      /\ api \in Req
      /\ events \in Nat /\ calm \in BOOLEAN
  BY DEF TypeOK
<1>e. /\ Event => events' \in Nat
      /\ Unsettle => events' \in Nat /\ calm' \in BOOLEAN
  <2>1. Event => events' \in Nat
    BY <1>0 DEF Event
  <2>2. Unsettle => Event /\ calm' \in BOOLEAN
    BY DEF Unsettle
  <2> QED
    BY <2>1, <2>2
<1>p. /\ \A q : pods' = Remove(pods, q) =>
             /\ DOMAIN pods' \subseteq Indices /\ \A i \in DOMAIN pods' : pods'[i] \in Rows
      /\ UNCHANGED pods =>
             /\ DOMAIN pods' \subseteq Indices /\ \A i \in DOMAIN pods' : pods'[i] \in Rows
  BY <1>0, RemoveKeeps
<1>w. UNCHANGED worker => /\ worker' \in [Workers -> Passes]
                          /\ \A w \in Workers : OnTrack(worker'[w])
  BY <1>0
<1>r. NoRequest \in Req
  BY DEF NoRequest
<1> HIDE DEF Req
<1>t. ASSUME /\ DOMAIN pods' \subseteq Indices
             /\ \A i \in DOMAIN pods' : pods'[i] \in Rows,
             set' \in Sets, worker' \in [Workers -> Passes],
             \A w \in Workers : OnTrack(worker'[w]),
             api' \in Req, events' \in Nat, calm' \in BOOLEAN
      PROVE  TypeOK'
  BY <1>t DEF TypeOK, Req
<1>1. CASE UNCHANGED vars
  BY <1>0, <1>1, <1>t, <1>p, <1>w DEF vars
<1>2. ASSUME NEW w \in Workers, ListSets(w) PROVE TypeOK'
  <2>1. calm' \in BOOLEAN
    BY <1>2 DEF ListSets
  <2> QED
    BY <1>0, <1>2, <1>t, <1>p, <2>1, PassBegins DEF ListSets
<1>3. ASSUME NEW w \in Workers, GetPod(w) \/ GetPodErr(w) \/ CreatePodErr(w) PROVE TypeOK'
  BY <1>0, <1>3, <1>t, <1>p, <1>e, PassOf DEF GetPod, GetPodErr, CreatePodErr
<1>4. ASSUME NEW w \in Workers, CreatePod(w) PROVE TypeOK'
  <2>1. /\ DOMAIN pods' \subseteq Indices /\ \A i \in DOMAIN pods' : pods'[i] \in Rows
    BY <1>0, <1>4, CreateAdds
  <2> QED
    BY <1>0, <1>4, <1>t, <2>1, PassOf DEF CreatePod
<1>5. ASSUME NEW w \in Workers, TrimPod(w) PROVE TypeOK'
  BY <1>0, <1>5, <1>t, <1>p, <1>e, PassOf DEF TrimPod
<1>6. ASSUME NEW w \in Workers, UpdateSetStatus(w) PROVE TypeOK'
  <2>1. worker[w] \in Passes
    BY <1>0
  <2>2. set' \in Sets
    BY <1>0, <1>6, <2>1 DEF UpdateSetStatus, Sets, Passes
  <2> QED
    BY <1>0, <1>6, <1>t, <1>p, <1>e, <2>2, PassOf DEF UpdateSetStatus
<1>7. ASSUME NEW r \in 0 .. MaxReplicas, NEW parallel \in BOOLEAN, ApplySet(r, parallel)
      PROVE  TypeOK'
  <2>1. set' \in Sets /\ calm' \in BOOLEAN
    BY <1>0, <1>7 DEF ApplySet, Sets
  <2> QED
    BY <1>0, <1>7, <1>t, <1>p, <1>w, <1>e, <2>1 DEF ApplySet
<1>8. CASE DeleteList
  <2>1. api' \in Req
    BY <1>0, <1>8 DEF DeleteList, Req
  <2> QED
    BY <1>0, <1>8, <1>t, <1>p, <1>w, <1>e, <2>1 DEF DeleteList
<1>9. CASE DeleteOwnedPod
  <2>1. api' \in Req
    BY <1>0, <1>9 DEF DeleteOwnedPod, Req
  <2> QED
    BY <1>0, <1>9, <1>t, <1>p, <1>w, <1>e, <2>1 DEF DeleteOwnedPod
<1>10. CASE DeleteRow
  BY <1>0, <1>10, <1>t, <1>p, <1>w, <1>e, <1>r, IdleTyped DEF DeleteRow
<1>11. ASSUME NEW i \in DOMAIN pods, UserDeletePod(i) PROVE TypeOK'
  BY <1>0, <1>11, <1>t, <1>p, <1>w, <1>e DEF UserDeletePod
<1>12. ASSUME NEW i \in DOMAIN pods, ReportRunning(i) PROVE TypeOK'
  BY <1>0, <1>12, <1>t, <1>w, ReportKeeps DEF ReportRunning, Phases
<1>13. ASSUME NEW i \in DOMAIN pods, ReportFailed(i) PROVE TypeOK'
  BY <1>0, <1>13, <1>t, <1>w, <1>e, ReportKeeps DEF ReportFailed, Phases
<1>14. ASSUME NEW i \in Indices, NEW phase \in Phases, UserApplyPod(i, phase) PROVE TypeOK'
  BY <1>0, <1>14, <1>t, <1>w, <1>e, UpsertKeeps DEF UserApplyPod
<1> QED
  BY <1>1, <1>2, <1>3, <1>4, <1>5, <1>6, <1>7, <1>8, <1>9, <1>10, <1>11, <1>12, <1>13, <1>14
  DEF Next, WorkerStep, DeleteStep

LEMMA InitFacts == Init => TypeOK /\ CalmInv
<1> SUFFICES ASSUME Init PROVE TypeOK /\ CalmInv
  OBVIOUS
<1>1. \A w \in Workers : worker[w] = Idle /\ worker[w].pc = "idle"
  BY IdleTyped DEF Init
<1>2. DOMAIN pods = {}
  BY DEF Init
<1>3. TypeOK
  BY <1>1, <1>2, IdleTyped DEF Init, TypeOK, NoRequest
<1>4. CalmInv
  BY <1>1, <1>2
  DEF Init, CalmInv, CalmParts, OneBusy, AllTame, IsPrefix, OneStarting, Orderly, NoRequest, NoSet
<1> QED
  BY <1>3, <1>4

(* Every variable of the statefulset model keeps its type, and a pass      *)
(* counts no more pods than it has walked past.                            *)
THEOREM StatefulSetTypeCorrect == Spec => []TypeOK
<1>1. Init => TypeOK
  BY InitFacts
<1> QED
  BY <1>1, TypeOKNext, PTL DEF Spec

(* Facts about the table and the passes that the calm steps need.          *)
LEMMA Kinds ==
    ASSUME TypeOK
    PROVE  /\ \A i \in DOMAIN pods : i \in Nat /\ i < MaxReplicas
           /\ MaxReplicas \in Nat /\ Cap \in Nat /\ Cap > 0
           /\ \A w \in Workers : /\ worker[w] \in Passes /\ OnTrack(worker[w])
                                 /\ worker[w].at \in Int /\ worker[w].set.replicas \in Nat
                                 /\ worker[w].set.parallel \in BOOLEAN
  BY StatefulSetAssumption, PassParts DEF TypeOK, Indices

(* A pass that is about to trim can see every pod.                         *)
LEMMA TrimSeesAll ==
    ASSUME TypeOK, NEW r, NEW s, Tame(s), s.replicas \in Nat,
           r.pc = "trim", r.at = s.replicas + Cap - 1
    PROVE  Orderly(r)
<1>1. \A i \in DOMAIN pods : i <= r.at
  BY Kinds DEF Tame
<1> QED
  BY <1>1 DEF Orderly

(* In a calm run at most one worker is busy, so a step of that worker      *)
(* decides what holds of the passes.                                       *)
LEMMA CalmPass ==
    ASSUME TypeOK, CalmParts, NEW w \in Workers, worker[w].pc # "idle",
           \A v \in Workers \ {w} : worker'[v] = worker[v],
           worker'[w].pc # "idle" => worker'[w].set = worker[w].set,
           Orderly(worker[w])', UNCHANGED <<api, set>>, IsPrefix', OneStarting'
    PROVE  CalmParts'
<1>1. \A v \in Workers \ {w} : worker[v].pc = "idle"
  BY DEF CalmParts, OneBusy
<1>2. OneBusy'
  BY <1>1 DEF OneBusy
<1>3. AllTame'
  BY <1>1 DEF CalmParts, AllTame, Tame
<1>4. ASSUME NEW v \in Workers PROVE Orderly(worker[v])'
  BY <1>1 DEF Orderly
<1> QED
  BY <1>2, <1>3, <1>4 DEF CalmParts

LEMMA CalmGet ==
    ASSUME TypeOK, CalmParts, NEW w \in Workers, GetPod(w)
    PROVE  CalmParts'
<1> DEFINE r == worker[w]
           s == Visited(r)
<1>0. /\ r \in Passes /\ OnTrack(r) /\ r.pc = "walk" /\ worker'[w] = s
      /\ UNCHANGED <<pods, api, set>>
      /\ \A v \in Workers \ {w} : worker'[v] = worker[v]
      /\ r.at \in Int /\ r.set.replicas \in Nat
  BY Kinds DEF TypeOK, GetPod
<1>1. IsPrefix' /\ OneStarting'
  BY <1>0 DEF CalmParts, IsPrefix, OneStarting, Running
<1>2. Tame(r.set) /\ Orderly(r)
  BY <1>0 DEF CalmParts, AllTame
<1>3. \A j \in 0 .. r.at - 1 : j \in DOMAIN pods /\ Running(j)
  BY <1>0, <1>2 DEF Orderly
<1> HIDE DEF s
<1>4. /\ s.set = r.set
      /\ \/ s.pc = "create" /\ s.at = r.at /\ r.at \notin DOMAIN pods
         \/ s.pc = "walk" /\ s.at = r.at + 1 /\ r.at \in DOMAIN pods /\ Running(r.at)
         \/ s.pc = "trim" /\ s.at = r.set.replicas + Cap - 1
  BY <1>0, <1>2, VisitedMoves DEF Tame, s
<1>5. Orderly(s)
  <2>1. CASE s.pc = "create" /\ s.at = r.at /\ r.at \notin DOMAIN pods
    BY <1>3, <2>1 DEF Orderly
  <2>2. CASE s.pc = "walk" /\ s.at = r.at + 1 /\ r.at \in DOMAIN pods /\ Running(r.at)
    <3>1. ASSUME NEW j \in 0 .. s.at - 1 PROVE j = r.at \/ j \in 0 .. r.at - 1
      BY <1>0, <2>2
    <3> QED
      BY <1>3, <2>2, <3>1 DEF Orderly
  <2>3. CASE s.pc = "trim" /\ s.at = r.set.replicas + Cap - 1
    BY <1>0, <1>2, <2>3, TrimSeesAll
  <2> QED
    BY <1>4, <2>1, <2>2, <2>3
<1>6. Orderly(worker[w])'
  BY <1>0, <1>5 DEF Orderly, Running
<1> QED
  BY <1>0, <1>1, <1>4, <1>6, CalmPass

LEMMA CalmCreate ==
    ASSUME TypeOK, TypeOK', CalmParts, NEW w \in Workers, CreatePod(w)
    PROVE  CalmParts'
<1> DEFINE r == worker[w]
           a == r.at
<1>0. /\ r \in Passes /\ OnTrack(r) /\ r.pc = "create" /\ worker'[w] = Onward(r)
      /\ UNCHANGED <<api, set>>
      /\ \A v \in Workers \ {w} : worker'[v] = worker[v]
      /\ a \in Int /\ r.set.replicas \in Nat
  BY Kinds DEF TypeOK, CreatePod
<1>1. Tame(r.set) /\ Orderly(r)
  BY <1>0 DEF CalmParts, AllTame
<1>2. a \notin DOMAIN pods /\ \A j \in 0 .. a - 1 : j \in DOMAIN pods /\ Running(j)
  BY <1>0, <1>1 DEF Orderly
<1>3. DOMAIN pods' = DOMAIN pods \cup {a} /\ \A i \in DOMAIN pods : pods'[i] = pods[i]
  BY <1>2, CreateAdds
<1>4. r.ready <= r.current /\ a \in Nat /\ r.current <= a + 1 /\ a < r.set.replicas
  <2>1. r.ready <= r.current /\ r.current <= a /\ a < r.set.replicas
    BY <1>0 DEF OnTrack
  <2> QED
    BY <1>0, <2>1, PassParts
<1>5. /\ worker'[w].set = r.set /\ worker'[w].pc = "trim"
      /\ worker'[w].at = r.set.replicas + Cap - 1
  BY <1>0, <1>1, <1>4, OnwardMoves DEF Tame
<1>6. \A i \in DOMAIN pods : i \in 0 .. a - 1 /\ Running(i)
  <2>1. ASSUME NEW i \in DOMAIN pods PROVE i \in 0 .. a - 1
    <3>1. i \in Nat /\ \A j \in 0 .. i : j \in DOMAIN pods
      BY Kinds DEF CalmParts, IsPrefix
    <3>2. a \notin 0 .. i
      BY <1>2, <3>1
    <3> QED
      BY <1>4, <3>1, <3>2
  <2> QED
    BY <1>2, <2>1
<1>7. IsPrefix'
  <2>1. SUFFICES ASSUME NEW i \in DOMAIN pods', NEW j \in 0 .. i PROVE j \in DOMAIN pods'
    BY DEF IsPrefix
  <2>2. CASE i \in DOMAIN pods
    BY <1>3, <2>2 DEF CalmParts, IsPrefix
  <2>3. CASE i = a
    <3>1. j = a \/ j \in 0 .. a - 1
      BY <1>4, <2>1, <2>3
    <3> QED
      BY <1>2, <1>3, <3>1
  <2> QED
    BY <1>3, <2>2, <2>3
<1>8. OneStarting'
  <2>1. ASSUME NEW i \in DOMAIN pods', ~Running(i)' PROVE i = a
    BY <1>3, <1>6, <2>1 DEF Running
  <2> QED
    BY <2>1 DEF OneStarting
<1>9. ASSUME NEW i \in DOMAIN pods' PROVE i <= r.set.replicas + Cap - 1
  <2>1. i \in Nat /\ i < MaxReplicas
    BY StatefulSetAssumption DEF TypeOK, Indices
  <2> QED
    BY <1>0, <1>1, <2>1, StatefulSetAssumption DEF Tame
<1>10. Orderly(worker[w])'
  BY <1>5, <1>9 DEF Orderly
<1> QED
  BY <1>0, <1>5, <1>7, <1>8, <1>10, CalmPass

LEMMA CalmTrim ==
    ASSUME TypeOK, CalmParts, NEW w \in Workers, TrimPod(w), calm'
    PROVE  CalmParts'
<1> DEFINE r == worker[w]
           a == r.at
<1>0. /\ r \in Passes /\ OnTrack(r) /\ r.pc = "trim"
      /\ UNCHANGED <<api, set>>
      /\ \A v \in Workers \ {w} : worker'[v] = worker[v]
      /\ a \in Int /\ r.set.replicas \in Nat
  BY Kinds DEF TypeOK, TrimPod
<1>1. pods' = Remove(pods, a)
  BY DEF TrimPod, Unsettle
<1>2. /\ worker'[w].set = r.set /\ worker'[w].at = a - 1
      /\ worker'[w].pc = "status" \/ worker'[w].pc = "trim"
  BY <1>0 DEF TrimPod, TypeOK, Passes
<1>3. \A i \in DOMAIN pods : i <= a /\ i \in Nat
  BY <1>0, Kinds DEF CalmParts, Orderly
<1>4. DOMAIN pods' = DOMAIN pods \ {a} /\ \A i \in DOMAIN pods' : pods'[i] = pods[i]
  BY <1>1, RemoveKeeps
<1>5. \A i \in DOMAIN pods' : i <= a - 1
  BY <1>0, <1>3, <1>4
<1>6. IsPrefix'
  <2>1. SUFFICES ASSUME NEW i \in DOMAIN pods', NEW j \in 0 .. i PROVE j \in DOMAIN pods'
    BY DEF IsPrefix
  <2>2. j \in DOMAIN pods
    BY <1>4 DEF CalmParts, IsPrefix
  <2>3. j # a
    BY <1>0, <1>3, <1>4, <1>5
  <2> QED
    BY <1>4, <2>2, <2>3
<1>7. OneStarting'
  BY <1>4 DEF CalmParts, OneStarting, Running
<1>8. Orderly(worker[w])'
  BY <1>2, <1>5 DEF Orderly
<1> QED
  BY <1>0, <1>2, <1>6, <1>7, <1>8, CalmPass

LEMMA CalmList ==
    ASSUME TypeOK, CalmParts, NEW w \in Workers, ListSets(w), Quiet(w)
    PROVE  CalmParts'
<1>0. /\ UNCHANGED <<pods, api, set>> /\ set.exists /\ set.replicas \in Nat
      /\ \A v \in Workers \ {w} : worker'[v].pc = "idle"
      /\ worker'[w].set = set
      /\ \/ worker'[w].pc = "walk" /\ worker'[w].at = 0
         \/ worker'[w].pc = "trim" /\ worker'[w].at = set.replicas + Cap - 1
  <2>1. set.replicas \in Nat
    BY StatefulSetAssumption DEF TypeOK, Sets
  <2>2. UNCHANGED <<pods, api, set>> /\ set.exists
    BY DEF ListSets
  <2>3. \A v \in Workers \ {w} : worker'[v] = worker[v]
    BY PassBegins
  <2>4. /\ worker'[w].set = set
        /\ \/ worker'[w].pc = "walk" /\ worker'[w].at = 0
           \/ worker'[w].pc = "trim" /\ worker'[w].at = set.replicas + Cap - 1
    BY PassBegins
  <2> QED
    BY <2>1, <2>2, <2>3, <2>4 DEF Quiet
<1>1. IsPrefix' /\ OneStarting'
  BY <1>0 DEF CalmParts, IsPrefix, OneStarting, Running
<1>2. Tame(set)
  BY <1>0 DEF CalmParts, AllTame
<1>3. OneBusy' /\ AllTame'
  BY <1>0, <1>2 DEF OneBusy, AllTame, Tame
<1>4. Orderly(worker[w])'
  <2>1. CASE worker'[w].pc = "walk" /\ worker'[w].at = 0
    BY <2>1 DEF Orderly
  <2>2. CASE worker'[w].pc = "trim" /\ worker'[w].at = set.replicas + Cap - 1
    <3>1. \A i \in DOMAIN pods : i <= set.replicas + Cap - 1
      BY <1>0, <1>2, Kinds DEF Tame
    <3> QED
      BY <1>0, <2>2, <3>1 DEF Orderly
  <2> QED
    BY <1>0, <2>1, <2>2
<1>5. ASSUME NEW v \in Workers PROVE Orderly(worker[v])'
  BY <1>0, <1>4 DEF Orderly
<1> QED
  BY <1>0, <1>1, <1>3, <1>5 DEF CalmParts

(* A calm run stays calm in order.                                         *)
LEMMA CalmInvNext == TypeOK /\ TypeOK' /\ CalmInv /\ [Next]_vars => CalmInv'
<1> SUFFICES ASSUME TypeOK, TypeOK', CalmInv, [Next]_vars, calm' PROVE CalmParts'
  BY DEF CalmInv
<1>0. Unsettle => FALSE
  BY DEF Unsettle
<1>1. CASE UNCHANGED vars
  BY <1>1 DEF vars, CalmInv, CalmParts, OneBusy, AllTame, IsPrefix, OneStarting, Orderly, Running
<1>2. ASSUME NEW w \in Workers, ListSets(w) PROVE CalmParts'
  <2>1. calm /\ Quiet(w)
    BY <1>2 DEF ListSets
  <2> QED
    BY <1>2, <2>1, CalmList DEF CalmInv
<1>3. ASSUME NEW w \in Workers, GetPod(w) PROVE CalmParts'
  BY <1>3, CalmGet DEF CalmInv, GetPod
<1>4. ASSUME NEW w \in Workers, CreatePod(w) PROVE CalmParts'
  BY <1>4, CalmCreate DEF CalmInv, CreatePod
<1>5. ASSUME NEW w \in Workers, TrimPod(w) PROVE CalmParts'
  <2>1. calm
    BY <1>0, <1>5 DEF TrimPod
  <2> QED
    BY <1>5, <2>1, CalmTrim DEF CalmInv
<1>6. ASSUME NEW w \in Workers, GetPodErr(w) \/ CreatePodErr(w) PROVE CalmParts'
  BY <1>0, <1>6 DEF GetPodErr, CreatePodErr
<1>7. ASSUME NEW w \in Workers, UpdateSetStatus(w) PROVE CalmParts'
  <2>1. /\ calm /\ CalmParts /\ UNCHANGED <<pods, api>> /\ worker'[w] = Idle
        /\ worker[w].pc = "status"
        /\ \A v \in Workers \ {w} : worker'[v] = worker[v]
    BY <1>0, <1>7 DEF UpdateSetStatus, CalmInv, TypeOK
  <2>2. \A v \in Workers : worker'[v].pc = "idle"
    BY <2>1, IdleTyped DEF CalmParts, OneBusy
  <2>3. set'.exists => set.exists /\ set'.parallel = set.parallel
                       /\ set'.replicas = set.replicas
    BY <1>0, <1>7 DEF UpdateSetStatus, TypeOK, Sets
  <2>4. AllTame'
    BY <2>1, <2>2, <2>3 DEF CalmParts, AllTame, Tame
  <2>5. IsPrefix' /\ OneStarting'
    BY <2>1 DEF CalmParts, IsPrefix, OneStarting, Running
  <2> QED
    BY <2>1, <2>2, <2>4, <2>5 DEF CalmParts, OneBusy, Orderly
<1>8. ASSUME NEW r \in 0 .. MaxReplicas, NEW parallel \in BOOLEAN, ApplySet(r, parallel)
      PROVE  CalmParts'
  <2>1. calm /\ CalmParts /\ ~parallel /\ r + Cap >= MaxReplicas /\ UNCHANGED <<pods, worker, api>>
    BY <1>8 DEF ApplySet, CalmInv
  <2>2. set'.parallel = parallel /\ set'.replicas = r
    BY <1>8 DEF ApplySet, TypeOK, Sets
  <2>3. AllTame'
    BY <2>1, <2>2 DEF CalmParts, AllTame, Tame
  <2> QED
    BY <2>1, <2>3 DEF CalmParts, OneBusy, IsPrefix, OneStarting, Orderly, Running
<1>9. CASE DeleteList
  BY <1>0, <1>9 DEF DeleteList
<1>10. CASE DeleteOwnedPod \/ DeleteRow
  <2>1. api.pc # "idle"
    BY <1>10 DEF DeleteOwnedPod, DeleteRow
  <2>2. ~calm
    BY <2>1 DEF CalmInv, CalmParts
  <2> QED
    BY <1>0, <1>10, <2>2 DEF DeleteOwnedPod, DeleteRow
<1>11. ASSUME NEW i \in DOMAIN pods, UserDeletePod(i) \/ ReportFailed(i) PROVE CalmParts'
  BY <1>0, <1>11 DEF UserDeletePod, ReportFailed
<1>13. ASSUME NEW i \in Indices, NEW phase \in Phases, UserApplyPod(i, phase) PROVE CalmParts'
  BY <1>0, <1>13 DEF UserApplyPod
<1>12. ASSUME NEW i \in DOMAIN pods, ReportRunning(i) PROVE CalmParts'
  <2>1. calm /\ CalmParts /\ UNCHANGED <<set, worker, api>>
    BY <1>12 DEF ReportRunning, CalmInv
  <2>2. /\ DOMAIN pods' = DOMAIN pods
        /\ \A j \in DOMAIN pods : Running(j) => Running(j)'
    BY <1>12, ReportKeeps DEF ReportRunning, Running, Phases
  <2>3. OneBusy' /\ AllTame' /\ IsPrefix' /\ OneStarting'
    BY <2>1, <2>2 DEF CalmParts, OneBusy, AllTame, IsPrefix, OneStarting
  <2>4. ASSUME NEW w \in Workers PROVE Orderly(worker[w])'
    BY <2>1, <2>2 DEF CalmParts, Orderly
  <2> QED
    BY <2>1, <2>3, <2>4 DEF CalmParts
<1> QED
  BY <1>1, <1>2, <1>3, <1>4, <1>5, <1>6, <1>7, <1>8, <1>9, <1>10, <1>11, <1>12, <1>13
  DEF Next, WorkerStep, DeleteStep

(* Two things of a set are one, so the set has one member at most.         *)
LEMMA OneAtMost ==
    ASSUME NEW S, \A x, y \in S : x = y
    PROVE  Cardinality(S) <= 1
<1>1. CASE S = {}
  BY <1>1, FS_EmptySet
<1>2. CASE S # {}
  <2>1. PICK x \in S : TRUE
    BY <1>2
  <2>2. S = {x}
    BY <2>1
  <2> QED
    BY <2>2, FS_Singleton
<1> QED
  BY <1>1, <1>2

(***************************************************************************)
(* OrderedReady (controller.rs:337-338): as long as no pod fails, no user  *)
(* touches one, no call errs, no two passes overlap and no scale-down is   *)
(* deeper than a pass looks, at most one pod of the set is starting, for   *)
(* any number of replicas and any look-ahead.                              *)
(***************************************************************************)
THEOREM StatefulSetOneStartsAtATime == Spec => []OneStartsAtATime
<1> DEFINE I == TypeOK /\ CalmInv
<1>1. Init => I
  BY InitFacts
<1>2. I /\ [Next]_vars => I'
  BY TypeOKNext, CalmInvNext
<1>3. I => OneStartsAtATime
  <2>1. SUFFICES ASSUME CalmInv, calm
                 PROVE  Cardinality({i \in DOMAIN pods : ~Running(i)}) <= 1
    BY DEF OneStartsAtATime
  <2>2. \A x, y \in {i \in DOMAIN pods : ~Running(i)} : x = y
    BY <2>1 DEF CalmInv, CalmParts, OneStarting
  <2> QED
    BY <2>2, OneAtMost
<1> QED
  BY <1>1, <1>2, <1>3, PTL DEF Spec
=============================================================================
