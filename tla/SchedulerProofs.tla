--------------------------- MODULE SchedulerProofs ---------------------------
(***************************************************************************)
(* Proofs about Scheduler, for every cluster, every set of manifests and   *)
(* any number of masters, with either scoring.                             *)
(***************************************************************************)
EXTENDS Scheduler, FiniteSetTheorems, WellFoundedInduction, TLAPS

(* A set of numbers that has a member has a least one.                     *)
LEMMA LeastMember ==
    ASSUME NEW S, S \subseteq Nat, S # {}
    PROVE  \E m \in S : \A u \in S : m <= u
<1> DEFINE R == OpToRel(<, Nat)
<1>1. \E m \in S : \A u \in S : ~(<<u, m>> \in R)
  <2>1. IsWellFoundedOn(R, Nat)
    BY NatLessThanWellFounded
  <2> HIDE DEF R
  <2> QED
    BY <2>1, WFMin
<1>2. PICK m \in S : \A u \in S : ~(<<u, m>> \in R)
  BY <1>1
<1>3. \A u \in S : ~(u < m)
  BY <1>2 DEF OpToRel
<1> QED
  BY <1>3

(***************************************************************************)
(* A finite set whose members have integer values has a member of greatest *)
(* value: the one with the fewest above it.                                *)
(***************************************************************************)
LEMMA GreatestValue ==
    ASSUME NEW S, IsFiniteSet(S), S # {}, NEW f \in [S -> Int]
    PROVE  \E m \in S : \A u \in S : f[m] >= f[u]
<1> DEFINE Above(m) == {u \in S : f[u] > f[m]}
           Counts_ == {Cardinality(Above(m)) : m \in S}
<1>1. \A m \in S : IsFiniteSet(Above(m)) /\ Cardinality(Above(m)) \in Nat
  BY FS_Subset, FS_CardinalityType
<1>2. Counts_ \subseteq Nat /\ Counts_ # {}
  BY <1>1
<1>3. \E k \in Counts_ : \A j \in Counts_ : k <= j
  <2> HIDE DEF Counts_
  <2> QED
    BY <1>2, LeastMember
<1>4. PICK m \in S : \A u \in S : Cardinality(Above(m)) <= Cardinality(Above(u))
  <2>1. PICK k \in Counts_ : \A j \in Counts_ : k <= j
    BY <1>3
  <2>2. PICK m \in S : k = Cardinality(Above(m))
    OBVIOUS
  <2>3. \A u \in S : Cardinality(Above(u)) \in Counts_
    OBVIOUS
  <2> HIDE DEF Counts_, Above
  <2> QED
    BY <2>1, <2>2, <2>3
<1>5. ASSUME NEW u \in S, f[u] > f[m]
      PROVE  FALSE
  <2>1. Above(u) \in SUBSET Above(m) /\ u \in Above(m) /\ u \notin Above(u)
    BY <1>5
  <2> HIDE DEF Above
  <2>2. Cardinality(Above(u)) <= Cardinality(Above(m))
        /\ Cardinality(Above(u)) # Cardinality(Above(m))
    BY <1>1, <2>1, FS_Subset
  <2> QED
    BY <1>1, <1>4, <2>2
<1> QED
  BY <1>5

-----------------------------------------------------------------------------
(* Lemmas about the room that pods take.                                   *)

(* What the manifests ask of a resource.                                   *)
Asks == [Specs -> Nat]

LEMMA CpuMemAsk ==
    Cpu \in Asks /\ Mem \in Asks
BY SchedulerAssumption DEF Cpu, Mem, Asks

(* The units of one entry.                                                 *)
LEMMA UnitsOfOne ==
    ASSUME NEW x, NEW k \in Nat
    PROVE  /\ IsFiniteSet({x} \X (1 .. k))
           /\ Cardinality({x} \X (1 .. k)) = k
<1> DEFINE X == {x}
           I == 1 .. k
<1>1. IsFiniteSet(X) /\ Cardinality(X) = 1
  BY FS_Singleton
<1>2. IsFiniteSet(I) /\ Cardinality(I) = IF 1 > k THEN 0 ELSE k - 1 + 1
  <2>1. 1 \in Int /\ k \in Int
    OBVIOUS
  <2> QED
    BY <2>1, FS_Interval, Zenon
<1>3. Cardinality(I) = k
  BY <1>2
<1> HIDE DEF X, I
<1>4. IsFiniteSet(X \X I) /\ Cardinality(X \X I) = Cardinality(X) * Cardinality(I)
  BY <1>1, <1>2, FS_Product
<1>5. Cardinality(X \X I) = 1 * k
  BY <1>1, <1>3, <1>4, Zenon
<1>6. Cardinality(X \X I) = k
  BY <1>5
<1> QED
  BY <1>4, <1>6 DEF X, I

LEMMA UnitsFinite ==
    ASSUME NEW asked \in Asks, NEW n, NEW A \in SUBSET Entries, IsFiniteSet(A)
    PROVE  /\ IsFiniteSet(Units(asked, n, A))
           /\ Used(asked, n, A) \in Nat
<1> DEFINE Unit(e) == {e} \X (1 .. asked[e.spec])
           S == On(n, A)
           T == {Unit(e) : e \in S}
<1>1. IsFiniteSet(S)
  BY FS_Subset DEF On
<1>2. \A e \in S : e.spec \in Specs /\ asked[e.spec] \in Nat
  BY DEF On, Entries, Asks
<1>3. \A e \in S : IsFiniteSet(Unit(e))
  BY <1>2, UnitsOfOne
<1>4. IsFiniteSet(T)
  <2> DEFINE f == [e \in S |-> Unit(e)]
  <2>1. f \in Surjection(S, T)
    BY DEF Surjection
  <2> QED
    BY <1>1, <2>1, FS_Surjection
<1>5. IsFiniteSet(UNION T)
  <2>1. \A t \in T : IsFiniteSet(t)
    BY <1>3
  <2> HIDE DEF T
  <2> QED
    BY <1>4, <2>1, FS_UNION
<1>6. Units(asked, n, A) = UNION T
  BY DEF Units
<1> QED
  BY <1>5, <1>6, FS_CardinalityType DEF Used

(***************************************************************************)
(* When A has one entry a name, and each that asks for something on a node *)
(* has a namesake of its manifest in B on that node, A takes no more room  *)
(* there than B.                                                           *)
(***************************************************************************)
LEMMA UsedMono ==
    ASSUME NEW asked \in Asks, NEW n,
           NEW A \in SUBSET Entries,
           NEW B \in SUBSET Entries, IsFiniteSet(B),
           \A e, f \in A : e.name = f.name => e = f,
           \A e \in On(n, A) : asked[e.spec] > 0 =>
               \E f \in On(n, B) : f.name = e.name /\ f.spec = e.spec
    PROVE  Used(asked, n, A) <= Used(asked, n, B)
<1> DEFINE F(e) == CHOOSE f \in On(n, B) : f.name = e.name /\ f.spec = e.spec
           S == Units(asked, n, A)
           T == Units(asked, n, B)
           g == [u \in S |-> <<F(u[1]), u[2]>>]
<1>1. \A e \in On(n, A) : asked[e.spec] > 0 => 
          F(e) \in On(n, B) /\ F(e).name = e.name /\ F(e).spec = e.spec
  OBVIOUS
<1>2. \A e \in On(n, A) : e.spec \in Specs /\ asked[e.spec] \in Nat
  BY DEF On, Entries, Asks
<1>3. \A u \in S : /\ u = <<u[1], u[2]>> /\ u[1] \in On(n, A)
                   /\ asked[u[1].spec] > 0 /\ u[2] \in 1 .. asked[u[1].spec]
  BY <1>2 DEF Units
<1>4. \A e \in On(n, B) : \A k \in 1 .. asked[e.spec] : <<e, k>> \in T
  BY DEF Units
<1> HIDE DEF F, T
<1>5. \A u \in S : <<F(u[1]), u[2]>> \in T
  BY <1>1, <1>3, <1>4
<1>6. \A u, v \in S : <<F(u[1]), u[2]>> = <<F(v[1]), v[2]>> => u = v
  <2> SUFFICES ASSUME NEW u \in S, NEW v \in S, F(u[1]) = F(v[1]), u[2] = v[2]
               PROVE  u = v
    OBVIOUS
  <2>1. u[1].name = v[1].name
    BY <1>1, <1>3
  <2>2. u[1] \in A /\ v[1] \in A
    BY <1>3 DEF On
  <2>3. u[1] = v[1]
    BY <2>1, <2>2
  <2> QED
    BY <1>3, <2>3
<1>7. g \in Injection(S, T)
  <2> HIDE DEF S
  <2> QED
    BY <1>5, <1>6 DEF Injection, IsInjective
<1>8. IsFiniteSet(T)
  BY UnitsFinite DEF T
<1>9. Cardinality(S) <= Cardinality(T)
  <2> HIDE DEF S, g
  <2> QED
    BY <1>7, <1>8, FS_Injection
<1> QED
  BY <1>9 DEF Used, T

(* One more entry takes at most what its pod asks for.                     *)
LEMMA UsedPush ==
    ASSUME NEW asked \in Asks, NEW n, NEW A \in SUBSET Entries, IsFiniteSet(A),
           NEW x \in Entries
    PROVE  Used(asked, n, A \cup {x}) <= Used(asked, n, A) + asked[x.spec]
<1> DEFINE U == {x} \X (1 .. asked[x.spec])
           S == Units(asked, n, A)
           T == Units(asked, n, A \cup {x})
<1>1. asked[x.spec] \in Nat
  BY DEF Entries, Asks
<1>2. IsFiniteSet(U) /\ Cardinality(U) = asked[x.spec]
  BY <1>1, UnitsOfOne
<1>3. IsFiniteSet(S)
  BY UnitsFinite
<1>4. T \in SUBSET (S \cup U)
  BY DEF Units, On
<1> HIDE DEF U, S, T
<1>5. IsFiniteSet(S \cup U)
      /\ Cardinality(S \cup U) = Cardinality(S) + Cardinality(U) - Cardinality(S \cap U)
  BY <1>2, <1>3, FS_Union
<1>6. Cardinality(S \cap U) \in Nat /\ Cardinality(S) \in Nat
  BY <1>3, FS_Intersection, FS_CardinalityType
<1>7. Cardinality(T) <= Cardinality(S \cup U)
  BY <1>4, <1>5, FS_Subset
<1>8. Cardinality(T) \in Nat
  BY <1>4, <1>5, FS_Subset, FS_CardinalityType
<1> QED
  BY <1>1, <1>2, <1>5, <1>6, <1>7, <1>8 DEF Used, S, T

-----------------------------------------------------------------------------
(* Lemmas about the choice of a node.                                      *)

LEMMA ScoreIsNumber ==
    ASSUME NEW spec \in Specs, NEW n \in Nodes,
           NEW A \in SUBSET Entries, IsFiniteSet(A)
    PROVE  Score(spec, n, A) \in Int
<1> DEFINE c == Machine[n].cpu
           m == Machine[n].mem
           uc == UsedCpu(n, A) + spec.cpu
           um == UsedMem(n, A) + spec.mem
<1>1. uc \in Nat /\ um \in Nat
  BY CpuMemAsk, UnitsFinite, SchedulerAssumption DEF UsedCpu, UsedMem
<1>2. (Counts(c) => c \in Nat /\ c > 0) /\ (Counts(m) => m \in Nat /\ m > 0)
  BY SchedulerAssumption DEF Counts
<1>3. \A u \in Nat, l \in Nat : Of(u, l) \in Int
  BY SchedulerAssumption DEF Of
<1>4. \A x \in Int, d \in Nat : d > 0 => Rounded(x, d) \in Int
  BY DEF Rounded
<1> HIDE DEF c, m, uc, um
<1>5. CASE Counts(c) /\ Counts(m)
  <2>1. c \in Nat /\ m \in Nat /\ c > 0 /\ m > 0
    BY <1>2, <1>5
  <2>2. Of(uc, c) \in Int /\ Of(um, m) \in Int
    BY <1>1, <1>3, <2>1
  <2>3. Of(uc, c) * m + Of(um, m) * c \in Int
    BY <2>1, <2>2
  <2>4. 2 * c * m \in Nat /\ 2 * c * m > 0
    BY <2>1
  <2>5. Rounded(Of(uc, c) * m + Of(um, m) * c, 2 * c * m) \in Int
    BY <1>4, <2>3, <2>4
  <2> QED
    BY <1>5, <2>5 DEF Score, c, m, uc, um
<1>6. CASE Counts(c) /\ ~Counts(m)
  <2>1. Rounded(Of(uc, c), c) \in Int
    BY <1>1, <1>2, <1>3, <1>4, <1>6
  <2> QED
    BY <1>6, <2>1 DEF Score, c, m, uc, um
<1>7. CASE ~Counts(c) /\ Counts(m)
  <2>1. Rounded(Of(um, m), m) \in Int
    BY <1>1, <1>2, <1>3, <1>4, <1>7
  <2> QED
    BY <1>7, <2>1 DEF Score, c, m, uc, um
<1>8. CASE ~Counts(c) /\ ~Counts(m)
  BY <1>8 DEF Score, c, m
<1> QED
  BY <1>5, <1>6, <1>7, <1>8

(***************************************************************************)
(* find_node_for_pod (scheduler.rs:213-268) returns a node that passed     *)
(* every predicate, and finds one whenever there is one.                   *)
(***************************************************************************)
LEMMA FindNodeIsCandidate ==
    ASSUME NEW spec, NEW listed, NEW A
    PROVE  FindNode(spec, listed, A) \subseteq Candidates(spec, listed, A)
BY DEF FindNode, FirstCreated, Best

LEMMA FindNodeFinds ==
    ASSUME NEW spec \in Specs, NEW listed \in SUBSET Nodes,
           NEW A \in SUBSET Entries, IsFiniteSet(A),
           Candidates(spec, listed, A) # {}
    PROVE  FindNode(spec, listed, A) # {}
<1> DEFINE cs == Candidates(spec, listed, A)
           best == Best(spec, cs, A)
<1>1. cs \in SUBSET Nodes /\ IsFiniteSet(cs) /\ cs # {}
  <2>1. cs \in SUBSET Nodes
    BY DEF Candidates
  <2> QED
    BY <2>1, SchedulerAssumption, FS_Subset
<1>2. best # {} /\ best \subseteq cs
  <2> DEFINE f == [n \in cs |-> Score(spec, n, A)]
  <2> HIDE DEF cs
  <2>1. f \in [cs -> Int]
    BY <1>1, ScoreIsNumber
  <2>2. \E m \in cs : \A u \in cs : f[m] >= f[u]
    <3> HIDE DEF f
    <3> QED
      BY <1>1, <2>1, GreatestValue
  <2> QED
    BY <2>2 DEF Best
<1>3. \E n \in best : \A o \in best : Machine[n].created <= Machine[o].created
  <2> DEFINE S == {Machine[n].created : n \in best}
  <2>1. S \subseteq Nat /\ S # {}
    BY <1>1, <1>2, SchedulerAssumption
  <2>2. \E k \in S : \A j \in S : k <= j
    <3> HIDE DEF S
    <3> QED
      BY <2>1, LeastMember
  <2> QED
    BY <2>2
<1>4. FindNode(spec, listed, A) = FirstCreated(best)
  BY DEF FindNode
<1> QED
  BY <1>3, <1>4 DEF FirstCreated

(* The pod that a tick takes next is one of its queue.                     *)
LEMMA OldestIsQueued ==
    ASSUME NEW q \in Queues, DOMAIN q # {}
    PROVE  Oldest(q) \in DOMAIN q /\ Oldest(q) \in Names /\ q[Oldest(q)] \in Rows
<1> DEFINE S == {q[o].created : o \in DOMAIN q}
<1>1. PICK D \in SUBSET Names : q \in [D -> Rows]
  BY DEF Queues
<1>2. \A o \in DOMAIN q : q[o] \in Rows /\ q[o].created \in Nat
  BY <1>1, SchedulerAssumption DEF Rows, Stamps
<1>3. S \subseteq Nat /\ S # {}
  BY <1>2
<1>4. \E k \in S : \A j \in S : k <= j
  <2> HIDE DEF S
  <2> QED
    BY <1>3, LeastMember
<1>5. Oldest(q) \in DOMAIN q
  BY <1>4 DEF Oldest
<1> QED
  BY <1>1, <1>2, <1>5

-----------------------------------------------------------------------------
(***************************************************************************)
(* The inductive invariant.  What a tick knows is stated of a copy of the  *)
(* pods, a table and a set of crowded nodes, so that it can be said of two *)
(* states.                                                                 *)
(***************************************************************************)
Table(tbl) == DOMAIN tbl \subseteq Names /\ \A p \in DOMAIN tbl : tbl[p] \in Rows

(* The copy knows of a row where it is and what it asks for, and that it   *)
(* takes up room if it does.                                               *)
Knows(A, q, row) ==
    \E e \in A : /\ e.name = q /\ e.node = row.node /\ e.spec = row.spec
                 /\ row.phase \in Terminal \/ e.phase \notin Terminal

(* It knows of every row that stands on a node that is not crowded.        *)
Covered(A, tbl, c) ==
    \A q \in DOMAIN tbl : tbl[q].node \in Nodes \ c => Knows(A, q, tbl[q])

(* A tick at work has a pod to place.                                      *)
TickOK(k, tbl, c) ==
    /\ IsFiniteSet(k.existing)
    /\ k.pc # "idle" => DOMAIN k.queue # {}
    /\ k.pc = "bind" => Covered(k.existing, tbl, c)

TicksOK == \A s \in Schedulers : TickOK(sched[s], pods, crowded[s])

IInv == TypeOK /\ TicksOK

-----------------------------------------------------------------------------
(* Lemmas about what a copy knows.                                         *)

(* Whatever is written, the copy goes on knowing of the nodes to which the *)
(* write has brought nothing.                                              *)
LEMMA CoveredKept ==
    ASSUME NEW A, NEW B, A \subseteq B, NEW tbl, NEW new, NEW c, NEW d,
           c \subseteq d, Arrivals(tbl, new) \subseteq d, Covered(A, tbl, c)
    PROVE  Covered(B, new, d)
<1> SUFFICES ASSUME NEW q \in DOMAIN new, new[q].node \in Nodes \ d
             PROVE  Knows(B, q, new[q])
  BY DEF Covered
<1>1. Known(tbl, q, new[q])
  BY DEF Arrivals
<1>2. /\ q \in DOMAIN tbl /\ tbl[q].node = new[q].node /\ tbl[q].spec = new[q].spec
      /\ tbl[q].phase \in Terminal => new[q].phase \in Terminal
  BY <1>1 DEF Known
<1>3. Knows(A, q, tbl[q])
  BY <1>2 DEF Covered
<1> QED
  BY <1>2, <1>3 DEF Knows

(* A table that does not change brings nothing.                            *)
LEMMA NoArrivals ==
    ASSUME NEW tbl
    PROVE  Arrivals(tbl, tbl) = {}
BY DEF Arrivals, Known

(* The copy that a tick reads.                                             *)
CopyOf(tbl) ==
    {Entry(p, tbl[p].spec, tbl[p].node, tbl[p].phase, FALSE) : p \in DOMAIN tbl}

LEMMA CopyFacts ==
    ASSUME NEW tbl, Table(tbl)
    PROVE  /\ CopyOf(tbl) \in SUBSET Entries
           /\ IsFiniteSet(CopyOf(tbl))
           /\ \A e, f \in CopyOf(tbl) : e.name = f.name => e = f
           /\ \A e \in CopyOf(tbl) : /\ e.name \in DOMAIN tbl
                                     /\ e.spec = tbl[e.name].spec
                                     /\ e.node = tbl[e.name].node
                                     /\ e.phase = tbl[e.name].phase
           /\ \A q \in DOMAIN tbl : \E e \in CopyOf(tbl) :
                /\ e.name = q /\ e.spec = tbl[q].spec
                /\ e.node = tbl[q].node /\ e.phase = tbl[q].phase
<1> DEFINE E(p) == Entry(p, tbl[p].spec, tbl[p].node, tbl[p].phase, FALSE)
<1>1. \A p \in DOMAIN tbl : E(p) \in Entries
  <2>1. \A p \in DOMAIN tbl : /\ p \in Names /\ tbl[p].phase \in Phases
                              /\ tbl[p].node \in Nodes \cup {NoNode}
                              /\ tbl[p].spec \in Specs
    BY DEF Table, Rows
  <2>2. \A p \in Names, m \in Specs, n \in Nodes \cup {NoNode}, ph \in Phases :
           Entry(p, m, n, ph, FALSE) \in Entries
    BY DEF Entry, Entries
  <2> QED
    BY <2>1, <2>2
<1>2. \A p : /\ E(p).name = p /\ E(p).spec = tbl[p].spec
             /\ E(p).node = tbl[p].node /\ E(p).phase = tbl[p].phase
  BY DEF Entry
<1>3. CopyOf(tbl) = {E(p) : p \in DOMAIN tbl}
  BY DEF CopyOf
<1> HIDE DEF E
<1>4. IsFiniteSet(CopyOf(tbl))
  <2> DEFINE f == [p \in DOMAIN tbl |-> E(p)]
  <2>1. f \in Surjection(DOMAIN tbl, CopyOf(tbl))
    BY <1>3 DEF Surjection
  <2>2. IsFiniteSet(DOMAIN tbl)
    BY SchedulerAssumption, FS_Subset DEF Table
  <2> HIDE DEF f
  <2> QED
    BY <2>1, <2>2, FS_Surjection
<1>5. \A e \in CopyOf(tbl) : e.name \in DOMAIN tbl /\ e = E(e.name)
  BY <1>2, <1>3
<1>6. \A e, f \in CopyOf(tbl) : e.name = f.name => e = f
  <2> SUFFICES ASSUME NEW e \in CopyOf(tbl), NEW f \in CopyOf(tbl), e.name = f.name
               PROVE  e = f
    OBVIOUS
  <2>1. e = E(e.name) /\ f = E(f.name)
    BY <1>5
  <2> QED
    BY <2>1, Zenon
<1>7. \A e \in CopyOf(tbl) : /\ e.spec = tbl[e.name].spec
                             /\ e.node = tbl[e.name].node
                             /\ e.phase = tbl[e.name].phase
  BY <1>2, <1>3
<1>8. \A q \in DOMAIN tbl : E(q) \in CopyOf(tbl)
  BY <1>3
<1>9. CopyOf(tbl) \in SUBSET Entries
  BY <1>1, <1>3
<1> QED
  BY <1>2, <1>4, <1>5, <1>6, <1>7, <1>8, <1>9

LEMMA CopyCovers ==
    ASSUME NEW tbl, Table(tbl), NEW c
    PROVE  Covered(CopyOf(tbl), tbl, c)
BY CopyFacts DEF Covered, Knows

-----------------------------------------------------------------------------
(* What the writes do to the table.                                        *)

LEMMA BindFacts ==
    ASSUME NEW tbl, Table(tbl), NEW p \in DOMAIN tbl, NEW n \in Nodes
    PROVE  LET new == BindToNode(tbl, p, n)
           IN  /\ DOMAIN new = DOMAIN tbl
               /\ new[p].node = n /\ new[p].phase = tbl[p].phase
               /\ new[p].spec = tbl[p].spec
               /\ \A q \in DOMAIN tbl \ {p} : new[q] = tbl[q]
               /\ Table(new)
<1> DEFINE new == BindToNode(tbl, p, n)
<1>1. new = [tbl EXCEPT ![p].node = n]
  BY DEF BindToNode
<1>2. tbl[p] \in Rows
  BY DEF Table
<1>3. /\ DOMAIN new = DOMAIN tbl
      /\ \A q \in DOMAIN tbl \ {p} : new[q] = tbl[q]
      /\ new[p] = [tbl[p] EXCEPT !.node = n]
  BY <1>1
<1>4. /\ new[p].node = n /\ new[p].phase = tbl[p].phase
      /\ new[p].spec = tbl[p].spec /\ new[p] \in Rows
  BY <1>2, <1>3 DEF Rows
<1>5. Table(new)
  BY <1>3, <1>4 DEF Table
<1> QED
  BY <1>3, <1>4, <1>5

LEMMA UpsertTable ==
    ASSUME NEW tbl, Table(tbl), NEW p \in Names, NEW i \in Stamps, NEW m \in Manifest[p]
    PROVE  Table(Upsert(tbl, p, NewRow(i, m)))
<1> DEFINE row == NewRow(i, m)
           new == Upsert(tbl, p, row)
<1>1. row \in Rows
  <2>1. m \in Specs /\ m.node \in Nodes \cup {NoNode} /\ m.phase \in Phases
    BY SchedulerAssumption DEF Specs
  <2> QED
    BY <2>1 DEF NewRow, Rows
<1> HIDE DEF row
<1>2. /\ DOMAIN new = DOMAIN tbl \cup {p}
      /\ \A q \in DOMAIN tbl \ {p} : new[q] = tbl[q]
      /\ new[p] = IF p \in DOMAIN tbl
                  THEN [row EXCEPT !.uid = tbl[p].uid, !.created = tbl[p].created]
                  ELSE row
  BY DEF Upsert
<1>3. new[p] \in Rows
  <2>1. CASE p \in DOMAIN tbl
    <3>1. tbl[p].uid \in Stamps /\ tbl[p].created \in Stamps
      BY <2>1 DEF Table, Rows
    <3>2. new[p] = [[row EXCEPT !.uid = tbl[p].uid] EXCEPT !.created = tbl[p].created]
      BY <1>1, <1>2, <2>1
    <3> QED
      BY <1>1, <3>1, <3>2 DEF Rows
  <2>2. CASE p \notin DOMAIN tbl
    BY <1>1, <1>2, <2>2
  <2> QED
    BY <2>1, <2>2
<1> HIDE DEF new
<1>4. Table(new)
  BY <1>2, <1>3 DEF Table
<1> QED
  BY <1>4 DEF new, row

LEMMA RemoveTable ==
    ASSUME NEW tbl, Table(tbl), NEW p
    PROVE  Table(Remove(tbl, p))
BY DEF Table, Remove

LEMMA ReportTable ==
    ASSUME NEW tbl, Table(tbl), NEW p \in DOMAIN tbl, NEW phase \in Phases
    PROVE  Table(UpdateStatus(tbl, p, phase, TRUE))
<1> DEFINE new == UpdateStatus(tbl, p, phase, TRUE)
<1>1. /\ DOMAIN new = DOMAIN tbl
      /\ \A q \in DOMAIN tbl \ {p} : new[q] = tbl[q]
      /\ new[p] = [[tbl[p] EXCEPT !.phase = phase] EXCEPT !.ip = TRUE]
  BY DEF UpdateStatus
<1>2. tbl[p] \in Rows
  BY DEF Table
<1>3. new[p] \in Rows
  BY <1>1, <1>2 DEF Rows
<1> HIDE DEF new
<1>4. Table(new)
  BY <1>1, <1>3 DEF Table
<1> QED
  BY <1>4 DEF new

-----------------------------------------------------------------------------
(* Lemmas about the steps of a tick.                                       *)

LEMMA IdleOK ==
    ASSUME NEW tbl, NEW c
    PROVE  Idle \in Ticks /\ Idle.pc = "idle" /\ TickOK(Idle, tbl, c)
<1>1. None \in Queues
  <2>1. None \in [{} -> Rows]
    BY DEF None
  <2> QED
    BY <2>1 DEF Queues
<1>2. Idle \in Ticks
  BY <1>1 DEF Idle, Ticks
<1> QED
  BY <1>2, FS_EmptySet DEF Idle, TickOK

(* A pod leaves the queue.                                                 *)
LEMMA AfterOK ==
    ASSUME NEW k \in Ticks, NEW p, NEW tbl, NEW c,
           p \in DOMAIN k.queue, TickOK(k, tbl, c), k.pc = "bind"
    PROVE  /\ After(k, p) \in Ticks
           /\ TickOK(After(k, p), tbl, c)
           /\ After(k, p).queue # k.queue
<1>1. CASE DOMAIN k.queue = {p}
  <2>1. After(k, p) = Idle
    BY <1>1 DEF After
  <2>2. DOMAIN Idle.queue = {}
    BY DEF Idle, None
  <2> QED
    BY <1>1, <2>1, <2>2, IdleOK
<1>2. CASE DOMAIN k.queue # {p}
  <2> DEFINE q == [o \in DOMAIN k.queue \ {p} |-> k.queue[o]]
  <2>1. q \in Queues /\ DOMAIN q # {} /\ DOMAIN q = DOMAIN k.queue \ {p}
    <3>1. PICK S \in SUBSET Names : k.queue \in [S -> Rows]
      BY DEF Ticks, Queues
    <3>2. q \in [S \ {p} -> Rows]
      BY <3>1
    <3> QED
      BY <1>2, <3>1, <3>2 DEF Queues
  <2> HIDE DEF q
  <2> DEFINE t == [k EXCEPT !.queue = q]
  <2>2. After(k, p) = t
    BY <1>2 DEF After, q
  <2>3. t \in Ticks /\ t.pc = k.pc /\ t.queue = q /\ t.nodes = k.nodes
        /\ t.existing = k.existing
    BY <2>1 DEF Ticks
  <2> HIDE DEF t
  <2> QED
    BY <2>1, <2>2, <2>3 DEF TickOK
<1> QED
  BY <1>1, <1>2

(***************************************************************************)
(* A step keeps the invariant when the ticks it moves are as they should,  *)
(* and the history is as Crowd writes it.                                  *)
(***************************************************************************)
LEMMA StepInv ==
    ASSUME IInv, NEW knowing, Crowd(knowing), Table(pods'),
           creates' \in Stamps, flaps' \in Nat, ready' \subseteq Nodes,
           sched' \in [Schedulers -> Ticks],
           \A t \in Schedulers :
              \/ sched'[t] = sched[t] /\ t \notin knowing
              \/ TickOK(sched'[t], pods', crowded'[t])
    PROVE  IInv'
<1>1. /\ crowded \in [Schedulers -> SUBSET Nodes]
      /\ \A n, m : Arrivals(n, m) \subseteq Nodes
  BY DEF IInv, TypeOK, Arrivals
<1>2. /\ crowded' \in [Schedulers -> SUBSET Nodes]
      /\ \A t \in Schedulers : sched'[t].pc = "bind" =>
           /\ crowded[t] \subseteq crowded'[t]
           /\ t \notin knowing => Arrivals(pods, pods') \subseteq crowded'[t]
  BY <1>1 DEF Crowd
<1>3. TypeOK'
  BY <1>2 DEF TypeOK, Table
<1>4. TicksOK'
  <2> SUFFICES ASSUME NEW t \in Schedulers, sched'[t] = sched[t], t \notin knowing
               PROVE  TickOK(sched'[t], pods', crowded'[t])
    BY DEF TicksOK
  <2>1. TickOK(sched[t], pods, crowded[t])
    BY DEF IInv, TicksOK
  <2>2. sched'[t].pc = "bind" => Covered(sched'[t].existing, pods', crowded'[t])
    BY <1>2, <2>1, CoveredKept DEF TickOK
  <2> QED
    BY <2>1, <2>2 DEF TickOK
<1> QED
  BY <1>3, <1>4 DEF IInv

(* The same, for a step that moves the tick of s to k.                     *)
LEMMA TickInv ==
    ASSUME IInv, NEW knowing, Crowd(knowing), Table(pods'),
           creates' \in Stamps, flaps' \in Nat, ready' \subseteq Nodes,
           NEW s \in Schedulers, knowing \subseteq {s}, NEW k \in Ticks,
           sched' = [sched EXCEPT ![s] = k], TickOK(k, pods', crowded'[s])
    PROVE  IInv'
<1>1. /\ sched' \in [Schedulers -> Ticks] /\ sched'[s] = k
      /\ \A t \in Schedulers \ {s} : sched'[t] = sched[t]
  BY DEF IInv, TypeOK
<1> QED
  BY <1>1, StepInv

(***************************************************************************)
(* What a bind is: the pod that was listed first, and a node that passed   *)
(* every predicate for the manifest as it was listed.                      *)
(***************************************************************************)
LEMMA BindStep ==
    ASSUME IInv, NEW s \in Schedulers, Bind(s)
    PROVE  LET p == Oldest(sched[s].queue)
               spec == sched[s].queue[p].spec
           IN  /\ p \in Names /\ p \in DOMAIN sched[s].queue /\ spec \in Specs
               /\ \E n \in Nodes :
                    /\ n \in Candidates(spec, sched[s].nodes, sched[s].existing)
                    /\ pods' = BindToNode(pods, p, n)
                    /\ sched' = [sched EXCEPT ![s] = After(Pushed(sched[s], p, n), p)]
<1>1. PICK k : k = sched[s]
  OBVIOUS
<1> DEFINE p == Oldest(k.queue)
           spec == k.queue[p].spec
<1>2. k \in Ticks /\ TickOK(k, pods, crowded[s]) /\ k.pc = "bind"
  BY <1>1 DEF IInv, TypeOK, TicksOK, Bind
<1>3. k.queue \in Queues /\ DOMAIN k.queue # {} /\ k.nodes \subseteq Nodes
  BY <1>2 DEF TickOK, Ticks
<1>4. p \in DOMAIN k.queue /\ p \in Names /\ k.queue[p] \in Rows
  BY <1>3, OldestIsQueued
<1>5. spec \in Specs
  BY <1>4 DEF Rows
<1>6. PICK n \in FindNode(spec, k.nodes, k.existing) :
         /\ pods' = BindToNode(pods, p, n)
         /\ sched' = [sched EXCEPT ![s] = After(Pushed(@, p, n), p)]
  BY <1>1 DEF Bind
<1> HIDE DEF p, spec
<1>7. n \in Candidates(spec, k.nodes, k.existing) /\ n \in Nodes
  <2>1. n \in Candidates(spec, k.nodes, k.existing)
    BY <1>6, FindNodeIsCandidate
  <2> QED
    BY <1>3, <2>1 DEF Candidates
<1>8. sched' = [sched EXCEPT ![s] = After(Pushed(sched[s], p, n), p)]
  BY <1>6 DEF IInv, TypeOK
<1> QED
  BY <1>1, <1>4, <1>5, <1>6, <1>7, <1>8 DEF p, spec

(* The copy pushed after a bind tells the tick of the pod it has bound.    *)
LEMMA PushCovers ==
    ASSUME NEW tbl, Table(tbl), NEW p \in DOMAIN tbl, NEW n \in Nodes, NEW A, NEW c,
           Covered(A, tbl, c)
    PROVE  Covered(A \cup {Entry(p, tbl[p].spec, n, "Pending", TRUE)},
                   BindToNode(tbl, p, n), c)
<1> DEFINE new == BindToNode(tbl, p, n)
           x == Entry(p, tbl[p].spec, n, "Pending", TRUE)
<1>1. /\ x.name = p /\ x.node = n /\ x.spec = tbl[p].spec /\ x.phase \notin Terminal
  BY DEF Entry, Terminal
<1>2. /\ DOMAIN new = DOMAIN tbl /\ new[p].node = n /\ new[p].spec = tbl[p].spec
      /\ \A q \in DOMAIN tbl \ {p} : new[q] = tbl[q]
  BY BindFacts
<1> HIDE DEF new, x
<1>3. Knows(A \cup {x}, p, new[p])
  BY <1>1, <1>2 DEF Knows
<1>4. ASSUME NEW q \in DOMAIN tbl \ {p}, new[q].node \in Nodes \ c
      PROVE  Knows(A \cup {x}, q, new[q])
  <2>1. Knows(A, q, new[q])
    BY <1>2, <1>4 DEF Covered
  <2> QED
    BY <2>1 DEF Knows
<1>5. Covered(A \cup {x}, new, c)
  BY <1>2, <1>3, <1>4 DEF Covered
<1> QED
  BY <1>5 DEF new, x

LEMMA BindKeepsInv ==
    ASSUME IInv, NEW s \in Schedulers, Bind(s)
    PROVE  IInv'
<1>1. PICK k : k = sched[s]
  OBVIOUS
<1>2. PICK p : p = Oldest(k.queue)
  OBVIOUS
<1>3. PICK spec : spec = k.queue[p].spec
  OBVIOUS
<1>4. p \in Names /\ p \in DOMAIN k.queue /\ spec \in Specs
  BY <1>1, <1>2, <1>3, BindStep
<1>5. PICK n \in Nodes :
         /\ pods' = BindToNode(pods, p, n)
         /\ sched' = [sched EXCEPT ![s] = After(Pushed(k, p, n), p)]
  BY <1>1, <1>2, <1>3, BindStep
<1> DEFINE x == Entry(p, spec, n, "Pending", TRUE)
           j == Pushed(k, p, n)
           t == After(j, p)
           K == IF AsListed(s) THEN {s} ELSE {}
<1>6. UNCHANGED <<ready, creates, flaps>> /\ k.pc = "bind" /\ Crowd(K)
  BY <1>1 DEF Bind
<1>7. k \in Ticks /\ TickOK(k, pods, crowded[s]) /\ Table(pods)
  BY <1>1 DEF IInv, TypeOK, TicksOK, Table
<1>8. Table(pods')
  <2>1. CASE p \in DOMAIN pods
    BY <1>5, <1>7, <2>1, BindFacts
  <2>2. CASE p \notin DOMAIN pods
    BY <1>5, <1>7, <2>2 DEF BindToNode
  <2> QED
    BY <2>1, <2>2
<1>9. x \in Entries
  BY <1>4 DEF Entry, Entries, Phases
<1> HIDE DEF x, K
<1>10. /\ j \in Ticks /\ j.pc = k.pc /\ j.queue = k.queue /\ j.nodes = k.nodes
       /\ j.existing = k.existing \cup {x} /\ IsFiniteSet(j.existing)
  <2>1. j = [k EXCEPT !.existing = @ \cup {x}]
    BY <1>3 DEF Pushed, x
  <2>2. IsFiniteSet(k.existing \cup {x})
    BY <1>7, FS_AddElement DEF TickOK
  <2> QED
    BY <1>7, <1>9, <2>1, <2>2 DEF Ticks
<1> HIDE DEF j
<1>11. sched' = [sched EXCEPT ![s] = t]
  BY <1>5 DEF j
<1>13. ASSUME sched'[s].pc = "bind"
       PROVE  Covered(j.existing, pods', crowded'[s])
  <2>1. /\ crowded[s] \subseteq crowded'[s]
        /\ s \notin K => Arrivals(pods, pods') \subseteq crowded'[s]
    BY <1>6, <1>13 DEF Crowd
  <2>2. Covered(k.existing, pods, crowded[s])
    BY <1>6, <1>7 DEF TickOK
  <2>3. CASE p \notin DOMAIN pods
    <3>1. pods' = pods
      BY <1>5, <2>3 DEF BindToNode
    <3>2. Arrivals(pods, pods') \subseteq crowded'[s]
      BY <3>1, NoArrivals
    <3> QED
      BY <1>10, <2>1, <2>2, <3>2, CoveredKept
  <2>4. CASE s \notin K
    BY <1>10, <2>1, <2>2, <2>4, CoveredKept
  <2>5. CASE p \in DOMAIN pods /\ s \in K
    <3>1. pods[p].spec = spec
      BY <1>1, <1>2, <1>3, <2>5 DEF K, AsListed
    <3>2. Covered(j.existing, pods', crowded[s])
      BY <1>5, <1>7, <1>10, <2>2, <2>5, <3>1, PushCovers DEF x
    <3> QED
      BY <2>1, <3>2 DEF Covered
  <2> QED
    BY <2>3, <2>4, <2>5
<1>14. t \in Ticks /\ TickOK(t, pods', crowded'[s])
  <2>1. CASE DOMAIN j.queue = {p}
    BY <2>1, IdleOK DEF After
  <2>2. CASE DOMAIN j.queue # {p}
    <3>1. t = [j EXCEPT !.queue = [o \in DOMAIN j.queue \ {p} |-> j.queue[o]]]
      BY <2>2 DEF After
    <3>2. t.pc = "bind"
      BY <1>6, <1>10, <3>1 DEF Ticks
    <3>3. sched'[s] = t
      BY <1>11 DEF IInv, TypeOK
    <3>4. TickOK(j, pods', crowded'[s])
      BY <1>4, <1>10, <1>13, <3>2, <3>3 DEF TickOK
    <3> QED
      BY <1>4, <1>6, <1>10, <3>4, AfterOK
  <2> QED
    BY <2>1, <2>2
<1> HIDE DEF t
<1>15. K \subseteq {s}
  BY DEF K
<1>16. creates' \in Stamps /\ flaps' \in Nat /\ ready' \subseteq Nodes
  BY <1>6 DEF IInv, TypeOK
<1> QED
  BY <1>6, <1>8, <1>11, <1>14, <1>15, <1>16, TickInv

(* The steps of a tick that leave the table alone.                         *)
LEMMA TickKeepsInv ==
    ASSUME IInv, NEW s \in Schedulers, Step(s), ~Bind(s)
    PROVE  IInv' /\ UNCHANGED pods
<1>1. PICK k : k = sched[s]
  OBVIOUS
<1>2. /\ k \in Ticks /\ TickOK(k, pods, crowded[s]) /\ Table(pods)
      /\ sched \in [Schedulers -> Ticks] /\ crowded \in [Schedulers -> SUBSET Nodes]
  BY <1>1 DEF IInv, TypeOK, TicksOK, Table
<1>3. creates \in Stamps /\ flaps \in Nat /\ ready \subseteq Nodes
  BY DEF IInv, TypeOK
<1>4. ASSUME UNCHANGED <<pods, ready, creates>>, flaps' \in Nat, Crowd({}),
             NEW t \in Ticks, sched' = [sched EXCEPT ![s] = t],
             TickOK(t, pods, crowded'[s])
      PROVE  IInv' /\ UNCHANGED pods
  <2>1. Table(pods') /\ creates' \in Stamps /\ ready' \subseteq Nodes
    BY <1>2, <1>3, <1>4
  <2>2. TickOK(t, pods', crowded'[s])
    BY <1>4
  <2> DEFINE K == {}
  <2>3. K \subseteq {s} /\ Crowd(K)
    BY <1>4
  <2> HIDE DEF K
  <2>4. IInv'
    BY <1>4, <2>1, <2>2, <2>3, TickInv
  <2> QED
    BY <1>4, <2>4
<1>5. CASE ListUnscheduled(s)
  <2> DEFINE q == [p \in Unscheduled |-> pods[p]]
             t == [Idle EXCEPT !.pc = "nodes", !.queue = q]
  <2>1. /\ sched' = [sched EXCEPT ![s] = t]
        /\ Unscheduled # {}
        /\ UNCHANGED <<pods, ready, creates, flaps>> /\ Crowd({})
    BY <1>5, Zenon DEF ListUnscheduled
  <2>2. q \in Queues /\ DOMAIN q = Unscheduled
    <3>1. Unscheduled \in SUBSET Names /\ \A p \in Unscheduled : pods[p] \in Rows
      BY <1>2 DEF Unscheduled, Table
    <3>2. q \in [Unscheduled -> Rows]
      BY <3>1
    <3> QED
      BY <3>1, <3>2 DEF Queues
  <2>3. /\ t \in Ticks /\ t.pc = "nodes" /\ t.queue = q
        /\ IsFiniteSet(t.existing)
    <3> HIDE DEF q
    <3>1. Idle \in Ticks /\ IsFiniteSet(Idle.existing)
      BY IdleOK DEF TickOK
    <3>2. t = [[Idle EXCEPT !.pc = "nodes"] EXCEPT !.queue = q]
      BY <3>1 DEF Ticks
    <3> QED
      BY <2>2, <3>1, <3>2 DEF Ticks
  <2>4. TickOK(t, pods, crowded'[s])
    <3> HIDE DEF t, q
    <3> QED
      BY <2>1, <2>2, <2>3 DEF TickOK
  <2> HIDE DEF t
  <2> QED
    BY <1>3, <1>4, <2>1, <2>3, <2>4
<1>6. CASE ListReady(s)
  <2>1. /\ k.pc = "nodes" /\ UNCHANGED <<pods, ready, creates, flaps>> /\ Crowd({})
    BY <1>1, <1>6 DEF ListReady
  <2>2. CASE ready = {}
    <3>1. sched' = [sched EXCEPT ![s] = Idle]
      BY <1>6, <2>2 DEF ListReady
    <3> QED
      BY <1>3, <1>4, <2>1, <3>1, IdleOK
  <2>3. CASE ready # {}
    <3> DEFINE t == [k EXCEPT !.pc = "pods", !.nodes = ready]
    <3>1. sched' = [sched EXCEPT ![s] = t]
      BY <1>1, <1>2, <1>6, <2>3 DEF ListReady
    <3>2. t = [[k EXCEPT !.pc = "pods"] EXCEPT !.nodes = ready]
      BY <1>2 DEF Ticks
    <3>3. /\ t \in Ticks /\ t.pc = "pods" /\ t.queue = k.queue
          /\ t.existing = k.existing
      BY <1>2, <1>3, <3>2 DEF Ticks
    <3> HIDE DEF t
    <3>4. TickOK(t, pods, crowded'[s])
      BY <1>2, <2>1, <3>3 DEF TickOK
    <3> QED
      BY <1>3, <1>4, <2>1, <3>1, <3>3, <3>4
  <2> QED
    BY <2>2, <2>3
<1>7. ASSUME NEW A \in SUBSET Entries, IsFiniteSet(A), k.pc = "pods",
             sched' = [sched EXCEPT ![s].pc = "bind", ![s].existing = A],
             Covered(A, pods, crowded'[s])
      PROVE  \E t \in Ticks : /\ sched' = [sched EXCEPT ![s] = t]
                              /\ TickOK(t, pods, crowded'[s])
  <2> DEFINE t == [k EXCEPT !.pc = "bind", !.existing = A]
  <2>1. sched' = [sched EXCEPT ![s] = t]
    BY <1>1, <1>2, <1>7
  <2>2. t = [[k EXCEPT !.pc = "bind"] EXCEPT !.existing = A]
    BY <1>2 DEF Ticks
  <2>3. /\ t \in Ticks /\ t.pc = "bind" /\ t.queue = k.queue /\ t.existing = A
    BY <1>2, <1>7, <2>2 DEF Ticks
  <2> HIDE DEF t
  <2>4. TickOK(t, pods, crowded'[s])
    BY <1>2, <1>7, <2>3 DEF TickOK
  <2> QED
    BY <2>1, <2>3, <2>4
<1>8. CASE ListExisting(s)
  <2>1. Snapshot = CopyOf(pods)
    BY DEF Snapshot, CopyOf
  <2>2. /\ Covered(Snapshot, pods, crowded'[s])
        /\ Snapshot \in SUBSET Entries /\ IsFiniteSet(Snapshot)
    BY <1>2, <2>1, CopyCovers, CopyFacts
  <2>3. /\ k.pc = "pods" /\ UNCHANGED <<pods, ready, creates, flaps>> /\ Crowd({})
        /\ sched' = [sched EXCEPT ![s].pc = "bind", ![s].existing = Snapshot]
    BY <1>1, <1>8 DEF ListExisting
  <2>4. PICK A : A = Snapshot
    OBVIOUS
  <2>5. PICK t \in Ticks : /\ sched' = [sched EXCEPT ![s] = t]
                           /\ TickOK(t, pods, crowded'[s])
    BY <1>7, <2>2, <2>3, <2>4
  <2> QED
    BY <1>3, <1>4, <2>3, <2>5
<1>9. CASE ListExistingErr(s)
  <2>1. /\ k.pc = "pods" /\ UNCHANGED <<pods, ready, creates>> /\ flaps' = flaps + 1
        /\ crowded' = [crowded EXCEPT ![s] = Nodes]
        /\ sched' = [sched EXCEPT ![s].pc = "bind", ![s].existing = {}]
    BY <1>1, <1>9 DEF ListExistingErr, Flap
  <2>2. /\ crowded' \in [Schedulers -> SUBSET Nodes] /\ crowded'[s] = Nodes
        /\ \A v \in Schedulers \ {s} : crowded'[v] = crowded[v]
    BY <1>2, <2>1
  <2>3. Covered({}, pods, crowded'[s])
    BY <2>2 DEF Covered
  <2>4. PICK t \in Ticks : /\ sched' = [sched EXCEPT ![s] = t]
                           /\ TickOK(t, pods, crowded'[s])
    BY <1>7, <2>1, <2>3, FS_EmptySet
  <2>5. /\ sched' \in [Schedulers -> Ticks] /\ sched'[s] = t
        /\ \A v \in Schedulers \ {s} : sched'[v] = sched[v]
    BY <1>2, <2>4
  <2>6. TypeOK'
    BY <1>2, <1>3, <2>1, <2>2, <2>5 DEF TypeOK, Table
  <2>7. TicksOK'
    BY <2>1, <2>2, <2>4, <2>5 DEF IInv, TicksOK
  <2> QED
    BY <2>1, <2>6, <2>7 DEF IInv
<1>10. ASSUME k.pc = "bind", UNCHANGED <<pods, ready, creates>>, flaps' \in Nat,
              Crowd({}), sched' = [sched EXCEPT ![s] = After(k, Oldest(k.queue))]
       PROVE  IInv' /\ UNCHANGED pods
  <2>1. Oldest(k.queue) \in DOMAIN k.queue
    BY <1>2, <1>10, OldestIsQueued DEF TickOK, Ticks
  <2> DEFINE t == After(k, Oldest(k.queue))
  <2>2. t \in Ticks
    BY <1>2, <1>10, <2>1, AfterOK
  <2>3. sched'[s] = t
    BY <1>2, <1>10
  <2>4. TickOK(t, pods, crowded'[s])
    <3>1. CASE t.pc = "bind"
      <4>1. crowded[s] \subseteq crowded'[s]
        BY <1>10, <2>3, <3>1 DEF Crowd
      <4>2. TickOK(k, pods, crowded'[s])
        BY <1>2, <4>1 DEF TickOK, Covered
      <4> QED
        BY <1>10, <2>1, <4>2, <1>2, AfterOK
    <3>2. CASE t.pc # "bind"
      <4>1. TickOK(t, pods, crowded[s])
        BY <1>2, <1>10, <2>1, AfterOK
      <4> HIDE DEF t
      <4> QED
        BY <3>2, <4>1 DEF TickOK
    <3> QED
      BY <3>1, <3>2
  <2> HIDE DEF t
  <2>5. sched' = [sched EXCEPT ![s] = t]
    BY <1>10 DEF t
  <2> QED
    BY <1>4, <1>10, <2>2, <2>4, <2>5
<1>11. CASE Skip(s)
  BY <1>1, <1>2, <1>3, <1>10, <1>11 DEF Skip
<1>12. CASE BindErr(s)
  BY <1>1, <1>2, <1>3, <1>10, <1>12 DEF BindErr, Flap
<1>13. CASE ListReadyErr(s)
  <2>1. /\ UNCHANGED <<pods, ready, creates>> /\ flaps' = flaps + 1 /\ Crowd({})
        /\ sched' = [sched EXCEPT ![s] = Idle]
    BY <1>13 DEF ListReadyErr, Flap
  <2>2. Idle \in Ticks /\ TickOK(Idle, pods, crowded'[s])
    BY IdleOK
  <2>3. flaps' \in Nat
    BY <1>3, <2>1
  <2> QED
    BY <1>4, <2>1, <2>2, <2>3
<1> QED
  BY <1>5, <1>6, <1>8, <1>9, <1>11, <1>12, <1>13 DEF Step

LEMMA EnvironmentKeepsInv ==
    ASSUME IInv, Environment
    PROVE  IInv' /\ sched' = sched
<1>1. /\ Table(pods) /\ creates \in Stamps /\ flaps \in Nat
      /\ ready \subseteq Nodes /\ sched \in [Schedulers -> Ticks]
  BY DEF IInv, TypeOK, Table
<1>2. MaxCreates \in Nat
  BY SchedulerAssumption
<1>3. ASSUME sched' = sched, Table(pods'), Crowd({}), ready' = ready,
             creates' \in Stamps, flaps' \in Nat
      PROVE  IInv' /\ sched' = sched
  BY <1>1, <1>3, StepInv
<1>4. ASSUME NEW p \in Names, NEW m \in Manifest[p], UserCreate(p, m)
      PROVE  IInv' /\ sched' = sched
  <2>1. /\ creates + 1 \in Stamps /\ creates' = creates + 1
        /\ pods' = Upsert(pods, p, NewRow(creates + 1, m))
        /\ UNCHANGED <<ready, sched, flaps>> /\ Crowd({})
    BY <1>1, <1>2, <1>4 DEF UserCreate, Stamps
  <2> QED
    BY <1>1, <1>3, <2>1, UpsertTable
<1>5. ASSUME NEW p \in Names, NEW m \in Manifest[p], UserApply(p, m)
      PROVE  IInv' /\ sched' = sched
  <2>1. /\ flaps' \in Nat /\ 0 \in Stamps
        /\ pods' = Upsert(pods, p, NewRow(0, m))
        /\ UNCHANGED <<ready, sched, creates>> /\ Crowd({})
    BY <1>1, <1>2, <1>5 DEF UserApply, Stamps, Flap
  <2> QED
    BY <1>1, <1>3, <2>1, UpsertTable
<1>6. ASSUME NEW p \in Names, UserDelete(p)
      PROVE  IInv' /\ sched' = sched
  <2>1. /\ flaps' \in Nat /\ pods' = Remove(pods, p)
        /\ UNCHANGED <<ready, sched, creates>> /\ Crowd({})
    BY <1>1, <1>6 DEF UserDelete, Flap
  <2> QED
    BY <1>1, <1>3, <2>1, RemoveTable
<1>7. ASSUME NEW p \in Names, NEW ph \in Phases, Report(p, ph)
      PROVE  IInv' /\ sched' = sched
  <2>1. /\ flaps' \in Nat /\ p \in DOMAIN pods
        /\ pods' = UpdateStatus(pods, p, ph, TRUE)
        /\ UNCHANGED <<ready, sched, creates>> /\ Crowd({})
    BY <1>1, <1>7 DEF Report, Flap
  <2> QED
    BY <1>1, <1>3, <2>1, ReportTable
<1>8. ASSUME NEW n \in Nodes, NodeFlap(n)
      PROVE  IInv' /\ sched' = sched
  <2>1. /\ flaps' \in Nat /\ UNCHANGED <<pods, sched, creates, crowded>>
        /\ ready' = IF n \in ready THEN ready \ {n} ELSE ready \cup {n}
    BY <1>1, <1>8 DEF NodeFlap, Flap
  <2>2. TypeOK' /\ TicksOK'
    BY <1>1, <2>1 DEF IInv, TypeOK, TicksOK
  <2> QED
    BY <2>1, <2>2 DEF IInv
<1> QED
  BY <1>4, <1>5, <1>6, <1>7, <1>8 DEF Environment

LEMMA InitInv ==
    Init => IInv
<1> SUFFICES ASSUME Init PROVE IInv
  OBVIOUS
<1>1. sched = [s \in Schedulers |-> Idle] /\ pods = None /\ DOMAIN pods = {}
  BY DEF Init, None
<1>2. TypeOK
  BY <1>1, IdleOK, SchedulerAssumption DEF Init, TypeOK, Stamps
<1>3. TicksOK
  BY <1>1, IdleOK DEF TicksOK
<1> QED
  BY <1>2, <1>3 DEF IInv

LEMMA NextInv ==
    ASSUME IInv, [Next]_vars
    PROVE  IInv'
<1>1. CASE UNCHANGED vars
  <2>1. UNCHANGED <<pods, ready, sched, creates, flaps, crowded>>
    BY <1>1 DEF vars
  <2> QED
    BY <2>1 DEF IInv, TypeOK, TicksOK
<1>2. CASE Environment
  BY <1>2, EnvironmentKeepsInv
<1>3. ASSUME NEW s \in Schedulers, Step(s)
      PROVE  IInv'
  BY <1>3, BindKeepsInv, TickKeepsInv
<1> QED
  BY <1>1, <1>2, <1>3 DEF Next

LEMMA AlwaysInv ==
    Spec => []IInv
<1>1. IInv /\ [Next]_vars => IInv'
  BY NextInv
<1> QED
  BY <1>1, InitInv, PTL DEF Spec

-----------------------------------------------------------------------------
(***************************************************************************)
(* Type correctness of the scheduler's tables, ticks and history.          *)
(***************************************************************************)
THEOREM SchedulerTypeCorrect == Spec => []TypeOK
<1>1. IInv => TypeOK
  BY DEF IInv
<1> QED
  BY <1>1, AlwaysInv, PTL

(* A step that moves a tick at work binds its oldest pod, or none.         *)
LEMMA MovesByBind ==
    ASSUME IInv, [Next]_vars, NEW s \in Schedulers, sched'[s] # sched[s]
    PROVE  Bind(s) \/ UNCHANGED pods
<1>1. ~Environment
  BY EnvironmentKeepsInv
<1>2. PICK t \in Schedulers : Step(t)
  BY <1>1 DEF Next, vars
<1>3. CASE t = s
  BY <1>2, <1>3, TickKeepsInv
<1>4. CASE t # s
  BY <1>2, <1>4 DEF Step, ListUnscheduled, ListReady, ListExisting, ListExistingErr,
        Bind, Skip, BindErr, ListReadyErr, IInv, TypeOK
<1> QED
  BY <1>3, <1>4

(***************************************************************************)
(* What is known of a bind whose pod still has the manifest that was       *)
(* listed.                                                                 *)
(***************************************************************************)
LEMMA BindAsListed ==
    ASSUME IInv, NEW s \in Schedulers, Bind(s), AsListed(s),
           Oldest(sched[s].queue) \in DOMAIN pods
    PROVE  LET p == Oldest(sched[s].queue)
               A == sched[s].existing
           IN  /\ Table(pods) /\ A \in SUBSET Entries /\ IsFiniteSet(A)
               /\ Covered(A, pods, crowded[s])
               /\ \E n \in Nodes :
                    /\ AffinityHolds(pods[p].spec, n, sched[s].nodes, A)
                    /\ NodeFits(pods[p].spec, n, A)
                    /\ pods' = BindToNode(pods, p, n)
<1>1. PICK k : k = sched[s]
  OBVIOUS
<1>2. PICK p : p = Oldest(k.queue)
  OBVIOUS
<1>3. /\ k \in Ticks /\ TickOK(k, pods, crowded[s]) /\ k.pc = "bind" /\ Table(pods)
  BY <1>1 DEF IInv, TypeOK, TicksOK, Table, Bind
<1>4. /\ k.existing \in SUBSET Entries /\ IsFiniteSet(k.existing)
      /\ Covered(k.existing, pods, crowded[s])
  BY <1>3 DEF Ticks, TickOK
<1>5. pods[p].spec = k.queue[p].spec
  BY <1>1, <1>2 DEF AsListed
<1>6. PICK n \in Nodes : /\ n \in Candidates(pods[p].spec, k.nodes, k.existing)
                         /\ pods' = BindToNode(pods, p, n)
  BY <1>1, <1>2, <1>5, BindStep
<1>7. /\ AffinityHolds(pods[p].spec, n, k.nodes, k.existing)
      /\ NodeFits(pods[p].spec, n, k.existing)
  BY <1>6 DEF Candidates
<1> QED
  BY <1>1, <1>2, <1>3, <1>4, <1>6, <1>7

(***************************************************************************)
(* A pod is bound apart from those whose company it refuses                *)
(* (pod_affinity_satisfied, scheduler.rs:515-577), however the tables and  *)
(* the manifests change during a tick, where the tick can know of them.    *)
(***************************************************************************)
THEOREM SchedulerKeepsAntiAffinity == Spec => AntiAffinityKept
<1> DEFINE Keeps(s) ==
         sched[s].pc = "bind" /\ sched'[s] # sched[s] /\ AsListed(s) =>
         LET p == Oldest(sched[s].queue)
         IN  \A q \in DOMAIN pods \ {p} :
               /\ p \in DOMAIN pods /\ Refuses(p, q)
               /\ pods[q].node \in sched[s].nodes \ crowded[s]
               /\ Machine[pods[q].node].zone # NoZone
               /\ pods'[p].node # pods[p].node
               => Machine[pods'[p].node].zone # Machine[pods[q].node].zone
<1>1. ASSUME IInv, [Next]_vars, NEW s \in Schedulers
      PROVE  Keeps(s)
  <2>1. PICK p : p = Oldest(sched[s].queue)
    OBVIOUS
  <2> SUFFICES ASSUME sched'[s] # sched[s], AsListed(s), NEW q \in DOMAIN pods \ {p},
                      p \in DOMAIN pods, Refuses(p, q),
                      pods[q].node \in sched[s].nodes \ crowded[s],
                      Machine[pods[q].node].zone # NoZone,
                      pods'[p].node # pods[p].node
               PROVE  Machine[pods'[p].node].zone # Machine[pods[q].node].zone
    BY <2>1
  <2>2. Bind(s)
    BY <1>1, MovesByBind
  <2>3. PICK A : A = sched[s].existing
    OBVIOUS
  <2>4. Table(pods) /\ Covered(A, pods, crowded[s])
    BY <1>1, <2>1, <2>2, <2>3, BindAsListed
  <2>5. PICK n \in Nodes : /\ AffinityHolds(pods[p].spec, n, sched[s].nodes, A)
                           /\ pods' = BindToNode(pods, p, n)
    BY <1>1, <2>1, <2>2, <2>3, BindAsListed
  <2>6. pods'[p].node = n
    BY <2>4, <2>5, BindFacts
  <2>7. sched[s].nodes \subseteq Nodes
    BY <1>1 DEF IInv, TypeOK, Ticks
  <2>8. PICK e \in A : e.node = pods[q].node /\ e.spec = pods[q].spec
    BY <2>4, <2>7 DEF Covered, Knows
  <2>9. pods[p].spec.anti = pods[q].spec.app /\ pods[p].spec.anti # "none"
    BY <2>4, SchedulerAssumption DEF Refuses, Table, Rows
  <2>10. ~SharesZone(pods[p].spec.anti, n, sched[s].nodes, A)
    BY <2>5, <2>9 DEF AffinityHolds
  <2> QED
    BY <2>6, <2>8, <2>9, <2>10 DEF SharesZone, ZoneOf
<1>2. IInv /\ [Next]_vars => [\A s \in Schedulers : Keeps(s)]_vars
  BY <1>1
<1> QED
  BY <1>2, AlwaysInv, PTL DEF Spec, AntiAffinityKept

-----------------------------------------------------------------------------
(***************************************************************************)
(* Room for one resource on a node that is not crowded: on the node of the *)
(* bind the capacity predicate counted at least what is there, elsewhere   *)
(* nothing is added.                                                       *)
(***************************************************************************)
LEMMA BindUsed ==
    ASSUME NEW asked \in Asks, NEW m \in Nodes, NEW limit \in Nat,
           NEW tbl, Table(tbl), NEW p \in DOMAIN tbl, NEW n \in Nodes,
           NEW A \in SUBSET Entries, IsFiniteSet(A), NEW c, m \notin c,
           Covered(A, tbl, c),
           m = n /\ asked[tbl[p].spec] > 0 =>
               Used(asked, n, A) + asked[tbl[p].spec] <= limit
    PROVE  ~(/\ Used(asked, m, CopyOf(BindToNode(tbl, p, n))) > limit
             /\ Used(asked, m, CopyOf(BindToNode(tbl, p, n))) > Used(asked, m, CopyOf(tbl)))
<1> DEFINE new == BindToNode(tbl, p, n)
           x == Entry(p, tbl[p].spec, n, "Pending", TRUE)
           B == A \cup {x}
<1>1. /\ DOMAIN new = DOMAIN tbl
      /\ new[p].node = n /\ new[p].phase = tbl[p].phase /\ new[p].spec = tbl[p].spec
      /\ \A q \in DOMAIN tbl \ {p} : new[q] = tbl[q]
      /\ Table(new)
  BY BindFacts
<1>2. p \in Names /\ tbl[p].spec \in Specs /\ asked[tbl[p].spec] \in Nat
  BY DEF Table, Asks, Rows
<1>3. Covered(B, new, c)
  BY PushCovers
<1>4. x \in Entries /\ x.spec = tbl[p].spec
  BY <1>2 DEF Entry, Entries, Phases
<1> HIDE DEF new, x
<1>5. B \in SUBSET Entries /\ IsFiniteSet(B)
  BY <1>4, FS_AddElement
<1>6. /\ Used(asked, m, CopyOf(new)) \in Nat /\ Used(asked, m, CopyOf(tbl)) \in Nat
      /\ Used(asked, n, A) \in Nat /\ Used(asked, n, B) \in Nat
  BY <1>1, <1>5, CopyFacts, UnitsFinite
<1>7. CASE m = n /\ asked[tbl[p].spec] > 0
  <2>1. ASSUME NEW e \in On(n, CopyOf(new))
        PROVE  \E f \in On(n, B) : f.name = e.name /\ f.spec = e.spec
    <3>1. /\ e.name \in DOMAIN new /\ new[e.name].node = n /\ new[e.name].spec = e.spec
          /\ new[e.name].phase \notin Terminal
      BY <1>1, CopyFacts DEF On
    <3>2. Knows(B, e.name, new[e.name])
      BY <1>3, <1>7, <3>1 DEF Covered
    <3> QED
      BY <3>1, <3>2 DEF Knows, On
  <2> HIDE DEF B
  <2>2. Used(asked, n, CopyOf(new)) <= Used(asked, n, B)
    <3> DEFINE C == CopyOf(new)
    <3>1. C \in SUBSET Entries /\ \A e, f \in C : e.name = f.name => e = f
      BY <1>1, CopyFacts
    <3>2. \A e \in On(n, C) : asked[e.spec] > 0 =>
             \E f \in On(n, B) : f.name = e.name /\ f.spec = e.spec
      BY <2>1
    <3> HIDE DEF C
    <3>3. Used(asked, n, C) <= Used(asked, n, B)
      BY <1>5, <3>1, <3>2, UsedMono
    <3> QED
      BY <3>3 DEF C
  <2>3. Used(asked, n, B) <= Used(asked, n, A) + asked[tbl[p].spec]
    BY <1>4, UsedPush DEF B
  <2> QED
    BY <1>2, <1>6, <1>7, <2>2, <2>3 DEF new
<1>8. CASE ~(m = n /\ asked[tbl[p].spec] > 0)
  <2>1. ASSUME NEW e \in On(m, CopyOf(new)), asked[e.spec] > 0
        PROVE  \E f \in On(m, CopyOf(tbl)) : f.name = e.name /\ f.spec = e.spec
    <3>1. /\ e.name \in DOMAIN new /\ new[e.name].node = m /\ new[e.name].spec = e.spec
          /\ new[e.name].phase \notin Terminal
      BY <1>1, CopyFacts DEF On
    <3>2. e.name # p
      BY <1>1, <1>8, <2>1, <3>1
    <3>3. /\ e.name \in DOMAIN tbl /\ tbl[e.name].node = m /\ tbl[e.name].spec = e.spec
          /\ tbl[e.name].phase \notin Terminal
      BY <1>1, <3>1, <3>2
    <3> QED
      BY <3>3, CopyFacts DEF On
  <2>2. Used(asked, m, CopyOf(new)) <= Used(asked, m, CopyOf(tbl))
    <3> DEFINE C == CopyOf(new)
               D == CopyOf(tbl)
    <3>1. C \in SUBSET Entries /\ \A e, f \in C : e.name = f.name => e = f
      BY <1>1, CopyFacts
    <3>2. D \in SUBSET Entries /\ IsFiniteSet(D)
      BY CopyFacts
    <3>3. \A e \in On(m, C) : asked[e.spec] > 0 =>
             \E f \in On(m, D) : f.name = e.name /\ f.spec = e.spec
      BY <2>1
    <3> HIDE DEF C, D
    <3>4. Used(asked, m, C) <= Used(asked, m, D)
      BY <3>1, <3>2, <3>3, UsedMono
    <3> QED
      BY <3>4 DEF C, D
  <2> QED
    BY <1>6, <2>2 DEF new
<1> QED
  BY <1>7, <1>8 DEF new

(***************************************************************************)
(* A tick never brings a node past what it has (node_fits and the capacity *)
(* predicate, scheduler.rs:257-264), although it binds several pods from a *)
(* copy of the tables that is out of date, where the copy knows what has   *)
(* come to the node.                                                       *)
(***************************************************************************)
THEOREM SchedulerNeverOvercommits == Spec => NoOvercommit
<1> DEFINE Keeps(s) ==
         sched[s].pc = "bind" /\ sched'[s] # sched[s] /\ AsListed(s) =>
         \A n \in Nodes \ crowded[s] :
            ~Fuller(Cpu, Machine[n].cpu, n) /\ ~Fuller(Mem, Machine[n].mem, n)
<1>1. Snapshot = CopyOf(pods) /\ Snapshot' = CopyOf(pods')
  BY DEF Snapshot, CopyOf
<1>2. Cpu \in Asks /\ Mem \in Asks
  BY CpuMemAsk
<1>3. ASSUME NEW tbl, Table(tbl), NEW asked \in Asks, NEW n
      PROVE  ~(Used(asked, n, CopyOf(tbl)) > Used(asked, n, CopyOf(tbl)))
  BY <1>3, CopyFacts, UnitsFinite
<1>4. ASSUME IInv, [Next]_vars, NEW s \in Schedulers, sched'[s] # sched[s], AsListed(s),
             NEW m \in Nodes \ crowded[s]
      PROVE  ~Fuller(Cpu, Machine[m].cpu, m) /\ ~Fuller(Mem, Machine[m].mem, m)
  <2>1. Table(pods)
    BY <1>4 DEF IInv, TypeOK, Table
  <2>2. CASE UNCHANGED pods
    BY <1>1, <1>2, <1>3, <2>1, <2>2 DEF Fuller
  <2>3. CASE ~UNCHANGED pods
    <3>1. Bind(s)
      BY <1>4, <2>3, MovesByBind
    <3>2. PICK p : p = Oldest(sched[s].queue)
      OBVIOUS
    <3>3. p \in DOMAIN pods
      BY <1>4, <2>3, <3>1, <3>2, BindStep DEF BindToNode
    <3>4. PICK A : A = sched[s].existing
      OBVIOUS
    <3>5. A \in SUBSET Entries /\ IsFiniteSet(A) /\ Covered(A, pods, crowded[s])
      BY <1>4, <3>1, <3>2, <3>3, <3>4, BindAsListed
    <3>6. PICK n \in Nodes : NodeFits(pods[p].spec, n, A) /\ pods' = BindToNode(pods, p, n)
      BY <1>4, <3>1, <3>2, <3>3, <3>4, BindAsListed
    <3>7. /\ Cpu[pods[p].spec] = pods[p].spec.cpu /\ Mem[pods[p].spec] = pods[p].spec.mem
      BY <2>1, <3>3 DEF Cpu, Mem, Table, Rows
    <3>8. ASSUME Machine[m].cpu # Unlimited
          PROVE  ~Fuller(Cpu, Machine[m].cpu, m)
      <4>1. Machine[m].cpu \in Nat
        BY <3>8, SchedulerAssumption
      <4>2. m = n /\ Cpu[pods[p].spec] > 0 =>
               Used(Cpu, n, A) + Cpu[pods[p].spec] <= Machine[m].cpu
        BY <3>6, <3>7, <3>8 DEF NodeFits, Fits, UsedCpu
      <4>3. ~(/\ Used(Cpu, m, CopyOf(pods')) > Machine[m].cpu
              /\ Used(Cpu, m, CopyOf(pods')) > Used(Cpu, m, CopyOf(pods)))
        BY <1>2, <2>1, <3>3, <3>5, <3>6, <4>1, <4>2, BindUsed
      <4> QED
        BY <1>1, <4>3 DEF Fuller
    <3>9. ASSUME Machine[m].mem # Unlimited
          PROVE  ~Fuller(Mem, Machine[m].mem, m)
      <4>1. Machine[m].mem \in Nat
        BY <3>9, SchedulerAssumption
      <4>2. m = n /\ Mem[pods[p].spec] > 0 =>
               Used(Mem, n, A) + Mem[pods[p].spec] <= Machine[m].mem
        BY <3>6, <3>7, <3>9 DEF NodeFits, Fits, UsedMem
      <4>3. ~(/\ Used(Mem, m, CopyOf(pods')) > Machine[m].mem
              /\ Used(Mem, m, CopyOf(pods')) > Used(Mem, m, CopyOf(pods)))
        BY <1>2, <2>1, <3>3, <3>5, <3>6, <4>1, <4>2, BindUsed
      <4> QED
        BY <1>1, <4>3 DEF Fuller
    <3> QED
      BY <3>8, <3>9 DEF Fuller
  <2> QED
    BY <2>2, <2>3
<1>5. IInv /\ [Next]_vars => [\A s \in Schedulers : Keeps(s)]_vars
  BY <1>4
<1> QED
  BY <1>5, AlwaysInv, PTL DEF Spec, NoOvercommit
=============================================================================
