----------------------- MODULE EmbeddedRuntimeProofs -----------------------
(***************************************************************************)
(* Proofs about EmbeddedRuntime and its allocator, for every set of names, *)
(* every size of the address range and every number of starts.             *)
(***************************************************************************)
EXTENDS EmbeddedRuntime, WellFoundedInduction, TLAPS

(* A set of numbers that has a member has a least one.                     *)
LEMMA LeastMember ==
    ASSUME NEW S, S \subseteq Nat, S # {}
    PROVE  \E m \in S : \A u \in S : m <= u
<1> DEFINE R == OpToRel(<, Nat)
<1>1. \E m \in S : \A u \in S : ~(<<u, m>> \in R)
  <2>1. IsWellFoundedOn(R, Nat)
    BY NatLessThanWellFounded
  <2> HIDE DEF R
  <2> QED
    BY <2>1, WFMin
<1>2. PICK m \in S : \A u \in S : ~(<<u, m>> \in R)
  BY <1>1
<1>3. \A u \in S : ~(u < m)
  BY <1>2 DEF OpToRel
<1>4. \A u \in S : m <= u
  BY <1>3
<1> QED
  BY <1>4

(* The first free octet is a free octet.                                   *)
LEMMA FirstFreeIsFree ==
    ASSUME NEW s, ~Exhausted(s)
    PROVE  FirstFree(s) \in Unused(s)
<1>1. Unused(s) \subseteq Nat
  BY IpamAssumption DEF Unused, Octets
<1>2. \E o \in Unused(s) : \A u \in Unused(s) : o <= u
  BY <1>1, LeastMember DEF Exhausted
<1> QED
  BY <1>2 DEF FirstFree

(***************************************************************************)
(* allocate (ipam.rs:45-61) keeps the two fields in agreement and leaves   *)
(* the addresses of other names alone.                                     *)
(***************************************************************************)
LEMMA AllocateCorrect ==
    ASSUME NEW s, NEW n, IpamOK(s), Has(s, n) \/ ~Exhausted(s)
    PROVE  /\ IpamOK(Allocate(s, n))
           /\ DOMAIN Allocate(s, n).by = DOMAIN s.by \cup {n}
           /\ \A m \in DOMAIN s.by : Allocate(s, n).by[m] = s.by[m]
<1>1. CASE Has(s, n)
  BY <1>1 DEF Allocate, Has
<1>2. CASE ~Has(s, n)
  <2>1. FirstFree(s) \in Octets /\ FirstFree(s) \notin s.taken
    BY <1>2, FirstFreeIsFree DEF Unused
  <2> DEFINE t == Allocate(s, n)
  <2>2. /\ DOMAIN t.by = DOMAIN s.by \cup {n}
        /\ \A m \in DOMAIN s.by : t.by[m] = s.by[m]
        /\ t.by[n] = FirstFree(s)
        /\ t.taken = s.taken \cup {FirstFree(s)}
    BY <1>2 DEF Allocate, Has
  <2> HIDE DEF t
  <2>3. \A m \in DOMAIN t.by : t.by[m] \in Octets
    BY <2>1, <2>2 DEF IpamOK
  <2>4. \A m \in DOMAIN s.by : s.by[m] # FirstFree(s)
    BY <2>1 DEF IpamOK
  <2>5. \A k, m \in DOMAIN t.by : t.by[k] = t.by[m] => k = m
    BY <2>2, <2>4 DEF IpamOK
  <2>6. t.taken = {Gateway} \cup {t.by[m] : m \in DOMAIN t.by}
    BY <2>2 DEF IpamOK
  <2>7. IpamOK(t)
    BY <2>3, <2>5, <2>6 DEF IpamOK
  <2> QED
    BY <2>2, <2>7 DEF t
<1> QED
  BY <1>1, <1>2

(* release (ipam.rs:63-69), likewise.                                      *)
LEMMA ReleaseCorrect ==
    ASSUME NEW s, NEW n, IpamOK(s)
    PROVE  /\ IpamOK(Release(s, n))
           /\ DOMAIN Release(s, n).by = DOMAIN s.by \ {n}
           /\ \A m \in DOMAIN s.by \ {n} : Release(s, n).by[m] = s.by[m]
<1>1. CASE ~Has(s, n)
  BY <1>1 DEF Release, Has
<1>2. CASE Has(s, n)
  <2> DEFINE t == Release(s, n)
  <2>1. /\ DOMAIN t.by = DOMAIN s.by \ {n}
        /\ \A m \in DOMAIN s.by \ {n} : t.by[m] = s.by[m]
        /\ t.taken = s.taken \ {s.by[n]}
    BY <1>2 DEF Release, Has
  <2> HIDE DEF t
  <2>2. \A m \in DOMAIN t.by : t.by[m] \in Octets
    BY <2>1 DEF IpamOK
  <2>3. \A k, m \in DOMAIN t.by : t.by[k] = t.by[m] => k = m
    BY <2>1 DEF IpamOK
  <2>4. s.by[n] # Gateway
    BY <1>2, IpamAssumption DEF IpamOK, Octets, Gateway, Has
  <2>5. \A m \in DOMAIN s.by \ {n} : s.by[m] # s.by[n]
    BY <1>2 DEF IpamOK, Has
  <2>6. t.taken = {Gateway} \cup {t.by[m] : m \in DOMAIN t.by}
    BY <1>2, <2>1, <2>4, <2>5 DEF IpamOK, Has
  <2>7. IpamOK(t)
    BY <2>2, <2>3, <2>6 DEF IpamOK
  <2> QED
    BY <2>1, <2>7 DEF t
<1> QED
  BY <1>1, <1>2
-----------------------------------------------------------------------------
USE DEF Instances, NoInst, NoAddress

(***************************************************************************)
(* The part of the invariant that survives a restart: types; instances are *)
(* born in the order of their numbers; the map holds exactly the instances *)
(* that are kept, under their names; and the map is free for a call that   *)
(* is past its replacement.                                                *)
(***************************************************************************)
Born == \A i \in Instances : stage[i] = "unborn" <=> i > started
MapOK ==
    /\ \A n \in Names : entry[n] # NoInst => stage[entry[n]] = "kept" /\ name[entry[n]] = n
    /\ \A i \in Instances : stage[i] = "kept" => entry[name[i]] = i
CallBound == call.pc # "idle" => started < MaxStarts
Cleared ==
    call.pc \in {"wait", "pull", "allocate", "setup", "start"} => entry[call.name] = NoInst
MapInv == TypeOK /\ Born /\ MapOK /\ CallBound /\ Cleared

LEMMA NoCallType == NoCall \in [pc : PCs, name : Names, ip : Octets \cup {NoAddress}]
  BY RuntimeAssumption DEF NoCall, PCs

LEMMA MapInvInit == Init => MapInv
<1> SUFFICES ASSUME Init PROVE MapInv
  OBVIOUS
<1>1. IpamOK(ipam) /\ DOMAIN ipam.by \subseteq Names
  BY DEF Init, IpamNew, IpamOK
<1>2. NoCall.name \in Names /\ NoCall.pc = "idle"
  BY RuntimeAssumption DEF NoCall
<1>3. TypeOK
  BY <1>1, <1>2, NoCallType, RuntimeAssumption DEF Init, TypeOK, Stages
<1> QED
  BY <1>2, <1>3, RuntimeAssumption DEF Init, MapInv, Born, MapOK, CallBound, Cleared, TypeOK

LEMMA TypeNext == TypeOK /\ Born /\ CallBound /\ [Next]_vars => TypeOK'
<1> SUFFICES ASSUME TypeOK, Born, CallBound, [Next]_vars PROVE TypeOK'
  OBVIOUS
<1> USE RuntimeAssumption, NoCallType DEF TypeOK, kept, bodies, Goto, Fail
<1>1. ASSUME NEW n \in Names, Create(n) PROVE TypeOK'
  BY <1>1 DEF Create, PCs
<1>2. CASE AwaitPending
  BY <1>2 DEF AwaitPending, PCs
<1>3. CASE Replace
  <2>1. CASE entry[call.name] = NoInst
    <3>1. /\ call' = [call EXCEPT !.pc = "pull"]
          /\ UNCHANGED <<ipam, entry, handle, name, ip, run, stage, link, started, failures, restarts>>
      BY <1>3, <2>1 DEF Replace
    <3>2. call' \in [pc : PCs, name : Names, ip : Octets \cup {NoAddress}]
      BY <3>1 DEF PCs
    <3> QED
      BY <3>1, <3>2
  <2>2. CASE entry[call.name] # NoInst
    <3>1. entry[call.name] \in Instances
      BY <2>2
    <3>2. /\ call' = [call EXCEPT !.pc = "wait"]
          /\ entry' = [entry EXCEPT ![call.name] = NoInst]
          /\ stage' = [stage EXCEPT ![entry[call.name]] = "stop"]
          /\ UNCHANGED <<ipam, handle, name, ip, run, link, started, failures, restarts>>
      BY <1>3, <2>2 DEF Replace
    <3>3. call' \in [pc : PCs, name : Names, ip : Octets \cup {NoAddress}]
      BY <3>2 DEF PCs
    <3>4. stage' \in [Instances -> Stages]
      BY <3>1, <3>2 DEF Stages
    <3>5. entry' \in [Names -> Instances \cup {NoInst}]
      BY <3>2
    <3> QED
      BY <3>2, <3>3, <3>4, <3>5
  <2> QED
    BY <2>1, <2>2
<1>4. CASE WaitReplaced
  BY <1>4 DEF WaitReplaced, PCs
<1>5. CASE Pull
  <2>1. call' \in [pc : PCs, name : Names, ip : Octets \cup {NoAddress}]
    BY <1>5 DEF Pull, PCs
  <2>2. failures' \in Nat
    BY <1>5 DEF Pull
  <2> QED
    BY <1>5, <2>1, <2>2 DEF Pull
<1>6. CASE AllocateAddress
  <2>1. CASE ~Has(ipam, call.name) /\ Exhausted(ipam)
    <3>1. /\ call' = NoCall
          /\ UNCHANGED <<ipam, entry, handle, name, ip, run, stage, link, started, failures, restarts>>
      BY <1>6, <2>1 DEF AllocateAddress
    <3> QED
      BY <3>1
  <2>2. CASE Has(ipam, call.name) \/ ~Exhausted(ipam)
    <3>1. /\ IpamOK(Allocate(ipam, call.name))
          /\ DOMAIN Allocate(ipam, call.name).by = DOMAIN ipam.by \cup {call.name}
      BY <2>2, AllocateCorrect
    <3>2. /\ ipam' = Allocate(ipam, call.name)
          /\ call' = [call EXCEPT !.pc = "setup", !.ip = ipam'.by[call.name]]
          /\ UNCHANGED <<entry, handle, name, ip, run, stage, link, started, failures, restarts>>
      BY <1>6, <2>2 DEF AllocateAddress
    <3>3. ipam'.by[call.name] \in Octets
      BY <3>1, <3>2 DEF IpamOK
    <3> QED
      BY <3>1, <3>2, <3>3 DEF PCs
  <2> QED
    BY <2>1, <2>2
<1>7. CASE SetupNetwork
  <2>1. IpamOK(Release(ipam, call.name)) /\ DOMAIN Release(ipam, call.name).by \subseteq Names
    BY ReleaseCorrect
  <2>2. Suffix[call.name] \in Links /\ New \in Instances
    BY <1>7 DEF SetupNetwork, New, CallBound
  <2>3. CASE link' = [link EXCEPT ![Suffix[call.name]] = New] /\ Goto("start")
                 /\ UNCHANGED <<ipam, failures>>
    BY <1>7, <2>2, <2>3 DEF SetupNetwork, PCs
  <2>4. CASE /\ Fail
             /\ link' = [link EXCEPT ![Suffix[call.name]] = NoInst]
             /\ ipam' = Release(ipam, call.name)
             /\ call' = [call EXCEPT !.pc = "start", !.ip = NoAddress]
    <3>1. call' \in [pc : PCs, name : Names, ip : Octets \cup {NoAddress}]
      BY <2>4 DEF PCs
    <3>2. link' \in [Links -> Instances \cup {NoInst}] /\ failures' \in Nat
      BY <2>2, <2>4
    <3> QED
      BY <1>7, <2>1, <2>4, <3>1, <3>2 DEF SetupNetwork
  <2> QED
    BY <1>7, <2>3, <2>4 DEF SetupNetwork
<1>8. CASE StartContainer
  <2>1. New \in Instances
    BY <1>8 DEF StartContainer, New, CallBound
  <2> QED
    BY <1>8, <2>1 DEF StartContainer, New, Stages
<1>9. CASE StartFails
  <2>1. IpamOK(Release(ipam, call.name)) /\ DOMAIN Release(ipam, call.name).by \subseteq Names
    BY ReleaseCorrect
  <2> QED
    BY <1>9, <2>1 DEF StartFails
<1>10. ASSUME NEW n \in Names, Remove(n) PROVE TypeOK'
  BY <1>10 DEF Remove, Stages
<1>11. ASSUME NEW i \in Instances, Exit(i) PROVE TypeOK'
  BY <1>11 DEF Exit
<1>12. ASSUME NEW i \in Instances, Stop(i) PROVE TypeOK'
  <2>1. run' \in [Instances -> BOOLEAN]
    <3>1. CASE run' = [run EXCEPT ![i] = FALSE]
      BY <3>1
    <3>2. CASE UNCHANGED run
      BY <3>2
    <3> QED
      BY <1>12, <3>1, <3>2 DEF Stop
  <2> QED
    BY <1>12, <2>1 DEF Stop, Stages
<1>13. ASSUME NEW i \in Instances, DropNetwork(i) PROVE TypeOK'
  BY <1>13 DEF DropNetwork, Stages
<1>14. ASSUME NEW i \in Instances, DropAddress(i) PROVE TypeOK'
  <2>1. IpamOK(Release(ipam, name[i])) /\ DOMAIN Release(ipam, name[i]).by \subseteq Names
    BY ReleaseCorrect
  <2> QED
    BY <1>14, <2>1 DEF DropAddress, Stages
<1>15. CASE Restart
  <2>1. IpamOK(IpamNew) /\ DOMAIN IpamNew.by \subseteq Names
    BY DEF IpamNew, IpamOK
  <2> QED
    BY <1>15, <2>1 DEF Restart, Stages
<1>16. CASE UNCHANGED vars
  BY <1>16 DEF vars
<1> QED
  BY <1>1, <1>2, <1>3, <1>4, <1>5, <1>6, <1>7, <1>8, <1>9, <1>10, <1>11, <1>12,
     <1>13, <1>14, <1>15, <1>16 DEF Next, CallStep, Teardown

LEMMA MapInvNext == MapInv /\ [Next]_vars => MapInv'
<1> SUFFICES ASSUME MapInv, [Next]_vars PROVE MapInv'
  OBVIOUS
<1>0. TypeOK'
  BY TypeNext DEF MapInv
<1> USE DEF MapInv, Born, MapOK, CallBound, Cleared, kept, bodies, Goto, Fail
<1>a. NoCall.pc = "idle"
  BY DEF NoCall
<1>1. ASSUME NEW n \in Names, Create(n) PROVE MapInv'
  BY <1>0, <1>1 DEF Create, TypeOK
<1>2. CASE AwaitPending
  BY <1>0, <1>2 DEF AwaitPending, TypeOK
<1>3. CASE Replace
  <2>1. CASE entry[call.name] = NoInst
    BY <1>0, <1>3, <2>1 DEF Replace, TypeOK
  <2>2. CASE entry[call.name] # NoInst
    BY <1>0, <1>3, <2>2 DEF Replace, TypeOK
  <2> QED
    BY <2>1, <2>2
<1>4. CASE WaitReplaced
  BY <1>0, <1>4 DEF WaitReplaced, TypeOK
<1>5. CASE Pull
  BY <1>0, <1>5, <1>a DEF Pull, TypeOK
<1>6. CASE AllocateAddress
  <2>1. CASE call' = NoCall
    BY <1>0, <1>6, <1>a, <2>1 DEF AllocateAddress, TypeOK
  <2>2. CASE call' = [call EXCEPT !.pc = "setup", !.ip = Allocate(ipam, call.name).by[call.name]]
    <3>1. call'.name = call.name
      BY <2>2 DEF TypeOK
    <3> QED
      BY <1>0, <1>6, <2>2, <3>1 DEF AllocateAddress, TypeOK
  <2> QED
    BY <1>6, <2>1, <2>2 DEF AllocateAddress
<1>7. CASE SetupNetwork
  <2>1. call'.name = call.name /\ call'.pc = "start"
    <3>1. CASE call' = [call EXCEPT !.pc = "start"]
      BY <3>1 DEF TypeOK
    <3>2. CASE call' = [call EXCEPT !.pc = "start", !.ip = NoAddress]
      BY <3>2 DEF TypeOK
    <3> QED
      BY <1>7, <3>1, <3>2 DEF SetupNetwork
  <2> QED
    BY <1>0, <1>7, <2>1 DEF SetupNetwork, TypeOK
<1>8. CASE StartContainer
  <2>1. New \in Instances /\ stage[New] = "unborn"
    BY <1>8, RuntimeAssumption DEF StartContainer, New, TypeOK
  <2> QED
    BY <1>0, <1>8, <1>a, <2>1 DEF StartContainer, New, TypeOK
<1>9. CASE StartFails
  BY <1>0, <1>9, <1>a DEF StartFails, TypeOK
<1>10. ASSUME NEW n \in Names, Remove(n) PROVE MapInv'
  BY <1>0, <1>10 DEF Remove, TypeOK
<1>11. ASSUME NEW i \in Instances, Exit(i) PROVE MapInv'
  BY <1>0, <1>11 DEF Exit, TypeOK
<1>12. ASSUME NEW i \in Instances, Stop(i) PROVE MapInv'
  BY <1>0, <1>12 DEF Stop, TypeOK
<1>13. ASSUME NEW i \in Instances, DropNetwork(i) PROVE MapInv'
  BY <1>0, <1>13 DEF DropNetwork, TypeOK
<1>14. ASSUME NEW i \in Instances, DropAddress(i) PROVE MapInv'
  BY <1>0, <1>14 DEF DropAddress, TypeOK
<1>15. CASE Restart
  BY <1>0, <1>15, <1>a DEF Restart, TypeOK
<1>16. CASE UNCHANGED vars
  BY <1>0, <1>16 DEF vars
<1> QED
  BY <1>1, <1>2, <1>3, <1>4, <1>5, <1>6, <1>7, <1>8, <1>9, <1>10, <1>11, <1>12,
     <1>13, <1>14, <1>15, <1>16 DEF Next, CallStep, Teardown

(***************************************************************************)
(* The state stays within its types, the allocator's two fields agree and  *)
(* it never gives the gateway's address or one address to two names.       *)
(***************************************************************************)
THEOREM RuntimeTypeCorrect == Spec => []TypeOK
<1>1. Init => MapInv
  BY MapInvInit
<1>2. MapInv /\ [Next]_vars => MapInv'
  BY MapInvNext
<1>3. MapInv => TypeOK
  BY DEF MapInv
<1> QED
  BY <1>1, <1>2, <1>3, PTL DEF Spec
-----------------------------------------------------------------------------
(***************************************************************************)
(* Until a restart.  An instance holds its name and its address from its   *)
(* start to the last step of its teardown.  Two instances never hold one   *)
(* name: a call that is past its replacement finds its name held by        *)
(* nobody, because every teardown in progress can be found by its name     *)
(* (Findable) and was awaited.  An instance whose network was dropped is   *)
(* not at the end of its link any more.                                    *)
(***************************************************************************)
Holds(i)   == stage[i] \in {"kept", "stop", "network", "address"}
CallHolds  == call.pc \in {"setup", "start"} /\ call.ip # NoAddress
NotLost    == \A i \in Instances : stage[i] # "lost"
DeadUnborn == \A i \in Instances : stage[i] = "unborn" => ~run[i]
Findable   == \A i \in Instances : TearingDown(i) =>
                \/ handle[name[i]] = i
                \/ call.pc = "wait" /\ call.name = name[i]
OneHolder  == \A i, j \in Instances : Holds(i) /\ Holds(j) /\ name[i] = name[j] => i = j
NameFree   ==
    /\ call.pc = "replace" => \A i \in Instances : TearingDown(i) => name[i] # call.name
    /\ call.pc \in {"pull", "allocate", "setup", "start"} =>
         \A i \in Instances : Holds(i) => name[i] # call.name
Held       ==
    /\ \A i \in Instances : Holds(i) /\ ip[i] # NoAddress =>
         name[i] \in DOMAIN ipam.by /\ ipam.by[name[i]] = ip[i]
    /\ CallHolds => call.name \in DOMAIN ipam.by /\ ipam.by[call.name] = call.ip
Unplugged  == \A i \in Instances : stage[i] \in {"address", "gone"} /\ ip[i] # NoAddress =>
                link[Suffix[name[i]]] # i
HolderInv  == Findable /\ OneHolder /\ NameFree
NameInv    == NotLost /\ DeadUnborn /\ HolderInv
AddressInv == Held /\ Unplugged

Until == restarts = 0

(* Nothing undoes a restart.                                               *)
LEMMA UntilPast == TypeOK /\ [Next]_vars /\ Until' => Until /\ ~Restart
<1> SUFFICES ASSUME TypeOK, [Next]_vars, restarts' = 0 PROVE restarts = 0 /\ ~Restart
  BY DEF Until
<1>1. restarts \in Nat
  BY DEF TypeOK
<1>2. ~Restart
  BY <1>1 DEF Restart
<1>3. UNCHANGED restarts
  BY <1>2 DEF Next, CallStep, Teardown, Create, AwaitPending, Replace, WaitReplaced, Pull,
              AllocateAddress, SetupNetwork, StartContainer, StartFails, Remove, Exit, Stop,
              DropNetwork, DropAddress, vars, kept
<1> QED
  BY <1>2, <1>3

LEMMA AddressInvImplies == MapInv /\ NameInv /\ AddressInv => UniqueAddress
<1> SUFFICES ASSUME MapInv, NameInv, AddressInv,
                    NEW i \in Instances, NEW j \in Instances,
                    Connected(i), Connected(j), ip[i] = ip[j]
             PROVE  i = j
  BY DEF UniqueAddress
<1>1. Holds(i) /\ Holds(j)
  BY DEF MapInv, TypeOK, Stages, NameInv, NotLost, DeadUnborn, AddressInv, Unplugged,
         Connected, Holds
<1>2. name[i] = name[j]
  BY <1>1 DEF Connected, AddressInv, Held, MapInv, TypeOK, IpamOK
<1> QED
  BY <1>1, <1>2 DEF NameInv, HolderInv, OneHolder

LEMMA HolderInvNext == MapInv /\ HolderInv /\ [Next]_vars => HolderInv'
<1> SUFFICES ASSUME MapInv, HolderInv, [Next]_vars PROVE HolderInv'
  OBVIOUS
<1>0. TypeOK /\ TypeOK'
  BY TypeNext DEF MapInv
<1> USE DEF HolderInv, Findable, OneHolder, NameFree, Holds, TearingDown,
            kept, bodies, Goto, Fail
<1>a. NoCall.pc = "idle"
  BY DEF NoCall
<1>1. ASSUME NEW n \in Names, Create(n) PROVE HolderInv'
  BY <1>0, <1>1 DEF Create, TypeOK
<1>2. CASE AwaitPending
  <2>1. \A i \in Instances : TearingDown(i) => name[i] # call.name
    BY <1>0, <1>2 DEF AwaitPending, TypeOK
  <2> QED
    BY <1>0, <1>2, <2>1 DEF AwaitPending, TypeOK
<1>3. CASE Replace
  <2>1. CASE entry[call.name] = NoInst
    BY <1>0, <1>3, <2>1 DEF Replace, TypeOK, MapInv, MapOK
  <2>2. CASE entry[call.name] # NoInst
    BY <1>0, <1>3, <2>2 DEF Replace, TypeOK, MapInv, MapOK
  <2> QED
    BY <2>1, <2>2
<1>4. CASE WaitReplaced
  <2>1. \A i \in Instances : Holds(i) => name[i] # call.name
    BY <1>0, <1>4 DEF WaitReplaced, TypeOK, MapInv, MapOK, Cleared
  <2> QED
    BY <1>0, <1>4, <2>1 DEF WaitReplaced, TypeOK
<1>5. CASE Pull
  BY <1>0, <1>5, <1>a DEF Pull, TypeOK
<1>6. CASE AllocateAddress
  <2>1. CASE call' = NoCall
    BY <1>0, <1>6, <1>a, <2>1 DEF AllocateAddress, TypeOK
  <2>2. CASE call' = [call EXCEPT !.pc = "setup", !.ip = Allocate(ipam, call.name).by[call.name]]
    <3>1. call'.name = call.name /\ call'.pc = "setup"
      BY <1>0, <2>2 DEF TypeOK
    <3> QED
      BY <1>0, <1>6, <3>1 DEF AllocateAddress, TypeOK
  <2> QED
    BY <1>6, <2>1, <2>2 DEF AllocateAddress
<1>7. CASE SetupNetwork
  <2>1. call'.name = call.name /\ call'.pc = "start"
    <3>1. CASE call' = [call EXCEPT !.pc = "start"]
      BY <1>0, <3>1 DEF TypeOK
    <3>2. CASE call' = [call EXCEPT !.pc = "start", !.ip = NoAddress]
      BY <1>0, <3>2 DEF TypeOK
    <3> QED
      BY <1>7, <3>1, <3>2 DEF SetupNetwork
  <2> QED
    BY <1>0, <1>7, <2>1 DEF SetupNetwork, TypeOK
<1>8. CASE StartContainer
  <2>1. New \in Instances /\ stage[New] = "unborn"
    BY <1>0, <1>8, RuntimeAssumption DEF StartContainer, New, TypeOK, MapInv, Born, CallBound
  <2> QED
    BY <1>0, <1>8, <1>a, <2>1 DEF StartContainer, TypeOK
<1>9. CASE StartFails
  BY <1>0, <1>9, <1>a DEF StartFails, TypeOK
<1>10. ASSUME NEW n \in Names, Remove(n) PROVE HolderInv'
  <2>1. entry[n] \in Instances /\ stage[entry[n]] = "kept" /\ name[entry[n]] = n
    BY <1>0, <1>10 DEF Remove, TypeOK, MapInv, MapOK
  <2> QED
    BY <1>0, <1>10, <2>1 DEF Remove, TypeOK
<1>11. ASSUME NEW i \in Instances, Exit(i) PROVE HolderInv'
  BY <1>0, <1>11 DEF Exit, TypeOK
<1>12. ASSUME NEW i \in Instances, Stop(i) PROVE HolderInv'
  BY <1>0, <1>12 DEF Stop, TypeOK
<1>13. ASSUME NEW i \in Instances, DropNetwork(i) PROVE HolderInv'
  BY <1>0, <1>13 DEF DropNetwork, TypeOK
<1>14. ASSUME NEW i \in Instances, DropAddress(i) PROVE HolderInv'
  BY <1>0, <1>14 DEF DropAddress, TypeOK
<1>15. CASE Restart
  BY <1>0, <1>15, <1>a DEF Restart, TypeOK
<1>16. CASE UNCHANGED vars
  BY <1>16 DEF vars
<1> QED
  BY <1>1, <1>2, <1>3, <1>4, <1>5, <1>6, <1>7, <1>8, <1>9, <1>10, <1>11, <1>12,
     <1>13, <1>14, <1>15, <1>16 DEF Next, CallStep, Teardown

LEMMA NameInvNext == MapInv /\ NameInv /\ [Next]_vars /\ ~Restart => NameInv'
<1> SUFFICES ASSUME MapInv, NameInv, [Next]_vars, ~Restart PROVE NotLost' /\ DeadUnborn'
  BY HolderInvNext DEF NameInv
<1>0. TypeOK
  BY DEF MapInv
<1> USE DEF NameInv, NotLost, DeadUnborn, kept, bodies
<1>1. ASSUME UNCHANGED <<run, stage>> PROVE NotLost' /\ DeadUnborn'
  BY <1>1
<1>2. ASSUME NEW n \in Names, Create(n) PROVE NotLost' /\ DeadUnborn'
  BY <1>1, <1>2 DEF Create
<1>3. CASE AwaitPending \/ WaitReplaced \/ Pull \/ AllocateAddress \/ SetupNetwork \/ StartFails
  BY <1>1, <1>3 DEF AwaitPending, WaitReplaced, Pull, AllocateAddress, SetupNetwork, StartFails
<1>4. CASE Replace
  <2>1. CASE entry[call.name] = NoInst
    BY <1>1, <1>4, <2>1 DEF Replace
  <2>2. CASE entry[call.name] # NoInst
    BY <1>0, <1>4, <2>2 DEF Replace, TypeOK
  <2> QED
    BY <2>1, <2>2
<1>5. CASE StartContainer
  BY <1>0, <1>5 DEF StartContainer, TypeOK
<1>6. ASSUME NEW n \in Names, Remove(n) PROVE NotLost' /\ DeadUnborn'
  BY <1>0, <1>6 DEF Remove, TypeOK
<1>7. ASSUME NEW i \in Instances, Exit(i) PROVE NotLost' /\ DeadUnborn'
  BY <1>0, <1>7 DEF Exit, TypeOK
<1>8. ASSUME NEW i \in Instances, Stop(i) PROVE NotLost' /\ DeadUnborn'
  BY <1>0, <1>8 DEF Stop, TypeOK
<1>9. ASSUME NEW i \in Instances, DropNetwork(i) \/ DropAddress(i) PROVE NotLost' /\ DeadUnborn'
  BY <1>0, <1>9 DEF DropNetwork, DropAddress, TypeOK
<1>10. ~Restart
  OBVIOUS
<1>11. CASE UNCHANGED vars
  BY <1>1, <1>11 DEF vars
<1> QED
  BY <1>2, <1>3, <1>4, <1>5, <1>6, <1>7, <1>8, <1>9, <1>10, <1>11
  DEF Next, CallStep, Teardown

LEMMA AddressInvNext ==
    MapInv /\ NameInv /\ AddressInv /\ [Next]_vars /\ ~Restart => AddressInv'
<1> SUFFICES ASSUME MapInv, NameInv, AddressInv, [Next]_vars, ~Restart PROVE AddressInv'
  OBVIOUS
<1>0. TypeOK /\ TypeOK'
  BY TypeNext DEF MapInv
<1> USE DEF AddressInv, Held, Unplugged, Holds, CallHolds, kept, bodies, Goto, Fail
<1>a. NoCall.pc = "idle"
  BY DEF NoCall
<1>1. ASSUME NEW n \in Names, Create(n) PROVE AddressInv'
  BY <1>0, <1>1 DEF Create, TypeOK
<1>2. CASE AwaitPending
  BY <1>0, <1>2 DEF AwaitPending, TypeOK
<1>3. CASE Replace
  <2>1. CASE entry[call.name] = NoInst
    BY <1>0, <1>3, <2>1 DEF Replace, TypeOK
  <2>2. CASE entry[call.name] # NoInst
    BY <1>0, <1>3, <2>2 DEF Replace, TypeOK, MapInv, MapOK
  <2> QED
    BY <2>1, <2>2
<1>4. CASE WaitReplaced
  BY <1>0, <1>4 DEF WaitReplaced, TypeOK
<1>5. CASE Pull
  BY <1>0, <1>5, <1>a DEF Pull, TypeOK
<1>6. CASE AllocateAddress
  <2>1. CASE ~Has(ipam, call.name) /\ Exhausted(ipam)
    BY <1>0, <1>6, <1>a, <2>1 DEF AllocateAddress, TypeOK
  <2>2. CASE Has(ipam, call.name) \/ ~Exhausted(ipam)
    <3>1. /\ DOMAIN Allocate(ipam, call.name).by = DOMAIN ipam.by \cup {call.name}
          /\ \A m \in DOMAIN ipam.by : Allocate(ipam, call.name).by[m] = ipam.by[m]
      BY <1>0, <2>2, AllocateCorrect DEF TypeOK
    <3>2. /\ ipam' = Allocate(ipam, call.name)
          /\ call' = [call EXCEPT !.pc = "setup", !.ip = ipam'.by[call.name]]
          /\ UNCHANGED <<name, ip, stage, link>>
      BY <1>6, <2>2 DEF AllocateAddress
    <3>3. call'.name = call.name /\ call'.ip = ipam'.by[call.name]
      BY <1>0, <3>2 DEF TypeOK
    <3> QED
      BY <3>1, <3>2, <3>3
  <2> QED
    BY <2>1, <2>2
<1>7. CASE SetupNetwork
  <2>1. New \in Instances /\ stage[New] = "unborn"
    BY <1>0, <1>7, RuntimeAssumption DEF SetupNetwork, New, TypeOK, MapInv, Born, CallBound
  <2>2. \A i \in Instances : Suffix[name[i]] \in Links
    BY <1>0 DEF TypeOK, Links
  <2>3. CASE link' = [link EXCEPT ![Suffix[call.name]] = New] /\ Goto("start")
                 /\ UNCHANGED <<ipam, failures>>
    BY <1>0, <1>7, <2>1, <2>2, <2>3 DEF SetupNetwork, TypeOK
  <2>4. CASE /\ Fail
             /\ link' = [link EXCEPT ![Suffix[call.name]] = NoInst]
             /\ ipam' = Release(ipam, call.name)
             /\ call' = [call EXCEPT !.pc = "start", !.ip = NoAddress]
    <3>1. \A m \in DOMAIN ipam.by \ {call.name} : m \in DOMAIN ipam'.by /\ ipam'.by[m] = ipam.by[m]
      BY <1>0, <2>4, ReleaseCorrect DEF TypeOK
    <3>2. call'.ip = NoAddress
      BY <1>0, <2>4 DEF TypeOK
    <3>3. \A i \in Instances : Holds(i) => name[i] # call.name
      BY <1>7 DEF SetupNetwork, NameInv, HolderInv, NameFree
    <3>4. Unplugged'
      BY <1>0, <1>7, <2>2, <2>4 DEF SetupNetwork, TypeOK
    <3>5. Held'
      BY <1>7, <3>1, <3>2, <3>3 DEF SetupNetwork
    <3> QED
      BY <3>4, <3>5
  <2> QED
    BY <1>7, <2>3, <2>4 DEF SetupNetwork
<1>8. CASE StartContainer
  <2>1. New \in Instances /\ stage[New] = "unborn"
    BY <1>0, <1>8, RuntimeAssumption DEF StartContainer, New, TypeOK, MapInv, Born, CallBound
  <2> QED
    BY <1>0, <1>8, <1>a, <2>1 DEF StartContainer, TypeOK
<1>9. CASE StartFails
  <2>1. \A m \in DOMAIN ipam.by \ {call.name} : m \in DOMAIN ipam'.by /\ ipam'.by[m] = ipam.by[m]
    BY <1>0, <1>9, ReleaseCorrect DEF TypeOK, StartFails
  <2>2. \A i \in Instances : Holds(i) => name[i] # call.name
    BY <1>9 DEF StartFails, NameInv, HolderInv, NameFree
  <2>3. Held'
    BY <1>9, <1>a, <2>1, <2>2 DEF StartFails
  <2>4. \A i \in Instances : Suffix[name[i]] \in Links
    BY <1>0 DEF TypeOK, Links
  <2>5. Unplugged'
    BY <1>0, <1>9, <2>4 DEF StartFails, TypeOK
  <2> QED
    BY <2>3, <2>5
<1>10. ASSUME NEW n \in Names, Remove(n) PROVE AddressInv'
  <2>1. entry[n] \in Instances /\ stage[entry[n]] = "kept"
    BY <1>0, <1>10 DEF Remove, TypeOK, MapInv, MapOK
  <2> QED
    BY <1>0, <1>10, <2>1 DEF Remove, TypeOK
<1>11. ASSUME NEW i \in Instances, Exit(i) PROVE AddressInv'
  BY <1>11 DEF Exit
<1>12. ASSUME NEW i \in Instances, Stop(i) PROVE AddressInv'
  BY <1>0, <1>12 DEF Stop, TypeOK
<1>13. ASSUME NEW i \in Instances, DropNetwork(i) PROVE AddressInv'
  <2>1. \A k \in Instances : Suffix[name[k]] \in Links
    BY <1>0 DEF TypeOK, Links
  <2> QED
    BY <1>0, <1>13, <2>1 DEF DropNetwork, TypeOK
<1>14. ASSUME NEW i \in Instances, DropAddress(i) PROVE AddressInv'
  <2>1. \A m \in DOMAIN ipam.by \ {name[i]} : m \in DOMAIN ipam'.by /\ ipam'.by[m] = ipam.by[m]
    BY <1>0, <1>14, ReleaseCorrect DEF TypeOK, DropAddress
  <2>2. \A k \in Instances : k # i /\ Holds(k) => name[k] # name[i]
    BY <1>14 DEF DropAddress, NameInv, HolderInv, OneHolder
  <2>3. CallHolds => call.name # name[i]
    BY <1>14 DEF DropAddress, NameInv, HolderInv, NameFree
  <2>4. Held'
    BY <1>0, <1>14, <2>1, <2>2, <2>3 DEF DropAddress, TypeOK
  <2>5. Unplugged'
    BY <1>0, <1>14 DEF DropAddress, TypeOK
  <2> QED
    BY <2>4, <2>5
<1>15. ~Restart
  OBVIOUS
<1>16. CASE UNCHANGED vars
  BY <1>16 DEF vars
<1> QED
  BY <1>1, <1>2, <1>3, <1>4, <1>5, <1>6, <1>7, <1>8, <1>9, <1>10, <1>11, <1>12,
     <1>13, <1>14, <1>15, <1>16 DEF Next, CallStep, Teardown

(***************************************************************************)
(* As long as the agent is not restarted, no two containers on the bridge  *)
(* have one address, whatever the sizes, also when link names collide and  *)
(* when processes outlive SIGKILL (UniqueAddress; teardown,                *)
(* embedded.rs:206-260, beside create_and_start_container, 918-1004).      *)
(***************************************************************************)
THEOREM AddressesAreUnique == Spec => []UniqueAddress
<1> DEFINE IInv == MapInv /\ (Until => NameInv /\ AddressInv)
<1>1. Init => IInv
  <2>1. Init => NameInv /\ AddressInv
    BY DEF Init, NameInv, NotLost, DeadUnborn, HolderInv, Findable, OneHolder, NameFree, Holds,
           TearingDown, AddressInv, Held, Unplugged, CallHolds, NoCall
  <2> QED
    BY <2>1, MapInvInit
<1>2. IInv /\ [Next]_vars => IInv'
  <2> SUFFICES ASSUME IInv, [Next]_vars PROVE MapInv' /\ (Until' => NameInv' /\ AddressInv')
    OBVIOUS
  <2>1. TypeOK
    BY DEF MapInv
  <2>2. Until' => Until /\ ~Restart
    BY <2>1, UntilPast
  <2> QED
    BY <2>2, MapInvNext, NameInvNext, AddressInvNext
<1>3. IInv => UniqueAddress
  <2>1. CASE Until
    BY <2>1, AddressInvImplies
  <2>2. CASE ~Until
    BY <2>2 DEF Until, UniqueAddress
  <2> QED
    BY <2>1, <2>2
<1> QED
  BY <1>1, <1>2, <1>3, PTL DEF Spec

(* Processes that die of SIGKILL do not outlive the stop of their teardown.*)
RunsHeld == \A i \in Instances : run[i] /\ ~MayHang => stage[i] \in {"kept", "stop"}

LEMMA RunsHeldNext == MapInv /\ RunsHeld /\ [Next]_vars /\ ~Restart => RunsHeld'
<1> SUFFICES ASSUME MapInv, RunsHeld, [Next]_vars, ~Restart PROVE RunsHeld'
  OBVIOUS
<1>0. TypeOK
  BY DEF MapInv
<1> USE DEF RunsHeld, kept, bodies
<1>1. ASSUME UNCHANGED <<run, stage>> PROVE RunsHeld'
  BY <1>1
<1>2. ASSUME NEW n \in Names, Create(n) PROVE RunsHeld'
  BY <1>1, <1>2 DEF Create
<1>3. CASE AwaitPending \/ WaitReplaced \/ Pull \/ AllocateAddress \/ SetupNetwork \/ StartFails
  BY <1>1, <1>3 DEF AwaitPending, WaitReplaced, Pull, AllocateAddress, SetupNetwork, StartFails
<1>4. CASE Replace
  <2>1. CASE entry[call.name] = NoInst
    BY <1>1, <1>4, <2>1 DEF Replace
  <2>2. CASE entry[call.name] # NoInst
    BY <1>0, <1>4, <2>2 DEF Replace, TypeOK
  <2> QED
    BY <2>1, <2>2
<1>5. CASE StartContainer
  BY <1>0, <1>5 DEF StartContainer, TypeOK
<1>6. ASSUME NEW n \in Names, Remove(n) PROVE RunsHeld'
  BY <1>0, <1>6 DEF Remove, TypeOK
<1>7. ASSUME NEW i \in Instances, Exit(i) PROVE RunsHeld'
  BY <1>0, <1>7 DEF Exit, TypeOK
<1>8. ASSUME NEW i \in Instances, Stop(i) PROVE RunsHeld'
  BY <1>0, <1>8 DEF Stop, TypeOK
<1>9. ASSUME NEW i \in Instances, DropNetwork(i) \/ DropAddress(i) PROVE RunsHeld'
  BY <1>0, <1>9 DEF DropNetwork, DropAddress, TypeOK
<1>10. ~Restart
  OBVIOUS
<1>11. CASE UNCHANGED vars
  BY <1>1, <1>11 DEF vars
<1> QED
  BY <1>2, <1>3, <1>4, <1>5, <1>6, <1>7, <1>8, <1>9, <1>10, <1>11
  DEF Next, CallStep, Teardown

(***************************************************************************)
(* As long as the agent is not restarted, no two processes run under one   *)
(* name, but for those that outlive SIGKILL by the five seconds teardown   *)
(* gives them (OneInstancePerName, embedded.rs:930-932).                   *)
(***************************************************************************)
THEOREM NamesAreUnique == Spec => []OneInstancePerName
<1> DEFINE IInv == MapInv /\ (Until => NameInv /\ RunsHeld)
<1>1. Init => IInv
  <2>1. Init => NameInv /\ RunsHeld
    BY DEF Init, NameInv, NotLost, DeadUnborn, HolderInv, Findable, OneHolder, NameFree, Holds,
           TearingDown, NoCall, RunsHeld
  <2> QED
    BY <2>1, MapInvInit
<1>2. IInv /\ [Next]_vars => IInv'
  <2> SUFFICES ASSUME IInv, [Next]_vars PROVE MapInv' /\ (Until' => NameInv' /\ RunsHeld')
    OBVIOUS
  <2>1. TypeOK
    BY DEF MapInv
  <2>2. Until' => Until /\ ~Restart
    BY <2>1, UntilPast
  <2> QED
    BY <2>2, MapInvNext, NameInvNext, RunsHeldNext
<1>3. IInv => OneInstancePerName
  <2> SUFFICES ASSUME IInv, restarts = 0,
                      NEW i \in Instances, NEW j \in Instances,
                      run[i], run[j], name[i] = name[j], ~Outlived(i), ~Outlived(j)
               PROVE  i = j
    BY DEF OneInstancePerName
  <2>1. NameInv /\ RunsHeld
    BY DEF Until
  <2>2. Holds(i) /\ Holds(j)
    BY <2>1 DEF RunsHeld, Holds, Outlived
  <2> QED
    BY <2>1, <2>2 DEF NameInv, HolderInv, OneHolder
<1> QED
  BY <1>1, <1>2, <1>3, PTL DEF Spec
-----------------------------------------------------------------------------
(***************************************************************************)
(* Across restarts.  A name that has an address is being started, is in    *)
(* the map or is being torn down (NoAddressLeak): no error path of         *)
(* create_and_start_container and no teardown forgets to release.          *)
(***************************************************************************)
LEMMA NoLeakNext == MapInv /\ NoAddressLeak /\ [Next]_vars => NoAddressLeak'
<1> SUFFICES ASSUME MapInv, NoAddressLeak, [Next]_vars PROVE NoAddressLeak'
  OBVIOUS
<1>0. TypeOK /\ TypeOK'
  BY TypeNext DEF MapInv
<1> USE DEF NoAddressLeak, TearingDown, kept, bodies, Goto, Fail
<1>1. ASSUME NEW n \in Names, Create(n) PROVE NoAddressLeak'
  BY <1>0, <1>1 DEF Create, TypeOK
<1>2. CASE AwaitPending
  BY <1>0, <1>2 DEF AwaitPending, TypeOK
<1>3. CASE Replace
  <2>1. CASE entry[call.name] = NoInst
    BY <1>0, <1>3, <2>1 DEF Replace, TypeOK
  <2>2. CASE entry[call.name] # NoInst
    <3>1. \A i \in Instances : stage[i] = "kept" \/ TearingDown(i) =>
                               stage'[i] = "kept" \/ TearingDown(i)'
      BY <1>0, <1>3, <2>2 DEF Replace, TypeOK
    <3> QED
      BY <1>3, <2>2, <3>1 DEF Replace
  <2> QED
    BY <2>1, <2>2
<1>4. CASE WaitReplaced
  BY <1>0, <1>4 DEF WaitReplaced, TypeOK
<1>5. CASE Pull
  BY <1>0, <1>5 DEF Pull, TypeOK
<1>6. CASE AllocateAddress
  <2>1. CASE ~Has(ipam, call.name) /\ Exhausted(ipam)
    BY <1>0, <1>6, <2>1 DEF AllocateAddress, TypeOK
  <2>2. CASE Has(ipam, call.name) \/ ~Exhausted(ipam)
    <3>1. /\ DOMAIN Allocate(ipam, call.name).by = DOMAIN ipam.by \cup {call.name}
          /\ IpamOK(Allocate(ipam, call.name))
      BY <1>0, <2>2, AllocateCorrect DEF TypeOK
    <3>2. /\ ipam' = Allocate(ipam, call.name)
          /\ call' = [call EXCEPT !.pc = "setup", !.ip = ipam'.by[call.name]]
          /\ UNCHANGED <<name, ip, stage>>
          /\ call.pc = "allocate"
      BY <1>6, <2>2 DEF AllocateAddress
    <3>3. call'.name = call.name /\ call'.pc = "setup" /\ call'.ip = ipam'.by[call.name]
      BY <1>0, <3>2 DEF TypeOK
    <3>4. call'.ip # NoAddress
      BY <3>1, <3>2, <3>3, IpamAssumption DEF IpamOK, Octets
    <3> QED
      BY <3>1, <3>2, <3>3, <3>4
  <2> QED
    BY <2>1, <2>2
<1>7. CASE SetupNetwork
  <2>1. CASE Goto("start") /\ UNCHANGED <<ipam, failures>>
    BY <1>0, <1>7, <2>1 DEF SetupNetwork, TypeOK
  <2>2. CASE ipam' = Release(ipam, call.name)
    <3>1. DOMAIN ipam'.by = DOMAIN ipam.by \ {call.name}
      BY <1>0, <2>2, ReleaseCorrect DEF TypeOK
    <3> QED
      BY <1>7, <3>1 DEF SetupNetwork
  <2> QED
    BY <1>7, <2>1, <2>2 DEF SetupNetwork
<1>8. CASE StartContainer
  <2>1. New \in Instances /\ stage[New] = "unborn"
    BY <1>0, <1>8, RuntimeAssumption DEF StartContainer, New, TypeOK, MapInv, Born, CallBound
  <2>2. name'[New] = call.name /\ ip'[New] = call.ip /\ stage'[New] = "kept"
    BY <1>0, <1>8, <2>1 DEF StartContainer, TypeOK
  <2>3. \A i \in Instances \ {New} : /\ name'[i] = name[i] /\ ip'[i] = ip[i]
                                     /\ stage'[i] = stage[i]
    BY <1>0, <1>8, <2>1 DEF StartContainer, TypeOK
  <2>4. \A i \in Instances : stage[i] = "kept" \/ TearingDown(i) => i # New
    BY <2>1
  <2>5. UNCHANGED ipam
    BY <1>8 DEF StartContainer
  <2> SUFFICES ASSUME NEW n \in DOMAIN ipam.by
               PROVE  \E i \in Instances : /\ name'[i] = n /\ ip'[i] # NoAddress
                                           /\ stage'[i] = "kept" \/ TearingDown(i)'
    BY <2>5
  <2>6. CASE call.name = n /\ call.ip # NoAddress
    BY <2>1, <2>2, <2>6
  <2>7. CASE \E i \in Instances : /\ name[i] = n /\ ip[i] # NoAddress
                                  /\ stage[i] = "kept" \/ TearingDown(i)
    BY <2>3, <2>4, <2>7
  <2> QED
    BY <2>6, <2>7
<1>9. CASE StartFails
  <2>1. DOMAIN ipam'.by = DOMAIN ipam.by \ {call.name}
    BY <1>0, <1>9, ReleaseCorrect DEF TypeOK, StartFails
  <2> QED
    BY <1>9, <2>1 DEF StartFails
<1>10. ASSUME NEW n \in Names, Remove(n) PROVE NoAddressLeak'
  <2>1. \A i \in Instances : stage[i] = "kept" \/ TearingDown(i) =>
                             stage'[i] = "kept" \/ TearingDown(i)'
    BY <1>0, <1>10 DEF Remove, TypeOK
  <2> QED
    BY <1>10, <2>1 DEF Remove
<1>11. ASSUME NEW i \in Instances, Exit(i) PROVE NoAddressLeak'
  BY <1>11 DEF Exit
<1>12. ASSUME NEW i \in Instances, Stop(i) \/ DropNetwork(i) PROVE NoAddressLeak'
  <2>1. \A k \in Instances : stage[k] = "kept" \/ TearingDown(k) =>
                             stage'[k] = "kept" \/ TearingDown(k)'
    BY <1>0, <1>12 DEF Stop, DropNetwork, TypeOK
  <2> QED
    BY <1>12, <2>1 DEF Stop, DropNetwork
<1>13. ASSUME NEW i \in Instances, DropAddress(i) PROVE NoAddressLeak'
  <2>1. DOMAIN ipam'.by = DOMAIN ipam.by \ {name[i]}
    BY <1>0, <1>13, ReleaseCorrect DEF TypeOK, DropAddress
  <2>2. \A k \in Instances \ {i} : stage'[k] = stage[k]
    BY <1>0, <1>13 DEF TypeOK, DropAddress
  <2> QED
    BY <1>13, <2>1, <2>2 DEF DropAddress
<1>14. CASE Restart
  BY <1>14 DEF Restart, IpamNew
<1>15. CASE UNCHANGED vars
  BY <1>15 DEF vars
<1> QED
  BY <1>1, <1>2, <1>3, <1>4, <1>5, <1>6, <1>7, <1>8, <1>9, <1>10, <1>11, <1>12,
     <1>13, <1>14, <1>15 DEF Next, CallStep, Teardown

(***************************************************************************)
(* No address leaks, whatever fails and however often the agent is         *)
(* restarted (NoAddressLeak; embedded.rs:957-1004, 206-260).               *)
(***************************************************************************)
THEOREM AddressesDoNotLeak == Spec => []NoAddressLeak
<1>1. Init => MapInv /\ NoAddressLeak
  BY MapInvInit DEF Init, IpamNew, NoAddressLeak
<1>2. MapInv /\ NoAddressLeak /\ [Next]_vars => (MapInv /\ NoAddressLeak)'
  BY MapInvNext, NoLeakNext
<1> QED
  BY <1>1, <1>2, PTL DEF Spec

(***************************************************************************)
(* A container of the map whose network was set up is at the end of its    *)
(* link, and so is the one a call is about to start, where the name has    *)
(* the link name for its own.                                              *)
(***************************************************************************)
Plugged ==
    \A n \in Names : OwnLink(n) =>
        /\ entry[n] # NoInst /\ ip[entry[n]] # NoAddress => link[Suffix[n]] = entry[n]
        /\ call.pc = "start" /\ call.name = n /\ call.ip # NoAddress => link[Suffix[n]] = New

LEMMA PluggedNext == MapInv /\ HolderInv /\ Plugged /\ [Next]_vars => Plugged'
<1> SUFFICES ASSUME MapInv, HolderInv, Plugged, [Next]_vars,
                    NEW n \in Names, OwnLink(n)
             PROVE  /\ entry'[n] # NoInst /\ ip'[entry'[n]] # NoAddress
                         => link'[Suffix[n]] = entry'[n]
                    /\ call'.pc = "start" /\ call'.name = n /\ call'.ip # NoAddress
                         => link'[Suffix[n]] = New'
  BY DEF Plugged, OwnLink
<1> DEFINE Goal == /\ entry'[n] # NoInst /\ ip'[entry'[n]] # NoAddress
                         => link'[Suffix[n]] = entry'[n]
                   /\ call'.pc = "start" /\ call'.name = n /\ call'.ip # NoAddress
                         => link'[Suffix[n]] = New'
<1>0. TypeOK /\ TypeOK'
  BY TypeNext DEF MapInv
<1>a. NoCall.pc = "idle"
  BY DEF NoCall
<1>b. /\ entry[n] # NoInst /\ ip[entry[n]] # NoAddress => link[Suffix[n]] = entry[n]
      /\ call.pc = "start" /\ call.name = n /\ call.ip # NoAddress => link[Suffix[n]] = New
  BY DEF Plugged
<1>c. \A m \in Names : m # n => Suffix[m] # Suffix[n]
  BY DEF OwnLink
<1>d. \A m \in Names : Suffix[m] \in Links
  BY DEF Links
<1> USE DEF kept, bodies, Goto, Fail, New
<1>1. ASSUME NEW m \in Names, Create(m) PROVE Goal
  BY <1>0, <1>1, <1>b DEF Create, TypeOK
<1>2. CASE AwaitPending
  BY <1>0, <1>2, <1>b DEF AwaitPending, TypeOK
<1>3. CASE Replace
  <2>1. CASE entry[call.name] = NoInst
    BY <1>0, <1>3, <1>b, <2>1 DEF Replace, TypeOK
  <2>2. CASE entry[call.name] # NoInst
    BY <1>0, <1>3, <1>b, <2>2 DEF Replace, TypeOK
  <2> QED
    BY <2>1, <2>2
<1>4. CASE WaitReplaced
  BY <1>0, <1>4, <1>b DEF WaitReplaced, TypeOK
<1>5. CASE Pull
  BY <1>0, <1>5, <1>a, <1>b DEF Pull, TypeOK
<1>6. CASE AllocateAddress
  <2>1. call'.pc # "start"
    BY <1>0, <1>6, <1>a DEF AllocateAddress, TypeOK
  <2> QED
    BY <1>6, <1>b, <2>1 DEF AllocateAddress
<1>7. CASE SetupNetwork
  <2>1. entry[call.name] = NoInst
    BY <1>7 DEF SetupNetwork, MapInv, Cleared
  <2>2. call'.name = call.name
    BY <1>0, <1>7 DEF SetupNetwork, TypeOK
  <2>3. \A l \in Links : l # Suffix[call.name] => link'[l] = link[l]
    BY <1>0, <1>7 DEF SetupNetwork, TypeOK
  <2>4. CASE call.name # n
    BY <1>0, <1>7, <1>b, <1>c, <1>d, <2>2, <2>3, <2>4 DEF SetupNetwork, TypeOK
  <2>5. CASE call.name = n
    <3>1. CASE link' = [link EXCEPT ![Suffix[call.name]] = New] /\ UNCHANGED started
      BY <1>0, <1>7, <1>d, <2>1, <2>5, <3>1 DEF SetupNetwork, TypeOK
    <3>2. CASE call' = [call EXCEPT !.pc = "start", !.ip = NoAddress]
      BY <1>0, <1>7, <2>1, <2>5, <3>2 DEF SetupNetwork, TypeOK
    <3> QED
      BY <1>7, <3>1, <3>2 DEF SetupNetwork
  <2> QED
    BY <2>4, <2>5
<1>8. CASE StartContainer
  <2>1. New \in Instances /\ stage[New] = "unborn"
    BY <1>0, <1>8, RuntimeAssumption DEF StartContainer, TypeOK, MapInv, Born, CallBound
  <2>2. entry[n] # NoInst => entry[n] # New
    BY <2>1 DEF MapInv, MapOK
  <2>3. CASE call.name = n
    BY <1>0, <1>8, <1>a, <1>b, <2>1, <2>3 DEF StartContainer, TypeOK
  <2>4. CASE call.name # n
    BY <1>0, <1>8, <1>a, <1>b, <2>1, <2>2, <2>4 DEF StartContainer, TypeOK
  <2> QED
    BY <2>3, <2>4
<1>9. CASE StartFails
  <2>1. entry[call.name] = NoInst
    BY <1>9 DEF StartFails, MapInv, Cleared
  <2>2. \A l \in Links : l # Suffix[call.name] => link'[l] = link[l]
    BY <1>0, <1>9 DEF StartFails, TypeOK
  <2> QED
    BY <1>0, <1>9, <1>a, <1>b, <1>c, <1>d, <2>1, <2>2 DEF StartFails, TypeOK
<1>10. ASSUME NEW m \in Names, Remove(m) PROVE Goal
  BY <1>0, <1>10, <1>b DEF Remove, TypeOK
<1>11. ASSUME NEW i \in Instances, Exit(i) \/ Stop(i) \/ DropAddress(i) PROVE Goal
  BY <1>11, <1>b DEF Exit, Stop, DropAddress
<1>12. ASSUME NEW i \in Instances, DropNetwork(i) PROVE Goal
  <2>1. name[i] \in Names /\ Holds(i) /\ stage[i] # "kept"
    BY <1>0, <1>12 DEF DropNetwork, TypeOK, Holds
  <2>2. \A l \in Links : l # Suffix[name[i]] => link'[l] = link[l]
    BY <1>0, <1>12 DEF DropNetwork, TypeOK
  <2>3. CASE name[i] # n
    BY <1>12, <1>b, <1>c, <1>d, <2>1, <2>2, <2>3 DEF DropNetwork
  <2>4. CASE name[i] = n
    <3>1. entry[n] = NoInst
      BY <1>0, <2>1, <2>4 DEF TypeOK, MapInv, MapOK, HolderInv, OneHolder, Holds
    <3>2. ~(call.pc = "start" /\ call.name = n)
      BY <2>1, <2>4 DEF HolderInv, NameFree
    <3> QED
      BY <1>12, <3>1, <3>2 DEF DropNetwork
  <2> QED
    BY <2>3, <2>4
<1>13. CASE Restart
  BY <1>13, <1>a DEF Restart
<1>14. CASE UNCHANGED vars
  BY <1>14, <1>b DEF vars
<1> QED
  BY <1>1, <1>2, <1>3, <1>4, <1>5, <1>6, <1>7, <1>8, <1>9, <1>10, <1>11, <1>12,
     <1>13, <1>14 DEF Next, CallStep, Teardown

(***************************************************************************)
(* A running container whose network was set up, and whose link name is    *)
(* its own, stays on the bridge (StaysConnected; veth.rs:48): no teardown  *)
(* that is still on its way and no failed start takes its link.            *)
(***************************************************************************)
THEOREM ContainersStayConnected == Spec => []StaysConnected
<1> DEFINE IInv == MapInv /\ HolderInv /\ Plugged
<1>1. Init => IInv
  <2>1. Init => HolderInv /\ Plugged
    BY DEF Init, HolderInv, Findable, OneHolder, NameFree, Holds, TearingDown, Plugged, NoCall
  <2> QED
    BY <2>1, MapInvInit
<1>2. IInv /\ [Next]_vars => IInv'
  BY MapInvNext, HolderInvNext, PluggedNext
<1>3. IInv => StaysConnected
  BY DEF MapInv, MapOK, Plugged, StaysConnected, Connected
<1> QED
  BY <1>1, <1>2, <1>3, PTL DEF Spec
-----------------------------------------------------------------------------
(***************************************************************************)
(* The refinement: what find_container reports changes as the contract     *)
(* allows, for every value of the constants, restarts included.            *)
(***************************************************************************)
seen == [n \in Names |-> Find(n)]

LEMMA ContractStep == MapInv /\ [Next]_vars => [Contract!Next]_seen
<1> SUFFICES ASSUME MapInv, [Next]_vars PROVE [Contract!Next]_seen
  OBVIOUS
<1> USE DEF kept, bodies, Goto, Fail
<1>0. TypeOK
  BY DEF MapInv
<1>1. ASSUME UNCHANGED <<entry, run>> PROVE UNCHANGED seen
  BY <1>1 DEF seen, Find
<1>2. ASSUME NEW n \in Names, Create(n) PROVE UNCHANGED seen
  BY <1>1, <1>2 DEF Create
<1>3. CASE AwaitPending \/ WaitReplaced \/ Pull \/ AllocateAddress \/ SetupNetwork \/ StartFails
  BY <1>1, <1>3 DEF AwaitPending, WaitReplaced, Pull, AllocateAddress, SetupNetwork, StartFails
<1>4. ASSUME NEW n \in Names, entry[n] # NoInst, UNCHANGED run,
             entry' = [entry EXCEPT ![n] = NoInst]
      PROVE  Contract!Drop(n)
  <2>1. seen[n] # "none"
    BY <1>4 DEF seen, Find
  <2>2. seen' = [seen EXCEPT ![n] = "none"]
    BY <1>0, <1>4 DEF seen, Find, TypeOK
  <2> QED
    BY <2>1, <2>2 DEF Contract!Drop, seen
<1>5. CASE Replace
  <2>1. CASE entry[call.name] = NoInst
    BY <1>1, <1>5, <2>1 DEF Replace
  <2>2. CASE entry[call.name] # NoInst
    <3>1. call.name \in Names
      BY <1>0 DEF TypeOK
    <3>2. Contract!Drop(call.name)
      BY <1>4, <1>5, <2>2, <3>1 DEF Replace
    <3> QED
      BY <3>1, <3>2 DEF Contract!Next
  <2> QED
    BY <2>1, <2>2
<1>6. CASE StartContainer
  <2>1. New \in Instances /\ stage[New] = "unborn" /\ call.name \in Names
    BY <1>0, <1>6, RuntimeAssumption
    DEF StartContainer, New, TypeOK, MapInv, Born, CallBound
  <2>2. entry[call.name] = NoInst
    BY <1>6 DEF StartContainer, MapInv, Cleared
  <2>3. \A n \in Names : entry[n] # New
    BY <2>1 DEF MapInv, MapOK
  <2>4. PICK n \in Names : n = call.name
    BY <2>1
  <2>5. seen[n] = "none"
    BY <2>2, <2>4 DEF seen, Find
  <2>6. \A m \in Names : m # n => Find(m)' = Find(m)
    BY <1>0, <1>6, <2>1, <2>3, <2>4 DEF StartContainer, Find, TypeOK
  <2>7. entry'[n] = New /\ run'[New]
    BY <1>0, <1>6, <2>1, <2>4 DEF StartContainer, TypeOK
  <2>8. Find(n)' = "running"
    BY <2>1, <2>7 DEF Find
  <2>9. seen' = [seen EXCEPT ![n] = "running"]
    BY <2>6, <2>8 DEF seen
  <2>10. Contract!Start(n)
    BY <2>5, <2>9 DEF Contract!Start, seen
  <2> QED
    BY <2>10 DEF Contract!Next
<1>7. ASSUME NEW n \in Names, Remove(n) PROVE Contract!Next
  <2>1. Contract!Drop(n)
    BY <1>4, <1>7 DEF Remove
  <2> QED
    BY <2>1 DEF Contract!Next
<1>8. ASSUME NEW i \in Instances, Exit(i) PROVE [Contract!Next]_seen
  <2>1. CASE stage[i] = "kept"
    <3>1. PICK n \in Names : entry[n] = i /\ \A m \in Names : entry[m] = i => m = n
      BY <1>0, <2>1 DEF TypeOK, MapInv, MapOK
    <3>2. seen[n] = "running"
      BY <1>8, <3>1 DEF seen, Find, Exit
    <3>3. \A m \in Names : m # n => Find(m)' = Find(m)
      BY <1>0, <1>8, <3>1 DEF Exit, Find, TypeOK
    <3>4. entry'[n] = i /\ ~run'[i]
      BY <1>0, <1>8, <3>1 DEF Exit, TypeOK
    <3>5. Find(n)' = "exited"
      BY <3>4 DEF Find
    <3>6. seen' = [seen EXCEPT ![n] = "exited"]
      BY <3>3, <3>5 DEF seen
    <3>7. Contract!Exit(n)
      BY <3>2, <3>6 DEF Contract!Exit, seen
    <3> QED
      BY <3>7 DEF Contract!Next
  <2>2. CASE stage[i] # "kept"
    BY <1>0, <1>8, <2>2 DEF seen, Find, Exit, TypeOK, MapInv, MapOK
  <2> QED
    BY <2>1, <2>2
<1>9. ASSUME NEW i \in Instances, Stop(i) PROVE UNCHANGED seen
  <2>1. \A n \in Names : entry[n] # i
    BY <1>9 DEF Stop, MapInv, MapOK
  <2>2. \A k \in Instances : k # i => run'[k] = run[k]
    BY <1>0, <1>9 DEF Stop, TypeOK
  <2>3. \A n \in Names : Find(n)' = Find(n)
    BY <1>0, <1>9, <2>1, <2>2 DEF Stop, Find, TypeOK
  <2> QED
    BY <2>3 DEF seen
<1>10. ASSUME NEW i \in Instances, DropNetwork(i) \/ DropAddress(i) PROVE UNCHANGED seen
  BY <1>1, <1>10 DEF DropNetwork, DropAddress
<1>11. CASE Restart
  <2>1. seen' = [n \in Names |-> "none"]
    BY <1>11 DEF seen, Find, Restart
  <2> QED
    BY <2>1 DEF Contract!Next, Contract!Forget, seen
<1>12. CASE UNCHANGED vars
  BY <1>1, <1>12 DEF vars
<1> QED
  BY <1>2, <1>3, <1>5, <1>6, <1>7, <1>8, <1>9, <1>10, <1>11, <1>12
  DEF Next, CallStep, Teardown

(* The embedded runtime implements the contract the agent relies on.       *)
THEOREM RuntimeImplementsContract == Spec => ImplementsContract
<1>1. Init => Contract!Init
  BY DEF Init, Contract!Init, Find
<1>2. Init => MapInv
  BY MapInvInit
<1>3. MapInv /\ [Next]_vars => MapInv'
  BY MapInvNext
<1>4. MapInv /\ [Next]_vars => [Contract!Next]_seen
  BY ContractStep
<1> QED
  BY <1>1, <1>2, <1>3, <1>4, PTL DEF Spec, ImplementsContract, Contract!Spec, seen
=============================================================================
