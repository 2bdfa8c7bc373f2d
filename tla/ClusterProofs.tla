--------------------------- MODULE ClusterProofs ---------------------------
(***************************************************************************)
(* Proofs about what the servers of one database share.                    *)
(*                                                                         *)
(* The leases (Lease), for any number of masters, any list of lease names, *)
(* any horizon and passes of any length.  They exclude: two masters run    *)
(* the pass of one lease together only when one of them has outlived its   *)
(* lease.  And they pass on: no row stays expired for longer than a round  *)
(* of the loop of a live master.                                           *)
(*                                                                         *)
(* The change feed (WatchBus, in the second part), for any number of       *)
(* servers, requests and events: none echoes.                              *)
(***************************************************************************)
EXTENDS Lease, Bus, TLAPS

(* With SQLite there is one live process.                                  *)
SingleProcess ==
    backend = "sqlite" =>
        \A a, b \in Masters : Alive(a) /\ Alive(b) => a = b

(* The clock reading of a task that has one is within the skew.            *)
WithinSkew ==
    \A m \in Masters : pc[m] \in {"upsert", "work"} =>
        /\ since[m] <= now
        /\ since[m] <= clock[m]
        /\ clock[m] <= since[m] + MaxSkew

(* A running pass that has not outlived its lease is covered by its row.   *)
Covered(m) ==
    /\ lease[Current(m)].holder = m
    /\ since[m] + TTL <= lease[Current(m)].expires
RowCoversPass ==
    backend = "postgres" =>
        \A m \in Masters : pc[m] = "work" /\ ~Overrun(m) => Covered(m)

IInv == TypeOK /\ SingleProcess /\ WithinSkew /\ RowCoversPass

(* Order is a nonempty sequence.                                           *)
LEMMA OrderDomain ==
    /\ Len(Order) \in Nat \ {0}
    /\ DOMAIN Order = 1 .. Len(Order)
  BY LeaseAssumption

(* Every variable keeps its type in every reachable state of the lease     *)
(* protocol (LeaseManager::try_acquire and the loops that call it).        *)
THEOREM LeaseTypeCorrect == Spec => []TypeOK
<1>1. Init => TypeOK
  BY LeaseAssumption, OrderDomain DEF Init, TypeOK, PCs, Rows, NoRow, Names
<1>2. TypeOK /\ [Next]_vars => TypeOK'
  <2> SUFFICES ASSUME TypeOK, [Next]_vars PROVE TypeOK'
    OBVIOUS
  <2> USE LeaseAssumption, OrderDomain DEF TypeOK, PCs, Rows, Names
  <2>1. CASE UNCHANGED vars
    BY <2>1 DEF vars
  <2>2. CASE Tick
    BY <2>2 DEF Tick
  <2>3. ASSUME NEW m \in Masters, Start(m) PROVE TypeOK'
    BY <2>3 DEF Start
  <2>4. ASSUME NEW m \in Masters, Wake(m) PROVE TypeOK'
    BY <2>4 DEF Wake
  <2>5. ASSUME NEW m \in Masters, ReadClock(m) PROVE TypeOK'
    BY <2>5 DEF ReadClock
  <2>6. ASSUME NEW m \in Masters, Advance(m)
        PROVE  /\ pc' \in [Masters -> PCs]
               /\ pos' \in [Masters -> DOMAIN Order]
               /\ clock' \in [Masters -> Nat]
               /\ since' \in [Masters -> Nat]
    <3>1. /\ clock' = [clock EXCEPT ![m] = 0]
          /\ since' = [since EXCEPT ![m] = now]
          /\ \/ pc' = [pc EXCEPT ![m] = "read"]
             \/ pc' = [pc EXCEPT ![m] = "sleep"]
      BY <2>6 DEF Advance
    <3>2. \/ pos' = [pos EXCEPT ![m] = 1]
          \/ /\ pos[m] < Len(Order)
             /\ pos' = [pos EXCEPT ![m] = pos[m] + 1]
      BY <2>6 DEF Advance
    <3>3. pos[m] \in 1 .. Len(Order) /\ pos \in [Masters -> 1 .. Len(Order)]
      OBVIOUS
    <3>4. pos' \in [Masters -> 1 .. Len(Order)]
      <4>1. 1 \in 1 .. Len(Order)
        OBVIOUS
      <4>2. pos[m] < Len(Order) => pos[m] + 1 \in 1 .. Len(Order)
        BY <3>3
      <4> QED BY <3>2, <3>3, <4>1, <4>2
    <3> QED BY <3>1, <3>4
  <2>7. ASSUME NEW m \in Masters, Write(m) PROVE lease' \in [Names -> Rows]
    BY <2>7 DEF Write, Current
  <2>8. ASSUME NEW m \in Masters, TryAcquire(m) PROVE TypeOK'
    BY <2>6, <2>7, <2>8 DEF TryAcquire
  <2>9. ASSUME NEW m \in Masters, TryAcquireErr(m) PROVE TypeOK'
    <3>1. lease' \in [Names -> Rows]
      BY <2>7, <2>9 DEF TryAcquireErr
    <3>2. /\ Advance(m) /\ UNCHANGED <<backend, now, boot>>
          /\ errors' = errors + 1
      BY <2>9 DEF TryAcquireErr
    <3> QED BY <2>6, <3>1, <3>2
  <2>10. ASSUME NEW m \in Masters, EndPass(m) PROVE TypeOK'
    BY <2>6, <2>10 DEF EndPass
  <2>11. ASSUME NEW m \in Masters, Crash(m) PROVE TypeOK'
    BY <2>11 DEF Crash
  <2> QED
    BY <2>1, <2>2, <2>3, <2>4, <2>5, <2>8, <2>9, <2>10, <2>11
    DEF Next, Step
<1> QED
  BY <1>1, <1>2, PTL DEF Spec

(* The heart of the argument: a row that covers a running pass is not Free *)
(* for any other master, because its expiry lies past any clock another    *)
(* master can have read by now.                                            *)
LEMMA CoveredIsNotFree ==
    ASSUME IInv, backend = "postgres",
           NEW a \in Masters, pc[a] = "work", ~Overrun(a),
           NEW b \in Masters, pc[b] = "upsert", a # b,
           Current(a) = Current(b)
    PROVE  ~Free(lease[Current(b)], b, clock[b])
<1>1. /\ lease[Current(b)].holder = a
      /\ since[a] + TTL <= lease[Current(b)].expires
  BY DEF IInv, RowCoversPass, Covered
<1>2. /\ clock[b] <= since[b] + MaxSkew
      /\ since[b] <= now
  BY DEF IInv, WithinSkew
<1>3. /\ lease[Current(b)].expires \in Nat
      /\ now \in Nat /\ since[a] \in Nat /\ since[b] \in Nat /\ clock[b] \in Nat
  BY LeaseAssumption DEF IInv, TypeOK, Rows, Names, Current
<1>4. ~(lease[Current(b)].expires < clock[b])
  BY <1>1, <1>2, <1>3, LeaseAssumption, SMTT(30) DEF Overrun
<1> QED
  BY <1>1, <1>4, LeaseAssumption DEF Free

(* The strengthened invariant holds in every reachable state.              *)
LEMMA Invariance == Spec => []IInv
<1>1. Init => IInv
  <2> SUFFICES ASSUME Init PROVE IInv
    OBVIOUS
  <2>1. TypeOK
    BY LeaseAssumption, OrderDomain DEF Init, TypeOK, PCs, Rows, NoRow, Names
  <2> QED
    BY <2>1 DEF Init, IInv, SingleProcess, WithinSkew, RowCoversPass, Alive
<1>2. IInv /\ TypeOK' /\ [Next]_vars => IInv'
  <2> SUFFICES ASSUME IInv, TypeOK', [Next]_vars
               PROVE  SingleProcess' /\ WithinSkew' /\ RowCoversPass'
    BY DEF IInv
  <2> USE LeaseAssumption DEF IInv, PCs
  <2>1. CASE UNCHANGED vars
    BY <2>1 DEF vars, SingleProcess, WithinSkew, RowCoversPass, Alive,
                Covered, Current, Overrun
  <2>2. CASE Tick
    <3>1. SingleProcess' /\ RowCoversPass'
      BY <2>2 DEF Tick, SingleProcess, RowCoversPass, Alive, Covered, Current,
                  Overrun, TypeOK
    <3>2. WithinSkew'
      BY <2>2 DEF Tick, WithinSkew, TypeOK
    <3> QED BY <3>1, <3>2
  <2>3. ASSUME NEW m \in Masters, Start(m)
        PROVE  SingleProcess' /\ WithinSkew' /\ RowCoversPass'
    BY <2>3 DEF Start, SingleProcess, WithinSkew, RowCoversPass, Alive,
                Covered, Current, Overrun, TypeOK
  <2>4. ASSUME NEW m \in Masters, Wake(m)
        PROVE  SingleProcess' /\ WithinSkew' /\ RowCoversPass'
    BY <2>4 DEF Wake, SingleProcess, WithinSkew, RowCoversPass, Alive,
                Covered, Current, Overrun, TypeOK
  <2>5. ASSUME NEW m \in Masters, ReadClock(m)
        PROVE  SingleProcess' /\ WithinSkew' /\ RowCoversPass'
    <3>1. SingleProcess' /\ RowCoversPass'
      BY <2>5, SMTT(30) DEF ReadClock, SingleProcess, RowCoversPass, Alive, Covered,
                  Current, Overrun, TypeOK
    <3>2. WithinSkew'
      BY <2>5 DEF ReadClock, WithinSkew, TypeOK
    <3> QED BY <3>1, <3>2
  <2>6. ASSUME NEW m \in Masters, Advance(m), Alive(m), UNCHANGED <<now, backend>>
        PROVE  /\ SingleProcess' /\ WithinSkew'
               /\ \A o \in Masters : pc'[o] = "work" =>
                    o # m /\ pc[o] = "work" /\ pos'[o] = pos[o] /\ since'[o] = since[o]
               /\ \A o \in Masters : pc'[o] = "work" /\ ~Overrun(o)' => ~Overrun(o)
    <3>1. /\ pc'[m] \in {"read", "sleep"}
          /\ \A o \in Masters \ {m} :
                /\ pc'[o] = pc[o] /\ pos'[o] = pos[o]
                /\ since'[o] = since[o] /\ clock'[o] = clock[o]
      BY <2>6 DEF Advance, TypeOK
    <3>2. SingleProcess'
      BY <2>6, <3>1 DEF SingleProcess, Alive
    <3>3. WithinSkew'
      BY <2>6, <3>1 DEF WithinSkew
    <3>4. \A o \in Masters : pc'[o] = "work" /\ ~Overrun(o)' => ~Overrun(o)
      BY <2>6, <3>1 DEF Overrun
    <3> QED BY <3>1, <3>2, <3>3, <3>4
  <2>7. ASSUME NEW m \in Masters, pc[m] = "upsert", backend = "postgres",
               Free(lease[Current(m)], m, clock[m]), Write(m)
        PROVE  \A o \in Masters : o # m /\ pc[o] = "work" /\ ~Overrun(o) =>
                   lease'[Current(o)] = lease[Current(o)]
    <3> SUFFICES ASSUME NEW o \in Masters, o # m, pc[o] = "work", ~Overrun(o)
                 PROVE  lease'[Current(o)] = lease[Current(o)]
      OBVIOUS
    <3>1. Current(o) # Current(m)
      BY <2>7, CoveredIsNotFree
    <3> QED BY <2>7, <3>1 DEF Write, Current, TypeOK, Names
  <2>8. ASSUME NEW m \in Masters, TryAcquire(m)
        PROVE  SingleProcess' /\ WithinSkew' /\ RowCoversPass'
    <3>1. CASE backend = "sqlite" /\ pc' = [pc EXCEPT ![m] = "work"]
               /\ UNCHANGED <<lease, pos, clock, since>>
      BY <2>8, <3>1 DEF TryAcquire, SingleProcess, WithinSkew, RowCoversPass,
                        Alive, TypeOK
    <3>2. CASE /\ backend = "postgres"
               /\ Free(lease[Current(m)], m, clock[m]) /\ Write(m)
               /\ pc' = [pc EXCEPT ![m] = "work"]
               /\ UNCHANGED <<pos, clock, since>>
      <4>1. SingleProcess' /\ WithinSkew'
        BY <2>8, <3>2 DEF TryAcquire, SingleProcess, WithinSkew, Alive, TypeOK
      <4>2. Covered(m)'
        <5>1. lease'[Current(m)] = [holder |-> m, expires |-> clock[m] + TTL]
          BY <3>2 DEF Write, TypeOK, Names, Current
        <5>2. since[m] <= clock[m]
          BY <2>8 DEF TryAcquire, WithinSkew
        <5> QED BY <3>2, <5>1, <5>2 DEF Covered, Current, Overrun, TypeOK
      <4>3. \A o \in Masters : o # m /\ pc[o] = "work" /\ ~Overrun(o)' => Covered(o)'
        <5>1. \A o \in Masters : ~Overrun(o)' => ~Overrun(o)
          BY <2>8, <3>2 DEF TryAcquire, Overrun
        <5>2. \A o \in Masters : o # m /\ pc[o] = "work" /\ ~Overrun(o) =>
                  lease'[Current(o)] = lease[Current(o)]
          BY <2>7, <2>8, <3>2 DEF TryAcquire
        <5> QED BY <3>2, <5>1, <5>2 DEF RowCoversPass, Covered, Current
      <4> QED BY <3>2, <4>1, <4>2, <4>3 DEF RowCoversPass, TypeOK
    <3>3. CASE backend = "postgres" /\ Advance(m) /\ UNCHANGED lease
      <4>1. Alive(m) /\ UNCHANGED <<now, backend>>
        BY <2>8 DEF TryAcquire, Alive
      <4> QED BY <2>6, <3>3, <4>1 DEF RowCoversPass, Covered, Current
    <3> QED BY <2>8, <3>1, <3>2, <3>3 DEF TryAcquire
  <2>9. ASSUME NEW m \in Masters, TryAcquireErr(m)
        PROVE  SingleProcess' /\ WithinSkew' /\ RowCoversPass'
    <3>1. Alive(m) /\ UNCHANGED <<now, backend>> /\ Advance(m)
      BY <2>9 DEF TryAcquireErr, Alive
    <3>2. \A o \in Masters : o # m /\ pc[o] = "work" /\ ~Overrun(o) =>
              lease'[Current(o)] = lease[Current(o)]
      BY <2>7, <2>9 DEF TryAcquireErr
    <3> QED BY <2>6, <3>1, <3>2 DEF RowCoversPass, Covered, Current
  <2>10. ASSUME NEW m \in Masters, EndPass(m)
         PROVE  SingleProcess' /\ WithinSkew' /\ RowCoversPass'
    <3>1. Alive(m) /\ UNCHANGED <<now, backend, lease>> /\ Advance(m)
      BY <2>10 DEF EndPass, Alive
    <3> QED BY <2>6, <3>1 DEF RowCoversPass, Covered, Current
  <2>11. ASSUME NEW m \in Masters, Crash(m)
         PROVE  SingleProcess' /\ WithinSkew' /\ RowCoversPass'
    BY <2>11, SMTT(30) DEF Crash, SingleProcess, WithinSkew, RowCoversPass, Alive,
                 Covered, Current, Overrun, TypeOK
  <2> QED
    BY <2>1, <2>2, <2>3, <2>4, <2>5, <2>8, <2>9, <2>10, <2>11
    DEF Next, Step
<1> QED
  BY <1>1, <1>2, LeaseTypeCorrect, PTL DEF Spec

(* OneMasterPerLease for every value of the constants: of two masters in   *)
(* the pass of one lease (LeaseManager::try_acquire said yes to both), one *)
(* has been in it for longer than TTL - MaxSkew.                           *)
THEOREM LeaseExclusion == Spec => []OneMasterPerLease
<1>1. IInv => OneMasterPerLease
  <2> SUFFICES ASSUME IInv, NEW n \in Names,
                      NEW a \in Masters, NEW b \in Masters,
                      Working(a, n), Working(b, n), ~Overrun(a), ~Overrun(b)
               PROVE  a = b
    BY DEF OneMasterPerLease
  <2>1. CASE backend = "sqlite"
    BY <2>1 DEF IInv, SingleProcess, Working, Alive
  <2>2. CASE backend = "postgres"
    BY <2>2 DEF IInv, RowCoversPass, Covered, Working
  <2> QED BY <2>1, <2>2 DEF IInv, TypeOK
<1> QED
  BY <1>1, Invariance, PTL
-----------------------------------------------------------------------------
(***************************************************************************)
(* Taking over.  Due(m, i) is the latest time at which m will have tried   *)
(* the i-th name again, given where it is in its loop: a try and its pass  *)
(* take PassBound at most, the sleep between two rounds takes Period.      *)
(***************************************************************************)
Passes(k) == k * PassBound
Lap == Period + Passes(Len(Order) + 1)
Begun(m) == IF pc[m] = "read" THEN now ELSE since[m]
NextRound(m, i) == i < pos[m] \/ (i = pos[m] /\ pc[m] = "work")
Due(m, i) ==
    IF pc[m] = "sleep" THEN since[m] + Period + Passes(i)
    ELSE IF NextRound(m, i)
         THEN Begun(m) + Period + Passes(Len(Order) - pos[m] + 1 + i)
         ELSE Begun(m) + Passes(i - pos[m] + 1)

(* Time passes only within the bounds of every master.                     *)
Punctual ==
    \A m \in Masters :
        /\ pc[m] \in {"new", "sleep"} => pos[m] = 1
        /\ pc[m] = "sleep" => since[m] <= now /\ now <= since[m] + Period
        /\ pc[m] \in {"upsert", "work"} =>
             since[m] <= now /\ now <= since[m] + PassBound

(***************************************************************************)
(* The holder of a row who is about to write it again may bring its expiry *)
(* forward, for its clock may have been ahead the last time.  It read the  *)
(* clock no earlier than any master that is in the pass of this lease.     *)
(***************************************************************************)
HolderReadLater ==
    backend = "postgres" =>
        \A o, m \in Masters :
            pc[o] = "upsert" /\ pc[m] = "work" /\ pos[o] = pos[m]
                /\ lease[Current(o)].holder = o
            => since[m] <= since[o]

(***************************************************************************)
(* The next try of a name comes within a round of the start of the master  *)
(* or of the expiry of the row.                                            *)
(***************************************************************************)
InTime(m, i) ==
    \/ Due(m, i) <= boot[m] + Round
    \/ /\ lease[Order[i]].holder # NoOne
       /\ Due(m, i) <= lease[Order[i]].expires + Round
OnSchedule ==
    backend = "postgres" =>
        \A m \in Masters : Alive(m) => \A i \in DOMAIN Order : InTime(m, i)

TimeInv == IInv /\ Punctual /\ HolderReadLater /\ OnSchedule

(* Arithmetic of passes and rounds.                                        *)
LEMMA PassesFacts ==
    /\ \A k \in Nat : Passes(k) \in Nat /\ Passes(k + 1) = Passes(k) + PassBound
    /\ \A j, k \in Nat : j <= k => Passes(j) <= Passes(k)
    /\ Passes(1) = PassBound
    /\ Lap \in Nat /\ Lap = Period + Passes(Len(Order)) + PassBound
<1>1. ASSUME NEW k \in Nat
      PROVE  Passes(k) \in Nat /\ Passes(k + 1) = Passes(k) + PassBound
  BY LeaseAssumption DEF Passes
<1>2. ASSUME NEW j \in Nat, NEW k \in Nat, j <= k
      PROVE  Passes(j) <= Passes(k)
  <2>1. PICK d \in Nat : k = j + d
    <3>1. k - j \in Nat /\ k = j + (k - j)
      BY <1>2
    <3> QED BY <3>1
  <2>2. k * PassBound = j * PassBound + d * PassBound
    BY <2>1, LeaseAssumption
  <2>3. j * PassBound \in Nat /\ d * PassBound \in Nat
    BY <2>1, LeaseAssumption
  <2> QED BY <2>2, <2>3 DEF Passes
<1>3. Passes(1) = PassBound
  BY LeaseAssumption DEF Passes
<1>4. Lap \in Nat /\ Lap = Period + Passes(Len(Order)) + PassBound
  <2>1. Len(Order) \in Nat
    BY OrderDomain
  <2>2. /\ Passes(Len(Order)) \in Nat
        /\ Passes(Len(Order) + 1) = Passes(Len(Order)) + PassBound
    BY <1>1, <2>1
  <2> QED BY <2>2, LeaseAssumption DEF Lap
<1> QED
  BY <1>1, <1>2, <1>3, <1>4

(* A failed statement makes a round longer by a Lap.                       *)
LEMMA RoundFacts ==
    ASSUME errors \in Nat, errors' \in Nat
    PROVE  /\ Round \in Nat /\ Round' \in Nat /\ Lap <= Round /\ Lap <= Round'
           /\ errors' = errors => Round' = Round
           /\ errors' = errors + 1 => Round' = Round + Lap
<1>1. Round = Lap * (errors + 1) /\ Round' = Lap * (errors' + 1)
  BY DEF Round, Lap, Passes
<1>2. Lap \in Nat
  BY PassesFacts
<1>3. \A e \in Nat : /\ Lap * (e + 1) = Lap * e + Lap
                     /\ Lap * e \in Nat
  BY <1>2
<1>4. errors' = errors + 1 => Round' = Round + Lap
  <2> SUFFICES ASSUME errors' = errors + 1 PROVE Round' = Round + Lap
    OBVIOUS
  <2>1. errors + 1 \in Nat
    OBVIOUS
  <2> QED BY <1>1, <1>3, <2>1
<1>5. errors' = errors => Round' = Round
  BY <1>1
<1>6. \A e \in Nat : Lap * (e + 1) \in Nat /\ Lap <= Lap * (e + 1)
  BY <1>2, <1>3
<1>7. Round \in Nat /\ Lap <= Round
  BY <1>1, <1>6
<1>8. Round' \in Nat /\ Lap <= Round'
  BY <1>1, <1>6
<1> QED
  BY <1>4, <1>5, <1>7, <1>8

(* What the times of a master are, by where it is in its loop.             *)
LEMMA Times ==
    ASSUME TypeOK, NEW m \in Masters, NEW i \in DOMAIN Order
    PROVE  /\ Len(Order) \in Nat /\ i \in Nat /\ pos[m] \in Nat /\ now \in Nat
           /\ since[m] \in Nat /\ boot[m] \in Nat /\ clock[m] \in Nat
           /\ 1 <= i /\ i <= Len(Order) /\ 1 <= pos[m] /\ pos[m] <= Len(Order)
           /\ pc[m] \in PCs
           /\ lease[Order[i]].expires \in Nat
           /\ Order[i] \in Names /\ Current(m) = Order[pos[m]]
           /\ errors \in Nat
<1>1. i \in 1 .. Len(Order) /\ pos[m] \in 1 .. Len(Order) /\ Len(Order) \in Nat
  BY OrderDomain DEF TypeOK
<1>2. Order[i] \in Names
  BY DEF Names
<1> QED
  BY <1>1, <1>2 DEF TypeOK, Rows, Current

(* Due, case by case.                                                      *)
LEMMA DueCases ==
    ASSUME TypeOK, NEW m \in Masters, NEW i \in DOMAIN Order, Alive(m)
    PROVE  /\ Due(m, i) \in Nat
           /\ pc[m] = "sleep" => Due(m, i) = since[m] + Period + Passes(i)
           /\ pc[m] = "read" /\ i < pos[m] =>
                Due(m, i) = now + Period + Passes(Len(Order) - pos[m] + 1 + i)
           /\ pc[m] = "read" /\ ~(i < pos[m]) =>
                Due(m, i) = now + Passes(i - pos[m] + 1)
           /\ pc[m] = "upsert" /\ i < pos[m] =>
                Due(m, i) = since[m] + Period + Passes(Len(Order) - pos[m] + 1 + i)
           /\ pc[m] = "upsert" /\ ~(i < pos[m]) =>
                Due(m, i) = since[m] + Passes(i - pos[m] + 1)
           /\ pc[m] = "work" /\ i <= pos[m] =>
                Due(m, i) = since[m] + Period + Passes(Len(Order) - pos[m] + 1 + i)
           /\ pc[m] = "work" /\ ~(i <= pos[m]) =>
                Due(m, i) = since[m] + Passes(i - pos[m] + 1)
           /\ i \in Nat
           /\ Len(Order) - pos[m] + 1 + i \in Nat
           /\ ~(i < pos[m]) => i - pos[m] + 1 \in Nat
           /\ pc[m] \in {"sleep", "read", "upsert", "work"}
<1>1. /\ Len(Order) \in Nat /\ i \in Nat /\ pos[m] \in Nat /\ now \in Nat
      /\ since[m] \in Nat /\ 1 <= i /\ i <= Len(Order) /\ 1 <= pos[m]
      /\ pos[m] <= Len(Order) /\ pc[m] \in PCs
      /\ Period \in Nat /\ PassBound \in Nat
  BY Times, LeaseAssumption
<1> USE <1>1
<1>2. pc[m] \in {"sleep", "read", "upsert", "work"}
  BY DEF Alive, PCs
<1>3. i \in Nat /\ Len(Order) - pos[m] + 1 + i \in Nat /\ (~(i < pos[m]) => i - pos[m] + 1 \in Nat)
  OBVIOUS
<1>4. CASE pc[m] = "sleep"
  <2>1. Due(m, i) = since[m] + Period + Passes(i)
    BY <1>4 DEF Due
  <2>2. Passes(i) \in Nat
    BY PassesFacts
  <2> QED BY <1>3, <1>4, <2>1, <2>2, SMTT(30)
<1>5. CASE pc[m] = "read"
  <2>1. CASE i < pos[m]
    <3>1. Due(m, i) = now + Period + Passes(Len(Order) - pos[m] + 1 + i)
      BY <1>5, <2>1 DEF Due, NextRound, Begun
    <3>2. Passes(Len(Order) - pos[m] + 1 + i) \in Nat
      BY <1>3, PassesFacts
    <3> QED BY <1>3, <1>5, <2>1, <3>1, <3>2
  <2>2. CASE ~(i < pos[m])
    <3>1. Due(m, i) = now + Passes(i - pos[m] + 1)
      BY <1>5, <2>2 DEF Due, NextRound, Begun
    <3>2. Passes(i - pos[m] + 1) \in Nat
      BY <1>3, <2>2, PassesFacts
    <3> QED BY <1>3, <1>5, <2>2, <3>1, <3>2
  <2> QED BY <2>1, <2>2
<1>6. CASE pc[m] = "upsert"
  <2>1. CASE i < pos[m]
    <3>1. Due(m, i) = since[m] + Period + Passes(Len(Order) - pos[m] + 1 + i)
      BY <1>6, <2>1 DEF Due, NextRound, Begun
    <3>2. Passes(Len(Order) - pos[m] + 1 + i) \in Nat
      BY <1>3, PassesFacts
    <3> QED BY <1>3, <1>6, <2>1, <3>1, <3>2
  <2>2. CASE ~(i < pos[m])
    <3>1. Due(m, i) = since[m] + Passes(i - pos[m] + 1)
      BY <1>6, <2>2 DEF Due, NextRound, Begun
    <3>2. Passes(i - pos[m] + 1) \in Nat
      BY <1>3, <2>2, PassesFacts
    <3> QED BY <1>3, <1>6, <2>2, <3>1, <3>2, SMTT(30)
  <2> QED BY <2>1, <2>2
<1>7. CASE pc[m] = "work"
  <2>1. CASE i <= pos[m]
    <3>1. NextRound(m, i)
      BY <1>7, <2>1 DEF NextRound
    <3>2. Due(m, i) = since[m] + Period + Passes(Len(Order) - pos[m] + 1 + i)
      BY <1>7, <3>1 DEF Due, Begun
    <3>3. Passes(Len(Order) - pos[m] + 1 + i) \in Nat
      BY <1>3, PassesFacts
    <3> QED BY <1>3, <1>7, <2>1, <3>2, <3>3, SMTT(30)
  <2>2. CASE ~(i <= pos[m])
    <3>1. ~NextRound(m, i)
      BY <2>2 DEF NextRound
    <3>2. Due(m, i) = since[m] + Passes(i - pos[m] + 1)
      BY <1>7, <3>1 DEF Due, Begun
    <3>3. i - pos[m] + 1 \in Nat
      BY <2>2
    <3>4. Passes(i - pos[m] + 1) \in Nat
      BY <3>3, PassesFacts
    <3> QED BY <1>3, <1>7, <2>2, <3>2, <3>4
  <2> QED BY <2>1, <2>2
<1> QED
  BY <1>2, <1>4, <1>5, <1>6, <1>7

(* A master that keeps to its bounds has not missed a try, and the next    *)
(* one is at most a round of passes and a sleep away, or a Lap from the    *)
(* clock reading of the pass it is in.                                     *)
LEMMA DueBounds ==
    ASSUME TypeOK, Punctual, NEW m \in Masters, NEW i \in DOMAIN Order, Alive(m)
    PROVE  /\ now <= Due(m, i)
           /\ \/ pc[m] = "work" /\ i = pos[m] /\ Due(m, i) = since[m] + Lap
              \/ Due(m, i) <= now + Period + Passes(Len(Order))
<1>1. /\ Len(Order) \in Nat /\ i \in Nat /\ pos[m] \in Nat /\ now \in Nat
      /\ since[m] \in Nat /\ 1 <= i /\ i <= Len(Order) /\ 1 <= pos[m]
      /\ pos[m] <= Len(Order) /\ pc[m] \in PCs
      /\ Period \in Nat /\ PassBound \in Nat
  BY Times, LeaseAssumption
<1> USE <1>1
<1>2. Due(m, i) \in Nat /\ pc[m] \in {"sleep", "read", "upsert", "work"}
  BY DueCases
<1>3. \A k \in Nat : 1 <= k => PassBound <= Passes(k)
  BY PassesFacts
<1>4. \A k \in Nat : k <= Len(Order) => Passes(k) <= Passes(Len(Order))
  BY PassesFacts
<1>5. Passes(Len(Order)) \in Nat
  BY PassesFacts
<1> DEFINE far == Len(Order) - pos[m] + 1 + i
           near == i - pos[m] + 1
<1>6. far \in Nat /\ 1 <= far /\ (i < pos[m] => far <= Len(Order))
  OBVIOUS
<1>7. ~(i < pos[m]) => near \in Nat /\ 1 <= near /\ near <= Len(Order)
  OBVIOUS
<1>8. /\ Passes(far) \in Nat /\ PassBound <= Passes(far)
      /\ i < pos[m] => Passes(far) <= Passes(Len(Order))
  BY <1>3, <1>4, <1>6, PassesFacts
<1>9. ~(i < pos[m]) => /\ Passes(near) \in Nat /\ PassBound <= Passes(near)
                       /\ Passes(near) <= Passes(Len(Order))
  BY <1>3, <1>4, <1>7, PassesFacts
<1>10. /\ i < pos[m] /\ pc[m] \in {"upsert", "work"} => Due(m, i) = since[m] + Period + Passes(far)
       /\ ~(i < pos[m]) /\ pc[m] = "upsert" => Due(m, i) = since[m] + Passes(near)
       /\ ~(i <= pos[m]) /\ pc[m] = "work" => Due(m, i) = since[m] + Passes(near)
       /\ i < pos[m] /\ pc[m] = "read" => Due(m, i) = now + Period + Passes(far)
       /\ ~(i < pos[m]) /\ pc[m] = "read" => Due(m, i) = now + Passes(near)
  BY DueCases
<1>11. /\ pc[m] = "sleep" => since[m] <= now /\ now <= since[m] + Period
       /\ pc[m] \in {"upsert", "work"} => since[m] <= now /\ now <= since[m] + PassBound
  BY DEF Punctual
<1> HIDE DEF far, near
<1>12. CASE pc[m] = "sleep"
  <2>1. Due(m, i) = since[m] + Period + Passes(i) /\ Passes(i) \in Nat
        /\ Passes(i) <= Passes(Len(Order))
    BY <1>4, <1>12, DueCases, PassesFacts
  <2> QED BY <1>5, <1>11, <1>2, <1>12, <2>1, SMTT(30)
<1>13. CASE pc[m] = "read"
  BY <1>5, <1>8, <1>9, <1>10, <1>2, <1>13
<1>14. CASE pc[m] = "upsert"
  BY <1>5, <1>8, <1>9, <1>10, <1>11, <1>2, <1>14, SMTT(30)
<1>15. CASE pc[m] = "work" /\ i # pos[m]
  <2>1. CASE i < pos[m]
    BY <1>5, <1>8, <1>10, <1>11, <1>15, <1>2, <2>1, SMTT(30)
  <2>2. CASE ~(i < pos[m])
    <3>1. ~(i <= pos[m])
      BY <1>15, <2>2
    <3>2. Due(m, i) = since[m] + Passes(near)
      BY <1>10, <1>15, <3>1
    <3> QED BY <1>5, <1>9, <1>11, <1>15, <1>2, <2>2, <3>2
  <2> QED BY <2>1, <2>2
<1>16. CASE pc[m] = "work" /\ i = pos[m]
  <2>1. far = Len(Order) + 1
    BY <1>16 DEF far
  <2>2. Due(m, i) = since[m] + Period + Passes(far)
    BY <1>16, DueCases DEF far
  <2>3. Due(m, i) = since[m] + Lap
    <3>1. Lap = Period + Passes(far)
      BY <2>1 DEF Lap
    <3> QED BY <1>8, <2>2, <3>1
  <2>4. now <= Due(m, i)
    BY <1>8, <1>11, <1>16, <2>2
  <2> QED BY <1>16, <2>3, <2>4
<1> QED
  BY <1>2, <1>12, <1>13, <1>14, <1>15, <1>16

(* Moving on to the next name or to the sleep puts off no try but that of  *)
(* the name it was at, and that one to a Lap after the clock was read.     *)
LEMMA AdvanceDue ==
    ASSUME TypeOK, Punctual, NEW m \in Masters, NEW i \in DOMAIN Order,
           pc[m] \in {"upsert", "work"}, Advance(m), now' = now
    PROVE  /\ i # pos[m] \/ pc[m] = "work" => Due(m, i)' <= Due(m, i)
           /\ Due(m, i)' <= since[m] + Lap
<1>1. /\ Len(Order) \in Nat /\ i \in Nat /\ pos[m] \in Nat /\ now \in Nat
      /\ since[m] \in Nat /\ 1 <= i /\ i <= Len(Order) /\ 1 <= pos[m]
      /\ pos[m] <= Len(Order) /\ Period \in Nat /\ PassBound \in Nat
  BY Times, LeaseAssumption
<1> USE <1>1
<1>2. Alive(m)
  BY DEF Alive
<1>3. since[m] <= now /\ now <= since[m] + PassBound
  BY DEF Punctual
<1>4. since'[m] = now
  BY DEF Advance, TypeOK
<1>5. Passes(Len(Order)) \in Nat /\ Lap = Period + Passes(Len(Order)) + PassBound
  BY PassesFacts
<1>6. CASE i < pos[m] \/ (i = pos[m] /\ pos[m] < Len(Order))
  <2> DEFINE k == Len(Order) - pos[m] + i
  <2>1. k \in Nat /\ k <= Len(Order)
    BY <1>6
  <2>2. /\ Passes(k) \in Nat /\ Passes(k + 1) = Passes(k) + PassBound
        /\ Passes(k) <= Passes(Len(Order))
    BY <2>1, PassesFacts
  <2>3. Due(m, i)' = now + Period + Passes(k)
    <3>1. CASE pos[m] < Len(Order)
      <4>1. pc'[m] = "read" /\ pos'[m] = pos[m] + 1
        BY <3>1 DEF Advance, TypeOK
      <4>2. i < pos[m] + 1 /\ Len(Order) - (pos[m] + 1) + 1 + i = k
        BY <1>6
      <4>3. Due(m, i)' = now' + Period + Passes(Len(Order) - (pos[m] + 1) + 1 + i)
        BY <4>1, <4>2 DEF Due, NextRound, Begun
      <4> QED BY <4>2, <4>3
    <3>2. CASE ~(pos[m] < Len(Order))
      <4>1. pc'[m] = "sleep"
        BY <3>2 DEF Advance, TypeOK
      <4>2. Due(m, i)' = now + Period + Passes(i)
        BY <1>4, <4>1 DEF Due
      <4>3. i = k
        BY <3>2
      <4> QED BY <4>2, <4>3
    <3> QED BY <3>1, <3>2
  <2>4. i # pos[m] \/ pc[m] = "work" => Due(m, i) = since[m] + Period + Passes(k + 1)
    <3>1. Len(Order) - pos[m] + 1 + i = k + 1
      OBVIOUS
    <3>2. i # pos[m] \/ pc[m] = "work" =>
            Due(m, i) = since[m] + Period + Passes(Len(Order) - pos[m] + 1 + i)
      BY <1>2, <1>6, DueCases
    <3> QED BY <3>1, <3>2
  <2> HIDE DEF k
  <2>5. Due(m, i)' <= since[m] + Lap
    BY <1>3, <1>5, <2>2, <2>3, SMTT(30)
  <2>6. Due(m, i)' <= since[m] + Period + Passes(k + 1)
    BY <1>3, <2>2, <2>3
  <2> QED BY <2>4, <2>5, <2>6
<1>7. CASE i = pos[m] /\ ~(pos[m] < Len(Order))
  <2>1. pc'[m] = "sleep" /\ i = Len(Order)
    BY <1>7 DEF Advance, TypeOK
  <2>2. Due(m, i)' = now + Period + Passes(Len(Order))
    BY <1>4, <2>1 DEF Due
  <2>3. pc[m] = "work" => Due(m, i) = since[m] + Lap
    <3>1. Len(Order) - pos[m] + 1 + i = Len(Order) + 1
      BY <1>7
    <3>2. pc[m] = "work" => Due(m, i) = since[m] + Period + Passes(Len(Order) + 1)
      BY <1>2, <1>7, <3>1, DueCases
    <3>3. Passes(Len(Order) + 1) = Passes(Len(Order)) + PassBound
      BY PassesFacts
    <3> QED BY <1>5, <3>2, <3>3
  <2>4. Due(m, i)' <= since[m] + Lap
    BY <1>3, <1>5, <2>2
  <2> QED BY <1>7, <2>3, <2>4
<1>8. CASE ~(i <= pos[m])
  <2> DEFINE k == i - pos[m]
  <2>1. k \in Nat /\ k <= Len(Order)
    BY <1>8
  <2>2. /\ Passes(k) \in Nat /\ Passes(k + 1) = Passes(k) + PassBound
        /\ Passes(k) <= Passes(Len(Order))
    BY <2>1, PassesFacts
  <2>3. Due(m, i)' = now + Passes(k)
    <3>1. pc'[m] = "read" /\ pos'[m] = pos[m] + 1
      BY <1>8 DEF Advance, TypeOK
    <3>2. ~(i < pos[m] + 1) /\ i - (pos[m] + 1) + 1 = k
      BY <1>8
    <3>3. Due(m, i)' = now' + Passes(i - (pos[m] + 1) + 1)
      BY <3>1, <3>2 DEF Due, NextRound, Begun
    <3> QED BY <3>2, <3>3
  <2>4. Due(m, i) = since[m] + Passes(k + 1)
    <3>1. i - pos[m] + 1 = k + 1 /\ ~(i < pos[m])
      BY <1>8
    <3>2. Due(m, i) = since[m] + Passes(i - pos[m] + 1)
      BY <1>2, <1>8, <3>1, DueCases
    <3> QED BY <3>1, <3>2
  <2> HIDE DEF k
  <2> QED BY <1>3, <1>5, <2>2, <2>3, <2>4, SMTT(30)
<1> QED
  BY <1>6, <1>7, <1>8

(* A master that does nothing is due when it was.                          *)
LEMMA DueKept ==
    ASSUME NEW m \in Masters, NEW i \in DOMAIN Order, pc'[m] = pc[m],
           pos'[m] = pos[m], since'[m] = since[m], now' = now \/ pc[m] # "read"
    PROVE  Due(m, i)' = Due(m, i)
  BY DEF Due, NextRound, Begun

(* A master that is not put off, and whose row does not change, stays on   *)
(* schedule; a failed statement only gives it more time.                   *)
LEMMA InTimeKept ==
    ASSUME TypeOK, errors' \in Nat, errors' = errors \/ errors' = errors + 1,
           NEW m \in Masters, NEW i \in DOMAIN Order, Alive(m), InTime(m, i),
           Due(m, i)' \in Int, Due(m, i)' <= Due(m, i), boot'[m] = boot[m],
           lease'[Order[i]] = lease[Order[i]]
    PROVE  InTime(m, i)'
<1>1. Due(m, i) \in Nat /\ boot[m] \in Nat /\ lease[Order[i]].expires \in Nat
      /\ errors \in Nat
  BY Times, DueCases
<1>2. Round \in Nat /\ Round' \in Nat /\ Round <= Round'
  <2>1. Round \in Nat /\ Round' \in Nat /\ Lap \in Nat
        /\ (Round' = Round \/ Round' = Round + Lap)
    BY <1>1, RoundFacts, PassesFacts
  <2> QED BY <2>1
<1>3. InTime(m, i)' <=> \/ Due(m, i)' <= boot[m] + Round'
                        \/ /\ lease[Order[i]].holder # NoOne
                           /\ Due(m, i)' <= lease[Order[i]].expires + Round'
  BY DEF InTime
<1>4. CASE Due(m, i) <= boot[m] + Round
  BY <1>1, <1>2, <1>3, <1>4
<1>5. CASE lease[Order[i]].holder # NoOne /\ Due(m, i) <= lease[Order[i]].expires + Round
  BY <1>1, <1>2, <1>3, <1>5
<1> QED
  BY <1>4, <1>5 DEF InTime

(* The row that a master writes: valid for longer than its reading of the  *)
(* clock is old; no other row changes.                                     *)
LEMMA RowWritten ==
    ASSUME TypeOK, WithinSkew, NEW m \in Masters, pc[m] = "upsert", Write(m)
    PROVE  /\ lease'[Order[pos[m]]].holder = m /\ m # NoOne
           /\ lease'[Order[pos[m]]].expires \in Nat
           /\ clock[m] <= lease'[Order[pos[m]]].expires
           /\ since[m] <= lease'[Order[pos[m]]].expires
           /\ \A i \in DOMAIN Order : i # pos[m] => lease'[Order[i]] = lease[Order[i]]
<1>1. pos[m] \in DOMAIN Order /\ lease \in [Names -> Rows]
      /\ clock[m] \in Nat /\ since[m] \in Nat /\ TTL \in Nat
  BY LeaseAssumption DEF TypeOK
<1>2. Order[pos[m]] \in Names /\ Current(m) = Order[pos[m]]
  BY <1>1 DEF Names, Current
<1>3. lease'[Order[pos[m]]] = [holder |-> m, expires |-> clock[m] + TTL]
  BY <1>1, <1>2 DEF Write
<1>4. ASSUME NEW i \in DOMAIN Order, i # pos[m]
      PROVE  lease'[Order[i]] = lease[Order[i]]
  <2>1. Order[i] # Order[pos[m]] /\ Order[i] \in Names
    BY <1>1, <1>4, LeaseAssumption DEF Names
  <2> QED BY <1>1, <1>2, <2>1 DEF Write
<1>5. since[m] <= clock[m]
  BY DEF WithinSkew
<1>6. m # NoOne
  BY LeaseAssumption
<1> QED
  BY <1>1, <1>3, <1>4, <1>5, <1>6

(* A row that is written keeps every other master on schedule.  Its expiry *)
(* moves forward only when the holder writes it again, and then the holder *)
(* read the clock a pass ago at most, and no earlier than a master in the  *)
(* pass of that lease.                                                     *)
LEMMA OthersInTime ==
    ASSUME TimeInv, backend = "postgres",
           errors' \in Nat, errors' = errors \/ errors' = errors + 1,
           NEW m \in Masters, pc[m] = "upsert",
           Free(lease[Current(m)], m, clock[m]), Write(m),
           NEW o \in Masters, o # m, Alive(o), NEW i \in DOMAIN Order,
           Due(o, i)' = Due(o, i), boot'[o] = boot[o]
    PROVE  InTime(o, i)'
<1>1. TypeOK /\ WithinSkew /\ Punctual /\ InTime(o, i)
  BY DEF TimeInv, IInv, OnSchedule
<1>2. Due(o, i) \in Nat
  BY <1>1, DueCases
<1>3. CASE i # pos[m]
  BY <1>1, <1>2, <1>3, RowWritten, InTimeKept
<1>4. CASE i = pos[m]
  <2>1. /\ lease'[Order[i]].holder # NoOne
        /\ lease'[Order[i]].expires \in Nat
        /\ clock[m] <= lease'[Order[i]].expires
        /\ since[m] <= lease'[Order[i]].expires
    BY <1>1, <1>4, RowWritten
  <2>2. /\ since[m] \in Nat /\ since[o] \in Nat /\ clock[m] \in Nat /\ now \in Nat
        /\ lease[Order[i]].expires \in Nat /\ boot[o] \in Nat /\ errors \in Nat
        /\ Current(m) = Order[i]
    BY <1>1, <1>4, Times
  <2>3. Round \in Nat /\ Round' \in Nat /\ Lap \in Nat /\ Lap <= Round' /\ Round <= Round'
    <3>1. Round \in Nat /\ Round' \in Nat /\ Lap \in Nat /\ Lap <= Round'
          /\ (Round' = Round \/ Round' = Round + Lap)
      BY <2>2, RoundFacts, PassesFacts
    <3> QED BY <3>1
  <2>4. SUFFICES \/ Due(o, i) <= boot[o] + Round'
                 \/ Due(o, i) <= lease'[Order[i]].expires + Round'
    BY <2>1 DEF InTime
  <2>5. CASE Due(o, i) <= boot[o] + Round
    BY <1>2, <2>2, <2>3, <2>5
  <2>6. CASE /\ lease[Order[i]].holder # NoOne /\ lease[Order[i]].holder # m
             /\ Due(o, i) <= lease[Order[i]].expires + Round
    <3>1. lease[Order[i]].expires < clock[m]
      BY <2>2, <2>6 DEF Free
    <3> QED BY <1>2, <2>1, <2>2, <2>3, <2>6, <3>1
  <2>7. CASE lease[Order[i]].holder = m
    <3>1. /\ now <= since[m] + PassBound
          /\ PassBound \in Nat /\ Period \in Nat /\ Passes(Len(Order)) \in Nat
          /\ Lap = Period + Passes(Len(Order)) + PassBound
      <4>1. Len(Order) \in Nat
        BY OrderDomain
      <4>2. Passes(Len(Order)) \in Nat /\ Lap = Period + Passes(Len(Order)) + PassBound
        BY <4>1, PassesFacts
      <4>3. now <= since[m] + PassBound
        BY <1>1 DEF Punctual
      <4> QED BY <4>2, <4>3, LeaseAssumption
    <3>2. CASE pc[o] = "work" /\ i = pos[o] /\ Due(o, i) = since[o] + Lap
      <4>1. since[o] <= since[m]
        BY <1>4, <2>2, <2>7, <3>2 DEF TimeInv, HolderReadLater
      <4> QED BY <2>1, <2>2, <2>3, <3>2, <4>1
    <3>3. CASE Due(o, i) <= now + Period + Passes(Len(Order))
      <4>1. Due(o, i) <= since[m] + Lap
        BY <1>2, <2>2, <3>1, <3>3
      <4>2. Due(o, i) <= lease'[Order[i]].expires + Lap
        BY <1>2, <2>1, <2>2, <2>3, <4>1
      <4> QED BY <1>2, <2>1, <2>3, <4>2
    <3> QED BY <1>1, <3>2, <3>3, DueBounds
  <2> QED BY <1>1, <2>5, <2>6, <2>7 DEF InTime
<1> QED
  BY <1>3, <1>4

(* The three parts of the invariant, step by step.                         *)
LEMMA PunctualNext == TimeInv /\ [Next]_vars => Punctual'
<1> SUFFICES ASSUME TimeInv, [Next]_vars PROVE Punctual'
  OBVIOUS
<1> USE LeaseAssumption DEF TimeInv, IInv, TypeOK, Punctual
<1>1. CASE UNCHANGED vars
  BY <1>1 DEF vars
<1>2. CASE Tick
  BY <1>2 DEF Tick
<1>3. ASSUME NEW m \in Masters, Start(m) PROVE Punctual'
  BY <1>3 DEF Start
<1>4. ASSUME NEW m \in Masters, Wake(m) PROVE Punctual'
  BY <1>4 DEF Wake
<1>5. ASSUME NEW m \in Masters, ReadClock(m) PROVE Punctual'
  BY <1>5 DEF ReadClock
<1>6. ASSUME NEW m \in Masters, Advance(m), now' = now PROVE Punctual'
  BY <1>6 DEF Advance
<1>7. ASSUME NEW m \in Masters, TryAcquire(m) PROVE Punctual'
  <2>1. CASE Advance(m)
    BY <1>6, <1>7, <2>1 DEF TryAcquire
  <2>2. CASE ~Advance(m)
    BY <1>7, <2>2 DEF TryAcquire
  <2> QED BY <2>1, <2>2
<1>8. ASSUME NEW m \in Masters, TryAcquireErr(m) PROVE Punctual'
  BY <1>6, <1>8 DEF TryAcquireErr
<1>9. ASSUME NEW m \in Masters, EndPass(m) PROVE Punctual'
  BY <1>6, <1>9 DEF EndPass
<1>10. ASSUME NEW m \in Masters, Crash(m) PROVE Punctual'
  BY <1>10 DEF Crash
<1> QED
  BY <1>1, <1>2, <1>3, <1>4, <1>5, <1>7, <1>8, <1>9, <1>10 DEF Next, Step

LEMMA HolderReadLaterNext == TimeInv /\ [Next]_vars => HolderReadLater'
<1> SUFFICES ASSUME TimeInv, [Next]_vars, backend' = "postgres",
                    NEW o \in Masters, NEW m \in Masters,
                    pc'[o] = "upsert", pc'[m] = "work", pos'[o] = pos'[m],
                    lease'[Order[pos'[o]]].holder = o
             PROVE  since'[m] <= since'[o]
  BY DEF HolderReadLater, Current
<1> USE LeaseAssumption DEF TypeOK
<1>1. TypeOK /\ WithinSkew /\ HolderReadLater
  BY DEF TimeInv, IInv
<1>2. CASE UNCHANGED vars
  BY <1>1, <1>2 DEF vars, HolderReadLater, Current
<1>3. CASE Tick
  BY <1>1, <1>3 DEF Tick, HolderReadLater, Current
<1>4. ASSUME NEW n \in Masters, Start(n) PROVE since'[m] <= since'[o]
  BY <1>1, <1>4 DEF Start, HolderReadLater, Current
<1>5. ASSUME NEW n \in Masters, Wake(n) PROVE since'[m] <= since'[o]
  BY <1>1, <1>5 DEF Wake, HolderReadLater, Current
<1>6. ASSUME NEW n \in Masters, ReadClock(n) PROVE since'[m] <= since'[o]
  <2>1. pc[m] = "work" /\ since'[m] = since[m] /\ since[m] <= now
    BY <1>1, <1>6 DEF ReadClock, WithinSkew
  <2>2. CASE n = o
    BY <1>1, <1>6, <2>1, <2>2 DEF ReadClock
  <2>3. CASE n # o
    BY <1>1, <1>6, <2>1, <2>3 DEF ReadClock, HolderReadLater, Current
  <2> QED BY <2>2, <2>3
<1>7. ASSUME NEW n \in Masters, Advance(n), backend' = backend,
             lease' = lease \/ (pc[n] = "upsert" /\ Write(n))
      PROVE since'[m] <= since'[o]
  <2>1. pc'[n] \in {"read", "sleep"} /\ \A k \in Masters \ {n} :
            pc'[k] = pc[k] /\ pos'[k] = pos[k] /\ since'[k] = since[k]
    BY <1>1, <1>7 DEF Advance
  <2>2. n # m /\ n # o
    BY <2>1
  <2>3. CASE lease' = lease
    BY <1>1, <1>7, <2>1, <2>2, <2>3 DEF HolderReadLater, Current
  <2>4. CASE pc[n] = "upsert" /\ Write(n)
    <3>1. pos[o] # pos[n] /\ pos[o] \in DOMAIN Order
      BY <1>1, <2>1, <2>2, <2>4, RowWritten, SMTT(30)
    <3>2. lease'[Order[pos[o]]] = lease[Order[pos[o]]]
      BY <1>1, <2>4, <3>1, RowWritten
    <3> QED BY <1>1, <1>7, <2>1, <2>2, <3>2 DEF HolderReadLater, Current
  <2> QED BY <1>7, <2>3, <2>4
<1>8. ASSUME NEW n \in Masters, TryAcquire(n) PROVE since'[m] <= since'[o]
  <2>1. CASE Advance(n) /\ lease' = lease
    BY <1>7, <1>8, <2>1 DEF TryAcquire
  <2>2. CASE /\ Write(n) /\ pc' = [pc EXCEPT ![n] = "work"]
             /\ UNCHANGED <<pos, clock, since>>
    <3>1. pc[n] = "upsert" /\ backend = "postgres" /\ n # o
      BY <1>1, <1>8, <2>2 DEF TryAcquire
    <3>2. pos[o] # pos[n] /\ pos[o] \in DOMAIN Order
      BY <1>1, <2>2, <3>1, RowWritten, SMTT(30)
    <3>3. lease'[Order[pos[o]]] = lease[Order[pos[o]]]
      BY <1>1, <2>2, <3>1, <3>2, RowWritten
    <3>4. n # m
      BY <2>2, <3>2
    <3> QED BY <1>1, <2>2, <3>1, <3>3, <3>4 DEF HolderReadLater, Current
  <2>3. backend = "postgres"
    BY <1>8 DEF TryAcquire
  <2> QED BY <1>8, <2>1, <2>2, <2>3 DEF TryAcquire
<1>9. ASSUME NEW n \in Masters, TryAcquireErr(n) PROVE since'[m] <= since'[o]
  BY <1>7, <1>9 DEF TryAcquireErr
<1>10. ASSUME NEW n \in Masters, EndPass(n) PROVE since'[m] <= since'[o]
  BY <1>7, <1>10 DEF EndPass
<1>11. ASSUME NEW n \in Masters, Crash(n) PROVE since'[m] <= since'[o]
  BY <1>1, <1>11 DEF Crash, HolderReadLater, Current
<1> QED
  BY <1>2, <1>3, <1>4, <1>5, <1>6, <1>8, <1>9, <1>10, <1>11 DEF Next, Step

(* The type of Due after a step.                                           *)
LEMMA NextDueType ==
    ASSUME TypeOK', NEW m \in Masters, NEW i \in DOMAIN Order
    PROVE  Due(m, i)' \in Int
<1>1. since'[m] \in Int /\ now' \in Int /\ pos'[m] \in Int /\ i \in Int
      /\ Len(Order) \in Int /\ Period \in Int
  <2>1. pos'[m] \in 1 .. Len(Order) /\ i \in 1 .. Len(Order) /\ Len(Order) \in Nat
    BY OrderDomain DEF TypeOK
  <2> QED BY <2>1, LeaseAssumption DEF TypeOK
<1>2. \A k \in Int : Passes(k) \in Int
  BY LeaseAssumption DEF Passes
<1>3. Begun(m)' \in Int
  BY <1>1 DEF Begun
<1>4. Len(Order) - pos'[m] + 1 + i \in Int /\ i - pos'[m] + 1 \in Int
  BY <1>1
<1>5. /\ Passes(i) \in Int /\ Passes(Len(Order) - pos'[m] + 1 + i) \in Int
      /\ Passes(i - pos'[m] + 1) \in Int
  BY <1>1, <1>2, <1>4
<1>6. CASE pc'[m] = "sleep"
  <2>1. Due(m, i)' = since'[m] + Period + Passes(i)
    BY <1>6 DEF Due
  <2> QED BY <1>1, <1>5, <2>1
<1>7. CASE pc'[m] # "sleep" /\ NextRound(m, i)'
  <2>1. Due(m, i)' = Begun(m)' + Period + Passes(Len(Order) - pos'[m] + 1 + i)
    BY <1>7 DEF Due
  <2> QED BY <1>1, <1>3, <1>5, <2>1
<1>8. CASE pc'[m] # "sleep" /\ ~NextRound(m, i)'
  <2>1. Due(m, i)' = Begun(m)' + Passes(i - pos'[m] + 1)
    BY <1>8 DEF Due
  <2> QED BY <1>3, <1>5, <2>1
<1> QED
  BY <1>6, <1>7, <1>8

LEMMA OnScheduleNext == TimeInv /\ TypeOK' /\ [Next]_vars => OnSchedule'
<1> SUFFICES ASSUME TimeInv, TypeOK', [Next]_vars, backend' = "postgres",
                    NEW o \in Masters, Alive(o)', NEW i \in DOMAIN Order
             PROVE  InTime(o, i)'
  BY DEF OnSchedule
<1>1. TypeOK /\ WithinSkew /\ Punctual /\ OnSchedule
  BY DEF TimeInv, IInv
<1>2. /\ pc \in [Masters -> PCs] /\ pos \in [Masters -> DOMAIN Order]
      /\ since \in [Masters -> Nat] /\ boot \in [Masters -> Nat]
      /\ clock \in [Masters -> Nat] /\ now \in Nat
      /\ errors \in Nat /\ errors' \in Nat
      /\ lease \in [Names -> Rows]
  BY <1>1 DEF TypeOK
<1>3. Due(o, i)' \in Int
  BY NextDueType
<1>4. /\ Lap \in Nat /\ Round' \in Nat /\ Lap <= Round'
      /\ Period \in Nat /\ PassBound \in Nat
  BY <1>2, RoundFacts, PassesFacts, LeaseAssumption
(* A step that neither puts o off nor touches the row.                     *)
<1>5. ASSUME backend = "postgres", Alive(o), Due(o, i)' <= Due(o, i),
             boot'[o] = boot[o], errors' = errors \/ errors' = errors + 1,
             lease'[Order[i]] = lease[Order[i]]
      PROVE  InTime(o, i)'
  BY <1>1, <1>2, <1>3, <1>5, InTimeKept DEF OnSchedule
<1>6. ASSUME backend = "postgres", pc'[o] = pc[o], pos'[o] = pos[o],
             since'[o] = since[o], boot'[o] = boot[o], now' = now \/ pc[o] # "read",
             errors' = errors \/ errors' = errors + 1,
             lease'[Order[i]] = lease[Order[i]]
      PROVE  InTime(o, i)'
  <2>1. Due(o, i)' = Due(o, i) /\ Alive(o)
    BY <1>6, DueKept DEF Alive
  <2>2. Due(o, i)' <= Due(o, i)
    BY <1>3, <2>1
  <2> QED BY <1>5, <1>6, <2>1, <2>2
(* A step of another master that writes a row.                             *)
<1>7. ASSUME backend = "postgres", NEW n \in Masters, n # o, pc[n] = "upsert",
             Free(lease[Current(n)], n, clock[n]), Write(n),
             pc'[o] = pc[o], pos'[o] = pos[o], since'[o] = since[o],
             boot'[o] = boot[o], now' = now, errors' = errors \/ errors' = errors + 1
      PROVE  InTime(o, i)'
  <2>1. Due(o, i)' = Due(o, i) /\ Alive(o)
    BY <1>7, DueKept DEF Alive
  <2> QED BY <1>2, <1>7, <2>1, OthersInTime
(* A try that leaves a row which is valid at the time the clock was read.  *)
<1>8. ASSUME Due(o, i)' <= since[o] + Lap, lease'[Order[i]].holder # NoOne,
             lease'[Order[i]].expires \in Nat, since[o] <= lease'[Order[i]].expires
      PROVE  InTime(o, i)'
  <2>1. since[o] \in Nat
    BY <1>2
  <2>2. Due(o, i)' <= lease'[Order[i]].expires + Round'
    BY <1>3, <1>4, <1>8, <2>1
  <2> QED BY <1>8, <2>2 DEF InTime
<1>9. CASE UNCHANGED vars
  BY <1>6, <1>9 DEF vars
<1>10. CASE Tick
  BY <1>6, <1>10 DEF Tick
<1>11. ASSUME NEW n \in Masters, Start(n) PROVE InTime(o, i)'
  <2>1. CASE n # o
    BY <1>2, <1>6, <1>11, <2>1 DEF Start
  <2>2. CASE n = o
    <3>1. pc'[o] = "sleep" /\ since'[o] = now /\ boot'[o] = now
      BY <1>2, <1>11, <2>2 DEF Start
    <3>2. Due(o, i)' = now + Period + Passes(i)
      BY <3>1 DEF Due
    <3>3. Passes(i) \in Nat /\ Passes(i) <= Passes(Len(Order))
      BY <1>1, Times, PassesFacts
    <3>4. Passes(Len(Order)) \in Nat /\ Lap = Period + Passes(Len(Order)) + PassBound
      BY OrderDomain, PassesFacts
    <3>5. Due(o, i)' <= boot'[o] + Round'
      <4>1. Due(o, i)' <= now + Lap
        <5>1. \A t, p, b, x, y \in Nat : x <= y => t + p + x <= t + (p + y + b)
          OBVIOUS
        <5>2. now + Period + Passes(i) <= now + (Period + Passes(Len(Order)) + PassBound)
          BY <1>2, <1>4, <3>3, <3>4, <5>1
        <5> QED BY <3>2, <3>4, <5>2
      <4> QED BY <1>2, <1>3, <1>4, <3>1, <4>1
    <3> QED BY <3>5 DEF InTime
  <2> QED BY <2>1, <2>2
<1>12. ASSUME NEW n \in Masters, Wake(n) PROVE InTime(o, i)'
  <2>1. CASE n # o
    BY <1>2, <1>6, <1>12, <2>1 DEF Wake
  <2>2. CASE n = o
    <3>1. /\ pc[o] = "sleep" /\ pc'[o] = "read" /\ pos'[o] = 1
          /\ now' = now /\ now <= since[o] + Period /\ since[o] \in Nat
      BY <1>1, <1>2, <1>12, <2>2 DEF Wake, Punctual
    <3>2. i \in Nat /\ 1 <= i /\ i - 1 + 1 = i /\ ~(i < 1)
      BY <1>1, Times
    <3>3. Due(o, i)' = now + Passes(i - 1 + 1)
      BY <3>1, <3>2 DEF Due, NextRound, Begun
    <3>4. Due(o, i) = since[o] + Period + Passes(i) /\ Passes(i) \in Nat
      BY <3>1, <3>2, PassesFacts DEF Due
    <3>5. Due(o, i)' <= Due(o, i)
      BY <1>2, <1>4, <3>1, <3>2, <3>3, <3>4
    <3>6. Alive(o)
      BY <3>1 DEF Alive
    <3> QED BY <1>5, <1>12, <3>5, <3>6 DEF Wake
  <2> QED BY <2>1, <2>2
<1>13. ASSUME NEW n \in Masters, ReadClock(n) PROVE InTime(o, i)'
  <2>1. CASE n # o
    BY <1>2, <1>6, <1>13, <2>1 DEF ReadClock
  <2>2. CASE n = o
    <3>1. /\ pc[o] = "read" /\ pc'[o] = "upsert" /\ pos'[o] = pos[o]
          /\ since'[o] = now
      BY <1>2, <1>13, <2>2 DEF ReadClock
    <3>2. Due(o, i)' = Due(o, i) /\ Alive(o)
      BY <3>1 DEF Due, NextRound, Begun, Alive
    <3>3. Due(o, i)' <= Due(o, i)
      BY <1>3, <3>2
    <3> QED BY <1>5, <1>13, <3>2, <3>3 DEF ReadClock
  <2> QED BY <2>1, <2>2
<1>14. ASSUME NEW n \in Masters, Advance(n), n # o
       PROVE  pc'[o] = pc[o] /\ pos'[o] = pos[o] /\ since'[o] = since[o]
  BY <1>2, <1>14 DEF Advance
<1>15. ASSUME NEW n \in Masters, TryAcquire(n) PROVE InTime(o, i)'
  <2>1. /\ backend = "postgres" /\ pc[n] = "upsert" /\ now' = now
        /\ boot' = boot /\ errors' = errors
    BY <1>15 DEF TryAcquire
  <2>2. CASE /\ Free(lease[Current(n)], n, clock[n]) /\ Write(n)
             /\ pc' = [pc EXCEPT ![n] = "work"] /\ UNCHANGED <<pos, clock, since>>
    <3>1. CASE n # o
      BY <1>2, <1>7, <2>1, <2>2, <3>1
    <3>2. CASE n = o /\ i # pos[o]
      <4>1. pc[o] = "upsert" /\ pc'[o] = "work" /\ pos'[o] = pos[o] /\ since'[o] = since[o]
        BY <1>2, <2>1, <2>2, <3>2
      <4>2. Due(o, i)' = Due(o, i) /\ Alive(o)
        BY <3>2, <4>1 DEF Due, NextRound, Begun, Alive
      <4>3. lease'[Order[i]] = lease[Order[i]]
        BY <1>1, <2>1, <2>2, <3>2, RowWritten
      <4>4. Due(o, i)' <= Due(o, i)
        BY <1>3, <4>2
      <4> QED BY <1>5, <2>1, <4>2, <4>3, <4>4
    <3>3. CASE n = o /\ i = pos[o]
      <4>1. pc'[o] = "work" /\ pos'[o] = i /\ since'[o] = since[o]
        BY <1>2, <2>2, <3>3
      <4>2. Len(Order) \in Nat /\ i \in Nat /\ since[o] \in Nat
        BY <1>1, Times
      <4>3. NextRound(o, i)' /\ Begun(o)' = since[o]
        BY <4>1 DEF NextRound, Begun
      <4>4. Due(o, i)' = since[o] + Period + Passes(Len(Order) - i + 1 + i)
        BY <4>1, <4>3 DEF Due
      <4>5. Len(Order) - i + 1 + i = Len(Order) + 1
        BY <4>2
      <4>6. Passes(Len(Order) + 1) \in Nat
        BY <4>2, PassesFacts
      <4>7. Due(o, i)' = since[o] + Lap
        BY <1>4, <4>2, <4>4, <4>5, <4>6, SMTT(30) DEF Lap
      <4>8. Due(o, i)' <= since[o] + Lap
        BY <1>3, <4>7
      <4> QED BY <1>1, <1>8, <2>1, <2>2, <3>3, <4>8, RowWritten
    <3> QED BY <3>1, <3>2, <3>3
  <2>3. CASE ~Free(lease[Current(n)], n, clock[n]) /\ Advance(n) /\ lease' = lease
    <3>1. CASE n # o
      BY <1>6, <1>14, <2>1, <2>3, <3>1
    <3>2. CASE n = o /\ i # pos[o]
      <4>1. Due(o, i)' <= Due(o, i) /\ Alive(o)
        BY <1>1, <2>1, <2>3, <3>2, AdvanceDue DEF Alive
      <4> QED BY <1>5, <2>1, <2>3, <4>1
    <3>3. CASE n = o /\ i = pos[o]
      <4>1. Due(o, i)' <= since[o] + Lap
        BY <1>1, <2>1, <2>3, <3>3, AdvanceDue
      <4>2. /\ clock[o] \in Nat /\ since[o] \in Nat /\ lease[Order[i]].expires \in Nat
            /\ Current(o) = Order[i] /\ since[o] <= clock[o]
        BY <1>1, <2>1, <3>3, Times DEF WithinSkew
      <4>3. lease[Order[i]].holder # NoOne /\ ~(lease[Order[i]].expires < clock[o])
        BY <2>3, <3>3, <4>2 DEF Free
      <4>4. since[o] <= lease[Order[i]].expires
        BY <4>2, <4>3
      <4> QED BY <1>8, <2>3, <4>1, <4>2, <4>3, <4>4
    <3> QED BY <3>1, <3>2, <3>3
  <2> QED BY <1>15, <2>1, <2>2, <2>3 DEF TryAcquire
<1>16. ASSUME NEW n \in Masters, TryAcquireErr(n) PROVE InTime(o, i)'
  <2>1. /\ backend = "postgres" /\ pc[n] = "upsert" /\ now' = now
        /\ boot' = boot /\ errors' = errors + 1 /\ Advance(n)
        /\ \/ lease' = lease
           \/ Free(lease[Current(n)], n, clock[n]) /\ Write(n)
    BY <1>16 DEF TryAcquireErr
  <2>2. CASE n # o
    BY <1>6, <1>7, <1>14, <2>1, <2>2
  <2>3. CASE n = o /\ i # pos[o]
    <3>1. Due(o, i)' <= Due(o, i) /\ Alive(o)
      BY <1>1, <2>1, <2>3, AdvanceDue DEF Alive
    <3>2. lease'[Order[i]] = lease[Order[i]]
      BY <1>1, <2>1, <2>3, RowWritten
    <3> QED BY <1>5, <2>1, <3>1, <3>2
  <2>4. CASE n = o /\ i = pos[o]
    <3>1. Due(o, i)' <= since[o] + Lap
      BY <1>1, <2>1, <2>4, AdvanceDue
    <3>2. CASE Free(lease[Current(o)], o, clock[o]) /\ Write(o)
      BY <1>1, <1>8, <2>1, <2>4, <3>1, <3>2, RowWritten
    <3>3. CASE lease' = lease
      <4>1. /\ since[o] \in Nat /\ boot[o] \in Nat /\ lease[Order[i]].expires \in Nat
            /\ i \in Nat /\ i - i + 1 = 1
        BY <1>1, Times
      <4>2. Due(o, i) = since[o] + PassBound
        <5>1. pc[o] = "upsert" /\ ~NextRound(o, i) /\ Begun(o) = since[o]
          BY <2>1, <2>4, <4>1 DEF NextRound, Begun
        <5>2. Due(o, i) = since[o] + Passes(i - i + 1)
          BY <2>4, <5>1 DEF Due
        <5>3. Passes(1) = PassBound
          BY PassesFacts
        <5> QED BY <4>1, <5>2, <5>3
      <4>3. Round \in Nat /\ Round' = Round + Lap
        BY <1>2, <2>1, RoundFacts
      <4>4. Alive(o) /\ InTime(o, i)
        BY <1>1, <2>1, <2>4 DEF OnSchedule, Alive
      <4>5. CASE Due(o, i) <= boot[o] + Round
        <5>1. Due(o, i)' <= boot[o] + Round'
          BY <1>3, <1>4, <3>1, <4>1, <4>2, <4>3, <4>5
        <5> QED BY <2>1, <5>1 DEF InTime
      <4>6. CASE /\ lease[Order[i]].holder # NoOne
                 /\ Due(o, i) <= lease[Order[i]].expires + Round
        <5>1. Due(o, i)' <= lease[Order[i]].expires + Round'
          BY <1>3, <1>4, <3>1, <4>1, <4>2, <4>3, <4>6
        <5> QED BY <3>3, <4>6, <5>1 DEF InTime
      <4> QED BY <4>4, <4>5, <4>6 DEF InTime
    <3> QED BY <2>1, <2>4, <3>2, <3>3
  <2> QED BY <2>2, <2>3, <2>4
<1>17. ASSUME NEW n \in Masters, EndPass(n) PROVE InTime(o, i)'
  <2>1. /\ pc[n] = "work" /\ now' = now /\ boot' = boot /\ errors' = errors
        /\ lease' = lease /\ backend = "postgres" /\ Advance(n)
    BY <1>17 DEF EndPass
  <2>2. CASE n # o
    BY <1>6, <1>14, <2>1, <2>2
  <2>3. CASE n = o
    <3>1. Due(o, i)' <= Due(o, i) /\ Alive(o)
      BY <1>1, <2>1, <2>3, AdvanceDue DEF Alive
    <3> QED BY <1>5, <2>1, <3>1
  <2> QED BY <2>2, <2>3
<1>18. ASSUME NEW n \in Masters, Crash(n) PROVE InTime(o, i)'
  <2>1. n # o
    BY <1>2, <1>18 DEF Crash, Alive
  <2> QED BY <1>2, <1>6, <1>18, <2>1 DEF Crash
<1> QED
  BY <1>9, <1>10, <1>11, <1>12, <1>13, <1>15, <1>16, <1>17, <1>18 DEF Next, Step

(* ExpiredLeaseIsTakenOver for every value of the constants: once a live   *)
(* master has been up for a round of its loop (for a round more per failed *)
(* statement), no row is missing and none has been expired for longer than *)
(* that, whoever held it and died (LeaseManager::try_acquire).             *)
THEOREM LeaseTakeover == Spec => []ExpiredLeaseIsTakenOver
<1>1. Init => Punctual /\ HolderReadLater /\ OnSchedule
  BY LeaseAssumption DEF Init, Punctual, HolderReadLater, OnSchedule, Alive
<1>2. TimeInv /\ IInv' /\ [Next]_vars => TimeInv'
  BY PunctualNext, HolderReadLaterNext, OnScheduleNext DEF TimeInv, IInv
<1>3. TimeInv => ExpiredLeaseIsTakenOver
  <2> SUFFICES ASSUME TimeInv, backend = "postgres", NEW m \in Masters, Alive(m),
                      now > boot[m] + Round, NEW i \in DOMAIN Order
               PROVE  /\ lease[Order[i]].holder # NoOne
                      /\ now <= lease[Order[i]].expires + Round
    BY DEF ExpiredLeaseIsTakenOver, Names
  <2>1. TypeOK /\ Punctual /\ InTime(m, i)
    BY DEF TimeInv, IInv, OnSchedule
  <2>2. now <= Due(m, i) /\ Due(m, i) \in Nat
    BY <2>1, DueBounds, DueCases
  <2>3. now \in Nat /\ boot[m] \in Nat /\ lease[Order[i]].expires \in Nat /\ errors \in Nat
    BY <2>1, Times
  <2>4. Round \in Nat
    <3>1. Round = Lap * (errors + 1)
      BY DEF Round, Lap, Passes
    <3>2. Lap \in Nat /\ errors + 1 \in Nat
      BY <2>3, PassesFacts
    <3>3. \A a, b \in Nat : a * b \in Nat
      OBVIOUS
    <3> QED BY <3>1, <3>2, <3>3
  <2>5. ~(Due(m, i) <= boot[m] + Round)
    BY <2>2, <2>3, <2>4
  <2> QED BY <2>1, <2>2, <2>3, <2>4, <2>5 DEF InTime
<1> QED
  BY <1>1, <1>2, <1>3, Invariance, PTL DEF Spec, TimeInv
-----------------------------------------------------------------------------
(***************************************************************************)
(* The change feed, an instance beside the leases: its variables are those *)
(* of Bus and the ones below.  Nothing here rests on Lease, and the proof  *)
(* needs no assumption on the constants of WatchBus.                       *)
(***************************************************************************)
CONSTANTS Kinds, Handlers, Watchers, Nowhere, Capacity, MaxWrites, MaxFaults

VARIABLES kind, writes, here, handler, rep, log, listening, inbox, watch,
          faults, smooth

Feed == INSTANCE WatchBus

(***************************************************************************)
(* What the proof needs of the types: the events in progress come from     *)
(* servers, the ids on the channels and in the inboxes are of events       *)
(* published, and an event has a replication from the moment it is.        *)
(***************************************************************************)
HandlerRecords == [pc : {"idle", "read", "delete", "publish"},
                   server : Servers \cup {Nowhere}, obj : Nat]
HandlerTypes ==
    /\ writes \in Nat
    /\ handler \in [Handlers -> HandlerRecords]
    /\ \A h \in Handlers : handler[h].pc # "idle" => handler[h].server \in Servers
FeedTypes ==
    /\ events \in Seq([origin : Servers, obj : Nat])
    /\ rep \in Seq({"insert", "notify", "done"}) /\ Len(rep) = Len(events)
    /\ bus \in [Servers -> Seq(Nat)]
    /\ inbox \in [Servers -> Seq(Nat)]

(* An id that is not yet published is nowhere.                             *)
Published == \A s \in Servers : Range(bus[s]) \cup Range(inbox[s]) \subseteq Ids

(* An event whose servers are still to be notified is in no inbox and on   *)
(* no channel but its origin's.                                            *)
NotYetNotified ==
    \A e \in Ids : rep[e] # "done" =>
        \A s \in Servers : /\ e \notin Range(inbox[s])
                           /\ e \in Range(bus[s]) => events[e].origin = s

(* A notification comes once, and finds its event on no channel but the    *)
(* origin's.                                                               *)
NotifiedOnce ==
    \A s \in Servers :
        /\ IsInjective(inbox[s])
        /\ \A e \in Range(inbox[s]) : e \in Range(bus[s]) => events[e].origin = s

FeedInv == HandlerTypes /\ FeedTypes /\ Published /\ NotYetNotified /\ NotifiedOnce /\ NoEcho

(* The empty sequence.                                                     *)
LEMMA EmptyElements == DOMAIN << >> = {} /\ Range(<< >>) = {} /\ IsInjective(<< >>)
  BY DEF Range, IsInjective

(* What Append and Tail do to the elements of a sequence.                  *)
LEMMA AppendElements ==
    ASSUME NEW S, NEW q \in Seq(S), NEW e \in S
    PROVE  /\ Append(q, e) \in Seq(S)
           /\ Range(Append(q, e)) = Range(q) \cup {e}
           /\ IsInjective(q) /\ e \notin Range(q) => IsInjective(Append(q, e))
<1>1. /\ Append(q, e) \in Seq(S)
      /\ DOMAIN Append(q, e) = 1 .. Len(q) + 1 /\ DOMAIN q = 1 .. Len(q) /\ Len(q) \in Nat
      /\ \A i \in 1 .. Len(q) : Append(q, e)[i] = q[i]
      /\ Append(q, e)[Len(q) + 1] = e
  OBVIOUS
<1>2. Range(Append(q, e)) = Range(q) \cup {e}
  BY <1>1 DEF Range
<1>3. IsInjective(q) /\ e \notin Range(q) => IsInjective(Append(q, e))
  BY <1>1 DEF IsInjective, Range
<1> QED
  BY <1>1, <1>2, <1>3

LEMMA TailElements ==
    ASSUME NEW S, NEW q \in Seq(S), q # << >>
    PROVE  /\ Head(q) \in S /\ Head(q) \in Range(q)
           /\ Tail(q) \in Seq(S)
           /\ Range(Tail(q)) \subseteq Range(q)
           /\ IsInjective(q) => IsInjective(Tail(q)) /\ Head(q) \notin Range(Tail(q))
<1>1. /\ Head(q) \in S /\ Head(q) = q[1] /\ 1 \in DOMAIN q
      /\ Tail(q) \in Seq(S)
      /\ DOMAIN q = 1 .. Len(q) /\ Len(q) \in Nat \ {0}
      /\ DOMAIN Tail(q) = 1 .. Len(q) - 1
      /\ \A i \in 1 .. Len(q) - 1 : Tail(q)[i] = q[i + 1]
  OBVIOUS
<1>2. Range(Tail(q)) \subseteq Range(q)
  BY <1>1 DEF Range
<1>3. ASSUME IsInjective(q) PROVE IsInjective(Tail(q)) /\ Head(q) \notin Range(Tail(q))
  BY <1>1, <1>3 DEF IsInjective, Range
<1>4. Head(q) \in Range(q)
  BY <1>1 DEF Range
<1> QED
  BY <1>1, <1>2, <1>3, <1>4

LEMMA ExceptElements ==
    ASSUME NEW S, NEW q \in Seq(S), NEW i \in DOMAIN q, NEW e \in S
    PROVE  [q EXCEPT ![i] = e] \in Seq(S) /\ Len([q EXCEPT ![i] = e]) = Len(q)
<1>1. q \in [1 .. Len(q) -> S] /\ Len(q) \in Nat
  OBVIOUS
<1>2. [q EXCEPT ![i] = e] \in [1 .. Len(q) -> S]
  BY <1>1
<1> QED
  BY <1>1, <1>2

LEMMA FeedInvInit == Feed!Init => FeedInv
<1> SUFFICES ASSUME Feed!Init PROVE FeedInv
  OBVIOUS
<1> USE DEF Feed!Init
<1>1. Ids = {} /\ \A s \in Servers : Range(bus[s]) = {} /\ Range(inbox[s]) = {}
  BY EmptyElements DEF Ids
<1>2. HandlerTypes /\ FeedTypes
  BY DEF HandlerTypes, HandlerRecords, FeedTypes, Feed!NoHandler
<1>3. NoEcho /\ NotifiedOnce
  BY <1>1, EmptyElements DEF NoEcho, NotifiedOnce
<1> QED
  BY <1>1, <1>2, <1>3 DEF FeedInv, Published, NotYetNotified

(* The steps that leave the channels, the inboxes and the replication      *)
(* alone.                                                                  *)
LEMMA FeedQuiet ==
    ASSUME FeedInv, HandlerTypes', UNCHANGED <<events, bus, rep, inbox>>
    PROVE  FeedInv'
  BY DEF FeedInv, FeedTypes, Published, NotYetNotified, NotifiedOnce, NoEcho, Ids

LEMMA PublishKeepsFeedInv ==
    ASSUME FeedInv, NEW h \in Handlers, Feed!Publish(h)
    PROVE  FeedInv'
<1> DEFINE o == handler[h].server
           n == Len(events) + 1
           ev == [origin |-> o, obj |-> handler[h].obj]
<1> USE DEF FeedInv
<1>1. /\ o \in Servers /\ n \in Nat
      /\ events' = Append(events, ev)
      /\ bus' = [bus EXCEPT ![o] = Append(@, n)]
      /\ rep' = Append(rep, "insert")
      /\ inbox' = inbox /\ writes' = writes
      /\ handler' = [handler EXCEPT ![h] = Feed!NoHandler]
      /\ ev \in [origin : Servers, obj : Nat]
  BY DEF HandlerTypes, HandlerRecords, FeedTypes, Feed!Publish, Feed!Send, Feed!object
<1>2. HandlerTypes' /\ FeedTypes'
  <2>1. HandlerTypes'
    BY <1>1 DEF HandlerTypes, HandlerRecords, Feed!NoHandler
  <2>2. events' \in Seq([origin : Servers, obj : Nat]) /\ Len(events') = Len(events) + 1
    BY <1>1 DEF FeedTypes
  <2>3. rep' \in Seq({"insert", "notify", "done"}) /\ Len(rep') = Len(rep) + 1
    BY <1>1 DEF FeedTypes
  <2>4. bus' \in [Servers -> Seq(Nat)]
    BY <1>1 DEF FeedTypes
  <2> QED
    BY <1>1, <2>1, <2>2, <2>3, <2>4 DEF FeedTypes
<1>3. /\ Ids = 1 .. Len(events) /\ Ids' = Ids \cup {n} /\ n \notin Ids
      /\ \A e \in Ids : events'[e] = events[e] /\ rep'[e] = rep[e]
      /\ events'[n].origin = o
  BY <1>1 DEF FeedTypes, Ids
<1>4. /\ bus[o] \in Seq(Nat) /\ bus'[o] = Append(bus[o], n)
      /\ \A s \in Servers : s # o => bus'[s] = bus[s]
  BY <1>1 DEF FeedTypes
<1>5. Range(bus'[o]) = Range(bus[o]) \cup {n} /\ IsInjective(bus'[o])
  <2>1. n \notin Range(bus[o]) /\ IsInjective(bus[o])
    BY <1>1, <1>3 DEF Published, NoEcho
  <2> QED
    BY <1>1, <1>4, <2>1, AppendElements
<1> HIDE DEF o, n, ev
<1>6. Published'
  BY <1>1, <1>3, <1>4, <1>5 DEF Published
<1>7. NotYetNotified'
  <2> SUFFICES ASSUME NEW e \in Ids', rep'[e] # "done", NEW s \in Servers
               PROVE  /\ e \notin Range(inbox'[s])
                      /\ e \in Range(bus'[s]) => events'[e].origin = s
    BY DEF NotYetNotified
  <2>1. CASE e = n
    BY <1>1, <1>3, <1>4, <1>5, <2>1 DEF Published
  <2>2. CASE e \in Ids
    <3>1. rep[e] # "done" /\ events'[e] = events[e] /\ e # n
      BY <1>3, <2>2
    <3>2. e \notin Range(inbox[s]) /\ (e \in Range(bus[s]) => events[e].origin = s)
      BY <2>2, <3>1 DEF NotYetNotified
    <3>3. e \in Range(bus'[s]) => e \in Range(bus[s])
      BY <1>4, <1>5, <3>1
    <3> QED
      BY <1>1, <3>1, <3>2, <3>3
  <2> QED
    BY <1>3, <2>1, <2>2
<1>8. NotifiedOnce'
  <2> SUFFICES ASSUME NEW s \in Servers
               PROVE  /\ IsInjective(inbox'[s])
                      /\ \A e \in Range(inbox'[s]) : e \in Range(bus'[s]) => events'[e].origin = s
    BY DEF NotifiedOnce
  <2>1. IsInjective(inbox'[s])
    BY <1>1 DEF NotifiedOnce
  <2>2. ASSUME NEW e \in Range(inbox'[s]), e \in Range(bus'[s]) PROVE events'[e].origin = s
    <3>1. e \in Ids /\ e # n /\ e \in Range(inbox[s])
      BY <1>1, <1>3 DEF Published
    <3>2. e \in Range(bus[s])
      BY <1>4, <1>5, <2>2, <3>1
    <3> QED
      BY <1>3, <3>1, <3>2 DEF NotifiedOnce
  <2> QED
    BY <2>1, <2>2
<1>9. NoEcho'
  BY <1>1, <1>4, <1>5 DEF NoEcho
<1> QED
  BY <1>2, <1>6, <1>7, <1>8, <1>9

(* replicate moves on: insert to notify, or either to done by an error.    *)
LEMMA ReplicateKeepsFeedInv ==
    ASSUME FeedInv, NEW e \in Ids, NEW r \in {"notify", "done"}, rep[e] # "done",
           rep' = [rep EXCEPT ![e] = r],
           UNCHANGED <<events, bus, inbox, handler, writes>>
    PROVE  FeedInv'
<1> USE DEF FeedInv
<1>1. HandlerTypes' /\ FeedTypes'
  <2>1. rep' \in Seq({"insert", "notify", "done"}) /\ Len(rep') = Len(rep)
    BY ExceptElements DEF FeedTypes, Ids
  <2> QED
    BY <2>1 DEF HandlerTypes, FeedTypes
<1>2. Ids' = Ids /\ \A d \in Ids : rep'[d] # "done" => rep[d] # "done"
  BY DEF FeedTypes, Ids
<1>3. NotYetNotified'
  BY <1>2 DEF NotYetNotified
<1> QED
  BY <1>1, <1>2, <1>3 DEF Published, NotifiedOnce, NoEcho

(* The event comes into an inbox for the first and only time.              *)
LEMMA NotifyKeepsFeedInv ==
    ASSUME FeedInv, NEW e \in Ids, Feed!Notify(e)
    PROVE  FeedInv'
<1> USE DEF FeedInv
<1>1. /\ rep[e] # "done" /\ rep' = [rep EXCEPT ![e] = "done"]
      /\ inbox' = [s \in Servers |->
                     IF s \in listening THEN Append(inbox[s], e) ELSE inbox[s]]
      /\ UNCHANGED <<events, bus, handler, writes>>
  BY DEF Feed!Notify, Feed!object
<1>2. /\ Ids = 1 .. Len(events) /\ e \in Nat /\ Ids' = Ids
      /\ rep'[e] = "done" /\ \A d \in Ids : d # e => rep'[d] = rep[d]
  BY <1>1 DEF Ids, FeedTypes
<1>3. ASSUME NEW s \in Servers
      PROVE  /\ inbox'[s] \in Seq(Nat)
             /\ Range(inbox'[s]) \subseteq Range(inbox[s]) \cup {e}
             /\ IsInjective(inbox'[s])
  <2>1. inbox[s] \in Seq(Nat) /\ e \notin Range(inbox[s]) /\ IsInjective(inbox[s])
    BY <1>1 DEF FeedTypes, NotYetNotified, NotifiedOnce
  <2>2. CASE s \in listening
    BY <1>1, <1>2, <2>1, <2>2, AppendElements
  <2>3. CASE s \notin listening
    BY <1>1, <2>1, <2>3
  <2> QED
    BY <2>2, <2>3
<1>4. HandlerTypes' /\ FeedTypes'
  <2>1. rep' \in Seq({"insert", "notify", "done"}) /\ Len(rep') = Len(rep)
    BY <1>1, ExceptElements DEF FeedTypes, Ids
  <2>2. inbox' \in [Servers -> Seq(Nat)]
    BY <1>1, <1>3
  <2> QED
    BY <1>1, <2>1, <2>2 DEF HandlerTypes, FeedTypes
<1>5. Published'
  BY <1>1, <1>2, <1>3 DEF Published
<1>6. NotYetNotified'
  BY <1>1, <1>2, <1>3 DEF NotYetNotified
<1>7. NotifiedOnce'
  BY <1>1, <1>3 DEF NotifiedOnce, NotYetNotified
<1>8. NoEcho'
  BY <1>1 DEF NoEcho
<1> QED
  BY <1>4, <1>5, <1>6, <1>7, <1>8

(* An inbox loses notifications: to the channel, or to a failure.          *)
LEMMA ForgottenKeepsFeedInv ==
    ASSUME FeedInv, NEW s \in Servers, NEW q \in Seq(Nat),
           Range(q) \subseteq Range(inbox[s]), IsInjective(q),
           inbox' = [inbox EXCEPT ![s] = q],
           UNCHANGED <<events, bus, rep, handler, writes>>
    PROVE  FeedInv'
<1> USE DEF FeedInv
<1>1. HandlerTypes' /\ FeedTypes'
  BY DEF HandlerTypes, FeedTypes
<1>2. \A t \in Servers : Range(inbox'[t]) \subseteq Range(inbox[t]) /\ IsInjective(inbox'[t])
  BY DEF FeedTypes, NotifiedOnce
<1>3. Published' /\ NotYetNotified' /\ NotifiedOnce'
  BY <1>2 DEF Published, NotYetNotified, NotifiedOnce, Ids
<1> QED
  BY <1>1, <1>3 DEF NoEcho

(* The listener: what it relays is on the channel for the first time.      *)
LEMMA ReceiveKeepsFeedInv ==
    ASSUME FeedInv, NEW s \in Servers, Feed!Receive(s)
    PROVE  FeedInv'
<1> DEFINE e == Head(inbox[s])
<1> USE DEF FeedInv
<1>1. /\ inbox[s] # << >> /\ inbox' = [inbox EXCEPT ![s] = Tail(@)]
      /\ UNCHANGED <<events, rep, handler, writes>>
      /\ IF Feed!Relayed(s, e) THEN bus' = [bus EXCEPT ![s] = Append(@, e)] ELSE bus' = bus
  BY DEF Feed!Receive, Feed!Send, Feed!object
<1>2. /\ e \in Nat /\ e \in Range(inbox[s])
      /\ Tail(inbox[s]) \in Seq(Nat)
      /\ Range(Tail(inbox[s])) \subseteq Range(inbox[s])
      /\ IsInjective(Tail(inbox[s])) /\ e \notin Range(Tail(inbox[s]))
  <2>1. inbox[s] \in Seq(Nat) /\ IsInjective(inbox[s])
    BY DEF FeedTypes, NotifiedOnce
  <2> QED
    BY <1>1, <2>1, TailElements
<1>3. CASE ~Feed!Relayed(s, e)
  BY <1>1, <1>2, <1>3, ForgottenKeepsFeedInv
<1>4. CASE Feed!Relayed(s, e)
  <2>1. bus' = [bus EXCEPT ![s] = Append(@, e)] /\ events[e].origin # s
    BY <1>1, <1>4 DEF Feed!Relayed
  <2>2. e \in Ids /\ e \notin Range(bus[s])
    BY <1>2, <2>1 DEF Published, NotifiedOnce
  <2> HIDE DEF e
  <2>3. /\ bus'[s] \in Seq(Nat) /\ Range(bus'[s]) = Range(bus[s]) \cup {e}
        /\ IsInjective(bus'[s])
    <3>1. bus[s] \in Seq(Nat) /\ IsInjective(bus[s]) /\ bus'[s] = Append(bus[s], e)
      BY <2>1 DEF FeedTypes, NoEcho
    <3> QED
      BY <1>2, <2>2, <3>1, AppendElements
  <2>4. \A t \in Servers : t # s => bus'[t] = bus[t] /\ inbox'[t] = inbox[t]
    BY <1>1, <2>1 DEF FeedTypes
  <2>5. inbox'[s] = Tail(inbox[s])
    BY <1>1 DEF FeedTypes
  <2>6. HandlerTypes' /\ FeedTypes'
    BY <1>1, <1>2, <2>1, <2>3 DEF HandlerTypes, FeedTypes
  <2>7. Ids' = Ids
    BY <1>1 DEF Ids
  <2>8. Published'
    BY <1>2, <2>2, <2>3, <2>4, <2>5, <2>7 DEF Published
  <2>9. rep[e] = "done"
    BY <1>2, <2>2 DEF NotYetNotified
  <2>10. NotYetNotified'
    BY <1>1, <1>2, <2>3, <2>4, <2>5, <2>7, <2>9 DEF NotYetNotified
  <2>11. NotifiedOnce'
    BY <1>1, <1>2, <2>3, <2>4, <2>5 DEF NotifiedOnce
  <2>12. NoEcho'
    BY <2>3, <2>4 DEF NoEcho
  <2> QED
    BY <2>6, <2>8, <2>10, <2>11, <2>12
<1> QED
  BY <1>3, <1>4

LEMMA FeedInvNext == FeedInv /\ [Feed!Next]_(Feed!vars) => FeedInv'
<1> SUFFICES ASSUME FeedInv, [Feed!Next]_(Feed!vars) PROVE FeedInv'
  OBVIOUS
<1> USE DEF FeedInv
<1>1. ASSUME UNCHANGED <<events, bus, rep, inbox, handler, writes>> PROVE FeedInv'
  BY <1>1, FeedQuiet DEF HandlerTypes
<1>2. ASSUME NEW h \in Handlers, NEW s \in Servers, Feed!Upsert(h, s) \/ Feed!DeleteGet(h, s)
      PROVE  FeedInv'
  <2>1. /\ writes' \in Nat /\ UNCHANGED <<events, bus, rep, inbox>>
        /\ \E p \in {"read", "delete"}, o \in Nat :
             handler' = [handler EXCEPT ![h] = [pc |-> p, server |-> s, obj |-> o]]
    BY <1>2 DEF Feed!Upsert, Feed!DeleteGet, Feed!Stored, Feed!feed, Feed!object, HandlerTypes
  <2>2. HandlerTypes'
    BY <2>1 DEF HandlerTypes, HandlerRecords
  <2> QED
    BY <2>1, <2>2, FeedQuiet
<1>3. ASSUME NEW h \in Handlers, Feed!ReadBack(h) \/ Feed!DeleteRefused(h) \/ Feed!DeleteRow(h)
      PROVE  FeedInv'
  <2>1. /\ writes' \in Nat /\ UNCHANGED <<events, bus, rep, inbox>>
        /\ handler[h].pc # "idle"
    BY <1>3 DEF Feed!ReadBack, Feed!DeleteRefused, Feed!DeleteRow, Feed!feed, Feed!object,
                HandlerTypes
  <2> DEFINE Publishing(o) == [handler[h] EXCEPT !.pc = "publish", !.obj = o]
  <2>2. /\ Feed!NoHandler \in HandlerRecords /\ Feed!NoHandler.pc = "idle"
        /\ \A o \in Nat : /\ Publishing(o) \in HandlerRecords
                          /\ Publishing(o).server \in Servers
    BY <2>1 DEF HandlerTypes, HandlerRecords, Feed!NoHandler
  <2>3. \E r : /\ handler' = [handler EXCEPT ![h] = r]
               /\ r = Feed!NoHandler \/ \E o \in Nat : r = Publishing(o)
    <3>1. Feed!Stored \in Nat /\ 0 \in Nat
      BY DEF Feed!Stored, HandlerTypes
    <3>2. CASE Feed!ReadBack(h)
      BY <3>1, <3>2 DEF Feed!ReadBack
    <3>3. CASE Feed!DeleteRefused(h)
      BY <3>3 DEF Feed!DeleteRefused
    <3>4. CASE Feed!DeleteRow(h)
      BY <3>1, <3>4 DEF Feed!DeleteRow
    <3> QED
      BY <1>3, <3>2, <3>3, <3>4
  <2> HIDE DEF Publishing
  <2>4. HandlerTypes'
    BY <2>1, <2>2, <2>3 DEF HandlerTypes
  <2> QED
    BY <2>1, <2>4, FeedQuiet
<1>4. ASSUME NEW e \in Ids, Feed!Insert(e) \/ Feed!ReplicateErr(e) PROVE FeedInv'
  BY <1>4, ReplicateKeepsFeedInv DEF Feed!Insert, Feed!ReplicateErr, Feed!object
<1>5. ASSUME NEW s \in Servers, Feed!Disconnect(s) PROVE FeedInv'
  <2>1. Range(<< >>) \subseteq Range(inbox[s]) /\ IsInjective(<< >>) /\ << >> \in Seq(Nat)
    BY EmptyElements
  <2> QED
    BY <1>5, <2>1, ForgottenKeepsFeedInv DEF Feed!Disconnect, Feed!object
<1>6. ASSUME NEW s \in Servers, Feed!FetchErr(s) PROVE FeedInv'
  <2>1. inbox[s] \in Seq(Nat) /\ IsInjective(inbox[s]) /\ inbox[s] # << >>
    BY <1>6 DEF FeedTypes, NotifiedOnce, Feed!FetchErr
  <2>2. /\ Tail(inbox[s]) \in Seq(Nat) /\ IsInjective(Tail(inbox[s]))
        /\ Range(Tail(inbox[s])) \subseteq Range(inbox[s])
    BY <2>1, TailElements
  <2> QED
    BY <1>6, <2>2, ForgottenKeepsFeedInv DEF Feed!FetchErr, Feed!object
<1>7. ASSUME NEW s \in Servers, Feed!Listen(s) PROVE FeedInv'
  BY <1>1, <1>7 DEF Feed!Listen, Feed!object
<1>8. ASSUME NEW k \in 1 .. Len(log), Feed!Prune(k) PROVE FeedInv'
  BY <1>1, <1>8 DEF Feed!Prune, Feed!object
<1>9. ASSUME NEW w \in Watchers,
             Feed!WatchStep(w) \/ Feed!HangUp(w) \/ \E s \in Servers : Feed!List(w, s)
      PROVE  FeedInv'
  BY <1>1, <1>9 DEF Feed!WatchStep, Feed!Subscribe, Feed!Snapshot, Feed!Forward, Feed!Lagged,
                    Feed!HangUp, Feed!List, Feed!feed, Feed!object
<1>10. CASE UNCHANGED Feed!vars
  BY <1>1, <1>10 DEF Feed!vars, Feed!feed, Feed!object
<1>11. CASE Feed!Next
  BY <1>2, <1>3, <1>4, <1>5, <1>6, <1>7, <1>8, <1>9, <1>11, PublishKeepsFeedInv,
     NotifyKeepsFeedInv, ReceiveKeepsFeedInv
     DEF Feed!Next, Feed!HandlerStep, Feed!Replicate, Feed!ListenerStep, Feed!Ids, Ids
<1> QED
  BY <1>10, <1>11

(***************************************************************************)
(* No event reaches the channel of a server twice, however its own sending *)
(* and its replication (Bus::publish, the task it spawns, and the listener *)
(* of each server) interleave with failures, lost connections and the      *)
(* pruner, for any number of servers, requests, watches and events.        *)
(***************************************************************************)
THEOREM FeedHasNoEcho == Feed!Spec => []NoEcho
<1>1. FeedInv => NoEcho
  BY DEF FeedInv
<1> QED
  BY <1>1, FeedInvInit, FeedInvNext, PTL DEF Feed!Spec
=============================================================================
