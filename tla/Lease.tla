-------------------------------- MODULE Lease --------------------------------
(***************************************************************************)
(* The named leases that elect, for each controller and for the scheduler, *)
(* the master whose loop may write: db/lease.rs and the loops that call it *)
(* (server/controller.rs, server/scheduler.rs).                            *)
(*                                                                         *)
(* A master is one server process; a restarted process is another master,  *)
(* since every process draws a fresh holder UUID.  One task of a master    *)
(* goes through the names in Order on every tick; the controller manager   *)
(* has five names, the scheduler one.  The names of two tasks are          *)
(* disjoint, so the tasks do not meet in this table.                       *)
(*                                                                         *)
(* Time is a global clock that no master can read.  A master reads its own *)
(* clock, at most MaxSkew ahead of it.  Nothing in the code bounds how     *)
(* long a pass takes: PassBound only keeps the model finite and bounds a   *)
(* round of the loop.  Time passes while every live master is within its   *)
(* bounds.                                                                 *)
(***************************************************************************)
EXTENDS Integers, Sequences

CONSTANTS
    Masters,     \* server processes, past and present
    NoOne,       \* the holder of a row that does not exist
    Order,       \* the lease names one task tries, in program order
    TTL,         \* LEASE_TTL / SCHEDULER_LEASE_TTL
    Period,      \* the longest sleep between two ticks of the loop
    PassBound,   \* the longest time from reading the clock to the end of a pass
    MaxSkew,     \* the largest difference between a master's clock and time
    MaxTime,     \* bound: the horizon of the model
    MaxDbErrors  \* bound: how many statements fail

ASSUME LeaseAssumption ==
    /\ NoOne \notin Masters
    /\ Order \in Seq(STRING) /\ Order # << >>
    /\ \A i, j \in DOMAIN Order : Order[i] = Order[j] => i = j
    /\ TTL \in Nat /\ Period \in Nat /\ PassBound \in Nat /\ MaxSkew \in Nat
    /\ MaxTime \in Nat /\ MaxDbErrors \in Nat

VARIABLES
    backend,   \* "sqlite" or "postgres", chosen by the database URL
    now,       \* global time
    lease,     \* the table: lease name -> [holder, expires]
    pc,        \* where the task of each master is
    pos,       \* the index in Order of the name it is at
    clock,     \* the `now` of its current try_acquire, by its own clock
    since,     \* the time at which it read that clock, or fell asleep
    boot,      \* the time at which it started
    errors     \* statements that have failed

vars == <<backend, now, lease, pc, pos, clock, since, boot, errors>>

Names == {Order[i] : i \in DOMAIN Order}
NoRow == [holder |-> NoOne, expires |-> 0]
Rows  == [holder : Masters \cup {NoOne}, expires : Nat]
PCs   == {"new", "sleep", "read", "upsert", "work", "dead"}

Alive(m)      == pc[m] \notin {"new", "dead"}
Current(m)    == Order[pos[m]]
Working(m, n) == pc[m] = "work" /\ Current(m) = n

Init ==
    /\ backend \in {"sqlite", "postgres"}
    /\ now = 0
    /\ lease = [n \in Names |-> NoRow]
    /\ pc = [m \in Masters |-> "new"]
    /\ pos = [m \in Masters |-> 1]
    /\ clock = [m \in Masters |-> 0]
    /\ since = [m \in Masters |-> 0]
    /\ boot = [m \in Masters |-> 0]
    /\ errors = 0
-----------------------------------------------------------------------------
(***************************************************************************)
(* The WHERE clause of the UPSERT, with t the caller's `now`: a missing    *)
(* row is inserted, a row is taken when it is the caller's or has expired. *)
(***************************************************************************)
Free_NoTakeover(row, m, t) == row.holder \in {NoOne, m}
Free_NoHolderCheck(row, m, t) == row.expires < t + TTL
Free(row, m, t) == row.holder \in {NoOne, m} \/ row.expires < t

(***************************************************************************)
(* What follows an acquisition that did not start a pass, and the end of a *)
(* pass: the next name, or the sleep until the next tick.  The clock       *)
(* reading goes out of scope.                                              *)
(***************************************************************************)
Advance_NoWrap(m) ==
    /\ clock' = [clock EXCEPT ![m] = 0]
    /\ pc' = [pc EXCEPT ![m] = IF pos[m] <= Len(Order) THEN "read" ELSE "sleep"]
    /\ pos' = [pos EXCEPT ![m] = @ + 1]
    /\ since' = [since EXCEPT ![m] = now]
Advance(m) ==
    /\ clock' = [clock EXCEPT ![m] = 0]
    /\ IF pos[m] < Len(Order)
       THEN /\ pc' = [pc EXCEPT ![m] = "read"]
            /\ pos' = [pos EXCEPT ![m] = @ + 1]
       ELSE /\ pc' = [pc EXCEPT ![m] = "sleep"]
            /\ pos' = [pos EXCEPT ![m] = 1]
    /\ since' = [since EXCEPT ![m] = now]

(* A process starts; with SQLite it is the only one.                       *)
Start(m) ==
    /\ pc[m] = "new"
    /\ backend = "sqlite" => \A o \in Masters : ~Alive(o)
    /\ pc' = [pc EXCEPT ![m] = "sleep"]
    /\ since' = [since EXCEPT ![m] = now]
    /\ boot' = [boot EXCEPT ![m] = now]
    /\ UNCHANGED <<backend, now, lease, pos, clock, errors>>

(* interval.tick(): the loop body starts at the first name.                *)
Wake(m) ==
    /\ pc[m] = "sleep"
    /\ pc' = [pc EXCEPT ![m] = "read"]
    /\ UNCHANGED <<backend, now, lease, pos, clock, since, boot, errors>>

(* The first half of try_acquire: Utc::now(), before the statement is sent.*)
ReadClock(m) ==
    /\ pc[m] = "read"
    /\ \E d \in 0 .. MaxSkew : clock' = [clock EXCEPT ![m] = now + d]
    /\ since' = [since EXCEPT ![m] = now]
    /\ pc' = [pc EXCEPT ![m] = "upsert"]
    /\ UNCHANGED <<backend, now, lease, pos, boot, errors>>

Write(m) == lease' = [lease EXCEPT ![Current(m)] =
                        [holder |-> m, expires |-> clock[m] + TTL]]

(* The second half: the statement runs, and its row count is the answer.   *)
(* With SQLite the answer is true and nothing is written.                  *)
TryAcquire(m) ==
    /\ pc[m] = "upsert"
    /\ \/ /\ backend = "sqlite"
          /\ pc' = [pc EXCEPT ![m] = "work"]
          /\ UNCHANGED <<lease, pos, clock, since>>
       \/ /\ backend = "postgres"
          /\ Free(lease[Current(m)], m, clock[m])
          /\ Write(m)
          /\ pc' = [pc EXCEPT ![m] = "work"]
          /\ UNCHANGED <<pos, clock, since>>
       \/ /\ backend = "postgres"
          /\ ~Free(lease[Current(m)], m, clock[m])
          /\ Advance(m)
          /\ UNCHANGED lease
    /\ UNCHANGED <<backend, now, boot, errors>>

(* The statement errs: the answer is false, whether or not it took effect. *)
TryAcquireErr(m) ==
    /\ pc[m] = "upsert"
    /\ backend = "postgres"
    /\ errors < MaxDbErrors
    /\ errors' = errors + 1
    /\ \/ UNCHANGED lease
       \/ Free(lease[Current(m)], m, clock[m]) /\ Write(m)
    /\ Advance(m)
    /\ UNCHANGED <<backend, now, boot>>

(* The reconcile pass returns, with a result or an error that is logged.   *)
EndPass(m) ==
    /\ pc[m] = "work"
    /\ Advance(m)
    /\ UNCHANGED <<backend, now, lease, boot, errors>>

(* The process dies anywhere: its rows stay, its memory does not.          *)
Crash(m) ==
    /\ Alive(m)
    /\ pc' = [pc EXCEPT ![m] = "dead"]
    /\ pos' = [pos EXCEPT ![m] = 1]
    /\ clock' = [clock EXCEPT ![m] = 0]
    /\ since' = [since EXCEPT ![m] = 0]
    /\ boot' = [boot EXCEPT ![m] = 0]
    /\ UNCHANGED <<backend, now, lease, errors>>

(* Time passes while every live master is within its bounds.               *)
Tick ==
    /\ now < MaxTime
    /\ \A m \in Masters :
         /\ pc[m] # "read"
         /\ pc[m] = "sleep" => now < since[m] + Period
         /\ pc[m] \in {"upsert", "work"} => now < since[m] + PassBound
    /\ now' = now + 1
    /\ UNCHANGED <<backend, lease, pc, pos, clock, since, boot, errors>>

Step(m) == \/ Wake(m) \/ ReadClock(m) \/ TryAcquire(m) \/ TryAcquireErr(m)
           \/ EndPass(m)

Next == Tick \/ \E m \in Masters : Start(m) \/ Step(m) \/ Crash(m)

Spec == Init /\ [][Next]_vars
-----------------------------------------------------------------------------
TypeOK ==
    /\ backend \in {"sqlite", "postgres"}
    /\ now \in Nat
    /\ lease \in [Names -> Rows]
    /\ pc \in [Masters -> PCs]
    /\ pos \in [Masters -> DOMAIN Order]
    /\ clock \in [Masters -> Nat]
    /\ since \in [Masters -> Nat]
    /\ boot \in [Masters -> Nat]
    /\ errors \in Nat

(***************************************************************************)
(* Two masters run the pass of one lease at the same time only when one of *)
(* them has outlived its lease: what the README (line 69) and the comment  *)
(* on SCHEDULER_LEASE_TTL (scheduler.rs:17-19) say the leases are for.     *)
(* Nothing in the loops checks the lease again once a pass runs, so that a *)
(* pass longer than the TTL, less the skew, is on its own.                 *)
(***************************************************************************)
Overrun(m) == backend = "postgres" /\ now + MaxSkew > since[m] + TTL
OneMasterPerLease ==
    \A n \in Names : \A a, b \in Masters :
        Working(a, n) /\ Working(b, n) => a = b \/ Overrun(a) \/ Overrun(b)

(***************************************************************************)
(* A lease whose holder died is taken over (README, line 115): once a live *)
(* master has been up for as long as one round of its loop may take, no    *)
(* row is missing, and none has been expired for longer than that round.   *)
(* A failed statement costs a round.                                       *)
(***************************************************************************)
Round == (Period + (Len(Order) + 1) * PassBound) * (errors + 1)
ExpiredLeaseIsTakenOver ==
    backend = "postgres" =>
        \A m \in Masters : Alive(m) /\ now > boot[m] + Round =>
            \A n \in Names : /\ lease[n].holder # NoOne
                             /\ now <= lease[n].expires + Round
=============================================================================
