--------------------------- MODULE EmbeddedRuntime ---------------------------
(***************************************************************************)
(* Container lifecycle of the embedded runtime (node/runtime/embedded.rs)  *)
(* with its allocator and the pod network (node/network/veth.rs).          *)
(*                                                                         *)
(* The agent calls the runtime under its write lock, so one call is in     *)
(* progress at a time; the detached teardowns of removed containers run    *)
(* beside it.  Each start of a container is an instance, numbered in the   *)
(* order of the starts; the number is reserved when its network is set up. *)
(* The host end of an instance's veth pair is named after the first eight  *)
(* letters and digits of its name (Suffix).                                *)
(***************************************************************************)
EXTENDS Ipam

CONSTANTS
    Names,        \* container names, as the agent passes them
    Suffix,       \* name -> the suffix of its link names
    MayHang,      \* whether a process may outlive SIGKILL by five seconds
    MaxStarts,    \* bound: instances
    MaxFailures,  \* bound: pulls, network set-ups and starts that fail
    MaxRestarts   \* bound: restarts of the agent's process

Instances == 1 .. MaxStarts
NoInst    == 0
NoAddress == 0
Links     == {Suffix[n] : n \in Names}

ASSUME RuntimeAssumption ==
    /\ Names # {} /\ Suffix \in [Names -> Links]
    /\ MayHang \in BOOLEAN
    /\ MaxStarts \in Nat /\ MaxFailures \in Nat /\ MaxRestarts \in Nat

VARIABLES
    ipam,      \* the allocator
    entry,     \* the containers map: name -> instance, or NoInst
    handle,    \* pending_teardowns: name -> instance, or NoInst
    name,      \* instance -> its name
    ip,        \* instance -> its address, or NoAddress when pod_net is None
    run,       \* instance -> whether its process runs
    stage,     \* instance -> where its life and teardown are
    link,      \* host link suffix -> the instance it leads to, or NoInst
    call,      \* the agent's call: [pc, name, ip]
    started,   \* instances so far
    failures,  \* failures so far
    restarts   \* restarts so far

kept  == <<failures, restarts>>
bodies == <<name, ip, run, stage>>
vars  == <<ipam, entry, handle, name, ip, run, stage, link, call, started,
           failures, restarts>>

(* unborn; in the map; stop, network and address are the steps of teardown *)
(* still to be taken; gone; or forgotten by a restarted agent.             *)
Stages == {"unborn", "kept", "stop", "network", "address", "gone", "lost"}
PCs    == {"idle", "await", "replace", "wait", "pull", "allocate", "setup", "start"}

NoCall == [pc |-> "idle", name |-> CHOOSE n \in Names : TRUE, ip |-> NoAddress]
New    == started + 1
TearingDown(i) == stage[i] \in {"stop", "network", "address"}

Init ==
    /\ ipam = IpamNew
    /\ entry = [n \in Names |-> NoInst]
    /\ handle = [n \in Names |-> NoInst]
    /\ name = [i \in Instances |-> NoCall.name]
    /\ ip = [i \in Instances |-> NoAddress]
    /\ run = [i \in Instances |-> FALSE]
    /\ stage = [i \in Instances |-> "unborn"]
    /\ link = [l \in Links |-> NoInst]
    /\ call = NoCall
    /\ started = 0 /\ failures = 0 /\ restarts = 0

Fail == failures < MaxFailures /\ failures' = failures + 1
Goto(pc) == call' = [call EXCEPT !.pc = pc]
-----------------------------------------------------------------------------
(* create_and_start_container.                                             *)

Create(n) ==
    /\ call.pc = "idle"
    /\ started < MaxStarts
    /\ call' = [pc |-> "await", name |-> n, ip |-> NoAddress]
    /\ UNCHANGED <<ipam, entry, handle, bodies, link, started, kept>>

(* await_pending_teardown.                                                 *)
AwaitPending_Skip == call.pc = "await" /\ Goto("replace")
                     /\ handle' = [handle EXCEPT ![call.name] = NoInst]
                     /\ UNCHANGED <<ipam, entry, bodies, link, started, kept>>
AwaitPending_Deaf == call.pc = "await" /\ handle[call.name] = NoInst /\ Goto("replace")
                     /\ UNCHANGED <<ipam, entry, handle, bodies, link, started, kept>>
AwaitPending ==
    /\ call.pc = "await"
    /\ handle[call.name] # NoInst => ~TearingDown(handle[call.name])
    /\ handle' = [handle EXCEPT ![call.name] = NoInst]
    /\ Goto("replace")
    /\ UNCHANGED <<ipam, entry, bodies, link, started, kept>>

(* A previous entry leaves the map and is torn down, in line.              *)
Replace_InPlace ==
    /\ call.pc = "replace"
    /\ Goto("pull")
    /\ run' = [i \in Instances |-> IF i = entry[call.name] THEN TRUE ELSE run[i]]
    /\ UNCHANGED <<ipam, entry, handle, name, ip, stage, link, started, kept>>
Replace ==
    /\ call.pc = "replace"
    /\ LET old == entry[call.name]
       IN  IF old = NoInst
           THEN Goto("pull") /\ UNCHANGED <<entry, stage>>
           ELSE /\ Goto("wait")
                /\ entry' = [entry EXCEPT ![call.name] = NoInst]
                /\ stage' = [stage EXCEPT ![old] = "stop"]
    /\ UNCHANGED <<ipam, handle, name, ip, run, link, started, kept>>

WaitReplaced ==
    /\ call.pc = "wait"
    /\ \A i \in Instances : name[i] = call.name => ~TearingDown(i)
    /\ Goto("pull")
    /\ UNCHANGED <<ipam, entry, handle, bodies, link, started, kept>>

Pull ==
    /\ call.pc = "pull"
    /\ \/ Goto("allocate") /\ UNCHANGED failures
       \/ Fail /\ call' = NoCall
    /\ UNCHANGED <<ipam, entry, handle, bodies, link, started, restarts>>

AllocateAddress ==
    /\ call.pc = "allocate"
    /\ LET s == Allocate(ipam, call.name)
       IN  IF ~Has(ipam, call.name) /\ Exhausted(ipam)
           THEN call' = NoCall /\ UNCHANGED ipam
           ELSE /\ ipam' = s
                /\ call' = [call EXCEPT !.pc = "setup", !.ip = s.by[call.name]]
    /\ UNCHANGED <<entry, handle, bodies, link, started, kept>>

(* setup_pod_network: links of these names are removed before the pair is  *)
(* made.  When it fails the address goes back and the start goes on.       *)
SetupNetwork ==
    /\ call.pc = "setup"
    /\ \/ /\ link' = [link EXCEPT ![Suffix[call.name]] = New]
          /\ Goto("start")
          /\ UNCHANGED <<ipam, failures>>
       \/ /\ Fail
          /\ link' = [link EXCEPT ![Suffix[call.name]] = NoInst]
          /\ ipam' = Release(ipam, call.name)
          /\ call' = [call EXCEPT !.pc = "start", !.ip = NoAddress]
    /\ UNCHANGED <<entry, handle, bodies, started, restarts>>

(* build_and_start, the reaper and the entry in the map; ...               *)
StartContainer ==
    /\ call.pc = "start"
    /\ started' = New
    /\ name' = [name EXCEPT ![New] = call.name]
    /\ ip' = [ip EXCEPT ![New] = call.ip]
    /\ run' = [run EXCEPT ![New] = TRUE]
    /\ stage' = [stage EXCEPT ![New] = "kept"]
    /\ entry' = [entry EXCEPT ![call.name] = New]
    /\ call' = NoCall
    /\ UNCHANGED <<ipam, handle, link, kept>>

(* ... or its failure, which gives the network and the address back.       *)
StartFails_Leaks ==
    /\ call.pc = "start"
    /\ Fail
    /\ link' = IF call.ip = NoAddress THEN link
               ELSE [link EXCEPT ![Suffix[call.name]] = NoInst]
    /\ call' = NoCall
    /\ UNCHANGED <<ipam, entry, handle, bodies, started, restarts>>
StartFails ==
    /\ call.pc = "start"
    /\ Fail
    /\ link' = IF call.ip = NoAddress THEN link
               ELSE [link EXCEPT ![Suffix[call.name]] = NoInst]
    /\ ipam' = Release(ipam, call.name)
    /\ call' = NoCall
    /\ UNCHANGED <<entry, handle, bodies, started, restarts>>
-----------------------------------------------------------------------------
(* remove_container: the entry leaves the map, its teardown is detached,   *)
(* and handles of finished teardowns are dropped.                          *)
Remove(n) ==
    /\ call.pc = "idle"
    /\ entry[n] # NoInst
    /\ entry' = [entry EXCEPT ![n] = NoInst]
    /\ stage' = [stage EXCEPT ![entry[n]] = "stop"]
    /\ handle' = [m \in Names |->
         IF m = n THEN entry[n]
         ELSE IF handle[m] # NoInst /\ ~TearingDown(handle[m]) THEN NoInst
              ELSE handle[m]]
    /\ UNCHANGED <<ipam, name, ip, run, link, call, started, kept>>

(* A process ends by itself; the reaper records it.                        *)
Exit(i) ==
    /\ run[i]
    /\ run' = [run EXCEPT ![i] = FALSE]
    /\ UNCHANGED <<ipam, entry, handle, name, ip, stage, link, call, started, kept>>

(* teardown: SIGTERM, then SIGKILL, until the exit is recorded; the five   *)
(* seconds after SIGKILL may run out first.                                *)
Stop(i) ==
    /\ stage[i] = "stop"
    /\ \/ run' = [run EXCEPT ![i] = FALSE]
       \/ MayHang /\ UNCHANGED run
    /\ stage' = [stage EXCEPT ![i] = "network"]
    /\ UNCHANGED <<ipam, entry, handle, name, ip, link, call, started, kept>>

(* teardown_pod_network: the host link goes by its name.                   *)
DropNetwork(i) ==
    /\ stage[i] = "network"
    /\ stage' = [stage EXCEPT ![i] = "address"]
    /\ link' = IF ip[i] = NoAddress THEN link
               ELSE [link EXCEPT ![Suffix[name[i]]] = NoInst]
    /\ UNCHANGED <<ipam, entry, handle, name, ip, run, call, started, kept>>

(* The address goes back, by name, and the bundle and the log are deleted. *)
DropAddress(i) ==
    /\ stage[i] = "address"
    /\ stage' = [stage EXCEPT ![i] = "gone"]
    /\ ipam' = Release(ipam, name[i])
    /\ UNCHANGED <<entry, handle, name, ip, run, link, call, started, kept>>

(* The agent's process dies, and its tasks with it; another one starts.    *)
(* Containers and links outlive it.                                        *)
Restart ==
    /\ restarts < MaxRestarts
    /\ restarts' = restarts + 1
    /\ ipam' = IpamNew
    /\ entry' = [n \in Names |-> NoInst]
    /\ handle' = [n \in Names |-> NoInst]
    /\ stage' = [i \in Instances |-> IF stage[i] \in {"unborn", "gone"} THEN stage[i]
                                     ELSE "lost"]
    /\ call' = NoCall
    /\ UNCHANGED <<name, ip, run, link, started, failures>>

CallStep == \/ AwaitPending \/ Replace \/ WaitReplaced \/ Pull \/ AllocateAddress
            \/ SetupNetwork \/ StartContainer \/ StartFails
Teardown(i) == Stop(i) \/ DropNetwork(i) \/ DropAddress(i)

Next ==
    \/ CallStep \/ Restart
    \/ \E n \in Names : Create(n) \/ Remove(n)
    \/ \E i \in Instances : Exit(i) \/ Teardown(i)

Spec == Init /\ [][Next]_vars

(* Calls and teardowns go on; no container owes an exit, no user a removal.*)
FairSpec == /\ Spec /\ WF_vars(CallStep)
            /\ \A i \in Instances : WF_vars(Teardown(i))
-----------------------------------------------------------------------------
TypeOK ==
    /\ DOMAIN ipam.by \subseteq Names /\ IpamOK(ipam)
    /\ entry \in [Names -> Instances \cup {NoInst}]
    /\ handle \in [Names -> Instances \cup {NoInst}]
    /\ name \in [Instances -> Names]
    /\ ip \in [Instances -> Octets \cup {NoAddress}]
    /\ run \in [Instances -> BOOLEAN]
    /\ stage \in [Instances -> Stages]
    /\ link \in [Links -> Instances \cup {NoInst}]
    /\ call \in [pc : PCs, name : Names, ip : Octets \cup {NoAddress}]
    /\ started \in 0 .. MaxStarts
    /\ failures \in Nat /\ restarts \in Nat

(* Instance i is on the bridge with its address.                           *)
Connected(i) == run[i] /\ ip[i] # NoAddress /\ link[Suffix[name[i]]] = i

(***************************************************************************)
(* Two containers on the bridge never have one address, although addresses *)
(* are released by detached teardowns, by name, while new containers are   *)
(* being started (embedded.rs:240-243, 957-971).  A restarted agent has    *)
(* forgotten the addresses of the containers that still run.               *)
(***************************************************************************)
UniqueAddress ==
    restarts = 0 => \A i, j \in Instances :
        Connected(i) /\ Connected(j) /\ ip[i] = ip[j] => i = j

(***************************************************************************)
(* Two processes never run under one name: "must be fully gone before we   *)
(* reuse its state dir, netns, and bundle" (embedded.rs:930-932).  Except  *)
(* for one that outlives SIGKILL by five seconds, and until a restart.     *)
(***************************************************************************)
Outlived(i) == MayHang /\ stage[i] \notin {"kept", "stop"}
OneInstancePerName ==
    restarts = 0 => \A i, j \in Instances :
        run[i] /\ run[j] /\ name[i] = name[j] => i = j \/ Outlived(i) \/ Outlived(j)

(***************************************************************************)
(* No error path leaks an address: a name that has one is being started,   *)
(* is in the map, or is being torn down (embedded.rs:972, "From here on a  *)
(* failure must give the network back").                                   *)
(***************************************************************************)
NoAddressLeak ==
    \A n \in DOMAIN ipam.by :
        \/ call.name = n /\ call.pc \in {"setup", "start"} /\ call.ip # NoAddress
        \/ \E i \in Instances : /\ name[i] = n /\ ip[i] # NoAddress
                                /\ stage[i] = "kept" \/ TearingDown(i)

(***************************************************************************)
(* A running container whose network was set up stays on the bridge: "a    *)
(* real netns + veth pair" for each pod (network/mod.rs:3).  That is so    *)
(* for a name with a link name of its own; of two that share one           *)
(* (veth.rs:48), the second to start unplugs the first.                    *)
(***************************************************************************)
OwnLink(n) == \A m \in Names : Suffix[m] = Suffix[n] => m = n
StaysConnected ==
    \A n \in Names :
        OwnLink(n) /\ entry[n] # NoInst /\ run[entry[n]] /\ ip[entry[n]] # NoAddress
            => Connected(entry[n])

(***************************************************************************)
(* A call always returns: awaiting the teardown of the same name, or of a  *)
(* replaced container, does not wait for ever (embedded.rs:194-200).       *)
(***************************************************************************)
CallReturns == call.pc # "idle" ~> call.pc = "idle"

(* What the agent sees of this runtime is what the contract allows.        *)
Find(n) == IF entry[n] = NoInst THEN "none"
           ELSE IF run[entry[n]] THEN "running" ELSE "exited"
Contract == INSTANCE RuntimeContract WITH container <- [n \in Names |-> Find(n)]
ImplementsContract == Contract!Spec
=============================================================================
