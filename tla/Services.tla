------------------------------ MODULE Services ------------------------------
(***************************************************************************)
(* Services, their endpoints and the NodePort proxy of one node: the       *)
(* service controller (server/controller.rs, reconcile_services), the      *)
(* handlers of the API server (server/api.rs) and node/proxy.rs.           *)
(*                                                                         *)
(* A service is a node port, for one of type NodePort, a target port and   *)
(* a selector; a pod has one label, and its containers listen on one port. *)
(* Whether they are reached by a published port or by the pod's address is *)
(* not told apart.  Cluster addresses are left out: nothing routes them.   *)
(* A pass takes the services in a fixed order, since it treats each for    *)
(* itself; the proxy takes them in any order.  The agent is reduced to     *)
(* what it tells the table and the proxy: it starts, reports and sweeps    *)
(* the pods of this node (Here).  One connection is followed.              *)
(***************************************************************************)
EXTENDS PodTable

CONSTANTS
    Workers,    \* controller tasks that may run a pass
    Services,   \* service names
    Ports,      \* node ports
    NoPort,     \* the port of a service that is not of type NodePort
    Specs,      \* what users ask of a service: [port, target, app]
    App,        \* pod -> its label
    ListensOn,  \* pod -> the port its containers listen on
    NoApp,      \* the selector of a service without one
    Here,       \* the pods that are bound to this node
    MaxEvents   \* bound: requests, exits, failures

Pods == DOMAIN App
Apps == {App[p] : p \in Pods}

ASSUME ServicesAssumption ==
    /\ Here \subseteq Pods /\ NoPort \notin Ports /\ NoApp \notin Apps
    /\ \A spec \in Specs : spec.port \in Ports \cup {NoPort}
                          /\ spec.app \in Apps \cup {NoApp}
    /\ DOMAIN ListensOn = Pods /\ MaxEvents \in Nat

VARIABLES
    svc,        \* the services table: name -> [port, target, app]
    pods,       \* the pods table
    ep,         \* the endpoints table: name -> pods
    worker,     \* the pass of each worker
    proxy,      \* the proxy's reconcile
    listener,   \* its listeners: port -> [svc, target, state]
    container,  \* the container of each pod of this node
    reach,      \* pod_ips: the pods of this node whose address is known
    conn,       \* a connection to a node port
    events      \* requests and failures so far

vars == <<svc, pods, ep, worker, proxy, listener, container, reach, conn, events>>
tables == <<svc, pods, ep>>
node   == <<proxy, listener, container, reach, conn>>

Nothing == [x \in {} |-> x]
NewPod == [uid |-> 0, created |-> 0, phase |-> "Pending", ip |-> FALSE]
Idle   == [pc |-> "idle", todo |-> Nothing, addresses |-> {}]
Quiet  == [pc |-> "idle", rows |-> Nothing]
Closed == [pc |-> "closed", candidates |-> {}]

Init ==
    /\ svc = Nothing /\ pods = Nothing /\ ep = Nothing
    /\ worker = [w \in Workers |-> Idle]
    /\ proxy = Quiet
    /\ listener = Nothing
    /\ container = [p \in Here |-> "none"]
    /\ reach = {}
    /\ conn = Closed
    /\ events = 0

Event == events < MaxEvents /\ events' = events + 1

(* An upsert into the services or the endpoints table, ...                 *)
Put(table, s, row) == [x \in DOMAIN table \cup {s} |-> IF x = s THEN row ELSE table[x]]
(* ... and what the proxy gets of the endpoints of a service.              *)
EndpointsOf(s) == IF s \in DOMAIN ep THEN ep[s] ELSE {}
-----------------------------------------------------------------------------
(* The service controller.                                                 *)

(* ServiceRepository::list.  A service without a selector is skipped.      *)
ListServices(w) ==
    /\ worker[w].pc = "idle"
    /\ LET todo == {s \in DOMAIN svc : svc[s].app # NoApp}
       IN  /\ todo # {}
           /\ worker' = [worker EXCEPT ![w].pc = "list", ![w].todo = [s \in todo |-> svc[s]]]
    /\ UNCHANGED <<tables, node, events>>

(* reconcile_service: the addresses of the pods it selects that run.       *)
Selected(app) ==
    {p \in DOMAIN pods : App[p] = app /\ pods[p].phase = "Running" /\ pods[p].ip}
First(S) == CHOOSE s \in S : TRUE
ListPods(w) ==
    /\ worker[w].pc = "list"
    /\ LET s == First(DOMAIN worker[w].todo)
       IN  worker' = [worker EXCEPT ![w].pc = "write",
                                    ![w].addresses = Selected(worker[w].todo[s].app)]
    /\ UNCHANGED <<tables, node, events>>

After(pass) ==
    LET s == First(DOMAIN pass.todo)
    IN  IF DOMAIN pass.todo = {s} THEN Idle
        ELSE [Idle EXCEPT !.pc = "list", !.todo = Remove(pass.todo, s)]

(* EndpointsRepository::create_or_update, an upsert.                       *)
WriteEndpoints_InsertOnly(w) ==
    /\ worker[w].pc = "write"
    /\ LET at == First(DOMAIN worker[w].todo)
       IN  ep' = IF at \in DOMAIN ep THEN ep ELSE Put(ep, at, worker[w].addresses)
    /\ worker' = [worker EXCEPT ![w] = After(@)]
    /\ UNCHANGED <<svc, pods, node, events>>
WriteEndpoints(w) ==
    /\ worker[w].pc = "write"
    /\ ep' = Put(ep, First(DOMAIN worker[w].todo), worker[w].addresses)
    /\ worker' = [worker EXCEPT ![w] = After(@)]
    /\ UNCHANGED <<svc, pods, node, events>>

(* An error of either call leaves the service to the next pass.            *)
ReconcileErr(w) ==
    /\ worker[w].pc \in {"list", "write"}
    /\ Event
    /\ worker' = [worker EXCEPT ![w] = After(@)]
    /\ UNCHANGED <<tables, node>>

WorkerStep(w) == ListServices(w) \/ ListPods(w) \/ WriteEndpoints(w) \/ ReconcileErr(w)
-----------------------------------------------------------------------------
(* The API server.                                                         *)

(* create_service and update_service: an upsert.  The port of a NodePort   *)
(* service is the one asked for, or drawn anew, taken or not.              *)
ApplyService(s, spec) ==
    /\ Event
    /\ svc' = Put(svc, s, spec)
    /\ UNCHANGED <<pods, ep, worker, node>>

(* delete_service leaves the endpoints behind.                             *)
DeleteService(s) ==
    /\ Event
    /\ svc' = Remove(svc, s)
    /\ UNCHANGED <<pods, ep, worker, node>>

(* create_pod and delete_pod; a manifest applied again does as both.       *)
CreatePod(p) ==
    /\ p \notin DOMAIN pods
    /\ Event
    /\ pods' = Upsert(pods, p, NewPod)
    /\ UNCHANGED <<svc, ep, worker, node>>
DeletePod(p) ==
    /\ p \in DOMAIN pods
    /\ Event
    /\ pods' = Remove(pods, p)
    /\ UNCHANGED <<svc, ep, worker, node>>
-----------------------------------------------------------------------------
(* The agents.                                                             *)

(* reconcile_pod starts what is missing, notes the address and reports.    *)
PhaseOf(c) == IF c = "exited" THEN "Failed" ELSE "Running"
SyncPod(p) ==
    /\ p \in Here \cap DOMAIN pods
    /\ container[p] = "none" \/ p \notin reach \/ pods[p].phase # PhaseOf(container[p])
    /\ container' = [container EXCEPT ![p] = IF @ = "none" THEN "running" ELSE @]
    /\ reach' = reach \cup {p}
    /\ pods' = UpdateStatus(pods, p, PhaseOf(container[p]), TRUE)
    /\ UNCHANGED <<svc, ep, worker, proxy, listener, conn, events>>

(* sweep_orphans.                                                          *)
SweepPod(p) ==
    /\ p \in Here \ DOMAIN pods
    /\ container[p] # "none"
    /\ container' = [container EXCEPT ![p] = "none"]
    /\ reach' = reach \ {p}
    /\ UNCHANGED <<tables, worker, proxy, listener, conn, events>>

ContainerExit(p) ==
    /\ container[p] = "running"
    /\ Event
    /\ container' = [container EXCEPT ![p] = "exited"]
    /\ UNCHANGED <<tables, worker, proxy, listener, reach, conn>>

(* The agent of another node reports.                                      *)
ReportRemote(p) ==
    /\ p \in DOMAIN pods \ Here
    /\ pods[p].phase = "Pending"
    /\ pods' = UpdateStatus(pods, p, "Running", TRUE)
    /\ UNCHANGED <<svc, ep, worker, node, events>>
-----------------------------------------------------------------------------
(* The proxy.                                                              *)

(* fetch_services; an error ends the round.                                *)
Fetch ==
    /\ proxy.pc = "idle"
    /\ proxy' = [pc |-> "apply", rows |-> svc]
    /\ UNCHANGED <<tables, worker, listener, container, reach, conn, events>>

(* The rest of reconcile: a listener for every port that has none, with a  *)
(* copy of the first service that wants the port, its target port included *)
(* and never looked at again; the other ports' tasks are aborted.          *)
WantedBy(rows, port) == {s \in DOMAIN rows : rows[s].port = port}
Wanted(rows) == {port \in Ports : WantedBy(rows, port) # {}}
Kept(ports, first) ==
    [port \in ports |-> IF port \in DOMAIN listener THEN listener[port]
                        ELSE [svc |-> first[port],
                              target |-> proxy.rows[first[port]].target,
                              state |-> "starting"]]
Apply_NeverStops ==
    /\ proxy.pc = "apply"
    /\ \E first \in [Wanted(proxy.rows) -> DOMAIN proxy.rows] :
         /\ \A port \in DOMAIN first : first[port] \in WantedBy(proxy.rows, port)
         /\ listener' = Kept(DOMAIN first \cup DOMAIN listener, first)
    /\ proxy' = Quiet
    /\ UNCHANGED <<tables, worker, container, reach, conn, events>>
Apply ==
    /\ proxy.pc = "apply"
    /\ \E first \in [Wanted(proxy.rows) -> DOMAIN proxy.rows] :
         /\ \A port \in DOMAIN first : first[port] \in WantedBy(proxy.rows, port)
         /\ listener' = Kept(DOMAIN first, first)
    /\ proxy' = Quiet
    /\ UNCHANGED <<tables, worker, container, reach, conn, events>>

(* listen: the task binds the port, or ends and stays in the map.          *)
Bind(port) ==
    /\ listener[port].state = "starting"
    /\ \/ listener' = [listener EXCEPT ![port].state = "up"] /\ UNCHANGED events
       \/ listener' = [listener EXCEPT ![port].state = "dead"] /\ Event
    /\ UNCHANGED <<tables, worker, proxy, container, reach, conn>>

(* handle_conn: accepted with the listener's copy of the service; ...      *)
Accept(port) ==
    /\ conn.pc = "closed"
    /\ listener[port].state = "up"
    /\ conn' = [pc |-> "lookup", port |-> port, svc |-> listener[port].svc,
                target |-> listener[port].target, candidates |-> {}]
    /\ UNCHANGED <<tables, worker, proxy, listener, container, reach, events>>

(* ... the endpoints are fetched, by name, ...                             *)
Lookup ==
    /\ conn.pc = "lookup"
    /\ conn' = IF EndpointsOf(conn.svc) = {} THEN [conn EXCEPT !.pc = "refused"]
               ELSE [conn EXCEPT !.pc = "pick", !.candidates = EndpointsOf(conn.svc)]
    /\ UNCHANGED <<tables, worker, proxy, listener, container, reach, events>>
LookupErr ==
    /\ conn.pc = "lookup"
    /\ Event
    /\ conn' = [conn EXCEPT !.pc = "refused"]
    /\ UNCHANGED <<tables, worker, proxy, listener, container, reach>>

(* ... and the first of them that is on this node is connected to, at the  *)
(* target port of the copy.                                                *)
Pick_First ==
    /\ conn.pc = "pick"
    /\ \E p \in conn.candidates :
         conn' = IF p \in reach THEN [conn EXCEPT !.pc = "open", !.candidates = {p}]
                 ELSE [conn EXCEPT !.pc = "refused"]
    /\ UNCHANGED <<tables, worker, proxy, listener, container, reach, events>>
Pick ==
    /\ conn.pc = "pick"
    /\ LET local == conn.candidates \cap reach
       IN  IF local = {} THEN conn' = [conn EXCEPT !.pc = "refused"]
           ELSE \E p \in local : conn' = [conn EXCEPT !.pc = "open", !.candidates = {p}]
    /\ UNCHANGED <<tables, worker, proxy, listener, container, reach, events>>
Answers(p, target) == container[p] = "running" /\ ListensOn[p] = target
Open ==
    /\ conn.pc = "open"
    /\ conn' = [conn EXCEPT !.pc = IF \A p \in conn.candidates : Answers(p, conn.target)
                                   THEN "piped" ELSE "refused"]
    /\ UNCHANGED <<tables, worker, proxy, listener, container, reach, events>>
Close ==
    /\ conn.pc \in {"piped", "refused"}
    /\ conn' = Closed
    /\ UNCHANGED <<tables, worker, proxy, listener, container, reach, events>>

ProxyStep == Fetch \/ Apply
ConnStep  == Lookup \/ LookupErr \/ Pick \/ Open \/ Close

Next ==
    \/ \E w \in Workers : WorkerStep(w)
    \/ \E s \in Services, spec \in Specs : ApplyService(s, spec)
    \/ \E s \in DOMAIN svc : DeleteService(s)
    \/ \E p \in Pods : CreatePod(p) \/ DeletePod(p) \/ ReportRemote(p)
    \/ \E p \in Here : SyncPod(p) \/ SweepPod(p) \/ ContainerExit(p)
    \/ ProxyStep \/ ConnStep
    \/ \E port \in DOMAIN listener : Bind(port) \/ Accept(port)

Spec == Init /\ [][Next]_vars

(* The controller, the proxy and the agents go round for ever, and a task  *)
(* that can run does; no client, user or container owes anything.          *)
FairSpec ==
    /\ Spec
    /\ \A w \in Workers : WF_vars(WorkerStep(w))
    /\ WF_vars(ProxyStep) /\ WF_vars(ConnStep)
    /\ \A port \in Ports : WF_vars(port \in DOMAIN listener /\ Bind(port))
    /\ \A p \in Pods : WF_vars(ReportRemote(p))
    /\ \A p \in Here : WF_vars(SyncPod(p)) /\ WF_vars(SweepPod(p))
-----------------------------------------------------------------------------
TypeOK ==
    /\ DOMAIN svc \subseteq Services
    /\ \A s \in DOMAIN svc : svc[s] \in Specs
    /\ DOMAIN pods \subseteq Pods
    /\ DOMAIN ep \subseteq Services /\ \A s \in DOMAIN ep : ep[s] \subseteq Pods
    /\ \A w \in Workers :
         /\ worker[w].pc \in {"idle", "list", "write"}
         /\ worker[w].pc # "idle" => DOMAIN worker[w].todo # {}
         /\ worker[w].addresses \subseteq Pods
         /\ \A s \in DOMAIN worker[w].todo : worker[w].todo[s].app # NoApp
    /\ proxy.pc \in {"idle", "apply"} /\ DOMAIN proxy.rows \subseteq Services
    /\ DOMAIN listener \subseteq Ports
    /\ \A port \in DOMAIN listener :
         /\ listener[port].svc \in Services
         /\ listener[port].target \in {spec.target : spec \in Specs}
         /\ listener[port].state \in {"starting", "up", "dead"}
    /\ container \in [Here -> {"none", "running", "exited"}]
    /\ reach \subseteq Here
    /\ conn.pc \in {"closed", "lookup", "pick", "open", "piped", "refused"}
    /\ conn.pc \in {"pick", "open", "piped"} => conn.candidates # {}
    /\ events \in 0 .. MaxEvents

(***************************************************************************)
(* Once the user is done, the endpoints of every service with a selector   *)
(* are the running pods it selects (controller.rs:632-722), also when a    *)
(* pass that listed earlier wrote last, and whatever the row of an earlier *)
(* service of that name holds.                                             *)
(***************************************************************************)
EndpointsConverge ==
    <>[](\A s \in DOMAIN svc : svc[s].app # NoApp =>
            s \in DOMAIN ep /\ ep[s] = Selected(svc[s].app))

(***************************************************************************)
(* "Stop listeners for ports that no longer correspond to a NodePort       *)
(* service" (proxy.rs:98), and a listener for each that does: in the end   *)
(* the ports with a listener are those of the services.  A listener that   *)
(* could not bind its port counts: nothing starts it again.                *)
(***************************************************************************)
PortsConverge ==
    <>[](/\ DOMAIN listener = Wanted(svc)
         /\ \A port \in DOMAIN listener : listener[port].state # "starting")

(***************************************************************************)
(* "Connections that land on that listener are forwarded to a backing pod  *)
(* on this node" (proxy.rs:4-5): a port whose listener is up with a copy   *)
(* that is true of the service it serves, and whose service goes on having *)
(* a running pod here that listens on the target port, goes on being       *)
(* answered.  Its connections are refused only while the endpoints or the  *)
(* addresses are behind the pods, or where a pod the service selects does  *)
(* not listen on its target port.  Nothing is promised of a port whose     *)
(* listener could not bind, or holds the name of another service or a      *)
(* target port that has been changed since: the copy (proxy.rs:87) is made *)
(* once, and while some service wants the port nobody replaces it.         *)
(***************************************************************************)
Serving(port) ==
    /\ port \in DOMAIN listener
    /\ LET l == listener[port]
       IN  /\ l.state = "up"
           /\ l.svc \in WantedBy(svc, port)
           /\ l.target = svc[l.svc].target
           /\ \E p \in Here \cap DOMAIN pods :
                App[p] = svc[l.svc].app /\ Answers(p, l.target)
           /\ \A p \in Here : App[p] = svc[l.svc].app => ListensOn[p] = l.target
Answered ==
    \A port \in Ports :
        <>[]Serving(port) => <>[]~(conn.pc = "refused" /\ conn.port = port)
=============================================================================
