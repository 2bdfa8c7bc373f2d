# TLA+ models of superkube

superkube is a small Kubernetes in one Rust binary: an API server with a
database (SQLite, or Postgres shared by several servers), controllers and a
scheduler that run as loops beside it, and a node agent with its own container
runtime, pod network and proxy. This directory holds TLA+ modules for the parts
of it that carry state and concurrency, TLC configurations that check them on
small instances, and TLAPS proofs. Line numbers refer to the files of the
repository (`controller.rs` is `src/server/controller.rs`, and so on).

`tlc -config MCLease.cfg MCLease` runs one check, `tlapm ClusterProofs.tla` checks
one module of proofs. `PROJECT.json` lists the runs, the mutants that show each
property can fail, the source lines of every definition, the hazards and the
theorems.

## 1. Inventory

| part | state | operations | hard because |
|---|---|---|---|
| leases (`db/lease.rs`) | a table of (name, holder, expires) | `try_acquire`, called by every loop before every pass | clocks of several machines, crashes, passes longer than the lease |
| pods table (`db/repository.rs`) | rows by (namespace, name) | create (an upsert), delete, `update_status`, `bind_to_node`, lists | the only memory everybody shares; written by name, without versions |
| deployment controller and handlers | deployments, their pods | list, plan, create or delete, status; create, update, cascading delete | works from lists that are out of date; two masters; failing calls |
| statefulset controller and handlers | sets, pods named by index | walk the indices, trim, status | order of creation, reads that fail, a cap of 32 |
| daemonset controller and handlers | sets, pods bound at creation | list nodes and pods, create, delete, status | nodes that come and go, overlapping passes |
| scheduler | none between ticks | list, filter, score, bind | one stale copy for many bindings |
| node agent | `pod_containers`, running containers | sync, reconcile, sweep, publish, heartbeat | pods that change behind its back, restarts, lost reports |
| pod controller | none between passes | mark Failed on lost nodes, re-create failed pods | acts on an old list, by name |
| embedded runtime (`node/runtime/embedded.rs`) | containers map, pending teardowns, veth links | create, find, remove | detached teardowns beside new starts, by name |
| address allocator (`node/network/ipam.rs`) | octets by name | allocate, release | exhaustion, restarts |
| container logs | a file and a broadcast channel | look the container up, append, snapshot and follow, forward | gap between file and subscription, slow readers, exit, removal, clients that go |
| change feed (`server/bus.rs`, `server/mod.rs`, `db/change_log.rs`, `server/table.rs`) | a broadcast channel per server, `change_log` | publish, replicate, listen, prune, stream | several ways for one event, lost connections, lag |
| services, endpoints, NodePort proxy | services, endpoints, listeners | reconcile, open and close listeners | stale copies in listeners, port collisions |
| exec and port-forward relays (`server/api.rs`, `node/agent.rs`) | a WebSocket pair and a session | two loops per end under a `select!` that drops both | whoever ends first cuts off the other direction; output, status and stdin race |
| other resources (nodes, namespaces, events, service accounts, config maps, secrets, RBAC) | rows | upsert, read back, publish; read, delete, publish | several requests and servers on one object |
| engines (`node/runtime/mod.rs`, `docker.rs`, `wasm.rs`, `mock.rs`) | containers by name in each | choose by class, look up in all, remove in all | a pod that changes its class, engines that do not remove |
| images, bundles, bridge and NAT set-up, printers, CLI | files, the host | pure I/O or rendering | not a matter of interleaving |

How they interact: nothing calls anything else directly inside the server. The
handlers, the controllers and the scheduler meet in the tables; each reads a
list, decides, and writes row by row, and any other may write in between. The
agents poll the API and report phases by PUT. Every write is published on the
bus, whose only readers are watch streams. Between servers the leases keep the
loops apart and `change_log` carries the events. On a node the agent holds one
lock around the runtime's calls; teardowns, reapers, pumps and streams are tasks
of their own.

What makes each part correct is stated below with its module. The list of
hazards in `PROJECT.json` names, line by line, where each can go wrong.

## 2. Modules

| module | models | composed from |
|---|---|---|
| `Lease` | `LeaseManager` and the loops that call it | |
| `PodTable` | operators on the pods table | used by the next six that name it |
| `Deployment` | `reconcile_deployments`, the deployment handlers | `PodTable` |
| `StatefulSet` | `reconcile_statefulsets`, the handlers | `PodTable` |
| `DaemonSet` | `reconcile_daemonsets`, the handlers, nodes | `PodTable` |
| `Scheduler` | `schedule_pending_pods` and its predicates and score | `PodTable` |
| `Engines` | operators on the engines of a node | |
| `PodLifecycle` | agent, pod controller, binding, user, on one node | `PodTable`, `Engines`, `RuntimeContract` |
| `Services` | `reconcile_services`, the service handlers, the NodePort proxy | `PodTable` |
| `RuntimeContract` | what the agent relies on of a runtime | |
| `Ipam` | `allocate`, `release` | |
| `EmbeddedRuntime` | the embedded runtime and its pod network | `Ipam`; implements `RuntimeContract` |
| `LogContract` | what the client of a log may rely on | |
| `ContainerLog` | `ContainerLog`, `stream_logs` and the handlers of a log request | `LogContract` |
| `ExecRelay` | `exec` and `port-forward`, from the client to the process | |
| `Bus` | the broadcast channels of the servers | |
| `WatchBus` | the resource handlers, replication, listener, pruner, watch streams | `Bus` |
| `EmbeddedRuntimeProofs`, `DeploymentProofs`, `StatefulSetProofs`, `DaemonSetProofs`, `SchedulerProofs`, `PodLifecycleProofs` | proofs | the modules they are named after |
| `ClusterProofs` | proofs about what several servers share | `Lease`, and `WatchBus` as `Feed` |
| `StreamProofs` | proofs about what a client is sent | `ExecRelay`, and `ContainerLog` as `Log` |
| `MC*` | instances for TLC | |

Conventions. Every call of the database is a step of its own, so that anything
may happen between two calls. A call that may fail has an `...Err` action or a
disjunct for it, which follows the error path of the code (`?`, `let _ =`,
`continue`, `break`). A definition `X_Something` is `X` with a plausible mistake,
used only to show that a property would notice. Counters of requests, faults and
pods exist to keep the models finite, and are named as bounds where they are
declared. Fields and variables marked as history are read by properties only.

### Lease
`Start`, `Wake`, `ReadClock`, `TryAcquire`, `TryAcquireErr`, `EndPass` and
`Crash` are the life of the loop of one server process. `try_acquire` is split
in two, because `Utc::now()` is read before the statement is sent. The UPSERT's
`WHERE` is `Free`. With SQLite `try_acquire` answers true at once, and there is
one process. Time is a variable nobody reads; clocks are up to `MaxSkew` ahead.

* `OneMasterPerLease`: two masters are never in the pass of one lease, unless
  one of the passes has outlived its lease (less the skew).
* `ExpiredLeaseIsTakenOver`: a live master has every row that expired within one
  round of its loop, so a dead master's leases pass on.

### Deployment
A worker is the controller task of one master. `ListDeployments`, `ListPods`
(with the decision, `Plan`), `CreatePod`, `DeletePod` and
`UpdateDeploymentStatus` are the calls of a pass, `DeleteGet` to `DeleteRow` those
of a cascading delete.

* `NeverOvershoots`: a creating pass that no other overlaps never takes its
  deployment past the count asked for.
* `Converges`: once the user is done the deployment has its count, and its status
  says how many run, also after two masters' passes overlapped.

### StatefulSet
A pod is its index. `GetPod` walks the indices, `CreatePod` is the upsert,
`TrimPod` the scale-down over `Cap` indices (32 in the code). A user may create,
rewrite or delete a pod of the set's names at any moment (`UserApplyPod`,
`UserDeletePod`), also between the get and the create, which then resets it.

* `OneStartsAtATime`: as long as nothing fails, an OrderedReady set has at most
  one pod that does not run, however it is scaled and whatever the agents report
  between the get and the create.
* `Converges`: the set gets its indices and a status that counts them, unless a
  failed pod holds it up, also after overlapping passes, failed reads and a user
  in between.

### DaemonSet
`ListSets`, `ListReady` and `ListPods` are three moments at which the world may
have changed; pods are created with their node and cover it whatever their phase.

* `OnePerNode`: no node has two pods of one set, as long as no two passes overlap.
* `Converges`: in the end the Ready nodes the selector matches, and no others,
  have a pod, and the status counts them.

### Scheduler
A tick is three lists and then one binding at a time from the copy, into which
each binding is entered. `NodeFits`, `AffinityHolds`, `Score` and `FindNode` are
the predicates, the score and the choice. `ListExistingErr` is the list whose
error is taken for an empty cluster. What pods ask of a node is a sum; `Used`
counts it as the units that the entries ask for, so that it is a cardinality.

The scheduler is not the only one who puts pods on nodes: a manifest may come
with a node and a phase (`NewRow`), as those of DaemonSets do, and a pod may be
written again with other requests, labels, affinity or node while a tick has its
old copy (`UserApply`). The bind is an UPDATE by name without a condition, so
`Bind` goes through whatever the row holds by then. The history variable
`crowded` says of each tick on which nodes load has come to stand since it
listed that the tick does not know of.

* `NoOvercommit`: no bind takes a node past its allocatable, unless the node is
  crowded, the list had failed, or the manifest of the pod that is bound was
  written again after it was listed. In these cases the code does overcommit.
* `AntiAffinityKept`: no bind brings a pod into a zone with one whose company it
  refuses, but for the same cases and for a node that was not listed as Ready.
* `PendingPodIsBound`: a pod that some node would take is not passed over for ever.

### PodLifecycle and Engines
`Engines` is the node's list of engines (`Built`; `Buildable` says which lists the
agent can have), the choice by runtimeClassName (`ForClass`), the lookup through all of them in order (`Found`)
and the removal from all of them (`Removed`). What tells the engines apart for
the agent is five flags: only the embedded engine implements `remove_container`;
the mock never sees an exit; calls to Docker go over a socket and may fail, a
create half way; the containers of the embedded engine and of Docker go on when
the agent is restarted, and only Docker knows them again (`Restarted`,
`Outliving`). A peer whose lookup fails (`Deaf`) is taken to have no container,
while a failure of the default engine ends the reconciliation of the pod.

The agent's sync is `AgentList`, then `AgentPick` per pod. Per container it is
`AgentObserve` when the lookup has found one, else `AgentMissing`, after which the
lock is given back, and `AgentStart` or `AgentStartErr`; what was started is
looked up again and recorded by `AgentObserve`. `FindErr` is a lookup that fails
in the default engine, and leaves the pod. `AgentPublish` ends a pod and
`AgentSweep` the sync. The pod controller is `CtlList`, `CtlPod` (which deletes)
and `CtlCreate`. What the agent does to an engine are steps of `RuntimeContract`,
instantiated for pairs of an engine and a container name. Two histories name
what the code does not keep track of itself: `stray`, the containers whose
process has outlived its agent, and `missed`, the names that a failed lookup of
a peer hid.

* `Tracks`: every container in an engine that removes is one the agent can sweep.
  A stray process is in no engine any more, and nobody ever stops it.
* `NeverTwice`: no two engines have a container of one name, whatever classes its
  pod was given, unless the name is in `missed`.
* `OrphansAreStopped`: again and again no container is left without its pod.
* `StatusConverges`: once nothing changes, the phase of a pod is that of its
  containers, and Failed when one is missing that no engine of the node can start.

### Services
A pass of the controller is `ListServices`, then `ListPods` and `WriteEndpoints`
per service, of which either may fail (`ReconcileErr`). `ApplyService` and
`DeleteService` are the handlers; a delete leaves the endpoints. The proxy's round
is `Fetch` and `Apply`, a listener is `Bind` and `Accept`, and one connection is
followed through `Lookup`, `Pick`, `Open` and `Close`. A listener keeps its copy of
the service, of which the name and the target port matter; a connection is
opened at the copy's target port, and answered if the pod's containers run and
listen there (`Answers`). The agent is reduced to what the table and the proxy
see of it (`SyncPod`, `SweepPod`).

* `EndpointsConverge`: in the end the endpoints of a service are its running pods.
* `PortsConverge`: in the end the ports with a listener are those services ask for.
* `Answered`: a port whose listener is up with a true copy, and whose service goes
  on having a pod that runs on this node and listens on the target port, is, in
  the end, not refused any more. A copy with another service or an old target
  port is left out: it is refused, or served wrongly, for as long as some service
  wants the port.

### EmbeddedRuntime, Ipam and RuntimeContract
One call of the agent at a time (it holds the lock), split where it awaits; any
number of detached teardowns (`Stop`, `DropNetwork`, `DropAddress`) beside it,
`Exit` for the reaper and `Restart` for a new agent process.

* `UniqueAddress`, `OneInstancePerName`, `NoAddressLeak`, `StaysConnected`.
* `CallReturns`: awaiting a teardown does not wait for ever.
* `ImplementsContract`: with `container <- [n |-> Find(n)]`, the runtime is an
  implementation of `RuntimeContract`, which `PodLifecycle` uses in its place.

### ContainerLog
A request comes through `get_pod_logs` (`Asked`, `Refuse`) to the agent, which
looks the container up (`Resolve`, `Resolved`) and answers with the file
(`GetLogs`) or, having given back its lock, with a stream. Two pumps append to
the file and to a channel of `Capacity` lines; a forwarder per stream sends the
last `TailOf` lines, cut to `LimitOf`, and then what comes, through a channel of
`ChanSize` items to the response body (`Body`), until the container has exited or
the client has gone (`HangUp`, `SendErr`).

Lines that are not UTF-8 are in `Garbled`: the forwarder passes over one that
comes (`PassOver`), and one in the file leaves nothing of the file (`Intact`,
`Kept`). The `select!` polls the lines first (`PollEmpty`) and the end of the
container second (`NoticeClosed`); lines may be published in between, which is
what the drain is for. `Wake` is a forwarder that had to wait for either.

What a client may rely on is stated in `LogContract`, over the part of the state
that the client and the body of its answer can see. `Owed` is what it is to get:
the last lines of the file as it was read, cut to the limit, or none of them if
one is garbled, and every later line that is not.

* `ExactlyOnce`: no line twice, late or not owed and, without lag, none owed left
  out before a later one.
* `NothingLostAtTheEnd`: when the stream of a follower that never lagged has
  ended with the container, every line owed has been received or is in an item
  that the body has still to take.
* `FollowerEnds`: the stream of a follower ends once the container has exited.
* `ForwarderGoes`: a forwarder ends when its client has gone, unless the
  container neither writes nor exits any more.

### ExecRelay
One session: `Request`, `Connect`, then the server's two loops (`ServerUp...`,
`ServerDown...`) and the agent's two (`AgentPump` to `AgentClose`,
`AgentIn...`). A loop that returns ends its `select!`, which drops the other loop
with all it holds (`EndRelay`, `EndSession`). `kind` is the session: what the
embedded engine opens without a terminal (`Pipes`) and with one (`Tty`), those of
`Docker` and `Wasm`, and the TCP connection of a port-forward (`Forward`). They
differ in how many streams are merged, whether there is an exit code, whether the
process is killed with the session, and which calls may fail. Connections and
pipes hold a few frames, and senders wait for room.

* `OutputIsWhole`: chunks arrive in order and without a gap, and all of them
  before the status.
* `StatusIsTrue`: the status is that of the process.
* `StatusArrives`: a client that stays is told how its command ended, unless a
  frame of stdin was written to somebody who no longer read.
* `DiesWithItsClient`: the process is killed when its client goes, unless its
  stdin stays full for ever.
* `BothEndsClose`: neither the server's nor the agent's end is left behind.

### WatchBus
One object of some kind, whose versions are numbered. `Upsert` and `ReadBack`
are create and update, `DeleteGet`, `DeleteRefused` and `DeleteRow` a delete, and
`Publish` ends either. The ten kinds of resources come to three: the plain ones,
namespaces, whose deletion may be refused, and events, which are neither
published nor streamed. An event travels on the channel of its server
and, through `change_log` and a notification, to those of the others; the
channels, and what holds of them, are in `Bus`.

* `NoEcho`: an event gets to the channel of a server at most once.
* `Reaches`: an event published while a stream is live gets on it, on every
  listening server, unless it lags or ends, from the last fault on.
* `ViewIsTrue`: in the end a live stream shows the object as it is, deleted or
  not, if each write began when the one before was known everywhere, nothing
  failed and nothing came between the list and the subscription. Each of these
  conditions is needed: without any of them TLC finds a stream that is wrong for
  good.

## 3. Runs

Passing runs; every property of each has a mutant that violates it.

| run | instance | why these bounds |
|---|---|---|
| `lease` | 2 masters, 2 names, TTL 2, passes and sleeps of 1, skew 1, 7 ticks, 1 failed statement | long enough for a holder to die, its lease to expire and the other to take over within its round; passes that outlive the lease are left to the theorem |
| `deployment` | 2 workers, 1 replica, 6 pods, 3 events | overlapping passes create a surplus, which is taken away again; delete and re-create under another uid fits in the events |
| `statefulset` | 2 workers, 2 replicas, cap 1, 2 events | a scale-down from 2 to 0 goes past the cap, as 33 pods would past 32; a user's pod may come between a get and a create |
| `daemonset` | 1 worker, 2 nodes, 8 pods, 4 events | one pass may create on one node and delete on the other while the set is deleted and created again |
| `scheduler` | 1 scheduler, 2 nodes of a zone, 3 pods, 3 creates, 2 changes | the pods compete for the room and refuse each other's zone; one cannot be placed while others can; one may come with a node, another be written again with another size, in the middle of a tick |
| `pod_lifecycle` | a Linux node, a Mac with Docker first and one with Docker as a peer; 2 pods of 2 and 1 containers, one of which changes between three classes; 3 requests, 1 fault | a pod is deleted and created again during a sync, for another engine or for one the node has not, and a container ends, a peer does not answer or the agent restarts in it |
| `services` | 1 worker, 2 services of 3 specifications, 1 port, a pod here and one elsewhere, 4 events | both services may want the port; a service is deleted and applied again, with another target port, or without port and selector, while a pass or a connection is under way. With 2 workers, whose passes overlap, and 3 events the properties hold as well; that is not among the runs |
| `runtime` | 3 names, 2 of which share a link name, 2 addresses, 3 starts, 1 failure, 1 restart, processes that outlive SIGKILL | the pool runs out, and a name is started again while its teardown runs |
| `container_log` | 2 pumps, 2 requests (the last line; all lines and a limit of none), a sidecar, capacity 1, 1 item in the body's channel, 3 lines, the second of which is garbled | a follower can lag, its body can be full, a line can come between the two polls, and lookup, removal and hang-up at any moment; a garbled line is met in the file and on the channel |
| `exec` | a session of each of five kinds; connections of 1 and 2 frames, pipes of 1; 2 chunks of output, 2 frames of stdin | output on both streams, a stdin that fills up, a frame that comes after the end of the process and one after the end of the agent |
| `watch` | 2 servers, 2 handlers, 1 watcher, namespaces (which do all that a plain kind does) and events, capacity 1, 2 writes or deletions, 1 fault | a write and a deletion on two servers cross, one event may be overrun, and the stream may begin at any moment |

They reach between some thousand and three quarters of a million distinct states;
the longest (`pod_lifecycle`, `container_log`, `watch`) take about two minutes with
two workers. `TypeOK` is checked in `lease` and `runtime`. The `TypeOK`s of the other
modules hold in the same instances and can be added to their `.cfg`s, but for that
of `Scheduler`, whose sets of copies TLC cannot enumerate; for seven of them, this
one included, type correctness is proved (section 5).

One run ends in a counterexample, against a sentence of the repository:

* `pod_unbound`, on a node with the mock engine: a status computed for an old pod
  is applied by name to the one that was applied again (`repository.rs:205`). It
  is then Running without a node, and `list_unscheduled` never returns it;
  `scheduler.rs:84`.

Deadlock is not checked: every model may stop, either because the user has
nothing more to ask or because a bound is reached.

## 4. Fairness

Weak fairness on the steps of the loops: the controllers tick every 5 s, the
scheduler every 2 s, the agent's sync and the proxy's round every 5 s, and a failed pass is logged and
tried again. Weak fairness on requests in progress, teardowns, forwarders,
replication tasks and each of the loops under a `select!`, which tokio runs when
they can run, and on a client that stays, which reads. In `ExecRelay` nothing is
assumed of the process: it need not read, write or end. Strong fairness on the
agent's heartbeat, which comes every 10 s between syncs and would otherwise be
starved in the model by the sync it alternates with. The agents start what is
Pending; nothing is assumed of a pod that failed. No fairness on users,
container exits, crashes, hang-ups, faults or time. Faults are bounded in number,
so the liveness properties speak of what follows the last one.

## 5. Proofs

Proved by TLAPS for every value of the constants, from the `ASSUME`s of the
modules alone:

**Leases.**
* `LeaseTypeCorrect` and `LeaseExclusion` (`OneMasterPerLease`). The property is
  not inductive: nothing in it says that the row still protects a pass. The
  invariant adds `RowCoversPass` (a pass that is not overrun holds its row, and
  the row expires no earlier than the clock read plus the TTL), `WithinSkew` (a
  clock that was read is between the time of the reading and that plus the skew)
  and `SingleProcess` (with SQLite one process lives). The step that matters is
  `TryAcquire` by another master: by `CoveredIsNotFree` the row of a pass that is
  not overrun is not free for any clock within the skew. No bound on the length
  of a pass is assumed; a pass that is overrun is simply excluded.
* `LeaseTakeover` (`ExpiredLeaseIsTakenOver`), a bounded response. `Due(m, i)` is
  the latest time at which `m` will have tried the i-th name again, computed from
  where it is in its loop; `OnSchedule` says that this lies within a round of the
  master's start or of the row's expiry, and `Punctual` that time has not passed
  it. A try either takes the row or finds it valid at the time of its clock
  reading. The delicate step is another master's write, which may bring an expiry
  forward, for the holder's clock may have been ahead the last time:
  `HolderReadLater` says that it read its clock no earlier than any master in the
  pass of that lease. Nothing relates `TTL`, `PassBound` and `MaxSkew`; a failed
  statement costs a round.

**Embedded runtime.**
* `RuntimeTypeCorrect`: with the lemmas on `Allocate` and `Release`, the
  allocator never has one octet twice, for any pool.
* `AddressesAreUnique` and `NamesAreUnique`, until the agent restarts. The
  invariant `MapInv` relates the map, the call and the stages of the instances;
  `NameInv` says that of one name at most one instance is in the map or being
  torn down, and that a start has awaited it; `AddressInv` that an instance that
  is connected still holds its octet in the allocator, because the teardown drops
  the link before the address; `RunsHeld` that a process which runs is in the map
  or before its stop. Neither needs link names to differ.
* `AddressesDoNotLeak` (`NoAddressLeak`) and `ContainersStayConnected`
  (`StaysConnected`), restarts included. The first is inductive under `MapInv`.
  The second needs `Plugged`, which also speaks of the instance that a call is
  about to start, and `HolderInv`, the part of `NameInv` that a restart keeps: of
  one name at most one instance is in the map or being torn down.
* `RuntimeImplementsContract`: initial states map to initial states, and under
  `MapInv` every step maps to a step of the contract or leaves what `Find`
  reports as it is.

**Deployment.** `DeploymentTypeCorrect` and `DeploymentNeverOvershoots`. The
invariant adds that a creating pass has a pod left to create (`HasWork`), that no
deployment has the uid of a pod nobody owns (`RealUid`), and that a pass which
has been alone since it began is alone now (`AloneIsQuiet`): so every other step
leaves the pods of its deployment or removes some, and its own create adds one and takes
one from what is left to do.

**DaemonSet.** `DaemonSetTypeCorrect` and `DaemonSetOnePerNode`. `OneBusy`: as
long as passes are apart, one worker is busy. `MissingIsFree`: the nodes a pass is
about to cover have no pod of its set, in spite of the age of its lists, because
only a pass gives a set its pods.

**StatefulSet.** `StatefulSetTypeCorrect` and `StatefulSetOneStartsAtATime`. The
second needs `CalmInv`: while nothing fails and no user touches the pods, the
pods are a prefix of the indices (`IsPrefix`), at most one of them is starting, a
pass that walks has only running pods behind it, one that creates has none at its
index and one that trims has none above (`Orderly`), and from every count asked
for a scale-down reaches all indices (`AllTame`).

**Scheduler.** `SchedulerTypeCorrect`, `SchedulerNeverOvercommits` and
`SchedulerKeepsAntiAffinity`, the last two action properties, for any number of
masters that tick at once, any manifests, pinned or rewritten, and either score.
The invariant says what a stale copy may still be relied on for (`TicksOK`): every
row on a node that is not crowded is in the copy, with that node and that
manifest, and alive there if it is alive (`Covered`). A write of anybody else
either leaves a node with what the copy knows of it or brings something to it,
and then the node is crowded (`CoveredKept`). A binding of the tick itself is known
to it, because it is pushed onto the copy (`PushCovers`), as long as the row still
held the manifest that was listed. A pod is moved by a binding only
(`MovesByBind`), which goes to a node that `FindNode` chose, one of its candidates
whatever the scores (`FindNodeIsCandidate`), and what the table asks of that node
is at most what the copy does (`UsedMono`, `UsedPush`). The sums are cardinalities
of sets of units, so that they need no induction.

**PodLifecycle.** `PodLifecycleTypeCorrect`, `AgentTracks` and `AgentNeverTwice`,
for every list of engines that `Engines::build` can give. `NeverTwice` and `Tracks`
become inductive with the types of the sync, `OneHome` (no name outside `missed` is
in two engines) and `Vacant`: between the lookup and the create, while the agent
has given its lock back, a name outside `missed` stays in no engine. A container is
made only after a lookup in which no engine that answered had it (`FoundIfAny`,
`OnlyFromLookup`); if one that did not answer has it, the name is in `missed`. For
`Tracks` the engine that removes is the default one, whose lookups do not fail, so
that a container of it is never hidden (`RemovingEngine`, `RemovingAnswers`).

**ExecRelay.** `ExecTypeCorrect`, `ExecStatusIsTrue` and `ExecOutputIsWhole`. The
output of a stream is spread over the pipe, two connections and the client;
`Balanced` divides its chunks between them (`Ledger`: up to `a` with the client,
up to `b` on the way from the server, up to `c` on the way from the agent, the rest
in the pipe), so that an end which drops what it holds shortens the way and never
leaves a gap. `Drained` says that nothing is written once the readers have met their
ends, `Last` that nothing but a close follows the status on its whole way, and
`Truth` that a status is true wherever it is. Most steps only shorten
(`Narrows`, and the lemma `Steps`), which reduces a case per action and queue to a few.

**Container logs.** `LogTypeCorrect`, `LogExactlyOnce` (`ExactlyOnce`) and
`LogNothingLost` (`NothingLostAtTheEnd`), for any number of pumps and requests and
any capacity. The properties speak of what has arrived; the invariant has to say
where every line is that has not.
* Of the log: while nobody holds the lock all lines of the file are on the
  channel, and one line is not while a pump has written it and not yet sent it
  (`Locking`); what a request asks for lies within the file as it was read
  (`Span`); a receiver is never ahead of the channel and, once it has subscribed,
  never behind the lines read from the file (`Positions`); a channel is closed
  only when the pumps have ended, and a stream that ended without a lag has taken
  everything from it (`AtTheEnd`), so that nothing is written afterwards.
* Of each request (`FollowerInv`): before it has subscribed nothing was sent to it
  (`Unsent`); what it has been given, received or still in its queue, rises from
  item to item (`Ordered`), is owed to it and lies before its receiver (`Sound`).
  As long as the receiver has not lagged, every line owed to it that its receiver
  is past was given (`Complete`), and the client has received none before all owed
  from before it (`NoGap`). A lag, a garbled line and the cut of the limit move the
  receiver past lines that are not given: the last two are not owed, so only the
  lag gives up `Complete` and `NoGap`.

`NothingLostAtTheEnd` is `Complete` with `AtTheEnd`: the stream ends with the
receiver at the end of the channel, because the drain has taken it there or the
sender was gone when it had nothing left.

The steps that matter are `SnapshotRead` and `Subscribe`, between which the lock is
held: no pump can write, so the backlog ends exactly where the receiver begins.

**Watch bus.** `FeedHasNoEcho` (`NoEcho`), for any number of servers, handlers
and watchers. An event may come to a channel through its own server's `publish`
or through the server's listener, so `NoEcho` says nothing yet about what is to
come. `Published`: an id that is not yet given to an event is on no channel and in
no inbox. `NotYetNotified`: an event that is not yet announced is in no inbox and
on no channel but its origin's. `NotifiedOnce`: no inbox holds a notification
twice, and one that is there finds its event on no channel but the origin's,
where the listener's test of the instance drops it. No assumption on the
constants is needed, not even on the capacity of the channels.

`ContainerLog` and `WatchBus` come into their proof modules by a named `INSTANCE`,
because `ExecRelay` and `Lease` use some of the same names. What is proved there is
`Log!Spec => []ExactlyOnce`, with `ExactlyOnce` itself in both through `LogContract`,
and likewise `NoEcho` through `Bus`. An `INSTANCE` does not bring the module's `ASSUME`
with it; the theorems on logs therefore state as a hypothesis (`LogConstants`) the
part of `ContainerLogAssumption` that they use.

The assumptions on the constants are those of the `ASSUME`s: quantities are
natural numbers (a capacity may be `Unlimited`), nodes and pod names are finitely
many where something is counted, `NoNode`, `NoOne` and `NoPod` are none of what
they stand in for, `"none"` is no app's name, the engines of a node are a list the
agent builds, and the kinds of a session are records of `Session`. TLC evaluates
them in every run.

Every safety invariant and action property that a run checks is thereby proved.
Only model-checked: the liveness properties, among them all of `Services`, for
fairness and ENABLED are beyond the prover. What a recursive definition computes
for every input is beyond it too; no module uses RECURSIVE.

## 6. What the models say about the code beyond the runs

Met while modelling, and kept in the models as the code has it:

* A pass that outlives its lease runs beside the next master's
  (`controller.rs:49`); the README's "exactly one master at a time"
  (`README.md:69`) holds for shorter passes. Overlapping passes create surplus
  pods, which a Deployment deletes again, but a DaemonSet keeps: two pods on a
  node cover it like one (`controller.rs:484`).
* Failed pods count as replicas (`controller.rs:153`) and cover their node or
  index, so that nothing replaces them, although `controller.rs:571` says that a
  pod is marked Failed "so a Deployment / StatefulSet / DaemonSet controller
  replaces it". A failed pod of an OrderedReady set holds up those behind it.
* A cascading delete lists once, by labels and not by owner, and removes the
  row last (`api.rs:1412-1438`): it takes pods that only share the labels, and a
  pass in between leaves pods without an owner.
* A StatefulSet takes any error of a get for a missing pod and resets it with
  the upsert (`controller.rs:367`), and so it does a pod that a user created under
  that name after the get; a scale-down by more than 32 leaves the pods
  above (`controller.rs:397`). A DaemonSet without labels creates a pod per node
  on every tick (`controller.rs:468`).
* The scheduler takes an error of its list for an empty cluster
  (`scheduler.rs:112`), gives away the room of failed pods that may run again
  (`scheduler.rs:346`), and does not see the zone of a peer whose node is not
  Ready (`scheduler.rs:533`). `bind_to_node` is an UPDATE without a condition
  (`repository.rs:235`): a pod that was written again with a node since it was
  listed is moved, and one that asks for more by now is bound where it does not
  fit. A pod that comes with a node (`repository.rs:71`), as a DaemonSet's do, is
  checked by nobody. Between equal scores `max_by_key` takes the last.
* A log stream that starts while the container exits is cut after the backlog
  (`embedded.rs:1086`). The allocator forgets all addresses when the agent
  restarts (`ipam.rs:43`).
* Container names leave out the namespace (`agent.rs:311`). Containers that all
  exited with 0 leave their pod Pending (`agent.rs:501`). A pod that the pod
  controller re-creates from an old list comes back after the user's delete.
* Containers of one deployment have one link name (`veth.rs:48` cuts names to
  eight letters and digits), so the second unplugs the first, although
  `network/mod.rs:3` speaks of a veth pair per pod. `StaysConnected` therefore
  speaks of containers with a link name of their own.
* A NodePort listener keeps its copy of the service: a port that passes from one
  service to another between two rounds goes on serving the first
  (`proxy.rs:87`), and a changed target port is never seen. A bind that failed is not tried again (`proxy.rs:132`).
  NodePorts are drawn whether or not they are taken, and anew at every update that
  names none (`repository.rs:529`). Endpoints survive their service.
* exec: a frame of stdin that is written after the process has closed its stdin
  ends the session, with the output and the status still on their way
  (`agent.rs:1358`): `cat big | kubectl exec -i pod -- head -1` may lose its
  line. The same happens in the relay when a frame is written after the agent
  has closed (`api.rs:855`). A process that closed its output is reported as a
  success after five seconds, and killed (`agent.rs:1329`). The end of the
  client's stdin is never passed on. Processes of Docker and Wasm outlive their
  client, and a Wasm command that failed is a success, for it has no exit code.
* The server's own error frames are bare strings (`api.rs:922`), although
  `agent.rs:1389-1391` says that kubectl fails on those; the relay of
  port-forward drops the agent's errors, which are text frames (`api.rs:1070-1083`).
* logs: a request for a container the agent does not know is answered with the
  log of the only one it knows of that pod (`agent.rs:1014`, `1114`). A line that
  is not UTF-8 is left out of a followed log (`embedded.rs:608`), and one such line
  in the file leaves out all of the file, for good (`embedded.rs:533`, `544`).
  `--limit-bytes` cuts the end of the file's part of a stream off and not what
  follows (`embedded.rs:580`), so that there is a gap between the two.
* engines: a pod of an engine without `remove_container` goes on running when it
  is deleted, and a namesake that is created later, of whatever class, finds the
  old container. The embedded containers of an agent that is restarted go on
  running, known to nobody, beside those that are started in their place
  (`embedded.rs:23-26`). A peer that fails to answer is taken to have no container
  (`mod.rs:266`): with Docker as a peer, a pod whose class was changed then has
  one in two engines. A Docker container that was created and not started leaves its
  pod Pending (`docker.rs:186`). A Wasm container whose second port cannot be
  bound leaves the listener of the first behind (`wasm.rs:218`).
* watch: a write between the list and the subscription is on neither
  (`table.rs:287`), although `table.rs:267-269` promises live updates after the
  snapshot. Replicated events may overtake each other and carry no version. A
  delete whose read failed publishes nothing, and one that raced a create
  publishes the older object. `create_*` publishes under the namespace of the
  path and stores under that of the body. `NamespaceRepository::delete` counts
  the pods before it deletes (`repository.rs:1012`): pods created in between stay.
* A notification whose row was pruned is dropped (`server/mod.rs:306`), and a
  stream that lagged stays open without events (`table.rs:208-236`).

## 7. Not modelled, and the plan

Not modelled because there is nothing to interleave: serialisation and the
models, printers, the CLI and the routes, images and bundles, the set-up of
bridge and NAT, mounts and cgroups. Of the parts modelled, these are left out:
resize frames, timestamps and `--since` of logs, a limit that cuts inside a line,
a write to the log file that fails, the logs of Docker, Wasm and the mock, the
accept loops of Wasm listeners, what is in a secret, a role or an event, and the
age of a heartbeat, which no code reads. A log file that cannot be read is like
one with a garbled line. The manifests of `PodLifecycle` come without a status;
those of `Scheduler` and `StatefulSet` may have one. In `ExecRelay` the exit of a
process closes its outputs, so that a child left in the background which still
holds the pipe is not modelled, and neither is the code -1 that `wait_for_exit`
gives when it cannot wait for the process (`embedded.rs:661-668`). In `WatchBus` the
read before a delete does not fail (`api.rs:1997` ignores its error): such a
delete would publish nothing, like one whose read came before the row.

Theorems left: the liveness properties, when the prover can do them, and the type
correctness of `Services` and of the streams of `WatchBus`, on which no safety
property rests.
