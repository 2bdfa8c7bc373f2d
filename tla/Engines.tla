------------------------------- MODULE Engines -------------------------------
(***************************************************************************)
(* The container engines of a node (node/runtime): Engines, which routes   *)
(* the agent's calls to them by the runtimeClassName of a pod, by order of *)
(* preference or to all of them (mod.rs), and what tells the engines       *)
(* themselves apart for the agent: the embedded one, Wasm, Docker and the  *)
(* mock.                                                                   *)
(*                                                                         *)
(* The operators are about a list of engines, the default first, and a     *)
(* function from <<engine, container name>> to the state of the container  *)
(* ("none", "running", "exited").                                          *)
(***************************************************************************)
EXTENDS Integers, Sequences, FiniteSets

(* An engine:                                                              *)
(*   removes  : remove_container stops and forgets a container; the others *)
(*              inherit the no-op of the trait                             *)
(*   exits    : it can tell that a container has ended                     *)
(*   shaky    : it is asked over a socket: a lookup can fail, and a create *)
(*              can leave a container that was not started                 *)
(*   outlive  : its containers go on when the agent is restarted           *)
(*   knows    : and it knows them again then                               *)
Embedded == [name |-> "embedded", removes |-> TRUE, exits |-> TRUE, shaky |-> FALSE,
             outlive |-> TRUE, knows |-> FALSE]
Wasm     == [name |-> "wasm", removes |-> FALSE, exits |-> TRUE, shaky |-> FALSE,
             outlive |-> FALSE, knows |-> FALSE]
Docker   == [name |-> "docker", removes |-> FALSE, exits |-> TRUE, shaky |-> TRUE,
             outlive |-> TRUE, knows |-> TRUE]
Mock     == [name |-> "mock", removes |-> FALSE, exits |-> FALSE, shaky |-> FALSE,
             outlive |-> FALSE, knows |-> FALSE]

Engine == {Embedded, Wasm, Docker, Mock}
NamesOf(engines) == {engines[i].name : i \in DOMAIN engines}
The(engines, name) == CHOOSE e \in {engines[i] : i \in DOMAIN engines} : e.name = name

(* Engines::build: the engine that --runtime, or select for "auto", gives  *)
(* first; then the peers, Wasm everywhere and Docker on macOS.             *)
Built(default, platform) ==
    <<default>> \o (IF default = Wasm THEN << >> ELSE <<Wasm>>)
                \o (IF platform = "macos" /\ default # Docker THEN <<Docker>> ELSE << >>)

(* What it leaves when a peer is not available: the default may be any     *)
(* engine, a peer is Wasm or Docker.                                       *)
Buildable(engines) ==
    /\ engines \in Seq(Engine) /\ engines # << >>
    /\ \A i \in DOMAIN engines : i > 1 => engines[i] \in {Wasm, Docker}

Default == "default"  \* no runtimeClassName

(* for_class: the engine of that name, if the node has it.                 *)
ForClass(engines, class) ==
    {name \in NamesOf(engines) :
        name = IF class = Default THEN engines[1].name ELSE class}

(* find_container: the first engine, in order, that has a container of     *)
(* that name, if any has.  A peer whose lookup fails (deaf) is logged and  *)
(* taken to have none; the failure of the default engine is the caller's.  *)
Deaf(engines) ==
    SUBSET {engines[i].name : i \in {i \in DOMAIN engines : i > 1 /\ engines[i].shaky}}
Found_InDefault(engines, container, n, deaf) ==
    {name \in {engines[1].name} : container[<<name, n>>] # "none"}
Found(engines, container, n, deaf) ==
    LET Has(i) == engines[i].name \notin deaf /\ container[<<engines[i].name, n>>] # "none"
    IN  {engines[i].name : i \in {i \in DOMAIN engines : Has(i) /\ \A j \in 1 .. i - 1 : ~Has(j)}}

(* remove_container: every engine is told.                                 *)
Removed(engines, container, names) ==
    [c \in DOMAIN container |->
        IF c[2] \in names /\ c[1] \in NamesOf(engines) /\ The(engines, c[1]).removes
        THEN "none" ELSE container[c]]

(***************************************************************************)
(* The agent's process ends, and another one starts: the engines report    *)
(* what they know again.  The embedded one starts with an empty table      *)
(* "while the old init processes keep running" (embedded.rs:23-26), as     *)
(* in EmbeddedRuntime!Restart; they are no engine's container any more.    *)
(***************************************************************************)
Restarted(engines, container) ==
    [c \in DOMAIN container |->
        IF c[1] \in NamesOf(engines) /\ The(engines, c[1]).knows THEN container[c] ELSE "none"]
Outliving(engines, container) ==
    {c[2] : c \in {c \in DOMAIN container :
        /\ c[1] \in NamesOf(engines) /\ container[c] = "running"
        /\ The(engines, c[1]).outlive /\ ~The(engines, c[1]).knows}}
=============================================================================
