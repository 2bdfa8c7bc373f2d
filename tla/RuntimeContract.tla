--------------------------- MODULE RuntimeContract ---------------------------
(***************************************************************************)
(* What the agent may rely on of a container runtime (the Runtime trait,   *)
(* node/runtime/mod.rs): under each name there is no container, a running  *)
(* one or one that has exited.  A name becomes free at once when its       *)
(* container is removed or replaced, and a container that has exited does  *)
(* not run again: a new one may be started under its name.                 *)
(***************************************************************************)
CONSTANT Names  \* container names, as the agent passes them

VARIABLE container  \* what find_container reports for each name

States == {"none", "running", "exited"}

Init == container = [n \in Names |-> "none"]

Start(n) == container[n] = "none" /\ container' = [container EXCEPT ![n] = "running"]
Exit(n)  == container[n] = "running" /\ container' = [container EXCEPT ![n] = "exited"]
Drop(n)  == container[n] # "none" /\ container' = [container EXCEPT ![n] = "none"]

(* The agent's process is started again, and its runtime knows nothing.    *)
Forget == container' = [n \in Names |-> "none"]

Next == Forget \/ \E n \in Names : Start(n) \/ Exit(n) \/ Drop(n)

Spec == Init /\ [][Next]_container
=============================================================================
