----------------------------- MODULE MCServices -----------------------------
(* A small instance of Services.                                           *)
EXTENDS Services, TLC

CONSTANTS near, far

(* Two pods of one application, on this node and on another.               *)
MCApp == near :> "web" @@ far :> "web"
MCListensOn == near :> 80 @@ far :> 80

(* A NodePort service, the same with a target port nobody listens on, and  *)
(* a service that is not of type NodePort and has no selector.             *)
MCSpecs ==
    {[port |-> 30080, target |-> 80, app |-> "web"],
     [port |-> 30080, target |-> 81, app |-> "web"],
     [port |-> NoPort, target |-> 80, app |-> NoApp]}
=============================================================================
