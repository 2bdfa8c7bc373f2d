--------------------------- MODULE MCPodLifecycle ---------------------------
(* Small instances of PodLifecycle.                                        *)
EXTENDS PodLifecycle, TLC

CONSTANTS web, db

(* A pod of two containers beside one of a single container, ...           *)
MCSidecar == web :> <<"web-main", "web-side">> @@ db :> <<"db-main">>
(* ... and a single pod.                                                   *)
MCSingle == web :> <<"web-main">>

(* The sidecar's pod changes between the default, Wasm and Docker, which   *)
(* not every node has; the other runs on whatever is the default.          *)
MCClasses == web :> {Default, "docker", "wasm"} @@ db :> {Default}
MCOneClass == web :> {Default}

(* A Linux node, and a Mac that has Docker first or as a peer; a node      *)
(* whose native engine cannot be had.                                      *)
MCNodes == {Built(Embedded, "linux"), Built(Docker, "macos"), Built(Mock, "macos")}
MCFallback == {Built(Mock, "linux")}
=============================================================================
