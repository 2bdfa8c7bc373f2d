----------------------------- MODULE MCWatchBus -----------------------------
(* Small clusters for WatchBus.                                            *)
EXTENDS WatchBus

(* All that an object of a plain kind can do, a namespace can, whose       *)
(* deletion may be refused as well.                                        *)
MCKinds == {Namespace, Event}
=============================================================================
