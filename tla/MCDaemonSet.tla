----------------------------- MODULE MCDaemonSet -----------------------------
(* Small instances of DaemonSet.                                           *)
EXTENDS DaemonSet
=============================================================================
