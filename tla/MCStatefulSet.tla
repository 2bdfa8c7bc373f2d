---------------------------- MODULE MCStatefulSet ----------------------------
(* Small instances of StatefulSet.                                         *)
EXTENDS StatefulSet
=============================================================================
