------------------------------- MODULE MCLease -------------------------------
(* Small instances of Lease: two masters, two lease names.                 *)
EXTENDS Lease, TLC

MCTwoNames == <<"controller/deployment", "controller/pod">>
MCSymmetry == Permutations(Masters)
=============================================================================
