-------------------------------- MODULE Ipam --------------------------------
(***************************************************************************)
(* The address allocator of the embedded runtime (node/network/ipam.rs).   *)
(* Its state is a record: by, the octet of each name that has one, and     *)
(* taken, the octets in use.  An address is its last octet.  allocate and  *)
(* release hold the mutex from end to end, so each is one operator.        *)
(***************************************************************************)
EXTENDS Integers

CONSTANT LastOctet  \* 254 in the code

ASSUME IpamAssumption == LastOctet \in Nat

Gateway == 1
Octets  == 2 .. LastOctet

IpamNew == [by |-> [n \in {} |-> Gateway], taken |-> {Gateway}]

Has(s, n)    == n \in DOMAIN s.by
Unused(s)    == Octets \ s.taken
Exhausted(s) == Unused(s) = {}

(* The first octet of 2 ..= 254 that is not taken.                         *)
FirstFree_Count(s) == 2
FirstFree(s) == CHOOSE o \in Unused(s) : \A u \in Unused(s) : o <= u

(* allocate: what the name has, or the first free octet.  The caller has   *)
(* checked that there is one: the error changes nothing.                   *)
Allocate(s, n) ==
    IF Has(s, n) THEN s
    ELSE [by |-> [m \in DOMAIN s.by \cup {n} |->
                    IF m = n THEN FirstFree(s) ELSE s.by[m]],
          taken |-> s.taken \cup {FirstFree(s)}]

(* release: nothing when the name has no octet.                            *)
Release_KeepsName(s, n) ==
    IF Has(s, n) THEN [s EXCEPT !.taken = @ \ {s.by[n]}] ELSE s
Release(s, n) ==
    IF Has(s, n)
    THEN [by |-> [m \in DOMAIN s.by \ {n} |-> s.by[m]],
          taken |-> s.taken \ {s.by[n]}]
    ELSE s

(* The two fields agree, no octet is given twice, and never the gateway's. *)
IpamOK(s) ==
    /\ \A n \in DOMAIN s.by : s.by[n] \in Octets
    /\ \A m, n \in DOMAIN s.by : s.by[m] = s.by[n] => m = n
    /\ s.taken = {Gateway} \cup {s.by[n] : n \in DOMAIN s.by}
=============================================================================
