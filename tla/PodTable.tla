------------------------------ MODULE PodTable ------------------------------
(***************************************************************************)
(* The pods table as PodRepository (db/repository.rs) reads and writes it: *)
(* a function from the names in use to rows.  The key of the code's table  *)
(* is (name, namespace); a name here stands for the pair.  A row is a      *)
(* record with at least the fields an operator below touches:              *)
(*   uid, created : set on insert and kept by an upsert                    *)
(*   phase, ip    : what update_status writes                              *)
(*   node         : what bind_to_node writes                               *)
(* Every operator is one SQL statement, so it is atomic.                   *)
(***************************************************************************)
EXTENDS Integers, FiniteSets

(* create: INSERT ... ON CONFLICT (name, namespace) DO UPDATE.  The update *)
(* leaves uid and created_at alone.                                        *)
Upsert(table, name, row) ==
    [n \in DOMAIN table \cup {name} |->
        IF n # name THEN table[n]
        ELSE IF n \in DOMAIN table
             THEN [row EXCEPT !.uid = table[n].uid, !.created = table[n].created]
             ELSE row]

(* delete: a name that is not there is NotFound and changes nothing.       *)
Remove(table, name) == [n \in DOMAIN table \ {name} |-> table[n]]

(* update_status: phase and addresses, nothing when the row is gone.       *)
UpdateStatus(table, name, phase, ip) ==
    IF name \in DOMAIN table
    THEN [table EXCEPT ![name].phase = phase, ![name].ip = ip]
    ELSE table

(* bind_to_node: the node whatever was there, nothing when the row is gone.*)
BindToNode(table, name, node) ==
    IF name \in DOMAIN table THEN [table EXCEPT ![name].node = node] ELSE table

(* ORDER BY created_at DESC: the k newest of a set of names.               *)
Newest(table, names, k) ==
    {n \in names :
        Cardinality({o \in names : table[o].created > table[n].created}) < k}
=============================================================================
