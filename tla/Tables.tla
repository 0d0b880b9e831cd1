------------------------------- MODULE Tables -------------------------------
(***************************************************************************)
(* A stored table is a function whose domain is the set of stored keys:    *)
(* a key outside the domain has no row.  The store (internal/statedb) is a *)
(* set of such tables in one bbolt file; bolttable runs every write as one *)
(* serialized transaction that commits whole or not at all, so a store     *)
(* call is one TLA+ action over its tables.                                *)
(***************************************************************************)

EmptyTable == [x \in {} |-> {}]

\* t with row v stored under k.
Put(t, k, v) == [x \in DOMAIN t \union {k} |-> IF x = k THEN v ELSE t[x]]

\* t without the rows under the keys of K.
Drop(t, K) == [x \in DOMAIN t \ K |-> t[x]]

\* t holds rows of S under keys of K, and nothing else.
IsTable(t, K, S) ==
    /\ DOMAIN t \subseteq K
    /\ t = [x \in DOMAIN t |-> t[x]]
    /\ \A x \in DOMAIN t : t[x] \in S
=============================================================================
