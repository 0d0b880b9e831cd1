--------------------------- MODULE TableTheorems ---------------------------
(***************************************************************************)
(* Facts about stored tables that the proofs of the store modules share.   *)
(***************************************************************************)
EXTENDS Tables, WellFoundedInduction, TLAPS

\* Storing a row of S keeps a table of S, and the other rows.
LEMMA PutIsTable ==
    ASSUME NEW t, NEW K, NEW S, IsTable(t, K, S), NEW k \in K, NEW v \in S
    PROVE  /\ IsTable(Put(t, k, v), K, S)
           /\ DOMAIN Put(t, k, v) = DOMAIN t \union {k}
           /\ Put(t, k, v)[k] = v
           /\ \A x \in DOMAIN t : x # k => Put(t, k, v)[x] = t[x]
BY DEF IsTable, Put

\* Deleting rows keeps a table of S, and the other rows.
LEMMA DropIsTable ==
    ASSUME NEW t, NEW K, NEW S, IsTable(t, K, S), NEW D
    PROVE  /\ IsTable(Drop(t, D), K, S)
           /\ DOMAIN Drop(t, D) = DOMAIN t \ D
           /\ \A x \in DOMAIN t \ D : Drop(t, D)[x] = t[x]
BY DEF IsTable, Drop

\* The empty table is a table of anything.
LEMMA EmptyIsTable ==
    ASSUME NEW K, NEW S
    PROVE  IsTable(EmptyTable, K, S) /\ DOMAIN EmptyTable = {}
BY DEF IsTable, EmptyTable

\* A set of numbers that is not empty has a least one.
LEMMA Least ==
    ASSUME NEW T, T \subseteq Nat, T # {}
    PROVE  \E n \in T : \A m \in T : n <= m
<1>1. IsWellFoundedOn(OpToRel(<, Nat), Nat)
  BY NatLessThanWellFounded
<1>2. PICK n \in T : \A y \in T : ~(<<y, n>> \in OpToRel(<, Nat))
  BY <1>1, WFMin
<1>3. ASSUME NEW m \in T PROVE n <= m
  <2>1. ~(m < n)
    BY <1>2 DEF OpToRel
  <2>. QED BY <2>1
<1>. QED BY <1>3
=============================================================================
