---------------------------- MODULE StoreProofs ----------------------------
(***************************************************************************)
(* Proofs about three parts of the store, for every value of their         *)
(* constants: the pages, ordinals and small tables of StoreReads, the      *)
(* observer of ChangeFeed and the queue of WorkQueue.                      *)
(*                                                                         *)
(* Only the small tables' property is inductive.  A walk is complete       *)
(* because a row listed since it began is served or still ahead of its     *)
(* cursor (WalkGood).  Ordinals rise because what is stored is past what   *)
(* was handed out as long as the instance is stored (PastHanded), and an   *)
(* instance id is never given again.  The observer is current because      *)
(* every root it holds otherwise than the store is still in the log, or it *)
(* is too far behind and reads all again (CopyKept).  That an              *)
(* acknowledgement leaves the row of a video changed since its run began   *)
(* needs the row to be at a later generation than the run (RanBehind),     *)
(* which needs every row to be at least at the generation the drainer      *)
(* holds (RunStaysQueued), which needs the drainer to hold one work for a  *)
(* video at most (OneWorkEach).                                            *)
(***************************************************************************)
EXTENDS StoreReads, ChangeFeed, WorkQueue, TableTheorems, FiniteSetTheorems

(***************************************************************************)
(* StoreReads: ordinals.                                                   *)
(***************************************************************************)
IdsTyped == ids = [inst |-> ids.inst, seq |-> ids.seq] /\ ids.inst \in Nat
InstancesNumbered == DOMAIN instances \subseteq 1 .. ids.inst
Handed == [key : Nat \X Tags, n : Nat, highest : Int]
OrdinalsTyped ==
    /\ ordinals = [o \in DOMAIN ordinals |-> ordinals[o]]
    /\ \A o \in DOMAIN ordinals : ordinals[o] \in Nat
    /\ reserved \in Seq(Handed)

\* What was handed out is of an instance id already given, and as long as the
\* instance is stored the stored ordinal is past it.
PastHanded ==
    \A i \in DOMAIN reserved :
        /\ reserved[i].key[1] \in 1 .. ids.inst
        /\ reserved[i].key[1] \in DOMAIN instances =>
              reserved[i].key \in DOMAIN ordinals /\ reserved[i].n < ordinals[reserved[i].key]

OrdinalInv == IdsTyped /\ InstancesNumbered /\ OrdinalsTyped /\ PastHanded /\ OrdinalsRise

\* A commit that gives no old instance id again keeps the ordinals past
\* those handed out.
LEMMA CascadeStep ==
    ASSUME OrdinalInv, NEW its, NEW ins, Cascade(its, ins), UNCHANGED reserved,
           ids' = [inst |-> ids'.inst, seq |-> ids'.seq], ids'.inst \in Nat, ids.inst <= ids'.inst,
           DOMAIN ins \subseteq 1 .. ids'.inst,
           DOMAIN ins \intersect 1 .. ids.inst \subseteq DOMAIN instances
    PROVE OrdinalInv'
<1>0. IdsTyped /\ InstancesNumbered /\ OrdinalsTyped /\ PastHanded /\ OrdinalsRise
  BY DEF OrdinalInv
<1>1. DOMAIN instances' \subseteq DOMAIN ins
  BY DEF Cascade
<1>2. /\ DOMAIN ordinals' = {o \in DOMAIN ordinals : o[1] \in DOMAIN instances'}
      /\ ordinals' = [o \in DOMAIN ordinals' |-> ordinals[o]]
  BY DEF Cascade, Drop
<1>3. IdsTyped' /\ InstancesNumbered'
  BY <1>1 DEF IdsTyped, InstancesNumbered
<1>4. OrdinalsTyped'
  BY <1>0, <1>2 DEF OrdinalsTyped
<1>5. PastHanded'
  <2> SUFFICES ASSUME NEW i \in DOMAIN reserved
               PROVE /\ reserved[i].key[1] \in 1 .. ids'.inst
                     /\ reserved[i].key[1] \in DOMAIN instances' =>
                           reserved[i].key \in DOMAIN ordinals' /\ reserved[i].n < ordinals'[reserved[i].key]
    BY DEF PastHanded
  <2>1. reserved[i].key[1] \in 1 .. ids.inst
    BY <1>0 DEF PastHanded
  <2>2. reserved[i].key[1] \in 1 .. ids'.inst
    BY <1>0, <2>1 DEF IdsTyped
  <2>3. CASE reserved[i].key[1] \in DOMAIN instances'
    <3>1. reserved[i].key[1] \in DOMAIN instances
      BY <1>1, <2>1, <2>3
    <3>2. reserved[i].key \in DOMAIN ordinals /\ reserved[i].n < ordinals[reserved[i].key]
      BY <1>0, <3>1 DEF PastHanded
    <3> QED BY <1>2, <2>2, <2>3, <3>2
  <2> QED BY <2>2, <2>3
<1>6. OrdinalsRise'
  BY <1>0 DEF OrdinalsRise
<1> QED BY <1>3, <1>4, <1>5, <1>6 DEF OrdinalInv

\* What is handed out is past what was stored and past the disk.
LEMMA NextIsPast ==
    ASSUME NEW o, NEW highest \in Highest, highest >= 0, StoredNext(o) \in Nat
    PROVE /\ NextOrdinal(o, highest) \in Nat
          /\ NextOrdinal(o, highest) >= StoredNext(o)
          /\ NextOrdinal(o, highest) > highest
<1>1. highest \in Nat /\ highest <= MaxInt /\ MaxInt \in Nat
  BY StoreAssumption
<1>2. (highest + 1) % (2 * MaxInt + 2) = highest + 1
  BY <1>1
<1> QED BY <1>1, <1>2 DEF NextOrdinal

\* Handing one out keeps them so.
LEMMA ReserveStep ==
    ASSUME OrdinalInv, NEW inst \in DOMAIN instances, NEW t \in Tags, NEW h \in Highest,
           ReserveOrdinal(<<inst, t>>, h)
    PROVE OrdinalInv'
<1> DEFINE o == <<inst, t>>
           n == NextOrdinal(o, h)
           handed == [key |-> o, n |-> n, highest |-> h]
<1>0. IdsTyped /\ InstancesNumbered /\ OrdinalsTyped /\ PastHanded /\ OrdinalsRise
  BY DEF OrdinalInv
<1>1. /\ h >= 0 /\ n <= MaxInt /\ reserved' = Append(reserved, handed)
      /\ ordinals' = Put(ordinals, o, n + 1)
      /\ UNCHANGED <<instances, ids>>
  BY DEF ReserveOrdinal
<1>2. StoredNext(o) \in Nat
  BY <1>0 DEF StoredNext, OrdinalsTyped
<1>3. n \in Nat /\ n >= StoredNext(o) /\ n > h /\ h \in Int
  BY <1>1, <1>2, NextIsPast, StoreAssumption
<1>4. inst \in 1 .. ids.inst /\ o[1] = inst
  BY <1>0 DEF InstancesNumbered
<1> HIDE DEF n
<1>5. handed \in Handed
  BY <1>0, <1>3, <1>4 DEF Handed, IdsTyped
<1>6. /\ DOMAIN ordinals' = DOMAIN ordinals \union {o}
      /\ ordinals' = [x \in DOMAIN ordinals' |-> ordinals'[x]]
      /\ \A x \in DOMAIN ordinals' : ordinals'[x] = IF x = o THEN n + 1 ELSE ordinals[x]
  BY <1>1 DEF Put
<1>7. OrdinalsTyped'
  <2>1. reserved' \in Seq(Handed)
    BY <1>0, <1>1, <1>5 DEF OrdinalsTyped
  <2>2. \A x \in DOMAIN ordinals' : ordinals'[x] \in Nat
    BY <1>0, <1>3, <1>6 DEF OrdinalsTyped
  <2> QED BY <1>6, <2>1, <2>2 DEF OrdinalsTyped
<1>8. /\ Len(reserved) \in Nat /\ DOMAIN reserved = 1 .. Len(reserved)
      /\ DOMAIN reserved' = 1 .. (Len(reserved) + 1)
      /\ \A i \in DOMAIN reserved : reserved'[i] = reserved[i] /\ reserved[i] \in Handed
      /\ reserved'[Len(reserved) + 1] = handed
  BY <1>0, <1>1, <1>5 DEF OrdinalsTyped
<1>9. handed.key = o /\ handed.n = n /\ handed.highest = h
  OBVIOUS
<1> HIDE DEF handed
<1>10. \A i \in DOMAIN reserved : reserved[i].key = o => reserved[i].n < StoredNext(o)
  BY <1>0, <1>4 DEF PastHanded, StoredNext
<1>11. \A i \in DOMAIN reserved : reserved[i].n \in Nat
  BY <1>8 DEF Handed
<1> HIDE DEF o
<1>12. PastHanded'
  <2> SUFFICES ASSUME NEW i \in DOMAIN reserved'
               PROVE /\ reserved'[i].key[1] \in 1 .. ids.inst
                     /\ reserved'[i].key[1] \in DOMAIN instances =>
                           reserved'[i].key \in DOMAIN ordinals' /\ reserved'[i].n < ordinals'[reserved'[i].key]
    BY <1>1 DEF PastHanded
  <2>1. CASE i = Len(reserved) + 1
    BY <1>3, <1>4, <1>6, <1>8, <1>9, <2>1
  <2>2. CASE i \in DOMAIN reserved
    <3>1. CASE reserved[i].key = o
      BY <1>0, <1>2, <1>3, <1>4, <1>6, <1>8, <1>10, <1>11, <2>2, <3>1
    <3>2. CASE reserved[i].key # o
      BY <1>0, <1>6, <1>8, <2>2, <3>2 DEF PastHanded
    <3> QED BY <3>1, <3>2
  <2> QED BY <1>8, <2>1, <2>2
<1>13. OrdinalsRise'
  <2>1. ASSUME NEW i \in DOMAIN reserved', NEW j \in DOMAIN reserved', i < j, reserved'[i].key = reserved'[j].key
        PROVE reserved'[i].n < reserved'[j].n
    <3>1. i \in DOMAIN reserved
      BY <1>8, <2>1
    <3>2. CASE j = Len(reserved) + 1
      BY <1>2, <1>3, <1>8, <1>9, <1>10, <1>11, <2>1, <3>1, <3>2
    <3>3. CASE j \in DOMAIN reserved
      BY <1>0, <1>8, <2>1, <3>1, <3>3 DEF OrdinalsRise
    <3> QED BY <1>8, <3>2, <3>3
  <2>2. ASSUME NEW i \in DOMAIN reserved' PROVE reserved'[i].n > reserved'[i].highest /\ reserved'[i].n <= MaxInt
    <3>1. CASE i = Len(reserved) + 1
      BY <1>1, <1>3, <1>8, <1>9, <3>1
    <3>2. CASE i \in DOMAIN reserved
      BY <1>0, <1>8, <3>2 DEF OrdinalsRise
    <3> QED BY <1>8, <3>1, <3>2
  <2> QED BY <2>1, <2>2 DEF OrdinalsRise
<1>14. IdsTyped' /\ InstancesNumbered'
  BY <1>0, <1>1 DEF IdsTyped, InstancesNumbered
<1> QED BY <1>7, <1>12, <1>13, <1>14 DEF OrdinalInv

\* No ordinal is handed out twice for one name, nor one a file on disk already
\* carries: ReserveOrdinal's answers under every interleaving of reports,
\* removals and cascades.
THEOREM OrdinalsKeepRising == RSpec => []OrdinalsRise
<1>1. RInit => OrdinalInv
  <2> SUFFICES ASSUME RInit PROVE OrdinalInv
    OBVIOUS
  <2>1. PICK K \in SUBSET Keys :
            /\ instances = [n \in 1 .. Cardinality(K) |-> TRUE]
            /\ ids = [inst |-> Cardinality(K), seq |-> 0]
    BY DEF RInit
  <2>2. IsFiniteSet(K) /\ Cardinality(K) \in Nat
    <3>1. IsFiniteSet(Keys)
      BY StoreAssumption, FS_Product DEF Keys
    <3> QED BY <3>1, FS_Subset, FS_CardinalityType
  <2>3. ordinals = EmptyTable /\ reserved = <<>>
    BY DEF RInit
  <2>4. DOMAIN ordinals = {} /\ ordinals = [o \in DOMAIN ordinals |-> ordinals[o]]
    BY <2>3 DEF EmptyTable
  <2>5. OrdinalsTyped /\ PastHanded /\ OrdinalsRise
    BY <2>3, <2>4 DEF OrdinalsTyped, PastHanded, OrdinalsRise
  <2>6. IdsTyped /\ InstancesNumbered
    BY <2>1, <2>2 DEF IdsTyped, InstancesNumbered
  <2> QED BY <2>5, <2>6 DEF OrdinalInv
<1>2. OrdinalInv /\ [RNext]_rvars => OrdinalInv'
  <2> SUFFICES ASSUME OrdinalInv, [RNext]_rvars PROVE OrdinalInv'
    OBVIOUS
  <2>0. IdsTyped /\ InstancesNumbered /\ OrdinalsTyped /\ PastHanded /\ OrdinalsRise
    BY DEF OrdinalInv
  <2>1. ASSUME UNCHANGED <<instances, ordinals, reserved>>, IdsTyped', ids'.inst = ids.inst PROVE OrdinalInv'
    BY <2>0, <2>1 DEF OrdinalInv, InstancesNumbered, OrdinalsTyped, PastHanded, OrdinalsRise
  <2>2. ASSUME UNCHANGED <<instances, ordinals, reserved, ids>> PROVE OrdinalInv'
    BY <2>0, <2>1, <2>2 DEF IdsTyped
  <2>3. ASSUME NEW ref \in Refs, NEW k \in Keys, NEW inst \in 0 .. ids.inst + 1, NEW e \in BOOLEAN,
               Observe(ref, k, inst, e)
        PROVE OrdinalInv'
    <3> DEFINE its == Put(items, k, [ref |-> ref, inst |-> inst])
               ins == IF inst = 0 THEN instances ELSE Put(instances, inst, TRUE)
    <3>1. /\ Cascade(its, ins) /\ UNCHANGED reserved
          /\ inst \in DOMAIN instances \union {0, ids.inst + 1}
          /\ ids' = IF inst > ids.inst THEN [ids EXCEPT !.inst = inst] ELSE ids
      BY <2>3 DEF Observe
    <3>2. /\ ids' = [inst |-> ids'.inst, seq |-> ids'.seq] /\ ids'.inst \in Nat
          /\ ids.inst <= ids'.inst /\ inst <= ids'.inst
      BY <2>0, <3>1 DEF IdsTyped
    <3>3. DOMAIN ins = IF inst = 0 THEN DOMAIN instances ELSE DOMAIN instances \union {inst}
      BY DEF Put
    <3>4. /\ DOMAIN ins \subseteq 1 .. ids'.inst
          /\ DOMAIN ins \intersect 1 .. ids.inst \subseteq DOMAIN instances
      <4>1. DOMAIN instances \subseteq 1 .. ids.inst /\ ids.inst \in Nat
        BY <2>0 DEF InstancesNumbered, IdsTyped
      <4>2. CASE inst = 0
        BY <3>2, <3>3, <4>1, <4>2
      <4>3. CASE inst # 0
        <5>1. inst \in DOMAIN instances \/ inst = ids.inst + 1
          BY <3>1, <4>3
        <5>2. inst \in 1 .. ids'.inst /\ (inst \in 1 .. ids.inst => inst \in DOMAIN instances)
          BY <3>2, <4>1, <4>3, <5>1
        <5>3. DOMAIN ins = DOMAIN instances \union {inst}
          BY <3>3, <4>3
        <5> HIDE DEF ins
        <5> QED BY <3>2, <4>1, <5>2, <5>3
      <4> QED BY <4>2, <4>3
    <3> HIDE DEF its, ins
    <3> QED BY <3>1, <3>2, <3>4, CascadeStep
  <2>4. ASSUME NEW k \in Keys, Forget(k) PROVE OrdinalInv'
    <3>1. Cascade(Drop(items, {k}), instances) /\ UNCHANGED <<ids, reserved>>
      BY <2>4 DEF Forget
    <3> QED BY <2>0, <3>1, CascadeStep DEF IdsTyped, InstancesNumbered
  <2>5. ASSUME NEW inst \in DOMAIN instances, Orphan(inst) PROVE OrdinalInv'
    <3> DEFINE ins == [instances EXCEPT ![inst] = FALSE]
    <3>1. Cascade(items, ins) /\ UNCHANGED <<ids, reserved>>
      BY <2>5 DEF Orphan
    <3>2. DOMAIN ins = DOMAIN instances
      OBVIOUS
    <3> HIDE DEF ins
    <3> QED BY <2>0, <3>1, <3>2, CascadeStep DEF IdsTyped, InstancesNumbered
  <2>6. ASSUME NEW ds \in SomeAttempts, RecordAttempts(ds) PROVE OrdinalInv'
    <3>1. IdsTyped' /\ ids'.inst = ids.inst /\ UNCHANGED <<instances, ordinals, reserved>>
      BY <2>0, <2>6 DEF RecordAttempts, IdsTyped
    <3> QED BY <2>1, <3>1
  <2>7. ASSUME NEW inst \in DOMAIN instances, NEW t \in Tags, NEW h \in Highest, ReserveOrdinal(<<inst, t>>, h)
        PROVE OrdinalInv'
    BY <2>7, ReserveStep
  <2>8. CASE \/ \E ref \in Refs : DropRoot(ref)
             \/ \E u \in ItemRefs : Sight(u)
             \/ \E batch \in SomeNoResults : PutNoResults(batch)
             \/ \E p \in Providers : PutCredentialDisable(p) \/ DeleteCredentialDisable(p)
             \/ EndWalk \/ UNCHANGED rvars
    <3>1. UNCHANGED <<instances, ordinals, reserved, ids>>
      BY <2>8 DEF DropRoot, Sight, PutNoResults, PutCredentialDisable, DeleteCredentialDisable, EndWalk, rvars
    <3> QED BY <2>2, <3>1
  <2>9. CASE \E limit \in Limits : \/ ReadRoots(limit) \/ ReadUnidentified(limit)
                                   \/ \E root \in RootKeys : ReadItems(root, limit)
                                   \/ \E l \in Histories : ReadHistory(l, limit)
    <3>1. PICK l, limit : ReadPage(l, limit)
      BY <2>9 DEF ReadRoots, ReadUnidentified, ReadItems, ReadHistory
    <3>2. UNCHANGED <<instances, ordinals, reserved, ids>>
      BY <3>1 DEF ReadPage
    <3> QED BY <2>2, <3>2
  <2> QED
    BY <2>3, <2>4, <2>5, <2>6, <2>7, <2>8, <2>9 DEF RNext
<1>3. OrdinalInv => OrdinalsRise
  BY DEF OrdinalInv
<1> QED
  BY <1>1, <1>2, <1>3, PTL DEF RSpec

(***************************************************************************)
(* StoreReads: pages.                                                      *)
(***************************************************************************)
\* The places of a list, stored or not.
Places(l) ==
    CASE l.list = "roots" -> {<<r>> : r \in RootKeys}
      [] l.list = "items" -> Keys
      [] l.list = "unidentified" -> ItemRefs
      [] OTHER -> {<<n>> : n \in Nat}

Ordered(l, P) ==
    /\ \A a \in P : ~Precedes(l, a, a)
    /\ \A a, b, c \in P : Precedes(l, a, b) /\ Precedes(l, b, c) => Precedes(l, a, c)
    /\ \A a, b \in P : a = b \/ Precedes(l, a, b) \/ Precedes(l, b, a)

LEMMA RankIsInjective ==
    /\ RefRank \in [ItemRefs -> 1 .. Cardinality(ItemRefs)]
    /\ \A u, v \in ItemRefs : RefRank[u] = RefRank[v] => u = v
<1>. DEFINE N == Cardinality(ItemRefs)
<1>1. IsFiniteSet(ItemRefs)
  BY StoreAssumption, FS_Product DEF ItemRefs
<1>2. N \in Nat /\ IsFiniteSet(1 .. N) /\ Cardinality(1 .. N) = N
  <2>1. N \in Nat
    BY <1>1, FS_CardinalityType
  <2>. HIDE DEF N
  <2>2. IsFiniteSet(1 .. N) /\ Cardinality(1 .. N) = IF 1 > N THEN 0 ELSE N - 1 + 1
    BY <2>1, FS_Interval
  <2>. QED BY <2>1, <2>2
<1>3. ExistsBijection(ItemRefs, 1 .. N)
  <2>1. Cardinality(ItemRefs) = Cardinality(1 .. N)
    BY <1>2
  <2>2. IsFiniteSet(1 .. N)
    BY <1>2
  <2>. HIDE DEF N
  <2>. QED BY ONLY <1>1, <2>1, <2>2, FS_SameCardinalityBij
<1>4. PICK f \in [ItemRefs -> 1 .. N] : \A u, v \in ItemRefs : f[u] = f[v] => u = v
  BY <1>3 DEF ExistsBijection, Bijection, Injection, IsInjective
<1>5. IsInjective(f)
  BY <1>4 DEF IsInjective
<1>6. \E g \in [ItemRefs -> 1 .. N] : IsInjective(g)
  BY <1>4, <1>5
<1>7. RefRank \in [ItemRefs -> 1 .. N] /\ IsInjective(RefRank)
  BY <1>6 DEF RefRank
<1>. QED BY <1>7 DEF IsInjective

\* Each list orders its places.
LEMMA PlacesOrdered ==
    ASSUME NEW l
    PROVE  Ordered(l, Places(l))
<1>1. CASE l.list = "roots"
  <2>1. Places(l) = {<<r>> : r \in RootKeys} /\ \A a, b : Precedes(l, a, b) <=> a[1] < b[1]
    BY <1>1 DEF Places, Precedes
  <2>2. \A a \in Places(l) : a[1] \in Nat /\ a = <<a[1]>>
    BY <2>1, StoreAssumption
  <2>. QED BY <2>1, <2>2 DEF Ordered
<1>2. CASE l.list = "items"
  <2>1. Places(l) = Keys /\ \A a, b : Precedes(l, a, b) <=> KeyLess(a, b)
    BY <1>2 DEF Places, Precedes
  <2>2. \A a \in Places(l) : a[1] \in Nat /\ a[2] \in Nat /\ a = <<a[1], a[2]>>
    BY <2>1, StoreAssumption DEF Keys
  <2>. QED BY <2>1, <2>2 DEF Ordered, KeyLess
<1>3. CASE l.list = "unidentified"
  <2>1. Places(l) = ItemRefs /\ \A a, b : Precedes(l, a, b) <=> RefRank[a] < RefRank[b]
    BY <1>3 DEF Places, Precedes
  <2>2. \A u \in ItemRefs : RefRank[u] \in Int
    BY RankIsInjective
  <2>. QED BY <2>1, <2>2, RankIsInjective DEF Ordered
<1>4. CASE l.list \notin {"roots", "items", "unidentified"}
  <2>1. Places(l) = {<<n>> : n \in Nat} /\ \A a, b : Precedes(l, a, b) <=> a[1] > b[1]
    BY <1>4 DEF Places, Precedes
  <2>2. \A a \in Places(l) : a[1] \in Nat /\ a = <<a[1]>>
    BY <2>1
  <2>. QED BY <2>1, <2>2 DEF Ordered
<1>. QED BY <1>1, <1>2, <1>3, <1>4

\* The rows of a finite set are numbered in their order, each once.
LEMMA RowsNumbered ==
    ASSUME NEW l, NEW A, A \subseteq Places(l), IsFiniteSet(A)
    PROVE  /\ Cardinality(A) \in Nat
           /\ \A r \in A : Cardinality(Earlier(l, A, r)) \in Nat /\ Cardinality(Earlier(l, A, r)) < Cardinality(A)
           /\ \A a, b \in A : Precedes(l, a, b) => Cardinality(Earlier(l, A, a)) < Cardinality(Earlier(l, A, b))
           /\ \A n \in 1 .. Cardinality(A) :
                 NthOf(l, A, n) \in A /\ Cardinality(Earlier(l, A, NthOf(l, A, n))) = n - 1
<1>. DEFINE N == Cardinality(A)
            rank(r) == Cardinality(Earlier(l, A, r))
<1>1. /\ \A a \in A : ~Precedes(l, a, a)
      /\ \A a, b, c \in A : Precedes(l, a, b) /\ Precedes(l, b, c) => Precedes(l, a, c)
      /\ \A a, b \in A : a = b \/ Precedes(l, a, b) \/ Precedes(l, b, a)
  BY PlacesOrdered DEF Ordered
<1>2. N \in Nat
  BY FS_CardinalityType
<1>3. ASSUME NEW r \in A PROVE rank(r) \in Nat /\ rank(r) < N /\ IsFiniteSet(Earlier(l, A, r))
  <2>1. Earlier(l, A, r) \in SUBSET A /\ r \notin Earlier(l, A, r)
    BY <1>1 DEF Earlier
  <2>2. IsFiniteSet(Earlier(l, A, r)) /\ rank(r) <= N /\ (N = rank(r) => A = Earlier(l, A, r))
    BY <2>1, FS_Subset
  <2>3. rank(r) \in Nat
    BY <2>2, FS_CardinalityType
  <2>4. rank(r) # N
    BY <2>1, <2>2
  <2>. HIDE DEF N, rank
  <2>. QED BY <1>2, <2>2, <2>3, <2>4
<1>4. ASSUME NEW a \in A, NEW b \in A, Precedes(l, a, b) PROVE rank(a) < rank(b)
  <2>1. Earlier(l, A, a) \in SUBSET Earlier(l, A, b) /\ a \in Earlier(l, A, b) /\ a \notin Earlier(l, A, a)
    BY <1>1, <1>4 DEF Earlier
  <2>2. IsFiniteSet(Earlier(l, A, b))
    BY <1>3
  <2>3. rank(a) <= rank(b) /\ (rank(b) = rank(a) => Earlier(l, A, b) = Earlier(l, A, a))
    BY <2>1, <2>2, FS_Subset
  <2>4. rank(a) # rank(b)
    BY <2>1, <2>3
  <2>5. rank(a) \in Nat /\ rank(b) \in Nat
    BY <1>3
  <2>. HIDE DEF rank
  <2>. QED BY <2>3, <2>4, <2>5
<1>5. ASSUME NEW n \in 1 .. N PROVE NthOf(l, A, n) \in A /\ rank(NthOf(l, A, n)) = n - 1
  <2>. HIDE DEF N, rank
  <2>f. PICK f : f = [r \in A |-> rank(r) + 1]
    OBVIOUS
  <2>1. f \in [A -> 1 .. N]
    BY <1>2, <1>3, <2>f
  <2>2. \A a, b \in A : f[a] = f[b] => a = b
    BY <1>1, <1>3, <1>4, <2>f
  <2>3. f \in Injection(A, 1 .. N)
    BY <2>1, <2>2 DEF Injection, IsInjective
  <2>4. IsFiniteSet(1 .. N) /\ Cardinality(1 .. N) = N
    <3>1. IsFiniteSet(1 .. N) /\ Cardinality(1 .. N) = IF 1 > N THEN 0 ELSE N - 1 + 1
      BY <1>2, FS_Interval
    <3>. QED BY <1>2, <3>1
  <2>5. f \in Surjection(A, 1 .. N)
    <3>1. Cardinality(A) = Cardinality(1 .. N) => f \in Surjection(A, 1 .. N)
      BY <2>3, <2>4, FS_Injection
    <3>. QED BY <2>4, <3>1 DEF N
  <2>6. PICK r \in A : f[r] = n
    BY <2>5 DEF Surjection
  <2>7. rank(r) = n - 1
    BY <1>3, <2>f, <2>6
  <2>8. \E q \in A : Cardinality(Earlier(l, A, q)) = n - 1
    BY <2>7 DEF rank
  <2>. QED BY <2>8 DEF NthOf, rank
<1>. QED BY <1>2, <1>3, <1>4, <1>5

\* A page is the first rows of those ahead, in their order; all others come
\* after its last row, which the cursor names.
LEMMA PageIsFirst ==
    ASSUME NEW l, NEW last, NEW limit \in Nat \ {0}, NEW A, A = Ahead(l, Rows(l), last),
           A \subseteq Places(l), IsFiniteSet(A), NEW page, page = Page(l, last, limit)
    PROVE  /\ page.rows \in Seq(A)
           /\ \A i, j \in DOMAIN page.rows : i < j => Precedes(l, page.rows[i], page.rows[j])
           /\ \/ page.next = [none |-> TRUE] /\ \A r \in A : \E i \in DOMAIN page.rows : page.rows[i] = r
              \/ \E q \in A :
                    /\ page.next = [none |-> FALSE, of |-> l, last |-> At(q)]
                    /\ \A i \in DOMAIN page.rows : page.rows[i] = q \/ Precedes(l, page.rows[i], q)
                    /\ \A r \in A : Precedes(l, q, r) \/ \E i \in DOMAIN page.rows : page.rows[i] = r
<1>1. PICK N : N = Cardinality(A)
  OBVIOUS
<1>2. PICK n : n = IF limit < N THEN limit ELSE N
  OBVIOUS
<1>3. PICK ps : ps = [i \in 1 .. n |-> NthOf(l, A, i)]
  OBVIOUS
<1>4. page = [rows |-> ps,
              next |-> IF N > limit THEN [none |-> FALSE, of |-> l, last |-> At(ps[n])] ELSE [none |-> TRUE]]
  BY <1>1, <1>2, <1>3 DEF Page
<1>5. /\ N \in Nat
      /\ \A r \in A : Cardinality(Earlier(l, A, r)) \in Nat /\ Cardinality(Earlier(l, A, r)) < N
      /\ \A a, b \in A : Precedes(l, a, b) => Cardinality(Earlier(l, A, a)) < Cardinality(Earlier(l, A, b))
      /\ \A i \in 1 .. N : NthOf(l, A, i) \in A /\ Cardinality(Earlier(l, A, NthOf(l, A, i))) = i - 1
  BY <1>1, RowsNumbered
<1>6. \A a, b \in A : a = b \/ Precedes(l, a, b) \/ Precedes(l, b, a)
  BY PlacesOrdered DEF Ordered
<1>7. n \in Nat /\ n <= N /\ (N > limit => n \in 1 .. N)
  BY <1>2, <1>5
<1>8. /\ ps = [i \in 1 .. n |-> ps[i]]
      /\ \A i \in 1 .. n : ps[i] \in A /\ Cardinality(Earlier(l, A, ps[i])) = i - 1
  BY <1>3, <1>5, <1>7
<1>9. ps \in Seq(A) /\ DOMAIN ps = 1 .. n
  <2>1. ps \in [1 .. n -> A]
    BY <1>8
  <2>. QED BY <1>7, <2>1
<1>10. ASSUME NEW i \in 1 .. n, NEW r \in A, Cardinality(Earlier(l, A, r)) = i - 1 PROVE ps[i] = r
  BY <1>5, <1>6, <1>8, <1>10
<1>11. ASSUME NEW i \in 1 .. n, NEW r \in A, Cardinality(Earlier(l, A, r)) > i - 1 PROVE Precedes(l, ps[i], r)
  <2>1. ps[i] \in A /\ Cardinality(Earlier(l, A, ps[i])) = i - 1
    BY <1>8
  <2>2. Cardinality(Earlier(l, A, r)) \in Nat
    BY <1>5
  <2>3. ps[i] # r
    BY <1>11, <2>1, <2>2
  <2>4. ~Precedes(l, r, ps[i])
    <3>. SUFFICES ASSUME Precedes(l, r, ps[i]) PROVE FALSE
      OBVIOUS
    <3>1. Cardinality(Earlier(l, A, r)) < Cardinality(Earlier(l, A, ps[i]))
      BY <1>5, <2>1
    <3>. QED BY <1>7, <1>11, <2>1, <2>2, <3>1
  <2>. QED BY <1>6, <2>1, <2>3, <2>4
<1>12. \A i, j \in 1 .. n : i < j => Precedes(l, ps[i], ps[j])
  <2>. SUFFICES ASSUME NEW i \in 1 .. n, NEW j \in 1 .. n, i < j PROVE Precedes(l, ps[i], ps[j])
    OBVIOUS
  <2>1. ps[j] \in A /\ Cardinality(Earlier(l, A, ps[j])) > i - 1
    BY <1>7, <1>8
  <2>. QED BY <1>11, <2>1
<1>13. CASE N > limit
  <2>1. n = limit /\ n \in 1 .. n /\ ps[n] \in A
    BY <1>2, <1>5, <1>7, <1>8, <1>13
  <2>2. page.next = [none |-> FALSE, of |-> l, last |-> At(ps[n])]
    BY <1>4, <1>13
  <2>3. \A i \in 1 .. n : ps[i] = ps[n] \/ Precedes(l, ps[i], ps[n])
    BY <1>7, <1>12, <2>1
  <2>4. ASSUME NEW r \in A PROVE Precedes(l, ps[n], r) \/ \E i \in 1 .. n : ps[i] = r
    <3>1. Cardinality(Earlier(l, A, r)) \in Nat
      BY <1>5
    <3>2. CASE Cardinality(Earlier(l, A, r)) > n - 1
      BY <1>11, <2>1, <3>2
    <3>3. CASE Cardinality(Earlier(l, A, r)) <= n - 1
      <4>1. PICK i \in 1 .. n : Cardinality(Earlier(l, A, r)) = i - 1
        <5>1. Cardinality(Earlier(l, A, r)) + 1 \in 1 .. n
          BY <1>7, <3>1, <3>3
        <5>. QED BY <3>1, <5>1
      <4>. QED BY <1>10, <4>1
    <3>. QED BY <1>7, <3>1, <3>2, <3>3
  <2>5. page.rows = ps
    BY <1>4
  <2>. QED BY <1>9, <1>12, <2>1, <2>2, <2>3, <2>4, <2>5
<1>14. CASE ~(N > limit)
  <2>1. n = N /\ page.next = [none |-> TRUE] /\ page.rows = ps
    BY <1>2, <1>4, <1>5, <1>14
  <2>2. ASSUME NEW r \in A PROVE \E i \in 1 .. n : ps[i] = r
    <3>1. Cardinality(Earlier(l, A, r)) \in Nat /\ Cardinality(Earlier(l, A, r)) < n
      BY <1>5, <2>1
    <3>2. PICK i \in 1 .. n : Cardinality(Earlier(l, A, r)) = i - 1
      <4>1. Cardinality(Earlier(l, A, r)) + 1 \in 1 .. n
        BY <1>7, <3>1
      <4>. QED BY <3>1, <4>1
    <3>. QED BY <1>10, <3>2
  <2>. QED BY <1>9, <1>12, <2>1, <2>2
<1>. QED BY <1>13, <1>14

\* The tables the lists are read from.
ListsTyped ==
    /\ DOMAIN items \subseteq Keys
    /\ unidentified \subseteq ItemRefs
    /\ ids = [inst |-> ids.inst, seq |-> ids.seq] /\ ids.seq \in Nat
    /\ DOMAIN downloads \subseteq 1 .. ids.seq

\* What was served is in order; every row listed since the walk began is
\* served, or still to come after the row the cursor names.
WalkGood ==
    /\ walk = [on |-> TRUE, of |-> walk.of, next |-> walk.next, served |-> walk.served, through |-> walk.through]
    /\ walk.served \in Seq(Places(walk.of))
    /\ \A i, j \in DOMAIN walk.served : i < j => Precedes(walk.of, walk.served[i], walk.served[j])
    /\ walk.through \subseteq Rows(walk.of)
    /\ \/ /\ walk.next = [none |-> TRUE]
          /\ \A r \in walk.through : \E i \in DOMAIN walk.served : walk.served[i] = r
       \/ \E q \in Places(walk.of) :
             /\ walk.next = [none |-> FALSE, of |-> walk.of, last |-> At(q)]
             /\ \A i \in DOMAIN walk.served : walk.served[i] = q \/ Precedes(walk.of, walk.served[i], q)
             /\ \A r \in walk.through :
                   Precedes(walk.of, q, r) \/ \E i \in DOMAIN walk.served : walk.served[i] = r

PageInv == ListsTyped /\ (walk = NoWalk \/ WalkGood)

\* Every list is finite and in its places.
LEMMA RowsPlaced ==
    ASSUME ListsTyped, NEW l
    PROVE  Rows(l) \subseteq Places(l) /\ IsFiniteSet(Rows(l))
<1>1. IsFiniteSet(Keys) /\ IsFiniteSet(ItemRefs)
  BY StoreAssumption, FS_Product DEF Keys, ItemRefs
<1>2. Listed(items, instances) \subseteq Keys
  BY DEF ListsTyped, Listed
<1>3. CASE l.list = "roots"
  <2>1. Rows(l) = ListedRoots(items, instances) /\ Places(l) = {<<r>> : r \in RootKeys}
    BY <1>3 DEF Rows, RowsOf, Places
  <2>2. \A t \in Rows(l) : t[1] \in RootKeys /\ t = <<t[1]>>
    BY <1>2, <2>1 DEF ListedRoots, Keys
  <2>3. PICK f : f = [t \in Rows(l) |-> t[1]]
    OBVIOUS
  <2>4. f \in [Rows(l) -> RootKeys] /\ \A t, u \in Rows(l) : f[t] = f[u] => t = u
    BY <2>2, <2>3
  <2>5. f \in Injection(Rows(l), RootKeys)
    BY <2>4 DEF Injection, IsInjective
  <2>6. IsFiniteSet(Rows(l))
    BY <2>5, FS_Injection, StoreAssumption
  <2>. QED BY <2>1, <2>2, <2>6
<1>4. CASE l.list = "items"
  <2>1. Rows(l) \in SUBSET Keys /\ Places(l) = Keys
    BY <1>2, <1>4 DEF Rows, RowsOf, Places
  <2>. QED BY <1>1, <2>1, FS_Subset
<1>5. CASE l.list = "unidentified"
  <2>1. Rows(l) \in SUBSET ItemRefs /\ Places(l) = ItemRefs
    BY <1>5 DEF Rows, RowsOf, Places, ListsTyped
  <2>. QED BY <1>1, <2>1, FS_Subset
<1>6. CASE l.list \notin {"roots", "items", "unidentified"}
  <2>1. Rows(l) = InHistory(downloads, l) /\ Places(l) = {<<n>> : n \in Nat}
    BY <1>6 DEF Rows, RowsOf, Places
  <2>2. \A t \in Rows(l) : t[1] \in 1 .. ids.seq /\ t = <<t[1]>>
    BY <2>1 DEF InHistory, ListsTyped
  <2>3. PICK f : f = [t \in Rows(l) |-> t[1]]
    OBVIOUS
  <2>4. f \in [Rows(l) -> 1 .. ids.seq] /\ \A t, u \in Rows(l) : f[t] = f[u] => t = u
    BY <2>2, <2>3
  <2>5. f \in Injection(Rows(l), 1 .. ids.seq)
    BY <2>4 DEF Injection, IsInjective
  <2>6. ids.seq \in Nat
    BY DEF ListsTyped
  <2>7. IsFiniteSet(1 .. ids.seq)
    BY <2>6, FS_Interval
  <2>8. IsFiniteSet(Rows(l))
    BY <2>5, <2>7, FS_Injection
  <2>. QED BY <2>1, <2>2, <2>6, <2>8
<1>. QED BY <1>3, <1>4, <1>5, <1>6

\* A commit keeps of a walk the rows it leaves listed.
LEMMA KeptStep ==
    ASSUME PageInv, ListsTyped', Kept(items', instances', unidentified', downloads')
    PROVE  PageInv'
<1>1. CASE walk = NoWalk
  BY <1>1 DEF Kept, NoWalk, PageInv
<1>2. CASE WalkGood
  <2>1. walk.on /\ walk' = [walk EXCEPT !.through = @ \intersect Rows(walk.of)']
    BY <1>2 DEF Kept, WalkGood, Rows
  <2>2. /\ walk' = [on |-> TRUE, of |-> walk.of, next |-> walk.next, served |-> walk.served,
                    through |-> walk.through \intersect Rows(walk.of)']
    BY <1>2, <2>1 DEF WalkGood
  <2>3. /\ walk'.of = walk.of /\ walk'.next = walk.next /\ walk'.served = walk.served
        /\ walk'.through \subseteq walk.through
    BY <2>2
  <2>4. walk'.through \subseteq Rows(walk.of)'
    BY <2>2
  <2>. QED BY <1>2, <2>2, <2>3, <2>4 DEF WalkGood, PageInv
<1>. QED BY <1>1, <1>2 DEF PageInv

\* A commit to no list leaves the walk.
LEMMA UnlistedStep ==
    ASSUME PageInv, UNCHANGED <<items, instances, unidentified, downloads, walk>>,
           ids' = ids \/ ids' = [ids EXCEPT !.inst = ids'.inst]
    PROVE  PageInv'
<1>1. ListsTyped'
  <2>1. ids'.seq = ids.seq /\ ids' = [inst |-> ids'.inst, seq |-> ids'.seq]
    BY DEF PageInv, ListsTyped
  <2>. QED BY <2>1 DEF PageInv, ListsTyped
<1>2. WalkGood => WalkGood'
  BY DEF WalkGood, Rows
<1>. QED BY <1>1, <1>2 DEF PageInv

\* A page read on from the last row goes on in the list's order, and what it
\* has not served comes after its own last row.
LEMMA ReadStep ==
    ASSUME PageInv, NEW l, NEW limit, ReadPage(l, limit)
    PROVE  PageInv'
<1>. DEFINE begun == walk.on /\ ~walk.next.none
            last == Position(l, IF begun THEN walk.next ELSE [none |-> TRUE])
            A == Ahead(l, Rows(l), last)
            page == Page(l, last, limit)
<1>1. /\ limit \in Nat \ {0} /\ last # Refused /\ (~walk.on \/ begun)
      /\ walk' = [on |-> TRUE, of |-> l, next |-> page.next,
                  served |-> IF begun THEN walk.served \o page.rows ELSE page.rows,
                  through |-> IF begun THEN walk.through ELSE Rows(l)]
      /\ UNCHANGED <<items, instances, unidentified, downloads, ids>>
  BY StoreAssumption DEF ReadPage, LimitOK
<1>2. ListsTyped /\ ListsTyped' /\ Rows(l)' = Rows(l)
  BY <1>1 DEF PageInv, ListsTyped, Rows
<1>3. A \subseteq Rows(l) /\ Rows(l) \subseteq Places(l) /\ IsFiniteSet(Rows(l))
  <2>1. Rows(l) \subseteq Places(l) /\ IsFiniteSet(Rows(l))
    BY <1>2, RowsPlaced
  <2>. QED BY <2>1 DEF Ahead
<1>4. A \subseteq Places(l) /\ IsFiniteSet(A)
  <2>. HIDE DEF A
  <2>. QED BY <1>3, FS_Subset
<1>5. /\ page.rows \in Seq(A)
      /\ \A i, j \in DOMAIN page.rows : i < j => Precedes(l, page.rows[i], page.rows[j])
      /\ \/ page.next = [none |-> TRUE] /\ \A r \in A : \E i \in DOMAIN page.rows : page.rows[i] = r
         \/ \E q \in A :
               /\ page.next = [none |-> FALSE, of |-> l, last |-> At(q)]
               /\ \A i \in DOMAIN page.rows : page.rows[i] = q \/ Precedes(l, page.rows[i], q)
               /\ \A r \in A : Precedes(l, q, r) \/ \E i \in DOMAIN page.rows : page.rows[i] = r
  <2>. HIDE DEF last
  <2>. QED BY <1>1, <1>4, PageIsFirst
<1>6. CASE ~begun
  <2>1. last = [none |-> TRUE]
    BY <1>6 DEF Position, NoPlace
  <2>2. A = Rows(l)
    BY <2>1 DEF Ahead
  <2>3. /\ walk'.of = l /\ walk'.next = page.next /\ walk'.served = page.rows /\ walk'.through = A
        /\ walk' = [on |-> TRUE, of |-> walk'.of, next |-> walk'.next, served |-> walk'.served,
                    through |-> walk'.through]
    <3>. HIDE DEF A, page, begun
    <3>. QED BY <1>1, <1>6, <2>2
  <2>4. WalkGood'
    <3>. HIDE DEF A, page, begun, last
    <3>1. /\ walk'.served \in Seq(Places(walk'.of))
          /\ \A i, j \in DOMAIN walk'.served : i < j => Precedes(walk'.of, walk'.served[i], walk'.served[j])
      BY <1>4, <1>5, <2>3
    <3>2. walk'.through \subseteq Rows(walk.of)'
      BY <1>1, <2>2, <2>3 DEF Rows
    <3>3. \/ /\ walk'.next = [none |-> TRUE]
             /\ \A r \in walk'.through : \E i \in DOMAIN walk'.served : walk'.served[i] = r
          \/ \E q \in Places(walk'.of) :
                /\ walk'.next = [none |-> FALSE, of |-> walk'.of, last |-> At(q)]
                /\ \A i \in DOMAIN walk'.served : walk'.served[i] = q \/ Precedes(walk'.of, walk'.served[i], q)
                /\ \A r \in walk'.through : Precedes(walk'.of, q, r) \/ \E i \in DOMAIN walk'.served : walk'.served[i] = r
      BY <1>4, <1>5, <2>3
    <3>4. CASE /\ walk'.next = [none |-> TRUE]
               /\ \A r \in walk'.through : \E i \in DOMAIN walk'.served : walk'.served[i] = r
      BY ONLY <2>3, <3>1, <3>2, <3>4 DEF WalkGood, Places, Precedes
    <3>5. ASSUME NEW q \in Places(walk'.of),
                 /\ walk'.next = [none |-> FALSE, of |-> walk'.of, last |-> At(q)]
                 /\ \A i \in DOMAIN walk'.served : walk'.served[i] = q \/ Precedes(walk'.of, walk'.served[i], q)
                 /\ \A r \in walk'.through : Precedes(walk'.of, q, r) \/ \E i \in DOMAIN walk'.served : walk'.served[i] = r
          PROVE  WalkGood'
      BY ONLY <2>3, <3>1, <3>2, <3>5 DEF WalkGood, Places, Precedes
    <3>. QED BY <3>3, <3>4, <3>5
  <2>. QED BY <1>2, <2>4 DEF PageInv
<1>7. CASE begun
  <2>1. WalkGood /\ walk.next # [none |-> TRUE]
    BY <1>7 DEF PageInv, NoWalk
  <2>2. PICK p \in Places(walk.of) :
            /\ walk.next = [none |-> FALSE, of |-> walk.of, last |-> At(p)]
            /\ \A i \in DOMAIN walk.served : walk.served[i] = p \/ Precedes(walk.of, walk.served[i], p)
            /\ \A r \in walk.through : Precedes(walk.of, p, r) \/ \E i \in DOMAIN walk.served : walk.served[i] = r
    BY <2>1 DEF WalkGood
  <2>3. walk.of = l /\ last = At(p)
    BY <1>1, <1>7, <2>2 DEF Position
  <2>4. A = {r \in Rows(l) : Precedes(l, p, r)}
    BY <2>3 DEF Ahead, At
  <2>5. /\ walk'.of = l /\ walk'.next = page.next /\ walk'.served = walk.served \o page.rows
        /\ walk'.through = walk.through
        /\ walk' = [on |-> TRUE, of |-> walk'.of, next |-> walk'.next, served |-> walk'.served,
                    through |-> walk'.through]
    <3>. HIDE DEF A, page, begun
    <3>. QED BY <1>1, <1>7
  <2>. HIDE DEF A, page, begun, last
  <2>6. PICK s, t, u : s = walk.served /\ t = page.rows /\ u = walk'.served
    OBVIOUS
  <2>7. /\ s \in Seq(Places(l)) /\ t \in Seq(Places(l)) /\ u = s \o t
        /\ walk.through \subseteq Rows(l)
    BY <1>4, <1>5, <2>1, <2>3, <2>5, <2>6 DEF WalkGood
  <2>8. /\ u \in Seq(Places(l)) /\ Len(s) \in Nat /\ Len(t) \in Nat
        /\ DOMAIN s = 1 .. Len(s) /\ DOMAIN t = 1 .. Len(t) /\ DOMAIN u = 1 .. Len(s) + Len(t)
        /\ \A i \in 1 .. Len(s) : u[i] = s[i]
        /\ \A i \in 1 .. Len(t) : u[i + Len(s)] = t[i]
    BY <2>7
  <2>9. \A i \in DOMAIN u : (i \in DOMAIN s /\ u[i] = s[i]) \/ (i - Len(s) \in DOMAIN t /\ i > Len(s) /\ u[i] = t[i - Len(s)])
    BY <2>8
  <2>10. /\ \A i \in DOMAIN s : s[i] \in Places(l) /\ (s[i] = p \/ Precedes(l, s[i], p))
         /\ \A i \in DOMAIN t : t[i] \in Places(l) /\ t[i] \in A /\ Precedes(l, p, t[i])
         /\ p \in Places(l)
    BY <1>5, <2>2, <2>3, <2>4, <2>6, <2>7
  <2>11. \A a, b, c \in Places(l) : Precedes(l, a, b) /\ Precedes(l, b, c) => Precedes(l, a, c)
    BY PlacesOrdered DEF Ordered
  <2>12. ASSUME NEW i \in DOMAIN s, NEW a \in Places(l), Precedes(l, p, a) PROVE Precedes(l, s[i], a)
    BY <2>10, <2>11, <2>12
  <2>13. /\ \A i, j \in DOMAIN s : i < j => Precedes(l, s[i], s[j])
         /\ \A i, j \in DOMAIN t : i < j => Precedes(l, t[i], t[j])
    BY <1>5, <2>1, <2>3, <2>6 DEF WalkGood
  <2>14. ASSUME NEW i \in DOMAIN u, NEW j \in DOMAIN u, i < j PROVE Precedes(l, u[i], u[j])
    <3>1. CASE j \in DOMAIN s /\ u[j] = s[j]
      BY <2>8, <2>9, <2>13, <2>14, <3>1
    <3>2. CASE j - Len(s) \in DOMAIN t /\ j > Len(s) /\ u[j] = t[j - Len(s)]
      <4>1. CASE i \in DOMAIN s /\ u[i] = s[i]
        BY <2>10, <2>12, <3>2, <4>1
      <4>2. CASE i - Len(s) \in DOMAIN t /\ i > Len(s) /\ u[i] = t[i - Len(s)]
        <5>1. i - Len(s) < j - Len(s)
          BY <2>8, <2>14
        <5>. QED BY <2>13, <3>2, <4>2, <5>1
      <4>. QED BY <2>9, <4>1, <4>2
    <3>. QED BY <2>9, <3>1, <3>2
  <2>15. ASSUME NEW r, (\E i \in DOMAIN s : s[i] = r) \/ (\E i \in DOMAIN t : t[i] = r)
         PROVE  \E i \in DOMAIN u : u[i] = r
    <3>1. CASE \E i \in DOMAIN s : s[i] = r
      BY <2>8, <3>1
    <3>2. CASE \E i \in DOMAIN t : t[i] = r
      <4>1. PICK i \in DOMAIN t : t[i] = r
        BY <3>2
      <4>2. i + Len(s) \in DOMAIN u /\ u[i + Len(s)] = r
        BY <2>8, <4>1
      <4>. QED BY <4>2
    <3>. QED BY <2>15, <3>1, <3>2
  <2>16. \A r \in walk.through : r \in A \/ \E i \in DOMAIN s : s[i] = r
    BY <2>2, <2>3, <2>4, <2>6, <2>7
  <2>17. /\ walk' = [on |-> TRUE, of |-> walk'.of, next |-> walk'.next, served |-> walk'.served,
                     through |-> walk'.through]
         /\ walk'.served \in Seq(Places(walk'.of))
         /\ \A i, j \in DOMAIN walk'.served : i < j => Precedes(walk'.of, walk'.served[i], walk'.served[j])
         /\ walk'.through \subseteq Rows(walk.of)'
    <3>1. walk'.served \in Seq(Places(l))
      BY <2>6, <2>8
    <3>2. \A i, j \in DOMAIN walk'.served : i < j => Precedes(l, walk'.served[i], walk'.served[j])
      BY <2>6, <2>14
    <3>3. walk'.through \subseteq Rows(walk.of)'
      BY <1>1, <2>5, <2>7 DEF Rows
    <3>. QED BY <2>5, <3>1, <3>2, <3>3
  <2>18. CASE page.next = [none |-> TRUE] /\ \A r \in A : \E i \in DOMAIN t : t[i] = r
    <3>1. \A r \in walk.through : \E i \in DOMAIN u : u[i] = r
      BY <2>15, <2>16, <2>18
    <3>2. WalkGood'
      <4>1. walk'.next = [none |-> TRUE] /\ \A r \in walk'.through : \E i \in DOMAIN walk'.served : walk'.served[i] = r
        BY <2>5, <2>6, <2>18, <3>1
      <4>. QED BY ONLY <2>17, <4>1 DEF WalkGood, Places, Precedes
    <3>. QED BY <1>2, <3>2 DEF PageInv
  <2>19. ASSUME NEW q \in A, page.next = [none |-> FALSE, of |-> l, last |-> At(q)],
                \A i \in DOMAIN t : t[i] = q \/ Precedes(l, t[i], q),
                \A r \in A : Precedes(l, q, r) \/ \E i \in DOMAIN t : t[i] = r
         PROVE  PageInv'
    <3>1. q \in Places(l) /\ Precedes(l, p, q)
      BY <1>4, <2>4
    <3>2. \A i \in DOMAIN u : u[i] = q \/ Precedes(l, u[i], q)
      BY <2>9, <2>12, <2>19, <3>1
    <3>3. \A r \in walk.through : Precedes(l, q, r) \/ \E i \in DOMAIN u : u[i] = r
      BY <2>15, <2>16, <2>19
    <3>4. WalkGood'
      <4>1. /\ walk'.next = [none |-> FALSE, of |-> walk'.of, last |-> At(q)] /\ q \in Places(walk'.of)
            /\ \A i \in DOMAIN walk'.served : walk'.served[i] = q \/ Precedes(walk'.of, walk'.served[i], q)
            /\ \A r \in walk'.through : Precedes(walk'.of, q, r) \/ \E i \in DOMAIN walk'.served : walk'.served[i] = r
        BY <2>5, <2>6, <2>19, <3>1, <3>2, <3>3
      <4>. QED BY ONLY <2>17, <4>1 DEF WalkGood, Places, Precedes
    <3>. QED BY <1>2, <3>4 DEF PageInv
  <2>. QED BY <1>5, <2>6, <2>18, <2>19
<1>. QED BY <1>6, <1>7

\* A walk serves its list in order, none twice, and every row listed all
\* through it, however the store changes between two pages.
THEOREM PagesStayComplete == RSpec => []PagesComplete
<1>1. RInit => PageInv
  <2>. SUFFICES ASSUME RInit PROVE PageInv
    OBVIOUS
  <2>1. PICK K \in SUBSET Keys : DOMAIN items = K /\ ids = [inst |-> Cardinality(K), seq |-> 0]
    BY DEF RInit
  <2>2. unidentified = {} /\ DOMAIN downloads = {} /\ walk = NoWalk
    BY DEF RInit, EmptyTable
  <2>. QED BY <2>1, <2>2 DEF PageInv, ListsTyped
<1>2. PageInv /\ [RNext]_rvars => PageInv'
  <2>. SUFFICES ASSUME PageInv, [RNext]_rvars PROVE PageInv'
    OBVIOUS
  <2>1. ListsTyped
    BY DEF PageInv
  <2>2. ASSUME NEW ref \in Refs, NEW k \in Keys, NEW inst, NEW e, Observe(ref, k, inst, e)
        PROVE  PageInv'
    <3>1. /\ Kept(items', instances', unidentified', downloads')
          /\ DOMAIN items' \subseteq Keys /\ UNCHANGED <<unidentified, downloads>>
      BY <2>1, <2>2 DEF Observe, Cascade, Kept, Put, ListsTyped
    <3>2. ids' = [inst |-> ids'.inst, seq |-> ids'.seq] /\ ids'.seq = ids.seq
      BY <2>1, <2>2 DEF Observe, ListsTyped
    <3>3. ListsTyped'
      BY <2>1, <3>1, <3>2 DEF ListsTyped
    <3>. QED BY <3>1, <3>3, KeptStep
  <2>3. ASSUME NEW k, Forget(k) PROVE PageInv'
    <3>1. /\ Kept(items', instances', unidentified', downloads')
          /\ DOMAIN items' \subseteq Keys /\ UNCHANGED <<unidentified, downloads, ids>>
      BY <2>1, <2>3 DEF Forget, Cascade, Kept, Drop, ListsTyped
    <3>2. ListsTyped'
      BY <2>1, <3>1 DEF ListsTyped
    <3>. QED BY <3>1, <3>2, KeptStep
  <2>4. ASSUME NEW inst, Orphan(inst) PROVE PageInv'
    <3>1. /\ Kept(items', instances', unidentified', downloads')
          /\ UNCHANGED <<items, unidentified, downloads, ids>>
      BY <2>1, <2>4 DEF Orphan, Cascade, Kept, ListsTyped
    <3>2. ListsTyped'
      BY <2>1, <3>1 DEF ListsTyped
    <3>. QED BY <3>1, <3>2, KeptStep
  <2>5. ASSUME NEW ref, DropRoot(ref) PROVE PageInv'
    <3>1. /\ Kept(items', instances', unidentified', downloads')
          /\ unidentified' \subseteq unidentified /\ UNCHANGED <<items, downloads, ids>>
      BY <2>5 DEF DropRoot, Kept
    <3>2. ListsTyped'
      BY <2>1, <3>1 DEF ListsTyped
    <3>. QED BY <3>1, <3>2, KeptStep
  <2>6. ASSUME NEW u \in ItemRefs, Sight(u) PROVE PageInv'
    <3>1. /\ Kept(items', instances', unidentified', downloads')
          /\ unidentified' \subseteq unidentified \union {u} /\ UNCHANGED <<items, downloads, ids>>
      BY <2>6 DEF Sight, Kept
    <3>2. ListsTyped'
      BY <2>1, <3>1 DEF ListsTyped
    <3>. QED BY <3>1, <3>2, KeptStep
  <2>7. ASSUME NEW ds \in SomeAttempts, RecordAttempts(ds) PROVE PageInv'
    <3>1. Len(ds) \in Nat
      BY DEF SomeAttempts
    <3>2. /\ Kept(items', instances', unidentified', downloads')
          /\ DOMAIN downloads' = DOMAIN downloads \union (ids.seq + 1) .. (ids.seq + Len(ds))
          /\ ids' = [ids EXCEPT !.seq = @ + Len(ds)] /\ UNCHANGED <<items, unidentified>>
      BY <2>7 DEF RecordAttempts, Kept
    <3>3. ids' = [inst |-> ids'.inst, seq |-> ids'.seq] /\ ids'.seq = ids.seq + Len(ds) /\ ids.seq \in Nat
      BY <2>1, <3>2 DEF ListsTyped
    <3>4. DOMAIN downloads' \subseteq 1 .. ids'.seq
      BY <2>1, <3>1, <3>2, <3>3 DEF ListsTyped
    <3>5. ListsTyped'
      BY <2>1, <3>1, <3>2, <3>3, <3>4 DEF ListsTyped
    <3>. QED BY <3>2, <3>5, KeptStep
  <2>8. ASSUME NEW batch, PutNoResults(batch) PROVE PageInv'
    <3>1. /\ Kept(items', instances', unidentified', downloads')
          /\ UNCHANGED <<items, unidentified, downloads, ids>>
      BY <2>8 DEF PutNoResults, Kept
    <3>2. ListsTyped'
      BY <2>1, <3>1 DEF ListsTyped
    <3>. QED BY <3>1, <3>2, KeptStep
  <2>9. CASE UNCHANGED <<items, instances, unidentified, downloads, ids, walk>>
    BY <2>9, UnlistedStep
  <2>10. CASE \/ \E inst \in DOMAIN instances, t \in Tags, h \in Highest : ReserveOrdinal(<<inst, t>>, h)
              \/ \E p \in Providers : PutCredentialDisable(p) \/ DeleteCredentialDisable(p)
              \/ UNCHANGED rvars
    BY <2>9, <2>10 DEF ReserveOrdinal, PutCredentialDisable, DeleteCredentialDisable, rvars
  <2>11. CASE \E limit \in Limits : \/ ReadRoots(limit) \/ ReadUnidentified(limit)
                                    \/ \E root \in RootKeys : ReadItems(root, limit)
                                    \/ \E l \in Histories : ReadHistory(l, limit)
    <3>1. PICK l, limit : ReadPage(l, limit)
      BY <2>11 DEF ReadRoots, ReadUnidentified, ReadItems, ReadHistory
    <3>. QED BY <3>1, ReadStep
  <2>12. CASE EndWalk
    <3>1. walk' = NoWalk /\ UNCHANGED <<items, unidentified, downloads, ids>>
      BY <2>12 DEF EndWalk
    <3>. QED BY <2>1, <3>1 DEF PageInv, ListsTyped, NoWalk
  <2>. QED BY <2>2, <2>3, <2>4, <2>5, <2>6, <2>7, <2>8, <2>10, <2>11, <2>12 DEF RNext
<1>3. PageInv => PagesComplete
  <2>. SUFFICES ASSUME WalkGood PROVE PagesComplete
    BY DEF PageInv, PagesComplete, NoWalk
  <2>1. \A r : (\E i \in DOMAIN walk.served : walk.served[i] = r) => r \in Range(walk.served)
    BY DEF Range
  <2>2. ASSUME \A r \in walk.through : \E i \in DOMAIN walk.served : walk.served[i] = r PROVE PagesComplete
    BY <2>1, <2>2 DEF WalkGood, PagesComplete
  <2>3. ASSUME NEW q, walk.next = [none |-> FALSE, of |-> walk.of, last |-> At(q)],
               \A r \in walk.through : Precedes(walk.of, q, r) \/ \E i \in DOMAIN walk.served : walk.served[i] = r
        PROVE  PagesComplete
    <3>1. ~walk.next.none /\ walk.next.last.row = q
      BY <2>3 DEF At
    <3>. QED BY <2>1, <2>3, <3>1 DEF WalkGood, PagesComplete
  <2>. QED BY <2>2, <2>3 DEF WalkGood
<1>. QED BY <1>1, <1>2, <1>3, PTL DEF RSpec

(***************************************************************************)
(* StoreReads: parents.                                                    *)
(***************************************************************************)
\* f is what the first N rows of a batch leave, one after the other.
AfterEach(batch, N, f) ==
    f = [n \in 0 .. N |-> IF n = 0 THEN noResults ELSE PutNoResult(f[n - 1], batch[n])]

\* Every batch of N rows leaves something.
LEMMA SomeAfterEach ==
    ASSUME NEW batch, NEW N \in Nat
    PROVE  \E f : AfterEach(batch, N, f)
<1>. DEFINE T == {n \in Nat : ~\E f : AfterEach(batch, n, f)}
<1>. SUFFICES ASSUME T # {} PROVE FALSE
  OBVIOUS
<1>1. PICK m \in T : \A y \in T : m <= y
  <2>1. T # {} /\ T \subseteq Nat
    OBVIOUS
  <2>. QED BY ONLY <2>1, Least
<1>2. CASE m = 0
  <2>. DEFINE f == [n \in 0 .. 0 |-> noResults]
  <2>1. f = [n \in 0 .. 0 |-> IF n = 0 THEN noResults ELSE PutNoResult(f[n - 1], batch[n])]
    OBVIOUS
  <2>2. AfterEach(batch, 0, f)
    BY <2>1 DEF AfterEach
  <2>. QED BY <1>2, <2>2
<1>3. CASE m # 0
  <2>1. m - 1 \in Nat /\ m - 1 \notin T
    BY <1>1, <1>3
  <2>2. PICK f : AfterEach(batch, m - 1, f)
    BY <2>1
  <2>. DEFINE g == [n \in 0 .. m |-> IF n = m THEN PutNoResult(f[m - 1], batch[m]) ELSE f[n]]
  <2>3. \A n \in 0 .. m - 1 : f[n] = IF n = 0 THEN noResults ELSE PutNoResult(f[n - 1], batch[n])
    BY <2>2 DEF AfterEach
  <2>4. ASSUME NEW n \in 0 .. m
        PROVE  g[n] = IF n = 0 THEN noResults ELSE PutNoResult(g[n - 1], batch[n])
    <3>1. CASE n = m
      <4>1. g[n] = PutNoResult(f[m - 1], batch[m]) /\ g[m - 1] = f[m - 1]
        BY <1>3, <2>1, <3>1
      <4>. QED BY <1>3, <3>1, <4>1
    <3>2. CASE n # m /\ n # 0
      <4>1. n \in 0 .. m - 1 /\ n - 1 \in 0 .. m /\ n - 1 # m
        BY <2>1, <3>2
      <4>2. g[n] = f[n] /\ g[n - 1] = f[n - 1]
        BY <3>2, <4>1
      <4>. QED BY <2>3, <3>2, <4>1, <4>2
    <3>3. CASE n = 0
      BY <1>3, <2>1, <2>3, <3>3
    <3>. QED BY <3>1, <3>2, <3>3
  <2>5. g = [n \in 0 .. m |-> g[n]]
    OBVIOUS
  <2>. HIDE DEF g
  <2>6. g = [n \in 0 .. m |-> IF n = 0 THEN noResults ELSE PutNoResult(g[n - 1], batch[n])]
    BY <2>4, <2>5
  <2>7. AfterEach(batch, m, g)
    BY <2>6 DEF AfterEach
  <2>. QED BY <1>1, <2>7
<1>. QED BY <1>2, <1>3

\* Every row of a table of no-results is of a stored item.
OfItems(t) == \A k \in DOMAIN t : k[1] \in DOMAIN items

\* A row of a batch adds none of an item that is not stored.
LEMMA PutNoResultOfItems ==
    ASSUME NEW t, NEW nr, OfItems(t)
    PROVE  OfItems(PutNoResult(t, nr))
<1>. DEFINE k == <<nr.key, nr.tag, nr.provider>>
<1>1. CASE nr.count = 0
  <2>1. PutNoResult(t, nr) = Drop(t, {k})
    BY <1>1 DEF PutNoResult
  <2>2. DOMAIN Drop(t, {k}) = DOMAIN t \ {k}
    BY DEF Drop
  <2>. QED BY <2>1, <2>2 DEF OfItems
<1>2. CASE nr.count # 0 /\ nr.key \notin DOMAIN items
  <2>1. PutNoResult(t, nr) = t
    BY <1>2 DEF PutNoResult
  <2>. QED BY <2>1
<1>3. CASE nr.count # 0 /\ nr.key \in DOMAIN items
  <2>1. PutNoResult(t, nr) = Put(t, k, nr.count)
    BY <1>3 DEF PutNoResult
  <2>2. DOMAIN Put(t, k, nr.count) = DOMAIN t \union {k} /\ k[1] = nr.key
    BY DEF Put
  <2>. HIDE DEF k
  <2>. QED BY <1>3, <2>1, <2>2 DEF OfItems
<1>. QED BY <1>1, <1>2, <1>3

\* Nor does a whole batch, however long.
LEMMA BatchOfItems ==
    ASSUME NEW batch, Len(batch) \in Nat, OfItems(noResults)
    PROVE  OfItems(AfterRows(batch))
<1>1. \E f : f = [n \in 0 .. Len(batch) |-> IF n = 0 THEN noResults ELSE PutNoResult(f[n - 1], batch[n])]
  <2>1. \E f : AfterEach(batch, Len(batch), f)
    BY SomeAfterEach
  <2>. QED BY <2>1 DEF AfterEach
<1>. DEFINE a == CHOOSE f : f = [n \in 0 .. Len(batch) |->
                                   IF n = 0 THEN noResults ELSE PutNoResult(f[n - 1], batch[n])]
<1>2. a = [n \in 0 .. Len(batch) |-> IF n = 0 THEN noResults ELSE PutNoResult(a[n - 1], batch[n])]
  BY ONLY <1>1
<1>3. AfterRows(batch) = a[Len(batch)]
  BY DEF AfterRows
<1>. HIDE DEF a
<1>. DEFINE T == {n \in 0 .. Len(batch) : ~OfItems(a[n])}
<1>4. SUFFICES ASSUME T # {} PROVE FALSE
  BY <1>3
<1>5. PICK m \in T : \A y \in T : m <= y
  <2>1. T # {} /\ T \subseteq Nat
    BY <1>4
  <2>. QED BY ONLY <2>1, Least
<1>6. m # 0
  BY <1>2
<1>7. m - 1 \in 0 .. Len(batch) /\ m - 1 \notin T
  BY <1>5, <1>6
<1>8. a[m] = PutNoResult(a[m - 1], batch[m])
  BY <1>2, <1>6
<1>9. OfItems(a[m])
  BY <1>7, <1>8, PutNoResultOfItems
<1>. QED BY <1>9

\* Whatever the items and instances become, the cascades leave every row its
\* parent, as long as every item's root is stored and every instance an item
\* names is.
LEMMA CascadeKeepsParents ==
    ASSUME NEW its, NEW ins, Cascade(its, ins),
           evidence' \subseteq roots', \A u \in unidentified' : u[1] \in roots',
           \A k \in DOMAIN its : its[k].ref \in roots' /\ (its[k].inst # 0 => its[k].inst \in DOMAIN ins)
    PROVE  RowsHaveParents'
<1>. DEFINE named == {its[k].inst : k \in DOMAIN its}
<1>1. /\ items' = its
      /\ DOMAIN instances' = DOMAIN ins \intersect named
      /\ ordinals' = Drop(ordinals, {o \in DOMAIN ordinals : o[1] \notin DOMAIN instances'})
      /\ noResults' = Drop(noResults, {n \in DOMAIN noResults : n[1] \notin DOMAIN its})
  BY DEF Cascade
<1>2. \A n \in DOMAIN noResults' : n[1] \in DOMAIN items'
  BY <1>1 DEF Drop
<1>3. \A o \in DOMAIN ordinals' : o[1] \in DOMAIN instances'
  BY <1>1 DEF Drop
<1>4. \A k \in DOMAIN items' :
          items'[k].ref \in roots' /\ (items'[k].inst # 0 => items'[k].inst \in DOMAIN instances')
  BY <1>1
<1>. QED BY <1>2, <1>3, <1>4 DEF RowsHaveParents

\* Nothing in a new store is without its parent.
LEMMA ParentsInit == RInit => RowsHaveParents
<1>. SUFFICES ASSUME RInit PROVE RowsHaveParents
  OBVIOUS
<1>1. PICK K \in SUBSET Keys :
          /\ roots = {CHOOSE f \in Refs : KeyOf[f] = k[1] : k \in K}
          /\ items = [k \in K |-> [ref |-> CHOOSE f \in Refs : KeyOf[f] = k[1],
                                   inst |-> Cardinality({j \in K : j = k \/ KeyLess(j, k)})]]
          /\ instances = [n \in 1 .. Cardinality(K) |-> TRUE]
  BY DEF RInit
<1>2. DOMAIN noResults = {} /\ DOMAIN ordinals = {} /\ evidence = {} /\ unidentified = {}
  BY DEF RInit, EmptyTable
<1>3. IsFiniteSet(K) /\ Cardinality(K) \in Nat
  <2>1. IsFiniteSet(Keys)
    BY StoreAssumption, FS_Product DEF Keys
  <2>. QED BY <2>1, FS_Subset, FS_CardinalityType
<1>4. ASSUME NEW k \in K
      PROVE  items[k].ref \in roots /\ items[k].inst \in DOMAIN instances
  <2>. DEFINE J == {j \in K : j = k \/ KeyLess(j, k)}
  <2>1. k \in J /\ J \subseteq K
    OBVIOUS
  <2>. HIDE DEF J
  <2>2. IsFiniteSet(J) /\ Cardinality(J) \in Nat /\ Cardinality(J) <= Cardinality(K)
    BY <1>3, <2>1, FS_Subset, FS_CardinalityType
  <2>3. Cardinality(J) # 0
    BY <2>1, <2>2, FS_EmptySet
  <2>4. Cardinality(J) \in 1 .. Cardinality(K)
    BY <1>3, <2>2, <2>3
  <2>5. items[k].inst = Cardinality(J) /\ items[k].ref \in roots
    BY <1>1 DEF J
  <2>6. DOMAIN instances = 1 .. Cardinality(K)
    BY <1>1
  <2>. QED BY <2>4, <2>5, <2>6
<1>5. DOMAIN items = K
  BY <1>1
<1>. QED BY <1>2, <1>4, <1>5 DEF RowsHaveParents

\* A report puts its root before its item, and its instance with it.
LEMMA ObserveKeepsParents ==
    ASSUME RowsHaveParents, NEW ref, NEW k, NEW inst, NEW e, Observe(ref, k, inst, e)
    PROVE  RowsHaveParents'
<1>. DEFINE its == Put(items, k, [ref |-> ref, inst |-> inst])
            ins == IF inst = 0 THEN instances ELSE Put(instances, inst, TRUE)
<1>1. /\ Cascade(its, ins) /\ roots' = roots \union {ref} /\ UNCHANGED unidentified
      /\ evidence' = IF e THEN evidence \union {ref} ELSE evidence \ {ref}
  BY DEF Observe
<1>2. DOMAIN instances \subseteq DOMAIN ins /\ (inst # 0 => inst \in DOMAIN ins)
  BY DEF Put
<1>3. evidence' \subseteq roots' /\ \A u \in unidentified' : u[1] \in roots'
  BY <1>1 DEF RowsHaveParents
<1>4. ASSUME NEW x \in DOMAIN its
      PROVE  its[x].ref \in roots' /\ (its[x].inst # 0 => its[x].inst \in DOMAIN ins)
  <2>. HIDE DEF ins
  <2>1. CASE x = k
    <3>1. its[x] = [ref |-> ref, inst |-> inst]
      BY <2>1 DEF Put
    <3>. QED BY <1>1, <1>2, <3>1
  <2>2. CASE x # k
    <3>1. x \in DOMAIN items /\ its[x] = items[x]
      BY <1>4, <2>2 DEF Put
    <3>. HIDE DEF its
    <3>. QED BY <1>1, <1>2, <3>1 DEF RowsHaveParents
  <2>. QED BY <2>1, <2>2
<1>. HIDE DEF its, ins
<1>. QED BY <1>1, <1>3, <1>4, CascadeKeepsParents

\* The small tables never outlive what they are about, whatever commits.
THEOREM RowsKeepParents == RSpec => []RowsHaveParents
<1>1. RInit => RowsHaveParents
  BY ParentsInit
<1>2. RowsHaveParents /\ [RNext]_rvars => RowsHaveParents'
  <2>. SUFFICES ASSUME RowsHaveParents, [RNext]_rvars PROVE RowsHaveParents'
    OBVIOUS
  <2>1. ASSUME NEW ref \in Refs, NEW k \in Keys, NEW inst, NEW e, Observe(ref, k, inst, e)
        PROVE  RowsHaveParents'
    BY <2>1, ObserveKeepsParents
  <2>2. ASSUME NEW k, Forget(k) PROVE RowsHaveParents'
    <3>1. Cascade(Drop(items, {k}), instances) /\ UNCHANGED <<roots, unidentified, evidence>>
      BY <2>2 DEF Forget
    <3>2. /\ DOMAIN Drop(items, {k}) \subseteq DOMAIN items
          /\ \A x \in DOMAIN Drop(items, {k}) : Drop(items, {k})[x] = items[x]
      BY DEF Drop
    <3>. QED BY <3>1, <3>2, CascadeKeepsParents DEF RowsHaveParents
  <2>3. ASSUME NEW inst, Orphan(inst) PROVE RowsHaveParents'
    <3>1. Cascade(items, [instances EXCEPT ![inst] = FALSE]) /\ UNCHANGED <<roots, unidentified, evidence>>
      BY <2>3 DEF Orphan
    <3>2. DOMAIN [instances EXCEPT ![inst] = FALSE] = DOMAIN instances
      OBVIOUS
    <3>. QED BY <3>1, <3>2, CascadeKeepsParents DEF RowsHaveParents
  <2>4. ASSUME NEW ref, DropRoot(ref) PROVE RowsHaveParents'
    BY <2>4 DEF DropRoot, RowsHaveParents
  <2>5. ASSUME NEW u, Sight(u) PROVE RowsHaveParents'
    BY <2>5 DEF Sight, RowsHaveParents
  <2>6. ASSUME NEW batch \in SomeNoResults, PutNoResults(batch) PROVE RowsHaveParents'
    <3>1. Len(batch) \in Nat
      BY DEF SomeNoResults
    <3>2. /\ noResults' = AfterRows(batch)
          /\ UNCHANGED <<roots, items, instances, unidentified, ordinals, evidence>>
      BY <2>6 DEF PutNoResults
    <3>3. OfItems(noResults')
      BY <3>1, <3>2, BatchOfItems DEF OfItems, RowsHaveParents
    <3>. QED BY <3>2, <3>3 DEF OfItems, RowsHaveParents
  <2>7. ASSUME NEW inst, NEW t, NEW h, ReserveOrdinal(<<inst, t>>, h) PROVE RowsHaveParents'
    <3>1. PICK v : /\ ordinals' = Put(ordinals, <<inst, t>>, v) /\ inst \in DOMAIN instances
                   /\ UNCHANGED <<roots, items, instances, unidentified, noResults, evidence>>
      BY <2>7 DEF ReserveOrdinal
    <3>2. DOMAIN ordinals' = DOMAIN ordinals \union {<<inst, t>>}
      BY <3>1 DEF Put
    <3>. QED BY <3>1, <3>2 DEF RowsHaveParents
  <2>8. CASE UNCHANGED <<roots, items, instances, unidentified, noResults, ordinals, evidence>>
    BY <2>8 DEF RowsHaveParents
  <2>9. CASE \/ \E ds \in SomeAttempts : RecordAttempts(ds)
             \/ \E p \in Providers : PutCredentialDisable(p) \/ DeleteCredentialDisable(p)
             \/ EndWalk \/ UNCHANGED rvars
    BY <2>8, <2>9 DEF RecordAttempts, PutCredentialDisable, DeleteCredentialDisable, EndWalk, rvars
  <2>10. CASE \E limit \in Limits : \/ ReadRoots(limit) \/ ReadUnidentified(limit)
                                    \/ \E root \in RootKeys : ReadItems(root, limit)
                                    \/ \E l \in Histories : ReadHistory(l, limit)
    <3>1. PICK l, limit : ReadPage(l, limit)
      BY <2>10 DEF ReadRoots, ReadUnidentified, ReadItems, ReadHistory
    <3>. QED BY <2>8, <3>1 DEF ReadPage
  <2>. QED BY <2>1, <2>2, <2>3, <2>4, <2>5, <2>6, <2>7, <2>9, <2>10 DEF RNext
<1>. QED BY <1>1, <1>2, PTL DEF RSpec

(***************************************************************************)
(* ChangeFeed: the observer.                                               *)
(***************************************************************************)
FeedRow == [items : SUBSET Roots, facts : Int]

FeedTyped ==
    /\ item \in [Roots -> Insts \union {NoInst}]
    /\ row \in [Insts -> FeedRow]
    /\ file \in [Insts -> Int]
    /\ itemRev \in [Roots -> Int]
    /\ rev \in Nat /\ epoch \in Nat /\ configRev \in Nat /\ gen \in Nat
    /\ \A c \in log : c.rev \in Nat

ObsTyped ==
    /\ obs.token \in Nat /\ obs.epoch \in Nat /\ obs.rev \in Nat
    /\ obs = [at |-> obs.at, token |-> obs.token, epoch |-> obs.epoch, rev |-> obs.rev,
              reread |-> obs.reread, unnamed |-> obs.unnamed, copy |-> obs.copy]
    /\ obs.copy = [r \in Roots |-> obs.copy[r]]

\* A row lists the roots whose item records name it.
ItemsHeld == \A i \in Insts : row[i].items = {r \in Roots : item[r] = i}

\* Nothing stored is ahead of the revision, or of the epoch.
HeadLeads ==
    /\ configRev <= rev
    /\ \A c \in log : c.rev <= rev
    /\ obs.epoch <= epoch
    /\ obs.epoch = epoch => obs.rev <= rev
    /\ obs.at # "channel" => obs.token <= gen

\* The observer will be told to read everything again.
Behind == MustReread(obs.epoch, obs.rev)

\* A root the observer holds otherwise than the store is one it is yet to be
\* told of, or about to read.
CopyKept ==
    \A r \in Roots :
        \/ Behind
        \/ obs.copy[r] = View(r)
        \/ obs.at = "read" /\ r \in obs.reread
        \/ \E c \in log : c.rev > obs.rev /\ r \in c.roots

\* And so is a root whose managed files changed, as written.
DirtyNamed ==
    \A r \in dirty : Behind \/ \E c \in log : c.rev > obs.rev /\ r \in c.written

\* While the channel it holds stays open, its answer is of the last commit.
AnswerHolds ==
    obs.at \in {"read", "asleep"} /\ obs.token = gen =>
        /\ obs.epoch = epoch /\ obs.rev = rev /\ obs.unnamed = {}
        /\ \A r \in Roots : (obs.at = "read" /\ r \in obs.reread) \/ obs.copy[r] = View(r)

FeedInv == FeedTyped /\ ObsTyped /\ ItemsHeld /\ HeadLeads /\ CopyKept /\ DirtyNamed /\ AnswerHolds

\* What a touched row publishes.
LEMMA Publishes ==
    ASSUME NEW touched, NEW r, NEW i
    PROVE /\ Written(touched) \subseteq Published(touched)
          /\ <<"item", r>> \in touched => r \in Published(touched)
          /\ <<"written", r>> \in touched => r \in Written(touched)
          /\ <<"instance", i>> \in touched /\ r \in row'[i].items => r \in Published(touched)
          /\ <<"file", i>> \in touched /\ r \in row'[i].items => r \in Written(touched)
<1>1. Written(touched) \subseteq Published(touched)
  BY DEF Published
<1>2. <<"item", r>> \in touched => r \in Published(touched)
  BY DEF Published
<1>3. <<"written", r>> \in touched => r \in Written(touched)
  BY DEF Written
<1>4. <<"instance", i>> \in touched /\ r \in row'[i].items => r \in Published(touched)
  BY DEF Published, InstanceRoots
<1>5. <<"file", i>> \in touched /\ r \in row'[i].items => r \in Written(touched)
  BY DEF Written, InstanceRoots
<1> QED BY <1>1, <1>2, <1>3, <1>4, <1>5

\* A commit that names what it changed keeps the observer right.
LEMMA CommitStep ==
    ASSUME FeedInv, NEW touched, NEW config \in BOOLEAN, Commit(touched, config),
           \A r \in Roots : View(r)' = View(r) \/ config \/ r \in Published(touched),
           \A r \in Roots : item[r] # NoInst /\ file'[item[r]] # file[item[r]]
                                => config \/ r \in Written(touched)
    PROVE HeadLeads' /\ CopyKept' /\ DirtyNamed' /\ AnswerHolds'
<1> DEFINE change == [rev |-> rev + 1, roots |-> IF config THEN {} ELSE Published(touched),
                      written |-> IF config THEN {} ELSE Written(touched)]
<1>0. FeedTyped /\ ObsTyped /\ HeadLeads /\ CopyKept /\ DirtyNamed
  BY DEF FeedInv
<1>1. /\ rev' = rev + 1 /\ gen' = gen + 1 /\ epoch' = epoch /\ obs' = obs
      /\ configRev' = IF config THEN rev + 1 ELSE configRev
      /\ log' = {c \in log \union {change} : c.rev > rev + 1 - Retention}
      /\ dirty' = dirty \union {r \in Roots : item[r] # NoInst /\ file'[item[r]] # file[item[r]]}
  BY DEF Commit, Trim
<1>2. /\ rev \in Nat /\ configRev \in Nat /\ gen \in Nat /\ epoch \in Nat /\ Retention \in Nat
      /\ obs.token \in Nat /\ obs.epoch \in Nat /\ obs.rev \in Nat
      /\ \A c \in log : c.rev \in Nat /\ c.rev <= rev
      /\ configRev <= rev /\ obs.epoch <= epoch
      /\ obs.epoch = epoch => obs.rev <= rev
      /\ obs.at # "channel" => obs.token <= gen
  BY <1>0, FeedAssumption DEF FeedTyped, ObsTyped, HeadLeads
<1>3. change.rev = rev + 1
  OBVIOUS
<1>4. Behind => Behind'
  BY <1>1, <1>2 DEF Behind, MustReread, NotRetained
<1>5. ASSUME NEW c \in log, c.rev > obs.rev PROVE Behind' \/ (c \in log' /\ c.rev > obs'.rev)
  BY <1>1, <1>2, <1>5 DEF Behind, MustReread, NotRetained
<1>6. Behind' \/ (change \in log' /\ change.rev > obs'.rev)
  BY <1>1, <1>2, <1>3 DEF Behind, MustReread, NotRetained
<1>7. config => Behind'
  BY <1>1, <1>2 DEF Behind, MustReread, NotRetained
<1>8. ~config => change.roots = Published(touched) /\ change.written = Written(touched)
  OBVIOUS
<1>9. HeadLeads'
  <2>1. \A c \in log' : c.rev <= rev'
    BY <1>1, <1>2, <1>3
  <2> QED BY <1>1, <1>2, <2>1 DEF HeadLeads
<1> HIDE DEF change
<1>10. CopyKept'
  <2> SUFFICES ASSUME NEW r \in Roots, ~Behind'
               PROVE \/ obs.copy[r] = View(r)'
                     \/ obs.at = "read" /\ r \in obs.reread
                     \/ \E c \in log' : c.rev > obs'.rev /\ r \in c.roots
    BY <1>1 DEF CopyKept
  <2>1. \/ obs.copy[r] = View(r)
        \/ obs.at = "read" /\ r \in obs.reread
        \/ \E c \in log : c.rev > obs.rev /\ r \in c.roots
    BY <1>0, <1>4 DEF CopyKept
  <2>2. CASE obs.copy[r] = View(r)
    <3>1. View(r)' = View(r) \/ r \in change.roots
      BY <1>7, <1>8
    <3> QED BY <1>6, <2>2, <3>1
  <2>3. CASE \E c \in log : c.rev > obs.rev /\ r \in c.roots
    BY <1>5, <2>3
  <2> QED BY <2>1, <2>2, <2>3
<1>11. DirtyNamed'
  <2> SUFFICES ASSUME NEW r \in dirty', ~Behind'
               PROVE \E c \in log' : c.rev > obs'.rev /\ r \in c.written
    BY DEF DirtyNamed
  <2>1. CASE r \in dirty
    <3>1. PICK c \in log : c.rev > obs.rev /\ r \in c.written
      BY <1>0, <1>4, <2>1 DEF DirtyNamed
    <3> QED BY <1>5, <3>1
  <2>2. CASE r \notin dirty
    <3>1. r \in Roots /\ item[r] # NoInst /\ file'[item[r]] # file[item[r]]
      BY <1>1, <2>2
    <3>2. r \in change.written
      BY <1>7, <1>8, <3>1
    <3> QED BY <1>6, <3>2
  <2> QED BY <2>1, <2>2
<1>12. AnswerHolds'
  <2>1. obs'.at \in {"read", "asleep"} => obs'.token < gen'
    BY <1>1, <1>2
  <2> QED BY <1>1, <1>2, <2>1 DEF AnswerHolds
<1> QED BY <1>9, <1>10, <1>11, <1>12

\* An item that moves between instances, or leaves its last one.
LEMMA AttachStep ==
    ASSUME FeedInv, NEW r \in Roots, NEW i \in Insts \union {NoInst}, Attach(r, i)
    PROVE FeedInv'
<1> DEFINE j == item[r]
           touched == Released(r, j) \union {<<"item", r>>}
                        \union (IF i = NoInst THEN {} ELSE {<<"instance", i>>})
<1>0. FeedTyped /\ ObsTyped /\ ItemsHeld /\ NoInst \notin Insts
  BY FeedAssumption DEF FeedInv
<1>1. /\ i # j
      /\ item' = [item EXCEPT ![r] = i]
      /\ itemRev' = [itemRev EXCEPT ![r] = rev + 1]
      /\ row' = MovedRow(r, j, i)
      /\ file' = [n \in Insts |-> IF n = j /\ Emptied(r, j) THEN 0 ELSE file[n]]
      /\ Commit(touched, FALSE)
  BY DEF Attach
<1>2. j \in Insts \union {NoInst} /\ rev \in Nat
  BY <1>0 DEF FeedTyped
<1>3. \A n \in Insts : row[n] \in FeedRow /\ row[n].items \subseteq Roots /\ file[n] \in Int
  BY <1>0 DEF FeedTyped, FeedRow
<1>4. \A s \in Roots : item'[s] = IF s = r THEN i ELSE item[s]
  BY <1>0, <1>1 DEF FeedTyped
<1>5. ASSUME NEW n \in Insts
      PROVE /\ row'[n] \in FeedRow
            /\ row'[n].items = IF n = i THEN row[i].items \union {r}
                              ELSE IF n = j THEN row[j].items \ {r} ELSE row[n].items
            /\ n # i /\ n # j => row'[n] = row[n]
            /\ file'[n] = IF n = j /\ Emptied(r, j) THEN 0 ELSE file[n]
  <2>1. CASE n = i
    <3>1. row'[n] = [items |-> row[i].items \union {r}, facts |-> rev + 1]
      BY <1>1, <2>1 DEF MovedRow
    <3>2. row'[n] \in FeedRow
      BY <1>2, <1>3, <2>1, <3>1 DEF FeedRow
    <3> QED BY <1>1, <2>1, <3>1, <3>2
  <2>2. CASE n # i /\ n = j /\ ~Emptied(r, j)
    <3>1. row'[n] = [items |-> row[j].items \ {r}, facts |-> rev + 1]
      BY <1>1, <2>2 DEF MovedRow
    <3>2. row'[n] \in FeedRow
      BY <1>2, <1>3, <2>2, <3>1 DEF FeedRow
    <3> QED BY <1>1, <2>2, <3>1, <3>2
  <2>3. CASE n # i /\ n = j /\ Emptied(r, j)
    <3>1. row'[n] = [items |-> {}, facts |-> 0] /\ row[j].items = {r}
      BY <1>1, <2>3 DEF MovedRow, NoRow, Emptied
    <3>2. row'[n] \in FeedRow
      BY <3>1 DEF FeedRow
    <3> QED BY <1>1, <2>3, <3>1, <3>2
  <2>4. CASE n # i /\ n # j
    <3>1. row'[n] = row[n]
      BY <1>1, <2>4 DEF MovedRow
    <3> QED BY <1>1, <1>3, <2>4, <3>1
  <2> QED BY <2>1, <2>2, <2>3, <2>4
<1>6. \A n \in Insts : row[n].items = {s \in Roots : item[s] = n}
  BY <1>0 DEF ItemsHeld
<1>7. <<"item", r>> \in touched /\ (i # NoInst => <<"instance", i>> \in touched)
  OBVIOUS
<1>8. j # NoInst => <<"instance", j>> \in touched
  BY DEF Released
<1>9. j # NoInst /\ Emptied(r, j) => <<"written", r>> \in touched
  BY DEF Released
<1> HIDE DEF touched, j
<1>10. ItemsHeld'
  BY <1>2, <1>4, <1>5, <1>6, <1>1 DEF ItemsHeld, j
<1>11. ASSUME NEW s \in Roots PROVE View(s)' = View(s) \/ s \in Published(touched)
  <2>1. CASE s = r
    BY <1>7, <2>1, Publishes
  <2>2. CASE s # r /\ item[s] = NoInst
    BY <1>0, <1>1, <1>4, <2>2 DEF View, FeedTyped
  <2>3. CASE s # r /\ item[s] # NoInst
    <3> DEFINE n == item[s]
    <3>1. n \in Insts /\ item'[s] = n /\ itemRev'[s] = itemRev[s]
      BY <1>0, <1>1, <1>4, <2>3 DEF FeedTyped
    <3>2. s \in row[n].items
      BY <1>6, <3>1
    <3>3. CASE n = i
      BY <1>0, <1>5, <1>7, <3>1, <3>2, <3>3, Publishes
    <3>4. CASE n # i /\ n = j
      <4>1. s \in row'[n].items
        BY <1>5, <2>3, <3>1, <3>2, <3>4
      <4> QED BY <1>0, <1>8, <3>1, <3>4, <4>1, Publishes
    <3>5. CASE n # i /\ n # j
      <4>1. row'[n] = row[n] /\ file'[n] = file[n]
        BY <1>5, <3>1, <3>5
      <4> QED BY <3>1, <4>1 DEF View
    <3> QED BY <3>3, <3>4, <3>5
  <2> QED BY <2>1, <2>2, <2>3
<1>12. ASSUME NEW s \in Roots, item[s] # NoInst, file'[item[s]] # file[item[s]]
       PROVE s \in Written(touched)
  <2>1. item[s] \in Insts
    BY <1>0, <1>12 DEF FeedTyped
  <2>2. item[s] = j /\ Emptied(r, j)
    BY <1>5, <1>12, <2>1
  <2>3. s = r /\ j # NoInst
    BY <1>6, <2>1, <2>2 DEF Emptied
  <2> QED BY <1>9, <2>2, <2>3, Publishes
<1>13. HeadLeads' /\ CopyKept' /\ DirtyNamed' /\ AnswerHolds'
  BY <1>1, <1>11, <1>12, CommitStep
<1>14. FeedTyped'
  <2>1. /\ item' \in [Roots -> Insts \union {NoInst}]
        /\ itemRev' \in [Roots -> Int]
    BY <1>0, <1>1 DEF FeedTyped
  <2>2. row' \in [Insts -> FeedRow]
    <3>1. row' = [n \in Insts |-> row'[n]]
      BY <1>1 DEF MovedRow
    <3> QED BY <1>5, <3>1
  <2>3. file' \in [Insts -> Int]
    BY <1>1, <1>3
  <2>4. /\ rev' \in Nat /\ epoch' \in Nat /\ configRev' \in Nat /\ gen' \in Nat
        /\ \A c \in log' : c.rev \in Nat
    BY <1>0, <1>1 DEF FeedTyped, Commit, Trim
  <2> QED BY <2>1, <2>2, <2>3, <2>4 DEF FeedTyped
<1>15. ObsTyped'
  BY <1>0, <1>1 DEF ObsTyped, Commit
<1> QED BY <1>10, <1>13, <1>14, <1>15 DEF FeedInv

\* A write that moves no root.
LEMMA WriteStep ==
    ASSUME FeedInv, NEW i, (i \in Insts /\ (PutFile(i) \/ PutFacts(i))) \/ Activate
    PROVE FeedInv'
<1>0. FeedTyped /\ ObsTyped /\ ItemsHeld
  BY DEF FeedInv
<1> DEFINE Wrote(touched, config) ==
        /\ Commit(touched, config)
        /\ UNCHANGED <<item, itemRev>>
        /\ i \in Insts \/ config
        /\ \/ touched = {<<"file", i>>} /\ ~config /\ row' = row /\ file' = [file EXCEPT ![i] = rev + 1]
           \/ touched = {<<"instance", i>>} /\ ~config /\ row' = [row EXCEPT ![i].facts = rev + 1] /\ file' = file
           \/ config /\ file' = file
                /\ row' = [n \in Insts |-> IF row[n].items = {} THEN row[n] ELSE [row[n] EXCEPT !.facts = rev + 1]]
<1> HIDE DEF Wrote
<1>1. \E touched : \E config \in BOOLEAN : Wrote(touched, config)
  <2>1. CASE i \in Insts /\ PutFile(i)
    <3>1. Wrote({<<"file", i>>}, FALSE)
      BY <2>1 DEF PutFile, Wrote
    <3> QED BY <3>1
  <2>2. CASE i \in Insts /\ PutFacts(i)
    <3>1. Wrote({<<"instance", i>>}, FALSE)
      BY <2>2 DEF PutFacts, Wrote
    <3> QED BY <3>1
  <2>3. CASE Activate
    <3>1. Wrote({}, TRUE)
      BY <2>3 DEF Activate, Wrote
    <3> QED BY <3>1
  <2> QED BY <2>1, <2>2, <2>3
<1>2. PICK touched : \E config \in BOOLEAN : Wrote(touched, config)
  BY <1>1
<1>3. PICK config \in BOOLEAN : Wrote(touched, config)
  BY <1>2
<1> USE DEF Wrote
<1>4. rev \in Nat /\ row \in [Insts -> FeedRow] /\ file \in [Insts -> Int] /\ item \in [Roots -> Insts \union {NoInst}]
  BY <1>0 DEF FeedTyped
<1>5. ASSUME NEW n \in Insts
      PROVE /\ row'[n] \in FeedRow /\ row'[n].items = row[n].items
            /\ config \/ n = i \/ row'[n] = row[n]
            /\ n # i => file'[n] = file[n]
            /\ file'[n] # file[n] => touched = {<<"file", i>>} /\ ~config
            /\ row'[n] # row[n] /\ ~config => touched = {<<"instance", i>>}
  BY <1>3, <1>4 DEF FeedRow
<1>6. row' \in [Insts -> FeedRow] /\ file' \in [Insts -> Int]
  <2>1. row' = [n \in Insts |-> row'[n]]
    BY <1>3, <1>4
  <2>2. row' \in [Insts -> FeedRow]
    BY <1>5, <2>1
  <2>3. file' \in [Insts -> Int]
    BY <1>3, <1>4
  <2> QED BY <2>2, <2>3
<1>7. ItemsHeld'
  BY <1>0, <1>3, <1>5 DEF ItemsHeld
<1>8. ASSUME NEW s \in Roots, item[s] = i, ~config PROVE s \in row'[i].items
  BY <1>0, <1>3, <1>5, <1>8 DEF ItemsHeld
<1>9. ASSUME NEW s \in Roots PROVE View(s)' = View(s) \/ config \/ s \in Published(touched)
  <2>1. CASE item[s] = NoInst
    BY <1>3, <2>1 DEF View
  <2>2. CASE item[s] # NoInst /\ item[s] # i
    <3>1. item[s] \in Insts
      BY <1>4, <2>2
    <3> QED BY <1>3, <1>5, <2>2, <3>1 DEF View
  <2>3. CASE item[s] = i /\ i \in Insts /\ ~config
    <3>1. s \in row'[i].items
      BY <1>8, <2>3
    <3>2. CASE touched = {<<"file", i>>} \/ touched = {<<"instance", i>>}
      BY <3>1, <3>2, Publishes
    <3>3. CASE row'[i] = row[i] /\ file'[i] = file[i]
      BY <1>3, <2>3, <3>3 DEF View
    <3> QED BY <1>5, <2>3, <3>2, <3>3
  <2> QED BY <1>3, <2>1, <2>2, <2>3
<1>10. ASSUME NEW s \in Roots, item[s] # NoInst, file'[item[s]] # file[item[s]]
      PROVE s \in Written(touched)
  <2>1. item[s] \in Insts
    BY <1>4, <1>10
  <2>2. item[s] = i /\ touched = {<<"file", i>>} /\ ~config
    BY <1>5, <1>10, <2>1
  <2> QED BY <1>8, <2>2, Publishes
<1>11. HeadLeads' /\ CopyKept' /\ DirtyNamed' /\ AnswerHolds'
  BY <1>3, <1>9, <1>10, CommitStep
<1>12. FeedTyped'
  <2>1. /\ rev' \in Nat /\ epoch' \in Nat /\ configRev' \in Nat /\ gen' \in Nat
        /\ \A c \in log' : c.rev \in Nat
    BY <1>0, <1>3 DEF FeedTyped, Commit, Trim
  <2> QED BY <1>0, <1>3, <1>6, <2>1 DEF FeedTyped
<1>13. ObsTyped'
  BY <1>0, <1>3 DEF ObsTyped, Commit
<1> QED BY <1>7, <1>11, <1>12, <1>13 DEF FeedInv

\* Another file: the observer's epoch is not the store's.
LEMMA ReplaceStep == FeedInv /\ Replace => FeedInv'
<1> SUFFICES ASSUME FeedInv, Replace PROVE FeedInv'
  OBVIOUS
<1>0. FeedTyped /\ ObsTyped /\ HeadLeads
  BY DEF FeedInv
<1>1. FeedTyped'
  <2>1. row' \in [Insts -> FeedRow]
    <3>1. NoRow \in FeedRow
      BY DEF NoRow, FeedRow
    <3> QED BY <3>1 DEF Replace
  <2>2. /\ item' \in [Roots -> Insts \union {NoInst}] /\ file' \in [Insts -> Int] /\ itemRev' \in [Roots -> Int]
    BY DEF Replace
  <2> QED BY <1>0, <2>1, <2>2 DEF FeedTyped, Replace
<1>2. ObsTyped' /\ obs'.at = "channel" /\ obs'.epoch = obs.epoch /\ obs'.rev = obs.rev
  BY <1>0 DEF ObsTyped, Replace
<1>3. ItemsHeld'
  BY FeedAssumption DEF ItemsHeld, Replace, NoRow
<1>4. obs'.epoch # epoch'
  BY <1>0, <1>2 DEF Replace, HeadLeads, FeedTyped, ObsTyped
<1>5. HeadLeads'
  BY <1>0, <1>2, <1>4 DEF HeadLeads, Replace, FeedTyped, ObsTyped
<1>6. CopyKept' /\ DirtyNamed'
  BY <1>4 DEF CopyKept, DirtyNamed, Behind, MustReread
<1>7. AnswerHolds'
  BY <1>2 DEF AnswerHolds
<1> QED BY <1>1, <1>2, <1>3, <1>5, <1>6, <1>7 DEF FeedInv

\* The observer's own steps.
LEMMA FollowStep == FeedInv /\ Follow => FeedInv'
<1> SUFFICES ASSUME FeedInv, Follow PROVE FeedInv'
  OBVIOUS
<1>0. FeedTyped /\ ObsTyped /\ ItemsHeld /\ HeadLeads /\ CopyKept /\ DirtyNamed /\ AnswerHolds
  BY DEF FeedInv
<1>1. UNCHANGED <<store, log, rev, epoch, configRev, gen>>
  BY DEF Follow, ReadChannel, CallSince, Reread, Woken
<1>2. FeedTyped' /\ ItemsHeld' /\ \A r \in Roots : View(r)' = View(r)
  BY <1>0, <1>1 DEF FeedTyped, ItemsHeld, View, store
<1>3. CASE ReadChannel \/ Woken
  <2>1. /\ obs'.at \in {"since", "channel"} /\ obs'.epoch = obs.epoch /\ obs'.rev = obs.rev
        /\ obs'.copy = obs.copy /\ obs.at \in {"channel", "asleep"} /\ dirty' = dirty
        /\ obs'.at = "since" => obs'.token = gen
    BY <1>0, <1>3 DEF ObsTyped, ReadChannel, Woken
  <2>2. ObsTyped'
    BY <1>0, <1>3 DEF ObsTyped, ReadChannel, Woken, FeedTyped
  <2>3. HeadLeads'
    BY <1>0, <1>1, <2>1 DEF HeadLeads, FeedTyped
  <2>4. Behind' = Behind
    BY <1>1, <2>1 DEF Behind, MustReread, NotRetained
  <2>5. CopyKept'
    BY <1>0, <1>1, <1>2, <2>1, <2>4 DEF CopyKept
  <2>6. DirtyNamed'
    BY <1>0, <1>1, <2>1, <2>4 DEF DirtyNamed
  <2>7. AnswerHolds'
    BY <2>1 DEF AnswerHolds
  <2> QED BY <1>2, <2>2, <2>3, <2>5, <2>6, <2>7 DEF FeedInv
<1>4. CASE CallSince
  <2> DEFINE newer == {c \in log : c.rev > obs.rev}
             reread == IF Behind THEN Roots ELSE UNION {c.roots : c \in newer}
             unnamed == IF Behind THEN {} ELSE dirty \ UNION {c.written : c \in newer}
  <2>1. /\ obs' = [obs EXCEPT !.at = "read", !.epoch = epoch, !.rev = rev,
                              !.reread = reread, !.unnamed = unnamed]
        /\ obs.at = "since" /\ dirty' = {}
    BY <1>4 DEF CallSince, Behind
  <2>2. unnamed = {}
    BY <1>0 DEF DirtyNamed
  <2>3. \A r \in Roots : r \in reread \/ obs.copy[r] = View(r)
    BY <1>0, <2>1 DEF CopyKept
  <2> HIDE DEF reread, unnamed
  <2>4. /\ obs'.at = "read" /\ obs'.epoch = epoch /\ obs'.rev = rev /\ obs'.token = obs.token
        /\ obs'.reread = reread /\ obs'.unnamed = unnamed /\ obs'.copy = obs.copy
    BY <1>0, <2>1 DEF ObsTyped
  <2>5. ObsTyped'
    BY <1>0, <2>1 DEF ObsTyped, FeedTyped
  <2>6. HeadLeads'
    BY <1>0, <1>1, <2>1, <2>4 DEF HeadLeads, FeedTyped
  <2>7. CopyKept' /\ AnswerHolds'
    BY <1>1, <1>2, <2>2, <2>3, <2>4 DEF CopyKept, AnswerHolds
  <2>8. DirtyNamed'
    BY <2>1 DEF DirtyNamed
  <2> QED BY <1>2, <2>5, <2>6, <2>7, <2>8 DEF FeedInv
<1>5. CASE Reread
  <2>1. /\ obs' = [obs EXCEPT !.at = "asleep", !.reread = {},
                   !.copy = [r \in Roots |-> IF r \in obs.reread THEN View(r) ELSE obs.copy[r]]]
        /\ obs.at = "read" /\ dirty' = dirty
    BY <1>5 DEF Reread
  <2>2. /\ obs'.at = "asleep" /\ obs'.epoch = obs.epoch /\ obs'.rev = obs.rev /\ obs'.token = obs.token
        /\ obs'.unnamed = obs.unnamed
        /\ \A r \in Roots : obs'.copy[r] = IF r \in obs.reread THEN View(r) ELSE obs.copy[r]
    BY <1>0, <2>1 DEF ObsTyped
  <2>3. ObsTyped'
    BY <1>0, <2>1 DEF ObsTyped
  <2>4. HeadLeads'
    BY <1>0, <1>1, <2>1, <2>2 DEF HeadLeads
  <2>5. Behind' = Behind
    BY <1>1, <2>2 DEF Behind, MustReread, NotRetained
  <2>6. CopyKept'
    BY <1>0, <1>1, <1>2, <2>2, <2>5 DEF CopyKept
  <2>7. DirtyNamed'
    BY <1>0, <1>1, <2>1, <2>2, <2>5 DEF DirtyNamed
  <2>8. AnswerHolds'
    BY <1>0, <1>1, <1>2, <2>1, <2>2 DEF AnswerHolds
  <2> QED BY <1>2, <2>3, <2>4, <2>6, <2>7, <2>8 DEF FeedInv
<1> QED BY <1>3, <1>4, <1>5 DEF Follow

\* An observer asleep on an open channel holds what the store shows: Since and
\* Changed under every order of commits, activations and replaced files.
THEOREM ObserversStayCurrent == FSpec => []AsleepIsCurrent
<1>1. FInit => FeedInv
  <2> SUFFICES ASSUME FInit PROVE FeedInv
    OBVIOUS
  <2>1. NoRow \in FeedRow
    BY DEF NoRow, FeedRow
  <2>2. FeedTyped
    BY <2>1 DEF FInit, FeedTyped
  <2>3. ObsTyped
    BY DEF FInit, ObsTyped
  <2>4. ItemsHeld
    BY FeedAssumption DEF FInit, ItemsHeld, NoRow
  <2>5. HeadLeads
    BY DEF FInit, HeadLeads
  <2>6. CopyKept /\ DirtyNamed /\ AnswerHolds
    BY DEF FInit, CopyKept, DirtyNamed, AnswerHolds, Behind, MustReread
  <2> QED BY <2>2, <2>3, <2>4, <2>5, <2>6 DEF FeedInv
<1>2. FeedInv /\ [FNext]_fvars => FeedInv'
  <2> SUFFICES ASSUME FeedInv, [FNext]_fvars PROVE FeedInv'
    OBVIOUS
  <2>1. CASE UNCHANGED fvars
    BY <2>1 DEF fvars, store, FeedInv, FeedTyped, ObsTyped, ItemsHeld, HeadLeads, CopyKept, DirtyNamed,
                AnswerHolds, Behind, MustReread, NotRetained, View
  <2>2. CASE \E r \in Roots, i \in Insts \union {NoInst} : Attach(r, i)
    BY <2>2, AttachStep
  <2>3. CASE \E i \in Insts : PutFile(i) \/ PutFacts(i)
    BY <2>3, WriteStep
  <2>4. CASE Activate
    BY <2>4, WriteStep
  <2>5. CASE Replace \/ Follow
    BY <2>5, ReplaceStep, FollowStep
  <2> QED BY <2>1, <2>2, <2>3, <2>4, <2>5 DEF FNext
<1>3. FeedInv => AsleepIsCurrent
  BY DEF FeedInv, AnswerHolds, AsleepIsCurrent
<1> QED
  BY <1>1, <1>2, <1>3, PTL DEF FSpec

(***************************************************************************)
(* WorkQueue.                                                              *)
(***************************************************************************)
Works == held \union ran

\* The drainer holds nothing unless it runs something.
HoldsWhileRunning == phase # "running" => Works = {}

\* It holds one work for a video at most.
OneWorkEach == \A v, w \in Works : v.inst = w.inst => v = w

\* A video it holds a work of is stored or deleted, never to come.
WorksKnown == \A w \in Works : w.inst \in known \union gone

\* A video changed since its run began is queued past the run's generation.
RanBehind == \A w \in ran : w.inst \in changed => rows[w.inst].gen > w.gen

\* A row it holds is not deferred yet.
WorksDue == \A w \in Works : Queued(w.inst) => rows[w.inst].when # "later"

\* It has run a work or not.
RunOnce == held \intersect ran = {}

DrainerInv == HoldsWhileRunning /\ OneWorkEach /\ WorksKnown /\ RunOnce

QueueInv == /\ TypeOK /\ DrainerInv
            /\ NoLostWork /\ RunStaysQueued /\ RanBehind /\ WorksDue /\ ChangeIsDue

---------------------------------------------------------------------------
(* Types                                                                   *)

LEMMA QueueInitTyped == Init => TypeOK
<1> SUFFICES ASSUME Init PROVE TypeOK
  OBVIOUS
<1>1. IsTable(rows, known, Row)
  BY EmptyIsTable DEF Init
<1> QED
  BY <1>1 DEF Init, TypeOK, Phase

LEMMA RequeuedType ==
    ASSUME NEW r \in Row, NEW c \in Cause
    PROVE  /\ Requeued(r, c) \in Row
           /\ Requeued(r, c).gen = r.gen + 1
           /\ Requeued(r, c).when = "now"
<1>1. Higher(r.cause, c) \in Cause
  BY DEF Row, Higher
<1> DEFINE r1 == [r EXCEPT !.cause = Higher(r.cause, c)]
           r2 == [r1 EXCEPT !.gen = r.gen + 1]
<1>2. r1 \in Row /\ r1.gen = r.gen
  BY <1>1 DEF Row
<1> HIDE DEF r1
<1>3. r.gen + 1 \in Nat
  BY DEF Row
<1>4. r2 \in Row /\ r2.gen = r.gen + 1
  BY <1>2, <1>3 DEF Row
<1>5. Requeued(r, c) = [r2 EXCEPT !.when = "now"]
  BY <1>2 DEF Requeued, r1
<1> HIDE DEF r2
<1> QED
  BY <1>4, <1>5 DEF Row, When

LEMMA RowType ==
    ASSUME TypeOK, NEW i \in DOMAIN rows
    PROVE  rows[i] \in Row /\ i \in known /\ i \in Inst
BY DEF TypeOK, IsTable

LEMMA EnqueueRows ==
    ASSUME TypeOK, NEW i \in Inst, NEW c \in Cause, EnqueueWork(i, c)
    PROVE  /\ i \in known
           /\ IsTable(rows', known, Row)
           /\ DOMAIN rows' = DOMAIN rows \union {i}
           /\ rows'[i].when = "now"
           /\ Queued(i) => rows'[i].gen = rows[i].gen + 1
           /\ \A j \in DOMAIN rows : j # i => rows'[j] = rows[j]
           /\ next' \in Nat
<1>1. IsTable(rows, known, Row) /\ i \in known /\ next \in Nat
  BY DEF TypeOK, EnqueueWork
<1>2. ASSUME NEW new \in Row
      PROVE  /\ IsTable(Put(rows, i, new), known, Row)
             /\ DOMAIN Put(rows, i, new) = DOMAIN rows \union {i}
             /\ Put(rows, i, new)[i] = new
             /\ \A j \in DOMAIN rows : j # i => Put(rows, i, new)[j] = rows[j]
  BY <1>1 DEF IsTable, Put
<1>3. CASE Queued(i)
  <2>1. rows' = Put(rows, i, Requeued(rows[i], c)) /\ next' = next
    BY <1>3 DEF EnqueueWork
  <2>2. rows[i] \in Row
    BY <1>3, RowType DEF Queued
  <2> DEFINE new == Requeued(rows[i], c)
  <2>3. new \in Row /\ new.gen = rows[i].gen + 1 /\ new.when = "now"
    BY <2>2, RequeuedType
  <2>4. rows' = Put(rows, i, new)
    BY <2>1
  <2> HIDE DEF new
  <2>5. new \in Row
    BY <2>3
  <2>6. /\ IsTable(Put(rows, i, new), known, Row)
        /\ DOMAIN Put(rows, i, new) = DOMAIN rows \union {i}
        /\ Put(rows, i, new)[i] = new
        /\ \A j \in DOMAIN rows : j # i => Put(rows, i, new)[j] = rows[j]
    BY <2>5, <1>2
  <2> QED
    BY <1>1, <2>1, <2>3, <2>4, <2>6
<1>4. CASE ~Queued(i)
  <2> DEFINE new == [seq |-> next + 1, gen |-> 1, cause |-> c,
                     when |-> "now", first |-> "none"]
  <2>1. rows' = Put(rows, i, new) /\ next' = next + 1
    BY <1>4 DEF EnqueueWork
  <2>2. new \in Row /\ new.when = "now"
    BY <1>1 DEF Row, When, First
  <2>4. rows' = Put(rows, i, new)
    BY <2>1
  <2> HIDE DEF new
  <2>3. /\ IsTable(Put(rows, i, new), known, Row)
        /\ DOMAIN Put(rows, i, new) = DOMAIN rows \union {i}
        /\ Put(rows, i, new)[i] = new
        /\ \A j \in DOMAIN rows : j # i => Put(rows, i, new)[j] = rows[j]
    BY <2>2, <1>2
  <2> QED
    BY <1>1, <1>4, <2>1, <2>2, <2>3, <2>4 DEF Queued
<1> QED
  BY <1>3, <1>4

LEMMA ElapseRows ==
    ASSUME TypeOK, NEW i \in Inst, Elapse(i)
    PROVE  /\ IsTable(rows', known, Row)
           /\ DOMAIN rows' = DOMAIN rows
           /\ \A j \in DOMAIN rows :
                rows'[j].gen = rows[j].gen
                /\ (rows[j].when # "later" => rows'[j].when # "later")
<1>1. \A j \in DOMAIN rows : rows[j] \in Row
  BY RowType
<1>2. rows' = [rows EXCEPT ![i].when = "over"]
  BY DEF Elapse
<1> QED
  BY <1>1, <1>2 DEF TypeOK, IsTable, Row, When, First

LEMMA DeferRows ==
    ASSUME TypeOK, NEW w \in ran, DeferWork(w)
    PROVE  /\ IsTable(rows', known, Row)
           /\ DOMAIN rows' = DOMAIN rows
           /\ \A j \in DOMAIN rows :
                /\ rows'[j].gen = rows[j].gen
                /\ j # w.inst \/ ~Current(w) => rows'[j] = rows[j]
<1>1. \A j \in DOMAIN rows : rows[j] \in Row
  BY RowType
<1>2. CASE Current(w)
  <2> DEFINE i == w.inst
             new == [rows[i] EXCEPT !.when = "later", !.first = "set"]
  <2>1. rows' = [rows EXCEPT ![i] = new] /\ i \in DOMAIN rows
    BY <1>2 DEF DeferWork, Current, Queued
  <2>2. new \in Row /\ new.gen = rows[i].gen
    BY <1>1, <2>1 DEF Row, When, First
  <2> HIDE DEF new, i
  <2>3. IsTable(rows', known, Row) /\ DOMAIN rows' = DOMAIN rows
    BY <2>1, <2>2 DEF TypeOK, IsTable
  <2>4. rows'[i] = new /\ \A j \in DOMAIN rows : j # i => rows'[j] = rows[j]
    BY <2>1
  <2> QED
    BY <1>2, <2>2, <2>3, <2>4 DEF i
<1>3. CASE ~Current(w)
  BY <1>3 DEF DeferWork, TypeOK
<1> QED
  BY <1>2, <1>3

LEMMA AckRows ==
    ASSUME TypeOK, NEW W \in SUBSET ran, AckWork(W)
    PROVE  /\ IsTable(rows', known, Row)
           /\ DOMAIN rows' = DOMAIN rows \ {w.inst : w \in {x \in W : Current(x)}}
           /\ \A j \in DOMAIN rows' : rows'[j] = rows[j]
<1> DEFINE D == {w.inst : w \in {x \in W : Current(x)}}
<1>1. rows' = Drop(rows, D) /\ IsTable(rows, known, Row)
  BY DEF AckWork, TypeOK
<1> HIDE DEF D
<1>2. /\ IsTable(Drop(rows, D), known, Row)
      /\ DOMAIN Drop(rows, D) = DOMAIN rows \ D
      /\ \A j \in DOMAIN rows \ D : Drop(rows, D)[j] = rows[j]
  BY <1>1, DropIsTable
<1>3. /\ IsTable(rows', known, Row)
      /\ DOMAIN rows' = DOMAIN rows \ D
      /\ \A j \in DOMAIN rows' : rows'[j] = rows[j]
  BY <1>1, <1>2
<1> QED
  BY <1>3 DEF D

LEMMA DeleteRows ==
    ASSUME TypeOK, NEW i \in Inst, Delete(i)
    PROVE  /\ IsTable(rows', known \ {i}, Row)
           /\ DOMAIN rows' = DOMAIN rows \ {i}
           /\ \A j \in DOMAIN rows' : rows'[j] = rows[j]
<1>1. rows' = Drop(rows, {i}) /\ IsTable(rows, known, Row)
  BY DEF Delete, TypeOK
<1>2. /\ IsTable(Drop(rows, {i}), known, Row)
      /\ DOMAIN Drop(rows, {i}) = DOMAIN rows \ {i}
      /\ \A j \in DOMAIN rows \ {i} : Drop(rows, {i})[j] = rows[j]
  BY <1>1, DropIsTable
<1>3. IsTable(rows', known, Row) /\ DOMAIN rows' = DOMAIN rows \ {i}
      /\ \A j \in DOMAIN rows' : rows'[j] = rows[j]
  BY <1>1, <1>2
<1> QED
  BY <1>3 DEF IsTable

LEMMA ReadWorks ==
    ASSUME TypeOK, NEW I \in SUBSET DOMAIN rows, NextWork(I)
    PROVE  /\ held' \in SUBSET Work
           /\ \A w \in held' : /\ w.inst \in DOMAIN rows
                               /\ w = WorkOf(w.inst)
                               /\ w.gen = rows[w.inst].gen
                               /\ rows[w.inst].when # "later"
<1>1. \A i \in I : WorkOf(i) \in Work /\ WorkOf(i).inst = i /\ WorkOf(i).gen = rows[i].gen
  BY RowType DEF WorkOf, Work, Row
<1>2. held' = {WorkOf(i) : i \in I} /\ I \subseteq Due
  BY DEF NextWork, FirstDue
<1> QED
  BY <1>1, <1>2 DEF Due

---------------------------------------------------------------------------
(* Each action preserves the invariant                                     *)

LEMMA CreateInv ==
    ASSUME QueueInv, NEW i \in Inst, Create(i)
    PROVE  QueueInv'
<1>1. /\ i \notin known \union gone /\ known' = known \union {i}
      /\ UNCHANGED <<gone, rows, next, signals, wake, drainer, changed, crashes>>
  BY DEF Create
<1>2. TypeOK'
  BY <1>1 DEF QueueInv, TypeOK, IsTable, drainer
<1>3. DrainerInv'
  BY <1>1 DEF QueueInv, DrainerInv, HoldsWhileRunning, OneWorkEach, WorksKnown,
              RunOnce, Works, drainer
<1>4. RunStaysQueued'
  BY <1>1 DEF QueueInv, DrainerInv, WorksKnown, RunStaysQueued, Works, Queued, drainer
<1>5. NoLostWork' /\ RanBehind' /\ WorksDue' /\ ChangeIsDue'
  BY <1>1 DEF QueueInv, NoLostWork, RanBehind, WorksDue, ChangeIsDue, Works,
              Queued, drainer
<1> QED
  BY <1>2, <1>3, <1>4, <1>5 DEF QueueInv

LEMMA DeleteInv ==
    ASSUME QueueInv, NEW i \in Inst, Delete(i)
    PROVE  QueueInv'
<1>1. /\ known' = known \ {i} /\ gone' = gone \union {i} /\ changed' = changed \ {i}
      /\ UNCHANGED <<next, signals, wake, drainer, crashes>>
  BY DEF Delete
<1>2. /\ IsTable(rows', known', Row)
      /\ DOMAIN rows' = DOMAIN rows \ {i}
      /\ \A j \in DOMAIN rows' : rows'[j] = rows[j]
  BY <1>1, DeleteRows DEF QueueInv
<1>3. TypeOK'
  BY <1>1, <1>2 DEF QueueInv, TypeOK, drainer
<1>4. DrainerInv'
  BY <1>1 DEF QueueInv, DrainerInv, HoldsWhileRunning, OneWorkEach, WorksKnown,
              RunOnce, Works, drainer
<1>5. NoLostWork' /\ RunStaysQueued'
  BY <1>1, <1>2 DEF QueueInv, NoLostWork, RunStaysQueued, Queued, drainer
<1>6. RanBehind' /\ WorksDue' /\ ChangeIsDue'
  BY <1>1, <1>2 DEF QueueInv, NoLostWork, RanBehind, WorksDue, ChangeIsDue, Works,
                    Queued, drainer
<1> QED
  BY <1>3, <1>4, <1>5, <1>6 DEF QueueInv

LEMMA EnqueueInv ==
    ASSUME QueueInv, NEW i \in Inst, NEW c \in Cause, EnqueueWork(i, c)
    PROVE  QueueInv'
<1>1. /\ changed' = changed \union {i} /\ signals' = signals + 1
      /\ UNCHANGED <<known, gone, wake, drainer, crashes>>
  BY DEF EnqueueWork
<1>2. /\ i \in known
      /\ IsTable(rows', known, Row)
      /\ DOMAIN rows' = DOMAIN rows \union {i}
      /\ rows'[i].when = "now"
      /\ Queued(i) => rows'[i].gen = rows[i].gen + 1
      /\ \A j \in DOMAIN rows : j # i => rows'[j] = rows[j]
      /\ next' \in Nat
  BY EnqueueRows DEF QueueInv
<1>3. TypeOK'
  BY <1>1, <1>2 DEF QueueInv, TypeOK, drainer
<1>4. DrainerInv'
  BY <1>1 DEF QueueInv, DrainerInv, HoldsWhileRunning, OneWorkEach, WorksKnown,
              RunOnce, Works, drainer
<1>5. \A w \in Works : w.gen \in Nat
  BY DEF QueueInv, TypeOK, Work, Works
<1>6. \A j \in DOMAIN rows : rows[j].gen \in Nat
  BY RowType DEF QueueInv, Row
<1>7. NoLostWork' /\ ChangeIsDue' /\ WorksDue'
  BY <1>1, <1>2 DEF QueueInv, NoLostWork, ChangeIsDue, WorksDue, Works, Queued, drainer
<1>8. RunStaysQueued'
  <2>1. ASSUME NEW w \in Works, w.inst \in known
        PROVE  w.inst \in DOMAIN rows' /\ rows'[w.inst].gen >= w.gen
    <3>1. Queued(w.inst) /\ rows[w.inst].gen >= w.gen
      BY <2>1 DEF QueueInv, RunStaysQueued, Works
    <3>2. rows'[w.inst].gen \in {rows[w.inst].gen, rows[w.inst].gen + 1}
      BY <1>2, <3>1 DEF Queued
    <3> QED
      BY <1>2, <1>5, <1>6, <3>1, <3>2 DEF Queued
  <2> QED
    BY <1>1, <2>1 DEF RunStaysQueued, Works, Queued, drainer
<1>9. RanBehind'
  <2>1. ASSUME NEW w \in ran, w.inst \in changed'
        PROVE  rows'[w.inst].gen > w.gen
    <3>1. w.inst \in known
      BY <1>1, <1>2, <2>1 DEF QueueInv, TypeOK
    <3>2. Queued(w.inst) /\ rows[w.inst].gen >= w.gen
      BY <2>1, <3>1 DEF QueueInv, RunStaysQueued
    <3>3. w.gen \in Nat /\ rows[w.inst].gen \in Nat
      BY <1>5, <1>6, <3>2 DEF Works, Queued
    <3>4. CASE w.inst = i
      BY <1>2, <3>2, <3>3, <3>4
    <3>5. CASE w.inst # i
      BY <1>1, <1>2, <2>1, <3>2, <3>5 DEF QueueInv, RanBehind, Queued
    <3> QED
      BY <3>4, <3>5
  <2> QED
    BY <1>1, <2>1 DEF RanBehind, drainer
<1> QED
  BY <1>3, <1>4, <1>7, <1>8, <1>9 DEF QueueInv

LEMMA ElapseInv ==
    ASSUME QueueInv, NEW i \in Inst, Elapse(i)
    PROVE  QueueInv'
<1>1. UNCHANGED <<known, gone, next, signals, wake, drainer, changed, crashes>>
  BY DEF Elapse
<1>2. /\ IsTable(rows', known, Row)
      /\ DOMAIN rows' = DOMAIN rows
      /\ \A j \in DOMAIN rows :
           rows'[j].gen = rows[j].gen
           /\ (rows[j].when # "later" => rows'[j].when # "later")
  BY ElapseRows DEF QueueInv
<1>3. TypeOK'
  BY <1>1, <1>2 DEF QueueInv, TypeOK, drainer
<1>4. DrainerInv'
  BY <1>1 DEF QueueInv, DrainerInv, HoldsWhileRunning, OneWorkEach, WorksKnown,
              RunOnce, Works, drainer
<1>5. NoLostWork' /\ RunStaysQueued' /\ RanBehind'
  BY <1>1, <1>2 DEF QueueInv, NoLostWork, RunStaysQueued, RanBehind, Queued, drainer
<1>6. WorksDue' /\ ChangeIsDue'
  BY <1>1, <1>2 DEF QueueInv, WorksDue, ChangeIsDue, Works, Queued, drainer
<1> QED
  BY <1>3, <1>4, <1>5, <1>6 DEF QueueInv

LEMMA NextWorkInv ==
    ASSUME QueueInv, NEW I \in SUBSET DOMAIN rows, NextWork(I)
    PROVE  QueueInv'
<1>1. /\ phase = "reading" /\ phase' = (IF I = {} THEN "waiting" ELSE "running")
      /\ held' = {WorkOf(i) : i \in I}
      /\ UNCHANGED <<known, gone, rows, next, signals, wake, ran, changed, crashes>>
  BY DEF NextWork, stored
<1>2. ran = {} /\ ran' = {} /\ Works' = held'
  BY <1>1 DEF QueueInv, DrainerInv, HoldsWhileRunning, Works
<1>3. /\ held' \in SUBSET Work
      /\ \A w \in held' : /\ w.inst \in DOMAIN rows
                          /\ w = WorkOf(w.inst)
                          /\ w.gen = rows[w.inst].gen
                          /\ rows[w.inst].when # "later"
  BY ReadWorks DEF QueueInv
<1>4. TypeOK'
  BY <1>1, <1>3 DEF QueueInv, TypeOK, Phase
<1>5. DrainerInv'
  <2>1. HoldsWhileRunning'
    BY <1>1, <1>2 DEF HoldsWhileRunning
  <2>2. OneWorkEach' /\ RunOnce'
    BY <1>2, <1>3 DEF OneWorkEach, RunOnce
  <2>3. WorksKnown'
    BY <1>1, <1>2, <1>3, RowType DEF WorksKnown, QueueInv
  <2> QED
    BY <2>1, <2>2, <2>3 DEF DrainerInv
<1>6. \A j \in DOMAIN rows : rows[j].gen \in Nat
  BY RowType DEF QueueInv, Row
<1>7. RunStaysQueued'
  BY <1>1, <1>2, <1>3, <1>6 DEF RunStaysQueued, Queued
<1>8. WorksDue'
  BY <1>1, <1>2, <1>3 DEF WorksDue, Queued
<1>9. NoLostWork' /\ RanBehind' /\ ChangeIsDue'
  BY <1>1, <1>2 DEF QueueInv, NoLostWork, RanBehind, ChangeIsDue, Queued
<1> QED
  BY <1>4, <1>5, <1>7, <1>8, <1>9 DEF QueueInv

LEMMA RunInv ==
    ASSUME QueueInv, NEW w \in held, Run(w)
    PROVE  QueueInv'
<1>1. /\ held' = held \ {w} /\ ran' = ran \union {w} /\ changed' = changed \ {w.inst}
      /\ UNCHANGED <<known, gone, rows, next, signals, wake, phase, crashes>>
  BY DEF Run, stored
<1>2. Works' = Works /\ Works # {}
  BY <1>1 DEF Works
<1>3. TypeOK'
  BY <1>1 DEF QueueInv, TypeOK
<1>4. DrainerInv'
  BY <1>1, <1>2 DEF QueueInv, DrainerInv, HoldsWhileRunning, OneWorkEach,
                    WorksKnown, RunOnce
<1>5. RunStaysQueued' /\ WorksDue'
  BY <1>1, <1>2 DEF QueueInv, RunStaysQueued, WorksDue, Works, Queued
<1>6. NoLostWork' /\ RanBehind' /\ ChangeIsDue'
  BY <1>1 DEF QueueInv, NoLostWork, RanBehind, ChangeIsDue, Queued
<1> QED
  BY <1>3, <1>4, <1>5, <1>6 DEF QueueInv

LEMMA AckInv ==
    ASSUME QueueInv, NEW W \in SUBSET ran, AckWork(W)
    PROVE  QueueInv'
<1> DEFINE Done == {x \in W : Current(x)}
<1>1. /\ ran' = ran \ W
      /\ UNCHANGED <<known, gone, next, signals, wake, phase, held, changed, crashes>>
  BY DEF AckWork
<1>2. /\ IsTable(rows', known, Row)
      /\ DOMAIN rows' = DOMAIN rows \ {w.inst : w \in Done}
      /\ \A j \in DOMAIN rows' : rows'[j] = rows[j]
  BY AckRows DEF QueueInv
<1>3. TypeOK'
  BY <1>1, <1>2 DEF QueueInv, TypeOK
<1>4. DrainerInv'
  BY <1>1 DEF QueueInv, DrainerInv, HoldsWhileRunning, OneWorkEach, WorksKnown,
              RunOnce, Works
<1>5. NoLostWork'
  <2>1. ASSUME NEW i \in changed, NEW x \in Done, x.inst = i
        PROVE  FALSE
    <3>1. rows[i].gen > x.gen /\ rows[i].gen = x.gen /\ x.gen \in Nat
      BY <2>1 DEF QueueInv, RanBehind, Current, TypeOK, Work
    <3> QED
      BY <3>1
  <2> QED
    BY <1>1, <1>2, <2>1 DEF QueueInv, NoLostWork, Queued
<1>6. \A w \in Works' : \A x \in Done : w.inst # x.inst
  BY <1>1 DEF QueueInv, DrainerInv, OneWorkEach, RunOnce, Works
<1>7. RunStaysQueued'
  BY <1>1, <1>2, <1>6 DEF QueueInv, RunStaysQueued, Works, Queued
<1>8. RanBehind' /\ WorksDue' /\ ChangeIsDue'
  BY <1>1, <1>2, <1>5 DEF QueueInv, RanBehind, WorksDue, ChangeIsDue, NoLostWork,
                          Works, Queued
<1> QED
  BY <1>3, <1>4, <1>5, <1>7, <1>8 DEF QueueInv

LEMMA DeferInv ==
    ASSUME QueueInv, NEW w \in ran, DeferWork(w)
    PROVE  QueueInv'
<1>1. /\ ran' = ran \ {w}
      /\ UNCHANGED <<known, gone, next, signals, wake, phase, held, changed, crashes>>
  BY DEF DeferWork
<1>2. /\ IsTable(rows', known, Row)
      /\ DOMAIN rows' = DOMAIN rows
      /\ \A j \in DOMAIN rows :
           /\ rows'[j].gen = rows[j].gen
           /\ j # w.inst \/ ~Current(w) => rows'[j] = rows[j]
  BY DeferRows DEF QueueInv
<1>3. TypeOK'
  BY <1>1, <1>2 DEF QueueInv, TypeOK
<1>4. DrainerInv'
  BY <1>1 DEF QueueInv, DrainerInv, HoldsWhileRunning, OneWorkEach, WorksKnown,
              RunOnce, Works
<1>5. NoLostWork' /\ RunStaysQueued'
  BY <1>1, <1>2 DEF QueueInv, NoLostWork, RunStaysQueued, Queued
<1>6. RanBehind'
  BY <1>1, <1>2 DEF QueueInv, NoLostWork, RanBehind, Queued
<1>7. \A x \in Works' : x.inst # w.inst
  BY <1>1 DEF QueueInv, DrainerInv, OneWorkEach, RunOnce, Works
<1>8. WorksDue'
  BY <1>1, <1>2, <1>7 DEF QueueInv, WorksDue, Works, Queued
<1>9. w.inst \in changed => ~Current(w)
  <2>1. ASSUME w.inst \in changed, Current(w)
        PROVE  FALSE
    <3>1. rows[w.inst].gen > w.gen /\ rows[w.inst].gen = w.gen /\ w.gen \in Nat
      BY <2>1 DEF QueueInv, RanBehind, Current, TypeOK, Work
    <3> QED
      BY <3>1
  <2> QED
    BY <2>1
<1>10. ChangeIsDue'
  BY <1>1, <1>2, <1>9 DEF QueueInv, ChangeIsDue, Queued
<1> QED
  BY <1>3, <1>4, <1>5, <1>6, <1>8, <1>10 DEF QueueInv

\* The steps that leave the store and the drainer's works alone.
LEMMA SignalWakeReadInv ==
    ASSUME QueueInv, SignalWork \/ Wake \/ ReadAgain
    PROVE  QueueInv'
<1>1. UNCHANGED <<known, gone, rows, next, held, ran, changed, crashes>>
  BY DEF SignalWork, Wake, ReadAgain, stored, drainer
<1>2. signals' \in Nat /\ wake' \in BOOLEAN /\ phase' \in Phase
  <2>1. signals \in Nat /\ wake \in BOOLEAN /\ phase \in Phase
    BY DEF QueueInv, TypeOK
  <2>2. CASE SignalWork
    BY <2>1, <2>2 DEF SignalWork, drainer
  <2>3. CASE Wake
    BY <2>1, <2>3 DEF Wake, Phase
  <2>4. CASE ReadAgain
    BY <2>1, <2>4 DEF ReadAgain, Phase
  <2> QED
    BY <2>2, <2>3, <2>4
<1>3. phase' # "running" => phase # "running" \/ Works = {}
  BY DEF SignalWork, Wake, ReadAgain, Works, drainer
<1>4. TypeOK'
  BY <1>1, <1>2 DEF QueueInv, TypeOK
<1>5. DrainerInv'
  BY <1>1, <1>3 DEF QueueInv, DrainerInv, HoldsWhileRunning, OneWorkEach,
                    WorksKnown, RunOnce, Works
<1>6. NoLostWork' /\ RunStaysQueued' /\ RanBehind' /\ WorksDue' /\ ChangeIsDue'
  BY <1>1 DEF QueueInv, NoLostWork, RunStaysQueued, RanBehind, WorksDue,
              ChangeIsDue, Works, Queued
<1> QED
  BY <1>4, <1>5, <1>6 DEF QueueInv

LEMMA ReopenInv ==
    ASSUME QueueInv, Reopen
    PROVE  QueueInv'
<1> DEFINE redo == {w.inst : w \in ran} \intersect DOMAIN rows
<1>1. /\ signals' = 0 /\ wake' = Stored /\ crashes' = crashes + 1
      /\ phase' = "waiting" /\ held' = {} /\ ran' = {}
      /\ changed' = changed \union redo
      /\ UNCHANGED <<known, gone, rows, next>>
  BY DEF Reopen, stored
<1>2. \A i \in redo : Queued(i) /\ i \in known /\ rows[i].when # "later"
  BY RowType DEF QueueInv, WorksDue, Works, Queued
<1> HIDE DEF redo
<1>3. TypeOK'
  BY <1>1, <1>2 DEF QueueInv, TypeOK, Phase, Stored
<1>4. DrainerInv' /\ RunStaysQueued' /\ RanBehind' /\ WorksDue'
  BY <1>1 DEF DrainerInv, HoldsWhileRunning, OneWorkEach, WorksKnown, RunOnce,
              RunStaysQueued, RanBehind, WorksDue, Works
<1>5. NoLostWork' /\ ChangeIsDue'
  BY <1>1, <1>2 DEF QueueInv, NoLostWork, ChangeIsDue, Queued
<1> QED
  BY <1>3, <1>4, <1>5 DEF QueueInv

---------------------------------------------------------------------------
(* The wake                                                                *)

\* A read that answers nothing leaves nothing due.
LEMMA NothingDue ==
    ASSUME NextWork({})
    PROVE  \A i \in DOMAIN rows : rows[i].when = "later"
<1>1. Cardinality({}) = 0
  BY FS_EmptySet
<1>2. Due = {}
  BY <1>1, LimitAssumption DEF NextWork, FirstDue
<1> QED
  BY <1>2 DEF Due

LEMMA WakeInv ==
    ASSUME QueueInv, NoLostWake, [Next]_vars
    PROVE  NoLostWake'
<1>1. signals \in Nat /\ wake \in BOOLEAN
  BY DEF QueueInv, TypeOK
<1>2. ASSUME NEW i \in Inst, NEW c \in Cause, EnqueueWork(i, c)
      PROVE  NoLostWake'
  BY <1>1, <1>2 DEF EnqueueWork, NoLostWake
<1>3. ASSUME NEW i \in Inst, Create(i) \/ Delete(i)
      PROVE  NoLostWake'
  <2>1. /\ UNCHANGED <<signals, wake, phase>>
        /\ \A j \in DOMAIN rows' : j \in DOMAIN rows /\ rows'[j] = rows[j]
    BY <1>3, DeleteRows DEF Create, Delete, drainer, QueueInv
  <2> QED
    BY <2>1 DEF NoLostWake
<1>4. ASSUME NEW i \in Inst, Elapse(i)
      PROVE  NoLostWake'
  <2>1. \A j \in DOMAIN rows' : j \in DOMAIN rows /\ (rows'[j].when = "now" => rows[j].when = "now")
    <3>1. rows' = [rows EXCEPT ![i].when = "over"] /\ i \in DOMAIN rows
      BY <1>4 DEF Elapse, Queued
    <3>2. rows[i] \in Row
      BY <3>1, RowType DEF QueueInv
    <3>3. rows'[i].when = "over"
      BY <3>1, <3>2 DEF Row
    <3> QED
      BY <3>1, <3>3
  <2> QED
    BY <1>4, <2>1 DEF Elapse, NoLostWake, drainer
<1>5. CASE SignalWork
  BY <1>5 DEF SignalWork, NoLostWake
<1>6. CASE Wake \/ ReadAgain
  BY <1>6 DEF Wake, ReadAgain, NoLostWake
<1>7. ASSUME NEW I \in SUBSET DOMAIN rows, NextWork(I)
      PROVE  NoLostWake'
  <2>1. CASE I = {}
    BY <1>7, <2>1, NothingDue DEF NextWork, NoLostWake, stored
  <2>2. CASE I # {}
    BY <1>7, <2>2 DEF NextWork, NoLostWake
  <2> QED
    BY <2>1, <2>2
<1>8. CASE (\E w \in held : Run(w)) \/ Settle
  <2>1. Works # {} /\ phase' = phase
    BY <1>8 DEF Works, Run, Settle, AckWork, DeferWork
  <2>2. phase' = "running"
    BY <2>1 DEF QueueInv, DrainerInv, HoldsWhileRunning
  <2> QED
    BY <2>2 DEF NoLostWake
<1>9. CASE Reopen
  BY <1>9 DEF Reopen, Stored, stored, NoLostWake
<1>10. CASE UNCHANGED vars
  BY <1>10 DEF vars, stored, drainer, NoLostWake
<1> QED
  BY <1>2, <1>3, <1>4, <1>5, <1>6, <1>7, <1>8, <1>9, <1>10 DEF Next

---------------------------------------------------------------------------
(* Theorems                                                                *)

LEMMA QueueInit == Init => QueueInv /\ NoLostWake
<1> SUFFICES ASSUME Init PROVE QueueInv /\ NoLostWake
  OBVIOUS
<1>1. TypeOK
  BY QueueInitTyped
<1>2. Works = {} /\ changed = {} /\ ran = {} /\ rows = EmptyTable
  BY DEF Init, Works
<1>3. DrainerInv
  BY <1>2 DEF DrainerInv, HoldsWhileRunning, OneWorkEach, WorksKnown, RunOnce
<1>4. NoLostWork /\ RunStaysQueued /\ RanBehind /\ WorksDue /\ ChangeIsDue
  BY <1>2 DEF NoLostWork, RunStaysQueued, RanBehind, WorksDue, ChangeIsDue, Works
<1>5. NoLostWake
  BY <1>2 DEF NoLostWake, EmptyTable
<1> QED
  BY <1>1, <1>3, <1>4, <1>5 DEF QueueInv

LEMMA QueueNext == QueueInv /\ [Next]_vars => QueueInv'
<1> SUFFICES ASSUME QueueInv, [Next]_vars PROVE QueueInv'
  OBVIOUS
<1>1. CASE UNCHANGED vars
  BY <1>1 DEF vars, stored, drainer, QueueInv, TypeOK, DrainerInv,
              HoldsWhileRunning, OneWorkEach, WorksKnown, RunOnce, Works,
              NoLostWork, RunStaysQueued, RanBehind, WorksDue, ChangeIsDue, Queued
<1>2. CASE Settle
  BY <1>2, AckInv, DeferInv DEF Settle
<1>3. CASE \E w \in held : Run(w)
  BY <1>3, RunInv
<1>4. CASE \E I \in SUBSET DOMAIN rows : NextWork(I)
  BY <1>4, NextWorkInv
<1>5. CASE Reopen
  BY <1>5, ReopenInv
<1>6. CASE SignalWork \/ Wake \/ ReadAgain
  BY <1>6, SignalWakeReadInv
<1>7. ASSUME NEW i \in Inst,
             Create(i) \/ Delete(i) \/ Elapse(i) \/ \E c \in Cause : EnqueueWork(i, c)
      PROVE  QueueInv'
  BY <1>7, CreateInv, DeleteInv, ElapseInv, EnqueueInv
<1> QED
  BY <1>1, <1>2, <1>3, <1>4, <1>5, <1>6, <1>7 DEF Next

\* The queue's invariant: the types, what the drainer holds, and how the
\* rows' generations stand to it.
THEOREM QueueInvariance == Spec => []QueueInv
<1>1. Init => QueueInv
  BY QueueInit
<1>2. QueueInv /\ [Next]_vars => QueueInv'
  BY QueueNext
<1> QED
  BY <1>1, <1>2, PTL DEF Spec

\* Every row the queue stores is well formed and names a stored video.
THEOREM QueueTyped == Spec => []TypeOK
<1>1. QueueInv => TypeOK
  BY DEF QueueInv
<1> QED
  BY <1>1, QueueInvariance, PTL

\* AckWork's generation check is enough: whatever is enqueued while a run
\* goes on, and wherever the process ends, a change no run has seen stays
\* queued.
THEOREM NoChangeLost == Spec => []NoLostWork
<1>1. QueueInv => NoLostWork
  BY DEF QueueInv
<1> QED
  BY <1>1, QueueInvariance, PTL

\* A video the drainer has read stays queued until it is acknowledged.
THEOREM RunsAreRestartable == Spec => []RunStaysQueued
<1>1. QueueInv => RunStaysQueued
  BY DEF QueueInv
<1> QED
  BY <1>1, QueueInvariance, PTL

\* DeferWork's generation check is enough: a change after the run it ends
\* is due at once.
THEOREM ChangesAreDue == Spec => []ChangeIsDue
<1>1. QueueInv => ChangeIsDue
  BY DEF QueueInv
<1> QED
  BY <1>1, QueueInvariance, PTL

\* The one-place wake channel loses no enqueue, whatever order the drainer's
\* last read, the commit and its signal come in, and across a restart.
THEOREM NoWakeLost == Spec => []NoLostWake
<1>1. Init => NoLostWake
  BY QueueInit
<1>2. QueueInv /\ NoLostWake /\ [Next]_vars => NoLostWake'
  BY WakeInv
<1> QED
  BY <1>1, <1>2, QueueInvariance, PTL DEF Spec

\* A change keeps its video queued and due, and a run keeps it queued.
THEOREM WorkStaysKept == Spec => []WorkKept
BY NoChangeLost, RunsAreRestartable, ChangesAreDue, PTL DEF WorkKept
=============================================================================
