-------------------------- MODULE OwnershipProofs --------------------------
(***************************************************************************)
(* Proofs about which source owns which video.                             *)
(*                                                                         *)
(* A call of the store is a chain of operators on a transaction record,    *)
(* and its tables are consistent only at the end: settle deletes the empty *)
(* videos, hands released keys on and recomputes the touched ones.  So the *)
(* proof has two layers.                                                   *)
(*                                                                         *)
(*   Core        what every operator of a running call keeps; it excuses   *)
(*               an empty video in emptied, a record with no video in      *)
(*               released, and the rows of a key in touched.               *)
(*   Kept        what the call owes to the videos it began with: those     *)
(*               pinned keep path and items, those with an owner keep it.  *)
(*   Sound(t, A, p, Stray, L, T)                                           *)
(*               Core, where the keys still to repair are named: those of  *)
(*               L to hand on, of T to recompute; settle goes from all     *)
(*               the released and touched keys down to none (Settled).     *)
(*   Stray       the locks each item may hold with no record: rigid        *)
(*               through a call, whose operators add none.                 *)
(*   IInv        Core of a transaction that has done nothing: what the     *)
(*               committed tables satisfy between calls, Stray being what  *)
(*               landed deliveries left (Strays).                          *)
(*                                                                         *)
(* Each operator has a lemma that names the fields it changes and one that *)
(* says it keeps Core and Kept, or ends on error "pinned"; those of a      *)
(* report also say which videos it spares (Spares, Advances).  Each action *)
(* has one that says it keeps IInv, that pinned videos and live owners do  *)
(* not move, and that no renumbering takes a video out of the store.       *)
(***************************************************************************)
EXTENDS Ownership, TableTheorems

\* The rows of the tables, and what a video is.
Sighting == [key : Key \union {NoKey}, path : Path \union {NoPath}, lang : Profile]
Refusal == [owner : Source, byKey : BOOLEAN]
Holding == [ref : Ref, inst : Nat]
Video == [owner : Source \union {NoOwner}, path : Path, items : SUBSET Key,
          expired : BOOLEAN]

\* t has the fields of a transaction and no other.
Rec(t) ==
    t = [sightings |-> t.sightings, roots |-> t.roots, seenRoots |-> t.seenRoots,
         seen |-> t.seen, overlaps |-> t.overlaps, items |-> t.items,
         instances |-> t.instances, next |-> t.next, evidence |-> t.evidence,
         locks |-> t.locks, coverage |-> t.coverage, work |-> t.work,
         released |-> t.released, emptied |-> t.emptied, attached |-> t.attached,
         touched |-> t.touched, pinned |-> t.pinned, error |-> t.error]

\* The fields of t have their types; ids given out are 1 .. t.next.
Typed(t) ==
    /\ Rec(t) /\ t.error = "none"
    /\ t.roots \subseteq Root /\ t.seenRoots \subseteq Root /\ t.seen \subseteq Ref
    /\ IsTable(t.sightings, Ref, Sighting)
    /\ IsTable(t.overlaps, Ref, Refusal)
    /\ IsTable(t.items, Key, Holding)
    /\ t.next \in Nat
    /\ IsTable(t.instances, 1 .. t.next, Video)
    /\ IsTable(t.evidence, DOMAIN t.instances, SUBSET Sub)
    /\ DOMAIN t.evidence = DOMAIN t.instances
    /\ t.locks \in [Key -> SUBSET Pair]
    /\ t.work \subseteq DOMAIN t.instances
    /\ t.released \subseteq t.touched

\* A record that names a video names one that exists and holds its key.
Linked(t) ==
    \A k \in DOMAIN t.items : t.items[k].inst # NoInst =>
        /\ t.items[k].inst \in DOMAIN t.instances
        /\ k \in t.instances[t.items[k].inst].items

\* A video with an owner holds the keys recorded for it and no other.
Held(t) ==
    \A i \in DOMAIN t.instances : t.instances[i].owner # NoOwner =>
        \A k \in t.instances[i].items : k \in DOMAIN t.items /\ t.items[k].inst = i

\* ref reports item k at path p.
ReportsAt(t, ref, k, p) ==
    /\ ref \in DOMAIN t.sightings
    /\ t.sightings[ref].key = k /\ t.sightings[ref].path = p

\* A video with an owner is reported by its source, with all its keys; one that
\* holds no key is waiting for settle.
Sourced(t, A) ==
    \A i \in DOMAIN t.instances : t.instances[i].owner # NoOwner =>
        /\ t.instances[i].owner \in A
        /\ t.instances[i].items = {} => i \in t.emptied
        /\ \A k \in t.instances[i].items :
              /\ SourceOfRef(t.items[k].ref) = t.instances[i].owner
              /\ ReportsAt(t, t.items[k].ref, k, t.instances[i].path)

\* No two videos share a path.
Apart(t) ==
    \A i, j \in DOMAIN t.instances :
        t.instances[i].path = t.instances[j].path => i = j

\* A record with no video is of a sighting with none, or was released by t.
Unheld(t) ==
    \A k \in DOMAIN t.items : t.items[k].inst = NoInst =>
        k \in t.released \/ ReportsAt(t, t.items[k].ref, k, NoPath)

\* A refused claim names a live source other than its own, is still reported,
\* and does not provide its item, unless as one of an ownerless video.
Refused(t, A) ==
    \A ref \in DOMAIN t.overlaps :
        /\ t.overlaps[ref].owner \in A /\ t.overlaps[ref].owner # SourceOfRef(ref)
        /\ ref \in DOMAIN t.sightings
        /\ t.sightings[ref].key # NoKey /\ t.sightings[ref].path # NoPath
        /\ \A k \in DOMAIN t.items : t.items[k].ref = ref /\ t.sightings[ref].key = k =>
              Ownerless(t, k) \/ (t.items[k].inst = NoInst /\ k \in t.released)

\* The rows of k are those a fresh computation gives.
GradedAt(t, p, k) ==
    /\ k \in DOMAIN t.coverage
    /\ t.coverage[k] = CoverageRow(p, t.sightings[t.items[k].ref].lang, ItemEvidence(t, k))
    /\ t.locks[k] \subseteq Wants[p][t.sightings[t.items[k].ref].lang]

\* Rows are of recorded items only, but for the locks of Stray, and current
\* where t touched nothing.
Graded(t, p, Stray) ==
    /\ DOMAIN t.coverage \subseteq DOMAIN t.items
    /\ \A k \in Key \ DOMAIN t.items : t.locks[k] \subseteq Stray[k]
    /\ \A k \in DOMAIN t.items \ t.touched : ~Ownerless(t, k) => GradedAt(t, p, k)

\* What every step of a running transaction keeps.
Core(t, A, p, Stray) ==
    /\ Typed(t)
    /\ Linked(t) /\ Held(t) /\ Sourced(t, A) /\ Apart(t)
    /\ Unheld(t) /\ Refused(t, A)
    /\ Graded(t, p, Stray)

\* What t owes to the videos the store held in b, where it began.
Kept(b, t) ==
    /\ t.pinned = b.pinned
    /\ b.next \in Nat /\ b.next <= t.next /\ DOMAIN b.instances \subseteq 1 .. b.next
    /\ t.emptied \intersect b.pinned = {}
    /\ \A i \in b.pinned :
          /\ i \in DOMAIN t.instances
          /\ t.instances[i].path = b.instances[i].path
          /\ t.instances[i].items = b.instances[i].items
    /\ \A i \in DOMAIN b.instances \intersect DOMAIN t.instances :
          b.instances[i].owner # NoOwner => t.instances[i].owner = b.instances[i].owner

\* A ref is stamped with its root.
RootsStamped == \A ref \in seen : RootOf[ref] \in seenRoots

\* The locks of the items with no record.
Strays == [k \in Key |-> IF k \in DOMAIN items THEN {} ELSE locks[k]]

\* The invariant: the stored tables are those of a transaction that has done
\* nothing yet, so nothing is left for settle to repair.
IInv ==
    /\ policy \in Policy /\ active \subseteq Source
    /\ IsTable(passes, active, Scopes)
    /\ next <= MaxInst
    /\ pinned \subseteq DOMAIN instances
    /\ broken = FALSE
    /\ RootsStamped
    /\ Core(Begun, active, policy, Strays)

\* u differs from t in neither reports, nor videos, nor rows, respectively.
SameReports(t, u) ==
    /\ u.sightings = t.sightings /\ u.roots = t.roots
    /\ u.seenRoots = t.seenRoots /\ u.seen = t.seen /\ u.pinned = t.pinned
SameVideos(t, u) ==
    /\ u.instances = t.instances /\ u.next = t.next /\ u.evidence = t.evidence
    /\ u.work = t.work
SameGrades(t, u) == u.locks = t.locks /\ u.coverage = t.coverage

\* u has no sighting that t has not, and stamps no ref that t does not stamp, or
\* without the root that t stamps with it.
Fewer(t, u) ==
    /\ \A ref \in DOMAIN u.sightings :
          ref \in DOMAIN t.sightings /\ u.sightings[ref] = t.sightings[ref]
    /\ \A ref \in u.seen :
          ref \in t.seen /\ (RootOf[ref] \in t.seenRoots => RootOf[ref] \in u.seenRoots)

\* Zero is the id of no video.
LEMMA NoInstIsNone ==
    ASSUME NEW t, Typed(t)
    PROVE  NoInst \notin DOMAIN t.instances
<1>1. t.next \in Nat /\ DOMAIN t.instances \subseteq 1 .. t.next
  BY DEF Typed, IsTable
<1>. QED BY <1>1 DEF NoInst

\* u has the records of t, those of K no longer naming an instance.
Unlinked(t, u, K) ==
    /\ IsTable(u.items, Key, Holding)
    /\ DOMAIN u.items = DOMAIN t.items
    /\ \A k \in DOMAIN t.items : u.items[k].ref = t.items[k].ref
    /\ \A k \in DOMAIN t.items \intersect K : u.items[k].inst = NoInst
    /\ \A k \in DOMAIN t.items \ K : u.items[k].inst = t.items[k].inst
    /\ u.released = t.released \union K /\ u.touched = t.touched \union K

\* Freed unlinks the records of K and touches nothing else.
LEMMA FreedFields ==
    ASSUME NEW t, Rec(t), IsTable(t.items, Key, Holding), NEW K, NEW u, u = Freed(t, K)
    PROVE  /\ Rec(u) /\ SameReports(t, u) /\ SameVideos(t, u) /\ SameGrades(t, u)
           /\ u.overlaps = t.overlaps /\ u.error = t.error
           /\ u.emptied = t.emptied /\ u.attached = t.attached
           /\ Unlinked(t, u, K)
<1>. DEFINE f == [k \in DOMAIN t.items |->
                            IF k \in K THEN [ref |-> t.items[k].ref, inst |-> NoInst]
                            ELSE t.items[k]]
<1>1. u = [t EXCEPT !.items = f, !.released = @ \union K, !.touched = @ \union K]
  BY DEF Freed
<1>2. IsTable(f, Key, Holding)
  BY DEF IsTable, Holding, NoInst
<1>3. /\ DOMAIN f = DOMAIN t.items
      /\ \A k \in DOMAIN t.items : f[k].ref = t.items[k].ref
      /\ \A k \in DOMAIN t.items \intersect K : f[k].inst = NoInst
      /\ \A k \in DOMAIN t.items \ K : f[k].inst = t.items[k].inst
  OBVIOUS
<1>. HIDE DEF f
<1>4. /\ Rec(u) /\ SameReports(t, u) /\ SameVideos(t, u) /\ SameGrades(t, u)
      /\ u.overlaps = t.overlaps /\ u.error = t.error
      /\ u.emptied = t.emptied /\ u.attached = t.attached
      /\ u.items = f
      /\ u.released = t.released \union K /\ u.touched = t.touched \union K
  BY <1>1 DEF Rec, SameReports, SameVideos, SameGrades
<1>. QED BY <1>2, <1>3, <1>4 DEF Unlinked

\* Rows stay current when the items neither touched nor ownerless in u were so in
\* t, with the same evidence and language.
LEMMA GradedFollows ==
    ASSUME NEW t, NEW u, NEW p, NEW Stray, Graded(t, p, Stray), SameGrades(t, u),
           DOMAIN t.items \subseteq DOMAIN u.items,
           \A k \in DOMAIN u.items \ u.touched : ~Ownerless(u, k) =>
               /\ k \in DOMAIN t.items \ t.touched /\ ~Ownerless(t, k)
               /\ ItemEvidence(u, k) = ItemEvidence(t, k)
               /\ u.items[k].ref = t.items[k].ref
               /\ u.sightings[t.items[k].ref].lang = t.sightings[t.items[k].ref].lang
    PROVE  Graded(u, p, Stray)
<1>1. SUFFICES ASSUME NEW k \in DOMAIN u.items \ u.touched, ~Ownerless(u, k)
               PROVE  GradedAt(u, p, k)
  BY DEF Graded, SameGrades
<1>. QED BY <1>1 DEF Graded, GradedAt, SameGrades

\* Freeing records of keys that no owned video holds keeps Core.
LEMMA FreeKeeps ==
    ASSUME NEW t, NEW A, NEW p, NEW Stray, Core(t, A, p, Stray), NEW K, K \subseteq DOMAIN t.items,
           \A i \in DOMAIN t.instances :
               t.instances[i].owner # NoOwner => t.instances[i].items \intersect K = {},
           NEW u, u = Freed(t, K)
    PROVE  Core(u, A, p, Stray)
<1>0. /\ Rec(u) /\ SameReports(t, u) /\ SameVideos(t, u) /\ SameGrades(t, u)
      /\ u.overlaps = t.overlaps /\ u.error = t.error
      /\ u.emptied = t.emptied /\ u.attached = t.attached
      /\ Unlinked(t, u, K)
  <2>1. Rec(t) /\ IsTable(t.items, Key, Holding)
    BY DEF Core, Typed
  <2>. QED BY <2>1, FreedFields
<1>1. /\ Rec(u) /\ SameReports(t, u) /\ SameVideos(t, u) /\ SameGrades(t, u)
      /\ u.overlaps = t.overlaps /\ u.error = t.error
      /\ u.emptied = t.emptied /\ u.attached = t.attached
      /\ u.released = t.released \union K /\ u.touched = t.touched \union K
  BY <1>0 DEF Unlinked
<1>2. /\ IsTable(u.items, Key, Holding)
      /\ DOMAIN u.items = DOMAIN t.items
      /\ \A k \in DOMAIN u.items : u.items[k].ref = t.items[k].ref
      /\ \A k \in K : u.items[k].inst = NoInst
      /\ \A k \in DOMAIN u.items \ K : u.items[k].inst = t.items[k].inst
  BY <1>0 DEF Unlinked
<1>3. Typed(u)
  BY <1>1, <1>2 DEF Core, Typed, SameReports, SameVideos, SameGrades
<1>4. Linked(u)
  BY <1>1, <1>2 DEF Core, Linked, SameVideos
<1>5. Held(u)
  BY <1>1, <1>2 DEF Core, Held, SameVideos
<1>6. Sourced(u, A)
  BY <1>1, <1>2 DEF Core, Sourced, Held, SameVideos, SameReports, ReportsAt
<1>7. Apart(u)
  BY <1>1 DEF Core, Apart, SameVideos
<1>8. Unheld(u)
  BY <1>1, <1>2 DEF Core, Unheld, SameReports, ReportsAt
<1>9. Refused(u, A)
  BY <1>1, <1>2 DEF Core, Refused, SameVideos, SameReports, Ownerless
<1>10. Graded(u, p, Stray)
  <2>1. SUFFICES ASSUME NEW k \in DOMAIN u.items \ u.touched, ~Ownerless(u, k)
                 PROVE  /\ k \in DOMAIN t.items \ t.touched /\ ~Ownerless(t, k)
                        /\ ItemEvidence(u, k) = ItemEvidence(t, k)
    BY <1>1, <1>2, GradedFollows DEF Core, SameReports
  <2>. QED BY <1>1, <1>2, <2>1 DEF Ownerless, ItemEvidence, SameVideos
<1>. QED BY <1>3, <1>4, <1>5, <1>6, <1>7, <1>8, <1>9, <1>10 DEF Core

\* Unlinking ownerless videos keeps Core, and no record names one afterwards.
LEMMA UnlinkKeeps ==
    ASSUME NEW t, NEW A, NEW p, NEW Stray, Core(t, A, p, Stray), NEW I, I \subseteq DOMAIN t.instances,
           \A i \in I : t.instances[i].owner = NoOwner, NEW u, u = Unlink(t, I)
    PROVE  /\ Core(u, A, p, Stray)
           /\ SameReports(t, u) /\ SameVideos(t, u)
           /\ u.overlaps = t.overlaps /\ u.emptied = t.emptied
           /\ DOMAIN u.items = DOMAIN t.items
           /\ t.touched \subseteq u.touched /\ t.released \subseteq u.released
           /\ \A k \in DOMAIN u.items : u.items[k].inst \notin I
           /\ \A k \in DOMAIN u.items :
                 /\ u.items[k].ref = t.items[k].ref
                 /\ \/ t.items[k].inst \notin I /\ u.items[k].inst = t.items[k].inst
                    \/ /\ t.items[k].inst \in I
                       /\ u.items[k].inst = NoInst /\ k \in u.released
<1>. DEFINE K == {k \in DOMAIN t.items :
                    t.items[k].inst \in I /\ k \in t.instances[t.items[k].inst].items}
<1>1. u = Freed(t, K)
  BY DEF Unlink
<1>2. \A i \in DOMAIN t.instances :
          t.instances[i].owner # NoOwner => t.instances[i].items \intersect K = {}
  BY DEF Core, Held
<1>3. \A k \in DOMAIN t.items : k \in K <=> t.items[k].inst \in I
  <2>1. NoInst \notin I
    BY NoInstIsNone DEF Core
  <2>. QED BY <2>1 DEF Core, Linked
<1>4. K \subseteq DOMAIN t.items
  OBVIOUS
<1>. HIDE DEF K
<1>5. Core(u, A, p, Stray)
  BY <1>1, <1>2, <1>4, FreeKeeps
<1>6. /\ SameReports(t, u) /\ SameVideos(t, u)
      /\ u.overlaps = t.overlaps /\ u.emptied = t.emptied
      /\ Unlinked(t, u, K)
  <2>1. Rec(t) /\ IsTable(t.items, Key, Holding)
    BY DEF Core, Typed
  <2>. QED BY <2>1, <1>1, FreedFields
<1>7. NoInst \notin I
  BY NoInstIsNone DEF Core
<1>. QED BY <1>3, <1>4, <1>5, <1>6, <1>7 DEF Unlinked

\* The fields deleteInstance changes.
LEMMA DeleteFields ==
    ASSUME NEW t, Rec(t), NEW I, NEW u, u = DeleteInstances(t, I)
    PROVE  /\ Rec(u) /\ SameReports(t, u) /\ SameGrades(t, u)
           /\ u.overlaps = t.overlaps /\ u.items = t.items /\ u.error = t.error
           /\ u.released = t.released /\ u.touched = t.touched
           /\ u.emptied = t.emptied /\ u.attached = t.attached /\ u.next = t.next
           /\ u.instances = Drop(t.instances, I) /\ u.evidence = Drop(t.evidence, I)
           /\ u.work = t.work \ I
BY DEF DeleteInstances, Rec, SameReports, SameGrades

\* Deleting videos that no record names keeps Core.
LEMMA DeleteKeeps ==
    ASSUME NEW t, NEW A, NEW p, NEW Stray, Core(t, A, p, Stray), NEW I,
           \A k \in DOMAIN t.items : t.items[k].inst \notin I,
           NEW u, u = DeleteInstances(t, I)
    PROVE  Core(u, A, p, Stray)
<1>1. /\ Rec(u) /\ SameReports(t, u) /\ SameGrades(t, u)
      /\ u.overlaps = t.overlaps /\ u.items = t.items /\ u.error = t.error
      /\ u.released = t.released /\ u.touched = t.touched
      /\ u.emptied = t.emptied /\ u.attached = t.attached /\ u.next = t.next
      /\ u.instances = Drop(t.instances, I) /\ u.evidence = Drop(t.evidence, I)
      /\ u.work = t.work \ I
  <2>1. Rec(t)
    BY DEF Core, Typed
  <2>. QED BY <2>1, DeleteFields
<1>2. /\ IsTable(u.instances, 1 .. t.next, Video)
      /\ DOMAIN u.instances = DOMAIN t.instances \ I
      /\ \A i \in DOMAIN u.instances : u.instances[i] = t.instances[i]
  <2>1. IsTable(t.instances, 1 .. t.next, Video)
    BY DEF Core, Typed
  <2>2. /\ IsTable(Drop(t.instances, I), 1 .. t.next, Video)
        /\ DOMAIN Drop(t.instances, I) = DOMAIN t.instances \ I
        /\ \A i \in DOMAIN t.instances \ I : Drop(t.instances, I)[i] = t.instances[i]
    BY ONLY <2>1, DropIsTable, Zenon
  <2>. QED BY <1>1, <2>2
<1>3. /\ DOMAIN u.evidence = DOMAIN u.instances
      /\ IsTable(u.evidence, DOMAIN u.instances, SUBSET Sub)
      /\ \A i \in DOMAIN u.evidence : u.evidence[i] = t.evidence[i]
  <2>1. IsTable(t.evidence, DOMAIN t.instances, SUBSET Sub) /\ DOMAIN t.evidence = DOMAIN t.instances
    BY DEF Core, Typed
  <2>2. /\ IsTable(u.evidence, DOMAIN t.instances, SUBSET Sub)
        /\ DOMAIN u.evidence = DOMAIN t.evidence \ I
        /\ \A i \in DOMAIN u.evidence : u.evidence[i] = t.evidence[i]
    <3>1. /\ IsTable(Drop(t.evidence, I), DOMAIN t.instances, SUBSET Sub)
          /\ DOMAIN Drop(t.evidence, I) = DOMAIN t.evidence \ I
          /\ \A i \in DOMAIN t.evidence \ I : Drop(t.evidence, I)[i] = t.evidence[i]
      BY ONLY <2>1, DropIsTable, Zenon
    <3>. QED BY <1>1, <3>1
  <2>. QED BY <1>2, <2>1, <2>2 DEF IsTable
<1>4. Typed(u)
  BY <1>1, <1>2, <1>3 DEF Core, Typed, SameReports, SameGrades
<1>5. Linked(u) /\ Held(u)
  BY <1>1, <1>2 DEF Core, Linked, Held
<1>6. Sourced(u, A) /\ Apart(u)
  BY <1>1, <1>2 DEF Core, Sourced, Apart, SameReports, ReportsAt
<1>7. Unheld(u)
  BY <1>1 DEF Core, Unheld, SameReports, ReportsAt
<1>8. \A k \in DOMAIN u.items : Ownerless(u, k) <=> Ownerless(t, k)
  BY <1>1, <1>2 DEF Ownerless, Core, Linked
<1>9. Refused(u, A)
  BY <1>1, <1>8 DEF Core, Refused, SameReports
<1>10. \A k \in DOMAIN u.items : ItemEvidence(u, k) = ItemEvidence(t, k)
  BY <1>1, <1>2, <1>3 DEF ItemEvidence, Core, Linked, Typed
<1>11. Graded(u, p, Stray)
  BY <1>1, <1>8, <1>10, GradedFollows DEF Core, SameReports
<1>. QED BY <1>4, <1>5, <1>6, <1>7, <1>9, <1>11 DEF Core

\* Expiring ownerless videos keeps Core and the other videos.
LEMMA ExpireKeeps ==
    ASSUME NEW t, NEW A, NEW p, NEW Stray, Core(t, A, p, Stray), NEW I, I \subseteq DOMAIN t.instances,
           \A i \in I : t.instances[i].owner = NoOwner, NEW u, u = Expire(t, I)
    PROVE  /\ Core(u, A, p, Stray)
           /\ SameReports(t, u) /\ u.overlaps = t.overlaps
           /\ u.emptied = t.emptied /\ u.next = t.next
           /\ t.touched \subseteq u.touched /\ t.released \subseteq u.released
           /\ DOMAIN u.instances = DOMAIN t.instances \ I
           /\ \A i \in DOMAIN u.instances : u.instances[i] = t.instances[i]
           /\ DOMAIN u.items = DOMAIN t.items
           /\ \A k \in DOMAIN u.items :
                 /\ u.items[k].ref = t.items[k].ref
                 /\ \/ t.items[k].inst \notin I /\ u.items[k].inst = t.items[k].inst
                    \/ /\ t.items[k].inst \in I
                       /\ u.items[k].inst = NoInst /\ k \in u.released
<1>. DEFINE w == Unlink(t, I)
<1>1. /\ Core(w, A, p, Stray)
      /\ SameReports(t, w) /\ SameVideos(t, w)
      /\ w.overlaps = t.overlaps /\ w.emptied = t.emptied
      /\ DOMAIN w.items = DOMAIN t.items
      /\ t.touched \subseteq w.touched /\ t.released \subseteq w.released
      /\ \A k \in DOMAIN w.items : w.items[k].inst \notin I
      /\ \A k \in DOMAIN w.items :
            /\ w.items[k].ref = t.items[k].ref
            /\ \/ t.items[k].inst \notin I /\ w.items[k].inst = t.items[k].inst
               \/ /\ t.items[k].inst \in I
                  /\ w.items[k].inst = NoInst /\ k \in w.released
  <2>. HIDE DEF w
  <2>1. w = Unlink(t, I)
    BY DEF w
  <2>. QED BY <2>1, UnlinkKeeps
<1>2. u = DeleteInstances(w, I)
  BY DEF Expire
<1>. HIDE DEF w
<1>3. Core(u, A, p, Stray)
  BY <1>1, <1>2, DeleteKeeps
<1>4. /\ SameReports(w, u)
      /\ u.overlaps = w.overlaps /\ u.items = w.items
      /\ u.released = w.released /\ u.touched = w.touched
      /\ u.emptied = w.emptied /\ u.next = w.next
      /\ u.instances = Drop(w.instances, I)
  <2>1. Rec(w)
    BY <1>1 DEF Core, Typed
  <2>. QED BY <1>2, <2>1, DeleteFields
<1>5. /\ DOMAIN u.instances = DOMAIN t.instances \ I
      /\ \A i \in DOMAIN u.instances : u.instances[i] = t.instances[i]
  BY <1>1, <1>4 DEF Drop, SameVideos
<1>. QED BY <1>1, <1>3, <1>4, <1>5 DEF SameReports, SameVideos

\* Of instance i, the keys that the pairs of L part from it.
Parting(t, L, i) == {k \in t.instances[i].items : <<i, k>> \in L}

\* The instances some key parts from, and what all of them become.
Reduced(t, L) == {i \in DOMAIN t.instances : Parting(t, L, i) # {}}

\* The videos of t without the keys that L takes from them.
Shrunk(t, L) ==
    [i \in DOMAIN t.instances |->
        [t.instances[i] EXCEPT !.items = @ \ Parting(t, L, i)]]

\* Taking keys from videos keeps their owners and paths.
LEMMA ShrunkVideos ==
    ASSUME NEW t, NEW L, NEW N, IsTable(t.instances, N, Video)
    PROVE  /\ IsTable(Shrunk(t, L), N, Video)
           /\ DOMAIN Shrunk(t, L) = DOMAIN t.instances
           /\ \A i \in DOMAIN t.instances :
                 /\ Shrunk(t, L)[i].owner = t.instances[i].owner
                 /\ Shrunk(t, L)[i].path = t.instances[i].path
                 /\ Shrunk(t, L)[i].items = t.instances[i].items \ Parting(t, L, i)
BY DEF Shrunk, IsTable, Video

\* Detach fails on a pinned video, or takes the keys of L away and no more.
LEMMA DetachFields ==
    ASSUME NEW t, Rec(t), t.error = "none", NEW L, NEW u, u = Detach(t, L)
    PROVE  \/ Rec(u) /\ u.error = "pinned"
           \/ /\ Reduced(t, L) \intersect t.pinned = {}
              /\ Rec(u) /\ SameReports(t, u) /\ SameGrades(t, u)
              /\ u.overlaps = t.overlaps /\ u.items = t.items /\ u.error = "none"
              /\ u.released = t.released /\ u.touched = t.touched
              /\ u.emptied = t.emptied \union Reduced(t, L)
              /\ u.next = t.next /\ u.evidence = t.evidence /\ u.work = t.work
              /\ u.instances = Shrunk(t, L)
<1>. DEFINE left == Reduced(t, L)
            V == Shrunk(t, L)
            a == t.attached \ {i \in left : Parting(t, L, i) = t.instances[i].items}
            w == [t EXCEPT !.instances = V, !.emptied = @ \union left, !.attached = a]
<1>1. u = CheckUnpinned(t, left, w)
  BY DEF Detach, Parting, Reduced, Shrunk
<1>. HIDE DEF left, V, a
<1>2. CASE left \intersect t.pinned # {}
  BY <1>1, <1>2 DEF CheckUnpinned, Fail, Rec
<1>3. CASE left \intersect t.pinned = {}
  <2>1. u = w
    BY <1>1, <1>3 DEF CheckUnpinned
  <2>. QED BY <1>3, <2>1 DEF Rec, SameReports, SameGrades, left, V
<1>. QED BY <1>2, <1>3

\* The keys whose stored claim is that of a ref of R, each with the instance
\* its record names.
Claims(t, R) ==
    {k \in DOMAIN t.items :
        t.items[k].ref \in R /\ t.sightings[t.items[k].ref].key = k}

\* The keys that the sightings of R provide, each with the video it is at.
ClaimPairs(t, R) == {<<t.items[k].inst, k>> : k \in Claims(t, R)}

\* No claim of the refs of R is left but on an ownerless video.
Parted(t, R) ==
    \A k \in DOMAIN t.items : t.items[k].ref \in R =>
        Ownerless(t, k) \/ (t.items[k].inst = NoInst /\ k \in t.released)

\* Release fails on a pinned video, or ends the claims of R and no more.
LEMMA ReleaseFields ==
    ASSUME NEW t, Rec(t), t.error = "none", IsTable(t.items, Key, Holding), NEW R,
           NEW L, L = ClaimPairs(t, R), NEW u, u = Release(t, R)
    PROVE  \/ Rec(u) /\ u.error = "pinned"
           \/ /\ Reduced(t, L) \intersect t.pinned = {}
              /\ Rec(u) /\ SameReports(t, u) /\ SameGrades(t, u)
              /\ u.overlaps = Drop(t.overlaps, R) /\ u.error = "none"
              /\ u.emptied = t.emptied \union Reduced(t, L)
              /\ u.next = t.next /\ u.evidence = t.evidence /\ u.work = t.work
              /\ u.instances = Shrunk(t, L)
              /\ Unlinked(t, u, Claims(t, R))
<1>1. PICK d : d = DropOverlaps(t, R)
  OBVIOUS
<1>2. PICK w : w = Detach(d, L)
  OBVIOUS
<1>3. u = Freed(w, Claims(t, R))
  BY <1>1, <1>2 DEF Release, Claims, ClaimPairs
<1>4. /\ Rec(d) /\ SameReports(t, d) /\ SameGrades(t, d) /\ SameVideos(t, d)
      /\ d.overlaps = Drop(t.overlaps, R) /\ d.items = t.items /\ d.error = "none"
      /\ d.released = t.released /\ d.touched = t.touched /\ d.emptied = t.emptied
  BY <1>1 DEF DropOverlaps, Rec, SameReports, SameGrades, SameVideos
<1>5. Reduced(d, L) = Reduced(t, L) /\ Shrunk(d, L) = Shrunk(t, L)
  BY <1>4 DEF Reduced, Shrunk, Parting, SameVideos
<1>6. \/ Rec(w) /\ w.error = "pinned"
      \/ /\ Reduced(d, L) \intersect d.pinned = {}
         /\ Rec(w) /\ SameReports(d, w) /\ SameGrades(d, w)
         /\ w.overlaps = d.overlaps /\ w.items = d.items /\ w.error = "none"
         /\ w.released = d.released /\ w.touched = d.touched
         /\ w.emptied = d.emptied \union Reduced(d, L)
         /\ w.next = d.next /\ w.evidence = d.evidence /\ w.work = d.work
         /\ w.instances = Shrunk(d, L)
  BY <1>2, <1>4, DetachFields
<1>7. CASE Rec(w) /\ w.error = "pinned"
  BY <1>3, <1>7 DEF Freed, Rec
<1>8. CASE Rec(w) /\ w.error = "none"
  <2>1. /\ Reduced(t, L) \intersect t.pinned = {}
        /\ SameReports(t, w) /\ SameGrades(t, w)
        /\ w.overlaps = Drop(t.overlaps, R) /\ w.items = t.items
        /\ w.released = t.released /\ w.touched = t.touched
        /\ w.emptied = t.emptied \union Reduced(t, L)
        /\ w.next = t.next /\ w.evidence = t.evidence /\ w.work = t.work
        /\ w.instances = Shrunk(t, L)
    BY <1>4, <1>5, <1>6, <1>8 DEF SameReports, SameGrades, SameVideos
  <2>2. /\ Rec(u) /\ SameReports(w, u) /\ SameVideos(w, u) /\ SameGrades(w, u)
        /\ u.overlaps = w.overlaps /\ u.error = w.error
        /\ u.emptied = w.emptied /\ Unlinked(w, u, Claims(t, R))
    <3>1. IsTable(w.items, Key, Holding)
      BY <2>1
    <3>. QED BY <1>3, <1>8, <3>1, FreedFields
  <2>. QED BY <1>8, <2>1, <2>2 DEF SameReports, SameVideos, SameGrades, Unlinked
<1>. QED BY <1>6, <1>7, <1>8

\* Releasing claims keeps Core: an owned video loses exactly the keys whose records
\* are freed, and a pinned one fails the call.
LEMMA ReleaseKeeps ==
    ASSUME NEW t, NEW A, NEW p, NEW Stray, Core(t, A, p, Stray), NEW R, NEW u, u = Release(t, R)
    PROVE  \/ Rec(u) /\ u.error = "pinned"
           \/ /\ Core(u, A, p, Stray) /\ Parted(u, R)
              /\ SameReports(t, u) /\ u.overlaps = Drop(t.overlaps, R)
              /\ t.touched \subseteq u.touched /\ u.next = t.next
              /\ \A b : Kept(b, t) => Kept(b, u)
<1>. DEFINE K == Claims(t, R)
            L == ClaimPairs(t, R)
<1>0. \A i : Parting(t, L, i) = {k \in t.instances[i].items : k \in K /\ t.items[k].inst = i}
  BY DEF Parting, ClaimPairs
<1>1. /\ Rec(t) /\ t.error = "none" /\ Typed(t)
      /\ IsTable(t.items, Key, Holding) /\ IsTable(t.instances, 1 .. t.next, Video)
  BY DEF Core, Typed
<1>2. SUFFICES ASSUME ~(Rec(u) /\ u.error = "pinned")
               PROVE  /\ Core(u, A, p, Stray) /\ Parted(u, R)
                      /\ SameReports(t, u) /\ u.overlaps = Drop(t.overlaps, R)
                      /\ t.touched \subseteq u.touched /\ u.next = t.next
                      /\ \A b : Kept(b, t) => Kept(b, u)
  OBVIOUS
<1>3. /\ Reduced(t, L) \intersect t.pinned = {}
      /\ Rec(u) /\ SameReports(t, u) /\ SameGrades(t, u)
      /\ u.overlaps = Drop(t.overlaps, R) /\ u.error = "none"
      /\ u.emptied = t.emptied \union Reduced(t, L)
      /\ u.next = t.next /\ u.evidence = t.evidence /\ u.work = t.work
      /\ u.instances = Shrunk(t, L)
      /\ Unlinked(t, u, K)
  BY <1>1, <1>2, ReleaseFields
<1>4. /\ IsTable(u.instances, 1 .. t.next, Video)
      /\ DOMAIN u.instances = DOMAIN t.instances
      /\ \A i \in DOMAIN t.instances :
            /\ u.instances[i].owner = t.instances[i].owner
            /\ u.instances[i].path = t.instances[i].path
            /\ u.instances[i].items = t.instances[i].items \ Parting(t, L, i)
  <2>. DEFINE N == 1 .. t.next
  <2>1. IsTable(t.instances, N, Video)
    BY <1>1
  <2>. HIDE DEF N
  <2>2. /\ IsTable(Shrunk(t, L), N, Video)
        /\ DOMAIN Shrunk(t, L) = DOMAIN t.instances
        /\ \A i \in DOMAIN t.instances :
              /\ Shrunk(t, L)[i].owner = t.instances[i].owner
              /\ Shrunk(t, L)[i].path = t.instances[i].path
              /\ Shrunk(t, L)[i].items = t.instances[i].items \ Parting(t, L, i)
    BY <2>1, ShrunkVideos
  <2>. QED BY <1>3, <2>2 DEF N
<1>5. /\ IsTable(u.items, Key, Holding)
      /\ DOMAIN u.items = DOMAIN t.items
      /\ \A k \in DOMAIN t.items : u.items[k].ref = t.items[k].ref
      /\ \A k \in K : u.items[k].inst = NoInst
      /\ \A k \in DOMAIN t.items \ K : u.items[k].inst = t.items[k].inst
      /\ u.released = t.released \union K /\ u.touched = t.touched \union K
  BY <1>3 DEF Unlinked, Claims
<1>6. \A i : Parting(t, L, i) \subseteq K
  BY <1>0
<1>7. \A k \in K : t.items[k].inst \in DOMAIN t.instances =>
          k \notin u.instances[t.items[k].inst].items
  BY <1>0, <1>4
<1>8. K \subseteq DOMAIN t.items /\ \A k \in K : t.items[k].ref \in R
  BY DEF Claims
<1>9. IsTable(u.overlaps, Ref, Refusal) /\ DOMAIN u.overlaps = DOMAIN t.overlaps \ R
      /\ \A ref \in DOMAIN u.overlaps : u.overlaps[ref] = t.overlaps[ref]
  <2>1. IsTable(t.overlaps, Ref, Refusal)
    BY DEF Core, Typed
  <2>2. /\ IsTable(Drop(t.overlaps, R), Ref, Refusal)
        /\ DOMAIN Drop(t.overlaps, R) = DOMAIN t.overlaps \ R
        /\ \A ref \in DOMAIN t.overlaps \ R : Drop(t.overlaps, R)[ref] = t.overlaps[ref]
    BY ONLY <2>1, DropIsTable, Zenon
  <2>. QED BY <1>3, <2>2
<1>10. \A i \in DOMAIN t.instances \ Reduced(t, L) : u.instances[i].items = t.instances[i].items
  BY <1>4 DEF Reduced
<1>11. Typed(u)
  BY <1>1, <1>3, <1>4, <1>5, <1>9 DEF Typed, SameReports, SameGrades
<1>12. Linked(u)
  BY <1>4, <1>5, <1>6 DEF Core, Linked
<1>13. Held(u)
  BY <1>4, <1>5, <1>7 DEF Core, Held
<1>14. Sourced(u, A)
  <2>1. \A i \in DOMAIN t.instances : t.instances[i].owner # NoOwner =>
            \A k \in u.instances[i].items : k \in DOMAIN t.items
    BY <1>4 DEF Core, Held
  <2>. QED BY <1>3, <1>4, <1>5, <1>10, <2>1 DEF Core, Sourced, SameReports, ReportsAt
<1>15. Apart(u)
  BY <1>4 DEF Core, Apart
<1>16. Unheld(u)
  BY <1>3, <1>5 DEF Core, Unheld, SameReports, ReportsAt
<1>17. \A k \in DOMAIN t.items \ K : Ownerless(u, k) <=> Ownerless(t, k)
  BY <1>4, <1>5 DEF Ownerless, Core, Linked
<1>18. Refused(u, A)
  BY <1>3, <1>5, <1>8, <1>9, <1>17 DEF Core, Refused, SameReports
<1>19. Graded(u, p, Stray)
  <2>1. \A k \in DOMAIN t.items \ K : ItemEvidence(u, k) = ItemEvidence(t, k)
    BY <1>3, <1>5 DEF ItemEvidence
  <2>. QED BY <1>3, <1>5, <1>17, <2>1, GradedFollows DEF Core, SameReports
<1>20. Parted(u, R)
  <2>1. SUFFICES ASSUME NEW k \in DOMAIN t.items, t.items[k].ref \in R, k \notin K
                 PROVE  Ownerless(u, k) \/ (u.items[k].inst = NoInst /\ k \in u.released)
    BY <1>5 DEF Parted
  <2>2. t.sightings[t.items[k].ref].key # k
    BY <2>1 DEF Claims
  <2>3. CASE t.items[k].inst = NoInst
    BY <1>5, <2>1, <2>2, <2>3 DEF Core, Unheld, ReportsAt
  <2>4. CASE t.items[k].inst # NoInst
    <3>1. t.instances[t.items[k].inst].owner = NoOwner
      BY <2>1, <2>2, <2>4 DEF Core, Linked, Sourced, ReportsAt
    <3>. QED BY <1>17, <2>1, <2>4, <3>1 DEF Ownerless
  <2>. QED BY <2>3, <2>4
<1>21. \A b : Kept(b, t) => Kept(b, u)
  BY <1>3, <1>4, <1>10 DEF Kept, SameReports
<1>. QED BY <1>3, <1>5, <1>11, <1>12, <1>13, <1>14, <1>15, <1>16, <1>18, <1>19, <1>20, <1>21 DEF Core

\* w is u once ref reports row, and no claim of ref is refused.
StoredOver(u, w, ref, row) ==
    /\ Rec(w)
    /\ w.sightings = Put(u.sightings, ref, row)
    /\ w.overlaps = Drop(u.overlaps, {ref})
    /\ w.roots = u.roots /\ w.seenRoots = u.seenRoots /\ w.seen = u.seen \union {ref}
    /\ w.pinned = u.pinned /\ w.items = u.items
    /\ SameVideos(u, w) /\ SameGrades(u, w)
    /\ w.released = u.released /\ w.touched = u.touched
    /\ w.emptied = u.emptied /\ w.error = u.error

\* What ref provides in u agrees with row.
Provides(u, ref, row) ==
    \A k \in DOMAIN u.items : u.items[k].ref = ref =>
        \/ Ownerless(u, k)
        \/ u.items[k].inst = NoInst /\ k \in u.released
        \/ /\ k \in u.touched /\ row.key = k
           /\ u.items[k].inst = NoInst => row.path = NoPath
           /\ u.items[k].inst # NoInst => row.path = u.instances[u.items[k].inst].path

\* Storing a sighting that backs each record naming its ref keeps Core.
LEMMA StoreKeeps ==
    ASSUME NEW u, NEW A, NEW p, NEW Stray, Core(u, A, p, Stray), NEW ref \in Ref, NEW row \in Sighting,
           NEW w, StoredOver(u, w, ref, row), Provides(u, ref, row)
    PROVE  /\ Core(w, A, p, Stray) /\ ref \notin DOMAIN w.overlaps
           /\ ReportsAt(w, ref, row.key, row.path)
           /\ \A b : Kept(b, u) => Kept(b, w)
<1>1. /\ IsTable(w.sightings, Ref, Sighting)
      /\ DOMAIN w.sightings = DOMAIN u.sightings \union {ref}
      /\ w.sightings[ref] = row
      /\ \A r \in DOMAIN u.sightings : r # ref => w.sightings[r] = u.sightings[r]
  <2>1. IsTable(u.sightings, Ref, Sighting)
    BY DEF Core, Typed
  <2>2. w.sightings = Put(u.sightings, ref, row)
    BY DEF StoredOver
  <2>3. /\ IsTable(Put(u.sightings, ref, row), Ref, Sighting)
        /\ DOMAIN Put(u.sightings, ref, row) = DOMAIN u.sightings \union {ref}
        /\ Put(u.sightings, ref, row)[ref] = row
        /\ \A r \in DOMAIN u.sightings : r # ref =>
              Put(u.sightings, ref, row)[r] = u.sightings[r]
    BY <2>1 DEF IsTable, Put
  <2>. QED BY <2>2, <2>3
<1>2. /\ IsTable(w.overlaps, Ref, Refusal)
      /\ DOMAIN w.overlaps = DOMAIN u.overlaps \ {ref}
      /\ \A r \in DOMAIN w.overlaps : w.overlaps[r] = u.overlaps[r]
  <2>1. IsTable(u.overlaps, Ref, Refusal)
    BY DEF Core, Typed
  <2>2. /\ IsTable(Drop(u.overlaps, {ref}), Ref, Refusal)
        /\ DOMAIN Drop(u.overlaps, {ref}) = DOMAIN u.overlaps \ {ref}
        /\ \A r \in DOMAIN u.overlaps \ {ref} : Drop(u.overlaps, {ref})[r] = u.overlaps[r]
    BY ONLY <2>1, DropIsTable, Zenon
  <2>. QED BY <2>2 DEF StoredOver
<1>3. /\ w.items = u.items /\ w.instances = u.instances /\ w.evidence = u.evidence
      /\ w.released = u.released /\ w.touched = u.touched /\ w.emptied = u.emptied
      /\ w.next = u.next /\ w.pinned = u.pinned /\ SameGrades(u, w)
  BY DEF StoredOver, SameVideos
<1>4. Typed(w)
  BY <1>1, <1>2 DEF Core, Typed, StoredOver, SameVideos, SameGrades
<1>5. Linked(w) /\ Held(w) /\ Apart(w)
  BY <1>3 DEF Core, Linked, Held, Apart
<1>6. \A k \in DOMAIN u.items : Ownerless(w, k) <=> Ownerless(u, k)
  BY <1>3 DEF Ownerless
<1>7. Sourced(w, A)
  <2>1. SUFFICES ASSUME NEW i \in DOMAIN u.instances, u.instances[i].owner # NoOwner,
                        NEW k \in u.instances[i].items
                 PROVE  ReportsAt(w, u.items[k].ref, k, u.instances[i].path)
    BY <1>3 DEF Core, Sourced
  <2>2. /\ k \in DOMAIN u.items /\ u.items[k].inst = i /\ i # NoInst
        /\ ReportsAt(u, u.items[k].ref, k, u.instances[i].path)
    BY <2>1, NoInstIsNone DEF Core, Held, Sourced
  <2>3. CASE u.items[k].ref # ref
    BY <1>1, <2>2, <2>3 DEF ReportsAt
  <2>4. CASE u.items[k].ref = ref
    <3>1. row.key = k /\ row.path = u.instances[i].path
      BY <2>1, <2>2, <2>4 DEF Provides, Ownerless
    <3>. QED BY <1>1, <2>4, <3>1 DEF ReportsAt
  <2>. QED BY <2>3, <2>4
<1>8. Unheld(w)
  <2>1. SUFFICES ASSUME NEW k \in DOMAIN u.items, u.items[k].inst = NoInst, k \notin u.released
                 PROVE  ReportsAt(w, u.items[k].ref, k, NoPath)
    BY <1>3 DEF Unheld
  <2>2. CASE u.items[k].ref # ref
    BY <1>1, <2>1, <2>2 DEF Core, Unheld, ReportsAt
  <2>3. CASE u.items[k].ref = ref
    <3>1. row.key = k /\ row.path = NoPath
      BY <2>1, <2>3 DEF Provides, Ownerless
    <3>. QED BY <1>1, <2>3, <3>1 DEF ReportsAt
  <2>. QED BY <2>2, <2>3
<1>9. Refused(w, A)
  BY <1>1, <1>2, <1>3, <1>6 DEF Core, Refused
<1>10. Graded(w, p, Stray)
  <2>1. SUFFICES ASSUME NEW k \in DOMAIN u.items \ u.touched, ~Ownerless(u, k)
                 PROVE  w.sightings[u.items[k].ref].lang = u.sightings[u.items[k].ref].lang
    <3>1. \A k \in DOMAIN u.items : ItemEvidence(w, k) = ItemEvidence(u, k)
      BY <1>3 DEF ItemEvidence
    <3>. QED BY <1>3, <1>6, <3>1, GradedFollows DEF Core
  <2>2. k \notin u.released
    BY DEF Core, Typed
  <2>3. u.items[k].ref # ref
    BY <2>1, <2>2 DEF Provides
  <2>4. u.items[k].ref \in DOMAIN u.sightings
    BY <2>1, <2>2 DEF Core, Unheld, Linked, Sourced, Ownerless, ReportsAt
  <2>. QED BY <1>1, <2>3, <2>4
<1>11. \A b : Kept(b, u) => Kept(b, w)
  BY <1>3 DEF Kept
<1>. QED BY <1>1, <1>2, <1>4, <1>5, <1>7, <1>8, <1>9, <1>10, <1>11 DEF Core, ReportsAt

\* A key on no owned video may be recorded for a ref that reports it with none.
LEMMA TakeKeeps ==
    ASSUME NEW w, NEW A, NEW p, NEW Stray, Core(w, A, p, Stray), NEW ref \in Ref, NEW k \in Key,
           ref \notin DOMAIN w.overlaps, k \in w.touched, ReportsAt(w, ref, k, NoPath),
           k \in DOMAIN w.items => Ownerless(w, k) \/ w.items[k].inst = NoInst,
           NEW z, Rec(z), SameReports(w, z), SameVideos(w, z), SameGrades(w, z),
           z.overlaps = w.overlaps, z.error = w.error,
           z.released = w.released, z.touched = w.touched, z.emptied = w.emptied,
           z.items = Put(w.items, k, [ref |-> ref, inst |-> NoInst])
    PROVE  Core(z, A, p, Stray) /\ \A b : Kept(b, w) => Kept(b, z)
<1>1. /\ IsTable(z.items, Key, Holding)
      /\ DOMAIN z.items = DOMAIN w.items \union {k}
      /\ z.items[k].ref = ref /\ z.items[k].inst = NoInst
      /\ \A x \in DOMAIN w.items : x # k => z.items[x] = w.items[x]
  <2>1. IsTable(w.items, Key, Holding)
    BY DEF Core, Typed
  <2>. QED BY <2>1 DEF IsTable, Put, Holding, NoInst
<1>2. /\ z.instances = w.instances /\ z.sightings = w.sightings /\ z.evidence = w.evidence
      /\ z.next = w.next /\ z.pinned = w.pinned
  BY DEF SameVideos, SameReports
<1>3. Typed(z)
  BY <1>1, <1>2 DEF Core, Typed, SameVideos, SameReports, SameGrades
<1>4. Linked(z)
  BY <1>1, <1>2 DEF Core, Linked
<1>5. \A i \in DOMAIN w.instances : w.instances[i].owner # NoOwner => k \notin w.instances[i].items
  BY NoInstIsNone DEF Core, Held, Ownerless
<1>6. Held(z)
  BY <1>1, <1>2, <1>5 DEF Core, Held
<1>7. Sourced(z, A)
  BY <1>1, <1>2, <1>5 DEF Core, Sourced, Held, ReportsAt
<1>8. Apart(z)
  BY <1>2 DEF Core, Apart
<1>9. Unheld(z)
  BY <1>1, <1>2 DEF Core, Unheld, ReportsAt
<1>10. \A x \in DOMAIN w.items : x # k => (Ownerless(z, x) <=> Ownerless(w, x))
  BY <1>1, <1>2 DEF Ownerless
<1>11. Refused(z, A)
  BY <1>1, <1>2, <1>10 DEF Core, Refused
<1>12. Graded(z, p, Stray)
  <2>1. \A x \in DOMAIN w.items : x # k => ItemEvidence(z, x) = ItemEvidence(w, x)
    BY <1>1, <1>2 DEF ItemEvidence
  <2>. QED BY <1>1, <1>2, <1>10, <2>1, GradedFollows DEF Core
<1>13. \A b : Kept(b, w) => Kept(b, z)
  BY <1>2 DEF Kept
<1>. QED BY <1>3, <1>4, <1>6, <1>7, <1>8, <1>9, <1>11, <1>12, <1>13 DEF Core

\* Storing a refusal of a claim keeps Core.
LEMMA RefuseKeeps ==
    ASSUME NEW w, NEW A, NEW p, NEW Stray, Core(w, A, p, Stray), NEW ref \in Ref, NEW k \in Key,
           NEW path \in Path, ReportsAt(w, ref, k, path), NEW row \in Refusal,
           row.owner \in A, row.owner # SourceOfRef(ref),
           k \in DOMAIN w.items /\ w.items[k].ref = ref =>
               Ownerless(w, k) \/ (w.items[k].inst = NoInst /\ k \in w.released),
           NEW z, Rec(z), SameReports(w, z), SameVideos(w, z), SameGrades(w, z),
           z.items = w.items, z.error = w.error,
           z.released = w.released, z.touched = w.touched, z.emptied = w.emptied,
           z.overlaps = Put(w.overlaps, ref, row)
    PROVE  Core(z, A, p, Stray) /\ \A b : Kept(b, w) => Kept(b, z)
<1>1. /\ IsTable(z.overlaps, Ref, Refusal)
      /\ DOMAIN z.overlaps = DOMAIN w.overlaps \union {ref}
      /\ z.overlaps[ref] = row
      /\ \A x \in DOMAIN w.overlaps : x # ref => z.overlaps[x] = w.overlaps[x]
  <2>1. IsTable(w.overlaps, Ref, Refusal)
    BY DEF Core, Typed
  <2>. QED BY <2>1 DEF IsTable, Put
<1>2. /\ z.instances = w.instances /\ z.sightings = w.sightings /\ z.evidence = w.evidence
      /\ z.next = w.next /\ z.pinned = w.pinned
  BY DEF SameVideos, SameReports
<1>3. Typed(z)
  BY <1>1, <1>2 DEF Core, Typed, SameVideos, SameReports, SameGrades
<1>4. Linked(z) /\ Held(z) /\ Apart(z)
  BY <1>2 DEF Core, Linked, Held, Apart
<1>5. Sourced(z, A) /\ Unheld(z)
  BY <1>2 DEF Core, Sourced, Unheld, ReportsAt
<1>6. \A x \in DOMAIN w.items : Ownerless(z, x) <=> Ownerless(w, x)
  BY <1>2 DEF Ownerless
<1>7. Refused(z, A)
  <2>1. k # NoKey /\ path # NoPath
    BY NamesAssumption
  <2>. QED BY <1>1, <1>2, <1>6, <2>1 DEF Core, Refused, ReportsAt
<1>8. Graded(z, p, Stray)
  <2>1. \A x \in DOMAIN w.items : ItemEvidence(z, x) = ItemEvidence(w, x)
    BY <1>2 DEF ItemEvidence
  <2>. QED BY <1>2, <1>6, <2>1, GradedFollows DEF Core
<1>9. \A b : Kept(b, w) => Kept(b, z)
  BY <1>2 DEF Kept
<1>. QED BY <1>3, <1>4, <1>5, <1>7, <1>8, <1>9 DEF Core

\* The keys instance i had in w that stay: k goes if its record names i.
Remaining(w, k, i) ==
    w.instances[i].items \ {x \in {k} \intersect DOMAIN w.items : w.items[x].inst = i}

\* Of instance i, before k is attached there: K is what it keeps.
Room(w, s, path, i, K) ==
    \/ /\ i = w.next + 1 /\ i \notin DOMAIN w.instances /\ K = {}
       /\ \A j \in DOMAIN w.instances : w.instances[j].path # path
    \/ /\ i \in DOMAIN w.instances /\ w.instances[i].path = path
       /\ \/ w.instances[i].owner = s /\ K = w.instances[i].items
          \/ /\ w.instances[i].owner = NoOwner /\ K = {}
             /\ \A x \in DOMAIN w.items : w.items[x].inst # i

\* z is w once instance i of s at path holds K and k, whose record names ref.
Attaches(w, z, s, ref, k, path, i, K) ==
    /\ Rec(z) /\ SameReports(w, z) /\ SameGrades(w, z)
    /\ z.overlaps = w.overlaps /\ z.error = w.error /\ z.work = w.work
    /\ z.released = w.released /\ z.touched = w.touched
    /\ z.next = IF i \in DOMAIN w.instances THEN w.next ELSE i
    /\ z.evidence = IF i \in DOMAIN w.instances THEN w.evidence ELSE Put(w.evidence, i, {})
    /\ z.items = Put(w.items, k, [ref |-> ref, inst |-> i])
    /\ IsTable(z.instances, DOMAIN w.instances \union {i}, Video)
    /\ DOMAIN z.instances = DOMAIN w.instances \union {i}
    /\ z.instances[i].owner = s /\ z.instances[i].path = path
    /\ z.instances[i].items = K \union {k}
    /\ \A j \in DOMAIN w.instances \ {i} :
          /\ z.instances[j].owner = w.instances[j].owner
          /\ z.instances[j].path = w.instances[j].path
          /\ z.instances[j].items = Remaining(w, k, j)
    /\ w.emptied \subseteq z.emptied
    /\ \A j \in DOMAIN w.instances \ {i} :
          j \in z.emptied \/ Remaining(w, k, j) = w.instances[j].items

\* A video made or joined by a claim, whose other holder has lost the key, keeps
\* Core once the record and the sighting are stored.
LEMMA AttachedKeeps ==
    ASSUME NEW w, NEW A, NEW p, NEW Stray, Core(w, A, p, Stray), NEW ref \in Ref, NEW k \in Key,
           NEW path \in Path, ReportsAt(w, ref, k, path),
           ref \notin DOMAIN w.overlaps, k \in w.touched,
           NEW s \in A, s \in Source, SourceOfRef(ref) = s, NEW i, NEW K, Room(w, s, path, i, K),
           NEW z, Attaches(w, z, s, ref, k, path, i, K)
    PROVE  Core(z, A, p, Stray)
<1>1. /\ w.next \in Nat /\ NoInst \notin DOMAIN w.instances
      /\ DOMAIN w.instances \subseteq 1 .. w.next
  BY NoInstIsNone DEF Core, Typed, IsTable
<1>2. i \in Nat /\ i # NoInst /\ s # NoOwner
  BY <1>1, NamesAssumption DEF Room, NoInst
<1>3. /\ IsTable(z.items, Key, Holding)
      /\ DOMAIN z.items = DOMAIN w.items \union {k}
      /\ z.items[k].ref = ref /\ z.items[k].inst = i
      /\ \A x \in DOMAIN w.items : x # k => z.items[x] = w.items[x]
  <2>1. IsTable(w.items, Key, Holding) /\ z.items = Put(w.items, k, [ref |-> ref, inst |-> i])
    BY DEF Core, Typed, Attaches
  <2>. QED BY <1>2, <2>1 DEF IsTable, Put, Holding
<1>4. /\ DOMAIN z.instances = DOMAIN w.instances \union {i}
      /\ z.instances[i].owner = s /\ z.instances[i].path = path
      /\ z.instances[i].items = K \union {k}
      /\ \A j \in DOMAIN w.instances \ {i} :
            /\ z.instances[j].owner = w.instances[j].owner
            /\ z.instances[j].path = w.instances[j].path
            /\ z.instances[j].items = Remaining(w, k, j)
  BY DEF Attaches
<1>5. z.sightings = w.sightings /\ z.overlaps = w.overlaps /\ z.pinned = w.pinned
  BY DEF Attaches, SameReports
<1>6. /\ z.released = w.released /\ z.touched = w.touched /\ w.emptied \subseteq z.emptied
      /\ \A j \in DOMAIN w.instances \ {i} :
            j \in z.emptied \/ Remaining(w, k, j) = w.instances[j].items
  BY DEF Attaches
<1>7. i \notin DOMAIN w.instances => i = w.next + 1
  BY DEF Room
<1>8. \A x \in DOMAIN w.items : w.items[x].inst = i /\ x # k => x \in K
  <2>. SUFFICES ASSUME NEW x \in DOMAIN w.items, w.items[x].inst = i
                PROVE  x \in K
    OBVIOUS
  <2>1. i \in DOMAIN w.instances /\ x \in w.instances[i].items
    BY <1>2 DEF Core, Linked
  <2>2. i # w.next + 1
    BY <1>1, <2>1
  <2>. QED BY <2>1, <2>2 DEF Room
<1>9. \A x \in K : /\ i \in DOMAIN w.instances /\ w.instances[i].owner = s
                    /\ w.instances[i].path = path /\ x \in w.instances[i].items
  BY DEF Room
<1>10. Typed(z)
  <2>1. z.next \in Nat /\ DOMAIN z.instances \subseteq 1 .. z.next
    BY <1>1, <1>4, <1>7 DEF Attaches
  <2>2. IsTable(z.instances, 1 .. z.next, Video)
    BY <2>1 DEF Attaches, IsTable
  <2>3. /\ DOMAIN z.evidence = DOMAIN z.instances
        /\ IsTable(z.evidence, DOMAIN z.instances, SUBSET Sub)
    <3>1. /\ IsTable(w.evidence, DOMAIN w.instances, SUBSET Sub)
          /\ DOMAIN w.evidence = DOMAIN w.instances
          /\ z.evidence = IF i \in DOMAIN w.instances THEN w.evidence
                          ELSE Put(w.evidence, i, {})
      BY DEF Core, Typed, Attaches
    <3>2. CASE i \in DOMAIN w.instances
      <4>1. DOMAIN z.instances = DOMAIN w.instances
        BY <1>4, <3>2
      <4>. QED BY <3>1, <3>2, <4>1
    <3>3. CASE i \notin DOMAIN w.instances
      <4>1. z.evidence = Put(w.evidence, i, {})
        BY <3>1, <3>3
      <4>2. DOMAIN z.evidence = DOMAIN z.instances
        BY <1>4, <3>1, <4>1 DEF Put
      <4>. QED BY <3>1, <4>1, <4>2 DEF IsTable, Put
    <3>. QED BY <3>2, <3>3
  <2>4. z.work \subseteq DOMAIN z.instances
    BY <1>4 DEF Core, Typed, Attaches
  <2>. QED BY <1>3, <1>5, <1>6, <2>1, <2>2, <2>3, <2>4 DEF Core, Typed, Attaches, SameReports, SameGrades
<1>11. Linked(z)
  <2>1. SUFFICES ASSUME NEW x \in DOMAIN z.items, z.items[x].inst # NoInst
                 PROVE  /\ z.items[x].inst \in DOMAIN z.instances
                        /\ x \in z.instances[z.items[x].inst].items
    BY DEF Linked
  <2>2. CASE x = k
    BY <1>3, <1>4, <2>2
  <2>3. CASE x # k /\ w.items[x].inst = i
    BY <1>3, <1>4, <1>8, <2>3
  <2>4. CASE x # k /\ w.items[x].inst # i
    BY <1>3, <1>4, <2>1, <2>4 DEF Core, Linked, Remaining
  <2>. QED BY <2>2, <2>3, <2>4
<1>12. Held(z)
  <2>1. SUFFICES ASSUME NEW j \in DOMAIN z.instances, z.instances[j].owner # NoOwner,
                        NEW x \in z.instances[j].items
                 PROVE  x \in DOMAIN z.items /\ z.items[x].inst = j
    BY DEF Held
  <2>2. CASE x = k /\ j = i
    BY <1>3, <2>2
  <2>3. CASE x # k /\ j = i
    BY <1>2, <1>3, <1>4, <1>9, <2>1, <2>3 DEF Core, Held
  <2>4. CASE j # i
    <3>1. x \in DOMAIN w.items /\ w.items[x].inst = j
      BY <1>4, <2>1, <2>4 DEF Core, Held, Remaining
    <3>2. x # k
      BY <1>4, <2>1, <2>4, <3>1 DEF Remaining
    <3>. QED BY <1>3, <3>1, <3>2
  <2>. QED BY <2>2, <2>3, <2>4
<1>13. Sourced(z, A)
  <2>1. SUFFICES ASSUME NEW j \in DOMAIN z.instances, z.instances[j].owner # NoOwner
                 PROVE  /\ z.instances[j].owner \in A
                        /\ z.instances[j].items = {} => j \in z.emptied
                        /\ \A x \in z.instances[j].items :
                              /\ SourceOfRef(z.items[x].ref) = z.instances[j].owner
                              /\ ReportsAt(z, z.items[x].ref, x, z.instances[j].path)
    BY DEF Sourced
  <2>2. CASE j = i
    <3>1. ASSUME NEW x \in K, x # k
          PROVE  /\ SourceOfRef(z.items[x].ref) = s
                 /\ ReportsAt(w, z.items[x].ref, x, path)
      <4>1. x \in DOMAIN w.items
        BY <1>2, <1>9 DEF Core, Held
      <4>. QED BY <1>2, <1>3, <1>9, <3>1, <4>1 DEF Core, Sourced
    <3>. QED BY <1>3, <1>4, <1>5, <2>2, <3>1 DEF ReportsAt
  <2>3. CASE j # i
    <3>1. ASSUME NEW x \in z.instances[j].items
          PROVE  z.items[x] = w.items[x] /\ x \in w.instances[j].items
      <4>1. x \in DOMAIN w.items /\ w.items[x].inst = j /\ x \in w.instances[j].items
        BY <1>4, <2>1, <2>3, <3>1 DEF Core, Held, Remaining
      <4>2. x # k
        BY <1>4, <2>1, <2>3, <3>1, <4>1 DEF Remaining
      <4>. QED BY <1>3, <4>1, <4>2
    <3>2. z.instances[j].items = {} => j \in z.emptied
      BY <1>4, <1>6, <2>1, <2>3 DEF Core, Sourced
    <3>. QED BY <1>4, <1>5, <2>1, <2>3, <3>1, <3>2 DEF Core, Sourced, ReportsAt
  <2>. QED BY <2>2, <2>3
<1>14. Apart(z)
  BY <1>1, <1>4 DEF Core, Apart, Room
<1>15. Unheld(z)
  BY <1>2, <1>3, <1>5, <1>6 DEF Core, Unheld, ReportsAt
<1>16. ASSUME NEW x \in DOMAIN w.items, x # k, Ownerless(w, x)
       PROVE  Ownerless(z, x)
  <2>1. w.items[x].inst \in DOMAIN w.instances
    BY <1>16 DEF Core, Linked, Ownerless
  <2>2. w.items[x].inst # i
    BY <1>1, <1>2, <1>16, <2>1 DEF Room, Ownerless
  <2>. QED BY <1>3, <1>4, <1>16, <2>1, <2>2 DEF Ownerless
<1>17. Refused(z, A)
  BY <1>3, <1>5, <1>6, <1>16 DEF Core, Refused
<1>18. Graded(z, p, Stray)
  <2>1. ASSUME NEW x \in DOMAIN w.items, x # k
        PROVE  ItemEvidence(z, x) = ItemEvidence(w, x)
    <3>1. \A j \in DOMAIN w.instances : z.evidence[j] = w.evidence[j]
      <4>1. DOMAIN w.evidence = DOMAIN w.instances
        BY DEF Core, Typed
      <4>. QED BY <4>1 DEF Attaches, Put
    <3>. QED BY <1>3, <2>1, <3>1 DEF ItemEvidence, Core, Linked
  <2>2. SameGrades(w, z)
    BY DEF Attaches
  <2>. QED BY <1>3, <1>5, <1>6, <1>16, <2>1, <2>2, GradedFollows DEF Core
<1>. QED BY <1>10, <1>11, <1>12, <1>13, <1>14, <1>15, <1>17, <1>18 DEF Core

\* Attaching leaves pinned videos and live owners as they were.
LEMMA AttachedOwes ==
    ASSUME NEW w, NEW b, Kept(b, w), w.next \in Nat,
           NEW ref, NEW k, NEW path, NEW s, s # NoOwner, NEW i, NEW K, Room(w, s, path, i, K),
           NEW z, Attaches(w, z, s, ref, k, path, i, K),
           z.emptied \intersect w.pinned = {},
           i \in w.pinned => K \union {k} = w.instances[i].items
    PROVE  Kept(b, z)
<1>1. /\ b.next \in Nat /\ b.next <= w.next /\ DOMAIN b.instances \subseteq 1 .. b.next
      /\ w.pinned = b.pinned /\ z.pinned = w.pinned
  BY DEF Kept, Attaches, SameReports
<1>2. b.next <= z.next
  BY <1>1 DEF Attaches, Room
<1>3. \A j \in b.pinned :
          /\ j \in DOMAIN z.instances
          /\ z.instances[j].path = b.instances[j].path
          /\ z.instances[j].items = b.instances[j].items
  <2>1. SUFFICES ASSUME NEW j \in b.pinned
                 PROVE  /\ j \in DOMAIN z.instances
                        /\ z.instances[j].path = w.instances[j].path
                        /\ z.instances[j].items = w.instances[j].items
    BY DEF Kept
  <2>2. j \in DOMAIN w.instances /\ j \in DOMAIN z.instances
    BY DEF Kept, Attaches
  <2>3. CASE j = i
    <3>1. z.instances[i].path = path /\ z.instances[i].items = K \union {k}
      BY DEF Attaches
    <3>2. w.instances[i].path = path
      BY <2>2, <2>3 DEF Room
    <3>. QED BY <1>1, <2>1, <2>2, <2>3, <3>1, <3>2
  <2>4. CASE j # i
    BY <1>1, <2>2, <2>4 DEF Attaches
  <2>. QED BY <2>3, <2>4
<1>4. ASSUME NEW j \in DOMAIN b.instances \intersect DOMAIN z.instances,
             b.instances[j].owner # NoOwner
      PROVE  z.instances[j].owner = b.instances[j].owner
  <2>1. j \in 1 .. b.next
    BY <1>1
  <2>2. CASE j = i
    <3>1. i \in DOMAIN w.instances /\ w.instances[i].owner \in {s, NoOwner}
      <4>1. i # w.next + 1
        BY <1>1, <2>1, <2>2
      <4>. QED BY <4>1 DEF Room
    <3>. QED BY <1>4, <2>2, <3>1 DEF Kept, Attaches
  <2>3. CASE j # i
    BY <1>4, <2>3 DEF Kept, Attaches
  <2>. QED BY <2>2, <2>3
<1>. QED BY <1>1, <1>2, <1>3, <1>4 DEF Kept

\* a is v once instance i of s at path holds the keys of K.
Lands(v, a, s, path, i, K) ==
    /\ Rec(a) /\ SameReports(v, a) /\ SameGrades(v, a)
    /\ a.overlaps = v.overlaps /\ a.error = v.error /\ a.work = v.work
    /\ a.released = v.released /\ a.touched = v.touched /\ a.emptied = v.emptied
    /\ a.items = v.items
    /\ a.next = IF i \in DOMAIN v.instances THEN v.next ELSE i
    /\ a.evidence = IF i \in DOMAIN v.instances THEN v.evidence ELSE Put(v.evidence, i, {})
    /\ a.instances = Put(v.instances, i, Owning(s, path, K))

\* Create lands the key on a new video.
LEMMA CreateLands ==
    ASSUME NEW v, Rec(v), NEW s, NEW path, NEW k, v.next + 1 \notin DOMAIN v.instances,
           NEW a, a = Create(v, s, path, k)
    PROVE  Lands(v, a, s, path, v.next + 1, {k})
BY DEF Lands, Create, Rec, SameReports, SameGrades

\* Join lands the keys on the video at the path.
LEMMA JoinLands ==
    ASSUME NEW v, Rec(v), NEW s, NEW path, NEW i \in DOMAIN v.instances,
           v.instances[i].path = path, NEW K, NEW a, a = Join(v, s, i, K)
    PROVE  Lands(v, a, s, path, i, K)
BY DEF Lands, Join, Rec, SameReports, SameGrades

\* v is u but that the records of an ownerless instance were freed: of i, or
\* of one that is gone.
Softer(u, v, i) ==
    /\ SameReports(u, v) /\ v.overlaps = u.overlaps /\ v.emptied = u.emptied
    /\ u.touched \subseteq v.touched /\ u.released \subseteq v.released
    /\ DOMAIN v.instances \subseteq DOMAIN u.instances
    /\ \A j \in DOMAIN v.instances : v.instances[j] = u.instances[j]
    /\ \A j \in DOMAIN u.instances \ DOMAIN v.instances : u.instances[j].owner = NoOwner
    /\ DOMAIN v.items = DOMAIN u.items
    /\ \A k \in DOMAIN u.items :
          /\ v.items[k].ref = u.items[k].ref
          /\ \/ v.items[k].inst = u.items[k].inst
             \/ /\ v.items[k].inst = NoInst /\ k \in v.released /\ Ownerless(u, k)
                /\ u.items[k].inst = i \/ u.items[k].inst \notin DOMAIN v.instances

\* What attach makes of u for instance i: first v, then a.
Makes(u, v, a, A, p, Stray, b, s, path, i, K, k) ==
    /\ Core(v, A, p, Stray) /\ Kept(b, v) /\ Softer(u, v, i) /\ Room(v, s, path, i, K)
    /\ Lands(v, a, s, path, i, K \union {k})
    /\ i \in v.pinned => K \union {k} = v.instances[i].items

\* attach fails on a pinned video, or lands the key on the one video of its path,
\* after expiring or unlinking an ownerless one there.
LEMMA AttachMakes ==
    ASSUME NEW u, NEW A, NEW p, NEW Stray, Core(u, A, p, Stray), NEW b, Kept(b, u),
           NEW path \in Path, NEW k \in Key, NEW s \in Source,
           \A i \in At(u, path) : u.instances[i].owner \in {NoOwner, s},
           NEW a, a = Attach(u, s, path, k)
    PROVE  \/ Rec(a) /\ a.error = "pinned"
           \/ \E v, i, K : Makes(u, v, a, A, p, Stray, b, s, path, i, K, k)
<1>1. /\ Rec(u) /\ u.next \in Nat /\ DOMAIN u.instances \subseteq 1 .. u.next
      /\ u.error = "none" /\ u.pinned \subseteq DOMAIN u.instances
  BY DEF Core, Typed, IsTable, Kept
<1>2. u.next + 1 \notin DOMAIN u.instances
  BY <1>1
<1>3. \A i : Softer(u, u, i)
  BY DEF Softer, SameReports
<1>4. CASE At(u, path) = {}
  <2>1. a = Create(u, s, path, k)
    BY <1>4 DEF Attach
  <2>2. Lands(u, a, s, path, u.next + 1, {} \union {k})
    <3>1. Lands(u, a, s, path, u.next + 1, {k})
      BY <1>1, <1>2, <2>1, CreateLands
    <3>2. {} \union {k} = {k}
      OBVIOUS
    <3>. QED BY <3>1, <3>2
  <2>3. Room(u, s, path, u.next + 1, {})
    BY <1>2, <1>4 DEF Room, At
  <2>4. u.next + 1 \notin u.pinned
    BY <1>1, <1>2
  <2>5. Makes(u, u, a, A, p, Stray, b, s, path, u.next + 1, {}, k)
    BY <1>3, <2>2, <2>3, <2>4 DEF Makes
  <2>. QED BY <2>5
<1>5. CASE At(u, path) # {}
  <2>1. PICK i : i = InstAt(u, path)
    OBVIOUS
  <2>2. i \in DOMAIN u.instances /\ u.instances[i].path = path
    <3>1. i \in At(u, path)
      BY <1>5, <2>1 DEF InstAt
    <3>. QED BY <3>1 DEF At
  <2>3. u.instances[i].owner \in {NoOwner, s} /\ s # NoOwner
    BY <2>2, NamesAssumption DEF At
  <2>4. CASE u.instances[i].owner # NoOwner /\ k \in u.instances[i].items
    <3>1. a = Join(u, s, i, u.instances[i].items)
      BY <1>5, <2>1, <2>4 DEF Attach
    <3>2. u.instances[i].items \union {k} = u.instances[i].items
      BY <2>4
    <3>3. Lands(u, a, s, path, i, u.instances[i].items \union {k})
      BY <1>1, <2>2, <3>1, <3>2, JoinLands
    <3>4. Room(u, s, path, i, u.instances[i].items)
      BY <2>2, <2>3, <2>4 DEF Room
    <3>5. Makes(u, u, a, A, p, Stray, b, s, path, i, u.instances[i].items, k)
      BY <1>3, <3>2, <3>3, <3>4 DEF Makes
    <3>. QED BY <3>5
  <2>5. CASE i \in u.pinned /\ ~(u.instances[i].owner # NoOwner /\ k \in u.instances[i].items)
    <3>1. a = Fail(u, "pinned")
      BY <1>5, <2>1, <2>5 DEF Attach, CheckUnpinned
    <3>. QED BY <1>1, <3>1 DEF Fail, Rec
  <2>6. CASE i \notin u.pinned /\ u.instances[i].owner # NoOwner /\ k \notin u.instances[i].items
    <3>1. a = Join(u, s, i, u.instances[i].items \union {k})
      BY <1>5, <2>1, <2>6 DEF Attach, CheckUnpinned
    <3>2. Lands(u, a, s, path, i, u.instances[i].items \union {k})
      BY <1>1, <2>2, <3>1, JoinLands
    <3>3. Room(u, s, path, i, u.instances[i].items)
      BY <2>2, <2>3, <2>6 DEF Room
    <3>4. Makes(u, u, a, A, p, Stray, b, s, path, i, u.instances[i].items, k)
      BY <1>3, <2>6, <3>2, <3>3 DEF Makes
    <3>. QED BY <3>4
  <2>7. CASE i \notin u.pinned /\ u.instances[i].owner = NoOwner /\ u.instances[i].expired
    <3>1. PICK v : v = Expire(u, {i})
      OBVIOUS
    <3>2. a = Create(v, s, path, k)
      BY <1>5, <2>1, <2>7, <3>1 DEF Attach, CheckUnpinned
    <3>3. /\ Core(v, A, p, Stray)
          /\ SameReports(u, v) /\ v.overlaps = u.overlaps
          /\ v.emptied = u.emptied /\ v.next = u.next
          /\ u.touched \subseteq v.touched /\ u.released \subseteq v.released
          /\ DOMAIN v.instances = DOMAIN u.instances \ {i}
          /\ \A j \in DOMAIN v.instances : v.instances[j] = u.instances[j]
          /\ DOMAIN v.items = DOMAIN u.items
          /\ \A x \in DOMAIN v.items :
                /\ v.items[x].ref = u.items[x].ref
                /\ \/ u.items[x].inst \notin {i} /\ v.items[x].inst = u.items[x].inst
                   \/ /\ u.items[x].inst \in {i}
                      /\ v.items[x].inst = NoInst /\ x \in v.released
      <4>1. {i} \subseteq DOMAIN u.instances /\ \A j \in {i} : u.instances[j].owner = NoOwner
        BY <2>2, <2>7
      <4>. QED BY <3>1, <4>1, ExpireKeeps
    <3>4. Kept(b, v)
      BY <2>7, <3>3 DEF Kept, SameReports
    <3>5. Softer(u, v, v.next + 1)
      <4>1. \A x \in DOMAIN u.items : u.items[x].inst = i => Ownerless(u, x)
        BY <2>2, <2>7, NoInstIsNone DEF Ownerless, Core
      <4>. QED BY <2>7, <3>3, <4>1 DEF Softer
    <3>6. v.next + 1 \notin DOMAIN v.instances /\ v.next + 1 \notin v.pinned
      BY <1>1, <1>2, <3>3 DEF SameReports
    <3>7. Room(v, s, path, v.next + 1, {})
      BY <2>2, <3>3, <3>6 DEF Room, Core, Apart
    <3>8. Lands(v, a, s, path, v.next + 1, {} \union {k})
      <4>1. Rec(v)
        BY <3>3 DEF Core, Typed
      <4>. QED BY <3>2, <3>6, <4>1, CreateLands
    <3>9. Makes(u, v, a, A, p, Stray, b, s, path, v.next + 1, {}, k)
      BY <3>3, <3>4, <3>5, <3>6, <3>7, <3>8 DEF Makes
    <3>. QED BY <3>9
  <2>8. CASE i \notin u.pinned /\ u.instances[i].owner = NoOwner /\ ~u.instances[i].expired
    <3>1. PICK v : v = Unlink(u, {i})
      OBVIOUS
    <3>2. a = Join(v, s, i, {k})
      BY <1>5, <2>1, <2>8, <3>1 DEF Attach, CheckUnpinned
    <3>3. /\ Core(v, A, p, Stray)
          /\ SameReports(u, v) /\ SameVideos(u, v)
          /\ v.overlaps = u.overlaps /\ v.emptied = u.emptied
          /\ u.touched \subseteq v.touched /\ u.released \subseteq v.released
          /\ DOMAIN v.items = DOMAIN u.items
          /\ \A x \in DOMAIN v.items : v.items[x].inst \notin {i}
          /\ \A x \in DOMAIN v.items :
                /\ v.items[x].ref = u.items[x].ref
                /\ \/ u.items[x].inst \notin {i} /\ v.items[x].inst = u.items[x].inst
                   \/ /\ u.items[x].inst \in {i}
                      /\ v.items[x].inst = NoInst /\ x \in v.released
      <4>1. {i} \subseteq DOMAIN u.instances /\ \A j \in {i} : u.instances[j].owner = NoOwner
        BY <2>2, <2>8
      <4>. QED BY <3>1, <4>1, UnlinkKeeps
    <3>4. Kept(b, v)
      BY <3>3 DEF Kept, SameReports, SameVideos
    <3>5. Softer(u, v, i)
      <4>1. \A x \in DOMAIN u.items : u.items[x].inst = i => Ownerless(u, x)
        BY <2>2, <2>8, NoInstIsNone DEF Ownerless, Core
      <4>. QED BY <3>3, <4>1 DEF Softer, SameVideos
    <3>6. v.instances = u.instances /\ v.pinned = u.pinned
      BY <3>3 DEF SameVideos, SameReports
    <3>7. Room(v, s, path, i, {})
      BY <2>2, <2>8, <3>3, <3>6 DEF Room
    <3>8. Lands(v, a, s, path, i, {} \union {k})
      <4>1. Rec(v)
        BY <3>3 DEF Core, Typed
      <4>. QED BY <2>2, <3>2, <3>6, <4>1, JoinLands
    <3>9. Makes(u, v, a, A, p, Stray, b, s, path, i, {}, k)
      BY <2>8, <3>3, <3>4, <3>5, <3>6, <3>7, <3>8 DEF Makes
    <3>. QED BY <3>9
  <2>. QED BY <2>4, <2>5, <2>6, <2>7, <2>8
<1>. QED BY <1>4, <1>5

\* The report of ref is stored, and stamped.
Store(t, ref, row) ==
    [t EXCEPT !.sightings = Put(@, ref, row), !.seen = @ \union {ref}]

\* The fields that storing a sighting changes.
LEMMA StoreFields ==
    ASSUME NEW t, Rec(t), NEW ref, NEW row, NEW u, u = Store(t, ref, row)
    PROVE  /\ Rec(u) /\ u.sightings = Put(t.sightings, ref, row)
           /\ u.seen = t.seen \union {ref}
           /\ u.roots = t.roots /\ u.seenRoots = t.seenRoots /\ u.pinned = t.pinned
           /\ SameVideos(t, u) /\ SameGrades(t, u)
           /\ u.items = t.items /\ u.overlaps = t.overlaps /\ u.error = t.error
           /\ u.released = t.released /\ u.touched = t.touched /\ u.emptied = t.emptied
BY DEF Store, Rec, SameVideos, SameGrades

\* The fields that dropping refusals changes.
LEMMA DropFields ==
    ASSUME NEW t, Rec(t), NEW R, NEW u, u = DropOverlaps(t, R)
    PROVE  /\ Rec(u) /\ SameReports(t, u) /\ SameVideos(t, u) /\ SameGrades(t, u)
           /\ u.items = t.items /\ u.overlaps = Drop(t.overlaps, R) /\ u.error = t.error
           /\ u.released = t.released /\ u.touched = t.touched /\ u.emptied = t.emptied
BY DEF DropOverlaps, Rec, SameReports, SameVideos, SameGrades

\* The fields that recording a key changes.
LEMMA RecordFields ==
    ASSUME NEW t, Rec(t), NEW ref, NEW k, NEW path, NEW u, u = RecordAt(t, ref, k, path)
    PROVE  /\ Rec(u) /\ SameReports(t, u) /\ SameVideos(t, u) /\ SameGrades(t, u)
           /\ u.items = Put(t.items, k, [ref |-> ref, inst |-> InstAt(t, path)])
           /\ u.overlaps = t.overlaps /\ u.error = t.error
           /\ u.released = t.released /\ u.touched = t.touched /\ u.emptied = t.emptied
BY DEF RecordAt, Rec, SameReports, SameVideos, SameGrades

\* A sighting that backs its records still does after an ownerless video is
\* expired or unlinked.
LEMMA ProvidesSofter ==
    ASSUME NEW u, NEW v, NEW i, Linked(v), Softer(u, v, i), NEW ref, NEW row,
           Provides(u, ref, row)
    PROVE  Provides(v, ref, row)
<1>1. SUFFICES ASSUME NEW k \in DOMAIN v.items, v.items[k].ref = ref,
                      ~(v.items[k].inst = NoInst /\ k \in v.released)
               PROVE  \/ Ownerless(v, k)
                      \/ /\ k \in v.touched /\ row.key = k
                         /\ v.items[k].inst = NoInst => row.path = NoPath
                         /\ v.items[k].inst # NoInst =>
                               row.path = v.instances[v.items[k].inst].path
  BY DEF Provides
<1>2. k \in DOMAIN u.items /\ u.items[k].ref = ref /\ v.items[k].inst = u.items[k].inst
  BY <1>1 DEF Softer
<1>3. u.touched \subseteq v.touched /\ u.released \subseteq v.released
  BY DEF Softer
<1>4. v.items[k].inst # NoInst => v.instances[v.items[k].inst] = u.instances[u.items[k].inst]
  BY <1>1, <1>2 DEF Linked, Softer
<1>. QED BY <1>1, <1>2, <1>3, <1>4 DEF Provides, Ownerless

\* The instance that held k elsewhere than at i.
Elsewhere(t, k, i) == {h \in {t.items[x].inst : x \in {k} \intersect DOMAIN t.items} : h # i}

\* z is u once ref, of s, reports row and holds k at path: an ownerless video
\* makes room, and the other holder of k loses it.
Delivered(u, z, s, ref, k, path, row) ==
    \E v, w, i, K :
        /\ Softer(u, v, i) /\ StoredOver(v, w, ref, row) /\ Room(w, s, path, i, K)
        /\ Attaches(w, z, s, ref, k, path, i, K)

\* attachKey, with the sighting stored, keeps Core, or fails on a pinned video.
LEMMA AttachKeyKeeps ==
    ASSUME NEW u, NEW A, NEW p, NEW Stray, Core(u, A, p, Stray), NEW b, Kept(b, u),
           NEW ref \in Ref, NEW path \in Path, NEW k \in Key, k \in u.touched,
           NEW s \in Source, s \in A, SourceOfRef(ref) = s,
           \A i \in At(u, path) : u.instances[i].owner \in {NoOwner, s},
           NEW row \in Sighting, row.key = k, row.path = path, Provides(u, ref, row),
           NEW c, c = AttachKey(u, s, ref, k, path), NEW z, z = Store(c, ref, row)
    PROVE  \/ Rec(c) /\ c.error = "pinned"
           \/ /\ c.error = "none" /\ Core(z, A, p, Stray) /\ Kept(b, z)
              /\ Delivered(u, z, s, ref, k, path, row)
<1>1. PICK a : a = Attach(u, s, path, k)
  OBVIOUS
<1>2. \/ Rec(a) /\ a.error = "pinned"
      \/ \E v, i, K : Makes(u, v, a, A, p, Stray, b, s, path, i, K, k)
  BY <1>1, AttachMakes
<1>3. CASE Rec(a) /\ a.error = "pinned"
  BY <1>1, <1>3 DEF AttachKey
<1>4. CASE \E v, i, K : Makes(u, v, a, A, p, Stray, b, s, path, i, K, k)
  <2>1. PICK v, i, K : Makes(u, v, a, A, p, Stray, b, s, path, i, K, k)
    BY <1>4
  <2>2. /\ Core(v, A, p, Stray) /\ Kept(b, v) /\ Softer(u, v, i) /\ Room(v, s, path, i, K)
        /\ Lands(v, a, s, path, i, K \union {k})
        /\ i \in v.pinned => K \union {k} = v.instances[i].items
    BY <2>1 DEF Makes
  <2>3. /\ Rec(v) /\ v.error = "none" /\ v.next \in Nat /\ Linked(v) /\ Apart(v)
        /\ NoInst \notin DOMAIN v.instances
    BY <2>2, NoInstIsNone DEF Core, Typed
  <2>4. /\ Rec(a) /\ a.error = "none" /\ a.items = v.items
        /\ a.pinned = v.pinned /\ a.overlaps = v.overlaps
    BY <2>2, <2>3 DEF Lands, SameReports
  <2>5. /\ DOMAIN a.instances = DOMAIN v.instances \union {i}
        /\ a.instances[i].owner = s /\ a.instances[i].path = path
        /\ a.instances[i].items = K \union {k}
        /\ \A j \in DOMAIN v.instances \ {i} : a.instances[j] = v.instances[j]
    BY <2>2 DEF Lands, Put, Owning
  <2>6. IsTable(a.instances, DOMAIN v.instances \union {i}, Video)
    <3>1. IsTable(v.instances, 1 .. v.next, Video)
      BY <2>2 DEF Core, Typed
    <3>2. K \subseteq Key
      BY <2>2, <3>1 DEF Room, IsTable, Video
    <3>3. Owning(s, path, K \union {k}) \in Video
      BY <3>2 DEF Owning, Video
    <3>. QED BY <2>2, <3>1, <3>3 DEF Lands, IsTable, Put
  <2>7. \A j \in DOMAIN a.instances : a.instances[j].path = path <=> j = i
    BY <2>2, <2>3, <2>5 DEF Room, Apart
  <2>8. InstAt(a, path) = i
    <3>1. At(a, path) = {i}
      BY <2>5, <2>7 DEF At
    <3>. QED BY <3>1 DEF InstAt
  <2>9. PICK H : H = Elsewhere(u, k, i)
    OBVIOUS
  <2>10. PICK L : L = H \X {k}
    OBVIOUS
  <2>11. PICK d : d = Detach(a, L)
    OBVIOUS
  <2>12. PICK e : e = DropOverlaps(d, {ref})
    OBVIOUS
  <2>13. c = RecordAt(e, ref, k, path)
    BY <1>1, <2>4, <2>8, <2>9, <2>10, <2>11, <2>12 DEF AttachKey, Elsewhere
  <2>14. \/ Rec(d) /\ d.error = "pinned"
         \/ /\ Reduced(a, L) \intersect a.pinned = {}
            /\ Rec(d) /\ SameReports(a, d) /\ SameGrades(a, d)
            /\ d.overlaps = a.overlaps /\ d.items = a.items /\ d.error = "none"
            /\ d.released = a.released /\ d.touched = a.touched
            /\ d.emptied = a.emptied \union Reduced(a, L)
            /\ d.next = a.next /\ d.evidence = a.evidence /\ d.work = a.work
            /\ d.instances = Shrunk(a, L)
    BY <2>4, <2>11, DetachFields
  <2>15. Rec(d)
    BY <2>14
  <2>16. /\ Rec(e) /\ SameReports(d, e) /\ SameVideos(d, e) /\ SameGrades(d, e)
         /\ e.items = d.items /\ e.overlaps = Drop(d.overlaps, {ref}) /\ e.error = d.error
         /\ e.released = d.released /\ e.touched = d.touched /\ e.emptied = d.emptied
    BY <2>12, <2>15, DropFields
  <2>17. /\ Rec(c) /\ SameReports(e, c) /\ SameVideos(e, c) /\ SameGrades(e, c)
         /\ c.items = Put(e.items, k, [ref |-> ref, inst |-> InstAt(e, path)])
         /\ c.overlaps = e.overlaps /\ c.error = e.error
         /\ c.released = e.released /\ c.touched = e.touched /\ c.emptied = e.emptied
    BY <2>13, <2>16, RecordFields
  <2>18. CASE d.error = "pinned"
    BY <2>16, <2>17, <2>18
  <2>19. CASE d.error = "none"
    <3>1. /\ Reduced(a, L) \intersect a.pinned = {}
          /\ SameReports(a, d) /\ SameGrades(a, d)
          /\ d.overlaps = a.overlaps /\ d.items = a.items
          /\ d.released = a.released /\ d.touched = a.touched
          /\ d.emptied = a.emptied \union Reduced(a, L)
          /\ d.next = a.next /\ d.evidence = a.evidence /\ d.work = a.work
          /\ d.instances = Shrunk(a, L)
      BY <2>14, <2>19
    <3>2. /\ IsTable(d.instances, DOMAIN v.instances \union {i}, Video)
          /\ DOMAIN d.instances = DOMAIN v.instances \union {i}
          /\ \A j \in DOMAIN d.instances :
                /\ d.instances[j].owner = a.instances[j].owner
                /\ d.instances[j].path = a.instances[j].path
                /\ d.instances[j].items = a.instances[j].items \ Parting(a, L, j)
      <4>1. PICK N : N = DOMAIN v.instances \union {i}
        OBVIOUS
      <4>2. IsTable(a.instances, N, Video)
        BY <2>6, <4>1
      <4>3. /\ IsTable(Shrunk(a, L), N, Video)
            /\ DOMAIN Shrunk(a, L) = DOMAIN a.instances
            /\ \A j \in DOMAIN a.instances :
                  /\ Shrunk(a, L)[j].owner = a.instances[j].owner
                  /\ Shrunk(a, L)[j].path = a.instances[j].path
                  /\ Shrunk(a, L)[j].items = a.instances[j].items \ Parting(a, L, j)
        BY ONLY <4>2, ShrunkVideos
      <4>. QED BY <2>5, <3>1, <4>1, <4>3
    <3>3. InstAt(e, path) = i
      <4>1. e.instances = d.instances
        BY <2>16 DEF SameVideos
      <4>2. At(e, path) = {i}
        BY <2>5, <2>7, <3>2, <4>1 DEF At
      <4>. QED BY <4>2 DEF InstAt
    <3>4. \A j \in DOMAIN d.instances :
              Parting(a, L, j) = {x \in a.instances[j].items : x = k /\ j \in H}
      BY <2>10 DEF Parting
    <3>5. \A j \in DOMAIN v.instances \ {i} :
              j \in H <=> k \in DOMAIN v.items /\ v.items[k].inst = j
      BY <2>2, <2>3, <2>9 DEF Elsewhere, Softer
    <3>6. i \notin H
      BY <2>9 DEF Elsewhere
    <3>7. PICK v1 : v1 = DropOverlaps(v, {ref})
      OBVIOUS
    <3>8. PICK w : w = Store(v1, ref, row)
      OBVIOUS
    <3>9. StoredOver(v, w, ref, row)
      <4>1. /\ Rec(v1) /\ SameReports(v, v1) /\ SameVideos(v, v1) /\ SameGrades(v, v1)
            /\ v1.items = v.items /\ v1.overlaps = Drop(v.overlaps, {ref})
            /\ v1.error = v.error /\ v1.released = v.released
            /\ v1.touched = v.touched /\ v1.emptied = v.emptied
        BY <2>3, <3>7, DropFields
      <4>2. /\ Rec(w) /\ w.sightings = Put(v1.sightings, ref, row)
            /\ w.seen = v1.seen \union {ref}
            /\ w.roots = v1.roots /\ w.seenRoots = v1.seenRoots /\ w.pinned = v1.pinned
            /\ SameVideos(v1, w) /\ SameGrades(v1, w)
            /\ w.items = v1.items /\ w.overlaps = v1.overlaps /\ w.error = v1.error
            /\ w.released = v1.released /\ w.touched = v1.touched /\ w.emptied = v1.emptied
        BY <3>8, <4>1, StoreFields
      <4>. QED BY <4>1, <4>2 DEF StoredOver, SameReports, SameVideos, SameGrades
    <3>10. /\ Core(w, A, p, Stray) /\ ref \notin DOMAIN w.overlaps
           /\ ReportsAt(w, ref, k, path) /\ Kept(b, w)
      <4>1. Provides(v, ref, row)
        BY <2>2, <2>3, ProvidesSofter
      <4>. QED BY <2>2, <3>9, <4>1, StoreKeeps
    <3>11. /\ w.instances = v.instances /\ w.items = v.items /\ w.next = v.next
           /\ w.evidence = v.evidence /\ w.work = v.work
           /\ w.touched = v.touched /\ w.released = v.released /\ w.emptied = v.emptied
           /\ w.pinned = v.pinned /\ w.error = v.error
           /\ w.overlaps = Drop(v.overlaps, {ref}) /\ SameGrades(v, w)
           /\ w.sightings = Put(v.sightings, ref, row) /\ w.seen = v.seen \union {ref}
           /\ w.roots = v.roots /\ w.seenRoots = v.seenRoots
      BY <3>9 DEF StoredOver, SameVideos
    <3>12. k \in w.touched
      BY <2>2, <3>11 DEF Softer
    <3>13. Room(w, s, path, i, K)
      BY <2>2, <3>11 DEF Room
    <3>14. /\ Rec(z) /\ z.sightings = Put(c.sightings, ref, row)
           /\ z.seen = c.seen \union {ref}
           /\ z.roots = c.roots /\ z.seenRoots = c.seenRoots /\ z.pinned = c.pinned
           /\ SameVideos(c, z) /\ SameGrades(c, z)
           /\ z.items = c.items /\ z.overlaps = c.overlaps /\ z.error = c.error
           /\ z.released = c.released /\ z.touched = c.touched /\ z.emptied = c.emptied
      BY <2>17, StoreFields
    <3>15. z.instances = d.instances /\ z.emptied = w.emptied \union Reduced(a, L)
      BY <2>2, <2>16, <2>17, <3>1, <3>11, <3>14 DEF SameVideos, Lands
    <3>16. ASSUME NEW j \in DOMAIN w.instances \ {i}
           PROVE  /\ z.instances[j].owner = w.instances[j].owner
                  /\ z.instances[j].path = w.instances[j].path
                  /\ z.instances[j].items = Remaining(w, k, j)
                  /\ j \in z.emptied \/ Remaining(w, k, j) = w.instances[j].items
      <4>1. a.instances[j] = w.instances[j] /\ j \in DOMAIN d.instances /\ j \in DOMAIN a.instances
        BY <2>5, <3>2, <3>11, <3>16
      <4>2. Parting(a, L, j) =
                w.instances[j].items \intersect
                    {x \in {k} \intersect DOMAIN w.items : w.items[x].inst = j}
        BY <3>4, <3>5, <3>11, <3>16, <4>1
      <4>3. z.instances[j].items = Remaining(w, k, j)
        BY <3>2, <3>15, <4>1, <4>2 DEF Remaining
      <4>4. j \in Reduced(a, L) \/ Parting(a, L, j) = {}
        BY <4>1 DEF Reduced
      <4>. QED BY <3>2, <3>15, <4>1, <4>2, <4>3, <4>4 DEF Remaining
    <3>17. Attaches(w, z, s, ref, k, path, i, K)
      <4>1. SameReports(w, z)
        BY <2>2, <2>16, <2>17, <3>1, <3>11, <3>14 DEF SameReports, Lands
      <4>2. SameGrades(w, z)
        BY <2>2, <2>16, <2>17, <3>1, <3>11, <3>14 DEF SameGrades, Lands
      <4>3. /\ z.overlaps = w.overlaps /\ z.error = w.error /\ z.work = w.work
            /\ z.released = w.released /\ z.touched = w.touched
            /\ z.next = IF i \in DOMAIN w.instances THEN w.next ELSE i
            /\ z.evidence = IF i \in DOMAIN w.instances THEN w.evidence
                            ELSE Put(w.evidence, i, {})
            /\ z.items = Put(w.items, k, [ref |-> ref, inst |-> i])
        <5>1. /\ z.next = a.next /\ z.evidence = a.evidence /\ z.work = a.work
              /\ z.released = a.released /\ z.touched = a.touched
          BY <2>16, <2>17, <3>1, <3>14 DEF SameVideos
        <5>2. z.items = Put(w.items, k, [ref |-> ref, inst |-> i])
          BY <2>4, <2>16, <2>17, <3>1, <3>3, <3>11, <3>14
        <5>3. z.overlaps = w.overlaps /\ z.error = w.error
          BY <2>3, <2>4, <2>16, <2>17, <2>19, <3>1, <3>11, <3>14
        <5>. QED BY <2>2, <3>11, <5>1, <5>2, <5>3 DEF Lands
      <4>4. /\ IsTable(z.instances, DOMAIN w.instances \union {i}, Video)
            /\ DOMAIN z.instances = DOMAIN w.instances \union {i}
        BY <3>2, <3>11, <3>15
      <4>5. /\ z.instances[i].owner = s /\ z.instances[i].path = path
            /\ z.instances[i].items = K \union {k}
        <5>1. i \in DOMAIN d.instances /\ Parting(a, L, i) = {}
          BY <3>2, <3>4, <3>6
        <5>. QED BY <2>5, <3>2, <3>15, <5>1
      <4>6. w.emptied \subseteq z.emptied
        BY <3>15
      <4>. QED BY <3>14, <3>16, <4>1, <4>2, <4>3, <4>4, <4>5, <4>6 DEF Attaches
    <3>18. Core(z, A, p, Stray)
      BY <3>10, <3>12, <3>13, <3>17, AttachedKeeps
    <3>19. Kept(b, z)
      <4>1. w.next \in Nat /\ s # NoOwner
        BY <2>3, <3>11, NamesAssumption
      <4>2. z.emptied \intersect w.pinned = {}
        BY <2>2, <2>4, <3>1, <3>11, <3>15 DEF Kept
      <4>3. i \in w.pinned => K \union {k} = w.instances[i].items
        BY <2>2, <3>11
      <4>. QED BY <3>10, <3>13, <3>17, <4>1, <4>2, <4>3, AttachedOwes
    <3>20. Delivered(u, z, s, ref, k, path, row)
      BY <2>2, <3>9, <3>13, <3>17 DEF Delivered
    <3>. QED BY <2>16, <2>17, <2>19, <3>18, <3>19, <3>20
  <2>. QED BY <2>14, <2>18, <2>19
<1>. QED BY <1>2, <1>3, <1>4

\* Storing a sighting of a ref with no refusal changes nothing else.
LEMMA StoredWhereFree ==
    ASSUME NEW u, NEW A, NEW p, NEW Stray, Core(u, A, p, Stray), NEW ref, ref \notin DOMAIN u.overlaps, NEW row,
           NEW z, z = Store(u, ref, row)
    PROVE  StoredOver(u, z, ref, row)
<1>1. Rec(u) /\ IsTable(u.overlaps, Ref, Refusal)
  BY DEF Core, Typed
<1>2. Drop(u.overlaps, {ref}) = u.overlaps
  BY <1>1 DEF Drop, IsTable
<1>3. /\ Rec(z) /\ z.sightings = Put(u.sightings, ref, row)
      /\ z.seen = u.seen \union {ref}
      /\ z.roots = u.roots /\ z.seenRoots = u.seenRoots /\ z.pinned = u.pinned
      /\ SameVideos(u, z) /\ SameGrades(u, z)
      /\ z.items = u.items /\ z.overlaps = u.overlaps /\ z.error = u.error
      /\ z.released = u.released /\ z.touched = u.touched /\ z.emptied = u.emptied
  BY <1>1, StoreFields
<1>. QED BY <1>2, <1>3 DEF StoredOver

\* So does storing one whose refusal was dropped first.
LEMMA StoredOverDropped ==
    ASSUME NEW u, Rec(u), NEW ref, NEW row, NEW v, v = DropOverlaps(u, {ref}),
           NEW z, z = Store(v, ref, row)
    PROVE  StoredOver(u, z, ref, row)
<1>1. /\ Rec(v) /\ SameReports(u, v) /\ SameVideos(u, v) /\ SameGrades(u, v)
      /\ v.items = u.items /\ v.overlaps = Drop(u.overlaps, {ref}) /\ v.error = u.error
      /\ v.released = u.released /\ v.touched = u.touched /\ v.emptied = u.emptied
  BY DropFields
<1>2. /\ Rec(z) /\ z.sightings = Put(v.sightings, ref, row)
      /\ z.seen = v.seen \union {ref}
      /\ z.roots = v.roots /\ z.seenRoots = v.seenRoots /\ z.pinned = v.pinned
      /\ SameVideos(v, z) /\ SameGrades(v, z)
      /\ z.items = v.items /\ z.overlaps = v.overlaps /\ z.error = v.error
      /\ z.released = v.released /\ z.touched = v.touched /\ z.emptied = v.emptied
  <2>1. Rec(v)
    BY <1>1
  <2>. QED BY ONLY <2>1, z = Store(v, ref, row), StoreFields
<1>. QED BY <1>1, <1>2 DEF StoredOver, SameReports, SameVideos, SameGrades

\* A claim with no video (rule 2) keeps Core.
LEMMA NoVideoKeeps ==
    ASSUME NEW u, NEW A, NEW p, NEW Stray, Core(u, A, p, Stray), NEW b, Kept(b, u),
           NEW s, NEW ref \in Ref, NEW k \in Key, k \in u.touched, ref \notin DOMAIN u.overlaps,
           NEW row \in Sighting, row.key = k, row.path = NoPath, Provides(u, ref, row),
           NEW c, c = NoVideo(u, s, ref, k), NEW z, z = Store(c, ref, row)
    PROVE  Core(z, A, p, Stray) /\ Kept(b, z)
<1>1. Rec(u)
  BY DEF Core, Typed
<1>2. PICK w : w = Store(u, ref, row)
  OBVIOUS
<1>3. StoredOver(u, w, ref, row)
  BY <1>2, StoredWhereFree
<1>4. /\ Core(w, A, p, Stray) /\ ref \notin DOMAIN w.overlaps /\ ReportsAt(w, ref, k, NoPath)
      /\ Kept(b, w)
  BY <1>3, StoreKeeps
<1>5. CASE c = u
  BY <1>2, <1>4, <1>5
<1>6. CASE c # u
  <2>1. /\ c = [u EXCEPT !.items = Put(@, k, [ref |-> ref, inst |-> NoInst])]
        /\ k \in DOMAIN u.items => u.items[k].ref = ref \/ u.items[k].inst = NoInst
    BY <1>6 DEF NoVideo, Recorded
  <2>2. /\ Rec(c) /\ SameReports(u, c) /\ SameVideos(u, c) /\ SameGrades(u, c)
        /\ c.items = Put(u.items, k, [ref |-> ref, inst |-> NoInst])
        /\ c.overlaps = u.overlaps /\ c.error = u.error
        /\ c.released = u.released /\ c.touched = u.touched /\ c.emptied = u.emptied
    BY <1>1, <2>1 DEF Rec, SameReports, SameVideos, SameGrades
  <2>3. ASSUME k \in DOMAIN u.items, u.items[k].ref = ref, u.items[k].inst # NoInst
        PROVE  Ownerless(u, k)
    <3>1. u.items[k].inst \in DOMAIN u.instances
      BY <2>3 DEF Core, Linked
    <3>2. u.instances[u.items[k].inst].path \in Path
      BY <3>1 DEF Core, Typed, IsTable, Video
    <3>. QED BY <2>3, <3>2, NamesAssumption DEF Provides
  <2>4. /\ Rec(z) /\ z.sightings = Put(c.sightings, ref, row)
        /\ z.seen = c.seen \union {ref}
        /\ z.roots = c.roots /\ z.seenRoots = c.seenRoots /\ z.pinned = c.pinned
        /\ SameVideos(c, z) /\ SameGrades(c, z)
        /\ z.items = c.items /\ z.overlaps = c.overlaps /\ z.error = c.error
        /\ z.released = c.released /\ z.touched = c.touched /\ z.emptied = c.emptied
    BY <2>2, StoreFields
  <2>5. /\ w.sightings = Put(u.sightings, ref, row) /\ w.seen = u.seen \union {ref}
        /\ w.roots = u.roots /\ w.seenRoots = u.seenRoots /\ w.pinned = u.pinned
        /\ SameVideos(u, w) /\ SameGrades(u, w)
        /\ w.items = u.items /\ w.overlaps = u.overlaps /\ w.error = u.error
        /\ w.released = u.released /\ w.touched = u.touched /\ w.emptied = u.emptied
    BY <1>1, <1>2, StoreFields
  <2>6. SameReports(w, z) /\ SameVideos(w, z) /\ SameGrades(w, z)
    BY <2>2, <2>4, <2>5 DEF SameReports, SameVideos, SameGrades
  <2>7. k \in DOMAIN w.items => Ownerless(w, k) \/ w.items[k].inst = NoInst
    BY <2>1, <2>3, <2>5 DEF Ownerless, SameVideos
  <2>8. z.items = Put(w.items, k, [ref |-> ref, inst |-> NoInst])
    BY <2>2, <2>4, <2>5
  <2>9. /\ z.overlaps = w.overlaps /\ z.error = w.error /\ k \in w.touched
        /\ z.released = w.released /\ z.touched = w.touched /\ z.emptied = w.emptied
    BY <2>2, <2>4, <2>5
  <2>. QED BY <1>4, <2>4, <2>6, <2>7, <2>8, <2>9, TakeKeeps
<1>. QED BY <1>5, <1>6

\* z is u with ref's claim on k at path refused for the owner of video i, and its
\* row stored.
Overlapped(u, z, ref, k, path) ==
    \E i \in DOMAIN u.instances, row \in Sighting, byKey \in BOOLEAN :
        /\ u.instances[i].owner # NoOwner
        /\ u.instances[i].owner # SourceOfRef(ref)
        /\ \A j \in DOMAIN u.instances :
               u.instances[j].path = path /\ k \in DOMAIN u.items /\ u.items[k].inst = j =>
                   u.instances[j].owner # SourceOfRef(ref)
        /\ row.key = k /\ row.path = path /\ Provides(u, ref, row)
        /\ \E c : /\ c = [u EXCEPT !.overlaps =
                               Put(@, ref, [owner |-> u.instances[i].owner, byKey |-> byKey])]
                  /\ z = Store(c, ref, row)

\* A refused claim (rules 3 and 4) keeps Core.
LEMMA OverlapKeeps ==
    ASSUME NEW u, NEW A, NEW p, NEW Stray, Core(u, A, p, Stray), NEW b, Kept(b, u),
           NEW ref \in Ref, NEW k \in Key, NEW path \in Path,
           NEW z, Overlapped(u, z, ref, k, path)
    PROVE  Core(z, A, p, Stray) /\ Kept(b, z)
<1>. SUFFICES ASSUME NEW i \in DOMAIN u.instances,
                     u.instances[i].owner # NoOwner,
                     u.instances[i].owner # SourceOfRef(ref),
                     \A j \in DOMAIN u.instances :
                         u.instances[j].path = path /\ k \in DOMAIN u.items /\ u.items[k].inst = j =>
                             u.instances[j].owner # SourceOfRef(ref),
                     NEW row \in Sighting, row.key = k, row.path = path, Provides(u, ref, row),
                     NEW byKey \in BOOLEAN, NEW c,
                     c = [u EXCEPT !.overlaps =
                             Put(@, ref, [owner |-> u.instances[i].owner, byKey |-> byKey])],
                     z = Store(c, ref, row)
              PROVE  Core(z, A, p, Stray) /\ Kept(b, z)
  BY DEF Overlapped
<1>1. Rec(u)
  BY DEF Core, Typed
<1>2. PICK v : v = DropOverlaps(u, {ref})
  OBVIOUS
<1>3. PICK w : w = Store(v, ref, row)
  OBVIOUS
<1>4. StoredOver(u, w, ref, row)
  BY <1>1, <1>2, <1>3, StoredOverDropped
<1>5. Core(w, A, p, Stray) /\ ReportsAt(w, ref, k, path) /\ Kept(b, w)
  BY <1>4, StoreKeeps
<1>6. PICK r : r = [owner |-> u.instances[i].owner, byKey |-> byKey]
  OBVIOUS
<1>7. /\ Rec(c) /\ SameReports(u, c) /\ SameVideos(u, c) /\ SameGrades(u, c)
      /\ c.items = u.items /\ c.overlaps = Put(u.overlaps, ref, r) /\ c.error = u.error
      /\ c.released = u.released /\ c.touched = u.touched /\ c.emptied = u.emptied
  BY <1>1, <1>6 DEF Rec, SameReports, SameVideos, SameGrades
<1>8. /\ Rec(z) /\ z.sightings = Put(c.sightings, ref, row)
      /\ z.seen = c.seen \union {ref}
      /\ z.roots = c.roots /\ z.seenRoots = c.seenRoots /\ z.pinned = c.pinned
      /\ SameVideos(c, z) /\ SameGrades(c, z)
      /\ z.items = c.items /\ z.overlaps = c.overlaps /\ z.error = c.error
      /\ z.released = c.released /\ z.touched = c.touched /\ z.emptied = c.emptied
  <2>1. Rec(c)
    BY <1>7
  <2>. QED BY ONLY <2>1, z = Store(c, ref, row), StoreFields
<1>9. SameReports(w, z) /\ SameVideos(w, z) /\ SameGrades(w, z)
  BY <1>4, <1>7, <1>8 DEF StoredOver, SameReports, SameVideos, SameGrades
<1>10. /\ z.items = w.items /\ z.error = w.error
       /\ z.released = w.released /\ z.touched = w.touched /\ z.emptied = w.emptied
  BY <1>4, <1>7, <1>8 DEF StoredOver
<1>11. z.overlaps = Put(w.overlaps, ref, r)
  <2>1. w.overlaps = Drop(u.overlaps, {ref}) /\ z.overlaps = Put(u.overlaps, ref, r)
    BY <1>4, <1>7, <1>8 DEF StoredOver
  <2>2. PICK o : o = u.overlaps
    OBVIOUS
  <2>3. PICK D : D = DOMAIN o
    OBVIOUS
  <2>4. /\ DOMAIN Drop(o, {ref}) = D \ {ref}
        /\ \A x \in D \ {ref} : Drop(o, {ref})[x] = o[x]
    BY ONLY <2>3 DEF Drop
  <2>5. (D \ {ref}) \union {ref} = D \union {ref}
    OBVIOUS
  <2>6. Put(Drop(o, {ref}), ref, r) = [x \in D \union {ref} |-> IF x = ref THEN r ELSE o[x]]
    BY ONLY <2>4, <2>5 DEF Put
  <2>7. Put(o, ref, r) = [x \in D \union {ref} |-> IF x = ref THEN r ELSE o[x]]
    BY ONLY <2>3 DEF Put
  <2>. QED BY <2>1, <2>2, <2>6, <2>7
<1>12. r \in Refusal /\ r.owner \in A /\ r.owner # SourceOfRef(ref)
  <2>1. u.instances[i].owner \in A
    BY DEF Core, Sourced
  <2>2. u.instances[i].owner \in Source
    BY DEF Core, Typed, IsTable, Video
  <2>. QED BY <1>6, <2>1, <2>2 DEF Refusal
<1>13. ASSUME k \in DOMAIN w.items, w.items[k].ref = ref
       PROVE  Ownerless(w, k) \/ (w.items[k].inst = NoInst /\ k \in w.released)
  <2>1. w.items = u.items /\ w.released = u.released /\ w.instances = u.instances
    BY <1>4 DEF StoredOver, SameVideos
  <2>2. path # NoPath
    BY NamesAssumption
  <2>3. CASE u.items[k].inst = NoInst
    BY <1>13, <2>1, <2>2, <2>3 DEF Provides, Ownerless
  <2>4. CASE u.items[k].inst # NoInst
    <3>1. /\ u.items[k].inst \in DOMAIN u.instances
          /\ k \in u.instances[u.items[k].inst].items
      BY <1>13, <2>1, <2>4 DEF Core, Linked
    <3>2. u.instances[u.items[k].inst].owner # NoOwner =>
              u.instances[u.items[k].inst].owner = SourceOfRef(ref)
      BY <1>13, <2>1, <3>1 DEF Core, Sourced
    <3>3. u.instances[u.items[k].inst].owner # NoOwner =>
              u.instances[u.items[k].inst].path = path
      BY <1>13, <2>1, <2>4 DEF Provides, Ownerless
    <3>. QED BY <1>13, <2>1, <2>4, <3>1, <3>2, <3>3 DEF Ownerless
  <2>. QED BY <2>3, <2>4
<1>. QED BY <1>5, <1>8, <1>9, <1>10, <1>11, <1>12, <1>13, RefuseKeeps

\* u may store row as what ref, of s, reports.
Ready(u, A, s, ref, row) ==
    /\ s \in Source /\ s \in A /\ SourceOfRef(ref) = s
    /\ row.key # NoKey => row.key \in u.touched
    /\ Provides(u, ref, row)
    /\ ref \in DOMAIN u.overlaps => row.key # NoKey /\ row.path # NoPath

\* Rules 3 to 5 keep Core: a video of another live source is never joined.
LEMMA AttachOrOverlapKeeps ==
    ASSUME NEW u, NEW A, NEW p, NEW Stray, Core(u, A, p, Stray), NEW b, Kept(b, u),
           NEW s, NEW ref \in Ref, NEW k \in Key, NEW path \in Path, NEW lang \in Profile,
           NEW row, row = [key |-> k, path |-> path, lang |-> lang], Ready(u, A, s, ref, row),
           NEW c, c = AttachOrOverlap(u, s, ref, k, path),
           NEW kept, kept = [key |-> IF c.keyed THEN k ELSE NoKey, path |-> path,
                             lang |-> lang],
           NEW z, z = Store(c.t, ref, kept)
    PROVE  \/ Rec(c.t) /\ c.t.error = "pinned"
           \/ c.t.error = "none" /\ Core(z, A, p, Stray) /\ Kept(b, z)
<1>1. /\ Rec(u) /\ u.error = "none" /\ Linked(u) /\ Apart(u) /\ Sourced(u, A)
      /\ NoInst \notin DOMAIN u.instances
  BY NoInstIsNone DEF Core, Typed
<1>2. row \in Sighting /\ row.key = k /\ row.path = path /\ k # NoKey /\ path # NoPath
  BY NamesAssumption DEF Sighting
<1>3. /\ s \in Source /\ s \in A /\ SourceOfRef(ref) = s /\ s # NoOwner
      /\ k \in u.touched /\ Provides(u, ref, row)
  BY <1>2, NamesAssumption DEF Ready
<1>4. PICK i : i = u.items[k].inst
  OBVIOUS
<1>5. PICK j : j = InstAt(u, path)
  OBVIOUS
<1>6. \A x \in At(u, path) : At(u, path) = {x} /\ j = x
  <2>1. SUFFICES ASSUME NEW x \in At(u, path) PROVE At(u, path) = {x} /\ j = x
    OBVIOUS
  <2>2. At(u, path) = {x}
    BY <1>1, <2>1 DEF At, Apart
  <2>. QED BY <1>5, <2>2 DEF InstAt
<1>7. CASE \E x \in At(u, path) : ForeignOwner(u, s, x)
  <2>1. PICK x \in At(u, path) : ForeignOwner(u, s, x)
    BY <1>7
  <2>2. j = x /\ j \in DOMAIN u.instances /\ u.instances[j].path = path
    BY <1>6, <2>1 DEF At
  <2>3. u.instances[j].owner # NoOwner /\ u.instances[j].owner # s
    BY <2>1, <2>2 DEF ForeignOwner
  <2>4. PICK d : d = [u EXCEPT !.overlaps =
                        Put(@, ref, [owner |-> u.instances[j].owner, byKey |-> FALSE])]
    OBVIOUS
  <2>5. c = [t |-> d, keyed |-> TRUE]
    BY <1>5, <1>7, <2>4 DEF AttachOrOverlap, Overlap
  <2>6. c.t = d /\ kept = row
    BY <2>5
  <2>7. \A y \in DOMAIN u.instances :
            u.instances[y].path = path /\ k \in DOMAIN u.items /\ u.items[k].inst = y =>
                u.instances[y].owner # SourceOfRef(ref)
    BY <1>1, <1>3, <2>2, <2>3 DEF Apart
  <2>8. z = Store(d, ref, row)
    BY <2>6
  <2>9. Core(z, A, p, Stray) /\ Kept(b, z)
    <3>1. Overlapped(u, z, ref, k, path)
      BY ONLY <1>2, <1>3, <2>2, <2>3, <2>4, <2>7, <2>8 DEF Overlapped
    <3>. QED BY ONLY Core(u, A, p, Stray), Kept(b, u), ref \in Ref, k \in Key, path \in Path,
                     <3>1, OverlapKeeps
  <2>10. d.error = "none"
    BY <1>1, <2>4 DEF Rec
  <2>. QED BY <2>6, <2>9, <2>10
<1>8. CASE /\ ~\E x \in At(u, path) : ForeignOwner(u, s, x)
           /\ k \in DOMAIN u.items /\ i # NoInst /\ i \notin At(u, path)
           /\ ForeignOwner(u, s, i)
  <2>1. /\ i \in DOMAIN u.instances /\ u.instances[i].path # path
        /\ u.instances[i].owner # NoOwner /\ u.instances[i].owner # s
    BY <1>8 DEF ForeignOwner, At
  <2>2. PICK d : d = [u EXCEPT !.overlaps =
                        Put(@, ref, [owner |-> u.instances[i].owner, byKey |-> TRUE])]
    OBVIOUS
  <2>3. c = [t |-> d, keyed |-> TRUE]
    BY <1>4, <1>8, <2>2 DEF AttachOrOverlap, Overlap, Recorded
  <2>4. c.t = d /\ kept = row
    BY <2>3
  <2>5. \A y \in DOMAIN u.instances :
            u.instances[y].path = path /\ k \in DOMAIN u.items /\ u.items[k].inst = y =>
                u.instances[y].owner # SourceOfRef(ref)
    BY <1>4, <2>1
  <2>6. z = Store(d, ref, row)
    BY <2>4
  <2>7. Core(z, A, p, Stray) /\ Kept(b, z)
    <3>1. Overlapped(u, z, ref, k, path)
      BY ONLY <1>2, <1>3, <2>1, <2>2, <2>5, <2>6 DEF Overlapped
    <3>. QED BY ONLY Core(u, A, p, Stray), Kept(b, u), ref \in Ref, k \in Key, path \in Path,
                     <3>1, OverlapKeeps
  <2>8. d.error = "none"
    BY <1>1, <2>2 DEF Rec
  <2>. QED BY <2>4, <2>7, <2>8
<1>9. CASE /\ ~\E x \in At(u, path) : ForeignOwner(u, s, x)
           /\ ~(/\ k \in DOMAIN u.items /\ i # NoInst /\ i \notin At(u, path)
                /\ ForeignOwner(u, s, i))
           /\ k \in DOMAIN u.items /\ i # NoInst
           /\ u.items[k].ref # ref /\ SourceOfRef(u.items[k].ref) = s
           /\ HeldElsewhere(u, s, u.items[k])
  <2>1. PICK d : d = DropOverlaps(u, {ref})
    OBVIOUS
  <2>2. c.t = d /\ (c.keyed <=> i \in At(u, path))
    BY <1>4, <1>9, <2>1 DEF AttachOrOverlap, Recorded
  <2>3. kept \in Sighting /\ kept.path = path /\ kept.key \in {k, NoKey}
    BY DEF Sighting
  <2>4. Provides(u, ref, kept)
    BY <1>2, <1>3, <1>9, <2>3 DEF Provides
  <2>5. StoredOver(u, z, ref, kept)
    BY <1>1, <2>1, <2>2, StoredOverDropped
  <2>6. Core(z, A, p, Stray) /\ Kept(b, z)
    BY <2>3, <2>4, <2>5, StoreKeeps
  <2>7. d.error = "none"
    BY <1>1, <2>1 DEF Rec, DropOverlaps
  <2>. QED BY <2>2, <2>6, <2>7
<1>10. CASE /\ ~\E x \in At(u, path) : ForeignOwner(u, s, x)
            /\ ~(/\ k \in DOMAIN u.items /\ i # NoInst /\ i \notin At(u, path)
                 /\ ForeignOwner(u, s, i))
            /\ ~(/\ k \in DOMAIN u.items /\ i # NoInst
                 /\ u.items[k].ref # ref /\ SourceOfRef(u.items[k].ref) = s
                 /\ HeldElsewhere(u, s, u.items[k]))
  <2>1. PICK d : d = AttachKey(u, s, ref, k, path)
    OBVIOUS
  <2>2. c = [t |-> d, keyed |-> TRUE]
    BY <1>4, <1>10, <2>1 DEF AttachOrOverlap, Recorded
  <2>3. c.t = d /\ kept = row
    BY <2>2
  <2>4. \A x \in At(u, path) : u.instances[x].owner \in {NoOwner, s}
    BY <1>10 DEF ForeignOwner, At
  <2>5. z = Store(d, ref, row)
    BY <2>3
  <2>6. \/ Rec(d) /\ d.error = "pinned"
        \/ d.error = "none" /\ Core(z, A, p, Stray) /\ Kept(b, z)
    BY ONLY Core(u, A, p, Stray), Kept(b, u), ref \in Ref, k \in Key, path \in Path,
       <1>2, <1>3, <2>1, <2>4, <2>5, AttachKeyKeeps
  <2>. QED BY <2>3, <2>6
<1>. QED BY <1>7, <1>8, <1>9, <1>10

\* A claim keeps Core, whichever rule decides it.
LEMMA ClaimKeeps ==
    ASSUME NEW u, NEW A, NEW p, NEW Stray, Core(u, A, p, Stray), NEW b, Kept(b, u),
           NEW s, NEW offer \in Offer,
           NEW row, row = [key |-> offer.key, path |-> offer.path, lang |-> offer.lang],
           Ready(u, A, s, offer.ref, row),
           NEW c, c = Claim(u, s, offer),
           NEW kept, kept = [key |-> IF c.keyed THEN offer.key ELSE NoKey, path |-> offer.path,
                             lang |-> offer.lang],
           NEW z, z = Store(c.t, offer.ref, kept)
    PROVE  \/ Rec(c.t) /\ c.t.error = "pinned"
           \/ c.t.error = "none" /\ Core(z, A, p, Stray) /\ Kept(b, z)
<1>1. PICK ref : ref = offer.ref
  OBVIOUS
<1>2. PICK k : k = offer.key
  OBVIOUS
<1>3. PICK path : path = offer.path
  OBVIOUS
<1>4. PICK lang : lang = offer.lang
  OBVIOUS
<1>5. ref \in Ref /\ k \in Key \union {NoKey} /\ path \in Path \union {NoPath} /\ lang \in Profile
  BY <1>1, <1>2, <1>3, <1>4 DEF Offer
<1>6. /\ row \in Sighting /\ row.key = k /\ row.path = path /\ row.lang = lang
      /\ Rec(u) /\ u.error = "none"
  BY <1>2, <1>3, <1>4, <1>5 DEF Sighting, Core, Typed
<1>7. Ready(u, A, s, ref, row)
  BY <1>1
<1>8. CASE k = NoKey
  <2>1. c = [t |-> u, keyed |-> FALSE]
    BY <1>2, <1>8 DEF Claim
  <2>2. kept = row /\ c.t = u
    BY <1>2, <1>8, <2>1
  <2>3. ref \notin DOMAIN u.overlaps /\ Provides(u, ref, row)
    BY <1>6, <1>7, <1>8 DEF Ready
  <2>4. z = Store(u, ref, row)
    BY <1>1, <2>2
  <2>5. StoredOver(u, z, ref, row)
    BY <2>3, <2>4, StoredWhereFree
  <2>6. Core(z, A, p, Stray) /\ Kept(b, z)
    BY <1>5, <1>6, <2>3, <2>5, StoreKeeps
  <2>. QED BY <1>6, <2>2, <2>6
<1>9. CASE k # NoKey /\ path = NoPath
  <2>1. PICK d : d = NoVideo(u, s, ref, k)
    OBVIOUS
  <2>2. c = [t |-> d, keyed |-> TRUE]
    BY <1>1, <1>2, <1>3, <1>9, <2>1 DEF Claim
  <2>3. kept = row /\ c.t = d
    BY <1>2, <2>2
  <2>4. /\ ref \notin DOMAIN u.overlaps /\ Provides(u, ref, row) /\ k \in u.touched
        /\ k \in Key /\ row.key = k /\ row.path = NoPath
    BY <1>5, <1>6, <1>7, <1>9 DEF Ready
  <2>5. z = Store(d, ref, row)
    BY <1>1, <2>3
  <2>6. Core(z, A, p, Stray) /\ Kept(b, z)
    BY ONLY Core(u, A, p, Stray), Kept(b, u), <1>5, <1>6, <2>1, <2>4, <2>5, NoVideoKeeps
  <2>7. d.error = "none"
    BY <1>6, <2>1 DEF NoVideo, Rec
  <2>. QED BY <2>3, <2>6, <2>7
<1>10. CASE k # NoKey /\ path # NoPath
  <2>1. c = AttachOrOverlap(u, s, ref, k, path)
    BY <1>1, <1>2, <1>3, <1>10 DEF Claim
  <2>2. k \in Key /\ path \in Path
    BY <1>5, <1>10
  <2>3. row = [key |-> k, path |-> path, lang |-> lang]
    BY <1>2, <1>3, <1>4
  <2>4. kept = [key |-> IF c.keyed THEN k ELSE NoKey, path |-> path, lang |-> lang]
    BY <1>2, <1>3, <1>4
  <2>5. z = Store(c.t, ref, kept)
    BY <1>1
  <2>. QED BY ONLY Core(u, A, p, Stray), Kept(b, u), <1>5, <1>7, <2>1, <2>2, <2>3, <2>4, <2>5,
              AttachOrOverlapKeeps
<1>. QED BY <1>8, <1>9, <1>10

\* Touching keys keeps Core: it only asks settle for more.
LEMMA TouchKeeps ==
    ASSUME NEW t, NEW A, NEW p, NEW Stray, Core(t, A, p, Stray), NEW T,
           NEW u, u = [t EXCEPT !.touched = @ \union T]
    PROVE  /\ Core(u, A, p, Stray)
           /\ \A b : Kept(b, t) => Kept(b, u)
           /\ u.touched = t.touched \union T /\ u.overlaps = t.overlaps
           /\ u.items = t.items /\ u.instances = t.instances /\ u.released = t.released
           /\ u.sightings = t.sightings
<1>1. Rec(t)
  BY DEF Core, Typed
<1>2. /\ Rec(u) /\ SameReports(t, u) /\ SameVideos(t, u) /\ SameGrades(t, u)
      /\ u.overlaps = t.overlaps /\ u.items = t.items /\ u.error = t.error
      /\ u.released = t.released /\ u.emptied = t.emptied
      /\ u.touched = t.touched \union T
  BY <1>1 DEF Rec, SameReports, SameVideos, SameGrades
<1>3. /\ u.instances = t.instances /\ u.next = t.next /\ u.evidence = t.evidence
      /\ u.work = t.work /\ u.sightings = t.sightings /\ u.roots = t.roots
      /\ u.seenRoots = t.seenRoots /\ u.seen = t.seen /\ u.pinned = t.pinned
      /\ u.locks = t.locks /\ u.coverage = t.coverage
  BY <1>2 DEF SameReports, SameVideos, SameGrades
<1>4. Typed(u)
  BY <1>2, <1>3 DEF Core, Typed
<1>5. Linked(u) /\ Held(u) /\ Apart(u)
  BY <1>2, <1>3 DEF Core, Linked, Held, Apart
<1>6. Sourced(u, A) /\ Unheld(u)
  BY <1>2, <1>3 DEF Core, Sourced, Unheld, ReportsAt
<1>7. Refused(u, A)
  BY <1>2, <1>3 DEF Core, Refused, Ownerless
<1>8. Graded(u, p, Stray)
  <2>1. \A k : Ownerless(u, k) <=> Ownerless(t, k)
    BY ONLY <1>2, <1>3 DEF Ownerless
  <2>2. \A k : GradedAt(u, p, k) <=> GradedAt(t, p, k)
    BY ONLY <1>2, <1>3 DEF GradedAt, ItemEvidence
  <2>3. Graded(t, p, Stray)
    BY DEF Core
  <2>. QED BY ONLY <1>2, <1>3, <2>1, <2>2, <2>3 DEF Graded
<1>9. \A b : Kept(b, t) => Kept(b, u)
  BY <1>2, <1>3 DEF Kept
<1>. QED BY <1>2, <1>3, <1>4, <1>5, <1>6, <1>7, <1>8, <1>9 DEF Core

\* The transaction t, begun at b, has given up on a pinned video or is sound.
Stands(b, A, p, Stray, t) ==
    \/ Rec(t) /\ t.error = "pinned"
    \/ Core(t, A, p, Stray) /\ Kept(b, t)

\* A ref that reports again what it reported stands as it did.
LEMMA ReadyAsReported ==
    ASSUME NEW t, NEW A, NEW p, NEW Stray, Core(t, A, p, Stray), NEW ref, NEW row,
           row.path \in Path \union {NoPath},
           ref \in DOMAIN t.sightings =>
               t.sightings[ref].key = row.key /\ t.sightings[ref].path = row.path,
           row.key # NoKey => row.key \in t.touched
    PROVE  /\ Provides(t, ref, row)
           /\ ref \in DOMAIN t.overlaps => row.key # NoKey /\ row.path # NoPath
<1>1. Provides(t, ref, row)
  <2>1. SUFFICES ASSUME NEW k \in DOMAIN t.items, t.items[k].ref = ref, ~Ownerless(t, k),
                        ~(t.items[k].inst = NoInst /\ k \in t.released)
                 PROVE  /\ k \in t.touched /\ row.key = k
                        /\ t.items[k].inst = NoInst => row.path = NoPath
                        /\ t.items[k].inst # NoInst =>
                              row.path = t.instances[t.items[k].inst].path
    BY DEF Provides
  <2>2. k # NoKey
    BY NamesAssumption DEF Core, Typed, IsTable
  <2>3. CASE t.items[k].inst = NoInst
    <3>1. ReportsAt(t, ref, k, NoPath)
      BY <2>1, <2>3 DEF Core, Unheld
    <3>. QED BY <2>2, <2>3, <3>1 DEF ReportsAt
  <2>4. CASE t.items[k].inst # NoInst
    <3>1. ReportsAt(t, ref, k, t.instances[t.items[k].inst].path)
      BY <2>1, <2>4 DEF Core, Linked, Sourced, Ownerless
    <3>. QED BY <2>2, <2>4, <3>1 DEF ReportsAt
  <2>. QED BY <2>3, <2>4
<1>2. ref \in DOMAIN t.overlaps => row.key # NoKey /\ row.path # NoPath
  BY DEF Core, Refused
<1>. QED BY <1>1, <1>2

\* The transaction t as an offer finds it: r once the claim it replaces is
\* released, u once its key is touched; it comes to report row.
Offered(t, offer, r, u, row) ==
    /\ r = IF Differs(t, offer) THEN Release(t, {offer.ref}) ELSE t
    /\ u = [r EXCEPT !.touched = @ \union ({offer.key} \ {NoKey})]
    /\ row = [key |-> offer.key, path |-> offer.path, lang |-> offer.lang]

\* So prepared the offer may be claimed, or a pinned video fails the call.
LEMMA OfferReady ==
    ASSUME NEW t, NEW b, NEW A, NEW p, NEW Stray, Core(t, A, p, Stray), Kept(b, t), NEW s \in Source, s \in A,
           NEW offer \in Offer, SourceOfRef(offer.ref) = s,
           NEW r, NEW u, NEW row, Offered(t, offer, r, u, row)
    PROVE  \/ Rec(u) /\ u.error = "pinned"
           \/ /\ Core(u, A, p, Stray) /\ Kept(b, u) /\ Ready(u, A, s, offer.ref, row)
              /\ r.error = "none"
<1>1. PICK ref : ref = offer.ref
  OBVIOUS
<1>2. PICK T : T = {offer.key} \ {NoKey}
  OBVIOUS
<1>3. u = [r EXCEPT !.touched = @ \union T]
  BY <1>2 DEF Offered
<1>4. \/ Rec(r) /\ r.error = "pinned"
      \/ /\ Core(r, A, p, Stray) /\ Kept(b, r)
         /\ Differs(t, offer) => Parted(r, {ref}) /\ ref \notin DOMAIN r.overlaps
         /\ ~Differs(t, offer) => r = t
  <2>1. CASE Differs(t, offer)
    <3>1. r = Release(t, {ref})
      BY <1>1, <2>1 DEF Offered
    <3>2. \/ Rec(r) /\ r.error = "pinned"
          \/ /\ Core(r, A, p, Stray) /\ Parted(r, {ref})
             /\ SameReports(t, r) /\ r.overlaps = Drop(t.overlaps, {ref})
             /\ t.touched \subseteq r.touched /\ r.next = t.next
             /\ \A x : Kept(x, t) => Kept(x, r)
      BY ONLY Core(t, A, p, Stray), <3>1, ReleaseKeeps
    <3>3. ref \notin DOMAIN Drop(t.overlaps, {ref})
      BY DEF Drop
    <3>. QED BY <2>1, <3>2, <3>3
  <2>2. CASE ~Differs(t, offer)
    BY <2>2 DEF Offered
  <2>. QED BY <2>1, <2>2
<1>5. CASE Rec(r) /\ r.error = "pinned"
  BY <1>3, <1>5 DEF Rec
<1>6. CASE /\ Core(r, A, p, Stray) /\ Kept(b, r)
           /\ Differs(t, offer) => Parted(r, {ref}) /\ ref \notin DOMAIN r.overlaps
           /\ ~Differs(t, offer) => r = t
  <2>1. /\ Core(u, A, p, Stray) /\ Kept(b, u)
        /\ u.touched = r.touched \union T /\ u.overlaps = r.overlaps
        /\ u.items = r.items /\ u.instances = r.instances /\ u.released = r.released
        /\ u.sightings = r.sightings
    BY ONLY <1>3, <1>6, TouchKeeps
  <2>2. row.path \in Path \union {NoPath} /\ row.key = offer.key /\ row.path = offer.path
    BY DEF Offer, Offered
  <2>3. row.key # NoKey => row.key \in u.touched
    BY <1>2, <2>1, <2>2
  <2>4. /\ Provides(u, ref, row)
        /\ ref \in DOMAIN u.overlaps => row.key # NoKey /\ row.path # NoPath
    <3>1. CASE Differs(t, offer)
      BY <1>6, <2>1, <3>1 DEF Parted, Provides, Ownerless
    <3>2. CASE ~Differs(t, offer)
      <4>1. ref \in DOMAIN u.sightings =>
                u.sightings[ref].key = row.key /\ u.sightings[ref].path = row.path
        BY <1>1, <1>6, <2>1, <2>2, <3>2 DEF Differs
      <4>. QED BY <2>1, <2>2, <2>3, <4>1, ReadyAsReported
    <3>. QED BY <3>1, <3>2
  <2>5. Ready(u, A, s, offer.ref, row)
    BY <1>1, <2>3, <2>4 DEF Ready
  <2>6. r.error = "none"
    BY <1>6 DEF Core, Typed
  <2>. QED BY <2>1, <2>5, <2>6
<1>. QED BY <1>4, <1>5, <1>6

\* One offer of a report keeps Core, or fails on a pinned video.
LEMMA ObserveItemKeeps ==
    ASSUME NEW t, NEW b, NEW A, NEW p, NEW Stray, Stands(b, A, p, Stray, t), NEW s \in Source, s \in A,
           NEW offer \in Offer, SourceOfRef(offer.ref) = s,
           NEW z, z = ObserveItem(t, s, offer)
    PROVE  Stands(b, A, p, Stray, z)
<1>1. CASE t.error # "none"
  BY <1>1 DEF ObserveItem
<1>2. CASE t.error = "none"
  <2>1. Core(t, A, p, Stray) /\ Kept(b, t)
    BY <1>2 DEF Stands
  <2>2. PICK r : r = IF Differs(t, offer) THEN Release(t, {offer.ref}) ELSE t
    OBVIOUS
  <2>3. PICK u : u = [r EXCEPT !.touched = @ \union ({offer.key} \ {NoKey})]
    OBVIOUS
  <2>4. PICK c : c = Claim(u, s, offer)
    OBVIOUS
  <2>5. PICK kept : kept = [key |-> IF c.keyed THEN offer.key ELSE NoKey,
                            path |-> offer.path, lang |-> offer.lang]
    OBVIOUS
  <2>6. z = IF u.error # "none" THEN u ELSE Store(c.t, offer.ref, kept)
    BY <1>2, <2>2, <2>3, <2>4, <2>5 DEF ObserveItem, Store
  <2>7. PICK row : row = [key |-> offer.key, path |-> offer.path, lang |-> offer.lang]
    OBVIOUS
  <2>8. Offered(t, offer, r, u, row)
    BY <2>2, <2>3, <2>7 DEF Offered
  <2>9. \/ Rec(u) /\ u.error = "pinned"
        \/ /\ Core(u, A, p, Stray) /\ Kept(b, u) /\ Ready(u, A, s, offer.ref, row)
           /\ r.error = "none"
    BY ONLY s \in Source, s \in A, offer \in Offer, SourceOfRef(offer.ref) = s,
            <2>1, <2>8, OfferReady
  <2>10. CASE Rec(u) /\ u.error = "pinned"
    BY <2>6, <2>10 DEF Stands
  <2>11. CASE Core(u, A, p, Stray) /\ Kept(b, u) /\ Ready(u, A, s, offer.ref, row)
    <3>1. u.error = "none"
      BY <2>11 DEF Core, Typed
    <3>2. z = Store(c.t, offer.ref, kept)
      BY <2>6, <3>1
    <3>3. \/ Rec(c.t) /\ c.t.error = "pinned"
          \/ c.t.error = "none" /\ Core(z, A, p, Stray) /\ Kept(b, z)
      BY ONLY <2>4, <2>5, <2>7, <2>11, <3>2, offer \in Offer, ClaimKeeps
    <3>4. Rec(c.t) => Rec(z) /\ z.error = c.t.error
      BY ONLY <3>2, StoreFields
    <3>. QED BY <3>3, <3>4 DEF Stands
  <2>. QED BY <2>9, <2>10, <2>11
<1>. QED BY <1>1, <1>2

\* f holds the transactions after each of the first N items of a report.
After(t, s, rep, N, f) ==
    f = [n \in 0 .. N |-> IF n = 0 THEN t ELSE ObserveItem(f[n - 1], s, rep[n])]

\* The transactions after each offer of a report exist, as a function.
LEMMA SomeAfter ==
    ASSUME NEW t, NEW s, NEW rep, NEW N \in Nat
    PROVE  \E f : After(t, s, rep, N, f)
<1>. DEFINE T == {n \in Nat : ~\E f : After(t, s, rep, n, f)}
<1>. SUFFICES ASSUME T # {} PROVE FALSE
  OBVIOUS
<1>1. PICK m \in T : \A y \in T : m <= y
  <2>1. T # {} /\ T \subseteq Nat
    OBVIOUS
  <2>. QED BY ONLY <2>1, Least
<1>2. CASE m = 0
  <2>1. [n \in 0 .. 0 |-> t] =
          [n \in 0 .. 0 |-> IF n = 0 THEN t
                            ELSE ObserveItem([k \in 0 .. 0 |-> t][n - 1], s, rep[n])]
    OBVIOUS
  <2>2. After(t, s, rep, 0, [n \in 0 .. 0 |-> t])
    BY <2>1 DEF After
  <2>. QED BY <1>2, <2>2
<1>3. CASE m # 0
  <2>1. m - 1 \in Nat /\ m - 1 \notin T
    BY <1>1, <1>3
  <2>2. PICK f : After(t, s, rep, m - 1, f)
    BY <2>1
  <2>. DEFINE g == [n \in 0 .. m |-> IF n = m THEN ObserveItem(f[m - 1], s, rep[m]) ELSE f[n]]
  <2>3. \A n \in 0 .. m - 1 : f[n] = IF n = 0 THEN t ELSE ObserveItem(f[n - 1], s, rep[n])
    BY <2>2 DEF After
  <2>4. ASSUME NEW n \in 0 .. m
        PROVE  g[n] = IF n = 0 THEN t ELSE ObserveItem(g[n - 1], s, rep[n])
    <3>1. CASE n = m
      <4>1. g[n] = ObserveItem(f[m - 1], s, rep[m]) /\ g[m - 1] = f[m - 1]
        BY <1>3, <2>1, <3>1
      <4>. QED BY <1>3, <3>1, <4>1
    <3>2. CASE n # m /\ n # 0
      <4>1. n \in 0 .. m - 1 /\ n - 1 \in 0 .. m /\ n - 1 # m
        BY <2>1, <3>2
      <4>2. g[n] = f[n] /\ g[n - 1] = f[n - 1]
        BY <3>2, <4>1
      <4>. QED BY <2>3, <3>2, <4>1, <4>2
    <3>3. CASE n = 0
      BY <1>3, <2>1, <2>3, <3>3
    <3>. QED BY <3>1, <3>2, <3>3
  <2>5. g = [n \in 0 .. m |-> g[n]]
    OBVIOUS
  <2>. HIDE DEF g
  <2>6. After(t, s, rep, m, g)
    BY <2>4, <2>5 DEF After
  <2>. QED BY <2>6
<1>. QED BY <1>2, <1>3

\* A report ends with the last of them.
LEMMA LastAfter ==
    ASSUME NEW t, NEW s, NEW rep \in Seq(Offer)
    PROVE  \E f : After(t, s, rep, Len(rep), f) /\ ObserveAll(t, s, rep) = f[Len(rep)]
<1>1. \E f : f = [n \in 0 .. Len(rep) |->
                      IF n = 0 THEN t ELSE ObserveItem(f[n - 1], s, rep[n])]
  <2>1. Len(rep) \in Nat
    OBVIOUS
  <2>2. \E f : After(t, s, rep, Len(rep), f)
    BY <2>1, SomeAfter
  <2>. QED BY <2>2 DEF After
<1>. DEFINE a == CHOOSE f : f = [n \in 0 .. Len(rep) |->
                                   IF n = 0 THEN t ELSE ObserveItem(f[n - 1], s, rep[n])]
<1>2. a = [n \in 0 .. Len(rep) |-> IF n = 0 THEN t ELSE ObserveItem(a[n - 1], s, rep[n])]
  BY ONLY <1>1
<1>3. ObserveAll(t, s, rep) = a[Len(rep)]
  BY DEF ObserveAll
<1>. HIDE DEF a
<1>4. After(t, s, rep, Len(rep), a)
  BY <1>2 DEF After
<1>. QED BY <1>3, <1>4

\* One offer after another: where each leads.
LEMMA AfterEach ==
    ASSUME NEW t, NEW s, NEW rep \in Seq(Offer), NEW f, After(t, s, rep, Len(rep), f)
    PROVE  /\ f[0] = t
           /\ \A n \in (0 .. Len(rep)) \ {0} :
                 /\ n \in DOMAIN rep /\ rep[n] \in Offer /\ n - 1 \in 0 .. Len(rep)
                 /\ f[n] = ObserveItem(f[n - 1], s, rep[n])
<1>1. Len(rep) \in Nat /\ \A n \in 1 .. Len(rep) : n \in DOMAIN rep /\ rep[n] \in Offer
  OBVIOUS
<1>2. f[0] = t
  BY <1>1 DEF After
<1>3. ASSUME NEW n \in (0 .. Len(rep)) \ {0}
      PROVE  f[n] = ObserveItem(f[n - 1], s, rep[n])
  BY <1>1, <1>3 DEF After
<1>4. ASSUME NEW n \in (0 .. Len(rep)) \ {0}
      PROVE  n \in 1 .. Len(rep) /\ n - 1 \in 0 .. Len(rep)
  BY <1>1
<1>. QED BY <1>1, <1>2, <1>3, <1>4

\* Every offer of a report keeps Core, until one fails on a pinned video.
LEMMA AfterStands ==
    ASSUME NEW t, NEW b, NEW A, NEW p, NEW Stray, Stands(b, A, p, Stray, t), NEW s \in Source, s \in A,
           NEW rep \in Seq(Offer), \A n \in DOMAIN rep : SourceOfRef(rep[n].ref) = s,
           NEW f, After(t, s, rep, Len(rep), f)
    PROVE  \A n \in 0 .. Len(rep) : Stands(b, A, p, Stray, f[n])
<1>. DEFINE T == {n \in 0 .. Len(rep) : ~Stands(b, A, p, Stray, f[n])}
<1>1. SUFFICES ASSUME T # {} PROVE FALSE
  OBVIOUS
<1>2. PICK m \in T : \A y \in T : m <= y
  <2>1. T # {} /\ T \subseteq Nat
    BY <1>1
  <2>. QED BY ONLY <2>1, Least
<1>3. m # 0
  BY AfterEach
<1>4. /\ m - 1 \in 0 .. Len(rep) /\ m \in DOMAIN rep /\ rep[m] \in Offer
      /\ f[m] = ObserveItem(f[m - 1], s, rep[m])
  <2>1. m \in (0 .. Len(rep)) \ {0}
    BY <1>3
  <2>. QED BY <2>1, AfterEach
<1>5. m - 1 \notin T
  BY <1>2, <1>4
<1>6. Stands(b, A, p, Stray, f[m - 1]) /\ rep[m] \in Offer /\ SourceOfRef(rep[m].ref) = s
  BY <1>4, <1>5
<1>7. Stands(b, A, p, Stray, f[m])
  BY ONLY <1>4, <1>6, s \in Source, s \in A, ObserveItemKeeps
<1>. QED BY <1>7

\* A whole report keeps Core, or fails on a pinned video.
LEMMA ObserveAllKeeps ==
    ASSUME NEW t, NEW b, NEW A, NEW p, NEW Stray, Stands(b, A, p, Stray, t), NEW s \in Source, s \in A,
           NEW rep \in Seq(Offer), \A n \in DOMAIN rep : SourceOfRef(rep[n].ref) = s
    PROVE  Stands(b, A, p, Stray, ObserveAll(t, s, rep))
<1>1. PICK f : After(t, s, rep, Len(rep), f) /\ ObserveAll(t, s, rep) = f[Len(rep)]
  BY LastAfter
<1>2. \A n \in 0 .. Len(rep) : Stands(b, A, p, Stray, f[n])
  BY <1>1, AfterStands
<1>3. Len(rep) \in 0 .. Len(rep)
  OBVIOUS
<1>. QED BY <1>1, <1>2, <1>3

\* Retiring sightings keeps Core, or fails on a pinned video.
LEMMA RetireRefsKeeps ==
    ASSUME NEW t, NEW A, NEW p, NEW Stray, Core(t, A, p, Stray), NEW b, Kept(b, t), NEW R,
           NEW z, z = RetireRefs(t, R)
    PROVE  Stands(b, A, p, Stray, z) /\ (z.error = "none" => z.next = t.next /\ Fewer(t, z))
<1>1. PICK r : r = Release(t, R)
  OBVIOUS
<1>2. z = [r EXCEPT !.sightings = Drop(@, R)]
  BY <1>1 DEF RetireRefs
<1>3. \/ Rec(r) /\ r.error = "pinned"
      \/ /\ Core(r, A, p, Stray) /\ Parted(r, R)
         /\ SameReports(t, r) /\ r.overlaps = Drop(t.overlaps, R)
         /\ t.touched \subseteq r.touched /\ r.next = t.next
         /\ \A x : Kept(x, t) => Kept(x, r)
  BY <1>1, ReleaseKeeps
<1>4. CASE Rec(r) /\ r.error = "pinned"
  BY <1>2, <1>4 DEF Rec, Stands
<1>5. CASE /\ Core(r, A, p, Stray) /\ Parted(r, R) /\ Kept(b, r) /\ SameReports(t, r)
           /\ r.overlaps = Drop(t.overlaps, R) /\ r.next = t.next
  <2>1. /\ Rec(z) /\ SameVideos(r, z) /\ SameGrades(r, z)
        /\ z.sightings = Drop(r.sightings, R)
        /\ z.roots = r.roots /\ z.seenRoots = r.seenRoots /\ z.seen = r.seen
        /\ z.pinned = r.pinned /\ z.error = r.error
        /\ z.overlaps = r.overlaps /\ z.items = r.items
        /\ z.released = r.released /\ z.touched = r.touched /\ z.emptied = r.emptied
    <3>1. Rec(r)
      BY <1>5 DEF Core, Typed
    <3>. QED BY <1>2, <3>1 DEF Rec, SameVideos, SameGrades
  <2>2. /\ z.instances = r.instances /\ z.next = r.next /\ z.evidence = r.evidence
        /\ z.work = r.work
    BY <2>1 DEF SameVideos
  <2>3. /\ IsTable(z.sightings, Ref, Sighting)
        /\ DOMAIN z.sightings = DOMAIN r.sightings \ R
        /\ \A x \in DOMAIN z.sightings : z.sightings[x] = r.sightings[x]
    <3>1. IsTable(r.sightings, Ref, Sighting)
      BY <1>5 DEF Core, Typed
    <3>2. /\ IsTable(Drop(r.sightings, R), Ref, Sighting)
          /\ DOMAIN Drop(r.sightings, R) = DOMAIN r.sightings \ R
          /\ \A x \in DOMAIN r.sightings \ R : Drop(r.sightings, R)[x] = r.sightings[x]
      BY ONLY <3>1, DropIsTable, Zenon
    <3>. QED BY <2>1, <3>2
  <2>4. Typed(z)
    BY <1>5, <2>1, <2>2, <2>3 DEF Core, Typed, SameGrades
  <2>5. Linked(z) /\ Held(z) /\ Apart(z)
    BY <1>5, <2>1, <2>2 DEF Core, Linked, Held, Apart
  <2>6. Sourced(z, A)
    <3>1. SUFFICES ASSUME NEW i \in DOMAIN r.instances, r.instances[i].owner # NoOwner,
                          NEW k \in r.instances[i].items
                   PROVE  ReportsAt(z, r.items[k].ref, k, r.instances[i].path)
      BY <1>5, <2>1, <2>2 DEF Core, Sourced
    <3>2. k \in DOMAIN r.items /\ r.items[k].inst = i /\ i # NoInst
      BY <1>5, <3>1, NoInstIsNone DEF Core, Held
    <3>3. r.items[k].ref \notin R
      BY <1>5, <3>1, <3>2 DEF Parted, Ownerless
    <3>. QED BY <1>5, <2>3, <3>1, <3>3 DEF Core, Sourced, ReportsAt
  <2>7. Unheld(z)
    <3>1. SUFFICES ASSUME NEW k \in DOMAIN r.items, r.items[k].inst = NoInst, k \notin r.released
                   PROVE  ReportsAt(z, r.items[k].ref, k, NoPath)
      BY <2>1 DEF Unheld
    <3>2. r.items[k].ref \notin R
      BY <1>5, <3>1 DEF Parted, Ownerless
    <3>. QED BY <1>5, <2>3, <3>1, <3>2 DEF Core, Unheld, ReportsAt
  <2>8. \A k \in DOMAIN r.items : Ownerless(z, k) <=> Ownerless(r, k)
    BY <2>1, <2>2 DEF Ownerless
  <2>9. Refused(z, A)
    <3>1. DOMAIN r.overlaps \intersect R = {}
      BY <1>5 DEF Drop
    <3>. QED BY <1>5, <2>1, <2>3, <2>8, <3>1 DEF Core, Refused
  <2>10. Graded(z, p, Stray)
    <3>1. \A k \in DOMAIN r.items : ItemEvidence(z, k) = ItemEvidence(r, k)
      BY <2>1, <2>2 DEF ItemEvidence
    <3>2. ASSUME NEW k \in DOMAIN r.items \ r.touched, ~Ownerless(r, k)
          PROVE  z.sightings[r.items[k].ref].lang = r.sightings[r.items[k].ref].lang
      <4>1. k \notin r.released
        BY <1>5 DEF Core, Typed
      <4>2. r.items[k].ref \notin R
        BY <1>5, <3>2, <4>1 DEF Parted
      <4>3. r.items[k].ref \in DOMAIN r.sightings
        BY <1>5, <3>2, <4>1 DEF Core, Unheld, Linked, Sourced, Ownerless, ReportsAt
      <4>. QED BY <2>3, <4>2, <4>3
    <3>. QED BY <1>5, <2>1, <2>8, <3>1, <3>2, GradedFollows DEF Core
  <2>11. Kept(b, z)
    BY <1>5, <2>1, <2>2 DEF Kept
  <2>12. Fewer(t, z)
    <3>1. /\ r.sightings = t.sightings /\ r.seen = t.seen /\ r.seenRoots = t.seenRoots
      BY <1>5 DEF SameReports
    <3>. QED BY ONLY <2>1, <2>3, <3>1 DEF Fewer
  <2>. QED BY <1>5, <2>2, <2>4, <2>5, <2>6, <2>7, <2>9, <2>10, <2>11, <2>12 DEF Core, Stands
<1>. QED BY <1>3, <1>4, <1>5

\* The keys of K whose coverage a recompute writes.
Fresh(t, K) == {k \in K \intersect DOMAIN t.items : ~Ownerless(t, k)}

\* Locks kept are locks there were, on pairs the language still wants.
LEMMA KeptLocksBound ==
    ASSUME NEW p, NEW x, NEW ev, NEW locked, NEW swept
    PROVE  /\ KeptLocks(p, x, ev, locked, swept) \subseteq Wants[p][x]
           /\ KeptLocks(p, x, ev, locked, swept) \subseteq locked
BY Zenon DEF KeptLocks

\* recomputeKey changes the rows of the keys whose video is not ownerless.
LEMMA RecomputeFields ==
    ASSUME NEW t, Rec(t), NEW p, NEW K, NEW swept,
           \A k \in K \intersect DOMAIN t.items : ~NamesGone(t, k),
           NEW u, u = RecomputeKeys(t, p, K, swept)
    PROVE  /\ Rec(u) /\ SameReports(t, u) /\ SameVideos(t, u)
           /\ u.overlaps = t.overlaps /\ u.items = t.items /\ u.error = t.error
           /\ u.released = t.released /\ u.touched = t.touched
           /\ u.emptied = t.emptied /\ u.attached = t.attached
           /\ DOMAIN u.coverage = DOMAIN t.coverage \union Fresh(t, K)
           /\ u.locks = [k \in Key |-> u.locks[k]]
           /\ \A k \in Fresh(t, K) : u.coverage[k] =
                 CoverageRow(p, t.sightings[t.items[k].ref].lang, ItemEvidence(t, k))
           /\ \A k \in DOMAIN t.coverage \ Fresh(t, K) : u.coverage[k] = t.coverage[k]
           /\ \A k \in Key \intersect Fresh(t, K) :
                 /\ u.locks[k] \subseteq Wants[p][t.sightings[t.items[k].ref].lang]
                 /\ u.locks[k] \subseteq t.locks[k]
           /\ \A k \in Key \ Fresh(t, K) : u.locks[k] = t.locks[k]
<1>. DEFINE lang(k) == t.sightings[t.items[k].ref].lang
            cov == [k \in DOMAIN t.coverage \union Fresh(t, K) |->
                        IF k \in Fresh(t, K) THEN CoverageRow(p, lang(k), ItemEvidence(t, k))
                        ELSE t.coverage[k]]
            loc == [k \in Key |->
                        IF k \in Fresh(t, K)
                        THEN KeptLocks(p, lang(k), ItemEvidence(t, k), t.locks[k], t.items[k].inst \in swept)
                        ELSE t.locks[k]]
<1>1. u = [t EXCEPT !.coverage = cov, !.locks = loc]
  BY Zenon DEF RecomputeKeys, Fresh
<1>2. /\ DOMAIN cov = DOMAIN t.coverage \union Fresh(t, K)
      /\ \A k \in Fresh(t, K) : cov[k] = CoverageRow(p, lang(k), ItemEvidence(t, k))
      /\ \A k \in DOMAIN t.coverage \ Fresh(t, K) : cov[k] = t.coverage[k]
  OBVIOUS
<1>3. \A k \in Key \intersect Fresh(t, K) :
          loc[k] \subseteq Wants[p][lang(k)] /\ loc[k] \subseteq t.locks[k]
  <2>1. SUFFICES ASSUME NEW k \in Key \intersect Fresh(t, K)
                 PROVE  loc[k] \subseteq Wants[p][lang(k)] /\ loc[k] \subseteq t.locks[k]
    OBVIOUS
  <2>2. loc[k] = KeptLocks(p, lang(k), ItemEvidence(t, k), t.locks[k], t.items[k].inst \in swept)
    BY Zenon
  <2>. QED BY <2>2, KeptLocksBound, Zenon
<1>4. \A k \in Key \ Fresh(t, K) : loc[k] = t.locks[k]
  BY Zenon
<1>5. loc = [k \in Key |-> loc[k]]
  BY Zenon
<1>. HIDE DEF cov, loc
<1>6. /\ Rec(u) /\ SameReports(t, u) /\ SameVideos(t, u)
      /\ u.overlaps = t.overlaps /\ u.items = t.items /\ u.error = t.error
      /\ u.released = t.released /\ u.touched = t.touched
      /\ u.emptied = t.emptied /\ u.attached = t.attached
      /\ u.coverage = cov /\ u.locks = loc
  BY ONLY Rec(t), <1>1 DEF Rec, SameReports, SameVideos
<1>. QED BY <1>2, <1>3, <1>4, <1>5, <1>6

\* t, but for the records of L that must be handed on and the keys of T that
\* must be recomputed, is what the store may hold.
Sound(t, A, p, Stray, L, T) ==
    /\ Typed(t) /\ Linked(t) /\ Held(t) /\ Sourced(t, A) /\ Apart(t)
    /\ \A k \in DOMAIN t.items \ L :
          t.items[k].inst = NoInst => ReportsAt(t, t.items[k].ref, k, NoPath)
    /\ \A ref \in DOMAIN t.overlaps :
          /\ t.overlaps[ref].owner \in A /\ t.overlaps[ref].owner # SourceOfRef(ref)
          /\ ref \in DOMAIN t.sightings
          /\ t.sightings[ref].key # NoKey /\ t.sightings[ref].path # NoPath
          /\ \A k \in DOMAIN t.items \ L :
                t.items[k].ref = ref /\ t.sightings[ref].key = k => Ownerless(t, k)
    /\ DOMAIN t.coverage \subseteq DOMAIN t.items
    /\ \A k \in Key \ DOMAIN t.items : t.locks[k] \subseteq Stray[k]
    /\ \A k \in DOMAIN t.items \ T : ~Ownerless(t, k) => GradedAt(t, p, k)

\* No record of a sound transaction names what is missing, so recomputeKey never
\* fails.
LEMMA NothingGone ==
    ASSUME NEW t, NEW A, NEW p, NEW Stray, NEW L, NEW T, Sound(t, A, p, Stray, L, T),
           NEW k \in DOMAIN t.items \ L
    PROVE  ~NamesGone(t, k)
<1>1. t.items[k].inst # NoInst => t.items[k].inst \in DOMAIN t.instances
  BY DEF Sound, Linked
<1>2. ~Ownerless(t, k) => t.items[k].ref \in DOMAIN t.sightings
  BY DEF Sound, Linked, Sourced, Ownerless, ReportsAt
<1>. QED BY <1>1, <1>2 DEF NamesGone

\* Recomputing K leaves what T still asks for.
LEMMA RecomputeKeeps ==
    ASSUME NEW t, NEW A, NEW p, NEW Stray, NEW T, Sound(t, A, p, Stray, {}, T), NEW K, NEW swept,
           NEW u, u = RecomputeKeys(t, p, K, swept)
    PROVE  /\ Sound(u, A, p, Stray, {}, T \ K)
           /\ SameReports(t, u) /\ SameVideos(t, u)
           /\ u.overlaps = t.overlaps /\ u.items = t.items
           /\ u.released = t.released /\ u.touched = t.touched
           /\ u.emptied = t.emptied /\ u.attached = t.attached
<1>1. Rec(t) /\ \A k \in K \intersect DOMAIN t.items : ~NamesGone(t, k)
  BY NothingGone DEF Sound, Typed
<1>2. /\ Rec(u) /\ SameReports(t, u) /\ SameVideos(t, u)
      /\ u.overlaps = t.overlaps /\ u.items = t.items /\ u.error = t.error
      /\ u.released = t.released /\ u.touched = t.touched
      /\ u.emptied = t.emptied /\ u.attached = t.attached
      /\ DOMAIN u.coverage = DOMAIN t.coverage \union Fresh(t, K)
      /\ u.locks = [k \in Key |-> u.locks[k]]
      /\ \A k \in Fresh(t, K) : u.coverage[k] =
            CoverageRow(p, t.sightings[t.items[k].ref].lang, ItemEvidence(t, k))
      /\ \A k \in DOMAIN t.coverage \ Fresh(t, K) : u.coverage[k] = t.coverage[k]
      /\ \A k \in Key \intersect Fresh(t, K) :
            /\ u.locks[k] \subseteq Wants[p][t.sightings[t.items[k].ref].lang]
            /\ u.locks[k] \subseteq t.locks[k]
      /\ \A k \in Key \ Fresh(t, K) : u.locks[k] = t.locks[k]
  BY ONLY <1>1, u = RecomputeKeys(t, p, K, swept), RecomputeFields
<1>3. /\ u.instances = t.instances /\ u.next = t.next /\ u.evidence = t.evidence
      /\ u.work = t.work /\ u.sightings = t.sightings /\ u.roots = t.roots
      /\ u.seenRoots = t.seenRoots /\ u.seen = t.seen /\ u.pinned = t.pinned
  BY <1>2 DEF SameReports, SameVideos
<1>4. Typed(u)
  <2>1. u.locks \in [Key -> SUBSET Pair]
    <3>1. \A k \in Key : u.locks[k] \in SUBSET Pair
      BY <1>2 DEF Sound, Typed
    <3>. QED BY <1>2, <3>1
  <2>. QED BY <1>2, <1>3, <2>1 DEF Sound, Typed
<1>5. Linked(u) /\ Held(u) /\ Apart(u) /\ Sourced(u, A)
  <2>1. u.items = t.items /\ u.emptied = t.emptied
    BY <1>2
  <2>2. Linked(t) /\ Held(t) /\ Apart(t) /\ Sourced(t, A)
    BY DEF Sound
  <2>3. Linked(u) /\ Held(u) /\ Apart(u)
    BY ONLY <1>3, <2>1, <2>2 DEF Linked, Held, Apart
  <2>4. Sourced(u, A)
    BY ONLY <1>3, <2>1, <2>2 DEF Sourced, ReportsAt
  <2>. QED BY <2>3, <2>4
<1>6. \A k \in DOMAIN u.items : u.items[k].inst = NoInst => ReportsAt(u, u.items[k].ref, k, NoPath)
  <2>1. u.items = t.items
    BY <1>2
  <2>. QED BY ONLY <1>3, <2>1, Sound(t, A, p, Stray, {}, T) DEF Sound, ReportsAt
<1>7. \A k \in DOMAIN u.items : Ownerless(u, k) <=> Ownerless(t, k)
  BY <1>2, <1>3 DEF Ownerless
<1>8. \A k \in DOMAIN u.items : ItemEvidence(u, k) = ItemEvidence(t, k)
  BY <1>2, <1>3 DEF ItemEvidence
<1>9. DOMAIN u.items \subseteq Key
  BY <1>4 DEF Typed, IsTable
<1>10. ASSUME NEW k \in DOMAIN u.items \ (T \ K), ~Ownerless(u, k)
       PROVE  GradedAt(u, p, k)
  <2>1. CASE k \in K
    <3>1. k \in Fresh(t, K)
      BY <1>2, <1>7, <1>10, <2>1 DEF Fresh
    <3>. QED BY <1>2, <1>3, <1>8, <1>9, <1>10, <3>1 DEF GradedAt
  <2>2. CASE k \notin K
    <3>1. k \notin Fresh(t, K) /\ GradedAt(t, p, k)
      BY <1>2, <1>7, <1>10, <2>2 DEF Fresh, Sound
    <3>. QED BY <1>2, <1>3, <1>8, <1>9, <1>10, <3>1 DEF GradedAt
  <2>. QED BY <2>1, <2>2
<1>11. DOMAIN u.coverage \subseteq DOMAIN u.items
  BY <1>2 DEF Fresh, Sound
<1>12. \A k \in Key \ DOMAIN u.items : u.locks[k] \subseteq Stray[k]
  BY <1>2 DEF Fresh, Sound
<1>13. \A ref \in DOMAIN u.overlaps :
          /\ u.overlaps[ref].owner \in A /\ u.overlaps[ref].owner # SourceOfRef(ref)
          /\ ref \in DOMAIN u.sightings
          /\ u.sightings[ref].key # NoKey /\ u.sightings[ref].path # NoPath
          /\ \A k \in DOMAIN u.items :
                u.items[k].ref = ref /\ u.sightings[ref].key = k => Ownerless(u, k)
  BY <1>2, <1>3, <1>7 DEF Sound
<1>14. DOMAIN u.items \ {} = DOMAIN u.items
  OBVIOUS
<1>15. Sound(u, A, p, Stray, {}, T \ K)
  BY ONLY <1>4, <1>5, <1>6, <1>10, <1>11, <1>12, <1>13, <1>14 DEF Sound
<1>. QED BY <1>2, <1>15

\* What a report leaves is sound but for the keys it touched and released.
LEMMA SoundUntilSettled ==
    ASSUME NEW t, NEW A, NEW p, NEW Stray, Core(t, A, p, Stray), NEW L,
           \A k \in (t.released \intersect DOMAIN t.items) \ L :
               t.items[k].inst = NoInst => t.items[k].ref \in Heirs(t, k)
    PROVE  Sound(t, A, p, Stray, L, t.touched)
<1>1. \A k \in DOMAIN t.items \ L :
          t.items[k].inst = NoInst => ReportsAt(t, t.items[k].ref, k, NoPath)
  BY DEF Core, Unheld, Heirs, ReportsAt
<1>2. \A ref \in DOMAIN t.overlaps :
          /\ t.overlaps[ref].owner \in A /\ t.overlaps[ref].owner # SourceOfRef(ref)
          /\ ref \in DOMAIN t.sightings
          /\ t.sightings[ref].key # NoKey /\ t.sightings[ref].path # NoPath
          /\ \A k \in DOMAIN t.items \ L :
                t.items[k].ref = ref /\ t.sightings[ref].key = k => Ownerless(t, k)
  BY DEF Core, Refused, Heirs
<1>. QED BY <1>1, <1>2 DEF Core, Sound, Graded

\* The rows loseKey deletes.
LEMMA LoseFields ==
    ASSUME NEW t, Rec(t), NEW K, NEW u, u = LoseKeys(t, K)
    PROVE  /\ Rec(u) /\ SameReports(t, u) /\ SameVideos(t, u)
           /\ u.overlaps = t.overlaps /\ u.error = t.error
           /\ u.released = t.released /\ u.touched = t.touched
           /\ u.emptied = t.emptied /\ u.attached = t.attached
           /\ u.items = Drop(t.items, K) /\ u.coverage = Drop(t.coverage, K)
           /\ DOMAIN u.locks = Key /\ u.locks = [k \in Key |-> u.locks[k]]
           /\ \A k \in Key \intersect K : u.locks[k] = {}
           /\ \A k \in Key \ K : u.locks[k] = t.locks[k]
<1>. DEFINE loc == [k \in Key |-> IF k \in K THEN {} ELSE t.locks[k]]
<1>1. u = [t EXCEPT !.items = Drop(@, K), !.coverage = Drop(@, K), !.locks = loc]
  BY DEF LoseKeys
<1>2. /\ DOMAIN loc = Key /\ loc = [k \in Key |-> loc[k]]
      /\ \A k \in Key \intersect K : loc[k] = {}
      /\ \A k \in Key \ K : loc[k] = t.locks[k]
  OBVIOUS
<1>. HIDE DEF loc
<1>3. /\ Rec(u) /\ SameReports(t, u) /\ SameVideos(t, u)
      /\ u.overlaps = t.overlaps /\ u.error = t.error
      /\ u.released = t.released /\ u.touched = t.touched
      /\ u.emptied = t.emptied /\ u.attached = t.attached
      /\ u.items = Drop(t.items, K) /\ u.coverage = Drop(t.coverage, K)
      /\ u.locks = loc
  BY <1>1 DEF Rec, SameReports, SameVideos
<1>. QED BY <1>2, <1>3

\* v has the records of t without those of K, and those of G under an heir.
Inherits(t, v, K, G) ==
    /\ Rec(v) /\ SameReports(t, v) /\ SameVideos(t, v)
    /\ v.overlaps = t.overlaps /\ v.error = t.error
    /\ v.released = t.released /\ v.touched = t.touched
    /\ v.emptied = t.emptied /\ v.attached = t.attached
    /\ IsTable(v.items, Key, Holding) /\ DOMAIN v.items = DOMAIN t.items \ K
    /\ \A k \in G : v.items[k].ref \in Heirs(t, k) /\ v.items[k].inst = NoInst
    /\ \A k \in DOMAIN t.items \ (K \union G) : v.items[k] = t.items[k]
    /\ DOMAIN v.coverage = DOMAIN t.coverage \ K
    /\ \A k \in DOMAIN t.coverage \ K : v.coverage[k] = t.coverage[k]
    /\ v.locks \in [Key -> SUBSET Pair]
    /\ \A k \in Key \intersect K : v.locks[k] = {}
    /\ \A k \in Key \ K : v.locks[k] = t.locks[k]

\* Keys handed to their heirs, and keys lost with their rows, need no more.
LEMMA InheritsSound ==
    ASSUME NEW t, NEW A, NEW p, NEW Stray, NEW K, NEW G, NEW T, Sound(t, A, p, Stray, K \union G, T),
           K \union G \subseteq DOMAIN t.items, K \union G \subseteq T,
           \A k \in K \union G : t.items[k].inst = NoInst,
           NEW v, Inherits(t, v, K, G)
    PROVE  Sound(v, A, p, Stray, {}, T \ K)
<1>1. /\ v.instances = t.instances /\ v.next = t.next /\ v.evidence = t.evidence
      /\ v.work = t.work /\ v.sightings = t.sightings /\ v.roots = t.roots
      /\ v.seenRoots = t.seenRoots /\ v.seen = t.seen /\ v.pinned = t.pinned
      /\ v.overlaps = t.overlaps /\ v.emptied = t.emptied
  BY DEF Inherits, SameReports, SameVideos
<1>2. Typed(v)
  BY <1>1 DEF Sound, Typed, Inherits
<1>3. /\ DOMAIN v.items = DOMAIN t.items \ K
      /\ \A k \in G : v.items[k].ref \in Heirs(t, k) /\ v.items[k].inst = NoInst
      /\ \A k \in DOMAIN t.items \ (K \union G) : v.items[k] = t.items[k]
  BY DEF Inherits
<1>4. Linked(v)
  BY <1>1, <1>3 DEF Sound, Linked
<1>5. \A i \in DOMAIN t.instances : t.instances[i].owner # NoOwner =>
          \A k \in t.instances[i].items : k \in DOMAIN t.items /\ k \notin K \union G
  <2>1. NoInst \notin DOMAIN t.instances
    BY NoInstIsNone DEF Sound
  <2>. QED BY <2>1 DEF Sound, Held
<1>6. Held(v) /\ Apart(v)
  BY <1>1, <1>3, <1>5 DEF Sound, Held, Apart
<1>7. Sourced(v, A)
  BY <1>1, <1>3, <1>5 DEF Sound, Sourced, ReportsAt
<1>8. \A k \in DOMAIN v.items : v.items[k].inst = NoInst => ReportsAt(v, v.items[k].ref, k, NoPath)
  <2>1. SUFFICES ASSUME NEW k \in DOMAIN v.items, v.items[k].inst = NoInst
                 PROVE  ReportsAt(v, v.items[k].ref, k, NoPath)
    OBVIOUS
  <2>2. CASE k \in G
    BY <1>1, <1>3, <2>2 DEF Heirs, ReportsAt
  <2>3. CASE k \notin G
    BY <1>1, <1>3, <2>1, <2>3 DEF Sound, ReportsAt
  <2>. QED BY <2>2, <2>3
<1>9. \A k \in DOMAIN v.items \ G : Ownerless(v, k) <=> Ownerless(t, k)
  BY <1>1, <1>3 DEF Ownerless
<1>10. \A ref \in DOMAIN v.overlaps :
          /\ v.overlaps[ref].owner \in A /\ v.overlaps[ref].owner # SourceOfRef(ref)
          /\ ref \in DOMAIN v.sightings
          /\ v.sightings[ref].key # NoKey /\ v.sightings[ref].path # NoPath
          /\ \A k \in DOMAIN v.items :
                v.items[k].ref = ref /\ v.sightings[ref].key = k => Ownerless(v, k)
  <2>1. SUFFICES ASSUME NEW ref \in DOMAIN t.overlaps, NEW k \in DOMAIN v.items,
                        v.items[k].ref = ref, t.sightings[ref].key = k
                 PROVE  Ownerless(v, k)
    BY <1>1 DEF Sound
  <2>2. k \notin G
    BY <1>3, <2>1 DEF Sound, Heirs
  <2>. QED BY <1>3, <1>9, <2>1, <2>2 DEF Sound
<1>11. DOMAIN v.coverage \subseteq DOMAIN v.items
  BY <1>3 DEF Sound, Inherits
<1>12. \A k \in Key \ DOMAIN v.items : v.locks[k] \subseteq Stray[k]
  BY <1>3 DEF Sound, Inherits
<1>13. ASSUME NEW k \in DOMAIN v.items \ (T \ K), ~Ownerless(v, k)
       PROVE  GradedAt(v, p, k)
  <2>1. k \in DOMAIN t.items \ T /\ k \notin G /\ k \notin K /\ ~Ownerless(t, k)
    BY <1>3, <1>9, <1>13
  <2>2. GradedAt(t, p, k) /\ k \in Key
    BY <2>1 DEF Sound, Typed, IsTable
  <2>3. ItemEvidence(v, k) = ItemEvidence(t, k)
    BY <1>1, <1>3, <2>1 DEF ItemEvidence
  <2>. QED BY <1>1, <1>3, <2>1, <2>2, <2>3 DEF GradedAt, Inherits
<1>14. DOMAIN v.items \ {} = DOMAIN v.items
  OBVIOUS
<1>. QED BY ONLY <1>2, <1>4, <1>6, <1>7, <1>8, <1>10, <1>11, <1>12, <1>13, <1>14 DEF Sound

\* L are items of t, among T, with no video.
Bare(t, L, T) ==
    L \subseteq DOMAIN t.items /\ L \subseteq T /\ \A k \in L : t.items[k].inst = NoInst

\* handOn settles the lost keys: an heir provides each, or its rows go.
LEMMA HandOnKeeps ==
    ASSUME NEW t, NEW A, NEW p, NEW Stray, NEW L, NEW T, Sound(t, A, p, Stray, L, T),
           Bare(t, L, T), NEW z, z = HandOn(t, p, L)
    PROVE  /\ Sound(z, A, p, Stray, {}, T \ L)
           /\ SameReports(t, z) /\ SameVideos(t, z)
           /\ z.overlaps = t.overlaps /\ z.emptied = t.emptied /\ z.attached = t.attached
           /\ z.released = t.released /\ z.touched = t.touched
<1>. SUFFICES ASSUME L \subseteq DOMAIN t.items, L \subseteq T, \A k \in L : t.items[k].inst = NoInst
              PROVE  /\ Sound(z, A, p, Stray, {}, T \ L)
                     /\ SameReports(t, z) /\ SameVideos(t, z)
                     /\ z.overlaps = t.overlaps /\ z.emptied = t.emptied
                     /\ z.attached = t.attached
                     /\ z.released = t.released /\ z.touched = t.touched
  BY DEF Bare
<1>1. PICK G : G = {k \in L : Heirs(t, k) # {}}
  OBVIOUS
<1>2. PICK K : K = L \ G
  OBVIOUS
<1>3. PICK u : u = LoseKeys(t, K)
  OBVIOUS
<1>. DEFINE f == [k \in DOMAIN u.items |->
                    IF k \in G THEN [ref |-> FirstHeir(t, k), inst |-> NoInst] ELSE u.items[k]]
<1>4. PICK v : v = [u EXCEPT !.items = f]
  OBVIOUS
<1>5. z = RecomputeKeys(v, p, G, {})
  BY <1>1, <1>2, <1>3, <1>4, Zenon DEF HandOn
<1>6. L = K \union G /\ G \subseteq L
  BY <1>1, <1>2
<1>7. ASSUME NEW k \in G PROVE FirstHeir(t, k) \in Heirs(t, k) /\ FirstHeir(t, k) \in Ref
  <2>1. Heirs(t, k) # {}
    BY <1>1, <1>7
  <2>2. Heirs(t, k) \subseteq Ref
    BY DEF Heirs, Sound, Typed, IsTable
  <2>3. Heirs(t, k) \subseteq Nat
    BY <2>2, RefAssumption
  <2>4. \E ref \in Heirs(t, k) : \A r \in Heirs(t, k) : ref <= r
    BY ONLY <2>1, <2>3, Least
  <2>. QED BY <2>2, <2>4 DEF FirstHeir
<1>8. Rec(t) /\ IsTable(t.items, Key, Holding) /\ t.locks \in [Key -> SUBSET Pair]
  BY DEF Sound, Typed
<1>9. /\ Rec(u) /\ SameReports(t, u) /\ SameVideos(t, u)
      /\ u.overlaps = t.overlaps /\ u.error = t.error
      /\ u.released = t.released /\ u.touched = t.touched
      /\ u.emptied = t.emptied /\ u.attached = t.attached
      /\ u.items = Drop(t.items, K) /\ u.coverage = Drop(t.coverage, K)
      /\ DOMAIN u.locks = Key /\ u.locks = [k \in Key |-> u.locks[k]]
      /\ \A k \in Key \intersect K : u.locks[k] = {}
      /\ \A k \in Key \ K : u.locks[k] = t.locks[k]
  BY <1>3, <1>8, LoseFields
<1>10. DOMAIN u.items = DOMAIN t.items \ K /\ \A k \in DOMAIN u.items : u.items[k] = t.items[k]
  BY <1>9 DEF Drop
<1>11. /\ IsTable(f, Key, Holding) /\ DOMAIN f = DOMAIN t.items \ K
       /\ \A k \in G : f[k].ref = FirstHeir(t, k) /\ f[k].inst = NoInst
       /\ \A k \in DOMAIN t.items \ (K \union G) : f[k] = t.items[k]
  <2>1. /\ DOMAIN f = DOMAIN t.items \ K /\ f = [k \in DOMAIN f |-> f[k]]
        /\ \A k \in G : f[k] = [ref |-> FirstHeir(t, k), inst |-> NoInst]
        /\ \A k \in DOMAIN t.items \ (K \union G) : f[k] = t.items[k]
    BY <1>2, <1>6, <1>10
  <2>. HIDE DEF f
  <2>2. \A k \in G : [ref |-> FirstHeir(t, k), inst |-> NoInst] \in Holding
    BY <1>7 DEF Holding, NoInst
  <2>3. \A k \in DOMAIN f : f[k] \in Holding
    BY <1>8, <2>1, <2>2 DEF IsTable
  <2>4. DOMAIN f \subseteq Key
    BY <1>8, <2>1 DEF IsTable
  <2>5. IsTable(f, Key, Holding)
    BY ONLY <2>1, <2>3, <2>4 DEF IsTable
  <2>6. ASSUME NEW k \in G PROVE f[k].ref = FirstHeir(t, k) /\ f[k].inst = NoInst
    <3>1. f[k] = [ref |-> FirstHeir(t, k), inst |-> NoInst]
      BY <2>1
    <3>. QED BY ONLY <3>1
  <2>. QED BY <2>1, <2>5, <2>6
<1>. HIDE DEF f
<1>12. /\ Rec(v) /\ SameReports(u, v) /\ SameVideos(u, v) /\ SameGrades(u, v)
       /\ v.items = f /\ v.overlaps = u.overlaps /\ v.error = u.error
       /\ v.released = u.released /\ v.touched = u.touched
       /\ v.emptied = u.emptied /\ v.attached = u.attached
  BY <1>4, <1>9 DEF Rec, SameReports, SameVideos, SameGrades
<1>13. Inherits(t, v, K, G)
  <2>1. v.locks \in [Key -> SUBSET Pair]
    <3>1. \A k \in Key : v.locks[k] \in SUBSET Pair
      BY <1>8, <1>9, <1>12 DEF SameGrades
    <3>. QED BY <1>9, <1>12, <3>1 DEF SameGrades
  <2>2. SameReports(t, v) /\ SameVideos(t, v)
    BY <1>9, <1>12 DEF SameReports, SameVideos
  <2>3. /\ DOMAIN v.coverage = DOMAIN t.coverage \ K
        /\ \A k \in DOMAIN t.coverage \ K : v.coverage[k] = t.coverage[k]
    BY <1>9, <1>12 DEF SameGrades, Drop
  <2>4. /\ \A k \in Key \intersect K : v.locks[k] = {}
        /\ \A k \in Key \ K : v.locks[k] = t.locks[k]
    BY <1>9, <1>12 DEF SameGrades
  <2>. QED BY <1>7, <1>9, <1>11, <1>12, <2>1, <2>2, <2>3, <2>4 DEF Inherits
<1>14. Sound(v, A, p, Stray, {}, T \ K)
  BY <1>6, <1>13, InheritsSound
<1>15. /\ Sound(z, A, p, Stray, {}, (T \ K) \ G)
       /\ SameReports(v, z) /\ SameVideos(v, z)
       /\ z.overlaps = v.overlaps /\ z.items = v.items
       /\ z.released = v.released /\ z.touched = v.touched
       /\ z.emptied = v.emptied /\ z.attached = v.attached
  <2>1. ASSUME NEW swept, z = RecomputeKeys(v, p, G, swept)
        PROVE  /\ Sound(z, A, p, Stray, {}, (T \ K) \ G)
               /\ SameReports(v, z) /\ SameVideos(v, z)
               /\ z.overlaps = v.overlaps /\ z.items = v.items
               /\ z.released = v.released /\ z.touched = v.touched
               /\ z.emptied = v.emptied /\ z.attached = v.attached
    <3>1. PICK D : D = T \ K
      OBVIOUS
    <3>2. Sound(v, A, p, Stray, {}, D)
      BY <1>14, <3>1
    <3>3. /\ Sound(z, A, p, Stray, {}, D \ G)
          /\ SameReports(v, z) /\ SameVideos(v, z)
          /\ z.overlaps = v.overlaps /\ z.items = v.items
          /\ z.released = v.released /\ z.touched = v.touched
          /\ z.emptied = v.emptied /\ z.attached = v.attached
      BY ONLY <2>1, <3>2, RecomputeKeeps
    <3>. QED BY <3>1, <3>3
  <2>. QED BY <1>5, <2>1, Zenon
<1>16. (T \ K) \ G = T \ L
  BY <1>6
<1>. QED BY <1>9, <1>12, <1>15, <1>16 DEF SameReports, SameVideos

\* What a transaction must be when it commits.
Settled(t, A, p, Stray) ==
    /\ Sound(t, A, p, Stray, {}, {})
    /\ \A i \in DOMAIN t.instances : t.instances[i].owner # NoOwner => t.instances[i].items # {}

\* The transaction t, begun at b, is refused for a pinned video or may commit.
Ends(b, A, p, Stray, t) ==
    \/ Rec(t) /\ t.error = "pinned"
    \/ Settled(t, A, p, Stray) /\ Kept(b, t)

\* settle leaves nothing to repair: no empty video, no released key, and rows
\* that are current.
LEMMA SettleKeeps ==
    ASSUME NEW t, NEW A, NEW p, NEW Stray, Core(t, A, p, Stray), NEW b, Kept(b, t), NEW z, z = Settle(t, p)
    PROVE  /\ Settled(z, A, p, Stray) /\ Kept(b, z) /\ z.next = t.next
           /\ SameReports(t, z) /\ z.overlaps = t.overlaps
           /\ \A i \in DOMAIN t.instances : t.instances[i].items # {} => i \in DOMAIN z.instances
<1>1. PICK E : E = {i \in t.emptied \intersect DOMAIN t.instances : t.instances[i].items = {}}
  OBVIOUS
<1>2. PICK u : u = DeleteInstances(t, E)
  OBVIOUS
<1>3. PICK L : L = {k \in u.released \intersect DOMAIN u.items :
                      u.items[k].inst = NoInst /\ u.items[k].ref \notin Heirs(u, k)}
  OBVIOUS
<1>4. PICK h : h = HandOn(u, p, L)
  OBVIOUS
<1>5. PICK K : K = u.touched \ L
  OBVIOUS
<1>6. z = RecomputeKeys(h, p, K, {})
  BY <1>1, <1>2, <1>3, <1>4, <1>5, Zenon DEF Settle
<1>7. Core(u, A, p, Stray)
  <2>1. \A k \in DOMAIN t.items : t.items[k].inst \notin E
    <3>1. NoInst \notin DOMAIN t.instances
      BY NoInstIsNone DEF Core
    <3>. QED BY <1>1, <3>1 DEF Core, Linked
  <2>. QED BY ONLY Core(t, A, p, Stray), <1>2, <2>1, DeleteKeeps
<1>8. /\ SameReports(t, u) /\ u.overlaps = t.overlaps
      /\ u.released = t.released /\ u.touched = t.touched
      /\ u.emptied = t.emptied /\ u.next = t.next
      /\ DOMAIN u.instances = DOMAIN t.instances \ E
      /\ \A i \in DOMAIN u.instances : u.instances[i] = t.instances[i]
  <2>1. Rec(t)
    BY DEF Core, Typed
  <2>2. /\ SameReports(t, u) /\ u.overlaps = t.overlaps
        /\ u.released = t.released /\ u.touched = t.touched
        /\ u.emptied = t.emptied /\ u.next = t.next
        /\ u.instances = Drop(t.instances, E)
    BY <1>2, <2>1, DeleteFields
  <2>. QED BY <2>2 DEF Drop
<1>9. Kept(b, u)
  <2>1. \A i \in b.pinned : i \notin E
    BY <1>1 DEF Kept
  <2>. QED BY <1>8, <2>1 DEF Kept, SameReports
<1>10. \A i \in DOMAIN u.instances : u.instances[i].owner # NoOwner => u.instances[i].items # {}
  BY <1>1, <1>8 DEF Core, Sourced
<1>11. Sound(u, A, p, Stray, L, u.touched)
  <2>1. \A k \in (u.released \intersect DOMAIN u.items) \ L :
            u.items[k].inst = NoInst => u.items[k].ref \in Heirs(u, k)
    BY <1>3
  <2>. QED BY <1>7, <2>1, SoundUntilSettled
<1>12. /\ L \subseteq DOMAIN u.items /\ L \subseteq u.touched
       /\ \A k \in L : u.items[k].inst = NoInst
  BY <1>3, <1>7 DEF Core, Typed
<1>13. /\ Sound(h, A, p, Stray, {}, K) /\ SameReports(u, h) /\ SameVideos(u, h)
       /\ h.emptied = u.emptied /\ h.overlaps = u.overlaps
  <2>1. PICK T : T = u.touched
    OBVIOUS
  <2>2. Sound(u, A, p, Stray, L, T) /\ L \subseteq T
    BY <1>11, <1>12, <2>1
  <2>3. /\ Sound(h, A, p, Stray, {}, T \ L) /\ SameReports(u, h) /\ SameVideos(u, h)
        /\ h.emptied = u.emptied /\ h.overlaps = u.overlaps
    <3>1. Bare(u, L, T)
      BY <1>12, <2>2 DEF Bare
    <3>2. /\ Sound(h, A, p, Stray, {}, T \ L)
          /\ SameReports(u, h) /\ SameVideos(u, h)
          /\ h.overlaps = u.overlaps /\ h.emptied = u.emptied /\ h.attached = u.attached
          /\ h.released = u.released /\ h.touched = u.touched
      BY ONLY <1>4, <2>2, <3>1, HandOnKeeps
    <3>. QED BY <3>2
  <2>. QED BY <1>5, <2>1, <2>3
<1>14. /\ Sound(z, A, p, Stray, {}, K \ K) /\ SameReports(h, z) /\ SameVideos(h, z)
       /\ z.emptied = h.emptied /\ z.overlaps = h.overlaps
  <2>1. ASSUME NEW swept, z = RecomputeKeys(h, p, K, swept)
        PROVE  /\ Sound(z, A, p, Stray, {}, K \ K) /\ SameReports(h, z) /\ SameVideos(h, z)
               /\ z.emptied = h.emptied /\ z.overlaps = h.overlaps
    BY ONLY <1>13, <2>1, RecomputeKeeps
  <2>. QED BY <1>6, <2>1, Zenon
<1>15. K \ K = {}
  OBVIOUS
<1>16. z.instances = u.instances /\ z.next = u.next /\ z.pinned = u.pinned /\ z.emptied = u.emptied
  BY <1>13, <1>14 DEF SameReports, SameVideos
<1>17. Kept(b, z)
  BY <1>9, <1>16 DEF Kept
<1>18. SameReports(t, z) /\ z.overlaps = t.overlaps
  BY <1>8, <1>13, <1>14 DEF SameReports
<1>19. \A i \in DOMAIN t.instances : t.instances[i].items # {} => i \in DOMAIN z.instances
  BY <1>1, <1>8, <1>16
<1>. QED BY <1>8, <1>10, <1>14, <1>15, <1>16, <1>17, <1>18, <1>19 DEF Settled

\* Queueing work changes no table of videos or items.
LEMMA EnqueueKeeps ==
    ASSUME NEW t, NEW A, NEW p, NEW Stray, NEW b, Settled(t, A, p, Stray), Kept(b, t), NEW ids,
           NEW u, u = Enqueue(t, ids)
    PROVE  /\ Settled(u, A, p, Stray) /\ Kept(b, u) /\ u.next = t.next
           /\ SameReports(t, u) /\ u.overlaps = t.overlaps /\ u.instances = t.instances
<1>1. Rec(t)
  BY DEF Settled, Sound, Typed
<1>2. /\ Rec(u) /\ SameReports(t, u) /\ SameGrades(t, u)
      /\ u.overlaps = t.overlaps /\ u.items = t.items /\ u.error = t.error
      /\ u.instances = t.instances /\ u.next = t.next /\ u.evidence = t.evidence
      /\ u.released = t.released /\ u.touched = t.touched /\ u.emptied = t.emptied
      /\ u.work = t.work \union (ids \intersect DOMAIN t.instances)
  BY <1>1 DEF Enqueue, Rec, SameReports, SameGrades
<1>3. Typed(u)
  BY <1>2 DEF Settled, Sound, Typed, SameReports, SameGrades
<1>4. Linked(u) /\ Held(u) /\ Sourced(u, A) /\ Apart(u)
  BY <1>2 DEF Settled, Sound, Linked, Held, Sourced, Apart, SameReports, ReportsAt
<1>5. /\ u.sightings = t.sightings /\ u.locks = t.locks /\ u.coverage = t.coverage
      /\ u.pinned = t.pinned
  BY <1>2 DEF SameReports, SameGrades
<1>6. \A k \in DOMAIN u.items : Ownerless(u, k) <=> Ownerless(t, k)
  BY <1>2 DEF Ownerless
<1>7. \A k \in DOMAIN u.items : GradedAt(u, p, k) <=> GradedAt(t, p, k)
  BY <1>2, <1>5 DEF GradedAt, ItemEvidence
<1>8. \A ref, k : ReportsAt(u, ref, k, NoPath) <=> ReportsAt(t, ref, k, NoPath)
  BY <1>5 DEF ReportsAt
<1>9. Sound(u, A, p, Stray, {}, {})
  BY <1>2, <1>3, <1>4, <1>5, <1>6, <1>7, <1>8 DEF Settled, Sound
<1>. QED BY <1>2, <1>5, <1>9 DEF Settled, Kept

\* u is t with other roots reported.
Restamped(t, u) ==
    \E Q, S \in SUBSET Root : u = [t EXCEPT !.roots = Q, !.seenRoots = S]

\* Stamping the reported root keeps Core.
LEMMA ReportedKeeps ==
    ASSUME NEW t, NEW A, NEW p, NEW Stray, NEW b, Core(t, A, p, Stray), Kept(b, t),
           NEW u, Restamped(t, u)
    PROVE  Core(u, A, p, Stray) /\ Kept(b, u) /\ u.next = t.next
<1>. SUFFICES ASSUME NEW Q \in SUBSET Root, NEW S \in SUBSET Root,
                     u = [t EXCEPT !.roots = Q, !.seenRoots = S]
              PROVE  Core(u, A, p, Stray) /\ Kept(b, u) /\ u.next = t.next
  BY DEF Restamped
<1>1. Rec(t)
  BY DEF Core, Typed
<1>2. /\ Rec(u) /\ SameVideos(t, u) /\ SameGrades(t, u)
      /\ u.sightings = t.sightings /\ u.seen = t.seen /\ u.pinned = t.pinned
      /\ u.roots = Q /\ u.seenRoots = S
      /\ u.overlaps = t.overlaps /\ u.items = t.items /\ u.error = t.error
      /\ u.released = t.released /\ u.touched = t.touched /\ u.emptied = t.emptied
  BY <1>1 DEF Rec, SameVideos, SameGrades
<1>3. /\ u.instances = t.instances /\ u.next = t.next /\ u.evidence = t.evidence
      /\ u.work = t.work /\ u.locks = t.locks /\ u.coverage = t.coverage
  BY <1>2 DEF SameVideos, SameGrades
<1>4. Typed(u)
  BY <1>2, <1>3 DEF Core, Typed
<1>5. Linked(u) /\ Held(u) /\ Sourced(u, A) /\ Apart(u)
  BY <1>2, <1>3 DEF Core, Linked, Held, Sourced, Apart, ReportsAt
<1>6. Unheld(u) /\ Refused(u, A)
  BY <1>2, <1>3 DEF Core, Unheld, Refused, ReportsAt, Ownerless
<1>7. Graded(u, p, Stray)
  <2>1. \A k \in DOMAIN u.items : Ownerless(u, k) <=> Ownerless(t, k)
    BY <1>2, <1>3 DEF Ownerless
  <2>2. \A k \in DOMAIN u.items : GradedAt(u, p, k) <=> GradedAt(t, p, k)
    BY <1>2, <1>3 DEF GradedAt, ItemEvidence
  <2>. QED BY <1>2, <1>3, <2>1, <2>2 DEF Core, Graded
<1>. QED BY <1>2, <1>3, <1>4, <1>5, <1>6, <1>7 DEF Core, Kept

\* A report ends settled, or fails on a pinned video.
LEMMA ObservedKeeps ==
    ASSUME NEW b, NEW A, NEW p, NEW Stray, Core(b, A, p, Stray), Kept(b, b), NEW scope,
           NEW r \in Root, SourceOf[r] \in A, NEW report \in Reports[r],
           NEW z, z = Observed(b, p, scope, r, report)
    PROVE  Ends(b, A, p, Stray, z)
<1>1. PICK u : u = [b EXCEPT !.roots = @ \union {r}, !.seenRoots = @ \union {r}]
  OBVIOUS
<1>2. PICK s : s = SourceOf[r]
  OBVIOUS
<1>3. PICK v : v = ObserveAll(u, s, report)
  OBVIOUS
<1>4. PICK x : x = Settle(v, p)
  OBVIOUS
<1>5. \/ v.error # "none" /\ z = v
      \/ v.error = "none" /\ (z = x \/ z = Enqueue(x, x.attached))
  BY <1>1, <1>2, <1>3, <1>4, Zenon DEF Observed
<1>6. Core(u, A, p, Stray) /\ Kept(b, u)
  <2>1. b.roots \union {r} \in SUBSET Root /\ b.seenRoots \union {r} \in SUBSET Root
    BY DEF Core, Typed
  <2>2. u = [b EXCEPT !.roots = b.roots \union {r}, !.seenRoots = b.seenRoots \union {r}]
    BY <1>1
  <2>3. PICK Q, S : Q = b.roots \union {r} /\ S = b.seenRoots \union {r}
    OBVIOUS
  <2>4. u = [b EXCEPT !.roots = Q, !.seenRoots = S] /\ Q \in SUBSET Root /\ S \in SUBSET Root
    BY <2>1, <2>2, <2>3
  <2>5. Restamped(b, u)
    BY ONLY <2>4 DEF Restamped
  <2>. QED BY ONLY Core(b, A, p, Stray), Kept(b, b), <2>5, ReportedKeeps
<1>7. Stands(b, A, p, Stray, v)
  <2>1. s \in Source /\ s \in A
    BY <1>2, RootAssumption
  <2>2. report \in Seq(Offer) /\ \A n \in DOMAIN report : SourceOfRef(report[n].ref) = s
    BY <1>2, ReportsAssumption DEF SourceOfRef
  <2>3. Stands(b, A, p, Stray, u)
    BY <1>6 DEF Stands
  <2>. QED BY ONLY <1>3, <2>1, <2>2, <2>3, ObserveAllKeeps
<1>8. CASE v.error # "none"
  BY <1>5, <1>7, <1>8 DEF Stands, Ends, Core, Typed
<1>9. CASE v.error = "none"
  <2>1. Core(v, A, p, Stray) /\ Kept(b, v)
    BY <1>7, <1>9 DEF Stands
  <2>2. Settled(x, A, p, Stray) /\ Kept(b, x)
    BY ONLY <1>4, <2>1, SettleKeeps
  <2>3. CASE z = x
    BY <2>2, <2>3 DEF Ends
  <2>4. CASE z = Enqueue(x, x.attached)
    <3>1. Settled(z, A, p, Stray) /\ Kept(b, z)
      BY ONLY <2>2, <2>4, EnqueueKeeps
    <3>. QED BY <3>1 DEF Ends
  <2>. QED BY <1>5, <1>9, <2>3, <2>4
<1>. QED BY <1>8, <1>9

\* From t to z an offer of ref, of source s, left alone the reports of other
\* refs, the videos of s, and of their records those that name a ref of S.
Spares(t, z, s, ref, S) ==
    /\ z.seenRoots = t.seenRoots
    /\ DOMAIN z.sightings \ {ref} = DOMAIN t.sightings \ {ref}
    /\ \A x \in DOMAIN t.sightings \ {ref} : z.sightings[x] = t.sightings[x]
    /\ DOMAIN z.overlaps \ {ref} = DOMAIN t.overlaps \ {ref}
    /\ \A i \in DOMAIN t.instances : t.instances[i].owner = s =>
          /\ i \in DOMAIN z.instances
          /\ z.instances[i].owner = s /\ z.instances[i].path = t.instances[i].path
    /\ \A k \in DOMAIN t.items :
          /\ t.items[k].ref \in S /\ t.items[k].inst \in DOMAIN t.instances
          /\ t.instances[t.items[k].inst].owner = s
          => /\ k \in DOMAIN z.items
             /\ z.items[k].ref = t.items[k].ref /\ z.items[k].inst = t.items[k].inst

\* ref reports an item at path, and no source refuses it.
Backed(t, ref, path) ==
    /\ ref \in DOMAIN t.sightings \ DOMAIN t.overlaps
    /\ t.sightings[ref].key # NoKey /\ t.sightings[ref].path = path

\* A stamped ref provides an item at instance i.
Seated(t, i) == \E k \in DOMAIN t.items : t.items[k].inst = i /\ t.items[k].ref \in t.seen

\* A claim of ref seats each video of s at the path it reports.
Seats(t, z, s, ref) ==
    \A i \in DOMAIN t.instances :
        t.instances[i].owner = s /\ Backed(z, ref, t.instances[i].path) => Seated(z, i)

\* What two changes leave alone, one after the other.
LEMMA SparesTwice ==
    ASSUME NEW t, NEW u, NEW z, NEW s, NEW ref, NEW S,
           Spares(t, u, s, ref, S), Spares(u, z, s, ref, S)
    PROVE  Spares(t, z, s, ref, S)
<1>1. /\ z.seenRoots = t.seenRoots
      /\ DOMAIN z.sightings \ {ref} = DOMAIN t.sightings \ {ref}
      /\ DOMAIN z.overlaps \ {ref} = DOMAIN t.overlaps \ {ref}
  BY DEF Spares
<1>2. ASSUME NEW x \in DOMAIN t.sightings \ {ref} PROVE z.sightings[x] = t.sightings[x]
  <2>1. x \in DOMAIN u.sightings \ {ref}
    BY DEF Spares
  <2>. QED BY <2>1 DEF Spares
<1>3. \A i \in DOMAIN t.instances : t.instances[i].owner = s =>
          /\ i \in DOMAIN z.instances
          /\ z.instances[i].owner = s /\ z.instances[i].path = t.instances[i].path
  BY DEF Spares
<1>4. ASSUME NEW k \in DOMAIN t.items, t.items[k].ref \in S,
             t.items[k].inst \in DOMAIN t.instances,
             t.instances[t.items[k].inst].owner = s
      PROVE  /\ k \in DOMAIN z.items
             /\ z.items[k].ref = t.items[k].ref /\ z.items[k].inst = t.items[k].inst
  <2>1. /\ k \in DOMAIN u.items /\ u.items[k].ref = t.items[k].ref
        /\ u.items[k].inst = t.items[k].inst
    BY <1>4 DEF Spares
  <2>2. t.items[k].inst \in DOMAIN u.instances /\ u.instances[t.items[k].inst].owner = s
    BY <1>4 DEF Spares
  <2>. QED BY <1>4, <2>1, <2>2 DEF Spares
<1>. QED BY <1>1, <1>2, <1>3, <1>4 DEF Spares

\* Ending the claim of ref leaves the videos, and the records of other refs.
LEMMA ReleaseSpares ==
    ASSUME NEW t, NEW A, NEW p, NEW Stray, Core(t, A, p, Stray), NEW s, NEW ref, NEW S, ref \notin S,
           NEW u, u = Release(t, {ref}), u.error # "pinned"
    PROVE  Spares(t, u, s, ref, S) /\ u.seen = t.seen
<1>1. PICK L : L = ClaimPairs(t, {ref})
  OBVIOUS
<1>2. /\ Rec(t) /\ t.error = "none" /\ IsTable(t.items, Key, Holding)
      /\ IsTable(t.instances, 1 .. t.next, Video)
  BY DEF Core, Typed
<1>3. /\ SameReports(t, u) /\ u.overlaps = Drop(t.overlaps, {ref})
      /\ u.instances = Shrunk(t, L) /\ Unlinked(t, u, Claims(t, {ref}))
  BY <1>1, <1>2, ReleaseFields
<1>4. /\ DOMAIN u.instances = DOMAIN t.instances
      /\ \A i \in DOMAIN t.instances :
            u.instances[i].owner = t.instances[i].owner /\ u.instances[i].path = t.instances[i].path
  <2>1. PICK N : N = 1 .. t.next
    OBVIOUS
  <2>2. IsTable(t.instances, N, Video)
    BY <1>2, <2>1
  <2>3. /\ IsTable(Shrunk(t, L), N, Video)
        /\ DOMAIN Shrunk(t, L) = DOMAIN t.instances
        /\ \A i \in DOMAIN t.instances :
              /\ Shrunk(t, L)[i].owner = t.instances[i].owner
              /\ Shrunk(t, L)[i].path = t.instances[i].path
              /\ Shrunk(t, L)[i].items = t.instances[i].items \ Parting(t, L, i)
    BY ONLY <2>2, ShrunkVideos
  <2>. QED BY <1>3, <2>3
<1>5. DOMAIN u.overlaps \ {ref} = DOMAIN t.overlaps \ {ref}
  BY <1>3 DEF Drop
<1>6. ASSUME NEW k \in DOMAIN t.items, t.items[k].ref \in S
      PROVE  /\ k \in DOMAIN u.items
             /\ u.items[k].ref = t.items[k].ref /\ u.items[k].inst = t.items[k].inst
  <2>1. k \notin Claims(t, {ref})
    BY <1>6 DEF Claims
  <2>. QED BY <1>3, <2>1 DEF Unlinked
<1>. QED BY <1>3, <1>4, <1>5, <1>6 DEF Spares, SameReports

\* Storing the sighting of ref changes no other report, no video and no record.
LEMMA StoredSpares ==
    ASSUME NEW u, NEW w, NEW s, NEW ref, NEW row, NEW S, StoredOver(u, w, ref, row)
    PROVE  /\ Spares(u, w, s, ref, S) /\ w.seen = u.seen \union {ref}
           /\ ref \in DOMAIN w.sightings /\ w.sightings[ref] = row
<1>1. /\ DOMAIN w.sightings = DOMAIN u.sightings \union {ref} /\ w.sightings[ref] = row
      /\ \A x \in DOMAIN u.sightings \ {ref} : w.sightings[x] = u.sightings[x]
  BY DEF StoredOver, Put
<1>2. DOMAIN w.overlaps = DOMAIN u.overlaps \ {ref}
  BY DEF StoredOver, Drop
<1>3. /\ w.seenRoots = u.seenRoots /\ w.items = u.items /\ w.instances = u.instances
      /\ w.seen = u.seen \union {ref}
  BY DEF StoredOver, SameVideos
<1>. QED BY <1>1, <1>2, <1>3 DEF Spares

\* Attaching a key leaves the videos of its source, and what they hold under
\* other keys; the video at its path holds it.
LEMMA DeliveredSpares ==
    ASSUME NEW u, NEW A, NEW p, NEW Stray, Core(u, A, p, Stray), NEW s \in Source, NEW ref, NEW k, NEW path,
           NEW row, NEW z, Delivered(u, z, s, ref, k, path, row), NEW S,
           k \in DOMAIN u.items /\ u.items[k].inst \in DOMAIN u.instances
               /\ u.instances[u.items[k].inst].owner = s => u.items[k].ref \notin S
    PROVE  /\ Spares(u, z, s, ref, S) /\ z.seen = u.seen \union {ref}
           /\ ref \in DOMAIN z.sightings /\ z.sightings[ref] = row
           /\ \A i \in DOMAIN u.instances :
                 u.instances[i].owner = s /\ u.instances[i].path = path => Seated(z, i)
<1>1. PICK v, w, h, K :
         /\ Softer(u, v, h) /\ StoredOver(v, w, ref, row) /\ Room(w, s, path, h, K)
         /\ Attaches(w, z, s, ref, k, path, h, K)
  BY DEF Delivered
<1>2. s # NoOwner
  BY NamesAssumption
<1>3. /\ v.sightings = u.sightings /\ v.seenRoots = u.seenRoots /\ v.seen = u.seen
      /\ v.overlaps = u.overlaps
  BY <1>1 DEF Softer, SameReports
<1>4. \A i \in DOMAIN u.instances : u.instances[i].owner = s =>
          i \in DOMAIN v.instances /\ v.instances[i] = u.instances[i]
  BY <1>1, <1>2 DEF Softer
<1>5. /\ DOMAIN v.items = DOMAIN u.items
      /\ \A x \in DOMAIN u.items : v.items[x].ref = u.items[x].ref
  BY <1>1 DEF Softer
<1>6. ASSUME NEW x \in DOMAIN u.items, u.items[x].inst \in DOMAIN u.instances,
             u.instances[u.items[x].inst].owner = s
      PROVE  v.items[x].inst = u.items[x].inst
  BY <1>1, <1>2, <1>6 DEF Softer, Ownerless
<1>7. Spares(u, v, s, ref, S)
  BY <1>3, <1>4, <1>5, <1>6 DEF Spares
<1>8. /\ Spares(v, w, s, ref, S) /\ w.seen = v.seen \union {ref}
      /\ ref \in DOMAIN w.sightings /\ w.sightings[ref] = row
  BY <1>1, StoredSpares
<1>9. w.items = v.items /\ w.instances = v.instances
  BY <1>1 DEF StoredOver, SameVideos
<1>10. /\ z.sightings = w.sightings /\ z.seenRoots = w.seenRoots /\ z.seen = w.seen
       /\ z.overlaps = w.overlaps
  BY <1>1 DEF Attaches, SameReports
<1>11. /\ DOMAIN z.items = DOMAIN w.items \union {k}
       /\ z.items[k].ref = ref /\ z.items[k].inst = h
       /\ \A x \in DOMAIN w.items \ {k} : z.items[x] = w.items[x]
  <2>1. z.items = Put(w.items, k, [ref |-> ref, inst |-> h])
    BY <1>1 DEF Attaches
  <2>. QED BY ONLY <2>1 DEF Put
<1>12. /\ DOMAIN w.instances \subseteq DOMAIN z.instances
       /\ z.instances[h].owner = s /\ z.instances[h].path = path
       /\ \A j \in DOMAIN w.instances \ {h} :
             /\ z.instances[j].owner = w.instances[j].owner
             /\ z.instances[j].path = w.instances[j].path
  BY <1>1 DEF Attaches
<1>13. h \in DOMAIN w.instances => w.instances[h].path = path
  BY <1>1 DEF Room
<1>14. ASSUME NEW x \in DOMAIN w.items, w.items[x].ref \in S,
              w.items[x].inst \in DOMAIN w.instances,
              w.instances[w.items[x].inst].owner = s
       PROVE  x # k
  <2>1. x = k => w.items[k].inst \in DOMAIN u.instances
    BY <1>1, <1>9, <1>14 DEF Softer
  <2>2. x = k => u.instances[w.items[k].inst].owner = s
    BY <1>1, <1>9, <1>14 DEF Softer
  <2>3. x = k => w.items[k].inst # NoInst
    BY <2>1, NoInstIsNone DEF Core, Typed
  <2>4. x = k => w.items[k].inst = u.items[k].inst
    BY <1>1, <1>5, <1>9, <2>3 DEF Softer
  <2>. QED BY <1>5, <1>9, <1>14, <2>1, <2>2, <2>4
<1>15. Spares(w, z, s, ref, S)
  <2>1. \A i \in DOMAIN w.instances : w.instances[i].owner = s =>
            /\ i \in DOMAIN z.instances
            /\ z.instances[i].owner = s /\ z.instances[i].path = w.instances[i].path
    BY <1>12, <1>13
  <2>2. \A x \in DOMAIN w.items :
            /\ w.items[x].ref \in S /\ w.items[x].inst \in DOMAIN w.instances
            /\ w.instances[w.items[x].inst].owner = s
            => x \in DOMAIN z.items /\ z.items[x] = w.items[x]
    BY <1>11, <1>14
  <2>. QED BY <1>10, <2>1, <2>2 DEF Spares
<1>16. ASSUME NEW i \in DOMAIN u.instances, u.instances[i].owner = s, u.instances[i].path = path
       PROVE  Seated(z, i)
  <2>1. i \in DOMAIN w.instances /\ w.instances[i] = u.instances[i]
    BY <1>4, <1>9, <1>16
  <2>2. h \in DOMAIN w.instances /\ w.instances[h].path = path
    BY <1>1, <1>16, <2>1 DEF Room
  <2>3. h \in DOMAIN u.instances /\ u.instances[h] = w.instances[h]
    BY <1>1, <1>9, <2>2 DEF Softer
  <2>4. h = i
    BY <1>16, <2>2, <2>3 DEF Core, Apart
  <2>. QED BY <1>8, <1>10, <1>11, <2>4 DEF Seated
<1>17. Spares(u, z, s, ref, S)
  BY <1>7, <1>8, <1>15, SparesTwice
<1>. QED BY <1>3, <1>8, <1>10, <1>16, <1>17
\* A claim leaves the videos of its source alone, and what stamped refs hold of
\* them; a claim it accepts at the path of one has a stamped ref hold it.
LEMMA AttachOrOverlapSpares ==
    ASSUME NEW u, NEW A, NEW p, NEW Stray, Core(u, A, p, Stray), NEW b, Kept(b, u),
           NEW s, NEW ref \in Ref, NEW k \in Key, NEW path \in Path, NEW lang \in Profile,
           NEW row, row = [key |-> k, path |-> path, lang |-> lang], Ready(u, A, s, ref, row),
           NEW c, c = AttachOrOverlap(u, s, ref, k, path), c.t.error = "none",
           NEW kept, kept = [key |-> IF c.keyed THEN k ELSE NoKey, path |-> path,
                             lang |-> lang],
           NEW z, z = Store(c.t, ref, kept),
           NEW S \in SUBSET u.seen, ref \notin S
    PROVE  Spares(u, z, s, ref, S) /\ z.seen = u.seen \union {ref} /\ Seats(u, z, s, ref)
<1>1. /\ Rec(u) /\ u.error = "none" /\ Linked(u) /\ Apart(u) /\ Sourced(u, A)
      /\ NoInst \notin DOMAIN u.instances
  BY NoInstIsNone DEF Core, Typed
<1>2. row \in Sighting /\ row.key = k /\ row.path = path /\ k # NoKey /\ path # NoPath
  BY NamesAssumption DEF Sighting
<1>3. /\ s \in Source /\ s \in A /\ SourceOfRef(ref) = s /\ s # NoOwner
      /\ k \in u.touched /\ Provides(u, ref, row)
  BY <1>2, NamesAssumption DEF Ready
<1>4. PICK i : i = u.items[k].inst
  OBVIOUS
<1>5. PICK j : j = InstAt(u, path)
  OBVIOUS
<1>6. CASE \/ \E x \in At(u, path) : ForeignOwner(u, s, x)
           \/ /\ ~\E x \in At(u, path) : ForeignOwner(u, s, x)
              /\ k \in DOMAIN u.items /\ i # NoInst /\ i \notin At(u, path)
              /\ ForeignOwner(u, s, i)
  <2>1. \E y, k2 : c = [t |-> Overlap(u, ref, y, k2), keyed |-> TRUE]
    BY <1>4, <1>5, <1>6 DEF AttachOrOverlap, Recorded
  <2>2. PICK d, o : d = [u EXCEPT !.overlaps = Put(@, ref, o)] /\ c.t = d
    BY <2>1 DEF Overlap
  <2>3. /\ Rec(d) /\ d.overlaps = Put(u.overlaps, ref, o) /\ d.items = u.items
        /\ d.instances = u.instances /\ d.sightings = u.sightings
        /\ d.seen = u.seen /\ d.seenRoots = u.seenRoots
    BY <1>1, <2>2 DEF Rec
  <2>4. /\ z.sightings = Put(d.sightings, ref, kept) /\ z.seen = d.seen \union {ref}
        /\ z.seenRoots = d.seenRoots /\ z.items = d.items /\ z.overlaps = d.overlaps
        /\ z.instances = d.instances
    <3>1. Rec(d) /\ z = Store(d, ref, kept)
      BY <2>2, <2>3
    <3>. QED BY ONLY <3>1, StoreFields DEF SameVideos
  <2>5. /\ DOMAIN z.overlaps = DOMAIN u.overlaps \union {ref}
        /\ DOMAIN z.sightings = DOMAIN u.sightings \union {ref}
        /\ \A x \in DOMAIN u.sightings \ {ref} : z.sightings[x] = u.sightings[x]
    BY <2>3, <2>4 DEF Put
  <2>6. Spares(u, z, s, ref, S)
    BY <2>3, <2>4, <2>5 DEF Spares
  <2>7. Seats(u, z, s, ref)
    BY <2>5 DEF Seats, Backed
  <2>. QED BY <2>3, <2>4, <2>6, <2>7
<1>7. CASE /\ ~\E x \in At(u, path) : ForeignOwner(u, s, x)
           /\ ~(/\ k \in DOMAIN u.items /\ i # NoInst /\ i \notin At(u, path)
                /\ ForeignOwner(u, s, i))
           /\ k \in DOMAIN u.items /\ i # NoInst
           /\ u.items[k].ref # ref /\ SourceOfRef(u.items[k].ref) = s
           /\ HeldElsewhere(u, s, u.items[k])
  <2>1. PICK d : d = DropOverlaps(u, {ref})
    OBVIOUS
  <2>2. c.t = d /\ (c.keyed <=> i \in At(u, path))
    BY <1>4, <1>7, <2>1 DEF AttachOrOverlap, Recorded
  <2>3. kept.path = path /\ (kept.key # NoKey => i \in At(u, path))
    BY <2>2
  <2>4. StoredOver(u, z, ref, kept)
    BY <1>1, <2>1, <2>2, StoredOverDropped
  <2>5. /\ Spares(u, z, s, ref, S) /\ z.seen = u.seen \union {ref}
        /\ ref \in DOMAIN z.sightings /\ z.sightings[ref] = kept
    BY ONLY <2>4, StoredSpares
  <2>6. ASSUME NEW y \in DOMAIN u.instances, u.instances[y].owner = s,
               Backed(z, ref, u.instances[y].path)
        PROVE  Seated(z, y)
    <3>1. i \in At(u, path) /\ u.instances[y].path = path
      <4>1. z.sightings[ref].key # NoKey /\ z.sightings[ref].path = u.instances[y].path
        BY ONLY <2>6 DEF Backed
      <4>. QED BY ONLY <2>3, <2>5, <4>1
    <3>2. y = i
      BY <1>1, <3>1 DEF Apart, At
    <3>3. u.items[k].ref \in u.seen
      BY <1>7 DEF HeldElsewhere
    <3>4. z.items = u.items
      BY <2>4 DEF StoredOver
    <3>. QED BY <1>4, <1>7, <2>5, <3>2, <3>3, <3>4 DEF Seated
  <2>. QED BY <2>5, <2>6 DEF Seats
<1>8. CASE /\ ~\E x \in At(u, path) : ForeignOwner(u, s, x)
           /\ ~(/\ k \in DOMAIN u.items /\ i # NoInst /\ i \notin At(u, path)
                /\ ForeignOwner(u, s, i))
           /\ ~(/\ k \in DOMAIN u.items /\ i # NoInst
                /\ u.items[k].ref # ref /\ SourceOfRef(u.items[k].ref) = s
                /\ HeldElsewhere(u, s, u.items[k]))
  <2>1. PICK d : d = AttachKey(u, s, ref, k, path)
    OBVIOUS
  <2>2. c = [t |-> d, keyed |-> TRUE]
    BY <1>4, <1>8, <2>1 DEF AttachOrOverlap, Recorded
  <2>3. c.t = d /\ kept = row
    BY <2>2
  <2>4. \A x \in At(u, path) : u.instances[x].owner \in {NoOwner, s}
    BY <1>8 DEF ForeignOwner, At
  <2>5. z = Store(d, ref, row) /\ d.error = "none"
    BY <2>3
  <2>6. \/ Rec(d) /\ d.error = "pinned"
        \/ d.error = "none" /\ Core(z, A, p, Stray) /\ Kept(b, z)
           /\ Delivered(u, z, s, ref, k, path, row)
    BY ONLY Core(u, A, p, Stray), Kept(b, u), ref \in Ref, k \in Key, path \in Path,
       <1>2, <1>3, <2>1, <2>4, <2>5, AttachKeyKeeps
  <2>7. Delivered(u, z, s, ref, k, path, row)
    BY <2>5, <2>6
  <2>8. k \in DOMAIN u.items /\ u.items[k].inst \in DOMAIN u.instances
            /\ u.instances[u.items[k].inst].owner = s => u.items[k].ref \notin S
    <3>1. SUFFICES ASSUME k \in DOMAIN u.items, i \in DOMAIN u.instances,
                          u.instances[i].owner = s, u.items[k].ref \in S
                   PROVE  FALSE
      BY <1>4
    <3>2. k \in u.instances[i].items /\ i # NoInst
      BY <1>1, <1>4, <3>1 DEF Linked
    <3>3. SourceOfRef(u.items[k].ref) = s
      BY <1>1, <1>3, <3>1, <3>2 DEF Sourced
    <3>4. HeldElsewhere(u, s, u.items[k])
      BY <3>1 DEF HeldElsewhere
    <3>. QED BY <1>8, <3>1, <3>2, <3>3, <3>4
  <2>9. /\ Spares(u, z, s, ref, S) /\ z.seen = u.seen \union {ref}
        /\ ref \in DOMAIN z.sightings /\ z.sightings[ref] = row
        /\ \A y \in DOMAIN u.instances :
              u.instances[y].owner = s /\ u.instances[y].path = path => Seated(z, y)
    BY ONLY Core(u, A, p, Stray), <1>3, <2>7, <2>8, DeliveredSpares
  <2>. QED BY <1>2, <2>9 DEF Seats, Backed
<1>. QED BY <1>6, <1>7, <1>8

\* The same of a claim, whichever rule decides it.
LEMMA ClaimSpares ==
    ASSUME NEW u, NEW A, NEW p, NEW Stray, Core(u, A, p, Stray), NEW b, Kept(b, u),
           NEW s, NEW offer \in Offer,
           NEW row, row = [key |-> offer.key, path |-> offer.path, lang |-> offer.lang],
           Ready(u, A, s, offer.ref, row),
           NEW c, c = Claim(u, s, offer), c.t.error = "none",
           NEW kept, kept = [key |-> IF c.keyed THEN offer.key ELSE NoKey, path |-> offer.path,
                             lang |-> offer.lang],
           NEW z, z = Store(c.t, offer.ref, kept),
           NEW S \in SUBSET u.seen, offer.ref \notin S
    PROVE  /\ Spares(u, z, s, offer.ref, S) /\ z.seen = u.seen \union {offer.ref}
           /\ Seats(u, z, s, offer.ref)
<1>1. PICK ref : ref = offer.ref
  OBVIOUS
<1>2. PICK k : k = offer.key
  OBVIOUS
<1>3. PICK path : path = offer.path
  OBVIOUS
<1>4. PICK lang : lang = offer.lang
  OBVIOUS
<1>5. ref \in Ref /\ k \in Key \union {NoKey} /\ path \in Path \union {NoPath} /\ lang \in Profile
  BY <1>1, <1>2, <1>3, <1>4 DEF Offer
<1>6. row.key = k /\ row.path = path /\ Rec(u) /\ u.error = "none"
  BY <1>2, <1>3 DEF Core, Typed
<1>7. Ready(u, A, s, ref, row) /\ z = Store(c.t, ref, kept) /\ ref \notin S
  BY <1>1
<1>8. \A i \in DOMAIN u.instances : u.instances[i].path # NoPath
  BY NamesAssumption DEF Core, Typed, IsTable, Video
<1>9. CASE k = NoKey
  <2>1. c = [t |-> u, keyed |-> FALSE]
    BY <1>2, <1>9 DEF Claim
  <2>2. c.t = u /\ kept.key = NoKey
    BY <2>1
  <2>3. ref \notin DOMAIN u.overlaps
    BY <1>6, <1>7, <1>9 DEF Ready
  <2>4. StoredOver(u, z, ref, kept)
    BY <1>7, <2>2, <2>3, StoredWhereFree
  <2>5. /\ Spares(u, z, s, ref, S) /\ z.seen = u.seen \union {ref}
        /\ ref \in DOMAIN z.sightings /\ z.sightings[ref] = kept
    BY ONLY <2>4, StoredSpares
  <2>. QED BY <1>1, <2>2, <2>5 DEF Seats, Backed
<1>10. CASE k # NoKey /\ path = NoPath
  <2>1. PICK d : d = NoVideo(u, s, ref, k)
    OBVIOUS
  <2>2. c = [t |-> d, keyed |-> TRUE]
    BY <1>1, <1>2, <1>3, <1>10, <2>1 DEF Claim
  <2>3. c.t = d /\ kept.path = NoPath
    BY <1>3, <1>10, <2>2
  <2>4. /\ Rec(d) /\ d.sightings = u.sightings /\ d.overlaps = u.overlaps
        /\ d.instances = u.instances /\ d.seen = u.seen /\ d.seenRoots = u.seenRoots
    BY <1>6, <2>1 DEF NoVideo, Rec
  <2>5. \/ d.items = u.items
        \/ /\ d.items = Put(u.items, k, [ref |-> ref, inst |-> NoInst])
           /\ k \in DOMAIN u.items => u.items[k].ref = ref \/ u.items[k].inst = NoInst
    BY <1>6, <2>1 DEF NoVideo, Recorded, Rec
  <2>6. NoInst \notin DOMAIN u.instances
    BY NoInstIsNone DEF Core, Typed
  <2>7. ASSUME NEW x \in DOMAIN u.items, u.items[x].ref \in S,
               u.items[x].inst \in DOMAIN u.instances
        PROVE  x \in DOMAIN d.items /\ d.items[x] = u.items[x]
    BY <1>7, <2>5, <2>6, <2>7 DEF Put
  <2>8. /\ z.sightings = Put(d.sightings, ref, kept) /\ z.seen = d.seen \union {ref}
        /\ z.seenRoots = d.seenRoots /\ z.items = d.items /\ z.overlaps = d.overlaps
        /\ z.instances = d.instances
    BY <1>7, <2>3, <2>4, StoreFields DEF SameVideos
  <2>9. /\ DOMAIN z.sightings = DOMAIN u.sightings \union {ref} /\ z.sightings[ref] = kept
        /\ \A x \in DOMAIN u.sightings \ {ref} : z.sightings[x] = u.sightings[x]
    BY <2>4, <2>8 DEF Put
  <2>10. Spares(u, z, s, ref, S)
    BY <2>4, <2>7, <2>8, <2>9 DEF Spares
  <2>11. Seats(u, z, s, ref)
    BY <1>8, <2>3, <2>9 DEF Seats, Backed
  <2>. QED BY <1>1, <2>4, <2>8, <2>10, <2>11
<1>11. CASE k # NoKey /\ path # NoPath
  <2>1. c = AttachOrOverlap(u, s, ref, k, path)
    BY <1>1, <1>2, <1>3, <1>11 DEF Claim
  <2>2. k \in Key /\ path \in Path
    BY <1>5, <1>11
  <2>3. row = [key |-> k, path |-> path, lang |-> lang]
    BY <1>2, <1>3, <1>4
  <2>4. kept = [key |-> IF c.keyed THEN k ELSE NoKey, path |-> path, lang |-> lang]
    BY <1>2, <1>3, <1>4
  <2>5. Spares(u, z, s, ref, S) /\ z.seen = u.seen \union {ref} /\ Seats(u, z, s, ref)
    BY ONLY Core(u, A, p, Stray), Kept(b, u), <1>5, <1>7, <2>1, <2>2, <2>3, <2>4, c.t.error = "none",
            S \in SUBSET u.seen, AttachOrOverlapSpares, Z3
  <2>. QED BY <1>1, <2>5
<1>. QED BY <1>9, <1>10, <1>11
\* The same of an offer, with the release that comes before its claim.
LEMMA OfferSpares ==
    ASSUME NEW t, NEW b, NEW A, NEW p, NEW Stray, Core(t, A, p, Stray), Kept(b, t), NEW s \in Source, s \in A,
           NEW offer \in Offer, SourceOfRef(offer.ref) = s,
           NEW z, z = ObserveItem(t, s, offer), z.error = "none",
           NEW S \in SUBSET t.seen, offer.ref \notin S
    PROVE  /\ Spares(t, z, s, offer.ref, S) /\ z.seen = t.seen \union {offer.ref}
           /\ Seats(t, z, s, offer.ref)
<1>1. Rec(t) /\ t.error = "none"
  BY DEF Core, Typed
<1>2. PICK ref : ref = offer.ref
  OBVIOUS
<1>3. PICK r : r = IF Differs(t, offer) THEN Release(t, {offer.ref}) ELSE t
  OBVIOUS
<1>4. PICK u : u = [r EXCEPT !.touched = @ \union ({offer.key} \ {NoKey})]
  OBVIOUS
<1>5. PICK row : row = [key |-> offer.key, path |-> offer.path, lang |-> offer.lang]
  OBVIOUS
<1>6. PICK c : c = Claim(u, s, offer)
  OBVIOUS
<1>7. PICK kept : kept = [key |-> IF c.keyed THEN offer.key ELSE NoKey,
                          path |-> offer.path, lang |-> offer.lang]
  OBVIOUS
<1>8. z = IF u.error # "none" THEN u ELSE Store(c.t, offer.ref, kept)
  BY <1>1, <1>3, <1>4, <1>6, <1>7 DEF ObserveItem, Store
<1>9. Offered(t, offer, r, u, row)
  BY <1>3, <1>4, <1>5 DEF Offered
<1>10. \/ Rec(u) /\ u.error = "pinned"
       \/ /\ Core(u, A, p, Stray) /\ Kept(b, u) /\ Ready(u, A, s, offer.ref, row)
          /\ r.error = "none"
  BY ONLY Core(t, A, p, Stray), Kept(b, t), s \in Source, s \in A, offer \in Offer,
          SourceOfRef(offer.ref) = s, <1>9, OfferReady
<1>11. u.error = "none" /\ z = Store(c.t, offer.ref, kept)
  BY <1>8, <1>10 DEF Core, Typed
<1>12. /\ Core(u, A, p, Stray) /\ Kept(b, u) /\ Ready(u, A, s, offer.ref, row)
       /\ r.error = "none"
  BY <1>10, <1>11
<1>13. Spares(t, r, s, ref, S) /\ r.seen = t.seen
  <2>1. CASE Differs(t, offer)
    <3>1. r = Release(t, {ref}) /\ r.error # "pinned" /\ ref \notin S
      BY <1>2, <1>3, <1>12, <2>1
    <3>. QED BY ONLY Core(t, A, p, Stray), <3>1, ReleaseSpares
  <2>2. CASE ~Differs(t, offer)
    <3>1. r = t
      BY <1>3, <2>2
    <3>. QED BY ONLY <3>1 DEF Spares
  <2>. QED BY <2>1, <2>2
<1>14. Spares(r, u, s, ref, S) /\ u.seen = r.seen
  <2>1. Rec(u)
    BY <1>12 DEF Core, Typed
  <2>2. /\ u.seenRoots = r.seenRoots /\ u.seen = r.seen /\ u.sightings = r.sightings
        /\ u.overlaps = r.overlaps /\ u.items = r.items /\ u.instances = r.instances
    BY ONLY <1>4, <2>1 DEF Rec
  <2>. QED BY ONLY <2>2 DEF Spares
<1>15. Spares(t, u, s, ref, S) /\ u.seen = t.seen
  <2>1. Spares(t, u, s, ref, S)
    BY ONLY <1>13, <1>14, SparesTwice
  <2>. QED BY <2>1, <1>13, <1>14
<1>16. c.t.error = "none"
  <2>1. \/ Rec(c.t) /\ c.t.error = "pinned"
        \/ c.t.error = "none" /\ Core(z, A, p, Stray) /\ Kept(b, z)
    BY ONLY <1>5, <1>6, <1>7, <1>11, <1>12, offer \in Offer, ClaimKeeps
  <2>2. Rec(c.t) => z.error = c.t.error
    BY ONLY <1>11, StoreFields
  <2>. QED BY <2>1, <2>2
<1>17. /\ Spares(u, z, s, offer.ref, S) /\ z.seen = u.seen \union {offer.ref}
       /\ Seats(u, z, s, offer.ref)
  <2>1. S \in SUBSET u.seen /\ offer.ref \notin S
    BY <1>15
  <2>. QED BY ONLY <1>5, <1>6, <1>7, <1>11, <1>12, <1>16, <2>1, offer \in Offer, ClaimSpares
<1>18. Spares(t, z, s, ref, S)
  <2>1. Spares(u, z, s, ref, S)
    BY <1>2, <1>17
  <2>. QED BY ONLY <1>15, <2>1, SparesTwice
<1>19. ASSUME NEW i \in DOMAIN t.instances, t.instances[i].owner = s,
              Backed(z, ref, t.instances[i].path)
       PROVE  Seated(z, i)
  <2>1. /\ i \in DOMAIN u.instances /\ u.instances[i].owner = s
        /\ u.instances[i].path = t.instances[i].path
    BY <1>15, <1>19 DEF Spares
  <2>. QED BY <1>2, <1>17, <1>19, <2>1 DEF Seats
<1>. QED BY <1>2, <1>15, <1>17, <1>18, <1>19 DEF Seats

\* t is b after offers of the refs of N, by source s: no other ref reports
\* anew, the videos of s are where they were, and, unless one of N was stamped
\* before, a stamped ref holds each that one of N reports the path of.
Advances(b, t, s, N) ==
    /\ t.seen = b.seen \union N /\ t.seenRoots = b.seenRoots
    /\ \A x \in DOMAIN t.sightings \ N :
          x \in DOMAIN b.sightings /\ t.sightings[x] = b.sightings[x]
    /\ \A i \in DOMAIN b.instances : b.instances[i].owner = s =>
          /\ i \in DOMAIN t.instances
          /\ t.instances[i].owner = s /\ t.instances[i].path = b.instances[i].path
          /\ N \intersect b.seen = {} =>
                \A x \in N : Backed(t, x, b.instances[i].path) => Seated(t, i)

\* One offer more.
LEMMA AdvancesFurther ==
    ASSUME NEW b, NEW t, NEW s, NEW N, Advances(b, t, s, N), NEW ref, ref \notin N,
           NEW z, Spares(t, z, s, ref, t.seen \ {ref}), z.seen = t.seen \union {ref},
           Seats(t, z, s, ref), NEW M, M = N \union {ref}
    PROVE  Advances(b, z, s, M)
<1>1. z.seen = b.seen \union M /\ z.seenRoots = b.seenRoots
  BY DEF Advances, Spares
<1>2. ASSUME NEW x \in DOMAIN z.sightings \ M
      PROVE  x \in DOMAIN b.sightings /\ z.sightings[x] = b.sightings[x]
  <2>1. x \in DOMAIN t.sightings \ {ref} /\ x \notin N
    BY <1>2 DEF Spares
  <2>. QED BY <2>1 DEF Spares, Advances
<1>3. ASSUME NEW i \in DOMAIN b.instances, b.instances[i].owner = s
      PROVE  /\ i \in DOMAIN z.instances
             /\ z.instances[i].owner = s /\ z.instances[i].path = b.instances[i].path
             /\ M \intersect b.seen = {} =>
                   \A x \in M : Backed(z, x, b.instances[i].path) => Seated(z, i)
  <2>1. /\ i \in DOMAIN t.instances /\ t.instances[i].owner = s
        /\ t.instances[i].path = b.instances[i].path
    BY <1>3 DEF Advances
  <2>2. /\ i \in DOMAIN z.instances
        /\ z.instances[i].owner = s /\ z.instances[i].path = t.instances[i].path
    BY <2>1 DEF Spares
  <2>3. ASSUME M \intersect b.seen = {}, NEW x \in M, Backed(z, x, b.instances[i].path)
        PROVE  Seated(z, i)
    <3>1. CASE x = ref
      BY <2>1, <2>3, <3>1 DEF Seats
    <3>2. CASE x # ref
      <4>1. Backed(t, x, b.instances[i].path)
        BY <2>3, <3>2 DEF Backed, Spares
      <4>2. Seated(t, i)
        BY <1>3, <2>3, <3>2, <4>1 DEF Advances
      <4>3. PICK k \in DOMAIN t.items : t.items[k].inst = i /\ t.items[k].ref \in t.seen \ {ref}
        BY <2>3, <4>2 DEF Seated, Advances
      <4>4. /\ k \in DOMAIN z.items
            /\ z.items[k].ref = t.items[k].ref /\ z.items[k].inst = t.items[k].inst
        BY <2>1, <4>3 DEF Spares
      <4>. QED BY <4>3, <4>4 DEF Seated
    <3>. QED BY <3>1, <3>2
  <2>. QED BY <2>1, <2>2, <2>3
<1>. QED BY <1>1, <1>2, <1>3 DEF Advances

\* The refs of the first n offers of rep.
RefsOf(rep, n) == {rep[l].ref : l \in 1 .. n}

\* A report, that offers each ref once.
LEMMA ReportSpares ==
    ASSUME NEW t, NEW A, NEW p, NEW Stray, Core(t, A, p, Stray), NEW b, Kept(b, t), NEW s \in Source, s \in A,
           NEW rep \in Seq(Offer), \A n \in DOMAIN rep : SourceOfRef(rep[n].ref) = s,
           \A m, n \in DOMAIN rep : rep[m].ref = rep[n].ref => m = n,
           NEW z, z = ObserveAll(t, s, rep), z.error = "none"
    PROVE  Advances(t, z, s, RefsOf(rep, Len(rep)))
<1>1. PICK f : After(t, s, rep, Len(rep), f) /\ z = f[Len(rep)]
  BY LastAfter
<1>2. \A n \in 0 .. Len(rep) : Stands(b, A, p, Stray, f[n])
  <2>1. Stands(b, A, p, Stray, t)
    BY DEF Stands
  <2>. QED BY <1>1, <2>1, AfterStands
<1>. DEFINE T == {n \in 0 .. Len(rep) :
                    f[n].error = "none" /\ ~Advances(t, f[n], s, RefsOf(rep, n))}
<1>3. Len(rep) \in 0 .. Len(rep)
  OBVIOUS
<1>4. SUFFICES ASSUME T # {} PROVE FALSE
  BY <1>1, <1>3
<1>5. PICK m \in T : \A y \in T : m <= y
  <2>1. T # {} /\ T \subseteq Nat
    BY <1>4
  <2>. QED BY ONLY <2>1, Least
<1>6. f[0] = t
  BY <1>1, AfterEach
<1>7. m # 0
  <2>1. RefsOf(rep, 0) = {}
    BY DEF RefsOf
  <2>2. Advances(t, t, s, {})
    BY DEF Advances
  <2>. QED BY <1>6, <2>1, <2>2
<1>8. /\ m - 1 \in 0 .. Len(rep) /\ m \in DOMAIN rep /\ rep[m] \in Offer
      /\ f[m] = ObserveItem(f[m - 1], s, rep[m])
  <2>1. m \in (0 .. Len(rep)) \ {0}
    BY <1>7
  <2>. QED BY <1>1, <2>1, AfterEach
<1>9. PICK u, y, offer : u = f[m - 1] /\ y = f[m] /\ offer = rep[m]
  OBVIOUS
<1>10. y = ObserveItem(u, s, offer) /\ y.error = "none"
  BY <1>8, <1>9
<1>11. u.error = "none"
  BY <1>10 DEF ObserveItem
<1>12. Core(u, A, p, Stray) /\ Kept(b, u)
  BY <1>2, <1>8, <1>9, <1>11 DEF Stands
<1>13. PICK N : N = RefsOf(rep, m - 1)
  OBVIOUS
<1>14. Advances(t, u, s, N)
  <2>1. m - 1 \notin T
    BY <1>5, <1>8
  <2>. QED BY <1>8, <1>9, <1>11, <1>13, <2>1
<1>15. offer.ref \notin N
  <2>1. ASSUME NEW l \in 1 .. m - 1 PROVE rep[l].ref # offer.ref
    <3>1. l \in DOMAIN rep /\ l # m
      BY <1>8
    <3>. QED BY <1>8, <1>9, <3>1
  <2>. QED BY <1>13, <2>1 DEF RefsOf
<1>16. /\ Spares(u, y, s, offer.ref, u.seen \ {offer.ref})
       /\ y.seen = u.seen \union {offer.ref} /\ Seats(u, y, s, offer.ref)
  <2>1. PICK S : S = u.seen \ {offer.ref}
    OBVIOUS
  <2>2. S \in SUBSET u.seen /\ offer.ref \notin S /\ offer \in Offer /\ SourceOfRef(offer.ref) = s
    BY <1>8, <1>9, <2>1
  <2>3. /\ Spares(u, y, s, offer.ref, S) /\ y.seen = u.seen \union {offer.ref}
        /\ Seats(u, y, s, offer.ref)
    BY ONLY s \in Source, s \in A, <1>10, <1>12, <2>2, OfferSpares
  <2>. QED BY <2>1, <2>3
<1>17. RefsOf(rep, m) = N \union {offer.ref}
  <2>1. 1 .. m = (1 .. m - 1) \union {m}
    BY <1>8
  <2>. QED BY <1>9, <1>13, <2>1 DEF RefsOf
<1>18. Advances(t, y, s, RefsOf(rep, m))
  BY ONLY <1>14, <1>15, <1>16, <1>17, AdvancesFurther
<1>. QED BY <1>9, <1>18
\* z is b after a report of root r: it is stamped with what it reported, no ref
\* of another root reports anew, and a video of its source whose path is that of
\* a ref which reports anew stays, if r was not stamped before.
RootReported(b, z, r) ==
    /\ z.seenRoots = b.seenRoots \union {r}
    /\ \A x \in z.seen : x \in b.seen \/ RootOf[x] = r
    /\ \A x \in DOMAIN z.sightings : RootOf[x] # r =>
          x \in DOMAIN b.sightings /\ z.sightings[x] = b.sightings[x]
    /\ r \notin b.seenRoots =>
          \A i \in DOMAIN b.instances, x \in DOMAIN z.sightings \intersect DOMAIN b.sightings :
              /\ b.instances[i].owner = SourceOf[r]
              /\ Backed(z, x, b.instances[i].path)
              /\ z.sightings[x] # b.sightings[x]
              => i \in DOMAIN z.instances

\* A report keeps the videos of its source that refs reporting anew are at.
LEMMA ObservedReports ==
    ASSUME NEW b, NEW A, NEW p, NEW Stray, Core(b, A, p, Stray), Kept(b, b), NEW scope,
           \A x \in b.seen : RootOf[x] \in b.seenRoots,
           NEW r \in Root, SourceOf[r] \in A, NEW report \in Reports[r],
           NEW z, z = Observed(b, p, scope, r, report), z.error = "none"
    PROVE  RootReported(b, z, r)
<1>1. PICK Q, S : Q = b.roots \union {r} /\ S = b.seenRoots \union {r}
  OBVIOUS
<1>2. PICK u : u = [b EXCEPT !.roots = Q, !.seenRoots = S]
  OBVIOUS
<1>3. PICK s : s = SourceOf[r]
  OBVIOUS
<1>4. PICK v : v = ObserveAll(u, s, report)
  OBVIOUS
<1>5. PICK x : x = Settle(v, p)
  OBVIOUS
<1>6. \/ v.error # "none" /\ z = v
      \/ v.error = "none" /\ (z = x \/ z = Enqueue(x, x.attached))
  BY <1>1, <1>2, <1>3, <1>4, <1>5, Zenon DEF Observed
<1>7. v.error = "none" /\ (z = x \/ z = Enqueue(x, x.attached))
  BY <1>6
<1>8. Core(u, A, p, Stray) /\ Kept(b, u)
  <2>1. Q \in SUBSET Root /\ S \in SUBSET Root
    BY <1>1 DEF Core, Typed
  <2>2. Restamped(b, u)
    BY ONLY <1>2, <2>1 DEF Restamped
  <2>. QED BY ONLY Core(b, A, p, Stray), Kept(b, b), <2>2, ReportedKeeps
<1>9. /\ u.sightings = b.sightings /\ u.seen = b.seen /\ u.seenRoots = S
      /\ u.overlaps = b.overlaps /\ u.items = b.items /\ u.instances = b.instances
  <2>1. Rec(b)
    BY DEF Core, Typed
  <2>. QED BY ONLY <1>2, <2>1 DEF Rec
<1>10. PICK N : N = RefsOf(report, Len(report))
  OBVIOUS
<1>11. s \in Source /\ s \in A
  BY <1>3, RootAssumption
<1>12. /\ report \in Seq(Offer) /\ \A n \in DOMAIN report : SourceOfRef(report[n].ref) = s
       /\ \A m, n \in DOMAIN report : report[m].ref = report[n].ref => m = n
       /\ \A n \in DOMAIN report : RootOf[report[n].ref] = r
  BY <1>3, ReportsAssumption DEF SourceOfRef
<1>13. Advances(u, v, s, N)
  BY ONLY <1>4, <1>7, <1>8, <1>10, <1>11, <1>12, ReportSpares
<1>14. \A y \in N : RootOf[y] = r
  <2>1. \A l \in 1 .. Len(report) : l \in DOMAIN report
    BY <1>12
  <2>. QED BY <1>10, <1>12, <2>1 DEF RefsOf
<1>15. Core(v, A, p, Stray) /\ Kept(b, v)
  <2>1. Stands(b, A, p, Stray, u)
    BY <1>8 DEF Stands
  <2>2. Stands(b, A, p, Stray, v)
    BY ONLY <1>4, <1>11, <1>12, <2>1, ObserveAllKeeps
  <2>. QED BY <1>7, <2>2 DEF Stands
<1>16. /\ Settled(x, A, p, Stray) /\ Kept(b, x) /\ SameReports(v, x) /\ x.overlaps = v.overlaps
       /\ \A i \in DOMAIN v.instances : v.instances[i].items # {} => i \in DOMAIN x.instances
  BY ONLY <1>5, <1>15, SettleKeeps
<1>17. /\ z.sightings = v.sightings /\ z.seen = v.seen /\ z.seenRoots = v.seenRoots
       /\ z.overlaps = v.overlaps /\ z.instances = x.instances
  <2>1. CASE z = x
    BY <1>16, <2>1 DEF SameReports
  <2>2. CASE z = Enqueue(x, x.attached)
    <3>1. SameReports(x, z) /\ z.overlaps = x.overlaps /\ z.instances = x.instances
      BY ONLY <1>16, <2>2, EnqueueKeeps
    <3>. QED BY <1>16, <3>1 DEF SameReports
  <2>. QED BY <1>7, <2>1, <2>2
<1>18. z.seenRoots = b.seenRoots \union {r} /\ z.seen = b.seen \union N
  BY <1>1, <1>9, <1>13, <1>17 DEF Advances
<1>19. \A y \in DOMAIN z.sightings \ N :
           y \in DOMAIN b.sightings /\ z.sightings[y] = b.sightings[y]
  BY <1>9, <1>13, <1>17 DEF Advances
<1>20. ASSUME r \notin b.seenRoots, NEW i \in DOMAIN b.instances,
              NEW y \in DOMAIN z.sightings \intersect DOMAIN b.sightings,
              b.instances[i].owner = s, Backed(z, y, b.instances[i].path),
              z.sightings[y] # b.sightings[y]
       PROVE  i \in DOMAIN z.instances
  <2>1. y \in N
    BY <1>19, <1>20
  <2>2. N \intersect u.seen = {}
    BY <1>9, <1>14, <1>20
  <2>3. Backed(v, y, u.instances[i].path)
    BY <1>9, <1>17, <1>20 DEF Backed
  <2>4. /\ i \in DOMAIN v.instances /\ Seated(v, i)
    BY <1>9, <1>13, <1>20, <2>1, <2>2, <2>3 DEF Advances
  <2>5. PICK k \in DOMAIN v.items : v.items[k].inst = i
    BY <2>4 DEF Seated
  <2>6. i # NoInst
    BY <1>15, <2>4, NoInstIsNone DEF Core, Typed
  <2>7. k \in v.instances[i].items
    BY <1>15, <2>5, <2>6 DEF Core, Linked
  <2>. QED BY <1>16, <1>17, <2>4, <2>7
<1>. QED BY <1>3, <1>14, <1>18, <1>19, <1>20 DEF RootReported

\* Completing a pass ends settled, or fails on a pinned video, and makes no
\* video.
LEMMA CompletedKeeps ==
    ASSUME NEW b, NEW A, NEW p, NEW Stray, Core(b, A, p, Stray), Kept(b, b), NEW s, NEW scope, NEW keep,
           NEW z, z = Completed(b, p, s, scope, keep)
    PROVE  Ends(b, A, p, Stray, z) /\ (z.error = "none" => z.next = b.next /\ Fewer(b, z))
<1>1. PICK u : u = Retire(b, s, scope, keep)
  OBVIOUS
<1>2. PICK e : e = ExpireOrphans(u)
  OBVIOUS
<1>3. PICK x : x = Settle(e, p)
  OBVIOUS
<1>4. \/ u.error # "none" /\ z = u
      \/ u.error = "none" /\ (z = x \/ \E ids : z = Enqueue(x, ids))
  BY <1>1, <1>2, <1>3, Zenon DEF Completed
<1>5. Stands(b, A, p, Stray, u) /\ (u.error = "none" => u.next = b.next /\ Fewer(b, u))
  <2>1. \E Q, R : /\ Q \in SUBSET b.roots
                  /\ u = RetireRefs([b EXCEPT !.roots = Q], R)
    BY <1>1 DEF Retire
  <2>2. PICK Q, R : Q \in SUBSET b.roots /\ u = RetireRefs([b EXCEPT !.roots = Q], R)
    BY <2>1
  <2>3. PICK w : w = [b EXCEPT !.roots = Q]
    OBVIOUS
  <2>4. Q \in SUBSET Root /\ b.seenRoots \in SUBSET Root /\ Rec(b)
    BY <2>2 DEF Core, Typed
  <2>5. PICK S : S = b.seenRoots
    OBVIOUS
  <2>6. w = [b EXCEPT !.roots = Q, !.seenRoots = S]
    BY <2>3, <2>4, <2>5 DEF Rec
  <2>7. S \in SUBSET Root
    BY <2>4, <2>5
  <2>8. Core(w, A, p, Stray) /\ Kept(b, w) /\ w.next = b.next
    <3>1. Q \in SUBSET Root
      BY <2>4
    <3>2. Restamped(b, w)
      BY ONLY <2>6, <2>7, <3>1 DEF Restamped
    <3>3. Core(w, A, p, Stray) /\ Kept(b, w)
      BY ONLY Core(b, A, p, Stray), Kept(b, b), <3>2, ReportedKeeps
    <3>. QED BY <2>3, <2>4, <3>3 DEF Rec
  <2>9. u = RetireRefs(w, R)
    BY <2>2, <2>3
  <2>10. Stands(b, A, p, Stray, u) /\ (u.error = "none" => u.next = w.next /\ Fewer(w, u))
    BY ONLY <2>8, <2>9, RetireRefsKeeps
  <2>11. w.sightings = b.sightings /\ w.seen = b.seen /\ w.seenRoots = b.seenRoots
    BY <2>3, <2>4 DEF Rec
  <2>12. Fewer(w, u) => Fewer(b, u)
    BY ONLY <2>11 DEF Fewer
  <2>. QED BY <2>8, <2>10, <2>12
<1>6. CASE u.error # "none"
  BY <1>4, <1>5, <1>6 DEF Stands, Ends, Core, Typed
<1>7. CASE u.error = "none"
  <2>1. Core(u, A, p, Stray) /\ Kept(b, u) /\ u.next = b.next /\ Fewer(b, u)
    BY <1>5, <1>7 DEF Stands
  <2>2. PICK I : I = {i \in DOMAIN u.instances :
                       u.instances[i].owner = NoOwner /\ u.instances[i].expired} \ u.pinned
    OBVIOUS
  <2>3. e = Expire(u, I)
    BY <1>2, <2>2 DEF ExpireOrphans
  <2>4. I \subseteq DOMAIN u.instances /\ \A i \in I : u.instances[i].owner = NoOwner
    BY <2>2
  <2>5. /\ Core(e, A, p, Stray)
        /\ SameReports(u, e) /\ e.emptied = u.emptied /\ e.next = u.next
        /\ DOMAIN e.instances = DOMAIN u.instances \ I
        /\ \A i \in DOMAIN e.instances : e.instances[i] = u.instances[i]
    BY ONLY <2>1, <2>3, <2>4, ExpireKeeps
  <2>6. Kept(b, e)
    <3>1. I \intersect b.pinned = {}
      BY <2>1, <2>2 DEF Kept
    <3>. QED BY <2>1, <2>5, <3>1 DEF Kept, SameReports
  <2>7. Settled(x, A, p, Stray) /\ Kept(b, x) /\ x.next = e.next /\ SameReports(e, x)
    BY ONLY <1>3, <2>5, <2>6, SettleKeeps
  <2>10. Fewer(b, x)
    BY ONLY <2>1, <2>5, <2>7 DEF Fewer, SameReports
  <2>8. CASE z = x
    BY <2>1, <2>5, <2>7, <2>8, <2>10 DEF Ends
  <2>9. CASE \E ids : z = Enqueue(x, ids)
    <3>1. PICK ids : z = Enqueue(x, ids)
      BY <2>9
    <3>2. Settled(z, A, p, Stray) /\ Kept(b, z) /\ z.next = x.next /\ SameReports(x, z)
      BY ONLY <2>7, <3>1, EnqueueKeeps
    <3>3. Fewer(b, z)
      BY ONLY <2>10, <3>2 DEF Fewer, SameReports
    <3>. QED BY <2>1, <2>5, <2>7, <3>2, <3>3 DEF Ends
  <2>. QED BY <1>4, <1>7, <2>8, <2>9
<1>. QED BY <1>6, <1>7

\* c, begun where t ended, is ready for the next call.
LEMMA ClosedKeeps ==
    ASSUME NEW t, NEW A, NEW p, NEW Stray, Settled(t, A, p, Stray),
           NEW c, Rec(c), c.error = "none", c.released = {}, c.touched = {}, c.emptied = {},
           c.seen \subseteq Ref, c.seenRoots \subseteq Root, c.roots \subseteq Root,
           c.sightings = t.sightings, c.overlaps = t.overlaps, c.items = t.items,
           c.instances = t.instances, c.next = t.next, c.evidence = t.evidence,
           c.locks = t.locks, c.coverage = t.coverage, c.work \subseteq DOMAIN t.instances
    PROVE  Core(c, A, p, Stray)
<1>1. Typed(c)
  BY DEF Settled, Sound, Typed
<1>2. Linked(c) /\ Held(c) /\ Apart(c)
  BY DEF Settled, Sound, Linked, Held, Apart
<1>3. Sourced(c, A)
  BY DEF Settled, Sound, Sourced, ReportsAt
<1>4. \A k \in DOMAIN c.items : Ownerless(c, k) <=> Ownerless(t, k)
  BY DEF Ownerless
<1>5. \A k \in DOMAIN c.items : GradedAt(c, p, k) <=> GradedAt(t, p, k)
  BY DEF GradedAt, ItemEvidence
<1>6. Unheld(c)
  BY DEF Settled, Sound, Unheld, ReportsAt
<1>7. Refused(c, A)
  BY <1>4 DEF Settled, Sound, Refused
<1>8. Graded(c, p, Stray)
  BY <1>4, <1>5 DEF Settled, Sound, Graded
<1>. QED BY <1>1, <1>2, <1>3, <1>6, <1>7, <1>8 DEF Core

\* A transaction that has done nothing has nothing to settle.
LEMMA BegunSettled ==
    ASSUME NEW t, NEW A, NEW p, NEW Stray, Core(t, A, p, Stray), t.released = {}, t.touched = {}, t.emptied = {}
    PROVE  Settled(t, A, p, Stray)
<1>1. Sound(t, A, p, Stray, {}, t.touched)
  <2>1. \A k \in (t.released \intersect DOMAIN t.items) \ {} :
            t.items[k].inst = NoInst => t.items[k].ref \in Heirs(t, k)
    OBVIOUS
  <2>. QED BY <2>1, SoundUntilSettled
<1>. QED BY <1>1 DEF Settled, Core, Sourced

\* u has the videos of t, those of the sources of R without an owner.
Shed(t, u, R) ==
    /\ u.pinned = t.pinned /\ u.next = t.next
    /\ DOMAIN u.instances = DOMAIN t.instances
    /\ \A i \in DOMAIN t.instances :
          /\ u.instances[i].path = t.instances[i].path
          /\ u.instances[i].items = t.instances[i].items
          /\ u.instances[i].owner =
                IF t.instances[i].owner \in R THEN NoOwner ELSE t.instances[i].owner

\* u is t without what the sources of R reported.
Leaves(t, u, R) ==
    /\ Rec(u) /\ Shed(t, u, R) /\ SameGrades(t, u)
    /\ IsTable(u.instances, 1 .. t.next, Video)
    /\ u.evidence = t.evidence /\ u.work = t.work /\ u.items = t.items /\ u.error = t.error
    /\ u.released = t.released /\ u.touched = t.touched /\ u.emptied = t.emptied
    /\ u.roots \subseteq t.roots /\ u.seenRoots \subseteq t.seenRoots /\ u.seen \subseteq t.seen
    /\ Fewer(t, u)
    /\ IsTable(u.sightings, Ref, Sighting) /\ IsTable(u.overlaps, Ref, Refusal)
    /\ DOMAIN u.sightings = {ref \in DOMAIN t.sightings : SourceOfRef(ref) \notin R}
    /\ \A ref \in DOMAIN u.sightings : u.sightings[ref] = t.sightings[ref]
    /\ DOMAIN u.overlaps = {ref \in DOMAIN t.overlaps : SourceOfRef(ref) \notin R}
    /\ \A ref \in DOMAIN u.overlaps : u.overlaps[ref] = t.overlaps[ref]

\* The keys the sources of R provide with no video.
Orphaned(t, R) ==
    {k \in DOMAIN t.items : t.items[k].inst = NoInst /\ SourceOfRef(t.items[k].ref) \in R}

\* When sources leave, their videos are ownerless and what stays is sound but for
\* the keys they provided with no video.
LEMMA LeavesSound ==
    ASSUME NEW t, NEW A, A \subseteq Source, NEW p, NEW Stray, NEW T, Sound(t, A, p, Stray, {}, T),
           NEW S, NEW R, R = A \ S, NEW u, Leaves(t, u, R), NEW L, L = Orphaned(t, R)
    PROVE  /\ Sound(u, A \union S, p, Stray, L, T \union L)
           /\ \A i \in DOMAIN u.instances : u.instances[i].owner \notin R
<1>1. /\ DOMAIN u.instances = DOMAIN t.instances
      /\ u.items = t.items /\ u.evidence = t.evidence /\ u.next = t.next
      /\ u.emptied = t.emptied /\ u.released = t.released /\ u.touched = t.touched
      /\ \A i \in DOMAIN t.instances :
            /\ u.instances[i].path = t.instances[i].path
            /\ u.instances[i].items = t.instances[i].items
            /\ u.instances[i].owner =
                  IF t.instances[i].owner \in R THEN NoOwner ELSE t.instances[i].owner
  BY DEF Leaves, Shed
<1>2. \A i \in DOMAIN t.instances :
          /\ u.instances[i].owner # NoOwner =>
                u.instances[i].owner = t.instances[i].owner /\ t.instances[i].owner \notin R
          /\ t.instances[i].owner = NoOwner => u.instances[i].owner = NoOwner
  BY <1>1
<1>3. /\ DOMAIN u.sightings = {ref \in DOMAIN t.sightings : SourceOfRef(ref) \notin R}
      /\ \A ref \in DOMAIN u.sightings : u.sightings[ref] = t.sightings[ref]
  BY DEF Leaves
<1>4. \A ref, k, path : ReportsAt(t, ref, k, path) /\ SourceOfRef(ref) \notin R
                            => ReportsAt(u, ref, k, path)
  BY <1>3 DEF ReportsAt
<1>5. Typed(u)
  BY <1>1 DEF Leaves, SameGrades, Sound, Typed
<1>6. Linked(u) /\ Apart(u)
  BY <1>1 DEF Sound, Linked, Apart
<1>7. Held(u)
  BY <1>1, <1>2 DEF Sound, Held
<1>8. Sourced(u, A \union S)
  BY <1>1, <1>2, <1>4 DEF Sound, Sourced
<1>9. \A k \in DOMAIN u.items \ L :
          u.items[k].inst = NoInst => ReportsAt(u, u.items[k].ref, k, NoPath)
  BY <1>1, <1>4 DEF Sound, Orphaned
<1>10. \A k \in DOMAIN t.items : Ownerless(t, k) => Ownerless(u, k)
  BY <1>1, <1>2 DEF Ownerless, Sound, Linked
<1>11. \A ref \in DOMAIN u.overlaps :
          /\ u.overlaps[ref].owner \in A \union S /\ u.overlaps[ref].owner # SourceOfRef(ref)
          /\ ref \in DOMAIN u.sightings
          /\ u.sightings[ref].key # NoKey /\ u.sightings[ref].path # NoPath
          /\ \A k \in DOMAIN u.items \ L :
                u.items[k].ref = ref /\ u.sightings[ref].key = k => Ownerless(u, k)
  <2>1. /\ DOMAIN u.overlaps = {ref \in DOMAIN t.overlaps : SourceOfRef(ref) \notin R}
        /\ \A ref \in DOMAIN u.overlaps : u.overlaps[ref] = t.overlaps[ref]
    BY DEF Leaves
  <2>2. SUFFICES ASSUME NEW ref \in DOMAIN u.overlaps
                 PROVE  /\ u.overlaps[ref].owner \in A \union S
                        /\ u.overlaps[ref].owner # SourceOfRef(ref)
                        /\ ref \in DOMAIN u.sightings
                        /\ u.sightings[ref].key # NoKey /\ u.sightings[ref].path # NoPath
                        /\ \A k \in DOMAIN u.items \ L :
                              u.items[k].ref = ref /\ u.sightings[ref].key = k => Ownerless(u, k)
    OBVIOUS
  <2>3. ref \in DOMAIN t.overlaps /\ u.overlaps[ref] = t.overlaps[ref] /\ SourceOfRef(ref) \notin R
    BY <2>1
  <2>4. ref \in DOMAIN t.sightings
    BY <2>3 DEF Sound
  <2>5. ref \in DOMAIN u.sightings /\ u.sightings[ref] = t.sightings[ref]
    BY <1>3, <2>3, <2>4
  <2>6. u.overlaps[ref].owner \in A /\ u.overlaps[ref].owner # SourceOfRef(ref)
    BY <2>3 DEF Sound
  <2>7. u.sightings[ref].key # NoKey /\ u.sightings[ref].path # NoPath
    BY <2>3, <2>5 DEF Sound
  <2>8. \A k \in DOMAIN u.items :
            u.items[k].ref = ref /\ u.sightings[ref].key = k => Ownerless(u, k)
    BY <1>1, <1>10, <2>3, <2>5 DEF Sound
  <2>. QED BY <2>5, <2>6, <2>7, <2>8
<1>12. /\ DOMAIN u.coverage \subseteq DOMAIN u.items
       /\ \A k \in Key \ DOMAIN u.items : u.locks[k] \subseteq Stray[k]
  BY <1>1 DEF Leaves, SameGrades, Sound
<1>13. ASSUME NEW k \in DOMAIN u.items \ (T \union L), ~Ownerless(u, k)
       PROVE  GradedAt(u, p, k)
  <2>1. k \in DOMAIN t.items \ T /\ k \notin L /\ ~Ownerless(t, k)
    BY <1>1, <1>10, <1>13
  <2>2. GradedAt(t, p, k)
    BY <2>1 DEF Sound
  <2>3. ItemEvidence(u, k) = ItemEvidence(t, k)
    BY <1>1 DEF ItemEvidence
  <2>4. SourceOfRef(t.items[k].ref) \notin R /\ t.items[k].ref \in DOMAIN t.sightings
    <3>1. CASE t.items[k].inst = NoInst
      BY <2>1, <3>1 DEF Sound, ReportsAt, Orphaned
    <3>2. CASE t.items[k].inst # NoInst
      <4>1. t.items[k].inst \in DOMAIN t.instances /\ k \in t.instances[t.items[k].inst].items
        BY <2>1, <3>2 DEF Sound, Linked
      <4>2. u.instances[t.items[k].inst].owner # NoOwner
        BY <1>1, <1>13, <3>2 DEF Ownerless
      <4>. QED BY <1>2, <4>1, <4>2 DEF Sound, Sourced, ReportsAt
    <3>. QED BY <3>1, <3>2
  <2>5. u.sightings[t.items[k].ref] = t.sightings[t.items[k].ref]
    BY <1>3, <2>4
  <2>. QED BY <1>1, <2>2, <2>3, <2>5 DEF GradedAt, Leaves, SameGrades
<1>14. \A i \in DOMAIN u.instances : u.instances[i].owner \notin R
  <2>1. NoOwner \notin R
    BY NamesAssumption
  <2>. QED BY <1>1, <2>1
<1>. QED BY ONLY <1>5, <1>6, <1>7, <1>8, <1>9, <1>11, <1>12, <1>13, <1>14 DEF Sound

\* The rows that leave with the sources of R.
LEMMA LeavesFields ==
    ASSUME NEW t, Typed(t), NEW R, NEW G, G = {ref \in Ref : SourceOfRef(ref) \in R},
           NEW u,
           u = [t EXCEPT
                 !.roots = {r \in @ : SourceOf[r] \notin R},
                 !.sightings = Drop(@, G),
                 !.overlaps = Drop(@, G),
                 !.seenRoots = {r \in @ : SourceOf[r] \notin R},
                 !.seen = {ref \in @ : SourceOfRef(ref) \notin R},
                 !.instances = [i \in DOMAIN t.instances |->
                     IF t.instances[i].owner \in R
                     THEN [t.instances[i] EXCEPT !.owner = NoOwner]
                     ELSE t.instances[i]]]
    PROVE  Leaves(t, u, R)
<1>1. PICK Q : Q = {r \in t.roots : SourceOf[r] \notin R}
  OBVIOUS
<1>2. PICK S : S = {r \in t.seenRoots : SourceOf[r] \notin R}
  OBVIOUS
<1>3. PICK N : N = {ref \in t.seen : SourceOfRef(ref) \notin R}
  OBVIOUS
<1>4. PICK f : f = [i \in DOMAIN t.instances |->
                     IF t.instances[i].owner \in R
                     THEN [t.instances[i] EXCEPT !.owner = NoOwner]
                     ELSE t.instances[i]]
  OBVIOUS
<1>5. PICK W : W = Drop(t.sightings, G)
  OBVIOUS
<1>6. PICK O : O = Drop(t.overlaps, G)
  OBVIOUS
<1>7. u = [t EXCEPT !.roots = Q, !.sightings = W, !.overlaps = O, !.seenRoots = S,
                    !.seen = N, !.instances = f]
  BY <1>1, <1>2, <1>3, <1>4, <1>5, <1>6
<1>8. /\ Rec(u) /\ u.pinned = t.pinned /\ u.next = t.next /\ SameGrades(t, u)
      /\ u.instances = f /\ u.sightings = W /\ u.overlaps = O
      /\ u.roots = Q /\ u.seenRoots = S /\ u.seen = N
      /\ u.evidence = t.evidence /\ u.work = t.work /\ u.items = t.items /\ u.error = t.error
      /\ u.released = t.released /\ u.touched = t.touched /\ u.emptied = t.emptied
  <2>1. Rec(t)
    BY DEF Typed
  <2>. QED BY ONLY <1>7, <2>1 DEF Rec, SameGrades
<1>9. /\ DOMAIN f = DOMAIN t.instances /\ f = [i \in DOMAIN f |-> f[i]]
      /\ \A i \in DOMAIN t.instances :
            f[i] = IF t.instances[i].owner \in R
                   THEN [t.instances[i] EXCEPT !.owner = NoOwner] ELSE t.instances[i]
  BY <1>4
<1>10. \A i \in DOMAIN t.instances :
          /\ f[i] \in Video
          /\ f[i].path = t.instances[i].path /\ f[i].items = t.instances[i].items
          /\ f[i].owner = IF t.instances[i].owner \in R THEN NoOwner ELSE t.instances[i].owner
  <2>1. SUFFICES ASSUME NEW i \in DOMAIN t.instances
                 PROVE  /\ f[i] \in Video
                        /\ f[i].path = t.instances[i].path /\ f[i].items = t.instances[i].items
                        /\ f[i].owner = IF t.instances[i].owner \in R THEN NoOwner
                                        ELSE t.instances[i].owner
    OBVIOUS
  <2>2. PICK x : x = t.instances[i]
    OBVIOUS
  <2>3. x \in Video
    BY <2>2 DEF Typed, IsTable
  <2>4. f[i] = IF x.owner \in R THEN [x EXCEPT !.owner = NoOwner] ELSE x
    BY <1>9, <2>2
  <2>5. /\ f[i] \in Video /\ f[i].path = x.path /\ f[i].items = x.items
        /\ f[i].owner = IF x.owner \in R THEN NoOwner ELSE x.owner
    BY ONLY <2>3, <2>4 DEF Video
  <2>. QED BY <2>2, <2>5
<1>11. IsTable(f, 1 .. t.next, Video)
  BY <1>9, <1>10 DEF Typed, IsTable
<1>12. Shed(t, u, R)
  BY <1>8, <1>9, <1>10 DEF Shed
<1>13. /\ IsTable(W, Ref, Sighting)
       /\ DOMAIN W = {ref \in DOMAIN t.sightings : SourceOfRef(ref) \notin R}
       /\ \A ref \in DOMAIN W : W[ref] = t.sightings[ref]
  <2>1. IsTable(t.sightings, Ref, Sighting)
    BY DEF Typed
  <2>2. /\ IsTable(Drop(t.sightings, G), Ref, Sighting)
        /\ DOMAIN Drop(t.sightings, G) = DOMAIN t.sightings \ G
        /\ \A x \in DOMAIN t.sightings \ G : Drop(t.sightings, G)[x] = t.sightings[x]
    BY ONLY <2>1, DropIsTable, Zenon
  <2>3. DOMAIN t.sightings \ G = {ref \in DOMAIN t.sightings : SourceOfRef(ref) \notin R}
    BY <2>1 DEF IsTable
  <2>. QED BY <1>5, <2>2, <2>3
<1>14. /\ IsTable(O, Ref, Refusal)
       /\ DOMAIN O = {ref \in DOMAIN t.overlaps : SourceOfRef(ref) \notin R}
       /\ \A ref \in DOMAIN O : O[ref] = t.overlaps[ref]
  <2>1. IsTable(t.overlaps, Ref, Refusal)
    BY DEF Typed
  <2>2. /\ IsTable(Drop(t.overlaps, G), Ref, Refusal)
        /\ DOMAIN Drop(t.overlaps, G) = DOMAIN t.overlaps \ G
        /\ \A x \in DOMAIN t.overlaps \ G : Drop(t.overlaps, G)[x] = t.overlaps[x]
    BY ONLY <2>1, DropIsTable, Zenon
  <2>3. DOMAIN t.overlaps \ G = {ref \in DOMAIN t.overlaps : SourceOfRef(ref) \notin R}
    BY <2>1 DEF IsTable
  <2>. QED BY <1>6, <2>2, <2>3
<1>15. Q \subseteq t.roots /\ S \subseteq t.seenRoots /\ N \subseteq t.seen
  BY <1>1, <1>2, <1>3
<1>16. Fewer(t, u)
  <2>1. u.seenRoots = S /\ u.seen = N /\ u.sightings = W
    BY <1>8
  <2>. QED BY ONLY <1>2, <1>3, <1>13, <2>1 DEF Fewer, SourceOfRef
<1>. QED BY <1>8, <1>11, <1>12, <1>13, <1>14, <1>15, <1>16 DEF Leaves

\* Removing sources ends settled, and strips exactly their videos of an owner.
LEMMA RemovedKeeps ==
    ASSUME NEW t, NEW A, A \subseteq Source, NEW p, NEW Stray, NEW T, Sound(t, A, p, Stray, {}, T),
           NEW S, S \subseteq Source, NEW R, R = A \ S, NEW z, z = Removed(t, p, R)
    PROVE  Sound(z, S, p, Stray, {}, T) /\ Shed(t, z, R) /\ Fewer(t, z)
<1>1. PICK G : G = {ref \in Ref : SourceOfRef(ref) \in R}
  OBVIOUS
<1>2. PICK u :
        u = [t EXCEPT
              !.roots = {r \in @ : SourceOf[r] \notin R},
              !.sightings = Drop(@, G),
              !.overlaps = Drop(@, G),
              !.seenRoots = {r \in @ : SourceOf[r] \notin R},
              !.seen = {ref \in @ : SourceOfRef(ref) \notin R},
              !.instances = [i \in DOMAIN t.instances |->
                  IF t.instances[i].owner \in R
                  THEN [t.instances[i] EXCEPT !.owner = NoOwner]
                  ELSE t.instances[i]]]
  OBVIOUS
<1>3. PICK L : L = Orphaned(u, R)
  OBVIOUS
<1>4. PICK v : v = HandOn(u, p, L)
  OBVIOUS
<1>5. PICK D : D = {ref \in DOMAIN v.overlaps : v.overlaps[ref].owner \in R}
  OBVIOUS
<1>6. z = [v EXCEPT !.overlaps = Drop(@, D)]
  BY <1>1, <1>2, <1>3, <1>4, <1>5, Zenon DEF Removed, Orphaned
<1>7. Leaves(t, u, R)
  <2>1. Typed(t)
    BY DEF Sound
  <2>. QED BY ONLY <1>1, <1>2, <2>1, LeavesFields
<1>8. L = Orphaned(t, R)
  BY <1>3, <1>7 DEF Leaves, Orphaned
<1>9. /\ Sound(u, A \union S, p, Stray, L, T \union L)
      /\ \A i \in DOMAIN u.instances : u.instances[i].owner \notin R
  BY <1>7, <1>8, LeavesSound
<1>10. L \subseteq DOMAIN u.items /\ \A k \in L : u.items[k].inst = NoInst
  BY <1>3 DEF Orphaned
<1>11. /\ Sound(v, A \union S, p, Stray, {}, (T \union L) \ L)
       /\ SameReports(u, v) /\ SameVideos(u, v) /\ v.overlaps = u.overlaps
  <2>1. PICK B, X : B = A \union S /\ X = T \union L
    OBVIOUS
  <2>2. Sound(u, B, p, Stray, L, X) /\ L \subseteq X
    BY <1>9, <2>1
  <2>3. /\ Sound(v, B, p, Stray, {}, X \ L)
        /\ SameReports(u, v) /\ SameVideos(u, v) /\ v.overlaps = u.overlaps
    <3>2. Bare(u, L, X)
      BY <1>10, <2>2 DEF Bare
    <3>3. /\ Sound(v, B, p, Stray, {}, X \ L)
          /\ SameReports(u, v) /\ SameVideos(u, v)
          /\ v.overlaps = u.overlaps /\ v.emptied = u.emptied /\ v.attached = u.attached
          /\ v.released = u.released /\ v.touched = u.touched
      BY ONLY <1>4, <2>2, <3>2, HandOnKeeps
    <3>. QED BY <3>3
  <2>. QED BY <2>1, <2>3
<1>12. /\ Rec(z) /\ SameReports(v, z) /\ SameVideos(v, z) /\ SameGrades(v, z)
       /\ z.items = v.items /\ z.overlaps = Drop(v.overlaps, D) /\ z.error = v.error
       /\ z.released = v.released /\ z.touched = v.touched /\ z.emptied = v.emptied
  <2>1. Rec(v)
    BY <1>11 DEF Sound, Typed
  <2>. QED BY <1>6, <2>1 DEF Rec, SameReports, SameVideos, SameGrades
<1>13. /\ z.instances = v.instances /\ z.next = v.next /\ z.evidence = v.evidence
       /\ z.work = v.work /\ z.sightings = v.sightings /\ z.roots = v.roots
       /\ z.seenRoots = v.seenRoots /\ z.seen = v.seen /\ z.pinned = v.pinned
       /\ z.locks = v.locks /\ z.coverage = v.coverage
  BY <1>12 DEF SameReports, SameVideos, SameGrades
<1>14. Shed(t, z, R)
  <2>1. z.instances = u.instances /\ z.next = u.next /\ z.pinned = u.pinned
    BY ONLY <1>11, <1>13 DEF SameReports, SameVideos
  <2>2. Shed(t, u, R)
    BY <1>7 DEF Leaves
  <2>. QED BY ONLY <2>1, <2>2 DEF Shed
<1>15. /\ IsTable(z.overlaps, Ref, Refusal)
       /\ DOMAIN z.overlaps = DOMAIN v.overlaps \ D
       /\ \A ref \in DOMAIN z.overlaps : z.overlaps[ref] = v.overlaps[ref]
  <2>1. IsTable(v.overlaps, Ref, Refusal)
    BY <1>11 DEF Sound, Typed
  <2>2. /\ IsTable(Drop(v.overlaps, D), Ref, Refusal)
        /\ DOMAIN Drop(v.overlaps, D) = DOMAIN v.overlaps \ D
        /\ \A x \in DOMAIN v.overlaps \ D : Drop(v.overlaps, D)[x] = v.overlaps[x]
    BY ONLY <2>1, DropIsTable, Zenon
  <2>. QED BY <1>12, <2>2
<1>24. DOMAIN z.items \ {} = DOMAIN z.items /\ DOMAIN v.items \ {} = DOMAIN v.items
  OBVIOUS
<1>16. Typed(z)
  BY <1>11, <1>12, <1>13, <1>15 DEF Sound, Typed
<1>17. Linked(z) /\ Held(z) /\ Apart(z)
  BY ONLY <1>11, <1>12, <1>13 DEF Sound, Linked, Held, Apart
<1>18. Sourced(z, S)
  <2>1. \A i \in DOMAIN z.instances : z.instances[i].owner \notin R
    BY <1>9, <1>11, <1>13 DEF SameVideos
  <2>2. \A i \in DOMAIN z.instances : z.instances[i].owner # NoOwner => z.instances[i].owner \in S
    BY <1>11, <1>13, <2>1 DEF Sound, Sourced
  <2>3. Sourced(v, A \union S)
    BY <1>11 DEF Sound
  <2>. QED BY ONLY <1>12, <1>13, <2>2, <2>3 DEF Sourced, ReportsAt
<1>19. \A k \in DOMAIN z.items : z.items[k].inst = NoInst => ReportsAt(z, z.items[k].ref, k, NoPath)
  BY <1>11, <1>12, <1>13 DEF Sound, ReportsAt
<1>20. \A k \in DOMAIN z.items : Ownerless(z, k) <=> Ownerless(v, k)
  BY <1>12, <1>13 DEF Ownerless
<1>21. \A ref \in DOMAIN z.overlaps :
          /\ z.overlaps[ref].owner \in S /\ z.overlaps[ref].owner # SourceOfRef(ref)
          /\ ref \in DOMAIN z.sightings
          /\ z.sightings[ref].key # NoKey /\ z.sightings[ref].path # NoPath
          /\ \A k \in DOMAIN z.items :
                z.items[k].ref = ref /\ z.sightings[ref].key = k => Ownerless(z, k)
  <2>1. \A ref \in DOMAIN z.overlaps : z.overlaps[ref].owner \in S
    BY <1>5, <1>11, <1>15 DEF Sound
  <2>2. \A ref \in DOMAIN v.overlaps :
            /\ v.overlaps[ref].owner # SourceOfRef(ref)
            /\ ref \in DOMAIN v.sightings
            /\ v.sightings[ref].key # NoKey /\ v.sightings[ref].path # NoPath
            /\ \A k \in DOMAIN v.items :
                  v.items[k].ref = ref /\ v.sightings[ref].key = k => Ownerless(v, k)
    BY ONLY <1>11, <1>24 DEF Sound
  <2>. QED BY ONLY <1>12, <1>13, <1>15, <1>20, <2>1, <2>2
<1>22. \A k \in DOMAIN z.items \ T : ~Ownerless(z, k) => GradedAt(z, p, k)
  <2>1. \A k \in DOMAIN z.items : GradedAt(z, p, k) <=> GradedAt(v, p, k)
    BY <1>12, <1>13 DEF GradedAt, ItemEvidence
  <2>. QED BY <1>11, <1>12, <1>20, <2>1 DEF Sound
<1>23. /\ DOMAIN z.coverage \subseteq DOMAIN z.items
       /\ \A k \in Key \ DOMAIN z.items : z.locks[k] \subseteq Stray[k]
  BY <1>11, <1>12, <1>13 DEF Sound
<1>25. Fewer(t, z)
  <2>1. z.sightings = u.sightings /\ z.seen = u.seen /\ z.seenRoots = u.seenRoots
    BY ONLY <1>11, <1>13 DEF SameReports
  <2>2. Fewer(t, u)
    BY <1>7 DEF Leaves
  <2>. QED BY ONLY <2>1, <2>2 DEF Fewer
<1>. QED BY ONLY <1>14, <1>16, <1>17, <1>18, <1>19, <1>21, <1>22, <1>23, <1>24, <1>25 DEF Sound

\* u is t with the evidence of video i replaced and the locks of its items set,
\* those of the items with no record within Left.
Weighed(t, u, i, Left) ==
    \E ev \in SUBSET Sub, ls \in [Key -> SUBSET Pair] :
        /\ \A k \in Key \ t.instances[i].items : ls[k] = t.locks[k]
        /\ \A k \in Key \ DOMAIN t.items : ls[k] \subseteq Left[k]
        /\ u = [t EXCEPT !.locks = ls, !.evidence = Put(@, i, ev)]

\* New evidence of a video, and new locks of its items, ask for its items
\* alone.
LEMMA EvidenceSound ==
    ASSUME NEW t, NEW A, NEW p, NEW Stray, Settled(t, A, p, Stray), NEW i \in DOMAIN t.instances,
           NEW Left, NEW u, Weighed(t, u, i, Left)
    PROVE  /\ Sound(u, A, p, Left, {}, t.instances[i].items)
           /\ u.instances = t.instances /\ u.next = t.next /\ u.pinned = t.pinned
           /\ u.emptied = t.emptied
<1>. SUFFICES ASSUME NEW ev \in SUBSET Sub, NEW ls \in [Key -> SUBSET Pair],
                     \A k \in Key \ t.instances[i].items : ls[k] = t.locks[k],
                     \A k \in Key \ DOMAIN t.items : ls[k] \subseteq Left[k],
                     u = [t EXCEPT !.locks = ls, !.evidence = Put(@, i, ev)]
              PROVE  /\ Sound(u, A, p, Left, {}, t.instances[i].items)
                     /\ u.instances = t.instances /\ u.next = t.next /\ u.pinned = t.pinned
                     /\ u.emptied = t.emptied
  BY DEF Weighed
<1>1. Rec(t)
  BY DEF Settled, Sound, Typed
<1>2. /\ Rec(u) /\ SameReports(t, u) /\ u.locks = ls /\ u.coverage = t.coverage
      /\ u.overlaps = t.overlaps /\ u.items = t.items /\ u.error = t.error
      /\ u.instances = t.instances /\ u.next = t.next /\ u.work = t.work
      /\ u.evidence = Put(t.evidence, i, ev)
      /\ u.released = t.released /\ u.touched = t.touched /\ u.emptied = t.emptied
  BY <1>1 DEF Rec, SameReports
<1>3. /\ IsTable(u.evidence, DOMAIN u.instances, SUBSET Sub)
      /\ DOMAIN u.evidence = DOMAIN u.instances
      /\ \A j \in DOMAIN t.evidence : j # i => u.evidence[j] = t.evidence[j]
  <2>1. IsTable(t.evidence, DOMAIN t.instances, SUBSET Sub) /\ DOMAIN t.evidence = DOMAIN t.instances
    BY DEF Settled, Sound, Typed
  <2>. QED BY <1>2, <2>1 DEF IsTable, Put
<1>4. /\ u.sightings = t.sightings /\ u.roots = t.roots /\ u.seenRoots = t.seenRoots
      /\ u.seen = t.seen /\ u.pinned = t.pinned
  BY <1>2 DEF SameReports
<1>5. Typed(u)
  BY <1>2, <1>3, <1>4 DEF Settled, Sound, Typed
<1>6. Linked(u) /\ Held(u) /\ Apart(u) /\ Sourced(u, A)
  BY <1>2, <1>4 DEF Settled, Sound, Linked, Held, Apart, Sourced, ReportsAt
<1>7. \A k \in DOMAIN u.items : Ownerless(u, k) <=> Ownerless(t, k)
  BY <1>2 DEF Ownerless
<1>8. ASSUME NEW k \in DOMAIN u.items \ t.instances[i].items, ~Ownerless(u, k)
      PROVE  GradedAt(u, p, k)
  <2>1. GradedAt(t, p, k)
    BY <1>2, <1>7, <1>8 DEF Settled, Sound
  <2>2. u.items[k].inst # NoInst => u.items[k].inst # i /\ u.items[k].inst \in DOMAIN t.evidence
    BY <1>2, <1>8 DEF Settled, Sound, Linked, Typed
  <2>3. ItemEvidence(u, k) = ItemEvidence(t, k)
    BY <1>2, <1>3, <2>2 DEF ItemEvidence
  <2>4. k \in Key
    BY <1>2 DEF Settled, Sound, Typed, IsTable
  <2>5. u.locks[k] = t.locks[k]
    BY <1>2, <1>8, <2>4
  <2>. QED BY <1>2, <1>4, <2>1, <2>3, <2>5 DEF GradedAt
<1>9. \A ref, k : ReportsAt(u, ref, k, NoPath) <=> ReportsAt(t, ref, k, NoPath)
  BY <1>4 DEF ReportsAt
<1>10. \A k \in Key \ DOMAIN u.items : u.locks[k] \subseteq Left[k]
  BY <1>2
<1>. QED BY <1>2, <1>4, <1>5, <1>6, <1>7, <1>8, <1>9, <1>10 DEF Settled, Sound

\* The thirty days of an ownerless video change nothing else.
LEMMA ElapseKeeps ==
    ASSUME NEW t, NEW A, NEW p, NEW Stray, Core(t, A, p, Stray), NEW i \in DOMAIN t.instances, NEW c, Rec(c),
           c.instances = [t.instances EXCEPT ![i].expired = TRUE],
           SameReports(t, c), SameGrades(t, c), c.overlaps = t.overlaps, c.items = t.items,
           c.next = t.next, c.evidence = t.evidence, c.work = t.work, c.error = t.error,
           c.released = t.released, c.touched = t.touched, c.emptied = t.emptied
    PROVE  Core(c, A, p, Stray)
<1>1. IsTable(t.instances, 1 .. t.next, Video)
  BY DEF Core, Typed
<1>2. /\ DOMAIN c.instances = DOMAIN t.instances
      /\ \A j \in DOMAIN t.instances :
            /\ c.instances[j] \in Video
            /\ c.instances[j].owner = t.instances[j].owner
            /\ c.instances[j].path = t.instances[j].path
            /\ c.instances[j].items = t.instances[j].items
  <2>1. DOMAIN c.instances = DOMAIN t.instances
    OBVIOUS
  <2>2. SUFFICES ASSUME NEW j \in DOMAIN t.instances
                 PROVE  /\ c.instances[j] \in Video
                        /\ c.instances[j].owner = t.instances[j].owner
                        /\ c.instances[j].path = t.instances[j].path
                        /\ c.instances[j].items = t.instances[j].items
    BY <2>1
  <2>3. PICK x : x = t.instances[j]
    OBVIOUS
  <2>4. x \in Video
    BY <1>1, <2>3 DEF IsTable
  <2>5. c.instances[j] = x \/ c.instances[j] = [x EXCEPT !.expired = TRUE]
    BY <2>3
  <2>6. /\ c.instances[j] \in Video
        /\ c.instances[j].owner = x.owner
        /\ c.instances[j].path = x.path
        /\ c.instances[j].items = x.items
    BY ONLY <2>4, <2>5 DEF Video
  <2>. QED BY <2>3, <2>6
<1>3. IsTable(c.instances, 1 .. t.next, Video)
  BY <1>1, <1>2 DEF IsTable
<1>4. /\ c.sightings = t.sightings /\ c.roots = t.roots /\ c.seenRoots = t.seenRoots
      /\ c.seen = t.seen /\ c.locks = t.locks /\ c.coverage = t.coverage
  BY DEF SameReports, SameGrades
<1>5. Typed(c)
  <2>1. Typed(t)
    BY DEF Core
  <2>. QED BY ONLY Rec(c), <1>2, <1>3, <1>4, <2>1, c.overlaps = t.overlaps, c.items = t.items,
              c.next = t.next, c.evidence = t.evidence, c.work = t.work, c.error = t.error,
              c.released = t.released, c.touched = t.touched
           DEF Typed
<1>6. Linked(c) /\ Held(c) /\ Apart(c)
  BY ONLY Core(t, A, p, Stray), <1>2, c.items = t.items DEF Core, Linked, Held, Apart
<1>7. Sourced(c, A)
  BY ONLY Core(t, A, p, Stray), <1>2, <1>4, c.items = t.items, c.emptied = t.emptied
     DEF Core, Sourced, ReportsAt
<1>8. \A k \in DOMAIN c.items : Ownerless(c, k) <=> Ownerless(t, k)
  BY ONLY Core(t, A, p, Stray), <1>2, c.items = t.items DEF Core, Linked, Ownerless
<1>9. \A k \in DOMAIN c.items : GradedAt(c, p, k) <=> GradedAt(t, p, k)
  BY <1>4 DEF GradedAt, ItemEvidence
<1>10. Unheld(c)
  BY <1>4 DEF Core, Unheld, ReportsAt
<1>11. Refused(c, A)
  BY <1>4, <1>8 DEF Core, Refused
<1>12. Graded(c, p, Stray)
  BY <1>4, <1>8, <1>9 DEF Core, Graded
<1>. QED BY <1>5, <1>6, <1>7, <1>10, <1>11, <1>12 DEF Core

\* Locks on wanted pairs of recorded items keep Core.
LEMMA LockKeeps ==
    ASSUME NEW t, NEW A, NEW p \in Policy, NEW Stray, Core(t, A, p, Stray), t.touched = {}, NEW c, Rec(c),
           c.instances = t.instances, SameReports(t, c), c.overlaps = t.overlaps,
           c.items = t.items, c.coverage = t.coverage,
           c.next = t.next, c.evidence = t.evidence, c.work = t.work, c.error = t.error,
           c.released = t.released, c.touched = t.touched, c.emptied = t.emptied,
           c.locks \in [Key -> SUBSET Pair],
           \A k \in Key : \/ c.locks[k] \subseteq t.locks[k]
                         \/ /\ k \in DOMAIN t.items
                            /\ c.locks[k] \subseteq
                                  t.locks[k] \union Wants[p][t.sightings[t.items[k].ref].lang]
    PROVE  Core(c, A, p, Stray)
<1>1. /\ c.sightings = t.sightings /\ c.roots = t.roots /\ c.seenRoots = t.seenRoots
      /\ c.seen = t.seen
  BY DEF SameReports
<1>2. Typed(c)
  BY <1>1 DEF Core, Typed
<1>3. Linked(c) /\ Held(c) /\ Apart(c)
  BY DEF Core, Linked, Held, Apart
<1>4. Sourced(c, A) /\ Unheld(c)
  <2>1. Sourced(t, A) /\ Unheld(t)
    BY DEF Core
  <2>2. Sourced(c, A)
    BY ONLY <1>1, <2>1, c.instances = t.instances, c.items = t.items, c.emptied = t.emptied
       DEF Sourced, ReportsAt
  <2>3. Unheld(c)
    BY ONLY <1>1, <2>1, c.items = t.items, c.released = t.released DEF Unheld, ReportsAt
  <2>. QED BY <2>2, <2>3
<1>5. \A k \in DOMAIN c.items : Ownerless(c, k) <=> Ownerless(t, k)
  BY DEF Ownerless
<1>6. Refused(c, A)
  BY <1>1, <1>5 DEF Core, Refused
<1>7. \A k \in DOMAIN c.items : k \in Key
  BY <1>2 DEF Typed, IsTable
<1>8. ASSUME NEW k \in DOMAIN c.items, ~Ownerless(c, k) PROVE GradedAt(c, p, k)
  <2>1. GradedAt(t, p, k)
    BY <1>5, <1>8 DEF Core, Graded
  <2>2. ItemEvidence(c, k) = ItemEvidence(t, k)
    BY DEF ItemEvidence
  <2>3. c.locks[k] \subseteq Wants[p][t.sightings[t.items[k].ref].lang]
    BY <1>7, <2>1 DEF GradedAt
  <2>. QED BY <1>1, <2>1, <2>2, <2>3 DEF GradedAt
<1>9. Graded(c, p, Stray)
  BY <1>8 DEF Core, Graded
<1>. QED BY <1>2, <1>3, <1>4, <1>6, <1>9 DEF Core

---------------------------------------------------------------------------
(* Steps                                                                   *)

\* What a step owes to the pinned videos, and to the owners.
Pins ==
    \A i \in pinned \intersect pinned' :
        /\ i \in DOMAIN instances'
        /\ instances'[i].items = instances[i].items
        /\ instances'[i].path = instances[i].path

\* No owner changes but to none, for a source that left.
Owners ==
    \A i \in DOMAIN instances \intersect DOMAIN instances' :
        instances[i].owner \notin {NoOwner, instances'[i].owner} =>
            /\ instances'[i].owner = NoOwner
            /\ instances[i].owner \notin active'

\* No renumbering of an item moves its video out of the store.
Renumbered ==
    \A i \in DOMAIN instances : \A k \in instances[i].items :
        LET ref == items[k].ref IN
        /\ instances[i].owner # NoOwner
        /\ ref \in DOMAIN sightings'
        /\ sightings'[ref].path = instances[i].path
        /\ sightings'[ref].key \notin {NoKey, k}
        /\ ref \notin DOMAIN overlaps'
        /\ RootOf[ref] \notin seenRoots
        => i \in DOMAIN instances'

\* A step that stores no report: sightings and stamps only go, and the stamp of
\* a root goes with those of its refs.
Fading ==
    /\ \A ref \in DOMAIN sightings' :
          ref \in DOMAIN sightings /\ sightings'[ref] = sightings[ref]
    /\ \A ref \in seen' :
          ref \in seen /\ (RootOf[ref] \in seenRoots => RootOf[ref] \in seenRoots')

\* A call begins with the stored tables.
LEMMA BegunFields ==
    ASSUME NEW b, b = Begun
    PROVE  /\ Rec(b) /\ b.error = "none"
           /\ b.released = {} /\ b.touched = {} /\ b.emptied = {}
           /\ b.sightings = sightings /\ b.roots = roots /\ b.seenRoots = seenRoots
           /\ b.seen = seen /\ b.overlaps = overlaps /\ b.items = items
           /\ b.instances = instances /\ b.next = next /\ b.evidence = evidence
           /\ b.locks = locks /\ b.coverage = coverage /\ b.work = work
           /\ b.pinned = pinned
BY DEF Begun, Rec

\* The next call begins with the tables this one stored.
LEMMA NextFields ==
    ASSUME NEW c, c = Begun'
    PROVE  /\ Rec(c) /\ c.error = "none"
           /\ c.released = {} /\ c.touched = {} /\ c.emptied = {}
           /\ c.sightings = sightings' /\ c.roots = roots' /\ c.seenRoots = seenRoots'
           /\ c.seen = seen' /\ c.overlaps = overlaps' /\ c.items = items'
           /\ c.instances = instances' /\ c.next = next' /\ c.evidence = evidence'
           /\ c.locks = locks' /\ c.coverage = coverage' /\ c.work = work'
           /\ c.pinned = pinned'
BY DEF Begun, Rec

\* The invariant, read as what the operators of a call start from.
LEMMA BegunReady ==
    ASSUME NEW b, b = Begun, IInv
    PROVE  /\ Core(b, active, policy, Strays) /\ Kept(b, b) /\ Settled(b, active, policy, Strays)
<1>1. Core(b, active, policy, Strays)
  BY DEF IInv
<1>2. /\ b.emptied = {} /\ b.released = {} /\ b.touched = {}
      /\ b.pinned = pinned /\ b.instances = instances
  BY BegunFields
<1>3. Kept(b, b)
  <2>1. b.next \in Nat /\ DOMAIN b.instances \subseteq 1 .. b.next
    BY <1>1 DEF Core, Typed, IsTable
  <2>2. pinned \subseteq DOMAIN instances
    BY DEF IInv
  <2>. QED BY <1>2, <2>1, <2>2 DEF Kept
<1>4. Settled(b, active, policy, Strays)
  BY <1>1, <1>2, BegunSettled
<1>. QED BY <1>1, <1>3, <1>4

\* A step that stores no report renumbers nothing.
LEMMA FadingKeeps ==
    ASSUME IInv, Fading
    PROVE  RootsStamped' /\ Renumbered
<1>1. RootsStamped'
  BY DEF IInv, RootsStamped, Fading
<1>2. PICK b : b = Begun
  OBVIOUS
<1>3. Sourced(b, active) /\ b.instances = instances /\ b.items = items /\ b.sightings = sightings
  BY <1>2, BegunReady, BegunFields DEF Core
<1>4. ASSUME NEW i \in DOMAIN instances, NEW k \in instances[i].items,
             instances[i].owner # NoOwner, items[k].ref \in DOMAIN sightings'
      PROVE  sightings'[items[k].ref].key = k
  <2>1. sightings[items[k].ref].key = k
    BY <1>3, <1>4 DEF Sourced, ReportsAt
  <2>. QED BY <1>4, <2>1 DEF Fading
<1>. QED BY <1>1, <1>4 DEF Renumbered

\* Nor does the commit of a call that stored none.
LEMMA FewerFades ==
    ASSUME NEW b, b = Begun, NEW t, Fewer(b, t),
           sightings' = t.sightings, seen' = t.seen, seenRoots' = t.seenRoots
    PROVE  Fading
<1>1. b.sightings = sightings /\ b.seen = seen /\ b.seenRoots = seenRoots
  BY BegunFields
<1>. QED BY <1>1 DEF Fading, Fewer

\* The tables a call stored are sound with the locks it left astray, and those
\* were astray before it.
LEMMA OwnStrays ==
    ASSUME NEW c, c = Begun', NEW A, NEW p, NEW Stray, Core(c, A, p, Stray)
    PROVE  /\ Core(c, A, p, Strays')
           /\ \A k \in Key \ DOMAIN items' : locks'[k] \subseteq Stray[k]
<1>1. c.items = items' /\ c.locks = locks'
  BY NextFields
<1>2. PICK W : W = Strays'
  OBVIOUS
<1>3. \A k \in Key \ DOMAIN items' : W[k] = locks'[k]
  BY <1>2 DEF Strays
<1>4. Graded(c, p, Stray)
  BY DEF Core
<1>5. Graded(c, p, W)
  BY <1>1, <1>3, <1>4 DEF Graded
<1>6. \A k \in Key \ DOMAIN items' : locks'[k] \subseteq Stray[k]
  BY <1>1, <1>4 DEF Graded
<1>. QED BY <1>2, <1>5, <1>6 DEF Core

\* A call that begins with the locks astray leaves no other astray.
LEMMA StraysGo ==
    ASSUME NEW Stray, Stray = Strays, \A k \in Key \ DOMAIN items' : locks'[k] \subseteq Stray[k]
    PROVE  LocksGo
BY DEF Strays, LocksGo

\* A settled transaction is committed as it is: the call fails on no missing row.
LEMMA CommitKeeps ==
    ASSUME NEW A, NEW p, NEW Stray, NEW t, Settled(t, A, p, Stray), Commit(t)
    PROVE  /\ Core(Begun', A, p, Strays')
           /\ \A k \in Key \ DOMAIN items' : locks'[k] \subseteq Stray[k]
           /\ instances' = t.instances /\ next' = t.next /\ broken' = broken
           /\ sightings' = t.sightings /\ seen' = t.seen /\ seenRoots' = t.seenRoots
           /\ overlaps' = t.overlaps /\ items' = t.items
<1>1. t.error = "none"
  BY DEF Settled, Sound, Typed
<1>2. /\ sightings' = t.sightings /\ roots' = t.roots
      /\ seenRoots' = t.seenRoots /\ seen' = t.seen
      /\ overlaps' = t.overlaps /\ items' = t.items
      /\ instances' = t.instances /\ next' = t.next
      /\ evidence' = t.evidence /\ locks' = t.locks
      /\ coverage' = t.coverage /\ work' = t.work
      /\ broken' = broken
  BY <1>1 DEF Commit
<1>3. PICK c : c = Begun'
  OBVIOUS
<1>4. /\ Rec(c) /\ c.error = "none"
      /\ c.released = {} /\ c.touched = {} /\ c.emptied = {}
      /\ c.sightings = sightings' /\ c.roots = roots' /\ c.seenRoots = seenRoots'
      /\ c.seen = seen' /\ c.overlaps = overlaps' /\ c.items = items'
      /\ c.instances = instances' /\ c.next = next' /\ c.evidence = evidence'
      /\ c.locks = locks' /\ c.coverage = coverage' /\ c.work = work'
  BY <1>3, NextFields
<1>5. /\ t.roots \subseteq Root /\ t.seenRoots \subseteq Root /\ t.seen \subseteq Ref
      /\ t.work \subseteq DOMAIN t.instances
  BY DEF Settled, Sound, Typed
<1>6. Core(c, A, p, Stray)
  BY <1>2, <1>4, <1>5, ClosedKeeps
<1>7. /\ Core(c, A, p, Strays')
      /\ \A k \in Key \ DOMAIN items' : locks'[k] \subseteq Stray[k]
  BY <1>3, <1>6, OwnStrays
<1>. QED BY <1>2, <1>3, <1>7

\* A commit that kept its debts moves no pinned video and no live owner.
LEMMA KeptMoves ==
    ASSUME NEW b, NEW t, b = Begun, Kept(b, t), instances' = t.instances, pinned' \subseteq pinned
    PROVE  Pins /\ Owners /\ pinned' \subseteq DOMAIN instances'
<1>1. b.pinned = pinned /\ b.instances = instances
  BY BegunFields
<1>2. Pins
  BY <1>1 DEF Pins, Kept
<1>3. Owners
  BY <1>1 DEF Owners, Kept
<1>. QED BY <1>1, <1>2, <1>3 DEF Kept

\* A step that leaves the videos as they are moves neither.
LEMMA StillMoves ==
    ASSUME pinned \subseteq DOMAIN instances, instances' = instances
    PROVE  Pins /\ Owners
BY DEF Pins, Owners

\* A step that touches stamps, work or pins only.
LEMMA AsideKeeps ==
    ASSUME IInv, UNCHANGED <<sightings, overlaps, items, instances, next, evidence, locks, coverage>>,
           roots' \subseteq Root, seenRoots' \subseteq Root, seen' \subseteq Ref,
           \A ref \in seen' : ref \in seen /\ (RootOf[ref] \in seenRoots => RootOf[ref] \in seenRoots'),
           work' \subseteq DOMAIN instances
    PROVE  /\ Core(Begun', active, policy, Strays')
           /\ Pins /\ Owners /\ RootsStamped' /\ Renumbered /\ LocksGo
<1>1. PICK b : b = Begun
  OBVIOUS
<1>2. PICK c : c = Begun'
  OBVIOUS
<1>3. Settled(b, active, policy, Strays)
  BY <1>1, BegunReady
<1>4. /\ b.sightings = sightings /\ b.overlaps = overlaps /\ b.items = items
      /\ b.instances = instances /\ b.next = next /\ b.evidence = evidence
      /\ b.locks = locks /\ b.coverage = coverage
  BY <1>1, BegunFields
<1>5. /\ Rec(c) /\ c.error = "none"
      /\ c.released = {} /\ c.touched = {} /\ c.emptied = {}
      /\ c.sightings = sightings' /\ c.roots = roots' /\ c.seenRoots = seenRoots'
      /\ c.seen = seen' /\ c.overlaps = overlaps' /\ c.items = items'
      /\ c.instances = instances' /\ c.next = next' /\ c.evidence = evidence'
      /\ c.locks = locks' /\ c.coverage = coverage' /\ c.work = work'
  BY <1>2, NextFields
<1>6. /\ sightings' = sightings /\ overlaps' = overlaps /\ items' = items
      /\ instances' = instances /\ next' = next /\ evidence' = evidence
      /\ locks' = locks /\ coverage' = coverage
  OBVIOUS
<1>7. PICK A, p, Stray : A = active /\ p = policy /\ Stray = Strays
  OBVIOUS
<1>8. Core(c, A, p, Stray)
  <2>1. Settled(b, A, p, Stray)
    BY <1>3, <1>7
  <2>2. /\ c.sightings = b.sightings /\ c.overlaps = b.overlaps /\ c.items = b.items
        /\ c.instances = b.instances /\ c.next = b.next /\ c.evidence = b.evidence
        /\ c.locks = b.locks /\ c.coverage = b.coverage
        /\ c.roots \subseteq Root /\ c.seenRoots \subseteq Root /\ c.seen \subseteq Ref
        /\ c.work \subseteq DOMAIN b.instances
    BY <1>4, <1>5, <1>6
  <2>. QED BY <1>5, <2>1, <2>2, ClosedKeeps
<1>9. Pins /\ Owners
  BY <1>6, StillMoves DEF IInv
<1>10. RootsStamped' /\ Renumbered
  <2>1. Fading
    BY <1>6 DEF Fading
  <2>. QED BY <2>1, FadingKeeps
<1>11. Core(c, A, p, Strays') /\ LocksGo
  <2>1. /\ Core(c, A, p, Strays')
        /\ \A k \in Key \ DOMAIN items' : locks'[k] \subseteq Stray[k]
    BY <1>2, <1>8, OwnStrays
  <2>. QED BY <1>7, <2>1, StraysGo
<1>. QED BY <1>2, <1>7, <1>9, <1>10, <1>11

\* t with the stamps N and S.
Stamped(t, N, S) == [t EXCEPT !.seen = N, !.seenRoots = S]

\* Taking stamps away leaves a transaction settled.
LEMMA StampsKeep ==
    ASSUME NEW t, NEW A, NEW p, NEW Stray, NEW b, Settled(t, A, p, Stray), Kept(b, t),
           NEW N \in SUBSET t.seen, NEW S \in SUBSET t.seenRoots,
           NEW u, u = Stamped(t, N, S)
    PROVE  /\ Settled(u, A, p, Stray) /\ Kept(b, u) /\ u.next = t.next /\ u.error = t.error
           /\ u.sightings = t.sightings /\ u.seen = N /\ u.seenRoots = S
<1>1. Rec(t)
  BY DEF Settled, Sound, Typed
<1>2. /\ Rec(u) /\ u.sightings = t.sightings /\ u.roots = t.roots /\ u.seen = N
      /\ u.seenRoots = S /\ u.pinned = t.pinned /\ SameGrades(t, u)
      /\ u.overlaps = t.overlaps /\ u.items = t.items /\ u.error = t.error
      /\ u.instances = t.instances /\ u.next = t.next /\ u.evidence = t.evidence
      /\ u.released = t.released /\ u.touched = t.touched /\ u.emptied = t.emptied
      /\ u.work = t.work
  BY <1>1 DEF Stamped, Rec, SameGrades
<1>3. Typed(u)
  BY <1>2 DEF Settled, Sound, Typed, SameGrades
<1>4. Linked(u) /\ Held(u) /\ Sourced(u, A) /\ Apart(u)
  BY <1>2 DEF Settled, Sound, Linked, Held, Sourced, Apart, ReportsAt
<1>5. \A k \in DOMAIN u.items : Ownerless(u, k) <=> Ownerless(t, k)
  BY <1>2 DEF Ownerless
<1>6. \A k \in DOMAIN u.items : GradedAt(u, p, k) <=> GradedAt(t, p, k)
  BY <1>2 DEF GradedAt, ItemEvidence, SameGrades
<1>7. \A ref, k : ReportsAt(u, ref, k, NoPath) <=> ReportsAt(t, ref, k, NoPath)
  BY <1>2 DEF ReportsAt
<1>8. u.locks = t.locks /\ u.coverage = t.coverage
  BY <1>2 DEF SameGrades
<1>9. Sound(u, A, p, Stray, {}, {})
  BY <1>2, <1>3, <1>4, <1>5, <1>6, <1>7, <1>8 DEF Settled, Sound
<1>. QED BY <1>2, <1>9 DEF Settled, Kept

\* Beginning a pass keeps the invariant.
LEMMA BeginPassKeeps ==
    ASSUME IInv, NEW s \in Source, NEW scope \in Scopes, BeginPass(s, scope)
    PROVE  IInv' /\ Pins /\ Owners /\ Renumbered /\ LocksGo
<1>1. /\ s \in active /\ passes' = Put(passes, s, scope)
      /\ seen' \subseteq seen /\ seenRoots' \subseteq seenRoots
      /\ \A ref \in seen' : RootOf[ref] \in seenRoots => RootOf[ref] \in seenRoots'
      /\ UNCHANGED <<policy, active, roots, sightings, overlaps, items, instances, next,
                     evidence, locks, coverage, work, pinned, broken>>
  BY DEF BeginPass, Unstamped, UnstampedRoots, SourceOfRef, holdings, graded
<1>2. /\ roots \subseteq Root /\ seenRoots \subseteq Root /\ seen \subseteq Ref
      /\ work \subseteq DOMAIN instances
  <2>1. PICK b : b = Begun
    OBVIOUS
  <2>2. Typed(b)
    BY <2>1, BegunReady DEF Core
  <2>. QED BY <2>1, <2>2, BegunFields DEF Typed
<1>3. Core(Begun', active, policy, Strays') /\ Pins /\ Owners /\ RootsStamped' /\ Renumbered /\ LocksGo
  BY <1>1, <1>2, AsideKeeps
<1>4. IsTable(passes', active, Scopes)
  <2>1. IsTable(passes, active, Scopes)
    BY DEF IInv
  <2>2. IsTable(Put(passes, s, scope), active, Scopes)
    BY <1>1, <2>1, PutIsTable
  <2>. QED BY <1>1, <2>2
<1>. QED BY <1>1, <1>3, <1>4 DEF IInv

\* A report keeps the invariant.
LEMMA ObserveItemsKeeps ==
    ASSUME IInv, NEW r \in Root, NEW report \in Reports[r], ObserveItems(r, report)
    PROVE  IInv' /\ Pins /\ Owners /\ Renumbered /\ LocksGo
<1>1. PICK b : b = Begun
  OBVIOUS
<1>2. PICK A, p, Stray, scope : A = active /\ p = policy /\ Stray = Strays /\ scope = passes[SourceOf[r]]
  OBVIOUS
<1>3. PICK t : t = Observed(b, p, scope, r, report)
  OBVIOUS
<1>4. /\ SourceOf[r] \in A /\ t.next <= MaxInst /\ Commit(t)
      /\ UNCHANGED <<policy, active, passes, pinned>>
  BY <1>1, <1>2, <1>3 DEF ObserveItems
<1>5. Core(b, A, p, Stray) /\ Kept(b, b)
  BY <1>1, <1>2, BegunReady
<1>6. Ends(b, A, p, Stray, t)
  BY ONLY r \in Root, report \in Reports[r], <1>3, <1>4, <1>5, ObservedKeeps
<1>7. t.error # "pinned"
  BY <1>4 DEF Commit
<1>8. Settled(t, A, p, Stray) /\ Kept(b, t)
  BY <1>6, <1>7 DEF Ends
<1>9. /\ Core(Begun', A, p, Strays')
      /\ \A k \in Key \ DOMAIN items' : locks'[k] \subseteq Stray[k]
      /\ instances' = t.instances /\ next' = t.next /\ broken' = broken
      /\ sightings' = t.sightings /\ seen' = t.seen /\ seenRoots' = t.seenRoots
      /\ overlaps' = t.overlaps
  BY <1>4, <1>8, CommitKeeps
<1>10. Pins /\ Owners /\ pinned' \subseteq DOMAIN instances'
  BY <1>1, <1>4, <1>8, <1>9, KeptMoves
<1>11. b.sightings = sightings /\ b.seen = seen /\ b.seenRoots = seenRoots
       /\ b.items = items /\ b.instances = instances
  BY <1>1, BegunFields
<1>12. RootReported(b, t, r)
  <2>1. \A x \in b.seen : RootOf[x] \in b.seenRoots
    BY <1>11 DEF IInv, RootsStamped
  <2>2. t.error = "none"
    BY <1>8 DEF Settled, Sound, Typed
  <2>. QED BY ONLY r \in Root, report \in Reports[r], <1>3, <1>4, <1>5, <2>1, <2>2, ObservedReports
<1>13. RootsStamped'
  BY <1>9, <1>11, <1>12 DEF RootReported, IInv, RootsStamped
<1>14. ASSUME NEW i \in DOMAIN instances, NEW k \in instances[i].items,
              NEW ref, ref = items[k].ref,
              instances[i].owner # NoOwner, ref \in DOMAIN sightings',
              sightings'[ref].path = instances[i].path,
              sightings'[ref].key \notin {NoKey, k}, ref \notin DOMAIN overlaps',
              RootOf[ref] \notin seenRoots
       PROVE  i \in DOMAIN instances'
  <2>1. /\ SourceOfRef(ref) = instances[i].owner
        /\ ref \in DOMAIN sightings /\ sightings[ref].key = k
    BY <1>5, <1>11, <1>14 DEF Core, Sourced, ReportsAt
  <2>2. t.sightings[ref] # b.sightings[ref]
    BY <1>9, <1>11, <1>14, <2>1
  <2>3. RootOf[ref] = r
    BY <1>9, <1>12, <1>14, <2>2 DEF RootReported
  <2>4. Backed(t, ref, b.instances[i].path)
    BY <1>9, <1>11, <1>14 DEF Backed
  <2>5. /\ r \notin b.seenRoots /\ i \in DOMAIN b.instances
        /\ b.instances[i].owner = SourceOf[r]
        /\ ref \in DOMAIN t.sightings \intersect DOMAIN b.sightings
    BY <1>9, <1>11, <1>14, <2>1, <2>3 DEF SourceOfRef
  <2>6. i \in DOMAIN t.instances
    BY ONLY <1>12, <2>2, <2>4, <2>5 DEF RootReported
  <2>. QED BY <1>9, <2>6
<1>15. Renumbered
  BY <1>14 DEF Renumbered
<1>16. LocksGo
  BY <1>2, <1>9, StraysGo
<1>. QED BY <1>2, <1>4, <1>9, <1>10, <1>13, <1>15, <1>16 DEF IInv

\* Finishing a pass keeps the invariant, completed or not.
LEMMA FinishPassKeeps ==
    ASSUME IInv, NEW s \in Source, NEW complete \in BOOLEAN, NEW keep,
           FinishPass(s, complete, keep)
    PROVE  IInv' /\ Pins /\ Owners /\ Renumbered /\ LocksGo
<1>1. PICK b : b = Begun
  OBVIOUS
<1>2. PICK A, p, Stray, scope : A = active /\ p = policy /\ Stray = Strays /\ scope = passes[s]
  OBVIOUS
<1>3. PICK u : u = IF complete THEN Completed(b, p, s, scope, keep) ELSE b
  OBVIOUS
<1>4. PICK N, S : N = Unstamped(u.seen, s) /\ S = UnstampedRoots(u.seenRoots, s)
  OBVIOUS
<1>5. PICK t : t = Stamped(u, N, S)
  OBVIOUS
<1>6. /\ passes' = Drop(passes, {s}) /\ Commit(t)
      /\ UNCHANGED <<policy, active, pinned>>
  BY <1>1, <1>2, <1>3, <1>4, <1>5 DEF FinishPass, Stamped
<1>7. Core(b, A, p, Stray) /\ Kept(b, b) /\ Settled(b, A, p, Stray)
  BY <1>1, <1>2, BegunReady
<1>8. Ends(b, A, p, Stray, u) /\ (u.error = "none" => u.next = b.next /\ Fewer(b, u))
  <2>1. CASE complete
    <3>1. u = Completed(b, p, s, scope, keep)
      BY <1>3, <2>1
    <3>. QED BY ONLY <1>7, <3>1, CompletedKeeps
  <2>2. CASE ~complete
    BY <1>3, <1>7, <2>2 DEF Ends, Fewer
  <2>. QED BY <2>1, <2>2
<1>9. t.error # "pinned"
  BY <1>6 DEF Commit
<1>10. Settled(u, A, p, Stray) /\ Kept(b, u)
  <2>1. CASE Rec(u) /\ u.error = "pinned"
    BY <1>5, <1>9, <2>1 DEF Rec, Stamped
  <2>. QED BY <1>8, <2>1 DEF Ends
<1>11. N \in SUBSET u.seen /\ S \in SUBSET u.seenRoots
  BY <1>4 DEF Unstamped, UnstampedRoots
<1>12. /\ Settled(t, A, p, Stray) /\ Kept(b, t) /\ t.next = u.next
       /\ t.sightings = u.sightings /\ t.seen = N /\ t.seenRoots = S
  BY ONLY <1>5, <1>10, <1>11, StampsKeep
<1>13. /\ Core(Begun', A, p, Strays')
       /\ \A k \in Key \ DOMAIN items' : locks'[k] \subseteq Stray[k]
       /\ instances' = t.instances /\ next' = t.next /\ broken' = broken
       /\ sightings' = t.sightings /\ seen' = t.seen /\ seenRoots' = t.seenRoots
  BY <1>6, <1>12, CommitKeeps
<1>14. Pins /\ Owners /\ pinned' \subseteq DOMAIN instances'
  BY <1>1, <1>6, <1>12, <1>13, KeptMoves
<1>15. next' = next
  <2>1. u.error = "none"
    BY <1>10 DEF Settled, Sound, Typed
  <2>. QED BY <1>1, <1>8, <1>12, <1>13, <2>1, BegunFields
<1>16. IsTable(passes', active, Scopes)
  <2>1. IsTable(passes, active, Scopes)
    BY DEF IInv
  <2>2. IsTable(Drop(passes, {s}), active, Scopes)
    BY <2>1, DropIsTable
  <2>. QED BY <1>6, <2>2
<1>17. RootsStamped' /\ Renumbered
  <2>1. Fewer(b, u)
    BY <1>8, <1>10 DEF Settled, Sound, Typed
  <2>2. \A ref \in N : ref \in u.seen /\ (RootOf[ref] \in u.seenRoots => RootOf[ref] \in S)
    BY <1>4 DEF Unstamped, UnstampedRoots, SourceOfRef
  <2>3. Fewer(b, t)
    BY <1>12, <2>1, <2>2 DEF Fewer
  <2>4. Fading
    BY <1>1, <1>13, <2>3, FewerFades
  <2>. QED BY <2>4, FadingKeeps
<1>18. LocksGo
  BY <1>2, <1>13, StraysGo
<1>. QED BY <1>2, <1>6, <1>13, <1>14, <1>15, <1>16, <1>17, <1>18 DEF IInv

\* A new configuration keeps the invariant: the videos of the sources that left
\* lose their owners, and every row is recomputed under a new policy.
LEMMA ActivateKeeps ==
    ASSUME IInv, NEW p \in Policy, NEW S \in SUBSET Source, Activate(p, S)
    PROVE  IInv' /\ Pins /\ Owners /\ Renumbered /\ LocksGo
<1>1. PICK b : b = Begun
  OBVIOUS
<1>2. PICK A, q, Stray : A = active /\ q = policy /\ Stray = Strays
  OBVIOUS
<1>3. PICK R : R = A \ S
  OBVIOUS
<1>4. PICK u : u = IF R = {} THEN b ELSE Removed(b, p, R)
  OBVIOUS
<1>5. PICK t : t = IF p = q THEN u ELSE RecomputeKeys(u, p, DOMAIN u.items, {})
  OBVIOUS
<1>6. /\ policy' = p /\ active' = S /\ passes' = Drop(passes, R) /\ pinned' = pinned
      /\ Commit(t)
  BY <1>1, <1>2, <1>3, <1>4, <1>5, Zenon DEF Activate
<1>7. /\ Settled(b, A, q, Stray) /\ A \subseteq Source
      /\ b.instances = instances /\ b.pinned = pinned /\ b.next = next
  BY <1>1, <1>2, BegunReady, BegunFields DEF IInv
<1>8. PICK T : T = IF p = q THEN {} ELSE DOMAIN b.items
  OBVIOUS
<1>9. Sound(b, A, p, Stray, {}, T)
  BY <1>7, <1>8 DEF Settled, Sound
<1>10. Sound(u, S, p, Stray, {}, T) /\ Shed(b, u, R) /\ Fewer(b, u)
  <2>1. CASE R = {}
    <3>1. u = b /\ A \subseteq S
      BY <1>3, <1>4, <2>1
    <3>2. Sourced(b, S)
      BY <1>9, <3>1 DEF Sound, Sourced
    <3>3. Sound(b, S, p, Stray, {}, T)
      BY <1>9, <3>1, <3>2 DEF Sound
    <3>4. Shed(b, b, R)
      BY <2>1 DEF Shed
    <3>5. Fewer(b, b)
      BY DEF Fewer
    <3>. QED BY <3>1, <3>3, <3>4, <3>5
  <2>2. CASE R # {}
    <3>1. u = Removed(b, p, R) /\ S \subseteq Source /\ A \subseteq Source
      BY <1>4, <1>7, <2>2
    <3>. QED BY ONLY <1>3, <1>9, <3>1, RemovedKeeps
  <2>. QED BY <2>1, <2>2
<1>11. /\ Sound(t, S, p, Stray, {}, {}) /\ t.instances = u.instances /\ t.next = u.next
       /\ t.sightings = u.sightings /\ t.seen = u.seen /\ t.seenRoots = u.seenRoots
  <2>1. CASE p = q
    BY <1>5, <1>8, <1>10, <2>1
  <2>2. CASE p # q
    <3>1. PICK K : K = DOMAIN u.items
      OBVIOUS
    <3>2. t = RecomputeKeys(u, p, K, {})
      BY <1>5, <2>2, <3>1, Zenon
    <3>3. /\ Sound(t, S, p, Stray, {}, T \ K) /\ SameVideos(u, t) /\ t.items = u.items
          /\ SameReports(u, t)
      <4>1. ASSUME NEW swept, t = RecomputeKeys(u, p, K, swept)
            PROVE  /\ Sound(t, S, p, Stray, {}, T \ K) /\ SameVideos(u, t) /\ t.items = u.items
                   /\ SameReports(u, t)
        BY ONLY <1>10, <4>1, RecomputeKeeps
      <4>. QED BY <3>2, <4>1, Zenon
    <3>4. \A k \in DOMAIN t.items : k \notin T \ K
      BY <3>1, <3>3
    <3>5. Sound(t, S, p, Stray, {}, {})
      BY <3>1, <3>3, <3>4 DEF Sound
    <3>. QED BY <3>3, <3>5 DEF SameVideos, SameReports
  <2>. QED BY <2>1, <2>2
<1>12. Settled(t, S, p, Stray)
  <2>1. \A i \in DOMAIN t.instances : t.instances[i].owner # NoOwner => t.instances[i].items # {}
    BY <1>7, <1>10, <1>11 DEF Settled, Shed
  <2>. QED BY <1>11, <2>1 DEF Settled
<1>13. /\ Core(Begun', S, p, Strays')
       /\ \A k \in Key \ DOMAIN items' : locks'[k] \subseteq Stray[k]
       /\ instances' = t.instances /\ next' = t.next /\ broken' = broken
       /\ sightings' = t.sightings /\ seen' = t.seen /\ seenRoots' = t.seenRoots
  BY <1>6, <1>12, CommitKeeps
<1>14. /\ next' = next
       /\ DOMAIN instances' = DOMAIN instances
       /\ \A i \in DOMAIN instances :
             /\ instances'[i].path = instances[i].path
             /\ instances'[i].items = instances[i].items
             /\ instances'[i].owner =
                   IF instances[i].owner \in R THEN NoOwner ELSE instances[i].owner
  BY <1>7, <1>10, <1>11, <1>13 DEF Shed
<1>15. pinned \subseteq DOMAIN instances
  BY DEF IInv
<1>16. Pins
  BY <1>14, <1>15 DEF Pins
<1>17. Owners
  BY <1>3, <1>6, <1>14 DEF Owners
<1>18. IsTable(passes', S, Scopes)
  <2>1. IsTable(passes, A, Scopes)
    BY <1>2 DEF IInv
  <2>2. IsTable(Drop(passes, R), A, Scopes) /\ DOMAIN Drop(passes, R) = DOMAIN passes \ R
    BY <2>1, DropIsTable
  <2>3. DOMAIN passes \ R \subseteq S
    BY <1>3, <2>1 DEF IsTable
  <2>. QED BY <1>6, <2>2, <2>3 DEF IsTable
<1>19. RootsStamped' /\ Renumbered
  <2>1. Fewer(b, t)
    BY <1>10, <1>11 DEF Fewer
  <2>2. Fading
    BY <1>1, <1>13, <2>1, FewerFades
  <2>. QED BY <2>2, FadingKeeps
<1>20. LocksGo
  BY <1>2, <1>13, StraysGo
<1>. QED BY <1>6, <1>13, <1>14, <1>15, <1>16, <1>17, <1>18, <1>19, <1>20 DEF IInv

\* Thirty days for an ownerless video keep the invariant.
LEMMA ElapseStep ==
    ASSUME IInv, NEW i \in DOMAIN instances, Elapse(i)
    PROVE  IInv' /\ Pins /\ Owners /\ Renumbered /\ LocksGo
<1>1. PICK b : b = Begun
  OBVIOUS
<1>2. PICK c : c = Begun'
  OBVIOUS
<1>3. PICK A, p, Stray : A = active /\ p = policy /\ Stray = Strays
  OBVIOUS
<1>4. /\ instances' = [instances EXCEPT ![i].expired = TRUE]
      /\ UNCHANGED <<policy, active, passes, roots, sightings, seenRoots, seen, overlaps,
                     items, next, evidence, locks, coverage, work, pinned, broken>>
  BY DEF Elapse, configured, reported, graded
<1>5. Core(b, A, p, Stray)
  BY <1>1, <1>3, BegunReady
<1>6. /\ Rec(b) /\ b.error = "none"
      /\ b.released = {} /\ b.touched = {} /\ b.emptied = {}
      /\ b.sightings = sightings /\ b.roots = roots /\ b.seenRoots = seenRoots
      /\ b.seen = seen /\ b.overlaps = overlaps /\ b.items = items
      /\ b.instances = instances /\ b.next = next /\ b.evidence = evidence
      /\ b.locks = locks /\ b.coverage = coverage /\ b.work = work
      /\ b.pinned = pinned
  BY <1>1, BegunFields
<1>7. /\ Rec(c) /\ c.error = "none"
      /\ c.released = {} /\ c.touched = {} /\ c.emptied = {}
      /\ c.sightings = sightings' /\ c.roots = roots' /\ c.seenRoots = seenRoots'
      /\ c.seen = seen' /\ c.overlaps = overlaps' /\ c.items = items'
      /\ c.instances = instances' /\ c.next = next' /\ c.evidence = evidence'
      /\ c.locks = locks' /\ c.coverage = coverage' /\ c.work = work'
      /\ c.pinned = pinned'
  BY <1>2, NextFields
<1>8. /\ SameReports(b, c) /\ SameGrades(b, c) /\ c.overlaps = b.overlaps
      /\ c.items = b.items /\ c.next = b.next /\ c.evidence = b.evidence
      /\ c.work = b.work /\ c.error = b.error
      /\ c.released = b.released /\ c.touched = b.touched /\ c.emptied = b.emptied
  BY <1>4, <1>6, <1>7 DEF SameReports, SameGrades
<1>9. c.instances = [b.instances EXCEPT ![i].expired = TRUE] /\ i \in DOMAIN b.instances
  BY <1>4, <1>6, <1>7
<1>10. Core(c, A, p, Stray)
  BY ONLY <1>5, <1>7, <1>8, <1>9, ElapseKeeps
<1>11. /\ DOMAIN instances' = DOMAIN instances
       /\ \A j \in DOMAIN instances :
             /\ instances'[j].owner = instances[j].owner
             /\ instances'[j].path = instances[j].path
             /\ instances'[j].items = instances[j].items
  <2>1. \A j \in DOMAIN instances : instances[j] \in Video
    BY <1>5, <1>6 DEF Core, Typed, IsTable
  <2>2. DOMAIN instances' = DOMAIN instances
    BY <1>4
  <2>3. ASSUME NEW j \in DOMAIN instances
        PROVE  /\ instances'[j].owner = instances[j].owner
               /\ instances'[j].path = instances[j].path
               /\ instances'[j].items = instances[j].items
    <3>1. PICK x : x = instances[j]
      OBVIOUS
    <3>2. instances'[j] = x \/ instances'[j] = [x EXCEPT !.expired = TRUE]
      BY <1>4, <3>1
    <3>3. x \in Video
      BY <2>1, <3>1
    <3>. QED BY ONLY <3>1, <3>2, <3>3 DEF Video
  <2>. QED BY <2>2, <2>3
<1>12. pinned \subseteq DOMAIN instances
  BY DEF IInv
<1>13. Pins /\ Owners
  BY <1>11, <1>12 DEF Pins, Owners
<1>14. RootsStamped' /\ Renumbered
  <2>1. UNCHANGED <<sightings, seen, seenRoots>>
    BY DEF Elapse, reported
  <2>2. Fading
    BY <2>1 DEF Fading
  <2>. QED BY <2>2, FadingKeeps
<1>15. Core(c, A, p, Strays') /\ LocksGo
  <2>1. /\ Core(c, A, p, Strays')
        /\ \A k \in Key \ DOMAIN items' : locks'[k] \subseteq Stray[k]
    BY ONLY <1>2, <1>10, OwnStrays
  <2>. QED BY <1>3, <2>1, StraysGo
<1>. QED BY <1>2, <1>3, <1>4, <1>11, <1>12, <1>13, <1>14, <1>15 DEF IInv

\* Pinning, unpinning and acknowledging work keep the invariant.
LEMMA AsideSteps ==
    ASSUME IInv, NEW i \in DOMAIN instances, BeginWrite(i) \/ EndUnlanded(i) \/ AckWork(i)
    PROVE  IInv' /\ Pins /\ Owners /\ Renumbered /\ LocksGo
<1>1. /\ pinned' \subseteq pinned \union {i} /\ work' \subseteq work
      /\ UNCHANGED <<policy, active, passes, roots, sightings, seenRoots, seen, overlaps,
                     items, instances, next, evidence, locks, coverage, broken>>
  BY DEF BeginWrite, EndUnlanded, Unpins, AckWork, configured, reported, holdings, graded
<1>2. /\ roots \subseteq Root /\ seenRoots \subseteq Root /\ seen \subseteq Ref
      /\ work \subseteq DOMAIN instances
  <2>1. PICK b : b = Begun
    OBVIOUS
  <2>2. Typed(b)
    BY <2>1, BegunReady DEF Core
  <2>. QED BY <2>1, <2>2, BegunFields DEF Typed
<1>3. Core(Begun', active, policy, Strays') /\ Pins /\ Owners /\ RootsStamped' /\ Renumbered /\ LocksGo
  BY <1>1, <1>2, AsideKeeps
<1>. QED BY <1>1, <1>3 DEF IInv

\* Recomputing a video over what a call left of its locks and subtitles keeps
\* the invariant, when the call locked no item it does not hold, and of the
\* items with no record those of an ownerless pinned video at most.
LEMMA RecomputedKeeps ==
    ASSUME IInv, NEW i \in DOMAIN instances, NEW ev \in Evidences, NEW swept,
           NEW ls \in [Key -> SUBSET Pair],
           \A k \in Key \ instances[i].items : ls[k] = locks[k],
           \A k \in Key \ DOMAIN items :
               \/ ls[k] \subseteq locks[k]
               \/ i \in pinned /\ instances[i].owner = NoOwner /\ k \in instances[i].items,
           Recomputed(i, ls, ev, swept), pinned' \subseteq pinned
    PROVE  IInv' /\ Pins /\ Owners /\ Renumbered /\ LocksGo
<1>1. PICK b : b = Begun
  OBVIOUS
<1>2. PICK A, p, Stray, K : A = active /\ p = policy /\ Stray = Strays /\ K = instances[i].items
  OBVIOUS
<1>3. PICK u : u = [b EXCEPT !.locks = ls, !.evidence = Put(@, i, ev)]
  OBVIOUS
<1>4. PICK t : t = RecomputeKeys(u, p, K, swept)
  OBVIOUS
<1>5. Commit(t) /\ UNCHANGED <<policy, active, passes>>
  <2>1. UNCHANGED <<policy, active, passes>>
    BY Zenon DEF Recomputed
  <2>2. Commit(RecomputeKeys([Begun EXCEPT !.locks = ls, !.evidence = Put(@, i, ev)], policy,
                             instances[i].items, swept))
    BY Zenon DEF Recomputed
  <2>3. u = [Begun EXCEPT !.locks = ls, !.evidence = Put(@, i, ev)]
    BY <1>1, <1>3, Zenon
  <2>4. Commit(t)
    BY <1>2, <1>4, <2>2, <2>3, Zenon
  <2>. QED BY <2>1, <2>4
<1>6. /\ Settled(b, A, p, Stray) /\ Kept(b, b) /\ b.instances = instances /\ b.next = next
      /\ b.items = items /\ b.locks = locks
  BY <1>1, <1>2, BegunReady, BegunFields
<1>7. ev \in SUBSET Sub /\ i \in DOMAIN b.instances /\ K = b.instances[i].items
  BY <1>2, <1>6, EvidencesAssumption
<1>15. PICK Left : Left = [k \in Key |-> IF k \in DOMAIN items THEN {} ELSE ls[k]]
  OBVIOUS
<1>16. /\ \A k \in Key \ b.instances[i].items : ls[k] = b.locks[k]
       /\ \A k \in Key \ DOMAIN b.items : ls[k] \subseteq Left[k]
  BY <1>6, <1>15
<1>8. /\ Sound(u, A, p, Left, {}, K)
      /\ u.instances = b.instances /\ u.next = b.next /\ u.pinned = b.pinned
      /\ u.emptied = b.emptied /\ Fewer(b, u)
  <2>1. /\ Sound(u, A, p, Left, {}, b.instances[i].items)
        /\ u.instances = b.instances /\ u.next = b.next /\ u.pinned = b.pinned
        /\ u.emptied = b.emptied
    <3>1. Weighed(b, u, i, Left)
      BY ONLY <1>3, <1>7, <1>16, ls \in [Key -> SUBSET Pair] DEF Weighed
    <3>. QED BY ONLY <1>6, <1>7, <3>1, EvidenceSound
  <2>2. u.sightings = b.sightings /\ u.seen = b.seen /\ u.seenRoots = b.seenRoots
    <3>1. Rec(b)
      BY <1>6 DEF Settled, Sound, Typed
    <3>. QED BY ONLY <1>3, <3>1 DEF Rec
  <2>. QED BY <1>7, <2>1, <2>2 DEF Fewer
<1>9. /\ Sound(t, A, p, Left, {}, K \ K) /\ SameReports(u, t) /\ SameVideos(u, t)
      /\ t.emptied = u.emptied
  BY ONLY <1>4, <1>8, RecomputeKeeps
<1>10. /\ t.instances = b.instances /\ t.next = b.next /\ t.pinned = b.pinned
       /\ t.emptied = b.emptied
  BY <1>8, <1>9 DEF SameReports, SameVideos
<1>11. Settled(t, A, p, Left) /\ Kept(b, t)
  <2>1. K \ K = {}
    OBVIOUS
  <2>2. Sound(t, A, p, Left, {}, {})
    BY <1>9, <2>1
  <2>. QED BY <1>6, <1>10, <2>2 DEF Settled, Kept
<1>12. /\ Core(Begun', A, p, Strays')
       /\ \A k \in Key \ DOMAIN items' : locks'[k] \subseteq Left[k]
       /\ instances' = t.instances /\ next' = t.next /\ broken' = broken
       /\ sightings' = t.sightings /\ seen' = t.seen /\ seenRoots' = t.seenRoots
  BY <1>5, <1>11, CommitKeeps
<1>13. Pins /\ Owners /\ pinned' \subseteq DOMAIN instances'
  BY <1>1, <1>5, <1>11, <1>12, KeptMoves
<1>14. RootsStamped' /\ Renumbered
  <2>1. Fewer(b, t)
    BY <1>8, <1>9 DEF Fewer, SameReports
  <2>2. Fading
    BY <1>1, <1>12, <2>1, FewerFades
  <2>. QED BY <2>2, FadingKeeps
<1>17. LocksGo
  <2>1. \A k \in Key \ DOMAIN items' :
            /\ k \in DOMAIN items => locks'[k] = {}
            /\ k \notin DOMAIN items => locks'[k] \subseteq ls[k]
    BY <1>12, <1>15
  <2>. QED BY <2>1 DEF LocksGo
<1>. QED BY <1>2, <1>5, <1>6, <1>10, <1>12, <1>13, <1>14, <1>17 DEF IInv

\* What the invariant says of the locks a landing begins with.
LEMMA LandingReady ==
    ASSUME IInv, NEW i \in DOMAIN instances
    PROVE  /\ locks \in [Key -> SUBSET Pair] /\ instances[i].items \subseteq Key
           /\ instances[i].owner # NoOwner => instances[i].items \subseteq DOMAIN items
           /\ policy \in Policy
           /\ \A ref \in DOMAIN sightings : sightings[ref].lang \in Profile
<1>1. PICK b : b = Begun
  OBVIOUS
<1>2. Typed(b) /\ Held(b)
  BY <1>1, BegunReady DEF Core
<1>3. /\ b.locks = locks /\ b.instances = instances /\ b.items = items
      /\ b.sightings = sightings
  BY <1>1, BegunFields
<1>4. instances[i] \in Video
  BY <1>2, <1>3 DEF Typed, IsTable
<1>5. \A ref \in DOMAIN sightings : sightings[ref].lang \in Profile
  BY <1>2, <1>3 DEF Typed, IsTable, Sighting
<1>. QED BY <1>2, <1>3, <1>4, <1>5 DEF Typed, Held, Video, IInv

\* A landed write keeps the invariant: its locks, where the video has an owner,
\* are of recorded items.
LEMMA LandedKeeps ==
    ASSUME IInv, NEW i \in DOMAIN instances, NEW ev \in Evidences, NEW swept,
           EndLanded(i, ev, swept)
    PROVE  IInv' /\ Pins /\ Owners /\ Renumbered /\ LocksGo
<1>1. i \in pinned /\ pinned' \subseteq pinned
  BY DEF EndLanded, Unpins
<1>2. ASSUME NEW K \in SUBSET instances[i].items, NEW q \in Pair,
             Recomputed(i, Locking(K, q), ev, swept)
      PROVE  IInv' /\ Pins /\ Owners /\ Renumbered /\ LocksGo
  <2>1. PICK ls : ls = Locking(K, q)
    OBVIOUS
  <2>2. /\ ls \in [Key -> SUBSET Pair]
        /\ \A k \in Key \ instances[i].items : ls[k] = locks[k]
    BY <2>1, LandingReady DEF Locking
  <2>3. ASSUME NEW k \in Key \ DOMAIN items
        PROVE  \/ ls[k] \subseteq locks[k]
               \/ i \in pinned /\ instances[i].owner = NoOwner /\ k \in instances[i].items
    <3>1. CASE k \notin instances[i].items
      BY <2>2, <3>1
    <3>2. CASE k \in instances[i].items
      BY <1>1, <3>2, LandingReady
    <3>. QED BY <3>1, <3>2
  <2>. QED BY <1>1, <1>2, <2>1, <2>2, <2>3, RecomputedKeeps
<1>3. ASSUME NEW sub \in ev, Recomputed(i, Adopting(i, sub), ev, swept)
      PROVE  IInv' /\ Pins /\ Owners /\ Renumbered /\ LocksGo
  <2>1. PICK ls : ls = Adopting(i, sub)
    OBVIOUS
  <2>2. PICK G : G = {k \in instances[i].items \intersect DOMAIN items :
                        items[k].ref \in DOMAIN sightings}
    OBVIOUS
  <2>3. PICK served : served = [k \in G |-> {q \in Wants[policy][sightings[items[k].ref].lang] :
                                              Servable(policy, q, {sub})}]
    OBVIOUS
  <2>4. ls = [k \in Key |-> IF instances[i].owner # NoOwner /\ k \in G
                            THEN locks[k] \union served[k] ELSE locks[k]]
    BY <2>1, <2>2, <2>3 DEF Adopting
  <2>5. \A k \in G : served[k] \subseteq Pair
    BY <2>2, <2>3, LandingReady, WantsAssumption
  <2>6. /\ ls \in [Key -> SUBSET Pair]
        /\ \A k \in Key \ instances[i].items : ls[k] = locks[k]
        /\ \A k \in Key \ DOMAIN items : ls[k] = locks[k]
    BY <2>2, <2>4, <2>5, LandingReady
  <2>. QED BY <1>1, <1>3, <2>1, <2>6, RecomputedKeeps
<1>. QED BY <1>2, <1>3, Zenon DEF EndLanded

\* An inventory of a video keeps the invariant.
LEMMA PutEvidenceKeeps ==
    ASSUME IInv, NEW i \in DOMAIN instances, NEW ev \in Evidences, NEW swept,
           PutEvidence(i, ev, swept)
    PROVE  IInv' /\ Pins /\ Owners /\ Renumbered /\ LocksGo
<1>1. PICK ls : ls = locks
  OBVIOUS
<1>2. Recomputed(i, ls, ev, swept) /\ pinned' = pinned
  BY <1>1, Zenon DEF PutEvidence
<1>3. ls \in [Key -> SUBSET Pair] /\ \A k \in Key : ls[k] = locks[k]
  BY <1>1, LandingReady
<1>. QED BY <1>2, <1>3, RecomputedKeeps

\* Locking and unlocking keep the invariant.
LEMMA SetLockKeeps ==
    ASSUME IInv, NEW i \in DOMAIN instances, NEW q \in Pair, NEW locked \in BOOLEAN,
           SetLock(i, q, locked)
    PROVE  IInv' /\ Pins /\ Owners /\ Renumbered /\ LocksGo
<1>1. PICK b : b = Begun
  OBVIOUS
<1>2. PICK c : c = Begun'
  OBVIOUS
<1>3. PICK A, p, Stray : A = active /\ p = policy /\ Stray = Strays
  OBVIOUS
<1>4. PICK K : K = {k \in instances[i].items : q \in Wants[p][sightings[items[k].ref].lang]}
  OBVIOUS
<1>5. /\ instances[i].owner # NoOwner
      /\ locks' = [k \in Key |-> IF k \notin K THEN locks[k]
                                 ELSE IF locked THEN locks[k] \union {q}
                                 ELSE locks[k] \ {q}]
      /\ UNCHANGED <<policy, active, passes, roots, sightings, seenRoots, seen, overlaps,
                     items, instances, next, evidence, coverage, work, pinned, broken>>
  BY <1>3, <1>4 DEF SetLock, configured, reported, holdings
<1>6. Core(b, A, p, Stray) /\ p \in Policy
  BY <1>1, <1>3, BegunReady DEF IInv
<1>7. /\ Rec(b) /\ b.error = "none"
      /\ b.released = {} /\ b.touched = {} /\ b.emptied = {}
      /\ b.sightings = sightings /\ b.roots = roots /\ b.seenRoots = seenRoots
      /\ b.seen = seen /\ b.overlaps = overlaps /\ b.items = items
      /\ b.instances = instances /\ b.next = next /\ b.evidence = evidence
      /\ b.locks = locks /\ b.coverage = coverage /\ b.work = work
      /\ b.pinned = pinned
  BY <1>1, BegunFields
<1>8. /\ Rec(c) /\ c.error = "none"
      /\ c.released = {} /\ c.touched = {} /\ c.emptied = {}
      /\ c.sightings = sightings' /\ c.roots = roots' /\ c.seenRoots = seenRoots'
      /\ c.seen = seen' /\ c.overlaps = overlaps' /\ c.items = items'
      /\ c.instances = instances' /\ c.next = next' /\ c.evidence = evidence'
      /\ c.locks = locks' /\ c.coverage = coverage' /\ c.work = work'
      /\ c.pinned = pinned'
  BY <1>2, NextFields
<1>9. /\ c.instances = b.instances /\ SameReports(b, c) /\ c.overlaps = b.overlaps
      /\ c.items = b.items /\ c.coverage = b.coverage
      /\ c.next = b.next /\ c.evidence = b.evidence /\ c.work = b.work /\ c.error = b.error
      /\ c.released = b.released /\ c.touched = b.touched /\ c.emptied = b.emptied
  BY <1>5, <1>7, <1>8 DEF SameReports
<1>10. locks \in [Key -> SUBSET Pair]
  BY <1>6, <1>7 DEF Core, Typed
<1>11. K \subseteq DOMAIN items
  BY <1>4, <1>5, <1>6, <1>7 DEF Core, Held
<1>12. /\ c.locks \in [Key -> SUBSET Pair]
       /\ \A k \in Key : \/ c.locks[k] \subseteq b.locks[k]
                        \/ /\ k \in DOMAIN b.items
                           /\ c.locks[k] \subseteq
                                 b.locks[k] \union Wants[p][b.sightings[b.items[k].ref].lang]
  <2>1. c.locks = locks' /\ b.locks = locks /\ b.items = items /\ b.sightings = sightings
    BY <1>7, <1>8
  <2>2. \A k \in Key : locks'[k] \in SUBSET Pair
    BY <1>5, <1>10
  <2>3. ASSUME NEW k \in Key
        PROVE  \/ locks'[k] \subseteq locks[k]
               \/ /\ k \in DOMAIN items
                  /\ locks'[k] \subseteq locks[k] \union Wants[p][sightings[items[k].ref].lang]
    <3>1. CASE k \notin K
      BY <1>5, <3>1
    <3>2. CASE k \in K
      <4>1. q \in Wants[p][sightings[items[k].ref].lang] /\ k \in DOMAIN items
        BY <1>4, <1>11, <3>2
      <4>2. locks'[k] \subseteq locks[k] \union {q}
        BY <1>5, <3>2
      <4>. QED BY <4>1, <4>2
    <3>. QED BY <3>1, <3>2
  <2>4. locks' \in [Key -> SUBSET Pair]
    BY <1>5, <2>2
  <2>. QED BY <2>1, <2>3, <2>4
<1>13. Core(c, A, p, Stray)
  BY ONLY <1>6, <1>7, <1>8, <1>9, <1>12, LockKeeps
<1>14. Pins /\ Owners
  BY <1>5, StillMoves DEF IInv
<1>15. RootsStamped' /\ Renumbered
  <2>1. Fading
    BY <1>5 DEF Fading
  <2>. QED BY <2>1, FadingKeeps
<1>16. Core(c, A, p, Strays') /\ LocksGo
  <2>1. /\ Core(c, A, p, Strays')
        /\ \A k \in Key \ DOMAIN items' : locks'[k] \subseteq Stray[k]
    BY ONLY <1>2, <1>13, OwnStrays
  <2>. QED BY <1>3, <2>1, StraysGo
<1>. QED BY <1>2, <1>3, <1>5, <1>14, <1>15, <1>16 DEF IInv

---------------------------------------------------------------------------
(* The specification                                                       *)

\* An empty store keeps the invariant.
LEMMA InitKeeps ==
    ASSUME Init
    PROVE  IInv
<1>1. PICK b : b = Begun
  OBVIOUS
<1>2. /\ Rec(b) /\ b.error = "none" /\ b.released = {} /\ b.touched = {}
      /\ b.sightings = EmptyTable /\ b.overlaps = EmptyTable /\ b.items = EmptyTable
      /\ b.instances = EmptyTable /\ b.evidence = EmptyTable /\ b.coverage = EmptyTable
      /\ b.roots = {} /\ b.seenRoots = {} /\ b.seen = {} /\ b.work = {}
      /\ b.next = 0 /\ b.locks = [k \in Key |-> {}]
  BY <1>1, BegunFields DEF Init
<1>3. DOMAIN EmptyTable = {}
  BY DEF EmptyTable
<1>4. Typed(b)
  <2>1. /\ IsTable(b.sightings, Ref, Sighting) /\ IsTable(b.overlaps, Ref, Refusal)
        /\ IsTable(b.items, Key, Holding) /\ IsTable(b.instances, 1 .. b.next, Video)
        /\ IsTable(b.evidence, DOMAIN b.instances, SUBSET Sub)
    BY <1>2, EmptyIsTable
  <2>. QED BY <1>2, <1>3, <2>1 DEF Typed
<1>5. /\ Linked(b) /\ Held(b) /\ Sourced(b, active) /\ Apart(b)
      /\ Unheld(b) /\ Refused(b, active)
  BY <1>2, <1>3 DEF Linked, Held, Sourced, Apart, Unheld, Refused
<1>6. Graded(b, policy, Strays)
  <2>1. \A k \in Key : b.locks[k] = Strays[k]
    BY <1>1, <1>2, <1>3, BegunFields DEF Strays
  <2>. QED BY <1>2, <1>3, <2>1 DEF Graded
<1>7. Core(Begun, active, policy, Strays)
  BY <1>1, <1>4, <1>5, <1>6 DEF Core
<1>8. IsTable(passes, active, Scopes)
  BY EmptyIsTable DEF Init
<1>9. RootsStamped
  BY DEF Init, RootsStamped
<1>. QED BY <1>7, <1>8, <1>9, MaxInstAssumption DEF Init, IInv

\* Every step, and a stutter, keeps the invariant and what it owes to the
\* pinned videos and to the owners.
LEMMA NextKeeps ==
    ASSUME IInv, [Next]_vars
    PROVE  IInv' /\ Pins /\ Owners /\ Renumbered /\ LocksGo
<1>1. ASSUME NEW r \in Root, NEW report \in Reports[r], ObserveItems(r, report)
      PROVE  IInv' /\ Pins /\ Owners /\ Renumbered /\ LocksGo
  BY <1>1, ObserveItemsKeeps
<1>2. ASSUME NEW s \in Source, Pass(s)
      PROVE  IInv' /\ Pins /\ Owners /\ Renumbered /\ LocksGo
  <2>1. ASSUME NEW scope \in Scopes, BeginPass(s, scope)
        PROVE  IInv' /\ Pins /\ Owners /\ Renumbered /\ LocksGo
    BY <2>1, BeginPassKeeps
  <2>2. ASSUME NEW complete \in BOOLEAN, NEW keep, FinishPass(s, complete, keep)
        PROVE  IInv' /\ Pins /\ Owners /\ Renumbered /\ LocksGo
    BY <2>2, FinishPassKeeps, Zenon
  <2>. QED BY <1>2, <2>1, <2>2, Zenon DEF Pass
<1>3. ASSUME NEW p \in Policy, NEW S \in SUBSET Source, Activate(p, S)
      PROVE  IInv' /\ Pins /\ Owners /\ Renumbered /\ LocksGo
  BY <1>3, ActivateKeeps
<1>4. ASSUME NEW i \in DOMAIN instances, Use(i)
      PROVE  IInv' /\ Pins /\ Owners /\ Renumbered /\ LocksGo
  <2>1. CASE Elapse(i)
    BY <2>1, ElapseStep
  <2>2. CASE BeginWrite(i) \/ EndUnlanded(i) \/ AckWork(i)
    BY <2>2, AsideSteps
  <2>3. ASSUME NEW ev \in Evidences, NEW swept, EndLanded(i, ev, swept) \/ PutEvidence(i, ev, swept)
        PROVE  IInv' /\ Pins /\ Owners /\ Renumbered /\ LocksGo
    BY <2>3, LandedKeeps, PutEvidenceKeeps, Zenon
  <2>4. ASSUME NEW q \in Pair, NEW locked \in BOOLEAN, SetLock(i, q, locked)
        PROVE  IInv' /\ Pins /\ Owners /\ Renumbered /\ LocksGo
    BY <2>4, SetLockKeeps, Zenon
  <2>. QED BY <1>4, <2>1, <2>2, <2>3, <2>4, Zenon DEF Use
<1>5. CASE UNCHANGED vars
  <2>1. UNCHANGED <<policy, active, passes, roots, sightings, seenRoots, seen, overlaps,
                    items, instances, next, evidence, locks, coverage, work, pinned, broken>>
    BY <1>5 DEF vars, configured, reported, holdings, graded
  <2>2. /\ roots \subseteq Root /\ seenRoots \subseteq Root /\ seen \subseteq Ref
        /\ work \subseteq DOMAIN instances
    <3>1. PICK b : b = Begun
      OBVIOUS
    <3>2. Typed(b)
      BY <3>1, BegunReady DEF Core
    <3>. QED BY <3>1, <3>2, BegunFields DEF Typed
  <2>3. Core(Begun', active, policy, Strays') /\ Pins /\ Owners /\ RootsStamped' /\ Renumbered /\ LocksGo
    BY <2>1, <2>2, AsideKeeps
  <2>. QED BY <2>1, <2>3 DEF IInv
<1>. QED BY <1>1, <1>2, <1>3, <1>4, <1>5, Zenon DEF Next, Otherwise

\* The invariant every committed store has: the tables, read as a transaction
\* that has not done anything yet, are those of a settled one.
THEOREM Invariance == Spec => []IInv
<1>1. Init => IInv
  BY InitKeeps
<1>2. IInv /\ [Next]_vars => IInv'
  BY NextKeeps
<1>. QED BY <1>1, <1>2, PTL DEF Spec

\* What the invariant says of the tables, for the theorems below.
LEMMA Committed ==
    ASSUME IInv
    PROVE  NothingDangles /\ OwnedIsReported /\ GradesCurrent
<1>1. PICK b : b = Begun
  OBVIOUS
<1>2. Core(b, active, policy, Strays)
  BY <1>1 DEF IInv
<1>3. /\ Rec(b) /\ b.error = "none"
      /\ b.released = {} /\ b.touched = {} /\ b.emptied = {}
      /\ b.sightings = sightings /\ b.roots = roots /\ b.seenRoots = seenRoots
      /\ b.seen = seen /\ b.overlaps = overlaps /\ b.items = items
      /\ b.instances = instances /\ b.next = next /\ b.evidence = evidence
      /\ b.locks = locks /\ b.coverage = coverage /\ b.work = work
  BY <1>1, BegunFields
<1>4. \A k : Recorded(Begun, k) <=> k \in DOMAIN items
  BY <1>1, <1>3 DEF Recorded
<1>5. TypeOK
  <2>1. /\ roots \subseteq Root /\ seenRoots \subseteq Root /\ seen \subseteq Ref
        /\ IsTable(sightings, Ref, Sighting) /\ IsTable(overlaps, Ref, Refusal)
        /\ IsTable(items, Key, Holding) /\ IsTable(instances, 1 .. next, Video)
        /\ IsTable(evidence, DOMAIN instances, SUBSET Sub)
        /\ next \in Nat /\ locks \in [Key -> SUBSET Pair]
        /\ work \subseteq DOMAIN instances
    BY <1>2, <1>3 DEF Core, Typed
  <2>2. next \in 0 .. MaxInst
    BY <2>1, MaxInstAssumption DEF IInv
  <2>3. IsTable(items, Key, [ref : Ref, inst : 0 .. MaxInst])
    <3>1. ASSUME NEW k \in DOMAIN items
          PROVE  items[k] \in [ref : Ref, inst : 0 .. MaxInst]
      <4>1. items[k] \in [ref : Ref, inst : Nat]
        BY <2>1 DEF IsTable, Holding
      <4>2. items[k].inst = NoInst \/ items[k].inst \in DOMAIN instances
        BY <1>2, <1>3 DEF Core, Linked
      <4>3. items[k].inst \in 0 .. MaxInst
        BY <2>1, <2>2, <4>2, MaxInstAssumption DEF IsTable, NoInst
      <4>. QED BY <4>1, <4>3
    <3>2. items = [k \in DOMAIN items |-> items[k]] /\ DOMAIN items \subseteq Key
      BY <2>1 DEF IsTable
    <3>. QED BY <3>1, <3>2 DEF IsTable
  <2>. QED BY <2>1, <2>2, <2>3 DEF TypeOK, IInv, Sighting, Refusal, Video
<1>6. NeverGone
  BY DEF NeverGone, IInv
<1>7. Attached
  BY <1>2, <1>3, <1>4 DEF Attached, Core, Linked, Held
<1>8. OverlapsLive
  <2>1. Refused(b, active)
    BY <1>2 DEF Core
  <2>. QED BY <1>3, <1>4, <2>1 DEF OverlapsLive, Refused, Ownerless
<1>9. OwnedIsReported
  BY <1>2, <1>3 DEF OwnedIsReported, Core, Sourced, Apart, ReportsAt
<1>10. GradesCurrent
  <2>1. Graded(b, policy, Strays)
    BY <1>2 DEF Core
  <2>2. ASSUME NEW k \in DOMAIN items,
               items[k].inst = NoInst \/ instances[items[k].inst].owner # NoOwner
        PROVE  GradedAt(b, policy, k)
    BY <1>3, <2>1, <2>2 DEF Graded, Ownerless
  <2>. QED BY <1>3, <2>1, <2>2 DEF GradesCurrent, Graded, GradedAt, ItemEvidence
<1>. QED BY <1>5, <1>6, <1>7, <1>8, <1>9, <1>10 DEF NothingDangles

\* No record of the store names what is gone: an item and its video agree on
\* being attached, a refused claim names a source in force and is still what
\* its ref reports, and no call ends on a missing row.
THEOREM NothingEverDangles == Spec => []NothingDangles
<1>1. IInv => NothingDangles
  BY Committed
<1>. QED BY <1>1, Invariance, PTL

\* Every video with an owner is one its source, in force, still reports at that
\* path with all the keys attached to it, and no two videos share a path.
THEOREM OwnedAlwaysReported == Spec => []OwnedIsReported
<1>1. IInv => OwnedIsReported
  BY Committed
<1>. QED BY <1>1, Invariance, PTL

\* Coverage and locks of an item whose video has an owner, or that has none,
\* are those of the policy, language and subtitles in force, after every call.
THEOREM GradesAlwaysCurrent == Spec => []GradesCurrent
<1>1. IInv => GradesCurrent
  BY Committed
<1>. QED BY <1>1, Invariance, PTL

\* After every call, coverage and locks of recorded items are current; a call
\* that takes an item's record takes its locks, and the only one that locks an
\* item with no record is the landing of a delivery on an ownerless video the
\* item was one of.
THEOREM GradesAlwaysKept == Spec => GradesKept
<1>1. IInv => GradesCurrent
  BY Committed
<1>2. IInv /\ [Next]_vars => [LocksGo]_vars
  BY NextKeeps
<1>. QED BY <1>1, <1>2, Invariance, PTL DEF Spec, GradesKept

\* While a write is pending on a video, no call changes its path or its items.
THEOREM PinsHold == Spec => PinnedKept
<1>1. IInv /\ [Next]_vars => [Pins]_vars
  BY NextKeeps
<1>. QED BY <1>1, Invariance, PTL DEF Spec, PinnedKept, Pins

\* A renumbered episode whose file stays where it was keeps its video: no report
\* that a pass hears once of the episode's root takes it out of the store.
THEOREM RenumberingsKeep == Spec => RenumberKeeps
<1>1. IInv /\ [Next]_vars => [Renumbered]_vars
  BY NextKeeps
<1>. QED BY <1>1, Invariance, PTL DEF Spec, RenumberKeeps, Renumbered

\* A video's owner changes only to another through having left the
\* configuration: no report of a live source takes another's video.
THEOREM OwnersHold == Spec => NoSteal
<1>1. IInv /\ [Next]_vars => [Owners]_vars
  BY NextKeeps
<1>. QED BY <1>1, Invariance, PTL DEF Spec, NoSteal, Owners

\* A video leaves neither its owner for another source nor, by a renumbering of
\* its item, the store.
THEOREM ClaimsAlwaysKept == Spec => ClaimsKept
BY OwnersHold, RenumberingsKeep, PTL DEF ClaimsKept
=============================================================================
