----------------------------- MODULE Ownership -----------------------------
(***************************************************************************)
(* internal/statedb: which source owns which video, and which items are    *)
(* attached to it.                                                         *)
(*                                                                         *)
(* A source (a Sonarr or Radarr instance) reports its library in passes.   *)
(* Each report of a root (a series or a movie) stores one sighting per     *)
(* item, and a sighting with a video path claims its item's key for the    *)
(* instance at that path, unless another live source owns the path or the  *)
(* key (an overlap).  Finishing a pass retires what the pass did not see.  *)
(* A new activation can remove sources, whose instances stay ownerless     *)
(* until another report claims them or they expire.                        *)
(*                                                                         *)
(* Every call is one transaction, written here as an operator that maps a  *)
(* transaction record t to the next one; the action commits its tables,    *)
(* or nothing when t.error says why the code gives up: "pinned" (a pending *)
(* write pins the instance) or "gone" (a row names one that is missing,    *)
(* which the code reports as an error of its own).                         *)
(*                                                                         *)
(* Pass ids are abstracted to what they are compared for: seen and         *)
(* seenRoots hold what the open pass of its source has stamped.  Orphan    *)
(* times are abstracted to whether the thirty days are over.  Reopening    *)
(* the store is in module WriteIntents: until Activate runs every call     *)
(* here is refused.                                                        *)
(***************************************************************************)
EXTENDS Tables, CoverageRules, Naturals, Sequences

CONSTANTS
    Source,
    Root,       \* the roots the sources report, each of one source
    Ref,        \* item refs, numbers in the order of their stored keys
    Key,
    Path,
    RootOf,     \* the root of each ref
    SourceOf,   \* the source of each root
    Reports,    \* the reports of a root: sequences of offers
    Scopes,     \* the scopes passes are begun over
    Evidences,  \* the evidence sets an instance's subtitles can amount to
    MaxInst     \* bound: instances ever created

NoKey == "no key"
NoPath == "no path"
NoOwner == "no owner"
NoInst == 0

SourceOfRef(ref) == SourceOf[RootOf[ref]]

Offer == [ref : Ref, key : Key \union {NoKey}, path : Path \union {NoPath},
          lang : Profile]

ASSUME NamesAssumption == NoKey \notin Key /\ NoPath \notin Path /\ NoOwner \notin Source
ASSUME RefAssumption == Ref \subseteq Nat /\ RootOf \in [Ref -> Root]
ASSUME RootAssumption == SourceOf \in [Root -> Source]
ASSUME ReportsAssumption ==
    \A r \in Root : \A rep \in Reports[r] :
        /\ rep \in Seq(Offer)
        /\ \A n \in DOMAIN rep : RootOf[rep[n].ref] = r
        /\ \A m, n \in DOMAIN rep : rep[m].ref = rep[n].ref => m = n
ASSUME ScopesAssumption == Scopes \subseteq [whole : BOOLEAN, roots : SUBSET Root]
ASSUME EvidencesAssumption == Evidences \subseteq SUBSET Sub
ASSUME MaxInstAssumption == MaxInst \in Nat

VARIABLES
    policy,     \* the language policy in force
    active,     \* the sources in force
    passes,     \* table 0x02: the scope of each source's open pass
    roots,      \* table 0x04: the root records
    sightings,  \* table 0x05: what each ref last reported
    seenRoots,  \* the roots stamped in their source's open pass
    seen,       \* the refs stamped in it
    overlaps,   \* table 0x07: the claims another source's ownership refused
    items,      \* table 0x08: the ref providing each key, and its instance
    instances,  \* table 0x09: the owner, path and keys of each video
    next,       \* the last instance id given out
    evidence,   \* the subtitles of each instance, as coverage counts them
    locks,      \* table 0x0B
    coverage,   \* table 0x0A
    work,       \* table 0x13: the instances with queued work
    pinned,     \* the instances a pending write pins
    broken      \* a call failed on a row naming one that is missing

configured == <<policy, active, passes>>
reported == <<roots, sightings, seenRoots, seen, overlaps>>
holdings == <<items, instances, next>>
graded == <<evidence, locks, coverage>>

vars == <<configured, reported, holdings, graded, work, pinned, broken>>

\* The scope of a pass: the whole source, or a change batch over some roots.
Whole == [whole |-> TRUE, roots |-> Root]
Batch(R) == [whole |-> FALSE, roots |-> R]

---------------------------------------------------------------------------
(* Transactions                                                            *)

\* An observation starts from the tables; released, emptied, attached and
\* touched are what settle decides on.
Begun == [sightings |-> sightings, roots |-> roots,
          seenRoots |-> seenRoots, seen |-> seen,
          overlaps |-> overlaps, items |-> items, instances |-> instances,
          next |-> next, evidence |-> evidence, locks |-> locks,
          coverage |-> coverage, work |-> work, pinned |-> pinned,
          released |-> {}, emptied |-> {}, attached |-> {}, touched |-> {},
          error |-> "none"]

Fail(t, why) == IF t.error = "none" THEN [t EXCEPT !.error = why] ELSE t

Commit(t) ==
    /\ t.error # "pinned"
    /\ IF t.error = "gone"
       THEN /\ broken' = TRUE
            /\ UNCHANGED <<reported, holdings, graded, work>>
       ELSE /\ sightings' = t.sightings /\ roots' = t.roots
            /\ seenRoots' = t.seenRoots /\ seen' = t.seen
            /\ overlaps' = t.overlaps /\ items' = t.items
            /\ instances' = t.instances /\ next' = t.next
            /\ evidence' = t.evidence /\ locks' = t.locks
            /\ coverage' = t.coverage /\ work' = t.work
            /\ UNCHANGED broken

Recorded(t, k) == k \in DOMAIN t.items

\* Faulty CheckUnpinned: a pending write pins nothing.
IgnorePins(t, I, u) == u

\* checkUnpinned: u, unless a pending write pins an instance of I.
CheckUnpinned(t, I, u) == IF I \intersect t.pinned # {} THEN Fail(t, "pinned") ELSE u

---------------------------------------------------------------------------
(* Coverage of recorded keys                                               *)

\* itemEvidence: an item with no instance has none.
ItemEvidence(t, k) ==
    IF t.items[k].inst = NoInst THEN {} ELSE t.evidence[t.items[k].inst]

\* An item of an ownerless instance keeps its rows as stored.
Ownerless(t, k) ==
    t.items[k].inst # NoInst /\ t.instances[t.items[k].inst].owner = NoOwner

\* The record of k names an instance or a sighting that is missing.
NamesGone(t, k) ==
    LET rec == t.items[k] IN
    \/ rec.inst # NoInst /\ rec.inst \notin DOMAIN t.instances
    \/ ~Ownerless(t, k) /\ rec.ref \notin DOMAIN t.sightings

\* recomputeKey for the keys of K.  The locks of what the instances of swept
\* hold are swept: an inventory write, over a complete inventory.
RecomputeKeys(t, p, K, swept) ==
    LET recorded == K \intersect DOMAIN t.items
        fresh == {k \in recorded : ~Ownerless(t, k)}
        lang(k) == t.sightings[t.items[k].ref].lang
    IN  IF \E k \in recorded : NamesGone(t, k) THEN Fail(t, "gone")
        ELSE [t EXCEPT
                !.coverage = [k \in DOMAIN t.coverage \union fresh |->
                    IF k \in fresh THEN CoverageRow(p, lang(k), ItemEvidence(t, k))
                    ELSE t.coverage[k]],
                !.locks = [k \in Key |->
                    IF k \in fresh
                    THEN KeptLocks(p, lang(k), ItemEvidence(t, k), t.locks[k], t.items[k].inst \in swept)
                    ELSE t.locks[k]]]

---------------------------------------------------------------------------
(* Losing keys and instances                                               *)

\* Faulty LoseKeys: coverage and locks outlive the items.
LoseRecords(t, K) == [t EXCEPT !.items = Drop(@, K)]

\* loseKey for the keys of K.
LoseKeys(t, K) ==
    [t EXCEPT !.items = Drop(@, K), !.coverage = Drop(@, K),
              !.locks = [k \in Key |-> IF k \in K THEN {} ELSE t.locks[k]]]

\* noVideoSightings: those that report k with no video.
Heirs(t, k) ==
    {ref \in DOMAIN t.sightings :
        t.sightings[ref].key = k /\ t.sightings[ref].path = NoPath}

FirstHeir(t, k) == CHOOSE ref \in Heirs(t, k) : \A r \in Heirs(t, k) : ref <= r

\* handOn: the first stored sighting claiming a lost key with no video takes
\* its record over; with none the key loses its rows.
HandOn(t, p, lost) ==
    LET given == {k \in lost : Heirs(t, k) # {}}
        u == LoseKeys(t, lost \ given)
        v == [u EXCEPT !.items = [k \in DOMAIN u.items |->
                IF k \in given THEN [ref |-> FirstHeir(t, k), inst |-> NoInst]
                ELSE u.items[k]]]
    IN  RecomputeKeys(v, p, given, {})

\* deleteInstance for the instances of I, with the tables that cascade.
DeleteInstances(t, I) ==
    [t EXCEPT !.instances = Drop(@, I), !.evidence = Drop(@, I),
              !.work = @ \ I]

\* The records of the keys K name no instance from here on.
Freed(t, K) ==
    [t EXCEPT !.items = [k \in DOMAIN t.items |->
                            IF k \in K THEN [ref |-> t.items[k].ref, inst |-> NoInst]
                            ELSE t.items[k]],
              !.released = @ \union K, !.touched = @ \union K]

\* unlinkRecord for the keys of the instances of I.
Unlink(t, I) ==
    Freed(t, {k \in DOMAIN t.items :
                t.items[k].inst \in I /\ k \in t.instances[t.items[k].inst].items})

\* expire, for the instances of I.
Expire(t, I) == DeleteInstances(Unlink(t, I), I)

\* detach, for each pair of L: the key leaves the instance, which settle
\* deletes if it stays empty.
Detach(t, L) ==
    LET leaving(i) == {k \in t.instances[i].items : <<i, k>> \in L}
        left == {i \in DOMAIN t.instances : leaving(i) # {}}
    IN  CheckUnpinned(t, left,
            [t EXCEPT
                !.instances = [i \in DOMAIN t.instances |->
                    [t.instances[i] EXCEPT !.items = @ \ leaving(i)]],
                !.emptied = @ \union left,
                !.attached = @ \ {i \in left : leaving(i) = t.instances[i].items}])

\* Faulty DropOverlaps: a claim that ends leaves its refusal behind.
KeepOverlaps(t, R) == t

\* dropOverlap for the refs of R.
DropOverlaps(t, R) == [t EXCEPT !.overlaps = Drop(@, R)]

\* release: the claims of the stored sightings of R, and their overlaps.
Release(t, R) ==
    LET K == {k \in DOMAIN t.items :
                t.items[k].ref \in R /\ t.sightings[t.items[k].ref].key = k}
    IN  Freed(Detach(DropOverlaps(t, R), {<<t.items[k].inst, k>> : k \in K}), K)

\* settle: instances left empty go, lost keys are handed on, and the other
\* touched keys recomputed.
Settle(t, p) ==
    LET empty == {i \in t.emptied \intersect DOMAIN t.instances :
                    t.instances[i].items = {}}
        u == DeleteInstances(t, empty)
        lost == {k \in u.released \intersect DOMAIN u.items :
                    u.items[k].inst = NoInst /\ u.items[k].ref \notin Heirs(u, k)}
    IN  RecomputeKeys(HandOn(u, p, lost), p, u.touched \ lost, {})

---------------------------------------------------------------------------
(* Claiming                                                                *)

\* Faulty HeldElsewhere: stamps are not looked at.
HeldByOtherSource(t, s, rec) == SourceOfRef(rec.ref) # s

\* heldElsewhere, of a record that names another ref.
HeldElsewhere(t, s, rec) == SourceOfRef(rec.ref) # s \/ rec.ref \in t.seen

\* noVideo (rule 2)
NoVideo(t, s, ref, k) ==
    IF /\ Recorded(t, k) /\ t.items[k].ref # ref
       /\ HeldElsewhere(t, s, t.items[k]) \/ t.items[k].inst # NoInst
    THEN t
    ELSE [t EXCEPT !.items = Put(@, k, [ref |-> ref, inst |-> NoInst])]

At(t, p) == {i \in DOMAIN t.instances : t.instances[i].path = p}
InstAt(t, p) == CHOOSE i \in At(t, p) : TRUE

\* What an instance of s at p holds after a claim.
Owning(s, p, K) == [owner |-> s, path |-> p, items |-> K, expired |-> FALSE]

Create(t, s, p, k) ==
    LET i == t.next + 1 IN
    [t EXCEPT !.next = i, !.instances = Put(@, i, Owning(s, p, {k})),
              !.evidence = Put(@, i, {}), !.attached = @ \union {i}]

Join(t, s, i, K) ==
    [t EXCEPT !.instances = Put(@, i, Owning(s, t.instances[i].path, K)),
              !.attached = @ \union {i}]

\* attach (rule 5): the instance at p gets k; an expired ownerless one goes
\* first, one claimed from no owner keeps only what this write attaches.
Attach(t, s, p, k) ==
    LET i == InstAt(t, p)
        row == t.instances[i]
    IN  IF At(t, p) = {} THEN Create(t, s, p, k)
        ELSE IF row.owner # NoOwner /\ k \in row.items THEN Join(t, s, i, row.items)
        ELSE CheckUnpinned(t, {i},
                 IF row.owner # NoOwner THEN Join(t, s, i, row.items \union {k})
                 ELSE IF row.expired THEN Create(Expire(t, {i}), s, p, k)
                 ELSE Join(Unlink(t, {i}), s, i, {k}))

\* The record of k names ref, at the instance at p.
RecordAt(t, ref, k, p) ==
    [t EXCEPT !.items = Put(@, k, [ref |-> ref, inst |-> InstAt(t, p)])]

\* attachKey: the record and the claim; the instance that held the key
\* elsewhere loses it.
AttachKey(t, s, ref, k, p) ==
    LET a == Attach(t, s, p, k)
        held == {i \in {t.items[x].inst : x \in {k} \intersect DOMAIN t.items} :
                    i # InstAt(a, p)}
    IN  IF a.error # "none" THEN a
        ELSE RecordAt(DropOverlaps(Detach(a, held \X {k}), {ref}), ref, k, p)

\* Faulty ForeignOwner: any source may claim.
Anyones(t, s, i) == FALSE

\* A live source other than s owns instance i.
ForeignOwner(t, s, i) ==
    i \in DOMAIN t.instances /\ t.instances[i].owner \notin {NoOwner, s}

\* overlap: the owner of instance i refuses the claim of ref.
Overlap(t, ref, i, byKey) ==
    [t EXCEPT !.overlaps = Put(@, ref, [owner |-> t.instances[i].owner, byKey |-> byKey])]

\* attachOrOverlap (rules 3 to 5): the next transaction, and whether the
\* sighting keeps its key.
AttachOrOverlap(t, s, ref, k, p) ==
    LET held == Recorded(t, k) /\ t.items[k].inst # NoInst
        onAt == held /\ t.items[k].inst \in At(t, p)
    IN  IF \E i \in At(t, p) : ForeignOwner(t, s, i)
        THEN [t |-> Overlap(t, ref, InstAt(t, p), FALSE), keyed |-> TRUE]
        ELSE IF held /\ ~onAt /\ ForeignOwner(t, s, t.items[k].inst)
        THEN [t |-> Overlap(t, ref, t.items[k].inst, TRUE), keyed |-> TRUE]
        ELSE IF /\ held /\ t.items[k].ref # ref /\ SourceOfRef(t.items[k].ref) = s
                /\ HeldElsewhere(t, s, t.items[k])
        THEN [t |-> DropOverlaps(t, {ref}), keyed |-> onAt]
        ELSE [t |-> AttachKey(t, s, ref, k, p), keyed |-> TRUE]

\* claim: rules 2 to 5 for an identified sighting.
Claim(t, s, offer) ==
    IF offer.key = NoKey THEN [t |-> t, keyed |-> FALSE]
    ELSE IF offer.path = NoPath
    THEN [t |-> NoVideo(t, s, offer.ref, offer.key), keyed |-> TRUE]
    ELSE AttachOrOverlap(t, s, offer.ref, offer.key, offer.path)

\* The stored sighting claims something else than the offer does.
Differs(t, offer) ==
    /\ offer.ref \in DOMAIN t.sightings
    /\ \/ t.sightings[offer.ref].key # offer.key
       \/ t.sightings[offer.ref].path # offer.path

\* observeItem: a claim that differs from the stored one is released first.
ObserveItem(t, s, offer) ==
    LET r == IF Differs(t, offer) THEN Release(t, {offer.ref}) ELSE t
        u == [r EXCEPT !.touched = @ \union ({offer.key} \ {NoKey})]
        c == Claim(u, s, offer)
        row == [key |-> IF c.keyed THEN offer.key ELSE NoKey, path |-> offer.path,
                lang |-> offer.lang]
    IN  IF t.error # "none" THEN t
        ELSE IF u.error # "none" THEN u
        ELSE [c.t EXCEPT !.sightings = Put(@, offer.ref, row),
                         !.seen = @ \union {offer.ref}]

\* observe, item by item.
ObserveAll(t, s, report) ==
    LET after[n \in 0 .. Len(report)] ==
            IF n = 0 THEN t ELSE ObserveItem(after[n - 1], s, report[n])
    IN  after[Len(report)]

\* enqueue: the known instances of ids.
Enqueue(t, ids) == [t EXCEPT !.work = @ \union (ids \intersect DOMAIN t.instances)]

\* ObserveItems: what s's open pass saw of root r; under a change batch the
\* instances it attached get work.
Observed(t, p, scope, r, report) ==
    LET u == [t EXCEPT !.roots = @ \union {r}, !.seenRoots = @ \union {r}]
        v == ObserveAll(u, SourceOf[r], report)
        x == Settle(v, p)
    IN  IF v.error # "none" THEN v
        ELSE IF scope.whole THEN x ELSE Enqueue(x, x.attached)

---------------------------------------------------------------------------
(* Finishing a pass                                                        *)

\* Faulty RetireRefs: the claims of the sightings that go stay.
RetireUnreleased(t, R) == [t EXCEPT !.sightings = Drop(@, R)]

\* retireOne for the refs of R.
RetireRefs(t, R) == [Release(t, R) EXCEPT !.sightings = Drop(@, R)]

\* retire: what the scope covers and the pass did not stamp.
Retire(t, s, scope, keep) ==
    LET covered(r) == SourceOf[r] = s /\ r \in scope.roots /\ r \notin keep
        staleRoots == {r \in t.roots : covered(r) /\ r \notin t.seenRoots}
        staleRefs == {ref \in DOMAIN t.sightings : covered(RootOf[ref]) /\ ref \notin t.seen}
    IN  RetireRefs([t EXCEPT !.roots = @ \ staleRoots], staleRefs)

\* expireOrphans
ExpireOrphans(t) ==
    Expire(t, {i \in DOMAIN t.instances :
                 t.instances[i].owner = NoOwner /\ t.instances[i].expired} \ t.pinned)

\* ownedOutside: s's instances with no item recorded under a kept root.
OwnedOutside(t, s, keep) ==
    {i \in DOMAIN t.instances :
        /\ t.instances[i].owner = s
        /\ \A k \in t.instances[i].items :
              ~(Recorded(t, k) /\ RootOf[t.items[k].ref] \in keep)}

\* completePass
Completed(t, p, s, scope, keep) ==
    LET u == Retire(t, s, scope, keep)
        x == Settle(ExpireOrphans(u), p)
    IN  IF u.error # "none" THEN u
        ELSE IF scope.whole THEN Enqueue(x, OwnedOutside(x, s, keep)) ELSE x

---------------------------------------------------------------------------
(* Actions                                                                 *)

\* The stamps of s match no open pass once its pass ends or another begins.
Unstamped(S, s) == {ref \in S : SourceOfRef(ref) # s}
UnstampedRoots(S, s) == {r \in S : SourceOf[r] # s}

BeginPass(s, scope) ==
    /\ s \in active
    /\ passes' = Put(passes, s, scope)
    /\ seen' = Unstamped(seen, s) /\ seenRoots' = UnstampedRoots(seenRoots, s)
    /\ UNCHANGED <<policy, active, roots, sightings, overlaps, holdings, graded, work,
                   pinned, broken>>

ObserveItems(r, report) ==
    /\ SourceOf[r] \in active \intersect DOMAIN passes
    /\ LET t == Observed(Begun, policy, passes[SourceOf[r]], r, report)
       IN  t.next <= MaxInst /\ Commit(t)
    /\ UNCHANGED <<policy, active, passes, pinned>>

FinishPass(s, complete, keep) ==
    /\ s \in active \intersect DOMAIN passes
    /\ keep # {} => complete /\ passes[s].whole
    /\ passes' = Drop(passes, {s})
    /\ LET t == IF complete THEN Completed(Begun, policy, s, passes[s], keep) ELSE Begun
       IN  Commit([t EXCEPT !.seen = Unstamped(@, s),
                           !.seenRoots = UnstampedRoots(@, s)])
    /\ UNCHANGED <<policy, active, pinned>>

\* removeSources: their rows go, their instances lose their owner, the keys
\* they provided with no video are handed on, overlaps naming them go.
Removed(t, p, R) ==
    LET gone(ref) == SourceOfRef(ref) \in R
        u == [t EXCEPT
                !.roots = {r \in @ : SourceOf[r] \notin R},
                !.sightings = Drop(@, {ref \in Ref : gone(ref)}),
                !.overlaps = Drop(@, {ref \in Ref : gone(ref)}),
                !.seenRoots = {r \in @ : SourceOf[r] \notin R},
                !.seen = {ref \in @ : ~gone(ref)},
                !.instances = [i \in DOMAIN t.instances |->
                    IF t.instances[i].owner \in R
                    THEN [t.instances[i] EXCEPT !.owner = NoOwner]
                    ELSE t.instances[i]]]
        v == HandOn(u, p, {k \in DOMAIN u.items :
                              u.items[k].inst = NoInst /\ gone(u.items[k].ref)})
    IN  [v EXCEPT !.overlaps =
            Drop(@, {ref \in DOMAIN v.overlaps : v.overlaps[ref].owner \in R})]

Activate(p, S) ==
    LET R == active \ S
        u == IF R = {} THEN Begun ELSE Removed(Begun, p, R)
    IN  /\ <<p, S>> # <<policy, active>>
        /\ policy' = p
        /\ active' = S
        /\ passes' = Drop(passes, R)
        /\ Commit(IF p = policy THEN u ELSE RecomputeKeys(u, p, DOMAIN u.items, {}))
        /\ UNCHANGED pinned

\* Thirty days go by for an ownerless instance.
Elapse(i) ==
    /\ instances[i].owner = NoOwner /\ ~instances[i].expired
    /\ instances' = [instances EXCEPT ![i].expired = TRUE]
    /\ UNCHANGED <<configured, reported, items, next, graded, work, pinned, broken>>

\* WriteIntents seen from here: a Begin pins the instance.
BeginWrite(i) ==
    /\ pinned' = pinned \union {i}
    /\ UNCHANGED <<configured, reported, holdings, graded, work, broken>>

\* An End unpins it, unless a write of another of its files is pending.
Unpins(i) == i \in pinned /\ pinned' \in {pinned, pinned \ {i}}

EndUnlanded(i) ==
    /\ Unpins(i)
    /\ UNCHANGED <<configured, reported, holdings, graded, work, broken>>

\* recomputeInstance, the last step of an inventory write of i: ls and ev are
\* the locks and the subtitles it leaves.  The records of its items name the
\* instances whose evidence and inventory count.
Homes(i) == {items[k].inst : k \in instances[i].items \intersect DOMAIN items}

Recomputed(i, ls, ev, swept) ==
    /\ Commit(RecomputeKeys([Begun EXCEPT !.locks = ls, !.evidence = Put(@, i, ev)],
                            policy, instances[i].items, swept))
    /\ UNCHANGED <<policy, active, passes>>

\* landDeliver: one written locked locks its pair on each item it was begun
\* for, recorded or not, whoever owns the video.
Locking(K, q) == [k \in Key |-> IF k \in K THEN locks[k] \union {q} ELSE locks[k]]

\* lockAdopted: a retime that adopts a file locks, on each item of an owned
\* video, the configured pairs that file alone serves.
Adopting(i, sub) ==
    LET named == {k \in instances[i].items \intersect DOMAIN items :
                    items[k].ref \in DOMAIN sightings}
    IN  [k \in Key |->
            IF instances[i].owner # NoOwner /\ k \in named
            THEN locks[k] \union {q \in Wants[policy][sightings[items[k].ref].lang] :
                                    Servable(policy, q, {sub})}
            ELSE locks[k]]

\* A landed End.  A delivery locks its pair on the items K of its attempt, none
\* unless it was written locked; a retime locks only when it adopts; a delete
\* locks nothing (K = {}).
EndLanded(i, ev, swept) ==
    /\ Unpins(i)
    /\ \/ \E K \in SUBSET instances[i].items, q \in Pair :
             Recomputed(i, Locking(K, q), ev, swept)
       \/ \E sub \in ev : Recomputed(i, Adopting(i, sub), ev, swept)

PutEvidence(i, ev, swept) == Recomputed(i, locks, ev, swept) /\ UNCHANGED pinned

\* SetLock on the items of an owned instance that configure the pair.
SetLock(i, q, locked) ==
    LET K == {k \in instances[i].items :
                q \in Wants[policy][sightings[items[k].ref].lang]}
    IN  /\ instances[i].owner # NoOwner
        /\ K # {}
        /\ locked => Servable(policy, q, evidence[i])
        /\ locks' = [k \in Key |-> IF k \notin K THEN locks[k]
                                   ELSE IF locked THEN locks[k] \union {q}
                                   ELSE locks[k] \ {q}]
        /\ UNCHANGED <<configured, reported, holdings, evidence, coverage, work,
                       pinned, broken>>

\* AckWork of a row still at its generation (module WorkQueue).
AckWork(i) ==
    /\ i \in work
    /\ work' = work \ {i}
    /\ UNCHANGED <<configured, reported, holdings, graded, pinned, broken>>

Init ==
    /\ policy \in Policy
    /\ active = Source
    /\ passes = EmptyTable /\ roots = {} /\ sightings = EmptyTable
    /\ seenRoots = {} /\ seen = {}
    /\ overlaps = EmptyTable /\ items = EmptyTable
    /\ instances = EmptyTable /\ next = 0
    /\ evidence = EmptyTable
    /\ locks = [k \in Key |-> {}]
    /\ coverage = EmptyTable
    /\ work = {} /\ pinned = {}
    /\ broken = FALSE

Pass(s) ==
    \/ \E scope \in Scopes : BeginPass(s, scope)
    \/ \E complete \in BOOLEAN, keep \in SUBSET {r \in Root : SourceOf[r] = s} :
          FinishPass(s, complete, keep)

Use(i) ==
    \/ Elapse(i)
    \/ BeginWrite(i)
    \/ EndUnlanded(i)
    \/ \E ev \in Evidences, swept \in SUBSET Homes(i) :
          EndLanded(i, ev, swept) \/ PutEvidence(i, ev, swept)
    \/ \E q \in Pair, locked \in BOOLEAN : SetLock(i, q, locked)
    \/ AckWork(i)

\* Every step but a report.
Otherwise ==
    \/ \E s \in Source : Pass(s)
    \/ \E p \in Policy, S \in SUBSET Source : Activate(p, S)
    \/ \E i \in DOMAIN instances : Use(i)

Next ==
    \/ \E r \in Root : \E report \in Reports[r] : ObserveItems(r, report)
    \/ Otherwise

Spec == Init /\ [][Next]_vars

---------------------------------------------------------------------------
(* Properties                                                              *)

TypeOK ==
    /\ policy \in Policy /\ active \subseteq Source
    /\ IsTable(passes, active, Scopes)
    /\ roots \subseteq Root /\ seenRoots \subseteq Root /\ seen \subseteq Ref
    /\ IsTable(sightings, Ref, [key : Key \union {NoKey}, path : Path \union {NoPath},
                                lang : Profile])
    /\ IsTable(overlaps, Ref, [owner : Source, byKey : BOOLEAN])
    /\ IsTable(items, Key, [ref : Ref, inst : 0 .. MaxInst])
    /\ IsTable(instances, 1 .. next,
               [owner : Source \union {NoOwner}, path : Path, items : SUBSET Key,
                expired : BOOLEAN])
    /\ next \in 0 .. MaxInst
    /\ IsTable(evidence, DOMAIN instances, SUBSET Sub)
    /\ locks \in [Key -> SUBSET Pair]
    /\ work \subseteq DOMAIN instances
    /\ broken \in BOOLEAN

\* No call ever meets a record whose sighting or instance is missing: the
\* store never reports "names a sighting that is gone" or "names instance,
\* which is gone" (coverage.go, reads.go).
NeverGone == ~broken

\* An item and its instance agree on being attached: a key is attached to one
\* video at most, and every video but the ownerless holds the keys recorded
\* for it and no other.
Attached ==
    /\ \A k \in DOMAIN items : items[k].inst # NoInst =>
          /\ items[k].inst \in DOMAIN instances
          /\ k \in instances[items[k].inst].items
    /\ \A i \in DOMAIN instances : instances[i].owner # NoOwner =>
          \A k \in instances[i].items : Recorded(Begun, k) /\ items[k].inst = i

\* The items of an ownerless video stay recorded for it until another
\* sighting takes them: the record names an instance, and noVideo leaves such
\* a record alone.
\* The code does not keep it: see the README's disagreements.
OrphanKeepsItems ==
    \A i \in DOMAIN instances : \A k \in instances[i].items :
        Recorded(Begun, k) /\ items[k].inst = i

\* Every video an owner holds is one its source still reports at that path,
\* with the keys it is attached to; and no two videos share a path.
OwnedIsReported ==
    /\ \A i \in DOMAIN instances : instances[i].owner # NoOwner =>
          /\ instances[i].owner \in active
          /\ instances[i].items # {}
          /\ \A k \in instances[i].items : LET ref == items[k].ref IN
                /\ SourceOfRef(ref) = instances[i].owner
                /\ ref \in DOMAIN sightings
                /\ sightings[ref].key = k /\ sightings[ref].path = instances[i].path
    /\ \A i, j \in DOMAIN instances : instances[i].path = instances[j].path => i = j

\* A sighting just reported with an item and a path, and refused to nobody, has
\* its source's video there: "at p it is the same file reported twice"
\* (attachOrOverlap).
\* The code does not keep it: see the README's disagreements.
ReportedIsHeld ==
    [][\A ref \in seen' \ seen : LET row == sightings'[ref] IN
          \/ row.key = NoKey \/ row.path = NoPath \/ ref \in DOMAIN overlaps'
          \/ \E i \in DOMAIN instances' :
                /\ instances'[i].path = row.path
                /\ instances'[i].owner = SourceOfRef(ref)]_vars

\* A refused claim names a source in force, is still what the ref reports, and
\* its item is not the ref's, unless as one of a video the ref's source owned
\* before it was removed and added again.
OverlapsLive ==
    \A ref \in DOMAIN overlaps :
        /\ overlaps[ref].owner \in active \ {SourceOfRef(ref)}
        /\ ref \in DOMAIN sightings
        /\ sightings[ref].key # NoKey /\ sightings[ref].path # NoPath
        /\ LET k == sightings[ref].key IN
           Recorded(Begun, k) /\ items[k].ref = ref =>
              items[k].inst # NoInst /\ instances[items[k].inst].owner = NoOwner

\* Every record is well formed, and none points to what is gone: not an item
\* or a video to the other, nor a refused claim to a source that left.
NothingDangles == TypeOK /\ NeverGone /\ Attached /\ OverlapsLive

\* Coverage is of recorded items only, and it and the locks of an item whose
\* video is not ownerless are what a fresh computation gives, through every
\* attach, hand-on, renumbering, landed write and configuration change.
GradesCurrent ==
    /\ DOMAIN coverage \subseteq DOMAIN items
    /\ \A k \in DOMAIN items :
          LET rec == items[k]
              x == sightings[rec.ref].lang
              ev == IF rec.inst = NoInst THEN {} ELSE evidence[rec.inst]
          IN  (rec.inst = NoInst \/ instances[rec.inst].owner # NoOwner) =>
              /\ k \in DOMAIN coverage /\ coverage[k] = CoverageRow(policy, x, ev)
              /\ locks[k] \subseteq Wants[policy][x]

\* An item that loses its record loses its locks with it (loseKey), and one
\* with no record is locked by nothing but a delivery that lands on an
\* ownerless video it was one of (landDeliver).
LocksGo ==
    \A k \in Key \ DOMAIN items' :
        /\ k \in DOMAIN items => locks'[k] = {}
        /\ \/ locks'[k] \subseteq locks[k]
           \/ \E i \in pinned : instances[i].owner = NoOwner /\ k \in instances[i].items

\* Whatever a call does, it leaves what coverage and locks say current, and
\* gone with what it is said of.
GradesKept == [][GradesCurrent' /\ LocksGo]_vars

\* Locks are of recorded items only.
\* The code does not keep it: see the README's disagreements.
LocksOfRecorded == \A k \in Key \ DOMAIN items : locks[k] = {}

\* While a write is pending on a video, it keeps its path and its items.
PinnedKept ==
    [][\A i \in pinned \intersect pinned' :
          /\ i \in DOMAIN instances'
          /\ instances'[i].items = instances[i].items
          /\ instances'[i].path = instances[i].path]_vars

\* No source takes a video from a live one: an owner changes only to another
\* through having left the configuration first.
NoSteal ==
    [][\A i \in DOMAIN instances \intersect DOMAIN instances' :
          instances[i].owner \notin {NoOwner, instances'[i].owner} =>
              /\ instances'[i].owner = NoOwner
              /\ instances[i].owner \notin active']_vars

\* A renumbered episode whose file stays where it was keeps its video, and
\* with it the subtitle files recorded beside it, when its root is reported
\* once in a pass (reported again, the new number can belong to a sighting
\* of the first report, and the claim is dropped).
RenumberKeeps ==
    [][\A i \in DOMAIN instances : \A k \in instances[i].items :
          LET ref == items[k].ref IN
          /\ instances[i].owner # NoOwner
          /\ ref \in DOMAIN sightings'
          /\ sightings'[ref].path = instances[i].path
          /\ sightings'[ref].key \notin {NoKey, k}
          /\ ref \notin DOMAIN overlaps'
          /\ RootOf[ref] \notin seenRoots
          => i \in DOMAIN instances']_vars

\* A video leaves neither its owner for another source nor, by a renumbering
\* of its item, the store.
ClaimsKept == NoSteal /\ RenumberKeeps
=============================================================================
