----------------------------- MODULE StoreReads -----------------------------
(***************************************************************************)
(* The rest of the store (internal/statedb): the paged lists the API       *)
(* serves (reads.go, history.go, cursor.go) and the small tables beside    *)
(* the inventory -- downloads, no-results, ordinals, root evidence and     *)
(* credential disables -- with the cascades of schema.go that keep them    *)
(* under their parents.                                                    *)
(*                                                                         *)
(* A list is walked page by page: each page is one read transaction, and   *)
(* between two pages any write may commit.  A cursor is the list, its      *)
(* scope and the position of the last row served.  How a report finds the  *)
(* instance of an item is Ownership's; here Observe only says what a       *)
(* report leaves behind, so that the lists move under the walk.            *)
(***************************************************************************)
EXTENDS Tables, Integers, Sequences, SequencesExt, FiniteSets, FiniteSetsExt

CONSTANTS
    RootKeys,      \* root keys, naturals in the order of their bytes
    Episodes,      \* numbers within a root, naturals in the order of their bytes
    Refs,          \* the sources' own roots
    KeyOf,         \* the root key each of them has
    Natives,       \* item ids under a ref that identify no media
    Providers,     \* provider names; one of them may be NoName
    NoName,        \* the empty name
    Tags,          \* language tags with flags
    Limits,        \* page sizes a caller asks for
    MaxLimit,      \* maxListLimit
    Highest,       \* ordinals found on disk, a few below zero
    MaxInt,        \* math.MaxInt; a uint64 counts to 2 * MaxInt + 1
    MaxEdits       \* bound on commits

ASSUME StoreAssumption ==
    /\ RootKeys \subseteq Nat /\ IsFiniteSet(RootKeys) /\ Episodes \subseteq Nat /\ IsFiniteSet(Episodes)
    /\ IsFiniteSet(Refs) /\ IsFiniteSet(Natives) /\ MaxLimit \in Nat
    /\ MaxInt \in Nat /\ Highest \subseteq Int /\ \A h \in Highest : h <= MaxInt

Keys == RootKeys \X Episodes
ItemRefs == Refs \X Natives

\* Media keys compare by root, then by number: their bytes are fixed width.
KeyLess(a, b) == a[1] < b[1] \/ (a[1] = b[1] /\ a[2] < b[2])

VARIABLES
    roots,         \* the refs with a root row
    items,         \* key -> its ref and its instance, 0 for none
    instances,     \* instance -> owned or not
    unidentified,  \* the item refs whose sighting has no key
    downloads,     \* sequence -> the keys an attempt names
    noResults,     \* <<key, tag, provider>> -> count
    ordinals,      \* <<instance, tag>> -> Next
    evidence,      \* the refs with root evidence
    credentials,   \* the providers with a disable record
    ids,           \* the last instance id and the last download sequence
    walk,          \* the reader's walk through one list
    reserved,      \* every ordinal handed out: key, number, highest on disk
    edits          \* commits so far

rvars == <<roots, items, instances, unidentified, downloads, noResults, ordinals,
           evidence, credentials, ids, walk, reserved, edits>>

-----------------------------------------------------------------------------
\* A list is its name and its scope, a root's being the first part of its
\* items' and <<>> none.  A position in it is a root, a key, an item ref or, in
\* the histories -- the whole log, a root's and an item's -- a sequence.
Histories ==
    [list : {"log"}, scope : {<<>>}] \union [list : {"rootHistory"}, scope : {<<r>> : r \in RootKeys}]
    \union [list : {"itemHistory"}, scope : Keys]

\* An item is listed unless its instance is ownerless.
Listed(its, ins) == {k \in DOMAIN its : its[k].inst = 0 \/ ins[its[k].inst]}

\* A download is in a root's history once, whatever it names of that root.
InHistory(log, l) ==
    {<<n>> : n \in {n \in DOMAIN log :
        \/ l.list = "log"
        \/ l.list = "rootHistory" /\ \E k \in log[n] : <<k[1]>> = l.scope
        \/ l.list = "itemHistory" /\ l.scope \in log[n]}}

ListedRoots(its, ins) == {<<k[1]>> : k \in Listed(its, ins)}

RowsOf(l, its, ins, un, log) ==
    CASE l.list = "roots" -> ListedRoots(its, ins)
      [] l.list = "items" -> {k \in Listed(its, ins) : <<k[1]>> = l.scope}
      [] l.list = "unidentified" -> un
      [] OTHER -> InHistory(log, l)

Rows(l) == RowsOf(l, items, instances, unidentified, downloads)

RefRank == CHOOSE f \in [ItemRefs -> 1 .. Cardinality(ItemRefs)] : IsInjective(f)

\* The order a list serves its rows in: history newest first.
Precedes(l, a, b) ==
    CASE l.list = "roots" -> a[1] < b[1]
      [] l.list = "items" -> KeyLess(a, b)
      [] l.list = "unidentified" -> RefRank[a] < RefRank[b]
      [] OTHER -> a[1] > b[1]

NoPlace == [none |-> TRUE]
At(row) == [none |-> FALSE, row |-> row]

\* What a page may still serve: the rows past the last one served.
FromLast(l, rows, last) ==          \* a faulty resumption, at the last row itself
    {r \in rows : last.none \/ last.row = r \/ Precedes(l, last.row, r)}

Ahead(l, rows, last) == {r \in rows : last.none \/ Precedes(l, last.row, r)}

Refused == [list |-> "refused", scope |-> <<>>]

\* The place a cursor names in list l: its own list and scope only.
Position(l, cursor) ==
    IF cursor.none THEN NoPlace
    ELSE IF cursor.of = l THEN cursor.last ELSE Refused

\* The rows before r in the list's order, and the n-th row of a set of rows.
Earlier(l, rows, r) == {a \in rows : Precedes(l, a, r)}
NthOf(l, rows, n) == CHOOSE r \in rows : Cardinality(Earlier(l, rows, r)) = n - 1

\* One page: the first `limit` rows ahead, and a cursor at the last of them
\* only when another row exists.
Page(l, last, limit) ==
    LET ahead == Ahead(l, Rows(l), last)
        count == IF limit < Cardinality(ahead) THEN limit ELSE Cardinality(ahead)
        rows == [n \in 1 .. count |-> NthOf(l, ahead, n)]
    IN [rows |-> rows,
        next |-> IF Cardinality(ahead) > limit THEN [none |-> FALSE, of |-> l, last |-> At(rows[count])]
                 ELSE [none |-> TRUE]]

NoWalk == [on |-> FALSE]

\* The walk as the next commit leaves it: `through` keeps the rows listed ever since it began.
Kept(its, ins, un, log) ==
    walk' = IF walk.on
            THEN [walk EXCEPT !.through = @ \intersect RowsOf(walk.of, its, ins, un, log)] ELSE walk

-----------------------------------------------------------------------------
\* A store as Open finds it: some keys, each on a file of its own.
RInit ==
    \E K \in SUBSET Keys :
        /\ roots = {CHOOSE f \in Refs : KeyOf[f] = k[1] : k \in K}
        /\ items = [k \in K |-> [ref |-> CHOOSE f \in Refs : KeyOf[f] = k[1],
                                 inst |-> Cardinality({j \in K : j = k \/ KeyLess(j, k)})]]
        /\ instances = [n \in 1 .. Cardinality(K) |-> TRUE]
        /\ ids = [inst |-> Cardinality(K), seq |-> 0]
        /\ unidentified = {} /\ downloads = EmptyTable /\ noResults = EmptyTable
        /\ ordinals = EmptyTable /\ evidence = {} /\ credentials = {}
        /\ walk = NoWalk /\ reserved = <<>> /\ edits = 0

Commits == edits < MaxEdits /\ edits' = edits + 1

\* The tables after its and ins are the items and instances: an instance no
\* item names is deleted, and cascades take its ordinals and a gone item's
\* no-results.
Cascade(its, ins) ==
    LET named == {its[k].inst : k \in DOMAIN its}
        kept == [i \in DOMAIN ins \intersect named |-> ins[i]]
    IN /\ items' = its
       /\ instances' = kept
       /\ ordinals' = Drop(ordinals, {o \in DOMAIN ordinals : o[1] \notin DOMAIN kept})
       /\ noResults' = Drop(noResults, {n \in DOMAIN noResults : n[1] \notin DOMAIN its})
       /\ Kept(its, kept, unidentified', downloads)

\* A report of root ref: its row is put, its evidence put or deleted when the
\* report carries none, and key k is held by an instance the source owns, by
\* a new one, or by none when it has no video.
Observe(ref, k, inst, withEvidence) ==
    /\ Commits
    /\ KeyOf[ref] = k[1]
    /\ inst \in DOMAIN instances \union {0, ids.inst + 1}
    /\ roots' = roots \union {ref}
    /\ evidence' = IF withEvidence THEN evidence \union {ref} ELSE evidence \ {ref}
    /\ ids' = IF inst > ids.inst THEN [ids EXCEPT !.inst = inst] ELSE ids
    /\ UNCHANGED unidentified
    /\ Cascade(Put(items, k, [ref |-> ref, inst |-> inst]),
              IF inst = 0 THEN instances ELSE Put(instances, inst, TRUE))
    /\ UNCHANGED <<downloads, credentials, reserved>>

\* The last sighting of k goes: its item row with it.
Forget(k) ==
    /\ Commits
    /\ k \in DOMAIN items
    /\ UNCHANGED <<roots, unidentified>>
    /\ Cascade(Drop(items, {k}), instances)
    /\ UNCHANGED <<downloads, evidence, credentials, ids, reserved>>

\* A removed source leaves its instances ownerless: their items stay stored and are not listed.
Orphan(inst) ==
    /\ Commits
    /\ inst \in DOMAIN instances /\ instances[inst]
    /\ UNCHANGED <<roots, unidentified>>
    /\ Cascade(items, [instances EXCEPT ![inst] = FALSE])
    /\ UNCHANGED <<downloads, evidence, credentials, ids, reserved>>

\* A root no item names is dropped, and the cascade takes its evidence.
DropRoot(ref) ==
    /\ Commits
    /\ ref \in roots /\ \A k \in DOMAIN items : items[k].ref # ref
    /\ roots' = roots \ {ref}
    /\ evidence' = evidence \ {ref}
    /\ unidentified' = {u \in unidentified : u[1] # ref}
    /\ Kept(items, instances, unidentified', downloads)
    /\ UNCHANGED <<items, instances, downloads, noResults, ordinals, credentials, ids, reserved>>

\* A sighting with no key is indexed as unidentified, and leaves the index when it gets one.
Sight(u) ==
    /\ Commits
    /\ u[1] \in roots
    /\ unidentified' = IF u \in unidentified THEN unidentified \ {u} ELSE unidentified \union {u}
    /\ Kept(items, instances, unidentified', downloads)
    /\ UNCHANGED <<roots, items, instances, downloads, noResults, ordinals, evidence, credentials, ids, reserved>>

-----------------------------------------------------------------------------
\* RecordAttempts appends what it is given in one transaction; it refuses a
\* delivered attempt, and one that names no item.
Attempts == [items : SUBSET Keys, delivered : BOOLEAN]

AttemptsAccepted(ds) == \A n \in DOMAIN ds : ~ds[n].delivered /\ ds[n].items # {}

RecordAttempts(ds) ==
    /\ Commits
    /\ AttemptsAccepted(ds)
    /\ downloads' = [n \in DOMAIN downloads \union (ids.seq + 1) .. (ids.seq + Len(ds)) |->
                       IF n > ids.seq THEN ds[n - ids.seq].items ELSE downloads[n]]
    /\ ids' = [ids EXCEPT !.seq = @ + Len(ds)]
    /\ Kept(items, instances, unidentified, downloads')
    /\ UNCHANGED <<roots, items, instances, unidentified, noResults, ordinals, evidence, credentials, reserved>>

\* One row of a batch: a count of zero deletes, and a key with no item row is skipped.
PutAnyNoResult(t, nr) ==            \* a faulty form, that asks for no item row
    LET k == <<nr.key, nr.tag, nr.provider>> IN IF nr.count = 0 THEN Drop(t, {k}) ELSE Put(t, k, nr.count)

PutNoResult(t, nr) ==
    LET k == <<nr.key, nr.tag, nr.provider>>
    IN IF nr.count = 0 THEN Drop(t, {k})
       ELSE IF nr.key \notin DOMAIN items THEN t ELSE Put(t, k, nr.count)

\* The rows of a batch, one after the other.
AfterRows(rows) ==
    LET after[n \in 0 .. Len(rows)] ==
            IF n = 0 THEN noResults ELSE PutNoResult(after[n - 1], rows[n])
    IN  after[Len(rows)]

\* A batch with a negative count is refused whole, before the transaction.
PutNoResults(rows) ==
    /\ Commits
    /\ \A n \in DOMAIN rows : rows[n].count >= 0
    /\ noResults' = AfterRows(rows)
    /\ Kept(items, instances, unidentified, downloads)
    /\ UNCHANGED <<roots, items, instances, unidentified, downloads, ordinals, evidence, credentials, ids, reserved>>

StoredNext(o) == IF o \in DOMAIN ordinals THEN ordinals[o] ELSE 0

\* The ordinal ReserveOrdinal hands out: past those it handed out, and past
\* the highest its caller found on disk.
NextStored(o, highest) ==           \* a faulty form, that looks at the disk only the first time
    IF o \in DOMAIN ordinals THEN ordinals[o] ELSE highest + 1

NextOrdinal(o, highest) ==
    LET next == StoredNext(o)
        above == (highest + 1) % (2 * MaxInt + 2)
    IN IF next > above THEN next ELSE above

ReserveOrdinal(o, highest) ==
    /\ Commits
    /\ highest >= 0
    /\ o[1] \in DOMAIN instances
    /\ LET n == NextOrdinal(o, highest)
       IN /\ n <= MaxInt
          /\ ordinals' = Put(ordinals, o, n + 1)
          /\ reserved' = Append(reserved, [key |-> o, n |-> n, highest |-> highest])
    /\ UNCHANGED <<roots, items, instances, unidentified, downloads, noResults, evidence, credentials, ids, walk>>

PutCredentialDisable(p) ==
    /\ Commits
    /\ p # NoName
    /\ credentials' = credentials \union {p}
    /\ UNCHANGED <<roots, items, instances, unidentified, downloads, noResults, ordinals, evidence, ids, walk, reserved>>

DeleteCredentialDisable(p) ==
    /\ Commits
    /\ p # NoName
    /\ credentials' = credentials \ {p}
    /\ UNCHANGED <<roots, items, instances, unidentified, downloads, noResults, ordinals, evidence, ids, walk, reserved>>

-----------------------------------------------------------------------------
LimitOK(limit) == limit \in 1 .. MaxLimit

\* A call reads one page of list l.  A limit outside 1 to maxListLimit and a
\* cursor of another list are refused, and the walk goes on where it was.
ReadPage(l, limit) ==
    LET begun == walk.on /\ ~walk.next.none
        last == Position(l, IF begun THEN walk.next ELSE [none |-> TRUE])
    IN /\ LimitOK(limit)
       /\ last # Refused
       /\ ~walk.on \/ begun
       /\ LET page == Page(l, last, limit)
          IN walk' = [on |-> TRUE, of |-> l, next |-> page.next,
                      served |-> IF begun THEN walk.served \o page.rows ELSE page.rows,
                      through |-> IF begun THEN walk.through ELSE Rows(l)]
       /\ UNCHANGED <<roots, items, instances, unidentified, downloads, noResults, ordinals,
                      evidence, credentials, ids, reserved, edits>>

ReadRoots(limit) == ReadPage([list |-> "roots", scope |-> <<>>], limit)

ReadItems(root, limit) == ReadPage([list |-> "items", scope |-> <<root>>], limit)

ReadUnidentified(limit) == ReadPage([list |-> "unidentified", scope |-> <<>>], limit)

ReadHistory(l, limit) == ReadPage(l, limit)

EndWalk ==
    /\ walk.on /\ walk.next.none
    /\ walk' = NoWalk
    /\ UNCHANGED <<roots, items, instances, unidentified, downloads, noResults, ordinals,
                   evidence, credentials, ids, reserved, edits>>

-----------------------------------------------------------------------------
\* The batches the callers write.
SomeAttempts ==
    {<<[items |-> K, delivered |-> d]>> : K \in {{}, {<<Min(RootKeys), Min(Episodes)>>}, Keys}, d \in BOOLEAN}
    \union {<<[items |-> Keys, delivered |-> FALSE], [items |-> {k}, delivered |-> FALSE]>> : k \in {<<Min(RootKeys), Min(Episodes)>>}}

SomeNoResults ==
    {<<[key |-> k, tag |-> t, provider |-> p, count |-> c]>> : k \in Keys, t \in Tags, p \in Providers \ {NoName}, c \in -1 .. 1}

RNext ==
    \/ \E ref \in Refs, k \in Keys, inst \in 0 .. ids.inst + 1, e \in BOOLEAN : Observe(ref, k, inst, e)
    \/ \E k \in Keys : Forget(k)
    \/ \E inst \in DOMAIN instances : Orphan(inst)
    \/ \E ref \in Refs : DropRoot(ref)
    \/ \E u \in ItemRefs : Sight(u)
    \/ \E ds \in SomeAttempts : RecordAttempts(ds)
    \/ \E rows \in SomeNoResults : PutNoResults(rows)
    \/ \E inst \in DOMAIN instances, t \in Tags, h \in Highest : ReserveOrdinal(<<inst, t>>, h)
    \/ \E p \in Providers : PutCredentialDisable(p)
    \/ \E p \in Providers : DeleteCredentialDisable(p)
    \/ \E limit \in Limits : ReadRoots(limit)
    \/ \E root \in RootKeys, limit \in Limits : ReadItems(root, limit)
    \/ \E limit \in Limits : ReadUnidentified(limit)
    \/ \E l \in Histories, limit \in Limits : ReadHistory(l, limit)
    \/ EndWalk

RSpec == RInit /\ [][RNext]_rvars

-----------------------------------------------------------------------------
\* A walk from the first page to the last serves its rows in order and none
\* twice, and every row that was listed all through it is among them, however
\* the store changed between two pages; a page that has a next one is not the last.
PagesComplete ==
    walk.on =>
        /\ \A i, j \in DOMAIN walk.served : i < j => Precedes(walk.of, walk.served[i], walk.served[j])
        /\ \A r \in walk.through :
              \/ r \in Range(walk.served)
              \/ ~walk.next.none /\ Precedes(walk.of, walk.next.last.row, r)

\* No ordinal is handed out twice for one name, nor one that a file on disk
\* already carries, up to the largest int: a delivery never overwrites the
\* file an earlier one wrote.
OrdinalsRise ==
    /\ \A i, j \in DOMAIN reserved :
          i < j /\ reserved[i].key = reserved[j].key => reserved[i].n < reserved[j].n
    /\ \A i \in DOMAIN reserved : reserved[i].n > reserved[i].highest /\ reserved[i].n <= MaxInt

\* The small tables never outlive what they are about: a no-result names a
\* stored item, an ordinal a stored instance, evidence a stored root, and an
\* item a stored instance and a stored root.
RowsHaveParents ==
    /\ \A n \in DOMAIN noResults : n[1] \in DOMAIN items
    /\ \A o \in DOMAIN ordinals : o[1] \in DOMAIN instances
    /\ evidence \subseteq roots
    /\ \A u \in unidentified : u[1] \in roots
    /\ \A k \in DOMAIN items :
          items[k].ref \in roots /\ (items[k].inst # 0 => items[k].inst \in DOMAIN instances)
=============================================================================
