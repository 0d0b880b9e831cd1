---------------------------- MODULE WriteIntents ----------------------------
(***************************************************************************)
(* internal/statedb: the write-intent protocol and what it changes.        *)
(*                                                                         *)
(* A subtitle file is written beside a video in two store calls.  Begin    *)
(* stages the write under the file's name and changes nothing else; the    *)
(* caller then touches the disk; End settles the intent in one transaction *)
(* that updates the file record, its baseline, the locks, the download log *)
(* and the coverage of every item of the video.  The store may be closed   *)
(* or killed between any two calls: the tables survive, the activation in  *)
(* force (the policy every grade is computed under) does not, and until    *)
(* Activate runs again the calls that need it are refused.                 *)
(*                                                                         *)
(* One action is one store call.  A refused call and one that changes      *)
(* nothing are stuttering steps.  Which items a video holds is fixed here  *)
(* (Holds); module Ownership models the calls that change it, which are    *)
(* refused while an intent pins the video.  A definition marked "Faulty" is *)
(* a plausible mistake in the one it precedes, used to see that the         *)
(* properties would notice it; it is no part of the specification.          *)
(***************************************************************************)
EXTENDS Tables, CoverageRules, Naturals

CONSTANTS
    Inst,       \* instances: the video files subtitles are written beside
    Name,       \* subtitle file names
    Key,        \* items: episodes and movies
    Holds,      \* the items of each instance
    LangOf,     \* the language facts of each item's sighting
    Content,    \* the bytes of a subtitle file, as its SHA-256 tells apart
    SubOf,      \* the tag and flags of a file with these bytes
    Run,        \* search runs, whose attempts are handed to the store once
    Plan,       \* what each run's delivery stages, when it delivers
    Listings,   \* the local-file sets a directory listing can answer
    Probes,     \* the subtitle tracks a probe can find
    MaxGen      \* bound: no write begins on a record of this generation

ASSUME HoldsAssumption ==
    /\ Holds \in [Inst -> SUBSET Key]
    /\ \A i, j \in Inst : i # j => Holds[i] \intersect Holds[j] = {}
ASSUME LangAssumption == LangOf \in [Key -> Profile]
ASSUME ContentAssumption == SubOf \in [Content -> Sub]
ASSUME PlanAssumption ==
    Plan \in [Run -> [content : Content, locked : BOOLEAN, items : SUBSET Key,
                      pair : Pair, removes : SUBSET (Name \X Content)]]
ASSUME ListingsAssumption == Listings \subseteq UNION {[N -> Sub] : N \in SUBSET Name}
ASSUME ProbesAssumption == Probes \subseteq SUBSET Sub
ASSUME MaxGenAssumption == MaxGen \in Nat

VARIABLES
    policy,     \* the language policy of the stored activation row
    active,     \* an activation is in force since the store opened
    owned,      \* the instance has an owner; FALSE is ownerless
    intents,    \* table 0x0F: the pending write of a file
    files,      \* table 0x0C: the record of a managed file
    baselines,  \* table 0x0D: the files whose baseline cues are stored
    local,      \* table 0x10: an instance's unmanaged files, name to subtitle
    embedded,   \* table 0x11: the subtitle tracks a probe found
    locks,      \* table 0x0B: the locked pairs of each item
    coverage,   \* table 0x0A: the coverage row of each item
    downloads,  \* table 0x12: how often each attempt was logged, by outcome
    begun       \* attempts handed to the store so far

libraryVars == <<files, baselines, local, locks, coverage>>
vars == <<policy, active, owned, intents, files, baselines, local, embedded,
          locks, coverage, downloads, begun>>

File == Inst \X Name
Row == [content : Content, gen : Nat]
Outcome == {"delivered", "undelivered"}

\* An intent holds what its End will write.  "removes" gives the bytes each
\* superseded file must still hold; "adopt" is a staged baseline.
Delivery == [op : {"deliver"}, content : Content, locked : BOOLEAN,
             items : SUBSET Key, pair : Pair, removes : SUBSET (Name \X Content),
             run : Run]
Retiming == [op : {"retime"}, content : Content, adopt : BOOLEAN]
Deletion == [op : {"delete"}]
Intent == Delivery \union Retiming \union Deletion

Managed(f) == f \in DOMAIN files
Pending(f) == f \in DOMAIN intents
Pinned(i) == \E f \in DOMAIN intents : f[1] = i
Generation(f) == IF Managed(f) THEN files[f].gen ELSE 0

---------------------------------------------------------------------------
(* Evidence and coverage                                                   *)

\* evidenceOf: what the instance's records, local files and probe offer.
Evidence(i) ==
    {SubOf[files[f].content] : f \in {g \in DOMAIN files : g[1] = i}}
    \union (IF i \in DOMAIN local
            THEN {local[i][n] : n \in DOMAIN local[i]} ELSE {})
    \union (IF i \in DOMAIN embedded THEN embedded[i] ELSE {})

InventoryComplete(i) == i \in DOMAIN local /\ i \in DOMAIN embedded

\* Faulty Recompute: it grades the evidence stored before the write.
RecomputeStale(p, I, ls, inventory) ==
    LET swept(k) == \E i \in I : k \in Holds[i] /\ owned'[i]
        home(k) == CHOOSE i \in I : k \in Holds[i]
    IN  /\ coverage' = [k \in Key |->
              IF swept(k) THEN CoverageRow(p, LangOf[k], Evidence(home(k)))
              ELSE coverage[k]]
        /\ locks' = [k \in Key |->
              IF swept(k)
              THEN KeptLocks(p, LangOf[k], Evidence(home(k)), ls[k],
                             inventory /\ InventoryComplete(home(k)))
              ELSE ls[k]]

\* recomputeKey over the items of I, an owned instance's under policy p and
\* an ownerless one's as stored; ls are the locks the write set before it.
\* The primed tables are the ones this write leaves.
Recompute(p, I, ls, inventory) ==
    LET swept(k) == \E i \in I : k \in Holds[i] /\ owned'[i]
        home(k) == CHOOSE i \in I : k \in Holds[i]
    IN  /\ coverage' = [k \in Key |->
              IF swept(k) THEN CoverageRow(p, LangOf[k], Evidence(home(k))')
              ELSE coverage[k]]
        /\ locks' = [k \in Key |->
              IF swept(k)
              THEN KeptLocks(p, LangOf[k], Evidence(home(k))', ls[k],
                             inventory /\ InventoryComplete(home(k))')
              ELSE ls[k]]

---------------------------------------------------------------------------
(* Begin: stage a write                                                    *)

\* begin: an instance that exists, a name with no pending write.
Stage(f, intent) ==
    /\ ~Pending(f)
    /\ intents' = Put(intents, f, intent)
    /\ UNCHANGED <<policy, active, owned, embedded, downloads, libraryVars>>

\* checkAttempts: the delivered attempt names items the instance holds.
BeginDeliver(f, r) ==
    LET d == Plan[r] IN
    /\ d.items # {} /\ d.items \subseteq Holds[f[1]]
    /\ r \notin begun
    /\ Generation(f) < MaxGen
    /\ Stage(f, [op |-> "deliver", content |-> d.content, locked |-> d.locked,
                 items |-> d.items, pair |-> d.pair, removes |-> d.removes,
                 run |-> r])
    /\ begun' = begun \union {r}

\* A retime needs a record, an adoption needs there to be none.
BeginRetime(f, c, adopt) ==
    /\ Managed(f) # adopt
    /\ Generation(f) < MaxGen
    /\ Stage(f, [op |-> "retime", content |-> c, adopt |-> adopt])
    /\ UNCHANGED begun

\* The hash of the bytes a removal expects is for its caller: no End reads it.
BeginDelete(f) ==
    /\ Stage(f, [op |-> "delete"])
    /\ UNCHANGED begun

---------------------------------------------------------------------------
(* End: settle a write                                                     *)

\* Faulty Take: the intent stays, and End may settle it again.
TakeNothing(f, op) ==
    /\ Pending(f)
    /\ intents[f].op = op
    /\ UNCHANGED intents

\* takeIntent: End answers only a pending intent of its own operation.
Take(f, op) ==
    /\ Pending(f)
    /\ intents[f].op = op
    /\ intents' = Drop(intents, {f})

Log(r, o) == [downloads EXCEPT ![<<r, o>>] = @ + 1]

\* Faulty Record: one generation below the stored record.
RecordBelow(f, c) == Put(files, f, [content |-> c, gen |-> Generation(f) - 1])

\* putRecord: one generation above the stored record.
Record(f, c) == Put(files, f, [content |-> c, gen |-> Generation(f) + 1])

\* Faulty RemoveFiles: the baseline of a removed file stays.
RemoveFilesOnly(i, N, fs, bs) ==
    LET gone == {f \in DOMAIN fs : f[1] = i /\ f[2] \in N}
        unmanaged == {n \in N : <<i, n>> \notin DOMAIN fs}
    IN  /\ files' = Drop(fs, gone)
        /\ baselines' = bs
        /\ local' = IF i \in DOMAIN local
                    THEN [local EXCEPT ![i] = Drop(@, unmanaged)] ELSE local

\* removeFile for the names of N, of instance i, over records fs: a managed
\* file loses its record and baseline, an unmanaged one leaves the local set.
RemoveFiles(i, N, fs, bs) ==
    LET gone == {f \in DOMAIN fs : f[1] = i /\ f[2] \in N}
        unmanaged == {n \in N : <<i, n>> \notin DOMAIN fs}
    IN  /\ files' = Drop(fs, gone)
        /\ baselines' = bs \ ({i} \X N)
        /\ local' = IF i \in DOMAIN local
                    THEN [local EXCEPT ![i] = Drop(@, unmanaged)] ELSE local

\* Faulty DeliverLanded: the superseded files keep their records.
DeliverKeepingOld(f) ==
    LET in == intents[f]
        ls == [k \in Key |-> IF in.locked /\ k \in in.items
                             THEN locks[k] \union {in.pair} ELSE locks[k]]
    IN  /\ RemoveFiles(f[1], {}, Record(f, in.content), baselines \union {f})
        /\ downloads' = Log(in.run, "delivered")
        /\ Recompute(policy, {f[1]}, ls, TRUE)

\* landDeliver, its attempts logged as staged, then the recompute.
DeliverLanded(f) ==
    LET in == intents[f]
        others == {m[1] : m \in in.removes} \ {f[2]}
        ls == [k \in Key |-> IF in.locked /\ k \in in.items
                             THEN locks[k] \union {in.pair} ELSE locks[k]]
    IN  /\ RemoveFiles(f[1], others, Record(f, in.content), baselines \union {f})
        /\ downloads' = Log(in.run, "delivered")
        /\ Recompute(policy, {f[1]}, ls, TRUE)

\* Faulty EndDeliver: an attempt that did not land is logged as delivered.
EndDeliverAsStaged(f, landed) ==
    /\ Take(f, "deliver")
    /\ UNCHANGED <<policy, active, owned, embedded, begun>>
    /\ \/ landed /\ active /\ DeliverLanded(f)
       \/ /\ ~landed
          /\ downloads' = Log(intents[f].run, "delivered")
          /\ UNCHANGED libraryVars

EndDeliver(f, landed) ==
    /\ Take(f, "deliver")
    /\ UNCHANGED <<policy, active, owned, embedded, begun>>
    /\ \/ landed /\ active /\ DeliverLanded(f)
       \/ /\ ~landed
          /\ downloads' = Log(intents[f].run, "undelivered")
          /\ UNCHANGED libraryVars

\* lockAdopted: the configured pairs the adopted file alone makes servable.
AdoptionLocks(f, c) ==
    [k \in Key |->
        IF owned[f[1]] /\ k \in Holds[f[1]]
        THEN locks[k] \union {q \in Wants[policy][LangOf[k]] :
                                Servable(policy, q, {SubOf[c]})}
        ELSE locks[k]]

\* Faulty RetimeLanded: an adoption leaves no baseline.
RetimeWithoutBaseline(f) ==
    LET in == intents[f]
    IN  /\ files' = Record(f, in.content)
        /\ UNCHANGED <<baselines, local>>
        /\ Recompute(policy, {f[1]},
                     IF in.adopt THEN AdoptionLocks(f, in.content) ELSE locks,
                     TRUE)

\* landRetime: the record, and for an adoption its baseline and locks.  The
\* local set is not touched.
RetimeLanded(f) ==
    LET in == intents[f]
    IN  /\ files' = Record(f, in.content)
        /\ baselines' = IF in.adopt THEN baselines \union {f} ELSE baselines
        /\ UNCHANGED local
        /\ Recompute(policy, {f[1]},
                     IF in.adopt THEN AdoptionLocks(f, in.content) ELSE locks,
                     TRUE)

EndRetime(f, landed) ==
    /\ Take(f, "retime")
    /\ UNCHANGED <<policy, active, owned, embedded, downloads, begun>>
    /\ \/ landed /\ active /\ RetimeLanded(f)
       \/ ~landed /\ UNCHANGED libraryVars

DeleteLanded(f) ==
    /\ RemoveFiles(f[1], {f[2]}, files, baselines)
    /\ Recompute(policy, {f[1]}, locks, TRUE)

EndDelete(f, landed) ==
    /\ Take(f, "delete")
    /\ UNCHANGED <<policy, active, owned, embedded, downloads, begun>>
    /\ \/ landed /\ active /\ DeleteLanded(f)
       \/ ~landed /\ UNCHANGED libraryVars

---------------------------------------------------------------------------
(* Inventory, locks, attempts                                              *)

\* PutExternal: the whole local-file set, empty included.
PutExternal(i, set) ==
    /\ active
    /\ local' = Put(local, i, set)
    /\ UNCHANGED <<policy, active, owned, intents, files, baselines, embedded,
                   downloads, begun>>
    /\ Recompute(policy, {i}, locks, TRUE)

\* Faulty PutEmbedded: the probe sweeps the locks nothing serves.
PutEmbeddedSweeping(i, tracks) ==
    /\ active
    /\ embedded' = Put(embedded, i, tracks)
    /\ UNCHANGED <<policy, active, owned, intents, files, baselines, local,
                   downloads, begun>>
    /\ Recompute(policy, {i}, locks, TRUE)

\* PutEmbedded: a probe, which runs before the listing and so drops only the
\* locks of pairs no longer configured.
PutEmbedded(i, tracks) ==
    /\ active
    /\ embedded' = Put(embedded, i, tracks)
    /\ UNCHANGED <<policy, active, owned, intents, files, baselines, local,
                   downloads, begun>>
    /\ Recompute(policy, {i}, locks, FALSE)

\* configuring: the items of i that want the pair.
Configuring(i, q) == {k \in Holds[i] : q \in Wants[policy][LangOf[k]]}

SetLock(i, q, locked) ==
    /\ active
    /\ owned[i]
    /\ Configuring(i, q) # {}
    /\ locked => Servable(policy, q, Evidence(i))
    /\ locks' = [k \in Key |->
          IF k \notin Configuring(i, q) THEN locks[k]
          ELSE IF locked THEN locks[k] \union {q} ELSE locks[k] \ {q}]
    /\ UNCHANGED <<policy, active, owned, intents, files, baselines, local,
                   embedded, coverage, downloads, begun>>

\* RecordAttempts: attempts that delivered nothing.
RecordAttempts(r) ==
    /\ r \notin begun
    /\ begun' = begun \union {r}
    /\ downloads' = Log(r, "undelivered")
    /\ UNCHANGED <<policy, active, owned, intents, embedded, libraryVars>>

---------------------------------------------------------------------------
(* Configuration, ownership, restart                                       *)

\* Activate: the instances of the removed sources (those of R) lose their
\* owner and keep their rows; the first one after the store opened, and one
\* that changes the policy, recomputes every owned item.
Activate(p, R) ==
    /\ policy' = p
    /\ active' = TRUE
    /\ owned' = [i \in Inst |-> owned[i] /\ i \notin R]
    /\ UNCHANGED <<intents, files, baselines, local, embedded, downloads, begun>>
    /\ IF ~active \/ p # policy
       THEN Recompute(p, Inst, locks, FALSE)
       ELSE UNCHANGED <<locks, coverage>>

\* ObserveItems by a source in force that reports an ownerless instance's
\* items where they were: it claims the instance, unless a write pins it.
Claim(i) ==
    /\ active
    /\ ~owned[i]
    /\ ~Pinned(i)
    /\ Holds[i] # {}
    /\ owned' = [owned EXCEPT ![i] = TRUE]
    /\ UNCHANGED <<policy, active, intents, files, baselines, local, embedded,
                   downloads, begun>>
    /\ Recompute(policy, {i}, locks, FALSE)

\* The process ends, at any point, and the store opens again.
Reopen ==
    /\ active
    /\ active' = FALSE
    /\ UNCHANGED <<policy, owned, intents, embedded, downloads, begun, libraryVars>>

---------------------------------------------------------------------------
Init ==
    /\ policy \in Policy
    /\ active = TRUE
    /\ owned = [i \in Inst |-> TRUE]
    /\ intents = EmptyTable
    /\ files = EmptyTable
    /\ baselines = {}
    /\ local = EmptyTable
    /\ embedded = EmptyTable
    /\ locks = [k \in Key |-> {}]
    /\ coverage = [k \in Key |-> CoverageRow(policy, LangOf[k], {})]
    /\ downloads = [d \in Run \X Outcome |-> 0]
    /\ begun = {}

Begin(f) ==
    \/ \E r \in Run : BeginDeliver(f, r)
    \/ \E c \in Content, adopt \in BOOLEAN : BeginRetime(f, c, adopt)
    \/ BeginDelete(f)

End(f) ==
    \E landed \in BOOLEAN :
        EndDeliver(f, landed) \/ EndRetime(f, landed) \/ EndDelete(f, landed)

Inventory(i) ==
    \/ \E set \in Listings : PutExternal(i, set)
    \/ \E tracks \in Probes : PutEmbedded(i, tracks)
    \/ \E q \in Pair, locked \in BOOLEAN : SetLock(i, q, locked)
    \/ Claim(i)

Next ==
    \/ \E f \in File : Begin(f) \/ End(f)
    \/ \E i \in Inst : Inventory(i)
    \/ \E r \in Run : RecordAttempts(r)
    \/ \E p \in Policy, R \in SUBSET Inst : Activate(p, R)
    \/ Reopen

Spec == Init /\ [][Next]_vars

---------------------------------------------------------------------------
(* Properties                                                              *)

TypeOK ==
    /\ policy \in Policy
    /\ active \in BOOLEAN
    /\ owned \in [Inst -> BOOLEAN]
    /\ IsTable(intents, File, Intent)
    /\ IsTable(files, File, Row)
    /\ baselines \in SUBSET File
    /\ IsTable(local, Inst, UNION {[N -> Sub] : N \in SUBSET Name})
    /\ IsTable(embedded, Inst, SUBSET Sub)
    /\ locks \in [Key -> SUBSET Pair]
    /\ coverage \in [Key -> UNION {[Q -> Coverages] : Q \in SUBSET Pair}]
    /\ downloads \in [Run \X Outcome -> Nat]
    /\ begun \in SUBSET Run

\* The stored coverage of an owned video's item is what a fresh computation
\* over the stored evidence and policy would give, whatever order writes,
\* inventories, configuration changes and restarts came in.
CoverageCurrent ==
    \A i \in Inst : owned[i] =>
        \A k \in Holds[i] :
            coverage[k] = CoverageRow(policy, LangOf[k], Evidence(i))

\* An owned item's locks are on pairs its languages configure: a lock staged
\* or set under another policy, or while the video had no owner, does not
\* outlive the policy it meant.
LocksConfigured ==
    \A i \in Inst : owned[i] =>
        \A k \in Holds[i] : locks[k] \subseteq Wants[policy][LangOf[k]]

\* What is stored of an owned video's items is of the policy in force: their
\* coverage as computed afresh, and their locks on configured pairs.
OwnedGraded == CoverageCurrent /\ LocksConfigured

Staged(r) == \E f \in DOMAIN intents :
                intents[f].op = "deliver" /\ intents[f].run = r

\* Every attempt handed to the store is logged exactly once, when its write
\* is settled, whichever way and however often End is repeated.
LoggedOnce ==
    \A r \in Run :
        downloads[<<r, "delivered">>] + downloads[<<r, "undelivered">>]
            = IF r \in begun /\ ~Staged(r) THEN 1 ELSE 0

\* No baseline outlives the record it belongs to: a retime never starts from
\* the cues of a file that was removed and adopted again.
BaselineOfRecord == \A f \in baselines : Managed(f)

\* A user's lock goes only when the user clears it, when the pair is no
\* longer configured, or when a listing or a landed write over a complete
\* inventory finds nothing that serves it; a probe or a new activation never
\* drops a configured lock.
LockLost(i, k, q) ==
    \/ SetLock(i, q, FALSE)
    \/ q \notin Wants[policy'][LangOf[k]]
    \/ /\ InventoryComplete(i)'
       /\ ~Servable(policy', q, Evidence(i)')
       /\ UNCHANGED <<policy, active, embedded, owned>>

LocksKept ==
    [][\A i \in Inst : \A k \in Holds[i] : \A q \in locks[k] \ locks'[k] :
          LockLost(i, k, q)]_vars

\* The local set lists the subtitle files beside a video that subflux does
\* not manage: a file an adoption makes managed is not left in it.
\* The code does not keep it: see the README's disagreements.
AdoptedLeavesLocal ==
    [][\A f \in DOMAIN intents :
          intents[f].op = "retime" /\ EndRetime(f, TRUE) /\ f \in DOMAIN files'
          => f[1] \notin DOMAIN local' \/ f[2] \notin DOMAIN local'[f[1]]]_vars
=============================================================================
