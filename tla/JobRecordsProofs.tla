-------------------------- MODULE JobRecordsProofs --------------------------
(***************************************************************************)
(* Proofs about JobRecords, for any jobs, owners, keys and bounds.         *)
(*                                                                         *)
(* JobInv is inductive and has five parts.  Types says what the store's    *)
(* fields hold; its stamps are bounded, so that Now is above all of them.  *)
(* Bounds are the bounds Begin makes room for, with the reason a key has   *)
(* one job at work: its record bars another.  Saving says which call of    *)
(* persist saves which job: a live job has at most one saver, no call      *)
(* takes a stored job for unsaved, and a job at work has a record that     *)
(* says so.  RecordsAgree and NoRetryLost are the two properties persist   *)
(* is about; both need Saving, and NoRetryLost needs RecordsAgree to know  *)
(* that a job that is not durable is one the runner retries.               *)
(*                                                                         *)
(* The last part maps each step to a step of JobBoard: BoardAt gives Get's *)
(* answer by cases, and Saving makes the cases meet across persist.        *)
(***************************************************************************)
EXTENDS JobRecords, TableTheorems, FiniteSetTheorems, WellFoundedInduction

---------------------------------------------------------------------------
(* Stamps                                                                  *)

\* A bounded set of numbers that is not empty has a greatest one.
LEMMA Greatest ==
    ASSUME NEW S \in SUBSET Nat, S # {}, NEW b \in Nat, \A n \in S : n <= b
    PROVE  \E m \in S : \A n \in S : n <= m
<1> DEFINE T == {n \in Nat : \A u \in S : u <= n}
<1>1. PICK m \in T : \A y \in T : ~ (<<y, m>> \in OpToRel(<, Nat))
  <2>1. T # {} /\ T \subseteq Nat
    OBVIOUS
  <2> QED BY ONLY <2>1, NatLessThanWellFounded, WFMin
<1>2. \A y \in T : ~ (y < m)
  BY <1>1 DEF OpToRel
<1>3. m \in S
  <2> SUFFICES ASSUME m \notin S PROVE FALSE
    OBVIOUS
  <2>1. PICK u \in S : u <= m /\ u # m
    OBVIOUS
  <2>2. m - 1 \in Nat /\ \A v \in S : v <= m - 1
    BY <2>1
  <2> QED BY <1>2, <2>2
<1> QED BY <1>3

\* No stamp is above b.
StampedBy(b) ==
    /\ \A x \in DOMAIN records : records[x].ended <= b
    /\ \A x \in DOMAIN live : live[x].ended <= b

StampsBounded == \E b \in Nat : StampedBy(b)

\* The next stamp is above all of them.
LEMMA NowIsLater ==
    ASSUME TypeOK, StampsBounded
    PROVE  Now \in Nat \ {0} /\ StampedBy(Now)
<1> DEFINE stamps == {records[x].ended : x \in DOMAIN records} \union {live[x].ended : x \in DOMAIN live}
<1>1. stamps \in SUBSET Nat
  BY DEF TypeOK, IsTable, Record, Live
<1>2. PICK b \in Nat : \A t \in stamps : t <= b
  BY DEF StampsBounded, StampedBy
<1>3. CASE stamps = {}
  <2>1. Now = 1
    BY <1>3 DEF Now
  <2>2. DOMAIN records = {} /\ DOMAIN live = {}
    BY <1>3
  <2> QED BY <2>1, <2>2 DEF StampedBy
<1>4. CASE stamps # {}
  <2> DEFINE last == CHOOSE t \in stamps : \A u \in stamps : u <= t
  <2>1. \E t \in stamps : \A u \in stamps : u <= t
    BY <1>1, <1>2, <1>4, Greatest
  <2>2. last \in stamps /\ \A u \in stamps : u <= last
    BY <2>1
  <2>3. Now = 1 + last
    BY <1>4 DEF Now
  <2>4. \A u \in stamps : u <= Now
    <3> HIDE DEF last, stamps
    <3> QED BY <1>1, <2>2, <2>3
  <2>5. last \in Nat
    BY <1>1, <2>2
  <2> HIDE DEF last
  <2> QED BY <2>3, <2>4, <2>5 DEF StampedBy
<1> QED BY <1>3, <1>4

---------------------------------------------------------------------------
(* Tables of jobs                                                          *)

\* t holds some of the rows of s, as they are, and lacks only ended ones.
KeptOf(t, s) ==
    /\ t = [x \in DOMAIN t |-> t[x]]
    /\ DOMAIN t \subseteq DOMAIN s
    /\ \A x \in DOMAIN t : t[x] = s[x]
    /\ \A x \in DOMAIN s \ DOMAIN t : Done(s[x])

\* Dropping rows twice drops rows once.
LEMMA KeptOfKept ==
    ASSUME NEW r, NEW s, NEW t, KeptOf(r, s), KeptOf(s, t)
    PROVE  KeptOf(r, t)
BY DEF KeptOf

\* Drop of ended jobs leaves the other rows as they are.
LEMMA DropKeeps ==
    ASSUME NEW t, t = [x \in DOMAIN t |-> t[x]], NEW D, \A x \in D \intersect DOMAIN t : Done(t[x])
    PROVE  KeptOf(Drop(t, D), t) /\ DOMAIN Drop(t, D) = DOMAIN t \ D
BY DEF KeptOf, Drop

\* What eviction leaves: jobs that are not ended, or not durable, stay.
LEMMA EvictedKeeps ==
    ASSUME NEW L, L = [x \in DOMAIN L |-> L[x]], NEW E \in Evicted(L)
    PROVE  KeptOf(E, L) /\ \A x \in DOMAIN L \ DOMAIN E : L[x].durable
<1>1. PICK D : D \subseteq {x \in DOMAIN L : Done(L[x]) /\ L[x].durable} /\ E = Drop(L, D)
  BY DEF Evicted
<1>2. KeptOf(E, L) /\ DOMAIN E = DOMAIN L \ D
  BY <1>1, DropKeeps
<1> QED BY <1>1, <1>2

\* One bound leaves room for one record more.
LEMMA RoomIsWithin ==
    ASSUME NEW R, R = [x \in DOMAIN R |-> R[x]], NEW K \in SUBSET DOMAIN R, IsFiniteSet(DOMAIN R),
           NEW limit \in Nat \ {0}, Cardinality(K) <= limit, NEW r \in RoomWithin(R, K, limit)
    PROVE  KeptOf(r, R) /\ Cardinality(K \intersect DOMAIN r) < limit
<1>1. IsFiniteSet(K) /\ Cardinality(K) \in Nat
  BY FS_Subset, FS_CardinalityType
<1>2. CASE Cardinality(K) < limit
  <2>1. r = R
    BY <1>2 DEF RoomWithin
  <2>2. K \intersect DOMAIN r = K
    BY <2>1
  <2> QED BY <1>2, <2>1, <2>2 DEF KeptOf
<1>3. CASE ~ (Cardinality(K) < limit)
  <2>1. PICK x \in K : Done(R[x]) /\ r = Drop(R, {x})
    BY <1>3 DEF RoomWithin, OldestEnded
  <2>2. KeptOf(r, R) /\ DOMAIN r = DOMAIN R \ {x}
    BY <2>1, DropKeeps
  <2>3. K \intersect DOMAIN r = K \ {x}
    BY <2>2
  <2>4. Cardinality(K \ {x}) = Cardinality(K) - 1
    BY <1>1, FS_RemoveElement
  <2>5. Cardinality(K \intersect DOMAIN r) = Cardinality(K) - 1
    BY <2>3, <2>4
  <2>6. Cardinality(K \intersect DOMAIN r) < limit
    BY <1>1, <2>5
  <2> QED BY <2>2, <2>6
<1> QED BY <1>2, <1>3

Users(R) == {x \in DOMAIN R : UserOwned(x)}

\* makeRoom's two bounds leave room for a record of the owner.
LEMMA RoomIsMade ==
    ASSUME records = [x \in DOMAIN records |-> records[x]], IsFiniteSet(DOMAIN records),
           NEW owner, Cardinality(OwnedBy(records, owner)) <= PerOwner, Cardinality(Users(records)) <= Total,
           NEW r \in MakeRoom(records, owner)
    PROVE  /\ KeptOf(r, records)
           /\ Cardinality(OwnedBy(r, owner)) < PerOwner
           /\ owner # System => Cardinality(Users(r)) < Total
<1> DEFINE own == RoomWithin(records, OwnedBy(records, owner), PerOwner)
<1>1. ASSUME NEW s \in own
      PROVE  KeptOf(s, records) /\ Cardinality(OwnedBy(s, owner)) < PerOwner /\ IsFiniteSet(DOMAIN s)
  <2>1. KeptOf(s, records) /\ Cardinality(OwnedBy(records, owner) \intersect DOMAIN s) < PerOwner
    <3>1. OwnedBy(records, owner) \in SUBSET DOMAIN records
      BY DEF OwnedBy
    <3> QED BY <3>1, RoomIsWithin, LimitsAssumption
  <2>2. OwnedBy(s, owner) = OwnedBy(records, owner) \intersect DOMAIN s
    BY <2>1 DEF OwnedBy, KeptOf
  <2> QED BY <2>1, <2>2, FS_Subset DEF KeptOf
<1>2. CASE owner = System
  BY <1>1, <1>2 DEF MakeRoom
<1>3. CASE owner # System
  <2>1. PICK s \in own : r \in RoomWithin(s, Users(s), Total)
    BY <1>3 DEF MakeRoom, Users
  <2>2. KeptOf(s, records) /\ Cardinality(OwnedBy(s, owner)) < PerOwner /\ IsFiniteSet(DOMAIN s)
    BY <1>1
  <2>3. Cardinality(Users(s)) <= Total
    <3>1. Users(s) \subseteq Users(records) /\ IsFiniteSet(Users(records))
      BY <2>2, FS_Subset DEF Users, KeptOf
    <3>2. Cardinality(Users(s)) <= Cardinality(Users(records)) /\ IsFiniteSet(Users(s))
      BY <3>1, FS_Subset
    <3> QED BY <3>1, <3>2, FS_CardinalityType, LimitsAssumption
  <2>4. KeptOf(r, s) /\ Cardinality(Users(s) \intersect DOMAIN r) < Total
    <3>1. Users(s) \in SUBSET DOMAIN s
      BY DEF Users
    <3> QED BY <2>1, <2>2, <2>3, <3>1, RoomIsWithin, LimitsAssumption DEF KeptOf
  <2>5. Users(r) = Users(s) \intersect DOMAIN r
    BY <2>4 DEF Users, KeptOf
  <2>6. OwnedBy(r, owner) \subseteq OwnedBy(s, owner) /\ IsFiniteSet(OwnedBy(s, owner))
    BY <2>2, <2>4, FS_Subset DEF OwnedBy, KeptOf
  <2>7. Cardinality(OwnedBy(r, owner)) <= Cardinality(OwnedBy(s, owner)) /\ IsFiniteSet(OwnedBy(r, owner))
    BY <2>6, FS_Subset
  <2>8. Cardinality(OwnedBy(r, owner)) < PerOwner
    BY <2>2, <2>6, <2>7, FS_CardinalityType, LimitsAssumption
  <2> QED BY <2>2, <2>4, <2>5, <2>8, KeptOfKept
<1> QED BY <1>2, <1>3

---------------------------------------------------------------------------
(* The invariant                                                           *)

RecordsTyped == Stamped(records) /\ IsTable(records, Id, Record) /\ IsFiniteSet(DOMAIN records)
LiveTyped == Stamped(live) /\ IsTable(live, Id, Live)
CallsTyped == IsTable(calls, Process, Call)
RestTyped ==
    /\ begun \subseteq Id /\ starting \subseteq Id /\ unsaved \subseteq Id
    /\ up \in BOOLEAN /\ alert \in BOOLEAN /\ wake \in BOOLEAN
    /\ runner \in [at : {"start", "top", "select", "saving", "last", "gone"}, armed : BOOLEAN, todo : SUBSET Id]
    /\ faults \in 0..MaxFaults /\ restarts \in 0..MaxRestart

\* Every job is begun once, and its key bars another as long as it is recorded.
Known == DOMAIN records \union DOMAIN live \union starting \subseteq begun
KeysUnique ==
    \A x, y \in DOMAIN records : Asks[x].key # NoKey /\ Asks[x] = Asks[y] => x = y

\* A job at work has a record that says so.
WorkRecorded ==
    /\ \A x \in starting : Behind(x) /\ x \notin DOMAIN live
    /\ \A x \in DOMAIN live : ~Done(live[x]) => Behind(x)

\* What is being saved is not stored, and what is not stored has ended.
SavedLate ==
    \A x \in DOMAIN live : (live[x].saving => ~live[x].durable) /\ (~live[x].durable => Done(live[x]))

Saves(p) == p \in DOMAIN calls /\ calls[p].at \in {"put", "failed", "stored"}

\* An updater saves its own job, and the runner within saveUnsaved.
CallsOwn ==
    \A p \in DOMAIN calls :
        /\ p # Runner => calls[p].id = p
        /\ p = Runner => runner.at \in {"saving", "last"}

\* A live job is being saved by one call, or by none.
OneSaver ==
    /\ \A p \in Process : Saves(p) => calls[p].id \in DOMAIN live /\ live[calls[p].id].saving
    /\ \A x \in DOMAIN live : live[x].saving => \E p \in Process : Saves(p) /\ calls[p].id = x
    /\ \A p, q \in Process : Saves(p) /\ Saves(q) /\ calls[p].id = calls[q].id => p = q

\* A write that was stored is on record, if the record has not gone.
StoredKnown ==
    \A p \in DOMAIN calls :
        /\ calls[p].at = "stored" => ~Behind(calls[p].id)
        /\ calls[p].at = "clear" => p \notin unsaved

\* A process that is down has no memory.
DownIsEmpty ==
    ~up => starting = {} /\ live = EmptyTable /\ unsaved = {} /\ calls = EmptyTable /\ runner = Starting

Types == RecordsTyped /\ LiveTyped /\ CallsTyped /\ RestTyped /\ StampsBounded
Bounds == RecordsBounded /\ Known /\ KeysUnique
Saving == WorkRecorded /\ SavedLate /\ CallsOwn /\ OneSaver /\ StoredKnown /\ DownIsEmpty
JobInv == Types /\ Bounds /\ Saving /\ RecordsAgree /\ NoRetryLost

\* The typed parts are JobRecords' type invariant.
LEMMA TypesAreOK == Types => TypeOK
BY DEF Types, RecordsTyped, LiveTyped, CallsTyped, RestTyped, TypeOK

---------------------------------------------------------------------------
(* What the actions do to the live jobs                                    *)

\* Only job id of the live jobs changes.
OnlyJob(id) ==
    /\ DOMAIN live' = DOMAIN live
    /\ \A x \in DOMAIN live \ {id} : live'[x] = live[x]

\* A step that gives one live job a well-formed value keeps the live view well formed.
LEMMA OneJob ==
    ASSUME LiveTyped, NEW id \in DOMAIN live, live' = [x \in DOMAIN live |-> live'[x]],
           OnlyJob(id), live'[id] \in Live, Done(live'[id]) <=> live'[id].ended # 0
    PROVE  LiveTyped'
<1>1. DOMAIN live' \subseteq Id /\ \A x \in DOMAIN live' : live'[x] \in Live /\ (Done(live'[x]) <=> live'[x].ended # 0)
  BY DEF LiveTyped, IsTable, OnlyJob, Stamped
<1>2. Stamped(live')
  BY <1>1 DEF Stamped
<1> QED BY <1>1, <1>2 DEF LiveTyped, IsTable, OnlyJob

\* Update's progress branch: the job's end and its durability stay as they were.
LEMMA ProgressJob ==
    ASSUME LiveTyped, NEW id \in Id, Progress(id)
    PROVE  /\ LiveTyped' /\ OnlyJob(id) /\ id \in DOMAIN live
           /\ live'[id].outcome = live[id].outcome /\ live'[id].ended = live[id].ended
           /\ live'[id].durable = live[id].durable /\ live'[id].saving = live[id].saving
<1>1. live[id] \in Live /\ id \in DOMAIN live /\ (Done(live[id]) <=> live[id].ended # 0)
  BY DEF Progress, LiveTyped, IsTable, Stamped
<1>2. OnlyJob(id) /\ live' = [x \in DOMAIN live |-> live'[x]]
  BY <1>1 DEF Progress, OnlyJob
<1>3. live'[id] \in Live
  BY <1>1 DEF Progress, Live
<1>4. live'[id].outcome = live[id].outcome /\ live'[id].ended = live[id].ended
      /\ live'[id].durable = live[id].durable /\ live'[id].saving = live[id].saving
  BY <1>1 DEF Progress, Live
<1>5. Done(live'[id]) <=> live'[id].ended # 0
  BY <1>1, <1>4 DEF Done
<1>6. LiveTyped'
  BY <1>1, <1>2, <1>3, <1>5, OneJob
<1> QED BY <1>1, <1>2, <1>4, <1>6

\* Update's ending branch: the job gets its one outcome and a stamp above every other,
\* and is not durable until it is saved.
LEMMA EndingJob ==
    ASSUME TypeOK, StampsBounded, LiveTyped, NEW id \in Id, NEW o \in Outcome \union {None}, End(id, o)
    PROVE  /\ LiveTyped' /\ OnlyJob(id) /\ id \in DOMAIN live
           /\ live'[id].outcome \in AnyOutcome \ {None}
           /\ live'[id].ended = Now
           /\ live'[id].durable = FALSE /\ live'[id].saving = live[id].saving
<1>1. live[id] \in Live /\ id \in DOMAIN live
  BY DEF End, LiveTyped, IsTable
<1>2. OnlyJob(id) /\ live' = [x \in DOMAIN live |-> live'[x]]
  BY <1>1 DEF End, Ending, OnlyJob
<1>3. Now \in Nat /\ Now # 0
  BY NowIsLater
<1>4. live'[id].outcome = IF o = None THEN Failed ELSE o
  BY <1>1 DEF End, Ending, Live
<1>5. live'[id].outcome \in AnyOutcome \ {None}
  BY <1>4 DEF AnyOutcome, None, Failed
<1>6. live'[id].ended = Now /\ live'[id].durable = FALSE /\ live'[id].saving = live[id].saving
  BY <1>1 DEF End, Ending, Live
<1>7. live'[id] \in Live
  <2> DEFINE q == IF o = None THEN Failed ELSE o
             r1 == [live[id] EXCEPT !.outcome = q]
             r2 == [r1 EXCEPT !.rev = live[id].rev + 1]
             r3 == [r2 EXCEPT !.ended = Now]
             r4 == [r3 EXCEPT !.durable = FALSE]
             r5 == [r4 EXCEPT !.tried = FALSE]
  <2>1. live'[id] = r5
    BY <1>1 DEF End, Ending
  <2>2. q \in AnyOutcome /\ live[id].rev + 1 \in Nat
    BY <1>1, <1>4, <1>5 DEF Live
  <2> HIDE DEF q
  <2>3. r1 \in Live
    BY <1>1, <2>2 DEF Live
  <2> HIDE DEF r1
  <2>4. r2 \in Live
    BY <2>2, <2>3 DEF Live
  <2> HIDE DEF r2
  <2>5. r3 \in Live
    BY <1>3, <2>4 DEF Live
  <2> HIDE DEF r3
  <2>6. r4 \in Live
    BY <2>5 DEF Live
  <2> HIDE DEF r4
  <2>7. r5 \in Live
    BY <2>6 DEF Live
  <2> QED BY <2>1, <2>7
<1>8. Done(live'[id]) <=> live'[id].ended # 0
  BY <1>3, <1>5, <1>6 DEF Done
<1>9. LiveTyped'
  BY <1>1, <1>2, <1>7, <1>8, OneJob
<1> QED BY <1>1, <1>2, <1>5, <1>6, <1>9

\* persist's head leaves the job's end alone.
LEMMA PersistedJob ==
    ASSUME LiveTyped, NEW p, NEW id \in Id, BeginPersist(p, id),
           id \in DOMAIN live /\ ~live[id].durable /\ ~live[id].saving
    PROVE  /\ LiveTyped' /\ OnlyJob(id)
           /\ live'[id].outcome = live[id].outcome /\ live'[id].ended = live[id].ended
           /\ ~live'[id].durable /\ live'[id].saving
           /\ calls' = Put(calls, p, [at |-> "put", id |-> id])
<1>1. /\ id \in DOMAIN live /\ ~live[id].durable /\ ~live[id].saving
      /\ calls' = Put(calls, p, [at |-> "put", id |-> id])
      /\ live' = [live EXCEPT ![id].rev = IF live[id].tried THEN Raised(@) ELSE @,
                              ![id].tried = TRUE, ![id].saving = TRUE]
  BY DEF BeginPersist
<1>2. live[id] \in Live /\ (Done(live[id]) <=> live[id].ended # 0)
  BY <1>1 DEF LiveTyped, IsTable, Stamped
<1>3. OnlyJob(id) /\ live' = [x \in DOMAIN live |-> live'[x]]
  BY <1>1 DEF OnlyJob
<1>4. Raised(live[id].rev) \in Nat
  BY <1>2 DEF Raised, Live
<1>5. live'[id] \in Live
  BY <1>1, <1>2, <1>4 DEF Live
<1>6. live'[id].outcome = live[id].outcome /\ live'[id].ended = live[id].ended
  BY <1>1, <1>2 DEF Live
<1>7. live'[id].durable = live[id].durable /\ live'[id].saving = TRUE
  BY <1>1, <1>2 DEF Live
<1>8. Done(live'[id]) <=> live'[id].ended # 0
  BY <1>2, <1>6 DEF Done
<1>9. LiveTyped'
  BY <1>1, <1>3, <1>5, <1>8, OneJob
<1> QED BY <1>1, <1>3, <1>6, <1>7, <1>9

\* persist's failure branch: the job is free to be saved again and has not changed otherwise.
LEMMA FailedJob ==
    ASSUME LiveTyped, NEW p, PutFailed(p), calls[p].id \in DOMAIN live
    PROVE  /\ LiveTyped' /\ OnlyJob(calls[p].id)
           /\ live'[calls[p].id].outcome = live[calls[p].id].outcome
           /\ live'[calls[p].id].ended = live[calls[p].id].ended
           /\ live'[calls[p].id].durable = live[calls[p].id].durable /\ ~live'[calls[p].id].saving
<1> DEFINE id == calls[p].id
<1>1. live' = [live EXCEPT ![id].saving = FALSE]
  BY DEF PutFailed
<1>2. id \in DOMAIN live
  OBVIOUS
<1> HIDE DEF id
<1>3. live[id] \in Live /\ (Done(live[id]) <=> live[id].ended # 0)
  BY <1>2 DEF LiveTyped, IsTable, Stamped
<1>4. OnlyJob(id) /\ live' = [x \in DOMAIN live |-> live'[x]]
  BY <1>1 DEF OnlyJob
<1>5. live'[id] \in Live
  BY <1>1, <1>2, <1>3 DEF Live
<1>6. live'[id].outcome = live[id].outcome /\ live'[id].ended = live[id].ended
      /\ live'[id].durable = live[id].durable /\ ~live'[id].saving
  BY <1>1, <1>2, <1>3 DEF Live
<1>7. Done(live'[id]) <=> live'[id].ended # 0
  BY <1>3, <1>6 DEF Done
<1>8. LiveTyped'
  BY <1>2, <1>4, <1>5, <1>7, OneJob
<1> QED BY <1>4, <1>6, <1>8 DEF id

\* A stored job is durable, and eviction takes only durable ones that ended.
LEMMA StoredJob ==
    ASSUME LiveTyped, NEW p, PutStored(p), calls[p].id \in DOMAIN live
    PROVE  /\ LiveTyped' /\ DOMAIN live' \subseteq DOMAIN live
           /\ \A x \in DOMAIN live' \ {calls[p].id} : live'[x] = live[x]
           /\ \A x \in DOMAIN live \ DOMAIN live' : Done(live[x]) /\ (x # calls[p].id => live[x].durable)
           /\ calls[p].id \in DOMAIN live' =>
                /\ live'[calls[p].id].outcome = live[calls[p].id].outcome
                /\ live'[calls[p].id].ended = live[calls[p].id].ended
                /\ live'[calls[p].id].durable /\ ~live'[calls[p].id].saving
<1> DEFINE id == calls[p].id
           L == [live EXCEPT ![id].saving = FALSE, ![id].durable = TRUE]
<1>1. live' \in Evicted(L) /\ id \in DOMAIN live
  BY DEF PutStored
<1> HIDE DEF id
<1>2. live[id] \in Live /\ (Done(live[id]) <=> live[id].ended # 0)
  BY <1>1 DEF LiveTyped, IsTable, Stamped
<1>3. DOMAIN L = DOMAIN live /\ L = [x \in DOMAIN L |-> L[x]] /\ \A x \in DOMAIN live \ {id} : L[x] = live[x]
  OBVIOUS
<1>4. L[id].outcome = live[id].outcome /\ L[id].ended = live[id].ended /\ L[id].durable /\ ~L[id].saving
  BY <1>1, <1>2 DEF Live
<1>5. L[id] \in Live
  BY <1>1, <1>2 DEF Live
<1> HIDE DEF L
<1>6. KeptOf(live', L) /\ \A x \in DOMAIN L \ DOMAIN live' : L[x].durable
  BY <1>1, <1>3, EvictedKeeps
<1>7. DOMAIN live' \subseteq DOMAIN live /\ \A x \in DOMAIN live' : live'[x] = L[x]
  BY <1>3, <1>6 DEF KeptOf
<1>8. \A x \in DOMAIN live \ DOMAIN live' : Done(live[x]) /\ (x # id => live[x].durable)
  BY <1>3, <1>4, <1>6 DEF KeptOf, Done
<1>9. \A x \in DOMAIN live' : live'[x] \in Live /\ (Done(live'[x]) <=> live'[x].ended # 0)
  <2> SUFFICES ASSUME NEW x \in DOMAIN live'
               PROVE  live'[x] \in Live /\ (Done(live'[x]) <=> live'[x].ended # 0)
    OBVIOUS
  <2>1. CASE x = id
    BY <1>2, <1>4, <1>5, <1>7, <2>1 DEF Done
  <2>2. CASE x # id
    BY <1>3, <1>7, <2>2 DEF LiveTyped, IsTable, Stamped
  <2> QED BY <2>1, <2>2
<1>10. LiveTyped'
  BY <1>6, <1>7, <1>9 DEF LiveTyped, IsTable, Stamped, KeptOf
<1> QED BY <1>3, <1>4, <1>7, <1>8, <1>10 DEF id

\* The live jobs of a table that eviction has been over.
LEMMA ExpiredJobs ==
    ASSUME LiveTyped, Expire
    PROVE  LiveTyped' /\ KeptOf(live', live) /\ \A x \in DOMAIN live \ DOMAIN live' : live[x].durable
<1>1. live' \in Evicted(live) /\ live = [x \in DOMAIN live |-> live[x]]
  BY DEF Expire, LiveTyped, IsTable
<1>2. KeptOf(live', live) /\ \A x \in DOMAIN live \ DOMAIN live' : live[x].durable
  BY <1>1, EvictedKeeps
<1> QED BY <1>2 DEF LiveTyped, IsTable, Stamped, KeptOf

\* New keeps marked jobs only, ended as their records now say.
LEMMA OpenedJobs ==
    ASSUME TypeOK, RecordsTyped, StampsBounded, Open
    PROVE  /\ LiveTyped' /\ RecordsTyped' /\ DOMAIN records' = DOMAIN records
           /\ DOMAIN live' \subseteq Unfinished
           /\ \A x \in Unfinished : records'[x].outcome = Interrupted /\ records'[x].ended = Now
           /\ \A x \in DOMAIN records \ Unfinished : records'[x] = records[x]
           /\ \A x \in DOMAIN live' : /\ live'[x].outcome = Interrupted /\ live'[x].ended = Now
                                      /\ live'[x].durable /\ ~live'[x].saving
<1> DEFINE L == [x \in Unfinished |->
         [outcome |-> Interrupted, rev |-> records[x].rev + 1, ended |-> Now,
          durable |-> TRUE, saving |-> FALSE, tried |-> FALSE]]
<1>1. live' \in Evicted(L) /\ records' = Marked(Unfinished)
  BY DEF Open
<1>2. Now \in Nat /\ Now # 0 /\ Interrupted \in AnyOutcome /\ Interrupted # None
  BY NowIsLater DEF AnyOutcome, Interrupted, None
<1>3. DOMAIN L = Unfinished /\ L = [x \in DOMAIN L |-> L[x]]
  OBVIOUS
<1>4. \A x \in Unfinished : /\ L[x].outcome = Interrupted /\ L[x].ended = Now /\ L[x].durable /\ ~L[x].saving
                            /\ L[x] \in Live
  <2> TAKE x \in Unfinished
  <2>1. records[x].rev + 1 \in Nat
    BY DEF Unfinished, RecordsTyped, IsTable, Record
  <2> QED BY <1>2, <2>1 DEF Live
<1> HIDE DEF L
<1>5. KeptOf(live', L)
  BY <1>1, <1>3, EvictedKeeps
<1>6. Unfinished \subseteq DOMAIN records /\ DOMAIN records \subseteq Id
  BY DEF Unfinished, RecordsTyped, IsTable
<1>7. LiveTyped'
  <2>1. \A x \in DOMAIN live' : live'[x] \in Live /\ live'[x].outcome = Interrupted /\ live'[x].ended = Now
    BY <1>3, <1>4, <1>5 DEF KeptOf
  <2>2. DOMAIN live' \subseteq Id
    BY <1>3, <1>5, <1>6 DEF KeptOf
  <2> QED BY <1>2, <1>5, <2>1, <2>2 DEF LiveTyped, IsTable, Stamped, KeptOf, Done
<1>8. /\ DOMAIN records' = DOMAIN records /\ records' = [x \in DOMAIN records' |-> records'[x]]
      /\ \A x \in DOMAIN records \ Unfinished : records'[x] = records[x]
      /\ \A x \in Unfinished : records'[x] = MarkedAt(x, Now)
  BY <1>1, <1>6 DEF Marked
<1>9. \A x \in Unfinished : /\ records'[x].outcome = Interrupted /\ records'[x].ended = Now
                            /\ records'[x] \in Record
  <2> TAKE x \in Unfinished
  <2>1. records[x].rev + 1 \in Nat
    BY DEF Unfinished, RecordsTyped, IsTable, Record
  <2>2. records'[x] = [outcome |-> Interrupted, rev |-> records[x].rev + 1, ended |-> Now]
    BY <1>8 DEF MarkedAt
  <2>3. records'[x].outcome = Interrupted /\ records'[x].ended = Now
    BY <2>2
  <2>4. records'[x] \in Record
    BY <1>2, <2>1, <2>2 DEF Record
  <2> QED BY <2>3, <2>4
<1>10. RecordsTyped'
  <2>1. \A x \in DOMAIN records : records'[x] \in Record /\ (Done(records'[x]) <=> records'[x].ended # 0)
    BY <1>2, <1>8, <1>9 DEF RecordsTyped, IsTable, Stamped, Done
  <2> QED BY <1>8, <2>1 DEF RecordsTyped, IsTable, Stamped
<1> QED BY <1>3, <1>4, <1>5, <1>7, <1>8, <1>9, <1>10 DEF KeptOf

---------------------------------------------------------------------------
(* What keeps whole groups of the invariant                                *)

\* No record was added: the bounds hold, and a key still bars another.
LEMMA FewerRecords ==
    ASSUME RecordsTyped, RecordsBounded, KeysUnique, DOMAIN records' \subseteq DOMAIN records
    PROVE  RecordsBounded' /\ KeysUnique' /\ IsFiniteSet(DOMAIN records')
<1>1. IsFiniteSet(DOMAIN records) /\ IsFiniteSet(DOMAIN records')
  BY FS_Subset DEF RecordsTyped
<1>2. ASSUME NEW owner \in {Asks[id].owner : id \in Id}
      PROVE  Cardinality(OwnedBy(records', owner)) <= PerOwner
  <2>1. OwnedBy(records', owner) \subseteq OwnedBy(records, owner) /\ IsFiniteSet(OwnedBy(records, owner))
    BY <1>1, FS_Subset DEF OwnedBy
  <2>2. Cardinality(OwnedBy(records', owner)) <= Cardinality(OwnedBy(records, owner))
        /\ IsFiniteSet(OwnedBy(records', owner))
    BY <2>1, FS_Subset
  <2>3. Cardinality(OwnedBy(records, owner)) <= PerOwner
    BY DEF RecordsBounded
  <2> QED BY <2>1, <2>2, <2>3, FS_CardinalityType, LimitsAssumption
<1>3. Cardinality(Users(records')) <= Total
  <2>1. Users(records') \subseteq Users(records) /\ IsFiniteSet(Users(records))
    BY <1>1, FS_Subset DEF Users
  <2>2. Cardinality(Users(records')) <= Cardinality(Users(records)) /\ IsFiniteSet(Users(records'))
    BY <2>1, FS_Subset
  <2>3. Cardinality(Users(records)) <= Total
    BY DEF RecordsBounded, Users
  <2> QED BY <2>1, <2>2, <2>3, FS_CardinalityType, LimitsAssumption
<1>4. RecordsBounded'
  BY <1>2, <1>3 DEF RecordsBounded, OwnedBy, Users, UserOwned
<1> QED BY <1>1, <1>4 DEF KeysUnique

\* Bounded stamps stay bounded when the new ones are bounded.
LEMMA StampsKept ==
    ASSUME TypeOK, StampsBounded,
           \A x \in DOMAIN records' : records'[x].ended <= Now,
           \A x \in DOMAIN live' : live'[x].ended <= Now
    PROVE  StampsBounded'
BY NowIsLater DEF StampsBounded, StampedBy

\* No call began to save a job, and whose call went on is being saved still.
LEMMA SaversKept ==
    ASSUME OneSaver,
           \A q \in Process : Saves(q)' => Saves(q) /\ calls'[q].id = calls[q].id,
           \A q \in Process : Saves(q)' => calls[q].id \in DOMAIN live' /\ live'[calls[q].id].saving,
           \A x \in DOMAIN live' : live'[x].saving =>
               /\ x \in DOMAIN live /\ live[x].saving
               /\ \A q \in Process : Saves(q) /\ calls[q].id = x => Saves(q)'
    PROVE  OneSaver'
<1>1. \A q \in Process : Saves(q)' => calls'[q].id \in DOMAIN live' /\ live'[calls'[q].id].saving
  OBVIOUS
<1>2. \A x \in DOMAIN live' : live'[x].saving => \E q \in Process : Saves(q)' /\ calls'[q].id = x
  BY DEF OneSaver
<1>3. \A q, r \in Process : Saves(q)' /\ Saves(r)' /\ calls'[q].id = calls'[r].id => q = r
  BY DEF OneSaver
<1> QED BY <1>1, <1>2, <1>3 DEF OneSaver

\* Of a process that is down nothing moves but New.
LEMMA DownStays ==
    ASSUME JobInv, Next, ~up
    PROVE  Open \/ OpenFails
BY DEF JobInv, Saving, DownIsEmpty, Next, Begin, GoLive, Progress, End, UpdaterPersists, SaveNext,
   PutJob, PutFailed, PutStored, Raise, Clear, Top, Wake, Fire, Stop, SaveEnds, Sweep, Expire, RunnerAt,
   Crash, Exit, Halt, EmptyTable

---------------------------------------------------------------------------
(* The steps of calls and of Run that change no job                        *)

\* persist's report of a failure: raising the alert and waking the runner lose nothing.
LEMMA RaiseKeeps ==
    ASSUME JobInv, NEW p \in Process, Raise(p) \/ Clear(p), up
    PROVE  JobInv'
<1>1. /\ p \in DOMAIN calls /\ calls[p].at \in {"raise", "clear"} /\ calls' = Drop(calls, {p})
      /\ UNCHANGED <<begun, records, up, starting, live, unsaved, runner, faults, restarts>>
      /\ wake => wake'
      /\ wake' \in BOOLEAN /\ alert' \in BOOLEAN
      /\ calls[p].at = "raise" => wake'
  BY DEF Raise, Clear, JobInv, Types, RestTyped
<1>2. DOMAIN calls' = DOMAIN calls \ {p} /\ \A q \in DOMAIN calls' : calls'[q] = calls[q]
  BY <1>1 DEF Drop
<1>3. CallsTyped'
  BY <1>1, <1>2 DEF JobInv, Types, CallsTyped, IsTable, Drop
<1>4. Types'
  BY <1>1, <1>3 DEF JobInv, Types, RecordsTyped, LiveTyped, RestTyped, StampsBounded, StampedBy, Stamped, IsTable
<1>5. Bounds'
  BY <1>1 DEF JobInv, Bounds, RecordsBounded, Known, KeysUnique
<1>6. \A q \in Process : (Saves(q)' <=> Saves(q)) /\ (Saves(q) => calls'[q].id = calls[q].id)
  BY <1>1, <1>2 DEF Saves
<1>7. OneSaver'
  <2>1. OneSaver
    BY DEF JobInv, Saving
  <2> QED BY <1>1, <1>6, <2>1, SaversKept DEF OneSaver
<1>8. Saving'
  BY <1>1, <1>2, <1>7 DEF JobInv, Saving, WorkRecorded, SavedLate, CallsOwn, StoredKnown, DownIsEmpty, Behind
<1>9. RecordsAgree'
  BY <1>1 DEF JobInv, RecordsAgree
<1>10. NoRetryLost'
  BY <1>1, <1>2 DEF JobInv, NoRetryLost, Saving, StoredKnown
<1> QED BY <1>4, <1>5, <1>8, <1>9, <1>10 DEF JobInv

\* Run's own steps: it arms its timer or leaves select when a job may be waiting for it.
LEMMA RunKeeps ==
    ASSUME JobInv, Top \/ Wake \/ Fire \/ Stop \/ SaveEnds
    PROVE  JobInv'
<1> DEFINE R == [at : {"start", "top", "select", "saving", "last", "gone"}, armed : BOOLEAN, todo : SUBSET Id]
<1>1. UNCHANGED <<begun, records, up, starting, live, unsaved, alert, calls, faults, restarts>> /\ up
  BY DEF Top, Wake, Fire, Stop, SaveEnds, RunnerAt
<1>2. /\ runner \in R /\ unsaved \subseteq Id /\ wake \in BOOLEAN
      /\ Runner \in DOMAIN calls => runner.at \in {"saving", "last"}
  BY DEF JobInv, Saving, CallsOwn, Types, RestTyped
<1>3. /\ wake' \in BOOLEAN /\ runner' \in R
      /\ Runner \in DOMAIN calls => runner'.at \in {"saving", "last"}
      /\ runner'.at = "select" /\ ~runner'.armed => unsaved = {}
  <2>1. CASE Top
    BY <1>2, <2>1 DEF Top, RunnerAt
  <2>2. CASE Wake
    BY <1>2, <2>2 DEF Wake, RunnerAt
  <2>3. CASE Fire
    BY <1>2, <2>3 DEF Fire, RunnerAt
  <2>4. CASE Stop
    BY <1>2, <2>4 DEF Stop, RunnerAt
  <2>5. CASE SaveEnds
    <3>1. runner'.at = (IF runner.at = "last" THEN "gone" ELSE "top") /\ runner' \in R
      BY <1>2, <2>5 DEF SaveEnds
    <3> QED BY <1>2, <2>5, <3>1 DEF SaveEnds
  <2> QED BY <2>1, <2>2, <2>3, <2>4, <2>5
<1>4. Types'
  BY <1>1, <1>3 DEF JobInv, Types, RecordsTyped, LiveTyped, CallsTyped, RestTyped, StampsBounded, StampedBy,
     Stamped, IsTable
<1>5. Bounds'
  BY <1>1 DEF JobInv, Bounds, RecordsBounded, Known, KeysUnique
<1>6. Saving'
  BY <1>1, <1>3 DEF JobInv, Saving, WorkRecorded, SavedLate, CallsOwn, OneSaver, Saves, StoredKnown, DownIsEmpty, Behind
<1>7. RecordsAgree' /\ NoRetryLost'
  BY <1>1, <1>3 DEF JobInv, RecordsAgree, NoRetryLost
<1> QED BY <1>4, <1>5, <1>6, <1>7 DEF JobInv

---------------------------------------------------------------------------
(* The steps of Begin and Update on the live jobs                          *)

\* Begin's last step: a recorded job enters the live view, and durable ended ones leave it.
LEMMA GoLiveKeeps ==
    ASSUME JobInv, NEW id \in Id, GoLive(id), up
    PROVE  JobInv'
<1> DEFINE new == [outcome |-> None, rev |-> 1, ended |-> 0, durable |-> TRUE, saving |-> FALSE, tried |-> FALSE]
<1>1. /\ id \in starting /\ starting' = starting \ {id} /\ live' = Put(live, id, new)
      /\ UNCHANGED <<begun, records, up, unsaved, alert, wake, calls, runner, faults, restarts>>
  BY DEF GoLive
<1>2. new \in Live /\ new.outcome = None /\ new.ended = 0 /\ new.durable = TRUE /\ new.saving = FALSE
  BY DEF Live
<1> HIDE DEF new
<1>3. /\ DOMAIN live' = DOMAIN live \union {id} /\ live'[id] = new
      /\ \A x \in DOMAIN live \ {id} : live'[x] = live[x]
      /\ live' = [x \in DOMAIN live' |-> live'[x]]
  BY <1>1 DEF Put
<1>4. id \notin DOMAIN live /\ Behind(id) /\ id \in begun
  BY <1>1 DEF JobInv, Saving, WorkRecorded, Bounds, Known
<1>5. TypeOK /\ StampsBounded /\ OneSaver /\ LiveTyped
  BY TypesAreOK DEF JobInv, Types, Saving
<1>6. LiveTyped'
  BY <1>2, <1>3, <1>5 DEF LiveTyped, IsTable, Stamped, Done
<1>7. StampsBounded'
  BY <1>1, <1>2, <1>3, <1>4, <1>5, NowIsLater, StampsKept DEF StampedBy
<1>8. Types'
  BY <1>1, <1>6, <1>7 DEF JobInv, Types, RecordsTyped, CallsTyped, RestTyped, Stamped, IsTable
<1>9. Bounds'
  BY <1>1, <1>3, <1>4 DEF JobInv, Bounds, RecordsBounded, Known, KeysUnique
<1>10. OneSaver'
  BY <1>1, <1>2, <1>3, <1>4, <1>5, SaversKept DEF OneSaver, Saves
<1>11. WorkRecorded' /\ SavedLate'
  BY <1>1, <1>2, <1>3, <1>4 DEF JobInv, Saving, WorkRecorded, SavedLate, Behind
<1>12. Saving'
  BY <1>1, <1>10, <1>11 DEF JobInv, Saving, CallsOwn, StoredKnown, DownIsEmpty, Behind
<1>13. RecordsAgree'
  BY <1>1, <1>2, <1>3, <1>4 DEF JobInv, RecordsAgree, Behind, Done
<1>14. NoRetryLost'
  BY <1>1 DEF JobInv, NoRetryLost
<1> QED BY <1>8, <1>9, <1>12, <1>13, <1>14 DEF JobInv

\* Update with progress.
LEMMA ProgressKeeps ==
    ASSUME JobInv, NEW id \in Id, Progress(id), up
    PROVE  JobInv'
<1>1. UNCHANGED <<begun, records, up, starting, unsaved, alert, wake, calls, runner, faults, restarts>>
  BY DEF Progress
<1>2. TypeOK /\ StampsBounded /\ OneSaver /\ LiveTyped
  BY TypesAreOK DEF JobInv, Types, Saving
<1>3. /\ LiveTyped' /\ OnlyJob(id) /\ id \in DOMAIN live
      /\ live'[id].outcome = live[id].outcome /\ live'[id].ended = live[id].ended
      /\ live'[id].durable = live[id].durable /\ live'[id].saving = live[id].saving
  BY <1>2, ProgressJob
<1>4. /\ DOMAIN live' = DOMAIN live
      /\ \A x \in DOMAIN live : /\ live'[x].outcome = live[x].outcome /\ live'[x].ended = live[x].ended
                                /\ live'[x].durable = live[x].durable /\ live'[x].saving = live[x].saving
  BY <1>3 DEF OnlyJob
<1>5. StampsBounded'
  BY <1>1, <1>2, <1>4, NowIsLater, StampsKept DEF StampedBy
<1>6. Types'
  BY <1>1, <1>3, <1>5 DEF JobInv, Types, RecordsTyped, CallsTyped, RestTyped, Stamped, IsTable
<1>7. Bounds'
  BY <1>1, <1>4 DEF JobInv, Bounds, RecordsBounded, Known, KeysUnique
<1>8. OneSaver'
  BY <1>1, <1>2, <1>4, SaversKept DEF OneSaver, Saves
<1>9. Saving'
  BY <1>1, <1>4, <1>8 DEF JobInv, Saving, WorkRecorded, SavedLate, CallsOwn, StoredKnown, DownIsEmpty, Behind, Done
<1>10. RecordsAgree' /\ NoRetryLost'
  BY <1>1, <1>4 DEF JobInv, RecordsAgree, NoRetryLost, Done
<1> QED BY <1>6, <1>7, <1>9, <1>10 DEF JobInv

\* Until it ends, a job has no call of persist: its Update makes the one call.
LEMMA EndKeeps ==
    ASSUME JobInv, NEW id \in Id, NEW o \in Outcome \union {None}, End(id, o), up
    PROVE  JobInv'
<1>1. /\ id \in DOMAIN live /\ ~Done(live[id]) /\ unsaved' = unsaved \union {id}
      /\ calls' = Put(calls, id, [at |-> "begin", id |-> id])
      /\ UNCHANGED <<begun, records, up, starting, alert, wake, runner, faults, restarts>>
  BY DEF End, Ending
<1>2. TypeOK /\ StampsBounded /\ OneSaver /\ LiveTyped
  BY TypesAreOK DEF JobInv, Types, Saving
<1>3. /\ LiveTyped' /\ OnlyJob(id)
      /\ live'[id].outcome \in AnyOutcome \ {None} /\ live'[id].ended = Now
      /\ live'[id].durable = FALSE /\ live'[id].saving = live[id].saving
  BY <1>2, EndingJob
<1>4. /\ DOMAIN live' = DOMAIN live /\ Done(live'[id])
      /\ \A x \in DOMAIN live \ {id} : live'[x] = live[x]
  BY <1>3 DEF OnlyJob, Done
<1>5. Behind(id) /\ live[id].durable /\ ~live[id].saving
  BY <1>1 DEF JobInv, Saving, WorkRecorded, SavedLate
<1>6. /\ DOMAIN calls' = DOMAIN calls \union {id} /\ calls'[id] = [at |-> "begin", id |-> id]
      /\ \A q \in DOMAIN calls \ {id} : calls'[q] = calls[q]
      /\ calls' = [q \in DOMAIN calls' |-> calls'[q]]
  BY <1>1 DEF Put
<1>7. calls'[id].at = "begin" /\ calls'[id].id = id /\ calls'[id] \in Call /\ id # Runner
  BY <1>6, RunnerAssumption DEF Call
<1>8. CallsTyped'
  BY <1>6, <1>7 DEF JobInv, Types, CallsTyped, IsTable, Process
<1>9. StampsBounded'
  BY <1>1, <1>2, <1>3, <1>4, NowIsLater, StampsKept DEF StampedBy
<1>10. Types'
  BY <1>1, <1>3, <1>8, <1>9 DEF JobInv, Types, RecordsTyped, RestTyped, Stamped, IsTable
<1>11. Bounds'
  BY <1>1, <1>4 DEF JobInv, Bounds, RecordsBounded, Known, KeysUnique
<1>12. \A q \in Process : Saves(q) => calls[q].id # id
  BY <1>2, <1>5 DEF OneSaver
<1>13. ~Saves(id)
  BY <1>7, <1>12 DEF Saves, JobInv, Saving, CallsOwn, Process
<1>14. \A q \in Process : (Saves(q)' <=> Saves(q)) /\ (Saves(q) => calls'[q].id = calls[q].id)
  BY <1>6, <1>7, <1>13 DEF Saves
<1>15. OneSaver'
  BY <1>2, <1>3, <1>4, <1>12, <1>14, SaversKept DEF OneSaver
<1>16. WorkRecorded' /\ SavedLate'
  BY <1>1, <1>3, <1>4, <1>5 DEF JobInv, Saving, WorkRecorded, SavedLate, Behind
<1>17. CallsOwn' /\ StoredKnown' /\ DownIsEmpty'
  BY <1>1, <1>6, <1>7 DEF JobInv, Saving, CallsOwn, StoredKnown, DownIsEmpty, Behind
<1>18. RecordsAgree'
  BY <1>1, <1>3, <1>4, <1>5 DEF JobInv, RecordsAgree, Behind
<1>19. NoRetryLost'
  BY <1>1, <1>6 DEF JobInv, NoRetryLost
<1> QED BY <1>10, <1>11, <1>15, <1>16, <1>17, <1>18, <1>19 DEF JobInv, Saving

---------------------------------------------------------------------------
(* The steps of persist                                                    *)

\* A head of persist that finds nothing to do leaves a job that another call saves.
LEMMA BeginPersistKeeps ==
    ASSUME JobInv, up, NEW p \in Process, NEW id \in Id, BeginPersist(p, id),
           p # Runner => p \in DOMAIN calls /\ id = p,
           ~Saves(p),
           p = Runner => runner.at \in {"saving", "last"} /\ runner'.at = runner.at,
           runner' \in [at : {"start", "top", "select", "saving", "last", "gone"}, armed : BOOLEAN, todo : SUBSET Id],
           p # Runner => runner' = runner,
           UNCHANGED <<begun, records, up, starting, unsaved, alert, wake, faults, restarts>>
    PROVE  JobInv'
<1>1. TypeOK /\ StampsBounded /\ OneSaver /\ LiveTyped /\ CallsTyped
  BY TypesAreOK DEF JobInv, Types, Saving
<1>2. runner'.at = runner.at
  OBVIOUS
<1>3. CASE id \in DOMAIN live /\ ~live[id].durable /\ ~live[id].saving
  <2>1. /\ LiveTyped' /\ OnlyJob(id) /\ id \in DOMAIN live
        /\ ~live[id].durable /\ ~live[id].saving
        /\ live'[id].outcome = live[id].outcome /\ live'[id].ended = live[id].ended
        /\ ~live'[id].durable /\ live'[id].saving
        /\ calls' = Put(calls, p, [at |-> "put", id |-> id])
    BY <1>1, <1>3, PersistedJob
  <2>2. /\ DOMAIN live' = DOMAIN live
        /\ \A x \in DOMAIN live : /\ live'[x].outcome = live[x].outcome /\ live'[x].ended = live[x].ended
                                  /\ live'[x].durable <=> live[x].durable
                                  /\ x # id => live'[x].saving = live[x].saving
    BY <2>1 DEF OnlyJob
  <2>3. /\ DOMAIN calls' = DOMAIN calls \union {p} /\ calls'[p] = [at |-> "put", id |-> id]
        /\ \A q \in DOMAIN calls \ {p} : calls'[q] = calls[q]
        /\ calls' = [q \in DOMAIN calls' |-> calls'[q]]
    BY <2>1 DEF Put
  <2>4. calls'[p].at = "put" /\ calls'[p].id = id /\ calls'[p] \in Call
    BY <2>3 DEF Call
  <2>5. CallsTyped'
    BY <1>1, <2>3, <2>4 DEF CallsTyped, IsTable
  <2>6. StampsBounded'
    BY <1>1, <2>2, NowIsLater, StampsKept DEF StampedBy
  <2>7. Types'
    BY <2>1, <2>5, <2>6 DEF JobInv, Types, RecordsTyped, RestTyped, Stamped, IsTable
  <2>8. Bounds'
    BY <2>2 DEF JobInv, Bounds, RecordsBounded, Known, KeysUnique
  <2>9. /\ \A q \in Process \ {p} : (Saves(q)' <=> Saves(q)) /\ (Saves(q) => calls'[q].id = calls[q].id /\ calls[q].id # id)
        /\ Saves(p)' /\ calls'[p].id = id
    BY <1>1, <2>1, <2>3, <2>4 DEF Saves, OneSaver
  <2>10. OneSaver'
    <3>1. \A q \in Process : Saves(q)' => calls'[q].id \in DOMAIN live' /\ live'[calls'[q].id].saving
      BY <1>1, <2>1, <2>2, <2>9 DEF OneSaver
    <3>2. \A x \in DOMAIN live' : live'[x].saving => \E q \in Process : Saves(q)' /\ calls'[q].id = x
      BY <1>1, <2>1, <2>2, <2>9 DEF OneSaver
    <3>3. \A q, r \in Process : Saves(q)' /\ Saves(r)' /\ calls'[q].id = calls'[r].id => q = r
      BY <1>1, <2>9 DEF OneSaver
    <3> QED BY <3>1, <3>2, <3>3 DEF OneSaver
  <2>11. WorkRecorded' /\ SavedLate'
    BY <2>1, <2>2 DEF JobInv, Saving, WorkRecorded, SavedLate, Behind, Done
  <2>12. CallsOwn' /\ StoredKnown' /\ DownIsEmpty'
    BY <1>2, <2>3, <2>4 DEF JobInv, Saving, CallsOwn, StoredKnown, DownIsEmpty, Behind
  <2>13. RecordsAgree' /\ NoRetryLost'
    BY <1>2, <2>2, <2>3 DEF JobInv, RecordsAgree, NoRetryLost, Done
  <2> QED BY <2>7, <2>8, <2>10, <2>11, <2>12, <2>13 DEF JobInv, Saving
<1>4. CASE ~ (id \in DOMAIN live /\ ~live[id].durable /\ ~live[id].saving)
  <2>1. calls' = Drop(calls, {p}) /\ live' = live
    BY <1>4 DEF BeginPersist
  <2>2. DOMAIN calls' = DOMAIN calls \ {p} /\ (\A q \in DOMAIN calls' : calls'[q] = calls[q])
        /\ calls' = [q \in DOMAIN calls' |-> calls'[q]]
    BY <2>1 DEF Drop
  <2>3. Types'
    <3>1. CallsTyped'
      BY <1>1, <2>2 DEF CallsTyped, IsTable
    <3>2. RecordsTyped' /\ LiveTyped'
      BY <2>1 DEF JobInv, Types, RecordsTyped, LiveTyped, IsTable, Stamped
    <3>3. RestTyped'
      BY DEF JobInv, Types, RestTyped
    <3>4. StampsBounded'
      BY <2>1 DEF JobInv, Types, StampsBounded, StampedBy
    <3> QED BY <3>1, <3>2, <3>3, <3>4 DEF Types
  <2>4. Bounds'
    BY <2>1 DEF JobInv, Bounds, RecordsBounded, Known, KeysUnique
  <2>5. \A q \in Process : (Saves(q)' <=> Saves(q)) /\ (Saves(q) => calls'[q].id = calls[q].id)
    BY <2>2 DEF Saves
  <2>6. OneSaver'
    BY <1>1, <2>1, <2>5, SaversKept DEF OneSaver
  <2>7. Saving'
    BY <1>2, <2>1, <2>2, <2>6 DEF JobInv, Saving, WorkRecorded, SavedLate, CallsOwn, StoredKnown, DownIsEmpty, Behind
  <2>8. RecordsAgree'
    BY <2>1 DEF JobInv, RecordsAgree
  <2>9. ASSUME runner.at = "select", p \in unsaved PROVE FALSE
    <3>1. p # Runner /\ id = p /\ p \in DOMAIN live /\ ~live[p].durable
      BY <2>9 DEF JobInv, RecordsAgree
    <3>2. PICK q \in Process : Saves(q) /\ calls[q].id = p
      BY <1>1, <1>4, <3>1 DEF OneSaver
    <3>3. q = p
      BY <2>9, <3>2 DEF JobInv, Saving, CallsOwn, Saves
    <3> QED BY <3>2, <3>3
  <2>10. NoRetryLost'
    BY <1>2, <2>1, <2>2, <2>9 DEF JobInv, NoRetryLost
  <2> QED BY <2>3, <2>4, <2>7, <2>8, <2>10 DEF JobInv
<1> QED BY <1>3, <1>4

\* An updater's call of persist.
LEMMA UpdaterPersistsKeeps ==
    ASSUME JobInv, up, NEW id \in Id, UpdaterPersists(id)
    PROVE  JobInv'
<1>1. /\ id \in DOMAIN calls /\ calls[id].at = "begin" /\ BeginPersist(id, id)
      /\ UNCHANGED <<begun, records, up, starting, unsaved, alert, wake, runner, faults, restarts>>
  BY DEF UpdaterPersists
<1>2. id \in Process /\ id # Runner /\ ~Saves(id)
  BY <1>1, RunnerAssumption DEF Process, Saves
<1>3. runner \in [at : {"start", "top", "select", "saving", "last", "gone"}, armed : BOOLEAN, todo : SUBSET Id]
  BY DEF JobInv, Types, RestTyped
<1> QED BY <1>1, <1>2, <1>3, BeginPersistKeeps

\* saveUnsaved's next call of persist.
LEMMA SaveNextKeeps ==
    ASSUME JobInv, NEW id \in Id, SaveNext(id)
    PROVE  JobInv'
<1>1. /\ up /\ runner.at \in {"saving", "last"} /\ Runner \notin DOMAIN calls
      /\ runner' = [runner EXCEPT !.todo = @ \ {id}] /\ BeginPersist(Runner, id)
      /\ UNCHANGED <<begun, records, up, starting, unsaved, alert, wake, faults, restarts>>
  BY DEF SaveNext, RunnerAt
<1>2. Runner \in Process /\ ~Saves(Runner)
  BY <1>1 DEF Process, Saves
<1>3. runner \in [at : {"start", "top", "select", "saving", "last", "gone"}, armed : BOOLEAN, todo : SUBSET Id]
  BY DEF JobInv, Types, RestTyped
<1>4. /\ runner'.at = runner.at
      /\ runner' \in [at : {"start", "top", "select", "saving", "last", "gone"}, armed : BOOLEAN, todo : SUBSET Id]
  BY <1>1, <1>3
<1> QED BY <1>1, <1>2, <1>4, BeginPersistKeeps

\* What a call saves is live, has ended, and is still to be stored.
LEMMA SavedJob ==
    ASSUME JobInv, NEW p \in Process, Saves(p)
    PROVE  /\ p \in DOMAIN calls /\ calls[p].id \in DOMAIN live /\ calls[p].id \in Id
           /\ live[calls[p].id].saving /\ ~live[calls[p].id].durable /\ Done(live[calls[p].id])
           /\ calls[p].id \in unsaved
           /\ \A q \in Process \ {p} : Saves(q) => calls[q].id # calls[p].id
BY DEF JobInv, Saving, OneSaver, SavedLate, RecordsAgree, Types, LiveTyped, IsTable, Saves

\* A write changes the table by the job's own record, or not at all.
LEMMA Written ==
    ASSUME JobInv, NEW p \in Process, PutJob(p)
    PROVE  LET id == calls[p].id IN
           /\ RecordsTyped' /\ DOMAIN records' = DOMAIN records
           /\ \A x \in DOMAIN records \ {id} : records'[x] = records[x]
           /\ \/ records' = records
              \/ /\ id \in DOMAIN records
                 /\ records'[id].outcome = live[id].outcome /\ records'[id].ended = live[id].ended
           /\ \E a \in {"stored", "failed"} :
                /\ calls' = [calls EXCEPT ![p].at = a]
                /\ a = "stored" => id \in DOMAIN records /\ records'[id].outcome = live[id].outcome
<1> DEFINE id == calls[p].id
           landed == Put(records, id, RecordOf(live[id]))
<1>1. Saves(p)
  BY DEF PutJob, Saves
<1>2. id \in DOMAIN live /\ Done(live[id])
  BY <1>1, SavedJob
<1>3. RecordsTyped /\ live[id] \in Live /\ (Done(live[id]) <=> live[id].ended # 0)
  BY <1>2 DEF JobInv, Types, LiveTyped, IsTable, Stamped
<1>4. /\ records' = records \/ (~Refused(id) /\ records' = landed)
      /\ \E a \in {"stored", "failed"} : /\ calls' = [calls EXCEPT ![p].at = a]
                                         /\ a = "stored" => ~Refused(id) /\ records' = landed
  BY DEF PutJob
<1> HIDE DEF id
<1>5. ~Refused(id) => id \in DOMAIN records
  BY DEF Refused
<1>6. /\ RecordOf(live[id]).outcome = live[id].outcome /\ RecordOf(live[id]).ended = live[id].ended
      /\ RecordOf(live[id]) \in Record
  BY <1>3 DEF RecordOf, Record, Live
<1>7. ASSUME ~Refused(id), records' = landed
      PROVE  /\ DOMAIN records' = DOMAIN records
             /\ \A x \in DOMAIN records \ {id} : records'[x] = records[x]
             /\ records'[id] = RecordOf(live[id])
             /\ records' = [x \in DOMAIN records' |-> records'[x]]
  BY <1>5, <1>7 DEF Put
<1>8. ASSUME ~Refused(id), records' = landed
      PROVE  RecordsTyped'
  <2> HIDE DEF landed
  <2>1. records'[id].outcome = live[id].outcome /\ records'[id].ended = live[id].ended /\ records'[id] \in Record
    BY <1>6, <1>7, <1>8
  <2> QED BY <1>3, <1>5, <1>7, <1>8, <2>1 DEF RecordsTyped, IsTable, Stamped, Done
<1>9. RecordsTyped'
  BY <1>3, <1>4, <1>8 DEF RecordsTyped, IsTable, Stamped
<1> HIDE DEF landed
<1>10. DOMAIN records' = DOMAIN records /\ \A x \in DOMAIN records \ {id} : records'[x] = records[x]
  BY <1>4, <1>7
<1>11. ASSUME ~Refused(id), records' = landed
       PROVE  id \in DOMAIN records /\ records'[id].outcome = live[id].outcome /\ records'[id].ended = live[id].ended
  BY <1>5, <1>6, <1>7, <1>11
<1> QED BY <1>4, <1>9, <1>10, <1>11 DEF id

\* PutJob: the write of persist, refused, lost, or landed, whatever it reports.
LEMMA PutJobKeeps ==
    ASSUME JobInv, up, NEW p \in Process, PutJob(p)
    PROVE  JobInv'
<1>0. PICK id : id = calls[p].id
  OBVIOUS
<1>1. /\ p \in DOMAIN calls /\ calls[p].at = "put" /\ Saves(p)
      /\ UNCHANGED <<begun, up, starting, live, unsaved, alert, wake, runner, restarts>>
      /\ faults' \in 0..MaxFaults
  <2>1. faults \in 0..MaxFaults
    BY DEF JobInv, Types, RestTyped
  <2> QED BY <2>1, BoundsAssumption DEF PutJob, Saves, Fault
<1>2. /\ RecordsTyped' /\ DOMAIN records' = DOMAIN records
      /\ \A x \in DOMAIN records \ {id} : records'[x] = records[x]
      /\ \/ records' = records
         \/ /\ id \in DOMAIN records
            /\ records'[id].outcome = live[id].outcome /\ records'[id].ended = live[id].ended
  BY <1>0, Written
<1>3. PICK a \in {"stored", "failed"} :
        /\ calls' = [calls EXCEPT ![p].at = a]
        /\ a = "stored" => id \in DOMAIN records /\ records'[id].outcome = live[id].outcome
  BY <1>0, Written
<1>4. /\ id \in DOMAIN live /\ id \in Id
      /\ live[id].saving /\ ~live[id].durable /\ Done(live[id])
      /\ \A q \in Process \ {p} : Saves(q) => calls[q].id # id
  BY <1>0, <1>1, SavedJob
<1>5. TypeOK /\ StampsBounded /\ OneSaver /\ CallsTyped
  BY TypesAreOK DEF JobInv, Types, Saving
<1>6. /\ DOMAIN calls' = DOMAIN calls /\ calls' = [q \in DOMAIN calls' |-> calls'[q]]
      /\ \A q \in DOMAIN calls \ {p} : calls'[q] = calls[q]
      /\ calls'[p].at = a /\ calls'[p].id = id /\ calls'[p] \in Call
  <2>1. calls[p] \in Call
    BY <1>1, <1>5 DEF CallsTyped, IsTable
  <2> QED BY <1>0, <1>1, <1>3, <2>1 DEF Call
<1>7. CallsTyped'
  BY <1>5, <1>6 DEF CallsTyped, IsTable
<1>8. StampsBounded'
  <2>1. \A x \in DOMAIN records' : records'[x].ended <= Now
    BY <1>2, <1>4, <1>5, NowIsLater DEF StampedBy
  <2>2. \A x \in DOMAIN live' : live'[x].ended <= Now
    BY <1>1, <1>5, NowIsLater DEF StampedBy
  <2> QED BY <1>5, <2>1, <2>2, StampsKept
<1>9. Types'
  BY <1>1, <1>2, <1>7, <1>8 DEF JobInv, Types, LiveTyped, RestTyped, Stamped, IsTable
<1>10. Bounds'
  <2>1. RecordsBounded' /\ KeysUnique'
    BY <1>2, FewerRecords DEF JobInv, Types, Bounds
  <2> QED BY <1>1, <1>2, <2>1 DEF JobInv, Bounds, Known
<1>11. \A q \in Process : (Saves(q)' <=> Saves(q)) /\ (Saves(q) => calls'[q].id = calls[q].id)
  BY <1>0, <1>1, <1>3, <1>6 DEF Saves
<1>12. OneSaver'
  BY <1>1, <1>5, <1>11, SaversKept DEF OneSaver
<1>13. \A x \in DOMAIN records \ {id} : Behind(x)' <=> Behind(x)
  BY <1>2 DEF Behind
<1>14. WorkRecorded' /\ SavedLate'
  BY <1>1, <1>2, <1>4 DEF JobInv, Saving, WorkRecorded, SavedLate, Behind
<1>15. CallsOwn' /\ DownIsEmpty'
  BY <1>0, <1>1, <1>6 DEF JobInv, Saving, CallsOwn, DownIsEmpty
<1>16. StoredKnown'
  <2>1. Behind(id)' => Behind(id) /\ a = "failed"
    BY <1>0, <1>2, <1>3, <1>4 DEF Behind, Done
  <2>2. ASSUME NEW q \in DOMAIN calls, calls'[q].at = "stored"
        PROVE  (~Behind(calls[q].id))'
    BY <1>2, <1>6, <2>1, <2>2 DEF JobInv, Saving, StoredKnown, Behind
  <2>3. ASSUME NEW q \in DOMAIN calls, calls'[q].at = "clear"
        PROVE  q \notin unsaved'
    BY <1>1, <1>6, <2>3 DEF JobInv, Saving, StoredKnown
  <2> QED BY <1>6, <2>2, <2>3 DEF StoredKnown
<1>17. RecordsAgree'
  BY <1>1, <1>2, <1>4 DEF JobInv, RecordsAgree, Done
<1>18. NoRetryLost'
  BY <1>1, <1>6 DEF JobInv, NoRetryLost
<1> QED BY <1>9, <1>10, <1>12, <1>14, <1>15, <1>16, <1>17, <1>18 DEF JobInv, Saving

\* persist after a write that reported failure.
LEMMA PutFailedKeeps ==
    ASSUME JobInv, up, NEW p \in Process, PutFailed(p)
    PROVE  JobInv'
<1> DEFINE id == calls[p].id
<1>1. /\ p \in DOMAIN calls /\ calls[p].at = "failed" /\ Saves(p)
      /\ calls' = [calls EXCEPT ![p].at = "raise"]
      /\ UNCHANGED <<begun, records, up, starting, unsaved, alert, wake, runner, faults, restarts>>
  BY DEF PutFailed, Saves
<1>2. /\ id \in DOMAIN live
      /\ live[id].saving /\ ~live[id].durable
      /\ \A q \in Process \ {p} : Saves(q) => calls[q].id # id
  BY <1>1, SavedJob
<1>3. TypeOK /\ StampsBounded /\ OneSaver /\ CallsTyped /\ LiveTyped
  BY TypesAreOK DEF JobInv, Types, Saving
<1>4. /\ LiveTyped' /\ OnlyJob(id)
      /\ live'[id].outcome = live[id].outcome /\ live'[id].ended = live[id].ended
      /\ live'[id].durable = live[id].durable /\ ~live'[id].saving
  BY <1>2, <1>3, FailedJob
<1>5. /\ DOMAIN calls' = DOMAIN calls /\ calls' = [q \in DOMAIN calls' |-> calls'[q]]
      /\ \A q \in DOMAIN calls \ {p} : calls'[q] = calls[q]
      /\ calls'[p].at = "raise" /\ calls'[p].id = id /\ calls'[p] \in Call
  <2>1. calls[p] \in Call
    BY <1>1, <1>3 DEF CallsTyped, IsTable
  <2> QED BY <1>1, <2>1 DEF Call
<1> HIDE DEF id
<1>6. /\ DOMAIN live' = DOMAIN live
      /\ \A x \in DOMAIN live : /\ live'[x].outcome = live[x].outcome /\ live'[x].ended = live[x].ended
                                /\ live'[x].durable = live[x].durable
                                /\ x # id => live'[x].saving = live[x].saving
  BY <1>4 DEF OnlyJob
<1>7. CallsTyped'
  BY <1>3, <1>5 DEF CallsTyped, IsTable
<1>8. StampsBounded'
  BY <1>1, <1>3, <1>6, NowIsLater, StampsKept DEF StampedBy
<1>9. Types'
  BY <1>1, <1>4, <1>7, <1>8 DEF JobInv, Types, RecordsTyped, RestTyped, Stamped, IsTable
<1>10. Bounds'
  BY <1>1, <1>6 DEF JobInv, Bounds, RecordsBounded, Known, KeysUnique
<1>11. /\ ~Saves(p)'
       /\ \A q \in Process \ {p} : (Saves(q)' <=> Saves(q)) /\ (Saves(q) => calls'[q].id = calls[q].id)
  BY <1>1, <1>5 DEF Saves
<1>12. OneSaver'
  <2>1. \A q \in Process : Saves(q)' => Saves(q) /\ calls'[q].id = calls[q].id
    BY <1>11
  <2>2. \A q \in Process : Saves(q)' => calls[q].id \in DOMAIN live' /\ live'[calls[q].id].saving
    BY <1>2, <1>3, <1>6, <1>11 DEF OneSaver
  <2>3. \A x \in DOMAIN live' : live'[x].saving =>
               /\ x \in DOMAIN live /\ live[x].saving
               /\ \A q \in Process : Saves(q) /\ calls[q].id = x => Saves(q)'
    BY <1>2, <1>4, <1>6, <1>11 DEF id
  <2> QED BY <1>3, <2>1, <2>2, <2>3, SaversKept
<1>13. WorkRecorded' /\ SavedLate'
  BY <1>1, <1>2, <1>4, <1>6 DEF JobInv, Saving, WorkRecorded, SavedLate, Behind, Done
<1>14. CallsOwn' /\ DownIsEmpty' /\ StoredKnown'
  BY <1>1, <1>5 DEF JobInv, Saving, CallsOwn, DownIsEmpty, StoredKnown, Behind, id
<1>15. RecordsAgree' /\ NoRetryLost'
  BY <1>1, <1>5, <1>6 DEF JobInv, RecordsAgree, NoRetryLost, Done
<1> QED BY <1>9, <1>10, <1>12, <1>13, <1>14, <1>15 DEF JobInv, Saving

\* persist after a write that reported success.
LEMMA PutStoredKeeps ==
    ASSUME JobInv, up, NEW p \in Process, PutStored(p)
    PROVE  JobInv'
<1> DEFINE id == calls[p].id
<1>1. /\ p \in DOMAIN calls /\ calls[p].at = "stored" /\ Saves(p)
      /\ unsaved' = unsaved \ {id}
      /\ calls' = IF unsaved' = {} THEN [calls EXCEPT ![p].at = "clear"] ELSE Drop(calls, {p})
      /\ UNCHANGED <<begun, records, up, starting, alert, wake, runner, faults, restarts>>
  BY DEF PutStored, Saves
<1>2. /\ id \in DOMAIN live /\ Done(live[id])
      /\ live[id].saving /\ ~live[id].durable
      /\ \A q \in Process \ {p} : Saves(q) => calls[q].id # id
  BY <1>1, SavedJob
<1>3. TypeOK /\ StampsBounded /\ OneSaver /\ CallsTyped /\ LiveTyped
  BY TypesAreOK DEF JobInv, Types, Saving
<1>4. /\ LiveTyped' /\ DOMAIN live' \subseteq DOMAIN live
      /\ \A x \in DOMAIN live' \ {id} : live'[x] = live[x]
      /\ \A x \in DOMAIN live \ DOMAIN live' : Done(live[x]) /\ (x # id => live[x].durable)
      /\ id \in DOMAIN live' => /\ live'[id].outcome = live[id].outcome /\ live'[id].ended = live[id].ended
                               /\ live'[id].durable /\ ~live'[id].saving
  BY <1>2, <1>3, StoredJob
<1>5. /\ DOMAIN calls' \in {DOMAIN calls, DOMAIN calls \ {p}} /\ calls' = [q \in DOMAIN calls' |-> calls'[q]]
      /\ \A q \in DOMAIN calls' \ {p} : calls'[q] = calls[q]
      /\ p \in DOMAIN calls' => /\ calls'[p].at = "clear" /\ calls'[p].id = id /\ calls'[p] \in Call
                               /\ unsaved' = {}
  <2>1. calls[p] \in Call
    BY <1>1, <1>3 DEF CallsTyped, IsTable
  <2>2. CASE unsaved' = {}
    BY <1>1, <2>1, <2>2 DEF Call
  <2>3. CASE unsaved' # {}
    BY <1>1, <2>3 DEF Drop
  <2> QED BY <2>2, <2>3
<1> HIDE DEF id
<1>6. ~Behind(id) /\ (p # Runner => id = p) /\ (p = Runner => runner.at \in {"saving", "last"})
  BY <1>1 DEF JobInv, Saving, StoredKnown, CallsOwn, id
<1>7. CallsTyped'
  BY <1>3, <1>5 DEF CallsTyped, IsTable
<1>8. StampsBounded'
  <2>1. \A x \in DOMAIN live' : live'[x].ended <= Now
    BY <1>2, <1>3, <1>4, NowIsLater DEF StampedBy
  <2> QED BY <1>1, <1>3, <2>1, NowIsLater, StampsKept DEF StampedBy
<1>9. Types'
  BY <1>1, <1>4, <1>7, <1>8 DEF JobInv, Types, RecordsTyped, RestTyped, Stamped, IsTable
<1>10. Bounds'
  BY <1>1, <1>4 DEF JobInv, Bounds, RecordsBounded, Known, KeysUnique
<1>11. /\ ~Saves(p)'
       /\ \A q \in Process \ {p} : (Saves(q)' <=> Saves(q)) /\ (Saves(q) => calls'[q].id = calls[q].id)
  BY <1>1, <1>5 DEF Saves
<1>12. OneSaver'
  <2>1. \A q \in Process : Saves(q)' => Saves(q) /\ calls'[q].id = calls[q].id
    BY <1>11
  <2>2. ASSUME NEW q \in Process, Saves(q)'
        PROVE  calls[q].id \in DOMAIN live' /\ live'[calls[q].id].saving
    <3>1. q # p /\ Saves(q) /\ calls[q].id # id
      BY <1>2, <1>11, <2>2
    <3>2. calls[q].id \in DOMAIN live /\ live[calls[q].id].saving /\ ~live[calls[q].id].durable
      BY <3>1, SavedJob
    <3> QED BY <1>4, <3>1, <3>2
  <2>3. \A x \in DOMAIN live' : live'[x].saving =>
               /\ x \in DOMAIN live /\ live[x].saving
               /\ \A q \in Process : Saves(q) /\ calls[q].id = x => Saves(q)'
    BY <1>2, <1>4, <1>11 DEF id
  <2> QED BY <1>3, <2>1, <2>2, <2>3, SaversKept
<1>13. WorkRecorded' /\ SavedLate'
  BY <1>1, <1>2, <1>4 DEF JobInv, Saving, WorkRecorded, SavedLate, Behind, Done
<1>14. CallsOwn' /\ DownIsEmpty' /\ StoredKnown'
  BY <1>1, <1>5, <1>6 DEF JobInv, Saving, CallsOwn, DownIsEmpty, StoredKnown, Behind
<1>15. RecordsAgree'
  <2>1. unsaved' = {x \in DOMAIN live' : ~live'[x].durable}
    <3>1. unsaved = {x \in DOMAIN live : ~live[x].durable}
      BY DEF JobInv, RecordsAgree
    <3> QED BY <1>1, <1>2, <1>4, <3>1 DEF id
  <2>2. ASSUME NEW x \in DOMAIN live' \intersect DOMAIN records'
        PROVE  /\ Done(records'[x]) => /\ records'[x].outcome = live'[x].outcome
                                        /\ records'[x].ended = live'[x].ended
               /\ Done(live'[x]) /\ live'[x].durable => Done(records'[x])
    <3>1. CASE x = id
      BY <1>1, <1>2, <1>4, <1>6, <3>1 DEF JobInv, RecordsAgree, Behind
    <3>2. CASE x # id
      BY <1>1, <1>4, <3>2 DEF JobInv, RecordsAgree
    <3> QED BY <3>1, <3>2
  <2> QED BY <2>1, <2>2 DEF RecordsAgree
<1>16. NoRetryLost'
  BY <1>1, <1>5, <1>6 DEF JobInv, NoRetryLost, id
<1> QED BY <1>9, <1>10, <1>12, <1>13, <1>14, <1>15, <1>16 DEF JobInv, Saving

---------------------------------------------------------------------------
(* Sweeps and eviction                                                     *)

\* A sweep deletes ended records only.
LEMMA SweptRecords ==
    ASSUME RecordsTyped, Sweep
    PROVE  KeptOf(records', records) /\ RecordsTyped'
<1>1. PICK t \in 0..Now :
         records' = Drop(records, {x \in DOMAIN records : Done(records[x]) /\ records[x].ended < t})
  BY DEF Sweep
<1> DEFINE D == {x \in DOMAIN records : Done(records[x]) /\ records[x].ended < t}
<1>2. KeptOf(records', records)
  <2>1. \A x \in D \intersect DOMAIN records : Done(records[x])
    OBVIOUS
  <2>2. records' = Drop(records, D) /\ records = [x \in DOMAIN records |-> records[x]]
    BY <1>1 DEF RecordsTyped, IsTable
  <2> HIDE DEF D
  <2> QED BY <2>1, <2>2, DropKeeps
<1>3. RecordsTyped'
  BY <1>2, FS_Subset DEF RecordsTyped, IsTable, Stamped, KeptOf
<1> QED BY <1>2, <1>3

\* Sweep of ended records.
LEMMA SweepKeeps ==
    ASSUME JobInv, Sweep
    PROVE  JobInv'
<1>1. /\ up /\ runner.at \in {"start", "select"} /\ runner' = [runner EXCEPT !.at = "top"]
      /\ UNCHANGED <<begun, up, starting, live, unsaved, alert, wake, calls, faults, restarts>>
  BY DEF Sweep, RunnerAt
<1>2. /\ runner'.at = "top"
      /\ runner' \in [at : {"start", "top", "select", "saving", "last", "gone"}, armed : BOOLEAN, todo : SUBSET Id]
  BY <1>1 DEF JobInv, Types, RestTyped
<1>3. TypeOK /\ StampsBounded /\ RecordsTyped
  BY TypesAreOK DEF JobInv, Types
<1>4. KeptOf(records', records) /\ RecordsTyped'
  BY <1>3, SweptRecords
<1>5. StampsBounded'
  BY <1>1, <1>3, <1>4, NowIsLater, StampsKept DEF StampedBy, KeptOf
<1>6. Types'
  BY <1>1, <1>2, <1>4, <1>5 DEF JobInv, Types, LiveTyped, CallsTyped, RestTyped, Stamped, IsTable
<1>7. Bounds'
  <2>1. RecordsBounded' /\ KeysUnique'
    BY <1>3, <1>4, FewerRecords DEF JobInv, Bounds, KeptOf
  <2> QED BY <1>1, <1>4, <2>1 DEF JobInv, Bounds, Known, KeptOf
<1>8. \A x : Behind(x)' <=> Behind(x)
  BY <1>4 DEF Behind, KeptOf
<1>9. Runner \notin DOMAIN calls
  BY <1>1 DEF JobInv, Saving, CallsOwn
<1>10. OneSaver'
  BY <1>1 DEF JobInv, Saving, OneSaver, Saves
<1>11. Saving'
  BY <1>1, <1>2, <1>8, <1>9, <1>10 DEF JobInv, Saving, WorkRecorded, SavedLate, CallsOwn, StoredKnown, DownIsEmpty
<1>12. RecordsAgree'
  <2>1. unsaved' = {x \in DOMAIN live' : ~live'[x].durable}
    BY <1>1 DEF JobInv, RecordsAgree
  <2>2. \A x \in DOMAIN records' : x \in DOMAIN records /\ records'[x] = records[x]
    BY <1>4 DEF KeptOf
  <2> QED BY <1>1, <2>1, <2>2 DEF JobInv, RecordsAgree
<1>13. NoRetryLost'
  BY <1>2 DEF NoRetryLost
<1> QED BY <1>6, <1>7, <1>11, <1>12, <1>13 DEF JobInv

\* Sweep's expiry of ended, stored jobs.
LEMMA ExpireKeeps ==
    ASSUME JobInv, Expire
    PROVE  JobInv'
<1>1. /\ up /\ runner.at = "select" /\ runner' = [runner EXCEPT !.at = "top"]
      /\ UNCHANGED <<begun, records, up, starting, unsaved, alert, wake, calls, faults, restarts>>
  BY DEF Expire, RunnerAt
<1>2. /\ runner'.at = "top"
      /\ runner' \in [at : {"start", "top", "select", "saving", "last", "gone"}, armed : BOOLEAN, todo : SUBSET Id]
  BY <1>1 DEF JobInv, Types, RestTyped
<1>3. TypeOK /\ StampsBounded /\ LiveTyped /\ OneSaver
  BY TypesAreOK DEF JobInv, Types, Saving
<1>4. LiveTyped' /\ KeptOf(live', live) /\ \A x \in DOMAIN live \ DOMAIN live' : live[x].durable
  BY <1>3, ExpiredJobs
<1>5. /\ DOMAIN live' \subseteq DOMAIN live /\ \A x \in DOMAIN live' : live'[x] = live[x]
      /\ \A x \in DOMAIN live \ DOMAIN live' : live[x].durable
  BY <1>4 DEF KeptOf
<1>6. StampsBounded'
  BY <1>1, <1>3, <1>5, NowIsLater, StampsKept DEF StampedBy
<1>7. Types'
  BY <1>1, <1>2, <1>4, <1>6 DEF JobInv, Types, RecordsTyped, CallsTyped, RestTyped, Stamped, IsTable
<1>8. Bounds'
  BY <1>1, <1>5 DEF JobInv, Bounds, RecordsBounded, Known, KeysUnique
<1>9. Runner \notin DOMAIN calls
  BY <1>1 DEF JobInv, Saving, CallsOwn
<1>10. OneSaver'
  <2>1. \A q \in Process : (Saves(q)' <=> Saves(q)) /\ calls'[q].id = calls[q].id
    BY <1>1 DEF Saves
  <2>2. ASSUME NEW q \in Process, Saves(q)'
        PROVE  calls[q].id \in DOMAIN live' /\ live'[calls[q].id].saving
    <3>1. calls[q].id \in DOMAIN live /\ live[calls[q].id].saving /\ ~live[calls[q].id].durable
      BY <2>1, <2>2, SavedJob
    <3> QED BY <1>5, <3>1
  <2> QED BY <1>3, <1>5, <2>1, <2>2, SaversKept
<1>11. Saving'
  BY <1>1, <1>2, <1>5, <1>9, <1>10 DEF JobInv, Saving, WorkRecorded, SavedLate, CallsOwn, StoredKnown, DownIsEmpty,
     Behind
<1>12. RecordsAgree'
  BY <1>1, <1>5 DEF JobInv, RecordsAgree
<1>13. NoRetryLost'
  BY <1>2 DEF NoRetryLost
<1> QED BY <1>7, <1>8, <1>11, <1>12, <1>13 DEF JobInv

---------------------------------------------------------------------------
(* The process                                                             *)

\* A crash or an exit forgets the live view, and no record.
LEMMA HaltKeeps ==
    ASSUME JobInv, Halt
    PROVE  JobInv'
<1>1. /\ starting' = {} /\ live' = EmptyTable /\ unsaved' = {} /\ calls' = EmptyTable /\ runner' = Starting
      /\ ~up' /\ ~alert' /\ ~wake' /\ up' \in BOOLEAN /\ alert' \in BOOLEAN /\ wake' \in BOOLEAN
      /\ restarts' \in 0..MaxRestart
      /\ UNCHANGED <<begun, records, faults>>
  <2>1. restarts \in 0..MaxRestart
    BY DEF JobInv, Types, RestTyped
  <2>2. restarts < MaxRestart /\ restarts' = restarts + 1
    BY DEF Halt
  <2>3. restarts' \in 0..MaxRestart
    BY <2>1, <2>2, BoundsAssumption
  <2> QED BY <2>3 DEF Halt
<1>2. DOMAIN live' = {} /\ DOMAIN calls' = {}
  BY <1>1 DEF EmptyTable
<1>3. runner'.at = "start"
      /\ runner' \in [at : {"start", "top", "select", "saving", "last", "gone"}, armed : BOOLEAN, todo : SUBSET Id]
  BY <1>1 DEF Starting
<1>4. LiveTyped' /\ CallsTyped'
  BY <1>1, <1>2 DEF LiveTyped, CallsTyped, IsTable, Stamped, EmptyTable
<1>5. TypeOK /\ StampsBounded
  BY TypesAreOK DEF JobInv, Types
<1>6. StampsBounded'
  BY <1>1, <1>2, <1>5, NowIsLater, StampsKept DEF StampedBy
<1>7. Types'
  BY <1>1, <1>3, <1>4, <1>6 DEF JobInv, Types, RecordsTyped, RestTyped, Stamped, IsTable
<1>8. Bounds'
  BY <1>1, <1>2 DEF JobInv, Bounds, RecordsBounded, Known, KeysUnique
<1>9. Saving'
  BY <1>1, <1>2 DEF Saving, WorkRecorded, SavedLate, CallsOwn, OneSaver, Saves, StoredKnown, DownIsEmpty
<1>10. RecordsAgree' /\ NoRetryLost'
  BY <1>1, <1>2 DEF RecordsAgree, NoRetryLost
<1> QED BY <1>7, <1>8, <1>9, <1>10 DEF JobInv

\* New marks records and adds none, whether it gets through or not.
LEMMA MarkedRecords ==
    ASSUME TypeOK, RecordsTyped, StampsBounded, NEW S \in SUBSET Unfinished, records' = Marked(S)
    PROVE  /\ RecordsTyped' /\ DOMAIN records' = DOMAIN records
           /\ \A x \in S : records'[x].outcome = Interrupted /\ records'[x].ended = Now
           /\ \A x \in DOMAIN records \ S : records'[x] = records[x]
<1>1. Now \in Nat /\ Now # 0 /\ Interrupted \in AnyOutcome /\ Interrupted # None
  BY NowIsLater DEF AnyOutcome, Interrupted, None
<1>2. S \subseteq DOMAIN records
  BY DEF Unfinished
<1>3. /\ DOMAIN records' = DOMAIN records /\ records' = [x \in DOMAIN records' |-> records'[x]]
      /\ \A x \in DOMAIN records \ S : records'[x] = records[x]
      /\ \A x \in S : records'[x] = MarkedAt(x, Now)
  BY <1>2 DEF Marked
<1>4. \A x \in S : /\ records'[x].outcome = Interrupted /\ records'[x].ended = Now
                   /\ records'[x] \in Record
  <2> TAKE x \in S
  <2>1. records[x].rev + 1 \in Nat
    BY <1>2 DEF RecordsTyped, IsTable, Record
  <2>2. records'[x] = [outcome |-> Interrupted, rev |-> records[x].rev + 1, ended |-> Now]
    BY <1>3 DEF MarkedAt
  <2>3. records'[x].outcome = Interrupted /\ records'[x].ended = Now
    BY <2>2
  <2>4. records'[x] \in Record
    BY <1>1, <2>1, <2>2 DEF Record
  <2> QED BY <2>3, <2>4
<1>5. \A x \in DOMAIN records : records'[x] \in Record /\ (Done(records'[x]) <=> records'[x].ended # 0)
  BY <1>1, <1>3, <1>4 DEF RecordsTyped, IsTable, Stamped, Done
<1>6. RecordsTyped'
  BY <1>3, <1>5 DEF RecordsTyped, IsTable, Stamped
<1> QED BY <1>3, <1>4, <1>6

\* New: what a crash left open is marked interrupted.
LEMMA OpenKeeps ==
    ASSUME JobInv, Open
    PROVE  JobInv'
<1>1. /\ starting = {} /\ unsaved = {} /\ calls = EmptyTable /\ runner = Starting
      /\ up' = TRUE
      /\ UNCHANGED <<begun, starting, unsaved, alert, wake, calls, runner, faults, restarts>>
  BY DEF Open, JobInv, Saving, DownIsEmpty
<1>2. TypeOK /\ StampsBounded /\ RecordsTyped
  BY TypesAreOK DEF JobInv, Types
<1>3. /\ LiveTyped' /\ RecordsTyped' /\ DOMAIN records' = DOMAIN records
      /\ DOMAIN live' \subseteq Unfinished
      /\ \A x \in Unfinished : records'[x].outcome = Interrupted /\ records'[x].ended = Now
      /\ \A x \in DOMAIN records \ Unfinished : records'[x] = records[x]
      /\ \A x \in DOMAIN live' : /\ live'[x].outcome = Interrupted /\ live'[x].ended = Now
                                 /\ live'[x].durable /\ ~live'[x].saving
  BY <1>2, OpenedJobs
<1>4. DOMAIN calls = {} /\ DOMAIN calls' = {} /\ runner'.at = "start" /\ Unfinished \subseteq DOMAIN records
  BY <1>1 DEF EmptyTable, Starting, Unfinished
<1>5. StampsBounded'
  <2>1. Now \in Nat /\ (\A x \in DOMAIN records : records[x].ended <= Now)
    BY <1>2, NowIsLater DEF StampedBy
  <2>2. (\A x \in DOMAIN records' : records'[x].ended <= Now) /\ (\A x \in DOMAIN live' : live'[x].ended <= Now)
    BY <1>3, <2>1
  <2> QED BY <1>2, <2>2, StampsKept
<1>6. Types'
  BY <1>1, <1>3, <1>5 DEF JobInv, Types, CallsTyped, RestTyped, IsTable
<1>7. Bounds'
  <2>1. RecordsBounded' /\ KeysUnique'
    BY <1>2, <1>3, FewerRecords DEF JobInv, Bounds
  <2> QED BY <1>1, <1>3, <1>4, <2>1 DEF JobInv, Bounds, Known
<1>8. Saving'
  BY <1>1, <1>3, <1>4 DEF Saving, WorkRecorded, SavedLate, CallsOwn, OneSaver, Saves, StoredKnown, DownIsEmpty,
     Done, Interrupted, None
<1>9. RecordsAgree'
  BY <1>1, <1>3, <1>4 DEF RecordsAgree, Done, Interrupted, None
<1>10. NoRetryLost'
  BY <1>4 DEF NoRetryLost
<1> QED BY <1>6, <1>7, <1>8, <1>9, <1>10 DEF JobInv

\* New when its own write fails, having landed or not.
LEMMA OpenFailsKeeps ==
    ASSUME JobInv, OpenFails
    PROVE  JobInv'
<1>1. /\ ~up /\ starting = {} /\ unsaved = {} /\ calls = EmptyTable /\ runner = Starting /\ live = EmptyTable
      /\ UNCHANGED <<begun, up, starting, live, unsaved, alert, wake, calls, runner, restarts>>
  BY DEF OpenFails, memory, JobInv, Saving, DownIsEmpty
<1>2. TypeOK /\ StampsBounded /\ RecordsTyped
  BY TypesAreOK DEF JobInv, Types
<1>3. PICK S \in SUBSET Unfinished : records' = Marked(S)
  BY DEF OpenFails
<1>4. /\ RecordsTyped' /\ DOMAIN records' = DOMAIN records
      /\ \A x \in S : records'[x].outcome = Interrupted /\ records'[x].ended = Now
      /\ \A x \in DOMAIN records \ S : records'[x] = records[x]
  BY <1>2, <1>3, MarkedRecords
<1>5. DOMAIN live = {} /\ DOMAIN calls = {} /\ faults' \in 0..MaxFaults /\ runner.at = "start"
  BY <1>1, BoundsAssumption DEF EmptyTable, Starting, OpenFails, Fault, JobInv, Types, RestTyped
<1>6. StampsBounded'
  <2>1. Now \in Nat /\ (\A x \in DOMAIN records : records[x].ended <= Now)
    BY <1>2, NowIsLater DEF StampedBy
  <2>2. (\A x \in DOMAIN records' : records'[x].ended <= Now) /\ (\A x \in DOMAIN live' : live'[x].ended <= Now)
    BY <1>1, <1>4, <1>5, <2>1
  <2> QED BY <1>2, <2>2, StampsKept
<1>7. Types'
  BY <1>1, <1>4, <1>5, <1>6 DEF JobInv, Types, LiveTyped, CallsTyped, RestTyped, IsTable, Stamped
<1>8. Bounds'
  <2>1. RecordsBounded' /\ KeysUnique'
    BY <1>2, <1>4, FewerRecords DEF JobInv, Bounds
  <2> QED BY <1>1, <1>4, <2>1 DEF JobInv, Bounds, Known
<1>9. Saving'
  BY <1>1, <1>5 DEF Saving, WorkRecorded, SavedLate, CallsOwn, OneSaver, Saves, StoredKnown, DownIsEmpty
<1>10. RecordsAgree' /\ NoRetryLost'
  BY <1>1, <1>5 DEF RecordsAgree, NoRetryLost
<1> QED BY <1>7, <1>8, <1>9, <1>10 DEF JobInv

---------------------------------------------------------------------------
(* Begin                                                                   *)

\* A set no larger than one that leaves room for one more.
LEMMA OneMore ==
    ASSUME NEW S, IsFiniteSet(S), NEW e, NEW T \in SUBSET (S \union {e}), NEW limit \in Nat, Cardinality(S) < limit
    PROVE  Cardinality(T) <= limit
<1>0. Cardinality(S) \in Nat /\ (e \in S => S \union {e} = S)
  BY FS_CardinalityType
<1>1. IsFiniteSet(S \union {e}) /\ Cardinality(S \union {e}) <= Cardinality(S) + 1
  <2>1. IsFiniteSet(S \union {e}) /\ (e \in S \/ Cardinality(S \union {e}) = Cardinality(S) + 1)
    BY FS_AddElement
  <2> QED BY <1>0, <2>1
<1>2. Cardinality(T) <= Cardinality(S \union {e}) /\ IsFiniteSet(T)
  BY <1>1, FS_Subset
<1> QED BY <1>1, <1>2, FS_CardinalityType

\* The table Begin leaves: some ended records fewer, and the new one.
LEMMA BegunRecords ==
    ASSUME RecordsTyped, RecordsBounded, Known, NEW id \in Id, Begin(id)
    PROVE  /\ RecordsTyped' /\ RecordsBounded' /\ id \notin DOMAIN records
           /\ DOMAIN records' \subseteq DOMAIN records \union {id} /\ id \in DOMAIN records'
           /\ records'[id].outcome = None /\ records'[id].ended = 0
           /\ \A x \in DOMAIN records' \ {id} : records'[x] = records[x]
           /\ \A x \in DOMAIN records \ DOMAIN records' : Done(records[x])
<1> DEFINE new == [outcome |-> None, rev |-> 1, ended |-> 0]
           owner == Asks[id].owner
<1>1. PICK r \in MakeRoom(records, owner) : records' = Put(r, id, new)
  BY DEF Begin
<1>2. id \notin begun /\ id \notin DOMAIN records
  BY DEF Begin, Known
<1>3. owner \in {Asks[x].owner : x \in Id}
  OBVIOUS
<1>4. new \in Record /\ new.outcome = None /\ new.ended = 0
  BY DEF Record
<1> HIDE DEF new
<1>5. /\ KeptOf(r, records) /\ Cardinality(OwnedBy(r, owner)) < PerOwner
      /\ owner # System => Cardinality(Users(r)) < Total
  <2>1. Cardinality(OwnedBy(records, owner)) <= PerOwner /\ Cardinality(Users(records)) <= Total
    BY <1>3 DEF RecordsBounded, Users
  <2> HIDE DEF owner
  <2> QED BY <2>1, RoomIsMade DEF RecordsTyped, IsTable
<1>6. /\ DOMAIN records' = DOMAIN r \union {id} /\ records'[id] = new
      /\ \A x \in DOMAIN r \ {id} : records'[x] = r[x]
      /\ records' = [x \in DOMAIN records' |-> records'[x]]
  BY <1>1 DEF Put
<1>7. /\ DOMAIN r \subseteq DOMAIN records /\ \A x \in DOMAIN r : r[x] = records[x]
      /\ \A x \in DOMAIN records \ DOMAIN r : Done(records[x])
  BY <1>5 DEF KeptOf
<1>8. /\ \A x \in DOMAIN records' \ {id} : records'[x] = records[x] /\ x \in DOMAIN records
      /\ \A x \in DOMAIN records \ DOMAIN records' : Done(records[x])
  BY <1>6, <1>7
<1>9. IsFiniteSet(DOMAIN records) /\ IsFiniteSet(DOMAIN r) /\ IsFiniteSet(DOMAIN records')
  BY <1>6, <1>7, FS_Subset, FS_AddElement DEF RecordsTyped
<1>10. RecordsTyped'
  <2>1. \A x \in DOMAIN records' : records'[x] \in Record /\ (Done(records'[x]) <=> records'[x].ended # 0)
    BY <1>4, <1>6, <1>8 DEF RecordsTyped, IsTable, Stamped, Done
  <2>2. DOMAIN records' \subseteq Id
    BY <1>8 DEF RecordsTyped, IsTable
  <2> QED BY <1>6, <1>9, <2>1, <2>2 DEF RecordsTyped, IsTable, Stamped
<1>11. ASSUME NEW o \in {Asks[x].owner : x \in Id}
       PROVE  Cardinality(OwnedBy(records', o)) <= PerOwner
  <2>1. CASE o = owner
    <3>1. OwnedBy(records', o) \subseteq OwnedBy(r, owner) \union {id} /\ IsFiniteSet(OwnedBy(r, owner))
      BY <1>6, <1>9, <2>1, FS_Subset DEF OwnedBy
    <3> HIDE DEF owner
    <3> QED BY <1>5, <3>1, OneMore, LimitsAssumption
  <2>2. CASE o # owner
    <3>1. OwnedBy(records', o) \subseteq OwnedBy(records, o) /\ IsFiniteSet(OwnedBy(records, o))
      BY <1>8, <1>9, <2>2, FS_Subset DEF OwnedBy
    <3>2. Cardinality(OwnedBy(records', o)) <= Cardinality(OwnedBy(records, o)) /\ IsFiniteSet(OwnedBy(records', o))
      BY <3>1, FS_Subset
    <3>3. Cardinality(OwnedBy(records, o)) <= PerOwner
      BY DEF RecordsBounded
    <3> QED BY <3>1, <3>2, <3>3, FS_CardinalityType, LimitsAssumption
  <2> QED BY <2>1, <2>2
<1>12. Cardinality(Users(records')) <= Total
  <2>1. CASE owner # System
    <3>1. Users(records') \subseteq Users(r) \union {id} /\ IsFiniteSet(Users(r))
      BY <1>6, <1>9, FS_Subset DEF Users
    <3> QED BY <1>5, <2>1, <3>1, OneMore, LimitsAssumption
  <2>2. CASE owner = System
    <3>1. Users(records') \subseteq Users(records) /\ IsFiniteSet(Users(records))
      BY <1>8, <1>9, <2>2, FS_Subset DEF Users, UserOwned
    <3>2. Cardinality(Users(records')) <= Cardinality(Users(records)) /\ IsFiniteSet(Users(records'))
      BY <3>1, FS_Subset
    <3>3. Cardinality(Users(records)) <= Total
      BY DEF RecordsBounded, Users
    <3> QED BY <3>1, <3>2, <3>3, FS_CardinalityType, LimitsAssumption
  <2> QED BY <2>1, <2>2
<1>13. RecordsBounded'
  BY <1>11, <1>12 DEF RecordsBounded, OwnedBy, Users, UserOwned
<1> QED BY <1>2, <1>4, <1>6, <1>8, <1>10, <1>13

\* Begin: replay, room for one more, and the record of the new job.
LEMMA BeginKeeps ==
    ASSUME JobInv, NEW id \in Id, Begin(id)
    PROVE  JobInv'
<1>1. /\ up /\ id \notin begun /\ Holders(id) = {} /\ begun' = begun \union {id}
      /\ starting' \in {starting, starting \union {id}} /\ faults' \in 0..MaxFaults
      /\ UNCHANGED <<up, live, unsaved, alert, wake, calls, runner, restarts>>
  <2>1. faults \in 0..MaxFaults
    BY DEF JobInv, Types, RestTyped
  <2> QED BY <2>1, BoundsAssumption DEF Begin, Fault
<1>2. TypeOK /\ StampsBounded /\ RecordsTyped /\ RecordsBounded /\ Known /\ KeysUnique
  BY TypesAreOK DEF JobInv, Types, Bounds
<1>3. /\ RecordsTyped' /\ RecordsBounded' /\ id \notin DOMAIN records
      /\ DOMAIN records' \subseteq DOMAIN records \union {id} /\ id \in DOMAIN records'
      /\ records'[id].outcome = None /\ records'[id].ended = 0
      /\ \A x \in DOMAIN records' \ {id} : records'[x] = records[x]
      /\ \A x \in DOMAIN records \ DOMAIN records' : Done(records[x])
  BY <1>2, BegunRecords
<1>4. id \notin DOMAIN live /\ id \notin starting
  BY <1>1, <1>2 DEF Known
<1>5. StampsBounded'
  <2>1. /\ Now \in Nat /\ (\A x \in DOMAIN records : records[x].ended <= Now)
        /\ (\A x \in DOMAIN live : live[x].ended <= Now)
    BY <1>2, NowIsLater DEF StampedBy
  <2>2. \A x \in DOMAIN records' : records'[x].ended <= Now
    BY <1>3, <2>1
  <2> QED BY <1>1, <1>2, <2>1, <2>2, StampsKept
<1>6. Types'
  BY <1>1, <1>3, <1>5 DEF JobInv, Types, LiveTyped, CallsTyped, RestTyped, Stamped, IsTable
<1>7. KeysUnique'
  <2>1. \A x \in DOMAIN records : Asks[id].key # NoKey => Asks[x] # Asks[id]
    BY <1>1 DEF Holders
  <2>2. ASSUME NEW x \in DOMAIN records', NEW y \in DOMAIN records', Asks[x].key # NoKey, Asks[x] = Asks[y]
        PROVE  x = y
    <3>1. CASE x = id \/ y = id
      BY <1>3, <2>1, <2>2, <3>1
    <3>2. CASE x # id /\ y # id
      BY <1>2, <1>3, <2>2, <3>2 DEF KeysUnique
    <3> QED BY <3>1, <3>2
  <2> QED BY <2>2 DEF KeysUnique
<1>8. Known'
  BY <1>1, <1>2, <1>3 DEF Known
<1>9. /\ Behind(id)'
      /\ \A x \in begun : Behind(x)' <=> Behind(x)
  BY <1>1, <1>3 DEF Behind, Done
<1>10. OneSaver'
  BY <1>1 DEF JobInv, Saving, OneSaver, Saves
<1>11. WorkRecorded'
  BY <1>1, <1>2, <1>4, <1>9 DEF JobInv, Saving, WorkRecorded, Known
<1>12. StoredKnown'
  <2>1. \A p \in DOMAIN calls : calls[p].at = "stored" => calls[p].id \in begun
    BY <1>2 DEF JobInv, Saving, OneSaver, Saves, Known, Types, CallsTyped, IsTable
  <2> QED BY <1>1, <1>9, <2>1 DEF JobInv, Saving, StoredKnown
<1>13. SavedLate' /\ CallsOwn' /\ DownIsEmpty'
  BY <1>1 DEF JobInv, Saving, SavedLate, CallsOwn, DownIsEmpty
<1>14. RecordsAgree'
  <2>1. unsaved' = {x \in DOMAIN live' : ~live'[x].durable}
    BY <1>1 DEF JobInv, RecordsAgree
  <2>2. \A x \in DOMAIN live \intersect DOMAIN records' : x \in DOMAIN records /\ records'[x] = records[x]
    BY <1>3, <1>4
  <2> QED BY <1>1, <2>1, <2>2 DEF JobInv, RecordsAgree
<1>15. NoRetryLost'
  BY <1>1 DEF JobInv, NoRetryLost
<1> QED BY <1>3, <1>6, <1>7, <1>8, <1>10, <1>11, <1>12, <1>13, <1>14, <1>15 DEF JobInv, Bounds, Saving

---------------------------------------------------------------------------
(* Theorems                                                                *)

\* The invariant holds of an empty store.
LEMMA InitHolds == Init => JobInv
<1> SUFFICES ASSUME Init PROVE JobInv
  OBVIOUS
<1>1. /\ begun = {} /\ DOMAIN records = {} /\ up = TRUE /\ starting = {} /\ DOMAIN live = {} /\ unsaved = {}
      /\ ~alert /\ ~wake /\ DOMAIN calls = {} /\ runner.at = "start" /\ faults = 0 /\ restarts = 0
      /\ alert \in BOOLEAN /\ wake \in BOOLEAN
      /\ runner \in [at : {"start", "top", "select", "saving", "last", "gone"}, armed : BOOLEAN, todo : SUBSET Id]
      /\ records = [x \in {} |-> records[x]] /\ live = [x \in {} |-> live[x]] /\ calls = [x \in {} |-> calls[x]]
  BY DEF Init, EmptyTable, Starting
<1>2. RecordsTyped /\ LiveTyped /\ CallsTyped
  BY <1>1, FS_EmptySet DEF RecordsTyped, LiveTyped, CallsTyped, IsTable, Stamped
<1>3. RestTyped
  BY <1>1, BoundsAssumption DEF RestTyped
<1>4. StampsBounded
  <2>1. StampedBy(0)
    BY <1>1 DEF StampedBy
  <2> QED BY <2>1 DEF StampsBounded
<1>5. RecordsBounded
  <2>1. \A owner : OwnedBy(records, owner) = {}
    BY <1>1 DEF OwnedBy
  <2>2. {x \in DOMAIN records : UserOwned(x)} = {}
    BY <1>1
  <2> QED BY <2>1, <2>2, FS_EmptySet, LimitsAssumption DEF RecordsBounded
<1>6. Bounds
  BY <1>1, <1>5 DEF Bounds, Known, KeysUnique
<1>7. Saving
  BY <1>1 DEF Saving, WorkRecorded, SavedLate, CallsOwn, OneSaver, Saves, StoredKnown, DownIsEmpty
<1>8. RecordsAgree /\ NoRetryLost
  BY <1>1 DEF RecordsAgree, NoRetryLost
<1> QED BY <1>2, <1>3, <1>4, <1>6, <1>7, <1>8 DEF JobInv, Types

\* Every step of the specification preserves the invariant.
LEMMA StepKeeps ==
    ASSUME JobInv, [Next]_vars
    PROVE  JobInv'
<1>1. CASE UNCHANGED vars
  <2>1. UNCHANGED <<begun, records, up, starting, live, unsaved, alert, wake, calls, runner, faults, restarts>>
    BY <1>1 DEF vars, memory
  <2>2. Types' /\ Bounds'
    BY <2>1 DEF JobInv, Types, Bounds, RecordsTyped, LiveTyped, CallsTyped, RestTyped, StampsBounded, StampedBy,
       RecordsBounded, Known, KeysUnique, Stamped, IsTable
  <2>3. Saving'
    BY <2>1 DEF JobInv, Saving, WorkRecorded, SavedLate, CallsOwn, OneSaver, Saves, StoredKnown, DownIsEmpty, Behind
  <2>4. RecordsAgree' /\ NoRetryLost'
    BY <2>1 DEF JobInv, RecordsAgree, NoRetryLost
  <2> QED BY <2>2, <2>3, <2>4 DEF JobInv
<1>2. CASE ~up /\ Next
  BY <1>2, DownStays, OpenKeeps, OpenFailsKeeps
<1>3. CASE up /\ Next
  <2>1. ASSUME NEW id \in Id, Begin(id) \/ GoLive(id) \/ Progress(id) PROVE JobInv'
    BY <1>3, <2>1, BeginKeeps, GoLiveKeeps, ProgressKeeps
  <2>2. ASSUME NEW id \in Id, NEW o \in Outcome \union {None}, End(id, o) PROVE JobInv'
    BY <1>3, <2>2, EndKeeps
  <2>3. ASSUME NEW id \in Id, UpdaterPersists(id) \/ SaveNext(id) PROVE JobInv'
    BY <1>3, <2>3, UpdaterPersistsKeeps, SaveNextKeeps
  <2>4. ASSUME NEW p \in Process, PutJob(p) \/ PutFailed(p) \/ PutStored(p) PROVE JobInv'
    BY <1>3, <2>4, PutJobKeeps, PutFailedKeeps, PutStoredKeeps
  <2>5. ASSUME NEW p \in Process, Raise(p) \/ Clear(p) PROVE JobInv'
    BY <1>3, <2>5, RaiseKeeps
  <2>6. ASSUME Top \/ Wake \/ Fire \/ Stop \/ SaveEnds PROVE JobInv'
    BY <2>6, RunKeeps
  <2>7. ASSUME Sweep \/ Expire PROVE JobInv'
    BY <2>7, SweepKeeps, ExpireKeeps
  <2>8. ASSUME Crash \/ Exit PROVE JobInv'
    BY <2>8, HaltKeeps DEF Crash, Exit
  <2>9. ASSUME Open \/ OpenFails PROVE JobInv'
    BY <2>9, OpenKeeps, OpenFailsKeeps
  <2> QED BY <1>3, <2>1, <2>2, <2>3, <2>4, <2>5, <2>6, <2>7, <2>8, <2>9 DEF Next
<1> QED BY <1>1, <1>2, <1>3

\* status.Store keeps the invariant under every interleaving of Begin, Update, persist, Run,
\* Sweep, crashes, failing writes and restarts.
THEOREM Invariance == Spec => []JobInv
<1>1. Init => JobInv
  BY InitHolds
<1>2. JobInv /\ [Next]_vars => JobInv'
  BY StepKeeps
<1> QED BY <1>1, <1>2, PTL DEF Spec

\* The properties of JobRecords that are consequences of the invariant.
LEMMA InvGives == JobInv => KeysAndBounds /\ NoRetryLost /\ RecordsAgree
<1> SUFFICES ASSUME JobInv PROVE KeysAndBounds
  BY DEF JobInv
<1>1. TypeOK /\ RecordsBounded
  BY TypesAreOK DEF JobInv, Bounds
<1>2. OneJobPerKey
  <2> SUFFICES ASSUME NEW x \in DOMAIN live, NEW y \in DOMAIN live, x # y, Asks[x].key # NoKey, Asks[x] = Asks[y],
                      ~Done(live[x]), ~Done(live[y])
               PROVE  FALSE
    BY DEF OneJobPerKey
  <2> QED BY DEF JobInv, Saving, WorkRecorded, Behind, Bounds, KeysUnique
<1> QED BY <1>1, <1>2 DEF KeysAndBounds

\* makeRoom and Begin: no owner and no set of users ever holds more records than its bound,
\* and a key has at most one job at work, for any jobs, owners, keys and bounds.
THEOREM KeysAndBoundsHold == Spec => []KeysAndBounds
<1>1. JobInv => KeysAndBounds
  BY InvGives
<1> QED BY <1>1, Invariance, PTL

\* persist and Run: the runner never sleeps without its timer on a job whose last attempt
\* failed, for any number of jobs and any order of failure, wake and loop.
THEOREM NoRetryIsLost == Spec => []NoRetryLost
<1>1. JobInv => NoRetryLost
  BY InvGives
<1> QED BY <1>1, Invariance, PTL

\* Update and persist: what is on record of a job never contradicts the live one, and the
\* jobs that are not durable are exactly those the runner retries.
THEOREM RecordsAgreeHolds == Spec => []RecordsAgree
<1>1. JobInv => RecordsAgree
  BY InvGives
<1> QED BY <1>1, Invariance, PTL

---------------------------------------------------------------------------
(* What Get answers, and how each step moves it on the board               *)

AnswerUnborn == [at |-> "unborn"]
AnswerOpen == [at |-> "open"]
AnswerGone == [at |-> "gone"]
AnswerKept(o) == [at |-> "ended", outcome |-> o, kept |-> TRUE]
AnswerLate(o) == [at |-> "ended", outcome |-> o, kept |-> FALSE]

\* The board by cases.
BoardAt(x) ==
    /\ x \in DOMAIN live /\ ~Done(live[x]) => board[x] = AnswerOpen
    /\ x \in DOMAIN live /\ Done(live[x]) /\ Behind(x) => board[x] = AnswerLate(live[x].outcome)
    /\ x \in DOMAIN live /\ Done(live[x]) /\ ~Behind(x) => board[x] = AnswerKept(live[x].outcome)
    /\ x \in DOMAIN records \ DOMAIN live /\ ~Behind(x) => board[x] = AnswerKept(records[x].outcome)
    /\ x \notin DOMAIN live /\ Behind(x) /\ up => board[x] = AnswerOpen
    /\ x \notin DOMAIN live /\ Behind(x) /\ ~up => board[x] = AnswerKept(Interrupted)
    /\ x \in begun \ (DOMAIN live \union DOMAIN records) => board[x] = AnswerGone
    /\ x \notin begun \union DOMAIN live \union DOMAIN records => board[x] = AnswerUnborn
    /\ Behind(x) => x \in DOMAIN records

BoardIs == board = [x \in Id |-> board[x]] /\ \A x \in Id : BoardAt(x)

\* Get's answer is the one of its case.
LEMMA BoardByCases == BoardIs
<1>1. board = [x \in Id |-> board[x]]
  BY DEF board
<1>2. ASSUME NEW x \in Id
      PROVE  BoardAt(x)
  <2>1. Behind(x) => x \in DOMAIN records
    BY DEF Behind
  <2> QED BY <2>1 DEF BoardAt, board, AnswerUnborn, AnswerOpen, AnswerGone, AnswerKept, AnswerLate
<1> QED BY <1>1, <1>2 DEF BoardIs

\* The same before and after a step.
LEMMA BoardBefore == BoardIs /\ BoardIs'
BY BoardByCases, PTL

\* What Get reads of job x is as it was.
SameJob(x) ==
    /\ x \in DOMAIN live' <=> x \in DOMAIN live
    /\ x \in DOMAIN live => live'[x].outcome = live[x].outcome

SameRecord(x) ==
    /\ x \in DOMAIN records' <=> x \in DOMAIN records
    /\ x \in DOMAIN records => records'[x].outcome = records[x].outcome

\* Get answers of a job as before when neither its live entry nor its record's end changed.
LEMMA SameAnswer ==
    ASSUME NEW x \in Id, SameJob(x), SameRecord(x), up' = up, begun' = begun
    PROVE  board'[x] = board[x]
<1>1. BoardAt(x) /\ BoardAt(x)'
  BY BoardBefore DEF BoardIs
<1>2. /\ Behind(x)' <=> Behind(x)
      /\ x \in DOMAIN live => (Done(live'[x]) <=> Done(live[x]))
  BY DEF SameJob, SameRecord, Behind, Done
<1>3. CASE x \in DOMAIN live
  BY <1>1, <1>2, <1>3 DEF BoardAt, SameJob
<1>4. CASE x \in DOMAIN records \ DOMAIN live
  BY <1>1, <1>2, <1>4 DEF BoardAt, SameJob, SameRecord
<1>5. CASE x \notin DOMAIN records \union DOMAIN live
  BY <1>1, <1>2, <1>5 DEF BoardAt, SameJob, SameRecord
<1> QED BY <1>3, <1>4, <1>5

\* The board is its answers.
LEMMA SameBoard ==
    ASSUME \A x \in Id : board'[x] = board[x]
    PROVE  board' = board
BY BoardBefore DEF BoardIs

\* A live job that is stored answers as its record does, as long as that is there.
LEMMA StoredAnswer ==
    ASSUME JobInv, NEW x \in Id, x \in DOMAIN live, Done(live[x]), live[x].durable \/ ~Behind(x)
    PROVE  /\ ~Behind(x) /\ board[x] = AnswerKept(live[x].outcome)
           /\ x \in DOMAIN records => live[x].outcome = records[x].outcome
<1>1. BoardAt(x)
  BY BoardBefore DEF BoardIs
<1>2. ~Behind(x)
  BY DEF JobInv, RecordsAgree, Behind
<1>3. x \in DOMAIN records => live[x].outcome = records[x].outcome
  BY <1>2 DEF JobInv, RecordsAgree, Behind
<1> QED BY <1>1, <1>2, <1>3 DEF BoardAt

\* An answer that is kept, and one that is not yet.
LEMMA AnswerIs ==
    ASSUME NEW x, NEW o
    PROVE  /\ board[x] = AnswerKept(o) => Promise!Kept(x) /\ board[x].at = "ended"
           /\ board[x] = AnswerLate(o) => ~Promise!Kept(x) /\ board[x].at = "ended"
           /\ board[x] = AnswerOpen => ~Promise!Kept(x) /\ board[x].at = "open"
           /\ board[x] = AnswerGone => board[x].at = "gone"
           /\ board[x] = AnswerUnborn => board[x].at = "unborn"
<1>1. board[x] = AnswerKept(o) => board[x].at = "ended" /\ board[x].kept = TRUE
  BY DEF AnswerKept
<1>2. board[x] = AnswerLate(o) => board[x].at = "ended" /\ board[x].kept = FALSE
  BY DEF AnswerLate
<1>3. board[x] = AnswerOpen => board[x].at = "open"
  BY DEF AnswerOpen
<1>4. board[x] = AnswerGone => board[x].at = "gone"
  BY DEF AnswerGone
<1>5. board[x] = AnswerUnborn => board[x].at = "unborn"
  BY DEF AnswerUnborn
<1> QED BY <1>1, <1>2, <1>3, <1>4, <1>5 DEF Promise!Kept

\* Jobs whose answer is kept may be forgotten.
LEMMA ForgetStep ==
    ASSUME NEW G \in SUBSET Id,
           \A x \in G : \E o : board[x] = AnswerKept(o),
           \A x \in G : board'[x] = AnswerGone,
           \A x \in Id \ G : board'[x] = board[x]
    PROVE  Promise!Next
<1>1. board' = [x \in Id |-> board'[x]]
  BY BoardBefore DEF BoardIs
<1>2. \A x \in G : Promise!Kept(x)
  BY AnswerIs
<1>3. board' = Promise!Without(G)
  BY <1>1 DEF Promise!Without, Promise!Gone, AnswerGone
<1>4. Promise!Forget(G)
  BY <1>2, <1>3 DEF Promise!Forget
<1> QED BY <1>4 DEF Promise!Next

\* Only jobs whose answer is kept leave the live view or the table.
LEMMA LeavesStep ==
    ASSUME JobInv, up, up' = up, begun' = begun,
           \A x \in DOMAIN live' : x \in DOMAIN live /\ live'[x].outcome = live[x].outcome,
           \A x \in DOMAIN live \ DOMAIN live' : Done(live[x]) /\ ~Behind(x),
           \A x \in DOMAIN records' : x \in DOMAIN records /\ records'[x].outcome = records[x].outcome,
           \A x \in DOMAIN records \ DOMAIN records' : Done(records[x])
    PROVE  Promise!Next \/ board' = board
<1> DEFINE G == {x \in Id : /\ x \in DOMAIN live \union DOMAIN records
                          /\ x \notin DOMAIN live' \union DOMAIN records'}
<1>1. ASSUME NEW x \in Id
      PROVE  BoardAt(x) /\ BoardAt(x)' /\ (Behind(x)' <=> Behind(x))
  BY BoardBefore DEF BoardIs, Behind, Done
<1>2. ASSUME NEW x \in G
      PROVE  board'[x] = AnswerGone /\ \E o : board[x] = AnswerKept(o)
  <2>1. x \in begun
    BY DEF JobInv, Bounds, Known
  <2>2. board'[x] = AnswerGone
    BY <1>1, <2>1 DEF BoardAt
  <2>3. ~Behind(x)
    BY DEF Behind
  <2>4. CASE x \in DOMAIN live
    <3>1. Done(live[x]) /\ board[x] = AnswerKept(live[x].outcome)
      BY <1>1, <2>3, <2>4 DEF BoardAt
    <3> QED BY <2>2, <3>1
  <2>5. CASE x \in DOMAIN records \ DOMAIN live
    <3>1. board[x] = AnswerKept(records[x].outcome)
      BY <1>1, <2>3, <2>5 DEF BoardAt
    <3> QED BY <2>2, <3>1
  <2> QED BY <2>2, <2>4, <2>5
<1>3. ASSUME NEW x \in Id \ G
      PROVE  board'[x] = board[x]
  <2>1. CASE x \in DOMAIN live'
    <3>1. x \in DOMAIN live /\ live'[x].outcome = live[x].outcome /\ (Done(live'[x]) <=> Done(live[x]))
      BY <2>1 DEF Done
    <3> QED BY <1>1, <2>1, <3>1 DEF BoardAt
  <2>2. CASE x \in DOMAIN live /\ x \notin DOMAIN live'
    <3>1. Done(live[x]) /\ ~Behind(x) /\ x \in DOMAIN records' /\ x \in DOMAIN records
          /\ records'[x].outcome = records[x].outcome
      BY <2>2
    <3>2. board[x] = AnswerKept(records[x].outcome)
      BY <2>2, <3>1, StoredAnswer
    <3> QED BY <1>1, <2>2, <3>1, <3>2 DEF BoardAt
  <2>3. CASE x \notin DOMAIN live \union DOMAIN live'
    <3>1. SameRecord(x) /\ SameJob(x)
      BY <2>3 DEF SameRecord, SameJob
    <3> QED BY <3>1, SameAnswer
  <2> QED BY <2>1, <2>2, <2>3
<1>4. G \in SUBSET Id
  OBVIOUS
<1> HIDE DEF G
<1> QED BY <1>2, <1>3, <1>4, ForgetStep

\* A job nobody has heard of is taken on, and kept jobs may make room for it.
LEMMA StartStep ==
    ASSUME NEW id \in Id, NEW G \in SUBSET Id, id \notin G,
           board[id] = AnswerUnborn, board'[id] = AnswerOpen,
           \A x \in G : \E o : board[x] = AnswerKept(o),
           \A x \in G : board'[x] = AnswerGone,
           \A x \in Id \ (G \union {id}) : board'[x] = board[x]
    PROVE  Promise!Next
<1>1. board' = [x \in Id |-> board'[x]]
  BY BoardBefore DEF BoardIs
<1>2. \A x \in G : Promise!Kept(x)
  BY AnswerIs
<1>3. board' = [Promise!Without(G) EXCEPT ![id] = Promise!Open]
  BY <1>1 DEF Promise!Without, Promise!Gone, AnswerGone, Promise!Open, AnswerOpen
<1>4. board[id] = Promise!Unborn
  BY DEF Promise!Unborn, AnswerUnborn
<1>5. Promise!Start(id, G)
  BY <1>2, <1>3, <1>4 DEF Promise!Start
<1> QED BY <1>5 DEF Promise!Next

\* Begin takes a job on; the records that make room were kept.
LEMMA BeginStarts ==
    ASSUME JobInv, JobInv', NEW id \in Id, Begin(id)
    PROVE  Promise!Next
<1> DEFINE G == {x \in DOMAIN records : x \notin DOMAIN live \union DOMAIN records'}
<1>1. up /\ id \notin begun /\ begun' = begun \union {id} /\ up' = up /\ live' = live
  BY DEF Begin
<1>2. RecordsTyped /\ RecordsBounded /\ Known
  BY DEF JobInv, Types, Bounds
<1>3. /\ id \notin DOMAIN records
      /\ DOMAIN records' \subseteq DOMAIN records \union {id} /\ id \in DOMAIN records'
      /\ records'[id].outcome = None
      /\ \A x \in DOMAIN records' \ {id} : records'[x] = records[x]
      /\ \A x \in DOMAIN records \ DOMAIN records' : Done(records[x])
  BY <1>2, BegunRecords
<1>4. ASSUME NEW x \in Id
      PROVE  BoardAt(x) /\ BoardAt(x)'
  BY BoardBefore DEF BoardIs
<1>5. id \notin DOMAIN live /\ Behind(id)'
  BY <1>1, <1>2, <1>3 DEF Known, Behind, Done
<1>6. board[id] = AnswerUnborn /\ board'[id] = AnswerOpen
  BY <1>1, <1>3, <1>4, <1>5 DEF BoardAt
<1>7. ASSUME NEW x \in Id \ {id}
      PROVE  Behind(x)' <=> Behind(x)
  BY <1>3 DEF Behind
<1>8. ASSUME NEW x \in G
      PROVE  board'[x] = AnswerGone /\ \E o : board[x] = AnswerKept(o)
  <2>1. x \in Id /\ x \in begun /\ x # id /\ ~Behind(x)
    BY <1>2, <1>3 DEF RecordsTyped, IsTable, Known, Behind
  <2> QED BY <1>1, <1>4, <2>1 DEF BoardAt
<1>9. ASSUME NEW x \in Id \ (G \union {id})
      PROVE  board'[x] = board[x]
  <2>1. CASE x \in DOMAIN live
    BY <1>1, <1>4, <1>7, <2>1 DEF BoardAt
  <2>2. CASE x \in DOMAIN records \ DOMAIN live
    <3>1. x \in DOMAIN records' /\ records'[x] = records[x]
      BY <1>3, <2>2
    <3> QED BY <1>1, <1>4, <1>7, <2>2, <3>1 DEF BoardAt
  <2>3. CASE x \notin DOMAIN records \union DOMAIN live
    <3>1. x \notin DOMAIN records' /\ (x \in begun' <=> x \in begun)
      BY <1>1, <1>3, <2>3
    <3> QED BY <1>1, <1>4, <2>3, <3>1 DEF BoardAt
  <2> QED BY <2>1, <2>2, <2>3
<1>10. G \in SUBSET Id /\ id \notin G
  BY <1>2, <1>3 DEF RecordsTyped, IsTable
<1> HIDE DEF G
<1> QED BY <1>6, <1>8, <1>9, <1>10, StartStep

\* A job that enters the live view is open already; those it evicts are on record.
LEMMA GoLiveStutters ==
    ASSUME JobInv, up, NEW id \in Id, GoLive(id)
    PROVE  board' = board
<1>1. /\ id \in starting /\ begun' = begun /\ up' = up /\ records' = records
      /\ DOMAIN live' = DOMAIN live \union {id} /\ live'[id].outcome = None
      /\ \A x \in DOMAIN live \ {id} : live'[x] = live[x]
  BY DEF GoLive, Put
<1>2. id \notin DOMAIN live /\ Behind(id)
  BY <1>1 DEF JobInv, Saving, WorkRecorded
<1>3. BoardAt(id) /\ BoardAt(id)'
  BY BoardBefore DEF BoardIs
<1>4. board'[id] = board[id]
  <2>1. board'[id] = AnswerOpen
    BY <1>1, <1>3 DEF BoardAt, Done
  <2>2. board[id] = AnswerOpen
    BY <1>2, <1>3 DEF BoardAt
  <2> QED BY <2>1, <2>2
<1>5. ASSUME NEW x \in Id \ {id}
      PROVE  board'[x] = board[x]
  <2>1. SameJob(x) /\ SameRecord(x)
    BY <1>1 DEF SameJob, SameRecord
  <2> QED BY <1>1, <2>1, SameAnswer
<1> QED BY <1>4, <1>5, SameBoard

\* An end gives an open job its outcome, which is not kept yet.
LEMMA EndEnds ==
    ASSUME JobInv, up, NEW id \in Id, NEW o \in Outcome \union {None}, End(id, o)
    PROVE  Promise!Next
<1>1. /\ id \in DOMAIN live /\ ~Done(live[id]) /\ begun' = begun /\ up' = up /\ records' = records
  BY DEF End, Ending
<1>2. TypeOK /\ StampsBounded /\ LiveTyped /\ Behind(id)
  BY <1>1, TypesAreOK DEF JobInv, Types, Saving, WorkRecorded
<1>3. OnlyJob(id) /\ live'[id].outcome \in AnyOutcome \ {None}
  BY <1>2, EndingJob
<1>4. BoardAt(id) /\ BoardAt(id)' /\ board = [x \in Id |-> board[x]] /\ board' = [x \in Id |-> board'[x]]
  BY BoardBefore DEF BoardIs
<1>5. board[id] = Promise!Open
  BY <1>1, <1>4 DEF BoardAt, Promise!Open, AnswerOpen
<1>6. board'[id] = Promise!Ended(live'[id].outcome, FALSE)
  <2>1. id \in DOMAIN live' /\ Done(live'[id]) /\ Behind(id)'
    BY <1>1, <1>2, <1>3 DEF OnlyJob, Done, Behind
  <2> QED BY <1>4, <2>1 DEF BoardAt, Promise!Ended, AnswerKept, AnswerLate
<1>7. ASSUME NEW x \in Id \ {id}
      PROVE  board'[x] = board[x]
  <2>1. SameJob(x) /\ SameRecord(x)
    BY <1>1, <1>3 DEF SameJob, SameRecord, OnlyJob
  <2> QED BY <1>1, <2>1, SameAnswer
<1>8. board' = [board EXCEPT ![id] = Promise!Ended(live'[id].outcome, FALSE)]
  BY <1>4, <1>6, <1>7
<1>9. PICK a \in AnyOutcome : a = live'[id].outcome
  BY <1>3
<1>10. Promise!End(id, a)
  BY <1>5, <1>8, <1>9 DEF Promise!End
<1> QED BY <1>10 DEF Promise!Next

\* A write that lands keeps the answer of the job, whatever the caller is told.
LEMMA PutJobKeepsAnswer ==
    ASSUME JobInv, up, NEW p \in Process, PutJob(p)
    PROVE  Promise!Next \/ board' = board
<1>1. Saves(p) /\ begun' = begun /\ up' = up /\ live' = live
  BY DEF PutJob, Saves
<1>2. PICK id \in Id : id = calls[p].id /\ id \in DOMAIN live /\ Done(live[id])
  BY <1>1, SavedJob
<1>3. /\ DOMAIN records' = DOMAIN records
      /\ \A x \in DOMAIN records \ {id} : records'[x] = records[x]
      /\ \/ records' = records
         \/ id \in DOMAIN records /\ records'[id].outcome = live[id].outcome
  BY <1>2, Written
<1>4. BoardAt(id) /\ BoardAt(id)' /\ board = [x \in Id |-> board[x]] /\ board' = [x \in Id |-> board'[x]]
  BY <1>2, BoardBefore DEF BoardIs
<1>5. ASSUME NEW x \in Id \ {id}
      PROVE  board'[x] = board[x]
  <2>1. SameJob(x) /\ SameRecord(x)
    BY <1>1, <1>3 DEF SameJob, SameRecord
  <2> QED BY <1>1, <2>1, SameAnswer
<1>6. CASE records' = records
  <2>1. SameJob(id) /\ SameRecord(id)
    BY <1>1, <1>6 DEF SameJob, SameRecord
  <2>2. board'[id] = board[id]
    BY <1>1, <1>2, <2>1, SameAnswer
  <2> QED BY <1>5, <2>2, SameBoard
<1>7. CASE id \in DOMAIN records /\ records'[id].outcome = live[id].outcome
  <2>1. ~Behind(id)'
    BY <1>1, <1>2, <1>7 DEF Behind, Done
  <2>2. board'[id] = AnswerKept(live[id].outcome)
    BY <1>1, <1>2, <1>4, <2>1 DEF BoardAt
  <2>3. board[id] \in {AnswerKept(live[id].outcome), AnswerLate(live[id].outcome)}
    BY <1>2, <1>4 DEF BoardAt
  <2>4. board[id].at = "ended" /\ board[id].outcome = live[id].outcome
    BY <2>3 DEF AnswerKept, AnswerLate
  <2>5. board' = [board EXCEPT ![id] = AnswerKept(board[id].outcome)]
    BY <1>2, <1>4, <1>5, <2>2, <2>4
  <2>6. Promise!Keep(id)
    BY <2>4, <2>5 DEF Promise!Keep, Promise!Ended, AnswerKept
  <2> QED BY <1>2, <2>6 DEF Promise!Next
<1> QED BY <1>3, <1>6, <1>7

\* A restart keeps what was kept and interrupts the rest.
LEMMA RestartStep ==
    ASSUME NEW G \in SUBSET Id,
           \A x \in G : board'[x] = AnswerGone /\ \E o : board[x] = AnswerKept(o),
           \A x \in Id \ G :
              \/ board'[x] = board[x] /\ (board[x] \in {AnswerUnborn, AnswerGone} \/ \E o : board[x] = AnswerKept(o))
              \/ /\ board[x] = AnswerOpen \/ \E o : board[x] = AnswerLate(o)
                 /\ board'[x] = AnswerKept(Interrupted)
    PROVE  Promise!Next
<1>1. board' = [x \in Id |-> board'[x]]
  BY BoardBefore DEF BoardIs
<1>2. \A x \in G : Promise!Kept(x)
  BY AnswerIs
<1> DEFINE R(x) == IF board[x].at \in {"unborn", "gone"} \/ Promise!Kept(x) THEN Promise!Without(G)[x]
                   ELSE Promise!Ended(Interrupted, TRUE)
<1>3. ASSUME NEW x \in Id
      PROVE  board'[x] = R(x)
  <2>1. Promise!Without(G)[x] = IF x \in G THEN AnswerGone ELSE board[x]
    BY DEF Promise!Without, Promise!Gone, AnswerGone
  <2>2. CASE x \in G
    BY <1>2, <2>1, <2>2
  <2>3. CASE x \notin G /\ board'[x] = board[x]
             /\ (board[x] \in {AnswerUnborn, AnswerGone} \/ \E o : board[x] = AnswerKept(o))
    <3>1. board[x].at \in {"unborn", "gone"} \/ Promise!Kept(x)
      BY <2>3, AnswerIs
    <3> QED BY <2>1, <2>3, <3>1
  <2>4. CASE (board[x] = AnswerOpen \/ \E o : board[x] = AnswerLate(o))
             /\ board'[x] = AnswerKept(Interrupted)
    <3>1. ~ (board[x].at \in {"unborn", "gone"} \/ Promise!Kept(x))
      BY <2>4, AnswerIs
    <3> QED BY <2>4, <3>1 DEF Promise!Ended, AnswerKept, AnswerLate
  <2> QED BY <2>2, <2>3, <2>4
<1>4. board' = [x \in Id |-> R(x)]
  BY <1>1, <1>3
<1>5. Promise!Restart(G)
  BY <1>2, <1>4 DEF Promise!Restart
<1> QED BY <1>5 DEF Promise!Next

\* A crash interrupts the jobs whose record does not say how they ended.
LEMMA HaltRestarts ==
    ASSUME JobInv, Halt
    PROVE  Promise!Next
<1> DEFINE G == {x \in DOMAIN live : x \notin DOMAIN records /\ Done(live[x])}
<1>1. up /\ ~up' /\ begun' = begun /\ records' = records /\ DOMAIN live' = {}
  BY DEF Halt, EmptyTable
<1>2. ASSUME NEW x \in Id
      PROVE  BoardAt(x) /\ BoardAt(x)' /\ (Behind(x)' <=> Behind(x))
  BY <1>1, BoardBefore DEF BoardIs, Behind
<1>3. ASSUME NEW x \in G
      PROVE  board'[x] = AnswerGone /\ \E o : board[x] = AnswerKept(o)
  <2>1. x \in Id /\ x \in begun /\ ~Behind(x)
    BY DEF JobInv, Types, LiveTyped, IsTable, Bounds, Known, Behind
  <2> QED BY <1>1, <1>2, <2>1 DEF BoardAt
<1>4. ASSUME NEW x \in Id \ G
      PROVE  \/ board'[x] = board[x] /\ (board[x] \in {AnswerUnborn, AnswerGone} \/ \E o : board[x] = AnswerKept(o))
             \/ /\ board[x] = AnswerOpen \/ \E o : board[x] = AnswerLate(o)
                /\ board'[x] = AnswerKept(Interrupted)
  <2>1. CASE x \in DOMAIN live /\ ~Done(live[x])
    <3>1. Behind(x)
      BY <2>1 DEF JobInv, Saving, WorkRecorded
    <3> QED BY <1>1, <1>2, <2>1, <3>1 DEF BoardAt
  <2>2. CASE x \in DOMAIN live /\ Done(live[x]) /\ Behind(x)
    BY <1>1, <1>2, <2>2 DEF BoardAt
  <2>3. CASE x \in DOMAIN live /\ Done(live[x]) /\ ~Behind(x)
    <3>1. x \in DOMAIN records /\ board[x] = AnswerKept(records[x].outcome)
      BY <2>3, StoredAnswer
    <3>2. board'[x] = AnswerKept(records[x].outcome)
      BY <1>1, <1>2, <2>3, <3>1 DEF BoardAt
    <3> QED BY <3>1, <3>2
  <2>4. CASE x \notin DOMAIN live /\ Behind(x)
    BY <1>1, <1>2, <2>4 DEF BoardAt
  <2>5. CASE x \in DOMAIN records \ DOMAIN live /\ ~Behind(x)
    BY <1>1, <1>2, <2>5 DEF BoardAt
  <2>6. CASE x \notin DOMAIN records \union DOMAIN live
    BY <1>1, <1>2, <2>6 DEF BoardAt
  <2> QED BY <2>1, <2>2, <2>3, <2>4, <2>5, <2>6
<1>5. G \in SUBSET Id
  BY DEF JobInv, Types, LiveTyped, IsTable
<1> HIDE DEF G
<1> QED BY <1>3, <1>4, <1>5, RestartStep

\* New says of a job cut short what Get answered already.
LEMMA OpenStutters ==
    ASSUME JobInv, Open \/ OpenFails
    PROVE  board' = board
<1>1. /\ ~up /\ DOMAIN live = {} /\ begun' = begun
  BY DEF Open, OpenFails, memory, JobInv, Saving, DownIsEmpty, EmptyTable
<1>2. TypeOK /\ RecordsTyped /\ StampsBounded
  BY TypesAreOK DEF JobInv, Types
<1>3. PICK S \in SUBSET Unfinished :
        /\ DOMAIN records' = DOMAIN records
        /\ \A x \in S : records'[x].outcome = Interrupted
        /\ \A x \in DOMAIN records \ S : records'[x] = records[x]
        /\ \A x \in DOMAIN live' : x \in S /\ live'[x].outcome = Interrupted
        /\ up' => \A x \in DOMAIN records : x \in S \/ Done(records[x])
  <2>1. CASE Open
    <3>1. /\ DOMAIN records' = DOMAIN records
          /\ \A x \in Unfinished : records'[x].outcome = Interrupted
          /\ \A x \in DOMAIN records \ Unfinished : records'[x] = records[x]
          /\ \A x \in DOMAIN live' : x \in Unfinished /\ live'[x].outcome = Interrupted
      BY <1>2, <2>1, OpenedJobs
    <3>2. \A x \in DOMAIN records : x \in Unfinished \/ Done(records[x])
      BY DEF Unfinished
    <3> QED BY <3>1, <3>2
  <2>2. CASE OpenFails
    <3>1. PICK S \in SUBSET Unfinished : records' = Marked(S)
      BY <2>2 DEF OpenFails
    <3>2. ~up' /\ live' = live
      BY <1>1, <2>2 DEF OpenFails, memory
    <3>3. /\ DOMAIN records' = DOMAIN records
          /\ \A x \in S : records'[x].outcome = Interrupted
          /\ \A x \in DOMAIN records \ S : records'[x] = records[x]
      BY <1>2, <3>1, MarkedRecords
    <3> QED BY <1>1, <3>2, <3>3
  <2> QED BY <2>1, <2>2
<1>4. ASSUME NEW x \in Id
      PROVE  board'[x] = board[x]
  <2>1. BoardAt(x) /\ BoardAt(x)'
    BY BoardBefore DEF BoardIs
  <2>2. CASE x \in S
    <3>1. Behind(x) /\ ~Behind(x)'
      BY <1>3, <2>2 DEF Unfinished, Behind, Done, Interrupted, None
    <3>2. board[x] = AnswerKept(Interrupted)
      BY <1>1, <2>1, <3>1 DEF BoardAt
    <3>3. x \in DOMAIN live' => Done(live'[x])
      BY <1>3 DEF Done, Interrupted, None
    <3>4. board'[x] = AnswerKept(Interrupted)
      BY <1>3, <2>1, <2>2, <3>1, <3>3 DEF BoardAt, Behind
    <3> QED BY <3>2, <3>4
  <2>3. CASE x \in DOMAIN records \ S
    <3>1. x \notin DOMAIN live' /\ x \in DOMAIN records' /\ (Behind(x)' <=> Behind(x)) /\ records'[x] = records[x]
      BY <1>3, <2>3 DEF Behind
    <3>2. Behind(x) => ~up'
      BY <1>3, <2>3 DEF Behind
    <3> QED BY <1>1, <2>1, <2>3, <3>1, <3>2 DEF BoardAt
  <2>4. CASE x \notin DOMAIN records
    <3>1. x \notin DOMAIN live' /\ x \notin DOMAIN records'
      BY <1>3, <2>4 DEF Unfinished
    <3> QED BY <1>1, <2>1, <2>4, <3>1 DEF BoardAt
  <2> QED BY <2>2, <2>3, <2>4
<1> QED BY <1>4, SameBoard

\* The steps that move no answer but that of a job that is forgotten.
LEMMA OtherSteps ==
    ASSUME JobInv, up,
           \/ \E id \in Id : Progress(id) \/ UpdaterPersists(id) \/ SaveNext(id)
           \/ \E p \in Process : PutFailed(p) \/ PutStored(p) \/ Raise(p) \/ Clear(p)
           \/ Top \/ Wake \/ Fire \/ Stop \/ SaveEnds \/ Sweep \/ Expire
           \/ UNCHANGED vars
    PROVE  Promise!Next \/ board' = board
<1> DEFINE Less ==
      /\ up' = up /\ begun' = begun
      /\ \A x \in DOMAIN live' : x \in DOMAIN live /\ live'[x].outcome = live[x].outcome
      /\ \A x \in DOMAIN live \ DOMAIN live' : Done(live[x]) /\ ~Behind(x)
      /\ \A x \in DOMAIN records' : x \in DOMAIN records /\ records'[x].outcome = records[x].outcome
      /\ \A x \in DOMAIN records \ DOMAIN records' : Done(records[x])
<1>1. LiveTyped /\ RecordsTyped
  BY DEF JobInv, Types
<1>2. ASSUME NEW id \in Id, Progress(id) PROVE Less
  <2>1. OnlyJob(id) /\ id \in DOMAIN live /\ live'[id].outcome = live[id].outcome
    BY <1>1, <1>2, ProgressJob
  <2>2. up' = up /\ begun' = begun /\ records' = records
    BY <1>2 DEF Progress
  <2> QED BY <2>1, <2>2 DEF OnlyJob
<1>3. ASSUME NEW id \in Id, UpdaterPersists(id) \/ SaveNext(id) PROVE Less
  <2>1. PICK p : BeginPersist(p, id) /\ up' = up /\ begun' = begun /\ records' = records
    BY <1>3 DEF UpdaterPersists, SaveNext
  <2>2. CASE id \in DOMAIN live /\ ~live[id].durable /\ ~live[id].saving
    <3>1. OnlyJob(id) /\ live'[id].outcome = live[id].outcome
      BY <1>1, <2>1, <2>2, PersistedJob
    <3> QED BY <2>1, <2>2, <3>1 DEF OnlyJob
  <2>3. CASE ~ (id \in DOMAIN live /\ ~live[id].durable /\ ~live[id].saving)
    <3>1. live' = live
      BY <2>1, <2>3 DEF BeginPersist
    <3> QED BY <2>1, <3>1
  <2> QED BY <2>2, <2>3
<1>4. ASSUME NEW p \in Process, PutFailed(p) PROVE Less
  <2>1. up' = up /\ begun' = begun /\ records' = records /\ Saves(p)
    BY <1>4 DEF PutFailed, Saves
  <2>2. calls[p].id \in DOMAIN live
    BY <2>1, SavedJob
  <2>3. OnlyJob(calls[p].id) /\ live'[calls[p].id].outcome = live[calls[p].id].outcome
    BY <1>1, <1>4, <2>2, FailedJob
  <2> QED BY <2>1, <2>2, <2>3 DEF OnlyJob
<1>5. ASSUME NEW p \in Process, PutStored(p) PROVE Less
  <2>1. up' = up /\ begun' = begun /\ records' = records /\ Saves(p) /\ calls[p].at = "stored"
    BY <1>5 DEF PutStored, Saves
  <2>2. calls[p].id \in DOMAIN live /\ ~Behind(calls[p].id)
    BY <2>1, SavedJob DEF JobInv, Saving, StoredKnown
  <2>3. /\ DOMAIN live' \subseteq DOMAIN live
        /\ \A x \in DOMAIN live' \ {calls[p].id} : live'[x] = live[x]
        /\ \A x \in DOMAIN live \ DOMAIN live' : Done(live[x]) /\ (x # calls[p].id => live[x].durable)
        /\ calls[p].id \in DOMAIN live' => live'[calls[p].id].outcome = live[calls[p].id].outcome
    BY <1>1, <1>5, <2>2, StoredJob
  <2>4. \A x \in DOMAIN live : Done(live[x]) /\ live[x].durable => ~Behind(x)
    BY DEF JobInv, RecordsAgree, Behind
  <2> QED BY <2>1, <2>2, <2>3, <2>4
<1>6. ASSUME NEW p \in Process, Raise(p) \/ Clear(p) PROVE Less
  BY <1>6 DEF Raise, Clear
<1>7. ASSUME Top \/ Wake \/ Fire \/ Stop \/ SaveEnds PROVE Less
  BY <1>7 DEF Top, Wake, Fire, Stop, SaveEnds
<1>8. ASSUME Sweep PROVE Less
  <2>1. up' = up /\ begun' = begun /\ live' = live
    BY <1>8 DEF Sweep
  <2>2. KeptOf(records', records)
    BY <1>1, <1>8, SweptRecords
  <2> QED BY <2>1, <2>2 DEF KeptOf
<1>9. ASSUME Expire PROVE Less
  <2>1. up' = up /\ begun' = begun /\ records' = records
    BY <1>9 DEF Expire
  <2>2. KeptOf(live', live) /\ \A x \in DOMAIN live \ DOMAIN live' : live[x].durable
    BY <1>1, <1>9, ExpiredJobs
  <2>3. \A x \in DOMAIN live : Done(live[x]) /\ live[x].durable => ~Behind(x)
    BY DEF JobInv, RecordsAgree, Behind
  <2> QED BY <2>1, <2>2, <2>3 DEF KeptOf
<1>10. ASSUME UNCHANGED vars PROVE Less
  BY <1>10 DEF vars, memory
<1>11. Less
  BY <1>2, <1>3, <1>4, <1>5, <1>6, <1>7, <1>8, <1>9, <1>10
<1> QED BY <1>11, LeavesStep

\* At first no job has been heard of.
LEMMA InitUnborn == Init => Promise!Init
<1> SUFFICES ASSUME Init PROVE Promise!Init
  OBVIOUS
<1>1. DOMAIN live = {} /\ DOMAIN records = {} /\ begun = {}
  BY DEF Init, EmptyTable
<1>2. \A x \in Id : board[x] = AnswerUnborn
  BY <1>1, BoardBefore DEF BoardIs, BoardAt
<1>3. board = [x \in Id |-> board[x]]
  BY BoardBefore DEF BoardIs
<1> QED BY <1>2, <1>3 DEF Promise!Init, Promise!Unborn, AnswerUnborn

\* Every step is one of the board's or leaves it as it is.
LEMMA StepImplements ==
    ASSUME JobInv, JobInv', [Next]_vars
    PROVE  [Promise!Next]_board
<1>1. CASE UNCHANGED vars
  <2>1. \A x \in Id : SameJob(x) /\ SameRecord(x)
    BY <1>1 DEF vars, memory, SameJob, SameRecord
  <2>2. board' = board
    BY <1>1, <2>1, SameAnswer, SameBoard DEF vars, memory
  <2> QED BY <2>2
<1>2. CASE ~up /\ Next
  BY <1>2, DownStays, OpenStutters
<1>3. CASE up /\ Next
  <2>1. ASSUME NEW id \in Id, Begin(id) PROVE [Promise!Next]_board
    BY <2>1, BeginStarts
  <2>2. ASSUME NEW id \in Id, GoLive(id) PROVE [Promise!Next]_board
    BY <1>3, <2>2, GoLiveStutters
  <2>3. ASSUME NEW id \in Id, NEW o \in Outcome \union {None}, End(id, o) PROVE [Promise!Next]_board
    BY <1>3, <2>3, EndEnds
  <2>4. ASSUME NEW p \in Process, PutJob(p) PROVE [Promise!Next]_board
    BY <1>3, <2>4, PutJobKeepsAnswer
  <2>5. ASSUME Crash \/ Exit PROVE [Promise!Next]_board
    BY <2>5, HaltRestarts DEF Crash, Exit
  <2>6. ASSUME Open \/ OpenFails PROVE [Promise!Next]_board
    BY <2>6, OpenStutters
  <2>7. ASSUME \/ \E id \in Id : Progress(id) \/ UpdaterPersists(id) \/ SaveNext(id)
               \/ \E p \in Process : PutFailed(p) \/ PutStored(p) \/ Raise(p) \/ Clear(p)
               \/ Top \/ Wake \/ Fire \/ Stop \/ SaveEnds \/ Sweep \/ Expire
        PROVE  [Promise!Next]_board
    BY <1>3, <2>7, OtherSteps
  <2> QED BY <1>3, <2>1, <2>2, <2>3, <2>4, <2>5, <2>6, <2>7 DEF Next
<1> QED BY <1>1, <1>2, <1>3

\* What Get answers over crashes, failing and retried writes, eviction, expiry and sweeps is what
\* JobBoard promises: a job ends once and Get never falls back from its end.
THEOREM JobsAreOnBoard == Spec => ImplementsBoard
<1>1. JobInv /\ JobInv' /\ [Next]_vars => [Promise!Next]_board
  BY StepImplements
<1> QED BY <1>1, InitUnborn, Invariance, PTL DEF Spec, ImplementsBoard, Promise!Spec
=============================================================================
