--------------------------- MODULE PipelineProofs ---------------------------
(***************************************************************************)
(* Proofs about WriteIntents, and then about Pipeline, for every value of  *)
(* their constants: any files, bytes, runs and languages.                  *)
(*                                                                         *)
(* Of WriteIntents: an owned video's stored coverage is a fresh            *)
(* computation's (OwnedGraded), attempts are logged once, locks are lost   *)
(* for a reason only.  Of Pipeline: with no write pending on a video its   *)
(* records name bytes that are on disk (FilesRecorded), and the protocol   *)
(* over a disk that can stop anywhere implements the library whose files   *)
(* change in single steps (Library).                                       *)
(*                                                                         *)
(* FilesRecorded is not inductive: it says nothing of a video while a      *)
(* write is pending on it.  PipeInv adds what holds then.  A record stands *)
(* on disk unless a write that has landed rewrites or supersedes it        *)
(* (Standing), no pending write supersedes the file of another             *)
(* (KeptApart), and a caller that says its write landed, or failed, is     *)
(* right (Judged): this is what recovery after a crash re-establishes by   *)
(* looking at the bytes, and what lets an End trust its caller.            *)
(*                                                                         *)
(* The refinement maps a pending write to the library at the moment its    *)
(* bytes arrive, so the disk write is the step of Library and every other  *)
(* step, settling a landed write and the crash included, is not seen.      *)
(***************************************************************************)
EXTENDS Pipeline, TableTheorems, TLAPS

---------------------------------------------------------------------------
(* Recompute                                                               *)

LEMMA CoverageRowType ==
    ASSUME NEW p \in Policy, NEW x \in Profile, NEW ev
    PROVE  CoverageRow(p, x, ev) \in UNION {[Q -> Coverages] : Q \in SUBSET Pair}
<1>1. Wants[p][x] \in SUBSET Pair
  BY WantsAssumption
<1>2. \A q : Judge(p, q, ev) \in Coverages
  BY DEF Judge, Coverages
<1>3. CoverageRow(p, x, ev) \in [Wants[p][x] -> Coverages]
  BY <1>2 DEF CoverageRow
<1> QED
  BY <1>1, <1>3

LEMMA KeptLocksType ==
    ASSUME NEW p, NEW x, NEW ev, NEW locked \in SUBSET Pair, NEW sweep
    PROVE  /\ KeptLocks(p, x, ev, locked, sweep) \in SUBSET Pair
           /\ KeptLocks(p, x, ev, locked, sweep) \subseteq Wants[p][x]
BY DEF KeptLocks

LEMMA RecomputeType ==
    ASSUME NEW p \in Policy, NEW I \in SUBSET Inst,
           NEW ls \in [Key -> SUBSET Pair], NEW inventory \in BOOLEAN,
           coverage \in [Key -> UNION {[Q -> Coverages] : Q \in SUBSET Pair}],
           Recompute(p, I, ls, inventory)
    PROVE  /\ coverage' \in [Key -> UNION {[Q -> Coverages] : Q \in SUBSET Pair}]
           /\ locks' \in [Key -> SUBSET Pair]
<1> DEFINE swept(k) == \E i \in I : k \in Holds[i] /\ owned'[i]
           home(k) == CHOOSE i \in I : k \in Holds[i]
           row(k) == CoverageRow(p, LangOf[k], Evidence(home(k))')
           kept(k) == KeptLocks(p, LangOf[k], Evidence(home(k))', ls[k],
                                inventory /\ InventoryComplete(home(k))')
<1>1. /\ coverage' = [k \in Key |-> IF swept(k) THEN row(k) ELSE coverage[k]]
      /\ locks' = [k \in Key |-> IF swept(k) THEN kept(k) ELSE ls[k]]
  BY DEF Recompute
<1>2. \A k \in Key : row(k) \in UNION {[Q -> Coverages] : Q \in SUBSET Pair}
  BY CoverageRowType, LangAssumption
<1>3. \A k \in Key : kept(k) \in SUBSET Pair
  BY KeptLocksType
<1> HIDE DEF swept, row, kept
<1> QED
  BY <1>1, <1>2, <1>3

\* The recompute leaves every owned item of I current under p and with
\* configured locks only, and every other item as it was.
LEMMA RecomputeCurrent ==
    ASSUME NEW p \in Policy, NEW I \in SUBSET Inst,
           NEW ls \in [Key -> SUBSET Pair], NEW inventory \in BOOLEAN,
           Recompute(p, I, ls, inventory)
    PROVE  /\ \A i \in I : owned'[i] => \A k \in Holds[i] :
                /\ coverage'[k] = CoverageRow(p, LangOf[k], Evidence(i)')
                /\ locks'[k] \subseteq Wants[p][LangOf[k]]
           /\ \A j \in Inst \ I : \A k \in Holds[j] :
                coverage'[k] = coverage[k] /\ locks'[k] = ls[k]
<1> DEFINE swept(k) == \E i \in I : k \in Holds[i] /\ owned'[i]
           home(k) == CHOOSE i \in I : k \in Holds[i]
           row(k) == CoverageRow(p, LangOf[k], Evidence(home(k))')
           kept(k) == KeptLocks(p, LangOf[k], Evidence(home(k))', ls[k],
                                inventory /\ InventoryComplete(home(k))')
<1>1. /\ coverage' = [k \in Key |-> IF swept(k) THEN row(k) ELSE coverage[k]]
      /\ locks' = [k \in Key |-> IF swept(k) THEN kept(k) ELSE ls[k]]
  BY DEF Recompute
<1>2. ASSUME NEW i \in I, owned'[i], NEW k \in Holds[i]
      PROVE  /\ coverage'[k] = CoverageRow(p, LangOf[k], Evidence(i)')
             /\ locks'[k] \subseteq Wants[p][LangOf[k]]
  <2>1. k \in Key /\ swept(k)
    BY <1>2, HoldsAssumption
  <2>2. home(k) = i
    BY <1>2, HoldsAssumption
  <2>3. kept(k) \subseteq Wants[p][LangOf[k]]
    BY <2>1, KeptLocksType
  <2>4. coverage'[k] = row(k) /\ locks'[k] = kept(k)
    BY <1>1, <2>1
  <2> QED
    BY <2>2, <2>3, <2>4
<1>3. ASSUME NEW j \in Inst \ I, NEW k \in Holds[j]
      PROVE  coverage'[k] = coverage[k] /\ locks'[k] = ls[k]
  <2>1. k \in Key /\ ~swept(k)
    BY <1>3, HoldsAssumption
  <2> QED
    BY <1>1, <2>1
<1> QED
  BY <1>2, <1>3

---------------------------------------------------------------------------
(* Type correctness                                                        *)

LEMMA StageType ==
    ASSUME TypeOK, NEW f \in File, NEW in \in Intent, Stage(f, in)
    PROVE  /\ IsTable(intents', File, Intent)
           /\ DOMAIN intents' = DOMAIN intents \union {f}
           /\ intents'[f] = in
           /\ \A g \in DOMAIN intents : g # f /\ intents'[g] = intents[g]
<1>1. IsTable(intents, File, Intent) /\ f \notin DOMAIN intents
  BY DEF TypeOK, Stage, Pending
<1>2. intents' = Put(intents, f, in)
  BY DEF Stage
<1> QED
  BY <1>1, <1>2, PutIsTable

LEMMA TakeType ==
    ASSUME TypeOK, NEW f \in File, NEW op, Take(f, op)
    PROVE  /\ f \in DOMAIN intents /\ intents[f].op = op
           /\ intents[f] \in Intent
           /\ IsTable(intents', File, Intent)
           /\ DOMAIN intents' = DOMAIN intents \ {f}
           /\ \A g \in DOMAIN intents \ {f} : intents'[g] = intents[g]
<1>1. intents[f] \in Intent
  BY DEF Take, TypeOK, Pending, IsTable
<1> QED
  BY <1>1, DropIsTable DEF Take, TypeOK, Pending

LEMMA RecordType ==
    ASSUME TypeOK, NEW f \in File, NEW c \in Content
    PROVE  /\ IsTable(Record(f, c), File, Row)
           /\ DOMAIN Record(f, c) = DOMAIN files \union {f}
           /\ \A g \in DOMAIN files : g # f => Record(f, c)[g] = files[g]
<1>1. Generation(f) \in Nat
  BY DEF Generation, TypeOK, Managed, IsTable, Row
<1>2. [content |-> c, gen |-> Generation(f) + 1] \in Row
  BY <1>1 DEF Row
<1>3. IsTable(files, File, Row)
  BY DEF TypeOK
<1> QED
  BY <1>2, <1>3, PutIsTable DEF Record

LEMMA LogType ==
    ASSUME TypeOK, NEW r \in Run, NEW d \in Outcome
    PROVE  Log(r, d) \in [Run \X Outcome -> Nat]
BY DEF Log, TypeOK, Outcome

Count(r) == downloads[<<r, "delivered">>] + downloads[<<r, "undelivered">>]

\* Logging an attempt adds one to its count and to no other.
LEMMA LogCount ==
    ASSUME TypeOK, NEW r \in Run, NEW d \in Outcome, downloads' = Log(r, d)
    PROVE  /\ Count(r)' = Count(r) + 1
           /\ \A s \in Run \ {r} : Count(s)' = Count(s)
<1>1. \A s \in Run, e \in Outcome :
         /\ <<s, e>> \in Run \X Outcome
         /\ downloads[<<s, e>>] \in Nat
         /\ <<s, e>> = <<r, d>> => downloads'[<<s, e>>] = downloads[<<s, e>>] + 1
         /\ <<s, e>> # <<r, d>> => downloads'[<<s, e>>] = downloads[<<s, e>>]
  BY DEF Log, TypeOK, Outcome
<1>2. \A s \in Run \ {r}, e \in Outcome : downloads'[<<s, e>>] = downloads[<<s, e>>]
  BY <1>1
<1>3. CASE d = "delivered"
  <2>1. /\ downloads'[<<r, "delivered">>] = downloads[<<r, "delivered">>] + 1
        /\ downloads'[<<r, "undelivered">>] = downloads[<<r, "undelivered">>]
        /\ downloads[<<r, "delivered">>] \in Nat /\ downloads[<<r, "undelivered">>] \in Nat
    BY <1>1, <1>3 DEF Outcome
  <2> QED
    BY <1>2, <2>1 DEF Count, Outcome
<1>4. CASE d = "undelivered"
  <2>1. /\ downloads'[<<r, "delivered">>] = downloads[<<r, "delivered">>]
        /\ downloads'[<<r, "undelivered">>] = downloads[<<r, "undelivered">>] + 1
        /\ downloads[<<r, "delivered">>] \in Nat /\ downloads[<<r, "undelivered">>] \in Nat
    BY <1>1, <1>4 DEF Outcome
  <2> QED
    BY <1>2, <2>1 DEF Count, Outcome
<1> QED
  BY <1>3, <1>4 DEF Outcome

LEMMA RemoveFilesType ==
    ASSUME TypeOK, NEW i \in Inst, NEW N, NEW fs, IsTable(fs, File, Row),
           NEW bs \in SUBSET File, RemoveFiles(i, N, fs, bs)
    PROVE  /\ IsTable(files', File, Row)
           /\ baselines' \in SUBSET File
           /\ IsTable(local', Inst, UNION {[M -> Sub] : M \in SUBSET Name})
           /\ bs \subseteq DOMAIN fs => baselines' \subseteq DOMAIN files'
<1> DEFINE gone == {f \in DOMAIN fs : f[1] = i /\ f[2] \in N}
           unmanaged == {n \in N : <<i, n>> \notin DOMAIN fs}
<1>1. /\ files' = Drop(fs, gone)
      /\ baselines' = bs \ ({i} \X N)
      /\ local' = IF i \in DOMAIN local
                  THEN [local EXCEPT ![i] = Drop(@, unmanaged)] ELSE local
  BY DEF RemoveFiles
<1>2. IsTable(files', File, Row) /\ DOMAIN files' = DOMAIN fs \ gone
  BY <1>1, DropIsTable
<1>3. IsTable(local', Inst, UNION {[M -> Sub] : M \in SUBSET Name})
  <2>1. CASE i \in DOMAIN local
    <3>1. PICK M \in SUBSET Name : local[i] \in [M -> Sub]
      BY <2>1 DEF TypeOK, IsTable
    <3>2. Drop(local[i], unmanaged) \in [M \ unmanaged -> Sub]
      BY <3>1 DEF Drop
    <3>3. Drop(local[i], unmanaged) \in UNION {[L -> Sub] : L \in SUBSET Name}
      BY <3>2
    <3>4. local' = [local EXCEPT ![i] = Drop(local[i], unmanaged)]
      BY <1>1, <2>1
    <3> HIDE DEF unmanaged
    <3> QED
      BY <2>1, <3>3, <3>4 DEF TypeOK, IsTable
  <2>2. CASE i \notin DOMAIN local
    BY <1>1, <2>2 DEF TypeOK
  <2> QED
    BY <2>1, <2>2
<1>4. \A g \in File \ ({i} \X N) : g \notin gone
  BY DEF File
<1> QED
  BY <1>1, <1>2, <1>3, <1>4

\* removeFile touches nothing of another video.
LEMMA RemoveFilesFrame ==
    ASSUME TypeOK, NEW i \in Inst, NEW N, NEW fs, IsTable(fs, File, Row),
           NEW bs, RemoveFiles(i, N, fs, bs)
    PROVE  /\ \A g \in File : g[1] # i =>
                 /\ g \in DOMAIN files' <=> g \in DOMAIN fs
                 /\ g \in DOMAIN fs => files'[g] = fs[g]
           /\ \A j \in Inst \ {i} :
                 /\ j \in DOMAIN local' <=> j \in DOMAIN local
                 /\ j \in DOMAIN local => local'[j] = local[j]
<1> DEFINE gone == {f \in DOMAIN fs : f[1] = i /\ f[2] \in N}
<1>1. files' = Drop(fs, gone)
  BY DEF RemoveFiles
<1>2. DOMAIN files' = DOMAIN fs \ gone /\ \A x \in DOMAIN fs \ gone : files'[x] = fs[x]
  BY <1>1, DropIsTable
<1> QED
  BY <1>2 DEF RemoveFiles, TypeOK, IsTable

LEMMA OwnedFile == ASSUME NEW f \in File PROVE f[1] \in Inst /\ f = <<f[1], f[2]>>
BY DEF File

LEMMA DeliveryType ==
    ASSUME NEW in \in Intent, in.op = "deliver"
    PROVE  in \in Delivery
BY DEF Intent, Delivery, Retiming, Deletion

LEMMA RetimingType ==
    ASSUME NEW in \in Intent, in.op = "retime"
    PROVE  in \in Retiming
BY DEF Intent, Delivery, Retiming, Deletion

LEMMA AdoptionLocksType ==
    ASSUME TypeOK, NEW f \in File, NEW c
    PROVE  AdoptionLocks(f, c) \in [Key -> SUBSET Pair]
<1>1. \A k \in Key : Wants[policy][LangOf[k]] \subseteq Pair
  BY WantsAssumption, LangAssumption DEF TypeOK
<1> QED
  BY <1>1 DEF AdoptionLocks, TypeOK

\* Init is well typed, and every step of Next keeps it so: one step per action.
LEMMA InitType == Init => TypeOK
<1> SUFFICES ASSUME Init PROVE TypeOK
  OBVIOUS
<1>1. coverage \in [Key -> UNION {[Q -> Coverages] : Q \in SUBSET Pair}]
  <2> DEFINE row(k) == CoverageRow(policy, LangOf[k], {})
  <2>1. \A k \in Key : row(k) \in UNION {[Q -> Coverages] : Q \in SUBSET Pair}
    BY CoverageRowType, LangAssumption DEF Init
  <2>2. coverage = [k \in Key |-> row(k)]
    BY DEF Init
  <2> HIDE DEF row
  <2> QED
    BY <2>1, <2>2
<1> QED
  BY <1>1, EmptyIsTable DEF Init, TypeOK

LEMMA NextType == TypeOK /\ [Next]_vars => TypeOK'
<1> SUFFICES ASSUME TypeOK, [Next]_vars PROVE TypeOK'
  OBVIOUS
<1> USE DEF libraryVars
<1>1. ASSUME NEW f \in File, NEW r \in Run, BeginDeliver(f, r) PROVE TypeOK'
  <2> DEFINE in == [op |-> "deliver", content |-> Plan[r].content,
                    locked |-> Plan[r].locked, items |-> Plan[r].items,
                    pair |-> Plan[r].pair, removes |-> Plan[r].removes, run |-> r]
  <2>1. in \in Intent
    BY PlanAssumption DEF Intent, Delivery
  <2>2. Stage(f, in)
    BY <1>1 DEF BeginDeliver
  <2>3. IsTable(intents', File, Intent)
    BY <2>1, <2>2, StageType
  <2>4. begun' \in SUBSET Run
    BY <1>1 DEF BeginDeliver, TypeOK
  <2> QED
    BY <2>2, <2>3, <2>4 DEF TypeOK, Stage
<1>2. ASSUME NEW f \in File, NEW c \in Content, NEW adopt \in BOOLEAN,
             BeginRetime(f, c, adopt)
      PROVE  TypeOK'
  <2> DEFINE in == [op |-> "retime", content |-> c, adopt |-> adopt]
  <2>1. in \in Intent
    BY DEF Intent, Retiming
  <2>2. Stage(f, in) /\ begun' = begun
    BY <1>2 DEF BeginRetime
  <2>3. IsTable(intents', File, Intent)
    BY <2>1, <2>2, StageType
  <2> QED
    BY <2>2, <2>3 DEF TypeOK, Stage
<1>3. ASSUME NEW f \in File, BeginDelete(f) PROVE TypeOK'
  <2> DEFINE in == [op |-> "delete"]
  <2>1. in \in Intent
    BY DEF Intent, Deletion
  <2>2. Stage(f, in) /\ begun' = begun
    BY <1>3 DEF BeginDelete
  <2>3. IsTable(intents', File, Intent)
    BY <2>1, <2>2, StageType
  <2> QED
    BY <2>2, <2>3 DEF TypeOK, Stage
<1>4. ASSUME NEW f \in File, NEW landed \in BOOLEAN, EndDeliver(f, landed)
      PROVE  TypeOK'
  <2>1. Take(f, "deliver")
    BY <1>4 DEF EndDeliver
  <2>2. intents[f] \in Delivery /\ IsTable(intents', File, Intent)
    BY <2>1, TakeType, DeliveryType
  <2>3. \A d \in Outcome : Log(intents[f].run, d) \in [Run \X Outcome -> Nat]
    BY <2>2, LogType DEF Delivery, Outcome
  <2>4. CASE active /\ DeliverLanded(f)
    <3> DEFINE others == {m[1] : m \in intents[f].removes} \ {f[2]}
               ls == [k \in Key |-> IF intents[f].locked /\ k \in intents[f].items
                                    THEN locks[k] \union {intents[f].pair} ELSE locks[k]]
    <3>1. RemoveFiles(f[1], others, Record(f, intents[f].content), baselines \union {f})
      BY <2>4 DEF DeliverLanded
    <3>2. Recompute(policy, {f[1]}, ls, TRUE) /\ downloads' = Log(intents[f].run, "delivered")
      BY <2>4 DEF DeliverLanded
    <3>3. IsTable(Record(f, intents[f].content), File, Row)
      BY <2>2, RecordType DEF Delivery
    <3>4. /\ IsTable(files', File, Row)
          /\ baselines' \in SUBSET File
          /\ IsTable(local', Inst, UNION {[M -> Sub] : M \in SUBSET Name})
      <4>1. baselines \union {f} \in SUBSET File
        BY DEF TypeOK
      <4> HIDE DEF others
      <4> QED
        BY <3>1, <3>3, <4>1, RemoveFilesType, OwnedFile
    <3>5. ls \in [Key -> SUBSET Pair]
      BY <2>2 DEF TypeOK, Delivery
    <3>6. /\ coverage' \in [Key -> UNION {[Q -> Coverages] : Q \in SUBSET Pair}]
          /\ locks' \in [Key -> SUBSET Pair]
      <4> HIDE DEF ls
      <4> QED
        BY <3>2, <3>5, OwnedFile, RecomputeType DEF TypeOK
    <3> QED
      BY <1>4, <2>2, <2>3, <3>2, <3>4, <3>6 DEF TypeOK, EndDeliver, Outcome
  <2>5. CASE downloads' = Log(intents[f].run, "undelivered") /\ UNCHANGED libraryVars
    BY <1>4, <2>2, <2>3, <2>5 DEF TypeOK, EndDeliver, Outcome
  <2> QED
    BY <1>4, <2>4, <2>5 DEF EndDeliver
<1>5. ASSUME NEW f \in File, NEW landed \in BOOLEAN, EndRetime(f, landed)
      PROVE  TypeOK'
  <2>1. Take(f, "retime")
    BY <1>5 DEF EndRetime
  <2>2. intents[f] \in Retiming /\ IsTable(intents', File, Intent)
    BY <2>1, TakeType, RetimingType
  <2>3. CASE active /\ RetimeLanded(f)
    <3> DEFINE ls == IF intents[f].adopt THEN AdoptionLocks(f, intents[f].content)
                     ELSE locks
    <3>1. /\ files' = Record(f, intents[f].content)
          /\ baselines' \in SUBSET File
          /\ UNCHANGED local
          /\ Recompute(policy, {f[1]}, ls, TRUE)
      BY <2>3 DEF RetimeLanded, TypeOK
    <3>2. IsTable(files', File, Row)
      BY <2>2, <3>1, RecordType DEF Retiming
    <3>3. ls \in [Key -> SUBSET Pair]
      BY AdoptionLocksType DEF TypeOK
    <3>4. /\ coverage' \in [Key -> UNION {[Q -> Coverages] : Q \in SUBSET Pair}]
          /\ locks' \in [Key -> SUBSET Pair]
      <4> HIDE DEF ls
      <4> QED
        BY <3>1, <3>3, OwnedFile, RecomputeType DEF TypeOK
    <3> QED
      BY <1>5, <2>2, <3>1, <3>2, <3>4 DEF TypeOK, EndRetime
  <2>4. CASE UNCHANGED libraryVars
    BY <1>5, <2>2, <2>4 DEF TypeOK, EndRetime
  <2> QED
    BY <1>5, <2>3, <2>4 DEF EndRetime
<1>6. ASSUME NEW f \in File, NEW landed \in BOOLEAN, EndDelete(f, landed)
      PROVE  TypeOK'
  <2>1. Take(f, "delete")
    BY <1>6 DEF EndDelete
  <2>2. IsTable(intents', File, Intent)
    BY <2>1, TakeType
  <2>3. CASE active /\ DeleteLanded(f)
    <3>1. /\ RemoveFiles(f[1], {f[2]}, files, baselines)
          /\ Recompute(policy, {f[1]}, locks, TRUE)
      BY <2>3 DEF DeleteLanded
    <3>2. /\ IsTable(files', File, Row)
          /\ baselines' \in SUBSET File
          /\ IsTable(local', Inst, UNION {[M -> Sub] : M \in SUBSET Name})
      BY <3>1, RemoveFilesType, OwnedFile DEF TypeOK
    <3>3. /\ coverage' \in [Key -> UNION {[Q -> Coverages] : Q \in SUBSET Pair}]
          /\ locks' \in [Key -> SUBSET Pair]
      BY <3>1, OwnedFile, RecomputeType DEF TypeOK
    <3> QED
      BY <1>6, <2>2, <3>2, <3>3 DEF TypeOK, EndDelete
  <2>4. CASE UNCHANGED libraryVars
    BY <1>6, <2>2, <2>4 DEF TypeOK, EndDelete
  <2> QED
    BY <1>6, <2>3, <2>4 DEF EndDelete
<1>7. ASSUME NEW i \in Inst, NEW set \in Listings, PutExternal(i, set) PROVE TypeOK'
  <2>1. IsTable(local', Inst, UNION {[M -> Sub] : M \in SUBSET Name})
    BY <1>7, PutIsTable, ListingsAssumption DEF PutExternal, TypeOK
  <2>2. Recompute(policy, {i}, locks, TRUE)
    BY <1>7 DEF PutExternal
  <2>3. /\ coverage' \in [Key -> UNION {[Q -> Coverages] : Q \in SUBSET Pair}]
        /\ locks' \in [Key -> SUBSET Pair]
    BY <2>2, RecomputeType DEF TypeOK
  <2> QED
    BY <1>7, <2>1, <2>3 DEF PutExternal, TypeOK
<1>8. ASSUME NEW i \in Inst, NEW tracks \in Probes, PutEmbedded(i, tracks) PROVE TypeOK'
  <2>1. IsTable(embedded', Inst, SUBSET Sub)
    BY <1>8, PutIsTable, ProbesAssumption DEF PutEmbedded, TypeOK
  <2>2. Recompute(policy, {i}, locks, FALSE)
    BY <1>8 DEF PutEmbedded
  <2>3. /\ coverage' \in [Key -> UNION {[Q -> Coverages] : Q \in SUBSET Pair}]
        /\ locks' \in [Key -> SUBSET Pair]
    BY <2>2, RecomputeType DEF TypeOK
  <2> QED
    BY <1>8, <2>1, <2>3 DEF PutEmbedded, TypeOK
<1>9. ASSUME NEW i \in Inst, NEW q \in Pair, NEW locked \in BOOLEAN, SetLock(i, q, locked)
      PROVE  TypeOK'
  <2>1. locks' \in [Key -> SUBSET Pair]
    BY <1>9 DEF SetLock, TypeOK
  <2> QED
    BY <1>9, <2>1 DEF SetLock, TypeOK
<1>10. ASSUME NEW i \in Inst, Claim(i) PROVE TypeOK'
  <2>1. /\ coverage' \in [Key -> UNION {[Q -> Coverages] : Q \in SUBSET Pair}]
        /\ locks' \in [Key -> SUBSET Pair]
    BY <1>10, RecomputeType DEF TypeOK, Claim
  <2> QED
    BY <1>10, <2>1 DEF Claim, TypeOK
<1>11. ASSUME NEW r \in Run, RecordAttempts(r) PROVE TypeOK'
  <2>1. downloads' \in [Run \X Outcome -> Nat]
    BY <1>11, LogType DEF RecordAttempts, Outcome
  <2> QED
    BY <1>11, <2>1 DEF RecordAttempts, TypeOK
<1>12. ASSUME NEW p \in Policy, NEW R \in SUBSET Inst, Activate(p, R) PROVE TypeOK'
  <2>1. /\ coverage' \in [Key -> UNION {[Q -> Coverages] : Q \in SUBSET Pair}]
        /\ locks' \in [Key -> SUBSET Pair]
    BY <1>12, RecomputeType DEF TypeOK, Activate
  <2> QED
    BY <1>12, <2>1 DEF Activate, TypeOK
<1>13. CASE Reopen
  BY <1>13 DEF Reopen, TypeOK
<1>14. CASE UNCHANGED vars
  BY <1>14 DEF vars, TypeOK, IsTable
<1> QED
  BY <1>1, <1>2, <1>3, <1>4, <1>5, <1>6, <1>7, <1>8, <1>9, <1>10, <1>11,
     <1>12, <1>13, <1>14 DEF Next, Begin, End, Inventory

\* Every value the store holds has the type its table declares.
THEOREM TypeCorrect == Spec => []TypeOK
BY InitType, NextType, PTL DEF Spec

---------------------------------------------------------------------------
(* The inductive invariant                                                 *)

\* A staged delivery is of an attempt handed to the store, and of one that no
\* other intent stages: without it an attempt could be logged twice.
OneIntentPerRun ==
    /\ \A f \in DOMAIN intents : intents[f].op = "deliver" => intents[f].run \in begun
    /\ \A f, g \in DOMAIN intents :
          /\ intents[f].op = "deliver" /\ intents[g].op = "deliver"
          /\ intents[f].run = intents[g].run
          => f = g

\* A staged delivery locks items of its own video only: without it settling
\* one video's write could lock an unconfigured pair of another's items.
OwnItems ==
    \A f \in DOMAIN intents :
        intents[f].op = "deliver" => intents[f].items \subseteq Holds[f[1]]

IInv ==
    /\ TypeOK
    /\ CoverageCurrent
    /\ LocksConfigured
    /\ OneIntentPerRun
    /\ OwnItems
    /\ LoggedOnce
    /\ BaselineOfRecord

---------------------------------------------------------------------------
(* Coverage and locks                                                      *)

\* The step leaves what counts for coverage of j alone.
SameEvidence(j) ==
    /\ \A g \in File : g[1] = j =>
          /\ g \in DOMAIN files' <=> g \in DOMAIN files
          /\ g \in DOMAIN files => files'[g] = files[g]
    /\ j \in DOMAIN local' <=> j \in DOMAIN local
    /\ j \in DOMAIN local => local'[j] = local[j]
    /\ j \in DOMAIN embedded' <=> j \in DOMAIN embedded
    /\ j \in DOMAIN embedded => embedded'[j] = embedded[j]

LEMMA EvidenceFrame ==
    ASSUME TypeOK, TypeOK', NEW j \in Inst, SameEvidence(j)
    PROVE  Evidence(j)' = Evidence(j)
<1>1. DOMAIN files \subseteq File /\ DOMAIN files' \subseteq File
  BY DEF TypeOK, IsTable
<1>2. {g \in DOMAIN files' : g[1] = j} = {g \in DOMAIN files : g[1] = j}
  BY <1>1 DEF SameEvidence
<1>3. \A g \in {h \in DOMAIN files : h[1] = j} : files'[g] = files[g]
  BY <1>1 DEF SameEvidence
<1>4. {SubOf[files'[f].content] : f \in {g \in DOMAIN files' : g[1] = j}}
        = {SubOf[files[f].content] : f \in {g \in DOMAIN files : g[1] = j}}
  BY <1>2, <1>3
<1>5. (IF j \in DOMAIN local' THEN {local'[j][n] : n \in DOMAIN local'[j]} ELSE {})
        = (IF j \in DOMAIN local THEN {local[j][n] : n \in DOMAIN local[j]} ELSE {})
  BY DEF SameEvidence
<1>6. (IF j \in DOMAIN embedded' THEN embedded'[j] ELSE {})
        = (IF j \in DOMAIN embedded THEN embedded[j] ELSE {})
  BY DEF SameEvidence
<1> QED
  BY <1>4, <1>5, <1>6 DEF Evidence

\* A step keeps the coverage and the locks of every owned video right when it
\* recomputes the videos it touches under the policy it leaves, and leaves
\* alone what the other owned videos' coverage and locks depend on.
LEMMA RecomputeKeeps ==
    ASSUME TypeOK, TypeOK', CoverageCurrent, LocksConfigured,
           NEW I \in SUBSET Inst, NEW ls \in [Key -> SUBSET Pair],
           NEW inventory \in BOOLEAN, NEW p \in Policy, policy' = p,
           Recompute(p, I, ls, inventory),
           \A j \in Inst \ I : owned'[j] =>
              /\ owned[j] /\ policy' = policy /\ SameEvidence(j)
              /\ \A k \in Holds[j] : ls[k] = locks[k]
    PROVE  CoverageCurrent' /\ LocksConfigured'
<1>1. /\ \A i \in I : owned'[i] => \A k \in Holds[i] :
            /\ coverage'[k] = CoverageRow(p, LangOf[k], Evidence(i)')
            /\ locks'[k] \subseteq Wants[p][LangOf[k]]
      /\ \A j \in Inst \ I : \A k \in Holds[j] :
            coverage'[k] = coverage[k] /\ locks'[k] = ls[k]
  BY ONLY RecomputeCurrent, p \in Policy, I \in SUBSET Inst,
     ls \in [Key -> SUBSET Pair], inventory \in BOOLEAN, Recompute(p, I, ls, inventory)
<1>2. ASSUME NEW j \in Inst \ I, owned'[j], NEW k \in Holds[j]
      PROVE  /\ coverage'[k] = CoverageRow(policy', LangOf[k], Evidence(j)')
             /\ locks'[k] \subseteq Wants[policy'][LangOf[k]]
  <2>1. coverage'[k] = coverage[k] /\ locks'[k] = locks[k]
    BY <1>1, <1>2
  <2>2. coverage[k] = CoverageRow(policy, LangOf[k], Evidence(j))
    BY <1>2 DEF CoverageCurrent
  <2>3. locks[k] \subseteq Wants[policy][LangOf[k]]
    BY <1>2 DEF LocksConfigured
  <2>4. Evidence(j)' = Evidence(j) /\ policy' = policy
    BY <1>2, EvidenceFrame
  <2> QED
    BY <2>1, <2>2, <2>3, <2>4
<1>3. \A i \in Inst : owned'[i] => \A k \in Holds[i] :
         /\ coverage'[k] = CoverageRow(policy', LangOf[k], Evidence(i)')
         /\ locks'[k] \subseteq Wants[policy'][LangOf[k]]
  BY <1>1, <1>2
<1> QED
  BY <1>3 DEF CoverageCurrent, LocksConfigured

\* A step that changes none of it keeps them right.
LEMMA UntouchedKeeps ==
    ASSUME CoverageCurrent, LocksConfigured,
           UNCHANGED <<policy, files, local, embedded, locks, coverage>>,
           \A i \in Inst : owned'[i] => owned[i]
    PROVE  CoverageCurrent' /\ LocksConfigured'
<1>1. \A i \in Inst : Evidence(i)' = Evidence(i)
  BY DEF Evidence
<1> QED
  BY <1>1 DEF CoverageCurrent, LocksConfigured

LEMMA InitCoverage == Init => CoverageCurrent /\ LocksConfigured
<1> SUFFICES ASSUME Init PROVE CoverageCurrent /\ LocksConfigured
  OBVIOUS
<1>1. \A i \in Inst : Evidence(i) = {}
  BY EmptyIsTable DEF Evidence, Init
<1>2. \A i \in Inst : \A k \in Holds[i] : k \in Key
  BY HoldsAssumption
<1> QED
  BY <1>1, <1>2 DEF Init, CoverageCurrent, LocksConfigured

\* Every step keeps the coverage current and the locks configured: a landed
\* write, an inventory and a claim recompute their video, an activation that
\* changes the policy recomputes every video, and no other step matters.
LEMMA NextCoverage ==
    TypeOK /\ TypeOK' /\ OwnItems /\ CoverageCurrent /\ LocksConfigured /\ [Next]_vars
        => CoverageCurrent' /\ LocksConfigured'
<1> SUFFICES ASSUME TypeOK, TypeOK', OwnItems, CoverageCurrent, LocksConfigured,
                    [Next]_vars
             PROVE  CoverageCurrent' /\ LocksConfigured'
  OBVIOUS
<1> USE DEF libraryVars
<1>0. /\ policy \in Policy
      /\ locks \in [Key -> SUBSET Pair]
      /\ \A i \in Inst : Holds[i] \subseteq Key
  BY HoldsAssumption DEF TypeOK
<1>1. ASSUME NEW f \in File, Begin(f) PROVE CoverageCurrent' /\ LocksConfigured'
  BY <1>1, UntouchedKeeps
     DEF Begin, BeginDeliver, BeginRetime, BeginDelete, Stage
<1>2. ASSUME NEW f \in File, NEW landed \in BOOLEAN, EndDeliver(f, landed)
      PROVE  CoverageCurrent' /\ LocksConfigured'
  <2>1. Take(f, "deliver") /\ UNCHANGED <<policy, owned, embedded>>
    BY <1>2 DEF EndDeliver
  <2>2. intents[f] \in Delivery /\ f \in DOMAIN intents /\ intents[f].op = "deliver"
    BY <2>1, TakeType, DeliveryType
  <2>3. CASE DeliverLanded(f)
    <3> DEFINE others == {m[1] : m \in intents[f].removes} \ {f[2]}
               ls == [k \in Key |-> IF intents[f].locked /\ k \in intents[f].items
                                    THEN locks[k] \union {intents[f].pair} ELSE locks[k]]
               fs == Record(f, intents[f].content)
    <3>1. /\ RemoveFiles(f[1], others, fs, baselines \union {f})
          /\ Recompute(policy, {f[1]}, ls, TRUE)
      BY <2>3 DEF DeliverLanded
    <3>2. ls \in [Key -> SUBSET Pair]
      BY <1>0, <2>2 DEF Delivery
    <3>3. \A j \in Inst \ {f[1]} : \A k \in Holds[j] : ls[k] = locks[k]
      BY <1>0, <2>2, HoldsAssumption, OwnedFile DEF OwnItems
    <3>4. \A j \in Inst \ {f[1]} : SameEvidence(j)
      <4>1. /\ IsTable(fs, File, Row)
            /\ DOMAIN fs = DOMAIN files \union {f}
            /\ \A g \in DOMAIN files : g # f => fs[g] = files[g]
        BY <2>2, RecordType DEF Delivery
      <4> HIDE DEF others, fs
      <4>2. /\ \A g \in File : g[1] # f[1] =>
                  /\ g \in DOMAIN files' <=> g \in DOMAIN fs
                  /\ g \in DOMAIN fs => files'[g] = fs[g]
            /\ \A j \in Inst \ {f[1]} :
                  /\ j \in DOMAIN local' <=> j \in DOMAIN local
                  /\ j \in DOMAIN local => local'[j] = local[j]
        BY <3>1, <4>1, RemoveFilesFrame, OwnedFile
      <4> QED
        BY <2>1, <4>1, <4>2 DEF SameEvidence
    <3>5. Recompute(policy, {f[1]}, ls, TRUE) /\ {f[1]} \in SUBSET Inst
      BY <3>1, OwnedFile
    <3> HIDE DEF ls
    <3>6. \A j \in Inst \ {f[1]} : owned'[j] =>
             /\ owned[j] /\ policy' = policy /\ SameEvidence(j)
             /\ \A k \in Holds[j] : ls[k] = locks[k]
      BY <2>1, <3>3, <3>4
    <3>7. policy \in Policy /\ policy' = policy
      BY <1>0, <2>1
    <3> QED
      BY ONLY TypeOK, TypeOK', CoverageCurrent, LocksConfigured, <3>2, <3>5, <3>6,
              <3>7, RecomputeKeeps
  <2>4. CASE UNCHANGED libraryVars
    BY <2>1, <2>4, UntouchedKeeps
  <2> QED
    BY <1>2, <2>3, <2>4 DEF EndDeliver
<1>3. ASSUME NEW f \in File, NEW landed \in BOOLEAN, EndRetime(f, landed)
      PROVE  CoverageCurrent' /\ LocksConfigured'
  <2>1. Take(f, "retime") /\ UNCHANGED <<policy, owned, embedded>>
    BY <1>3 DEF EndRetime
  <2>2. intents[f] \in Retiming
    BY <2>1, TakeType, RetimingType
  <2>3. CASE RetimeLanded(f)
    <3> DEFINE ls == IF intents[f].adopt THEN AdoptionLocks(f, intents[f].content)
                     ELSE locks
    <3>1. /\ files' = Record(f, intents[f].content)
          /\ UNCHANGED local
          /\ Recompute(policy, {f[1]}, ls, TRUE)
      BY <2>3 DEF RetimeLanded
    <3>2. ls \in [Key -> SUBSET Pair]
      BY <1>0, AdoptionLocksType
    <3>3. \A j \in Inst \ {f[1]} : \A k \in Holds[j] : ls[k] = locks[k]
      BY <1>0, HoldsAssumption, OwnedFile DEF AdoptionLocks
    <3>4. \A j \in Inst \ {f[1]} : SameEvidence(j)
      <4>1. /\ DOMAIN files' = DOMAIN files \union {f}
            /\ \A g \in DOMAIN files : g # f => files'[g] = files[g]
        BY <2>2, <3>1, RecordType DEF Retiming
      <4> QED
        BY <2>1, <3>1, <4>1 DEF SameEvidence
    <3>5. Recompute(policy, {f[1]}, ls, TRUE) /\ {f[1]} \in SUBSET Inst
      BY <3>1, OwnedFile
    <3> HIDE DEF ls
    <3>6. \A j \in Inst \ {f[1]} : owned'[j] =>
             /\ owned[j] /\ policy' = policy /\ SameEvidence(j)
             /\ \A k \in Holds[j] : ls[k] = locks[k]
      BY <2>1, <3>3, <3>4
    <3>7. policy \in Policy /\ policy' = policy
      BY <1>0, <2>1
    <3> QED
      BY ONLY TypeOK, TypeOK', CoverageCurrent, LocksConfigured, <3>2, <3>5, <3>6,
              <3>7, RecomputeKeeps
  <2>4. CASE UNCHANGED libraryVars
    BY <2>1, <2>4, UntouchedKeeps
  <2> QED
    BY <1>3, <2>3, <2>4 DEF EndRetime
<1>4. ASSUME NEW f \in File, NEW landed \in BOOLEAN, EndDelete(f, landed)
      PROVE  CoverageCurrent' /\ LocksConfigured'
  <2>1. UNCHANGED <<policy, owned, embedded>>
    BY <1>4 DEF EndDelete
  <2>2. CASE DeleteLanded(f)
    <3>1. /\ RemoveFiles(f[1], {f[2]}, files, baselines)
          /\ Recompute(policy, {f[1]}, locks, TRUE)
      BY <2>2 DEF DeleteLanded
    <3>2. \A j \in Inst \ {f[1]} : SameEvidence(j)
      <4>1. IsTable(files, File, Row)
        BY DEF TypeOK
      <4>2. /\ \A g \in File : g[1] # f[1] =>
                  /\ g \in DOMAIN files' <=> g \in DOMAIN files
                  /\ g \in DOMAIN files => files'[g] = files[g]
            /\ \A j \in Inst \ {f[1]} :
                  /\ j \in DOMAIN local' <=> j \in DOMAIN local
                  /\ j \in DOMAIN local => local'[j] = local[j]
        BY <3>1, <4>1, RemoveFilesFrame, OwnedFile
      <4> QED
        BY <2>1, <4>2 DEF SameEvidence
    <3> QED
      BY <1>0, <2>1, <3>1, <3>2, OwnedFile, RecomputeKeeps
  <2>3. CASE UNCHANGED libraryVars
    BY <2>1, <2>3, UntouchedKeeps
  <2> QED
    BY <1>4, <2>2, <2>3 DEF EndDelete
<1>5. ASSUME NEW i \in Inst, NEW set \in Listings, PutExternal(i, set)
      PROVE  CoverageCurrent' /\ LocksConfigured'
  <2>1. /\ Recompute(policy, {i}, locks, TRUE)
        /\ UNCHANGED <<policy, owned, files, embedded>>
        /\ local' = Put(local, i, set)
    BY <1>5 DEF PutExternal
  <2>2. \A j \in Inst \ {i} : SameEvidence(j)
    BY <2>1 DEF SameEvidence, Put
  <2> QED
    BY <1>0, <2>1, <2>2, RecomputeKeeps
<1>6. ASSUME NEW i \in Inst, NEW tracks \in Probes, PutEmbedded(i, tracks)
      PROVE  CoverageCurrent' /\ LocksConfigured'
  <2>1. /\ Recompute(policy, {i}, locks, FALSE)
        /\ UNCHANGED <<policy, owned, files, local>>
        /\ embedded' = Put(embedded, i, tracks)
    BY <1>6 DEF PutEmbedded
  <2>2. \A j \in Inst \ {i} : SameEvidence(j)
    BY <2>1 DEF SameEvidence, Put
  <2> QED
    BY <1>0, <2>1, <2>2, RecomputeKeeps
<1>7. ASSUME NEW i \in Inst, NEW q \in Pair, NEW locked \in BOOLEAN, SetLock(i, q, locked)
      PROVE  CoverageCurrent' /\ LocksConfigured'
  <2>1. UNCHANGED <<policy, owned, files, local, embedded, coverage>>
    BY <1>7 DEF SetLock
  <2>2. \A j \in Inst : Evidence(j)' = Evidence(j)
    BY <2>1 DEF Evidence
  <2>3. ASSUME NEW j \in Inst, owned[j], NEW k \in Holds[j]
        PROVE  locks'[k] \subseteq Wants[policy][LangOf[k]]
    <3>1. locks[k] \subseteq Wants[policy][LangOf[k]] /\ k \in Key
      BY <1>0, <2>3 DEF LocksConfigured
    <3>2. \/ locks'[k] = locks[k] \/ locks'[k] = locks[k] \ {q}
          \/ k \in Configuring(i, q) /\ locks'[k] = locks[k] \union {q}
      BY <1>7, <3>1 DEF SetLock
    <3> QED
      BY <3>1, <3>2 DEF Configuring
  <2> QED
    BY <2>1, <2>2, <2>3 DEF CoverageCurrent, LocksConfigured
<1>8. ASSUME NEW i \in Inst, Claim(i)
      PROVE  CoverageCurrent' /\ LocksConfigured'
  <2>1. /\ Recompute(policy, {i}, locks, FALSE)
        /\ UNCHANGED <<policy, files, local, embedded>>
        /\ \A j \in Inst \ {i} : owned'[j] => owned[j]
    BY <1>8 DEF Claim, TypeOK
  <2>2. \A j \in Inst \ {i} : SameEvidence(j)
    BY <2>1 DEF SameEvidence
  <2> QED
    BY <1>0, <2>1, <2>2, RecomputeKeeps
<1>9. ASSUME NEW r \in Run, RecordAttempts(r)
      PROVE  CoverageCurrent' /\ LocksConfigured'
  BY <1>9, UntouchedKeeps DEF RecordAttempts
<1>10. ASSUME NEW p \in Policy, NEW R \in SUBSET Inst, Activate(p, R)
       PROVE  CoverageCurrent' /\ LocksConfigured'
  <2>1. CASE Recompute(p, Inst, locks, FALSE)
    <3>1. policy' = p
      BY <1>10 DEF Activate
    <3> QED
      BY <1>0, <2>1, <3>1, RecomputeKeeps
  <2>2. CASE p = policy /\ UNCHANGED <<locks, coverage>>
    <3>1. \A j \in Inst : owned'[j] => owned[j]
      BY <1>10 DEF Activate
    <3> QED
      BY <1>10, <2>2, <3>1, UntouchedKeeps DEF Activate
  <2> QED
    BY <1>10, <2>1, <2>2 DEF Activate
<1>11. CASE Reopen
  BY <1>11, UntouchedKeeps DEF Reopen
<1>12. CASE UNCHANGED vars
  BY <1>12, UntouchedKeeps DEF vars
<1> QED
  BY <1>1, <1>2, <1>3, <1>4, <1>5, <1>6, <1>7, <1>8, <1>9, <1>10, <1>11, <1>12
     DEF Next, End, Inventory

---------------------------------------------------------------------------
(* Intents and the download log                                            *)

IntentInv == OneIntentPerRun /\ OwnItems /\ LoggedOnce

\* Settling an intent that logs nothing keeps the intent invariants.
LEMMA SettleQuietly ==
    ASSUME TypeOK, IntentInv, NEW f \in File, NEW op, op # "deliver", Take(f, op),
           UNCHANGED <<downloads, begun>>
    PROVE  IntentInv'
<1>1. /\ f \in DOMAIN intents /\ intents[f].op # "deliver"
      /\ DOMAIN intents' = DOMAIN intents \ {f}
      /\ \A g \in DOMAIN intents \ {f} : intents'[g] = intents[g]
  BY TakeType
<1>2. \A r \in Run : Staged(r)' <=> Staged(r)
  BY <1>1 DEF Staged
<1> QED
  BY <1>1, <1>2 DEF IntentInv, OneIntentPerRun, OwnItems, LoggedOnce

\* So does staging a write that is not a delivery.
LEMMA StageQuietly ==
    ASSUME TypeOK, IntentInv, NEW f \in File, NEW in \in Intent, in.op # "deliver",
           Stage(f, in), UNCHANGED begun
    PROVE  IntentInv'
<1>1. /\ DOMAIN intents' = DOMAIN intents \union {f}
      /\ intents'[f] = in
      /\ \A g \in DOMAIN intents : g # f /\ intents'[g] = intents[g]
  BY StageType
<1>2. \A r \in Run : Staged(r)' <=> Staged(r)
  BY <1>1 DEF Staged
<1>3. downloads' = downloads
  BY DEF Stage
<1> QED
  BY <1>1, <1>2, <1>3 DEF IntentInv, OneIntentPerRun, OwnItems, LoggedOnce

LEMMA NextIntent == TypeOK /\ IntentInv /\ [Next]_vars => IntentInv'
<1> SUFFICES ASSUME TypeOK, IntentInv, [Next]_vars PROVE IntentInv'
  OBVIOUS
<1>0. \A r \in Run : Count(r) = IF r \in begun /\ ~Staged(r) THEN 1 ELSE 0
  BY DEF IntentInv, LoggedOnce, Count
<1>1. ASSUME NEW f \in File, NEW r \in Run, BeginDeliver(f, r) PROVE IntentInv'
  <2> DEFINE in == [op |-> "deliver", content |-> Plan[r].content,
                    locked |-> Plan[r].locked, items |-> Plan[r].items,
                    pair |-> Plan[r].pair, removes |-> Plan[r].removes, run |-> r]
  <2>1. in \in Intent
    BY PlanAssumption DEF Intent, Delivery
  <2>2. Stage(f, in)
    BY <1>1 DEF BeginDeliver
  <2>3. /\ DOMAIN intents' = DOMAIN intents \union {f}
        /\ intents'[f] = in
        /\ \A g \in DOMAIN intents : g # f /\ intents'[g] = intents[g]
    BY <2>1, <2>2, StageType
  <2>4. /\ r \notin begun /\ begun' = begun \union {r}
        /\ in.items \subseteq Holds[f[1]]
        /\ downloads' = downloads
    BY <1>1, <2>2 DEF BeginDeliver, Stage
  <2>5. OneIntentPerRun'
    BY <2>3, <2>4 DEF IntentInv, OneIntentPerRun
  <2>6. OwnItems'
    BY <2>3, <2>4 DEF IntentInv, OwnItems
  <2>7. \A s \in Run : Staged(s)' <=> s = r \/ Staged(s)
    BY <2>3 DEF Staged
  <2>8. LoggedOnce'
    BY <2>4, <2>7 DEF IntentInv, LoggedOnce
  <2> QED
    BY <2>5, <2>6, <2>8 DEF IntentInv
<1>2. ASSUME NEW f \in File, NEW c \in Content, NEW adopt \in BOOLEAN,
             BeginRetime(f, c, adopt)
      PROVE  IntentInv'
  <2> DEFINE in == [op |-> "retime", content |-> c, adopt |-> adopt]
  <2>1. in \in Intent /\ in.op # "deliver"
    BY DEF Intent, Retiming
  <2>2. Stage(f, in) /\ begun' = begun
    BY <1>2 DEF BeginRetime
  <2> HIDE DEF in
  <2> QED
    BY <2>1, <2>2, StageQuietly
<1>3. ASSUME NEW f \in File, BeginDelete(f) PROVE IntentInv'
  <2> DEFINE in == [op |-> "delete"]
  <2>1. in \in Intent /\ in.op # "deliver"
    BY DEF Intent, Deletion
  <2>2. Stage(f, in) /\ begun' = begun
    BY <1>3 DEF BeginDelete
  <2> HIDE DEF in
  <2> QED
    BY <2>1, <2>2, StageQuietly
<1>4. ASSUME NEW f \in File, NEW landed \in BOOLEAN, EndDeliver(f, landed)
      PROVE  IntentInv'
  <2>1. /\ f \in DOMAIN intents /\ intents[f].op = "deliver" /\ intents[f].run \in Run
        /\ DOMAIN intents' = DOMAIN intents \ {f}
        /\ \A g \in DOMAIN intents \ {f} : intents'[g] = intents[g]
    <3>1. Take(f, "deliver")
      BY <1>4 DEF EndDeliver
    <3>2. intents[f] \in Delivery
      BY <3>1, TakeType, DeliveryType
    <3> QED
      BY <3>1, <3>2, TakeType DEF Delivery
  <2>2. begun' = begun
    BY <1>4 DEF EndDeliver
  <2>3. OneIntentPerRun' /\ OwnItems'
    BY <2>1, <2>2 DEF IntentInv, OneIntentPerRun, OwnItems
  <2>4. PICK r \in Run : r = intents[f].run
    BY <2>1
  <2>5. r \in begun /\ Staged(r) /\ ~Staged(r)'
    BY <2>1, <2>4 DEF IntentInv, OneIntentPerRun, Staged
  <2>6. \A s \in Run \ {r} : Staged(s)' <=> Staged(s)
    BY <2>1, <2>4 DEF Staged
  <2>7. PICK d \in Outcome : downloads' = Log(r, d)
    BY <1>4, <2>4 DEF EndDeliver, DeliverLanded, Outcome
  <2>8. Count(r)' = Count(r) + 1 /\ \A s \in Run \ {r} : Count(s)' = Count(s)
    BY <2>7, LogCount
  <2>9. \A s \in Run : Count(s)' = IF s \in begun' /\ ~Staged(s)' THEN 1 ELSE 0
    BY <1>0, <2>2, <2>5, <2>6, <2>8
  <2>10. LoggedOnce'
    BY <2>9 DEF LoggedOnce, Count
  <2> QED
    BY <2>3, <2>10 DEF IntentInv
<1>5. ASSUME NEW f \in File, NEW landed \in BOOLEAN, EndRetime(f, landed)
      PROVE  IntentInv'
  BY <1>5, SettleQuietly DEF EndRetime
<1>6. ASSUME NEW f \in File, NEW landed \in BOOLEAN, EndDelete(f, landed)
      PROVE  IntentInv'
  BY <1>6, SettleQuietly DEF EndDelete
<1>7. ASSUME NEW r \in Run, RecordAttempts(r) PROVE IntentInv'
  <2>1. /\ intents' = intents /\ begun' = begun \union {r} /\ r \notin begun
        /\ downloads' = Log(r, "undelivered")
    BY <1>7 DEF RecordAttempts
  <2>2. OneIntentPerRun' /\ OwnItems'
    BY <2>1 DEF IntentInv, OneIntentPerRun, OwnItems
  <2>3. ~Staged(r) /\ \A s \in Run : Staged(s)' <=> Staged(s)
    BY <2>1 DEF IntentInv, OneIntentPerRun, Staged
  <2>4. Count(r)' = Count(r) + 1 /\ \A s \in Run \ {r} : Count(s)' = Count(s)
    BY <2>1, LogCount DEF Outcome
  <2>5. \A s \in Run : Count(s)' = IF s \in begun' /\ ~Staged(s)' THEN 1 ELSE 0
    BY <1>0, <2>1, <2>3, <2>4
  <2>6. LoggedOnce'
    BY <2>5 DEF LoggedOnce, Count
  <2> QED
    BY <2>2, <2>6 DEF IntentInv
<1>8. CASE UNCHANGED <<intents, downloads, begun>>
  BY <1>8 DEF IntentInv, OneIntentPerRun, OwnItems, LoggedOnce, Staged
<1>9. ASSUME NEW i \in Inst, Inventory(i) PROVE UNCHANGED <<intents, downloads, begun>>
  BY <1>9 DEF Inventory, PutExternal, PutEmbedded, SetLock, Claim
<1>10. ASSUME NEW p \in Policy, NEW R \in SUBSET Inst, Activate(p, R)
       PROVE  UNCHANGED <<intents, downloads, begun>>
  BY <1>10 DEF Activate
<1> QED
  BY <1>1, <1>2, <1>3, <1>4, <1>5, <1>6, <1>7, <1>8, <1>9, <1>10
     DEF Next, Begin, End, Reopen, vars

---------------------------------------------------------------------------
(* Baselines                                                               *)

LEMMA NextBaseline == TypeOK /\ BaselineOfRecord /\ [Next]_vars => BaselineOfRecord'
<1> SUFFICES ASSUME TypeOK, baselines \subseteq DOMAIN files, [Next]_vars
             PROVE  baselines' \subseteq DOMAIN files'
  BY DEF BaselineOfRecord, Managed
<1>1. ASSUME NEW f \in File, DeliverLanded(f), Take(f, "deliver")
      PROVE  baselines' \subseteq DOMAIN files'
  <2> DEFINE others == {m[1] : m \in intents[f].removes} \ {f[2]}
             fs == Record(f, intents[f].content)
  <2>1. intents[f] \in Delivery
    BY <1>1, TakeType, DeliveryType
  <2>2. IsTable(fs, File, Row) /\ DOMAIN fs = DOMAIN files \union {f}
    BY <2>1, RecordType DEF Delivery
  <2>3. RemoveFiles(f[1], others, fs, baselines \union {f})
    BY <1>1 DEF DeliverLanded
  <2>4. baselines \union {f} \in SUBSET File /\ baselines \union {f} \subseteq DOMAIN fs
    BY <2>2 DEF TypeOK
  <2> HIDE DEF fs, others
  <2> QED
    BY <2>2, <2>3, <2>4, OwnedFile, RemoveFilesType
<1>2. ASSUME NEW f \in File, RetimeLanded(f), Take(f, "retime")
      PROVE  baselines' \subseteq DOMAIN files'
  <2>1. intents[f] \in Retiming
    BY <1>2, TakeType, RetimingType
  <2>2. DOMAIN files' = DOMAIN files \union {f}
    BY <1>2, <2>1, RecordType DEF Retiming, RetimeLanded
  <2> QED
    BY <1>2, <2>2 DEF RetimeLanded
<1>3. ASSUME NEW f \in File, DeleteLanded(f)
      PROVE  baselines' \subseteq DOMAIN files'
  BY <1>3, OwnedFile, RemoveFilesType DEF DeleteLanded, TypeOK
<1>4. CASE UNCHANGED <<files, baselines>>
  BY <1>4
<1>5. ASSUME NEW f \in File, Begin(f) PROVE UNCHANGED <<files, baselines>>
  BY <1>5 DEF Begin, BeginDeliver, BeginRetime, BeginDelete, Stage, libraryVars
<1>6. ASSUME NEW f \in File, End(f) PROVE baselines' \subseteq DOMAIN files'
  BY <1>1, <1>2, <1>3, <1>4, <1>6
     DEF End, EndDeliver, EndRetime, EndDelete, libraryVars
<1>7. ASSUME NEW i \in Inst, Inventory(i) PROVE UNCHANGED <<files, baselines>>
  BY <1>7 DEF Inventory, PutExternal, PutEmbedded, SetLock, Claim
<1> QED
  BY <1>4, <1>5, <1>6, <1>7
     DEF Next, RecordAttempts, Activate, Reopen, vars, libraryVars

---------------------------------------------------------------------------
(* The invariant holds                                                     *)

LEMMA InitInv == Init => IInv
<1> SUFFICES ASSUME Init PROVE IInv
  OBVIOUS
<1>1. TypeOK /\ CoverageCurrent /\ LocksConfigured
  BY InitType, InitCoverage
<1>2. DOMAIN intents = {}
  BY EmptyIsTable DEF Init
<1>3. LoggedOnce
  BY <1>2 DEF Init, LoggedOnce, Staged, Outcome
<1> QED
  BY <1>1, <1>2, <1>3 DEF IInv, Init, OneIntentPerRun, OwnItems, BaselineOfRecord

LEMMA NextInv == IInv /\ [Next]_vars => IInv'
BY NextType, NextCoverage, NextIntent, NextBaseline DEF IInv, IntentInv

\* The inductive invariant: types, current coverage, configured locks, one
\* intent for each attempt, and the baselines of records.
THEOREM Invariance == Spec => []IInv
BY InitInv, NextInv, PTL DEF Spec

\* The stored coverage of an owned video is what its stored subtitles and the
\* stored policy give: no order of writes, inventories, activations and
\* restarts leaves it behind.
THEOREM CoverageStaysCurrent == Spec => []CoverageCurrent
BY Invariance, PTL DEF IInv

\* The locks of an owned video stay on pairs its languages configure.
THEOREM LocksStayConfigured == Spec => []LocksConfigured
BY Invariance, PTL DEF IInv

\* An attempt is logged once, when its write is settled, and never again.
THEOREM AttemptsLoggedOnce == Spec => []LoggedOnce
BY Invariance, PTL DEF IInv

\* A baseline is removed with the record it belongs to.
THEOREM BaselinesOfRecords == Spec => []BaselineOfRecord
BY Invariance, PTL DEF IInv

\* What is stored of an owned video is of the policy in force.
THEOREM OwnedStaysGraded == Spec => []OwnedGraded
BY CoverageStaysCurrent, LocksStayConfigured, PTL DEF OwnedGraded

---------------------------------------------------------------------------
(* What a step may do to a lock                                            *)

\* A lock a recompute loses is on a pair no longer configured, or the sweep of
\* an inventory write found nothing that serves it.
LEMMA RecomputeLoses ==
    ASSUME NEW p \in Policy, NEW I \in SUBSET Inst,
           NEW ls \in [Key -> SUBSET Pair], NEW inventory \in BOOLEAN,
           Recompute(p, I, ls, inventory),
           NEW i \in Inst, NEW k \in Holds[i], NEW q \in ls[k] \ locks'[k]
    PROVE  \/ q \notin Wants[p][LangOf[k]]
           \/ inventory /\ InventoryComplete(i)' /\ ~Servable(p, q, Evidence(i)')
<1> DEFINE swept(x) == \E j \in I : x \in Holds[j] /\ owned'[j]
           home(x) == CHOOSE j \in I : x \in Holds[j]
           kept(x) == KeptLocks(p, LangOf[x], Evidence(home(x))', ls[x],
                                inventory /\ InventoryComplete(home(x))')
<1>1. locks' = [x \in Key |-> IF swept(x) THEN kept(x) ELSE ls[x]]
  BY DEF Recompute
<1>2. k \in Key
  BY HoldsAssumption
<1>3. swept(k)
  BY <1>1, <1>2
<1>4. home(k) = i
  BY <1>3, HoldsAssumption
<1>5. q \notin kept(k)
  BY <1>1, <1>2, <1>3
<1>6. q \notin KeptLocks(p, LangOf[k], Evidence(i)', ls[k], inventory /\ InventoryComplete(i)')
  BY <1>4, <1>5
<1> QED
  BY <1>6, Zenon DEF KeptLocks

\* So an inventory write loses a user's lock only as LockLost allows.
LEMMA WriteLoses ==
    ASSUME TypeOK, NEW j \in Inst, NEW ls \in [Key -> SUBSET Pair], NEW inventory \in BOOLEAN,
           Recompute(policy, {j}, ls, inventory), UNCHANGED <<policy, active, embedded, owned>>,
           NEW i \in Inst, NEW k \in Holds[i], locks[k] \subseteq ls[k],
           NEW q \in locks[k] \ locks'[k]
    PROVE  LockLost(i, k, q)
<1>1. \/ q \notin Wants[policy][LangOf[k]]
      \/ inventory /\ InventoryComplete(i)' /\ ~Servable(policy, q, Evidence(i)')
  <2>1. policy \in Policy /\ {j} \in SUBSET Inst /\ q \in ls[k] \ locks'[k]
    BY DEF TypeOK
  <2> QED
    BY <2>1, RecomputeLoses
<1>2. policy' = policy
  OBVIOUS
<1> QED
  BY <1>1, <1>2 DEF LockLost

\* A recompute that follows no inventory write loses only unconfigured locks.
LEMMA ChangeLoses ==
    ASSUME NEW p \in Policy, policy' = p, NEW I \in SUBSET Inst,
           locks \in [Key -> SUBSET Pair], Recompute(p, I, locks, FALSE),
           NEW i \in Inst, NEW k \in Holds[i], NEW q \in locks[k] \ locks'[k]
    PROVE  LockLost(i, k, q)
<1>1. q \notin Wants[p][LangOf[k]]
  BY RecomputeLoses
<1> QED
  BY <1>1 DEF LockLost

\* Each step loses a lock only as LockLost allows: one case for each action.
LEMMA StepLoses ==
    ASSUME TypeOK, [Next]_vars, NEW i \in Inst, NEW k \in Holds[i],
           NEW q \in locks[k] \ locks'[k]
    PROVE  LockLost(i, k, q)
<1>1. k \in Key /\ locks \in [Key -> SUBSET Pair] /\ policy \in Policy
  BY HoldsAssumption DEF TypeOK
<1>2. locks' # locks
  OBVIOUS
<1>3. ASSUME NEW f \in File, NEW landed \in BOOLEAN, EndDeliver(f, landed)
      PROVE  LockLost(i, k, q)
  <2> DEFINE in == intents[f]
             ls == [x \in Key |-> IF in.locked /\ x \in in.items
                                  THEN locks[x] \union {in.pair} ELSE locks[x]]
  <2>1. /\ in \in Delivery /\ UNCHANGED <<policy, active, embedded, owned>>
        /\ Recompute(policy, {f[1]}, ls, TRUE)
    BY <1>2, <1>3, TakeType, DeliveryType DEF EndDeliver, DeliverLanded, libraryVars
  <2>2. ls \in [Key -> SUBSET Pair] /\ locks[k] \subseteq ls[k]
    BY <1>1, <2>1 DEF Delivery
  <2> HIDE DEF ls, in
  <2> QED
    BY <2>1, <2>2, OwnedFile, WriteLoses
<1>4. ASSUME NEW f \in File, NEW landed \in BOOLEAN, EndRetime(f, landed)
      PROVE  LockLost(i, k, q)
  <2> DEFINE ls == IF intents[f].adopt THEN AdoptionLocks(f, intents[f].content) ELSE locks
  <2>1. /\ UNCHANGED <<policy, active, embedded, owned>>
        /\ Recompute(policy, {f[1]}, ls, TRUE)
    BY <1>2, <1>4 DEF EndRetime, RetimeLanded, libraryVars
  <2>2. ls \in [Key -> SUBSET Pair]
    BY <1>1, AdoptionLocksType
  <2>3. locks[k] \subseteq ls[k]
    BY <1>1 DEF AdoptionLocks
  <2> HIDE DEF ls
  <2> QED
    BY <2>1, <2>2, <2>3, OwnedFile, WriteLoses
<1>5. ASSUME NEW f \in File, NEW landed \in BOOLEAN, EndDelete(f, landed)
      PROVE  LockLost(i, k, q)
  <2>1. /\ UNCHANGED <<policy, active, embedded, owned>>
        /\ Recompute(policy, {f[1]}, locks, TRUE)
    BY <1>2, <1>5 DEF EndDelete, DeleteLanded, libraryVars
  <2> QED
    BY <1>1, <2>1, OwnedFile, WriteLoses
<1>6. ASSUME NEW j \in Inst, NEW set \in Listings, PutExternal(j, set)
      PROVE  LockLost(i, k, q)
  <2>1. /\ UNCHANGED <<policy, active, embedded, owned>>
        /\ Recompute(policy, {j}, locks, TRUE)
    BY <1>6 DEF PutExternal
  <2> QED
    BY <1>1, <2>1, WriteLoses
<1>7. ASSUME NEW j \in Inst, NEW tracks \in Probes, PutEmbedded(j, tracks)
      PROVE  LockLost(i, k, q)
  <2>1. policy' = policy /\ Recompute(policy, {j}, locks, FALSE)
    BY <1>7 DEF PutEmbedded
  <2> QED
    BY <1>1, <2>1, ChangeLoses
<1>8. ASSUME NEW j \in Inst, NEW r \in Pair, NEW locked \in BOOLEAN, SetLock(j, r, locked)
      PROVE  LockLost(i, k, q)
  <2>1. k \in Configuring(j, r) /\ ~locked /\ q = r
    BY <1>1, <1>8 DEF SetLock
  <2>2. i = j
    BY <2>1, HoldsAssumption DEF Configuring
  <2>3. SetLock(i, q, FALSE)
    BY <1>8, <2>1, <2>2
  <2> QED
    BY <2>3 DEF LockLost
<1>9. ASSUME NEW j \in Inst, Claim(j) PROVE LockLost(i, k, q)
  <2>1. policy' = policy /\ Recompute(policy, {j}, locks, FALSE)
    BY <1>9 DEF Claim
  <2> QED
    BY <1>1, <2>1, ChangeLoses
<1>10. ASSUME NEW p \in Policy, NEW R \in SUBSET Inst, Activate(p, R)
       PROVE  LockLost(i, k, q)
  <2>1. policy' = p /\ Recompute(p, Inst, locks, FALSE)
    BY <1>2, <1>10 DEF Activate
  <2> QED
    BY <1>1, <2>1, ChangeLoses
<1>11. ASSUME NEW f \in File, Begin(f) PROVE FALSE
  BY <1>2, <1>11 DEF Begin, BeginDeliver, BeginRetime, BeginDelete, Stage, libraryVars
<1>12. ~UNCHANGED vars
  BY <1>2 DEF vars
<1>13. /\ \A r \in Run : ~RecordAttempts(r)
       /\ ~Reopen
  BY <1>2 DEF RecordAttempts, Reopen, libraryVars
<1> QED
  BY <1>3, <1>4, <1>5, <1>6, <1>7, <1>8, <1>9, <1>10, <1>11, <1>12, <1>13
     DEF Next, End, Inventory

\* A user's lock goes only when the user clears it, when its pair is no longer
\* configured, or when an inventory write over a complete inventory finds
\* nothing that serves it.
THEOREM LocksAreKept == Spec => LocksKept
<1>1. TypeOK /\ [Next]_vars =>
          [\A i \in Inst : \A k \in Holds[i] : \A q \in locks[k] \ locks'[k] :
              LockLost(i, k, q)]_vars
  BY StepLoses
<1> QED
  BY <1>1, TypeCorrect, PTL DEF Spec, LocksKept


---------------------------------------------------------------------------
(* The invariant                                                           *)

\* The disk holds bytes under names, and the caller's phases are of pending writes.
DiskTyped == IsTable(disk, File, Content) /\ IsTable(writer, DOMAIN intents, Phase)

\* A staged delivery carries the bytes its run planned.
AsPlanned ==
    \A f \in DOMAIN intents : intents[f].op = "deliver" => intents[f].content = Plan[intents[f].run].content

\* No pending write supersedes the file of another.
KeptApart == \A f, g \in DOMAIN intents : f \notin Superseded(g)

\* The running caller knows what the disk says of its writes.
Judged == \A f \in DOMAIN writer : writer[f] \in {"written", "finished"} <=> Landed(f)

\* No pending write that landed rewrites or supersedes f.
Untaken(f) == ~Effective(f) /\ \A g \in DOMAIN intents : Effective(g) => f \notin Superseded(g)

\* A record no landed write takes away names the bytes on disk.
Standing == \A f \in DOMAIN files : Untaken(f) => Holding(f, files[f].content)

\* The record a retime rewrites is still there.
Retimes == \A f \in DOMAIN intents : intents[f].op = "retime" /\ ~intents[f].adopt => Managed(f)

\* What holds of the disk, the caller and the records together.
DiskInv == DiskTyped /\ AsPlanned /\ KeptApart /\ Judged /\ Standing /\ Retimes /\ RecordHasBaseline

\* The inductive invariant of the protocol over its disk.
PipeInv == TypeOK /\ IntentInv /\ DiskInv

---------------------------------------------------------------------------
(* What the disk says of a write, from step to step                        *)

\* The name g holds after the step what it held before it.
DiskSame(g) ==
    /\ g \in DOMAIN disk' <=> g \in DOMAIN disk
    /\ g \in DOMAIN disk => disk'[g] = disk[g]

\* The write of g is pending before the step and after it, unchanged.
IntentSame(g) == g \in DOMAIN intents /\ g \in DOMAIN intents' /\ intents'[g] = intents[g]

\* A pending write supersedes what it did, and lands by its own file alone.
LEMMA SameIntent ==
    ASSUME NEW g, IntentSame(g)
    PROVE  /\ \A x : x \in Superseded(g)' <=> x \in Superseded(g)
           /\ DiskSame(g) => (Landed(g)' <=> Landed(g)) /\ (Effective(g)' <=> Effective(g))
<1>1. \A x : x \in Superseded(g)' <=> x \in Superseded(g)
  BY DEF IntentSame, Superseded
<1>2. ASSUME DiskSame(g)
      PROVE  Landed(g)' <=> Landed(g)
  BY <1>2 DEF IntentSame, DiskSame, Landed, Holding
<1>3. Pending(g) /\ Pending(g)'
  BY DEF IntentSame, Pending
<1> QED BY <1>1, <1>2, <1>3 DEF Effective

\* What a file holds is what it held.
LEMMA SameHolding ==
    ASSUME NEW g, NEW c, DiskSame(g)
    PROVE  Holding(g, c)' <=> Holding(g, c)
BY DEF DiskSame, Holding

\* Bytes put under a name.
LEMMA PutOnDisk ==
    ASSUME DiskTyped, NEW f \in File, NEW c \in Content, disk' = Put(disk, f, c)
    PROVE  IsTable(disk', File, Content) /\ Holding(f, c)' /\ \A g : g # f => DiskSame(g)
<1>1. IsTable(disk', File, Content)
  BY PutIsTable DEF DiskTyped
<1>2. DOMAIN disk' = DOMAIN disk \union {f} /\ disk'[f] = c /\ \A g \in DOMAIN disk : g # f => disk'[g] = disk[g]
  BY DEF Put
<1> QED BY <1>1, <1>2 DEF Holding, DiskSame

\* Names unlinked.
LEMMA DropFromDisk ==
    ASSUME DiskTyped, NEW D, disk' = Drop(disk, D)
    PROVE  /\ IsTable(disk', File, Content)
           /\ \A g : g \notin D => DiskSame(g)
           /\ \A g \in D : g \notin DOMAIN disk'
<1>1. IsTable(disk', File, Content)
  BY DropIsTable DEF DiskTyped
<1>2. DOMAIN disk' = DOMAIN disk \ D /\ \A g \in DOMAIN disk \ D : disk'[g] = disk[g]
  BY DEF Drop
<1> QED BY <1>1, <1>2 DEF DiskSame

\* A record that stood and is still the record of the bytes it names stands.
LEMMA StillStands ==
    ASSUME Standing, NEW g \in DOMAIN files', g \in DOMAIN files, files'[g] = files[g], DiskSame(g),
           Untaken(g)' => Untaken(g)
    PROVE  Untaken(g)' => Holding(g, files[g].content)'
BY SameHolding DEF Standing, DiskSame, Holding

---------------------------------------------------------------------------
(* The steps of the caller keep the invariant                              *)

\* What a call of Begin leaves: one intent more, not carried out yet.
Starts(f, in) ==
    /\ ~Pending(f) /\ Apart(f)
    /\ intents' = Put(intents, f, in)
    /\ writer' = Put(writer, f, "staged")
    /\ UNCHANGED <<files, baselines, disk>>
    /\ in.op = "deliver" => in.content = Plan[in.run].content
    /\ in.op = "retime" /\ ~in.adopt => Managed(f)
    /\ \A g \in DOMAIN intents : g \notin Superseded(f)'
    /\ ~Landed(f)'

\* A staged write changes nothing that a reader sees.
LEMMA StartsQuietly ==
    ASSUME NEW f, NEW in, Starts(f, in)
    PROVE  /\ DOMAIN intents' = DOMAIN intents \union {f} /\ f \notin DOMAIN intents /\ intents'[f] = in
           /\ \A g \in DOMAIN intents : IntentSame(g)
           /\ \A g : Effective(g)' <=> Effective(g)
           /\ \A g : Untaken(g)' <=> Untaken(g)
<1>1. DOMAIN intents' = DOMAIN intents \union {f} /\ f \notin DOMAIN intents /\ intents'[f] = in
      /\ \A g \in DOMAIN intents : intents'[g] = intents[g]
  BY DEF Starts, Put, Pending
<1>2. \A g \in DOMAIN intents : IntentSame(g)
  BY <1>1 DEF IntentSame
<1>3. \A g : DiskSame(g)
  BY DEF Starts, DiskSame
<1>4. ASSUME NEW g
      PROVE  Effective(g)' <=> Effective(g)
  <2>1. CASE g \in DOMAIN intents
    BY <1>2, <1>3, <2>1, SameIntent
  <2>2. CASE g = f
    BY <1>1, <2>2 DEF Effective, Pending, Starts
  <2>3. CASE g \notin DOMAIN intents \union {f}
    BY <1>1, <2>3 DEF Effective, Pending
  <2> QED BY <2>1, <2>2, <2>3
<1>5. ASSUME NEW g
      PROVE  Untaken(g)' <=> Untaken(g)
  <2>1. ~Effective(f)'
    BY DEF Effective, Starts
  <2>2. \A h \in DOMAIN intents : g \in Superseded(h)' <=> g \in Superseded(h)
    BY <1>2, SameIntent
  <2> QED BY <1>1, <1>4, <2>1, <2>2 DEF Untaken
<1> QED BY <1>1, <1>2, <1>4, <1>5

\* Every call of Begin keeps the disk's invariant.
LEMMA StartKeeps ==
    ASSUME DiskInv, NEW f \in File, NEW in, Starts(f, in)
    PROVE  DiskInv'
<1>1. /\ DOMAIN intents' = DOMAIN intents \union {f} /\ f \notin DOMAIN intents /\ intents'[f] = in
      /\ \A g \in DOMAIN intents : IntentSame(g)
      /\ \A g : Effective(g)' <=> Effective(g)
      /\ \A g : Untaken(g)' <=> Untaken(g)
  BY StartsQuietly
<1>2. \A g : DiskSame(g)
  BY DEF Starts, DiskSame
<1>3. DiskTyped'
  <2>1. IsTable(writer, DOMAIN intents', Phase)
    BY <1>1 DEF DiskInv, DiskTyped, IsTable
  <2>2. IsTable(writer', DOMAIN intents', Phase)
    BY <1>1, <2>1, PutIsTable DEF Starts, Phase
  <2> QED BY <2>2 DEF DiskInv, DiskTyped, Starts
<1>4. AsPlanned'
  BY <1>1 DEF DiskInv, AsPlanned, IntentSame, Starts
<1>5. KeptApart'
  <2>1. ASSUME NEW g \in DOMAIN intents', NEW h \in DOMAIN intents'
        PROVE  g \notin Superseded(h)'
    <3>1. CASE h = f /\ g # f
      BY <1>1, <3>1 DEF Starts
    <3>2. CASE h = f /\ g = f
      BY <3>2 DEF Superseded
    <3>3. CASE h # f /\ g = f
      <4>1. f \notin Superseded(h)
        BY <1>1, <3>3 DEF Starts, Apart
      <4> QED BY <1>1, <3>3, <4>1, SameIntent
    <3>4. CASE h # f /\ g # f
      BY <1>1, <3>4, SameIntent DEF DiskInv, KeptApart
    <3> QED BY <3>1, <3>2, <3>3, <3>4
  <2> QED BY <2>1 DEF KeptApart
<1>6. Judged'
  <2>1. DOMAIN writer' = DOMAIN writer \union {f} /\ writer'[f] = "staged"
        /\ \A g \in DOMAIN writer : g # f /\ writer'[g] = writer[g] /\ g \in DOMAIN intents
    BY <1>1 DEF DiskInv, DiskTyped, IsTable, Starts, Put
  <2>2. \A g \in DOMAIN writer : Landed(g)' <=> Landed(g)
    BY <1>1, <1>2, <2>1, SameIntent
  <2> QED BY <2>1, <2>2 DEF Starts, Judged, DiskInv
<1>7. Standing'
  BY <1>1, <1>2, StillStands DEF DiskInv, Standing, Starts
<1>8. Retimes'
  BY <1>1 DEF DiskInv, Retimes, Starts, IntentSame, Managed
<1>9. RecordHasBaseline'
  BY DEF DiskInv, RecordHasBaseline, Starts
<1> QED BY <1>3, <1>4, <1>5, <1>6, <1>7, <1>8, <1>9 DEF DiskInv

\* A step that leaves the records and the intents only has to keep what is about the disk.
LEMMA OnDisk ==
    ASSUME DiskInv, UNCHANGED <<intents, files, baselines>>, DiskTyped', Judged', Standing'
    PROVE  DiskInv'
<1>1. AsPlanned' /\ Retimes' /\ RecordHasBaseline'
  BY DEF DiskInv, AsPlanned, Retimes, RecordHasBaseline, Managed
<1>2. \A g \in DOMAIN intents : IntentSame(g)
  BY DEF IntentSame
<1>3. KeptApart'
  BY <1>2, SameIntent DEF DiskInv, KeptApart
<1> QED BY <1>1, <1>3 DEF DiskInv

\* The phases of the running caller, typed, when one of them moves.
LEMMA Moved ==
    ASSUME DiskInv, NEW f, NEW from, NEW to \in Phase, Move(f, from, to)
    PROVE  /\ f \in DOMAIN writer /\ f \in DOMAIN intents /\ writer[f] = from
           /\ UNCHANGED <<intents, files, baselines>>
           /\ DOMAIN writer' = DOMAIN writer /\ writer'[f] = to
           /\ \A g \in DOMAIN writer \ {f} : writer'[g] = writer[g] /\ g \in DOMAIN intents
           /\ IsTable(writer', DOMAIN intents', Phase)
<1>1. IsTable(writer, DOMAIN intents, Phase) /\ f \in DOMAIN writer
  BY DEF DiskInv, DiskTyped, Move
<1>2. f \in DOMAIN intents /\ \A g \in DOMAIN writer : g \in DOMAIN intents
  BY <1>1 DEF IsTable
<1>3. /\ DOMAIN writer' = DOMAIN writer /\ writer'[f] = to
      /\ writer' = [x \in DOMAIN writer' |-> writer'[x]]
      /\ \A g \in DOMAIN writer \ {f} : writer'[g] = writer[g]
  BY <1>1 DEF Move, IsTable
<1>4. UNCHANGED <<intents, files, baselines>>
  BY DEF Move, vars
<1>5. IsTable(writer', DOMAIN intents', Phase)
  BY <1>1, <1>3, <1>4 DEF IsTable
<1> QED BY <1>1, <1>2, <1>3, <1>4, <1>5 DEF Move

\* The disk write: the pending write of f has landed, and no other has.
LEMMA WriteKeeps ==
    ASSUME TypeOK, DiskInv, NEW f \in File, Write(f)
    PROVE  /\ DiskInv' /\ f \in DOMAIN intents /\ ~Effective(f) /\ Effective(f)'
           /\ \A g \in DOMAIN intents \ {f} : Effective(g)' <=> Effective(g)
           /\ \A g \in DOMAIN intents : IntentSame(g)
           /\ UNCHANGED <<intents, files, baselines>>
<1>1. /\ f \in DOMAIN writer /\ f \in DOMAIN intents /\ writer[f] = "staged"
      /\ UNCHANGED <<intents, files, baselines>>
      /\ DOMAIN writer' = DOMAIN writer /\ writer'[f] = "written"
      /\ \A g \in DOMAIN writer \ {f} : writer'[g] = writer[g] /\ g \in DOMAIN intents
      /\ IsTable(writer', DOMAIN intents', Phase)
  BY Moved DEF Write, Phase
<1>2. \A g \in DOMAIN intents : IntentSame(g)
  BY <1>1 DEF IntentSame
<1>3. DiskTyped
  BY DEF DiskInv
<1>4. /\ IsTable(disk', File, Content)
      /\ \A g : g # f => DiskSame(g)
      /\ Landed(f)'
  <2>1. CASE intents[f].op = "delete"
    <3>1. disk' = Drop(disk, {f})
      BY <2>1 DEF Write
    <3>2. IsTable(disk', File, Content) /\ f \notin DOMAIN disk' /\ \A g : g # f => DiskSame(g)
      BY <1>3, <3>1, DropFromDisk
    <3> QED BY <1>1, <2>1, <3>2 DEF Landed
  <2>2. CASE intents[f].op # "delete"
    <3>1. disk' = Put(disk, f, intents[f].content)
      BY <2>2 DEF Write
    <3>2. intents[f].content \in Content
      <4>1. intents[f] \in Intent
        BY <1>1 DEF TypeOK, IsTable
      <4>2. intents[f] \in Delivery \/ intents[f] \in Retiming
        <5>1. intents[f] \notin Deletion
          BY <2>2 DEF Deletion
        <5> QED BY <4>1, <5>1 DEF Intent
      <4> QED BY <4>2 DEF Delivery, Retiming
    <3>3. IsTable(disk', File, Content) /\ Holding(f, intents[f].content)' /\ \A g : g # f => DiskSame(g)
      <4>1. PICK c \in Content : c = intents[f].content
        BY <3>2
      <4>2. IsTable(disk', File, Content) /\ Holding(f, c)' /\ \A g : g # f => DiskSame(g)
        BY <1>3, <3>1, <4>1, PutOnDisk
      <4>3. intents'[f].content = c
        BY <1>1, <4>1
      <4> QED BY <4>2, <4>3 DEF Holding
    <3> QED BY <1>1, <2>2, <3>3 DEF Landed
  <2> QED BY <2>1, <2>2
<1>5. \A g \in DOMAIN intents \ {f} : (Landed(g)' <=> Landed(g)) /\ (Effective(g)' <=> Effective(g))
  BY <1>2, <1>4, SameIntent
<1>6. ~Landed(f)
  BY <1>1 DEF DiskInv, Judged
<1>7. ~Effective(f) /\ Effective(f)'
  BY <1>1, <1>4, <1>6 DEF Effective, Pending
<1>8. Judged'
  BY <1>1, <1>4, <1>5 DEF DiskInv, Judged
<1>9. Standing'
  <2>1. ASSUME NEW g \in DOMAIN files', Untaken(g)'
        PROVE  Holding(g, files[g].content)'
    <3>1. g # f
      BY <1>7, <2>1 DEF Untaken
    <3>2. Untaken(g)
      <4>1. ~Effective(g)
        BY <1>1, <1>5, <2>1, <3>1 DEF Untaken, Effective, Pending
      <4>2. ASSUME NEW h \in DOMAIN intents, Effective(h)
            PROVE  g \notin Superseded(h)
        <5>1. Effective(h)'
          BY <1>5, <1>7, <4>2
        <5> QED BY <1>1, <1>2, <2>1, <5>1, SameIntent DEF Untaken
      <4> QED BY <4>1, <4>2 DEF Untaken
    <3> QED BY <1>1, <1>4, <2>1, <3>1, <3>2, StillStands DEF DiskInv
  <2> QED BY <2>1 DEF Standing
<1>10. DiskInv'
  BY <1>1, <1>4, <1>8, <1>9, OnDisk DEF DiskTyped
<1> QED BY <1>1, <1>2, <1>5, <1>7, <1>10

\* Removing superseded files, or adding one nobody knows, changes no pending write
\* and no record that stands.
LEMMA ElsewhereKeeps ==
    ASSUME TypeOK, DiskInv, UNCHANGED <<intents, files, baselines>>,
           IsTable(disk', File, Content), IsTable(writer', DOMAIN intents', Phase),
           \A g \in DOMAIN intents : DiskSame(g),
           \A g \in DOMAIN files : Untaken(g) => DiskSame(g),
           \A g \in DOMAIN writer' : writer'[g] \in {"written", "finished"} <=> Landed(g)
    PROVE  /\ DiskInv'
           /\ \A g : Effective(g)' <=> Effective(g)
           /\ \A g \in DOMAIN intents : IntentSame(g)
<1>1. \A g \in DOMAIN intents : IntentSame(g)
  BY DEF IntentSame
<1>2. \A g \in DOMAIN intents : (Landed(g)' <=> Landed(g)) /\ (Effective(g)' <=> Effective(g))
  BY <1>1, SameIntent
<1>3. \A g : Effective(g)' <=> Effective(g)
  BY <1>2 DEF Effective, Pending
<1>4. \A g : Untaken(g)' <=> Untaken(g)
  BY <1>1, <1>3, SameIntent DEF Untaken
<1>5. Judged'
  BY <1>2 DEF Judged, IsTable
<1>6. Standing'
  BY <1>4, StillStands DEF DiskInv, Standing
<1> QED BY <1>1, <1>3, <1>5, <1>6, OnDisk DEF DiskTyped

\* A disk write that fails leaves the disk's invariant and what a reader sees.
LEMMA FailKeeps ==
    ASSUME TypeOK, DiskInv, NEW f, Fail(f)
    PROVE  DiskInv' /\ (\A g : Effective(g)' <=> Effective(g)) /\ \A g \in DOMAIN intents : IntentSame(g)
<1>1. /\ f \in DOMAIN writer /\ f \in DOMAIN intents /\ writer[f] = "staged"
      /\ UNCHANGED <<intents, files, baselines>>
      /\ DOMAIN writer' = DOMAIN writer /\ writer'[f] = "failed"
      /\ \A g \in DOMAIN writer \ {f} : writer'[g] = writer[g] /\ g \in DOMAIN intents
      /\ IsTable(writer', DOMAIN intents', Phase)
  BY Moved DEF Fail, Phase
<1>2. disk' = disk /\ IsTable(disk', File, Content)
  BY DEF Fail, DiskInv, DiskTyped
<1>3. \A g : DiskSame(g)
  BY <1>2 DEF DiskSame
<1>4. \A g \in DOMAIN writer' : writer'[g] \in {"written", "finished"} <=> Landed(g)
  BY <1>1 DEF DiskInv, Judged
<1> QED BY <1>1, <1>2, <1>3, <1>4, ElsewhereKeeps

\* Removing the superseded files takes away no bytes that a standing record names.
LEMMA FinishKeeps ==
    ASSUME TypeOK, DiskInv, NEW f \in File, Finish(f)
    PROVE  DiskInv' /\ (\A g : Effective(g)' <=> Effective(g)) /\ \A g \in DOMAIN intents : IntentSame(g)
<1>1. /\ f \in DOMAIN writer /\ f \in DOMAIN intents /\ writer[f] = "written"
      /\ UNCHANGED <<intents, files, baselines>>
      /\ DOMAIN writer' = DOMAIN writer /\ writer'[f] = "finished"
      /\ \A g \in DOMAIN writer \ {f} : writer'[g] = writer[g] /\ g \in DOMAIN intents
      /\ IsTable(writer', DOMAIN intents', Phase)
  BY Moved DEF Finish, Phase
<1>2. PICK D \in SUBSET Superseded(f) : disk' = Drop(disk, D) \/ (D = {} /\ disk' = disk)
  BY DEF Finish
<1>3. DiskTyped
  BY DEF DiskInv
<1>4. IsTable(disk', File, Content) /\ \A g : g \notin D => DiskSame(g)
  <2>1. CASE disk' = Drop(disk, D)
    BY <1>3, <2>1, DropFromDisk
  <2>2. CASE disk' = disk
    BY <1>3, <2>2 DEF DiskTyped, DiskSame
  <2> QED BY <1>2, <2>1, <2>2
<1>5. \A g \in DOMAIN intents : DiskSame(g)
  BY <1>1, <1>2, <1>4 DEF DiskInv, KeptApart
<1>6. Effective(f)
  BY <1>1 DEF DiskInv, Judged, Effective, Pending
<1>7. \A g \in DOMAIN files : Untaken(g) => DiskSame(g)
  BY <1>1, <1>2, <1>4, <1>6 DEF Untaken
<1>8. \A g \in DOMAIN writer' : writer'[g] \in {"written", "finished"} <=> Landed(g)
  BY <1>1 DEF DiskInv, Judged
<1> QED BY <1>1, <1>4, <1>5, <1>7, <1>8, ElsewhereKeeps

\* A file the user adds touches no record and no pending write.
LEMMA UserAddsKeeps ==
    ASSUME TypeOK, DiskInv, NEW f \in File, NEW c \in Content, UserAdds(f, c)
    PROVE  DiskInv' /\ (\A g : Effective(g)' <=> Effective(g)) /\ \A g \in DOMAIN intents : IntentSame(g)
<1>1. UNCHANGED <<intents, files, baselines, writer>> /\ f \notin DOMAIN intents /\ f \notin DOMAIN files
  BY DEF UserAdds, vars, Apart, Pending, Managed
<1>2. DiskTyped /\ IsTable(writer, DOMAIN intents, Phase)
  BY DEF DiskInv, DiskTyped
<1>3. IsTable(disk', File, Content) /\ \A g : g # f => DiskSame(g)
  BY <1>2, PutOnDisk DEF UserAdds
<1>4. \A g \in DOMAIN writer' : writer'[g] \in {"written", "finished"} <=> Landed(g)
  BY <1>1 DEF DiskInv, Judged
<1> QED BY <1>1, <1>2, <1>3, <1>4, ElsewhereKeeps

\* Steps that leave the disk, the records and the intents alone.
LEMMA QuietKeeps ==
    ASSUME TypeOK, DiskInv, UNCHANGED <<intents, files, baselines, disk>>,
           IsTable(writer', DOMAIN intents', Phase),
           \A g \in DOMAIN writer' : writer'[g] \in {"written", "finished"} <=> Landed(g)
    PROVE  DiskInv' /\ (\A g : Effective(g)' <=> Effective(g)) /\ \A g \in DOMAIN intents : IntentSame(g)
<1>1. IsTable(disk', File, Content) /\ \A g : DiskSame(g)
  BY DEF DiskInv, DiskTyped, DiskSame
<1> QED BY <1>1, ElsewhereKeeps

\* Recovery judges a write by the disk.
LEMMA RecoverKeeps ==
    ASSUME TypeOK, DiskInv, NEW f \in File, Recover(f)
    PROVE  DiskInv' /\ (\A g : Effective(g)' <=> Effective(g)) /\ \A g \in DOMAIN intents : IntentSame(g)
<1>1. UNCHANGED <<intents, files, baselines, disk>> /\ f \in DOMAIN intents
  BY DEF Recover, vars, Pending
<1>2. PICK v \in {"written", "failed"} : writer' = Put(writer, f, v) /\ (v = "written" <=> Landed(f))
  BY DEF Recover
<1>3. IsTable(writer', DOMAIN intents', Phase)
  BY <1>1, <1>2, PutIsTable DEF DiskInv, DiskTyped, Phase
<1>4. DOMAIN writer' = DOMAIN writer \union {f} /\ writer'[f] = v
      /\ \A g \in DOMAIN writer \ {f} : writer'[g] = writer[g]
  BY <1>2 DEF Put
<1>5. \A g \in DOMAIN writer' : writer'[g] \in {"written", "finished"} <=> Landed(g)
  BY <1>2, <1>4 DEF DiskInv, Judged
<1> QED BY <1>1, <1>3, <1>5, QuietKeeps

\* A crash forgets the caller's phases, and so nothing the caller could be wrong about.
LEMMA CrashKeeps ==
    ASSUME TypeOK, DiskInv, Crash
    PROVE  DiskInv' /\ (\A g : Effective(g)' <=> Effective(g)) /\ \A g \in DOMAIN intents : IntentSame(g)
<1>1. UNCHANGED <<intents, files, baselines, disk>> /\ writer' = EmptyTable
  BY DEF Crash, Reopen, libraryVars
<1>2. IsTable(writer', DOMAIN intents', Phase) /\ DOMAIN writer' = {}
  BY <1>1, EmptyIsTable
<1> QED BY <1>1, <1>2, QuietKeeps

---------------------------------------------------------------------------
(* Settling                                                                *)

\* What a landed End makes of the records: the write of f and no other.
Lands(f) ==
    /\ DOMAIN files' \subseteq File
    /\ intents[f].op = "delete" => f \notin DOMAIN files'
    /\ intents[f].op # "delete" => f \in DOMAIN files' /\ files'[f].content = intents[f].content
    /\ \A g \in File \ {f} : g \in DOMAIN files' <=> g \in DOMAIN files /\ g \notin Superseded(f)
    /\ \A g \in DOMAIN files' \ {f} : files'[g] = files[g]
    /\ \A g \in DOMAIN files' : g \in baselines'

\* removeFile takes the names of N, of instance i, from the records fs.
LEMMA Removes ==
    ASSUME NEW i \in Inst, NEW N, NEW fs, NEW bs, RemoveFiles(i, N, fs, bs), DOMAIN fs \subseteq File
    PROVE  /\ \A g \in File : g \in DOMAIN files' <=> g \in DOMAIN fs /\ g \notin {i} \X N
           /\ \A g \in DOMAIN files' : files'[g] = fs[g]
           /\ DOMAIN files' \subseteq DOMAIN fs
           /\ baselines' = bs \ ({i} \X N)
<1> DEFINE gone == {g \in DOMAIN fs : g[1] = i /\ g[2] \in N}
<1>1. files' = Drop(fs, gone) /\ baselines' = bs \ ({i} \X N)
  BY DEF RemoveFiles
<1>2. DOMAIN files' = DOMAIN fs \ gone /\ \A g \in DOMAIN files' : files'[g] = fs[g]
  BY <1>1 DEF Drop
<1>3. \A g \in DOMAIN fs : g \in gone <=> g \in {i} \X N
  BY OwnedFile
<1> QED BY <1>1, <1>2, <1>3

\* putRecord: the bytes of f and the other records.
LEMMA Records ==
    ASSUME TypeOK, NEW f \in File, NEW c
    PROVE  /\ DOMAIN Record(f, c) = DOMAIN files \union {f} /\ DOMAIN Record(f, c) \subseteq File
           /\ Record(f, c)[f].content = c
           /\ \A g \in DOMAIN files \ {f} : Record(f, c)[g] = files[g]
<1>1. DOMAIN files \subseteq File
  BY DEF TypeOK, IsTable
<1>2. DOMAIN Record(f, c) = DOMAIN files \union {f}
      /\ Record(f, c)[f] = [content |-> c, gen |-> Generation(f) + 1]
      /\ \A g \in DOMAIN files \ {f} : Record(f, c)[g] = files[g]
  BY DEF Record, Put
<1> QED BY <1>1, <1>2

\* A landed End of each kind.
LEMMA EndLands ==
    ASSUME TypeOK, DiskInv, NEW f \in File,
           EndDeliver(f, TRUE) \/ EndRetime(f, TRUE) \/ EndDelete(f, TRUE)
    PROVE  Lands(f) /\ Take(f, intents[f].op)
<1>1. DOMAIN files \subseteq File
  BY DEF TypeOK, IsTable
<1>2. CASE EndDeliver(f, TRUE)
  <2> DEFINE others == {m[1] : m \in intents[f].removes} \ {f[2]}
             c == intents[f].content
  <2>1. /\ Take(f, "deliver") /\ intents[f].op = "deliver"
        /\ RemoveFiles(f[1], others, Record(f, c), baselines \union {f})
    BY <1>2 DEF EndDeliver, Take, DeliverLanded
  <2> HIDE DEF others
  <2>2. /\ \A g \in File : g \in DOMAIN files' <=> g \in DOMAIN Record(f, c) /\ g \notin {f[1]} \X others
        /\ \A g \in DOMAIN files' : files'[g] = Record(f, c)[g]
        /\ DOMAIN files' \subseteq DOMAIN Record(f, c)
        /\ baselines' = (baselines \union {f}) \ ({f[1]} \X others)
    <3> DEFINE fs == Record(f, c)
               bs == baselines \union {f}
    <3>1. RemoveFiles(f[1], others, fs, bs) /\ DOMAIN fs \subseteq File
      BY <2>1, Records
    <3> HIDE DEF fs, bs
    <3>2. /\ \A g \in File : g \in DOMAIN files' <=> g \in DOMAIN fs /\ g \notin {f[1]} \X others
          /\ \A g \in DOMAIN files' : files'[g] = fs[g]
          /\ DOMAIN files' \subseteq DOMAIN fs
          /\ baselines' = bs \ ({f[1]} \X others)
      BY <3>1, Removes, OwnedFile
    <3> QED BY <3>2 DEF fs, bs
  <2>3. /\ DOMAIN Record(f, c) = DOMAIN files \union {f} /\ DOMAIN Record(f, c) \subseteq File
        /\ Record(f, c)[f].content = c
        /\ \A g \in DOMAIN files \ {f} : Record(f, c)[g] = files[g]
    BY Records
  <2>4. \A g \in File : g \in Superseded(f) <=> g \in {f[1]} \X others
    BY <2>1, OwnedFile DEF Superseded, others
  <2>5. f \notin {f[1]} \X others
    BY <2>4 DEF Superseded
  <2>6. \A g \in DOMAIN files' : g \in baselines'
    <3>1. \A g \in DOMAIN files' : g \in baselines \union {f} /\ g \notin {f[1]} \X others
      BY <2>2, <2>3 DEF DiskInv, RecordHasBaseline
    <3> QED BY <2>2, <3>1
  <2> HIDE DEF c
  <2>7. files'[f].content = c /\ f \in DOMAIN files'
    BY <2>2, <2>3, <2>5
  <2> QED BY <2>1, <2>2, <2>3, <2>4, <2>6, <2>7 DEF Lands, c
<1>3. CASE EndRetime(f, TRUE)
  <2> DEFINE c == intents[f].content
  <2>1. /\ Take(f, "retime") /\ intents[f].op = "retime"
        /\ files' = Record(f, c) /\ f \in DOMAIN intents
        /\ baselines' = IF intents[f].adopt THEN baselines \union {f} ELSE baselines
    BY <1>3 DEF EndRetime, Take, RetimeLanded, Pending
  <2>2. /\ DOMAIN Record(f, c) = DOMAIN files \union {f} /\ DOMAIN Record(f, c) \subseteq File
        /\ Record(f, c)[f].content = c
        /\ \A g \in DOMAIN files \ {f} : Record(f, c)[g] = files[g]
    BY Records
  <2>3. Superseded(f) = {}
    BY <2>1 DEF Superseded
  <2>4. f \in baselines'
    BY <2>1 DEF DiskInv, Retimes, RecordHasBaseline, Managed
  <2>5. \A g \in DOMAIN files' : g \in baselines'
    BY <2>1, <2>2, <2>4 DEF DiskInv, RecordHasBaseline
  <2> HIDE DEF c
  <2> QED BY <2>1, <2>2, <2>3, <2>5 DEF Lands, c
<1>4. CASE EndDelete(f, TRUE)
  <2>1. /\ Take(f, "delete") /\ intents[f].op = "delete"
        /\ RemoveFiles(f[1], {f[2]}, files, baselines)
    BY <1>4 DEF EndDelete, Take, DeleteLanded
  <2>2. /\ \A g \in File : g \in DOMAIN files' <=> g \in DOMAIN files /\ g \notin {f[1]} \X {f[2]}
        /\ \A g \in DOMAIN files' : files'[g] = files[g]
        /\ DOMAIN files' \subseteq DOMAIN files
        /\ baselines' = baselines \ ({f[1]} \X {f[2]})
    <3> DEFINE N == {f[2]}
    <3>1. RemoveFiles(f[1], N, files, baselines)
      BY <2>1
    <3> HIDE DEF N
    <3>2. /\ \A g \in File : g \in DOMAIN files' <=> g \in DOMAIN files /\ g \notin {f[1]} \X N
          /\ \A g \in DOMAIN files' : files'[g] = files[g]
          /\ DOMAIN files' \subseteq DOMAIN files
          /\ baselines' = baselines \ ({f[1]} \X N)
      BY <1>1, <3>1, Removes, OwnedFile
    <3> QED BY <3>2 DEF N
  <2>3. \A g \in File : g \in {f[1]} \X {f[2]} <=> g = f
    BY OwnedFile
  <2>4. Superseded(f) = {}
    BY <2>1 DEF Superseded
  <2>5. \A g \in DOMAIN files' : g \in baselines'
    BY <2>2, <2>3 DEF DiskInv, RecordHasBaseline
  <2> QED BY <1>1, <2>1, <2>2, <2>3, <2>4, <2>5 DEF Lands
<1> QED BY <1>2, <1>3, <1>4

\* What a settled intent leaves, landed or not.
Settled(f) ==
    /\ f \in DOMAIN intents
    /\ intents' = Drop(intents, {f}) /\ writer' = Drop(writer, {f}) /\ disk' = disk
    /\ \/ Landed(f) /\ Lands(f)
       \/ ~Landed(f) /\ UNCHANGED <<files, baselines>>

\* End is told the truth: the records change when the bytes are on disk, and only then.
LEMMA SettleSettles ==
    ASSUME TypeOK, DiskInv, NEW f \in File, Settle(f)
    PROVE  Settled(f)
<1>1. /\ f \in DOMAIN writer /\ f \in DOMAIN intents
      /\ writer' = Drop(writer, {f}) /\ disk' = disk
  BY DEF Settle, DiskInv, DiskTyped, IsTable
<1>2. CASE writer[f] = "finished"
  <2>1. EndDeliver(f, TRUE) \/ EndRetime(f, TRUE) \/ EndDelete(f, TRUE)
    BY <1>2 DEF Settle
  <2>2. Lands(f) /\ intents' = Drop(intents, {f})
    BY <2>1, EndLands DEF Take
  <2>3. Landed(f)
    BY <1>1, <1>2 DEF DiskInv, Judged
  <2> QED BY <1>1, <2>2, <2>3 DEF Settled
<1>3. CASE writer[f] = "failed"
  <2>1. EndDeliver(f, FALSE) \/ EndRetime(f, FALSE) \/ EndDelete(f, FALSE)
    BY <1>3 DEF Settle
  <2>2. UNCHANGED <<files, baselines>> /\ intents' = Drop(intents, {f})
    BY <2>1 DEF EndDeliver, EndRetime, EndDelete, Take, libraryVars
  <2>3. ~Landed(f)
    BY <1>1, <1>3 DEF DiskInv, Judged
  <2> QED BY <1>1, <2>2, <2>3 DEF Settled
<1> QED BY <1>2, <1>3 DEF Settle

\* A settled write keeps the disk's invariant, and ends the effect of that write alone.
LEMMA SettledKeeps ==
    ASSUME TypeOK, DiskInv, NEW f \in File, Settled(f)
    PROVE  /\ DiskInv'
           /\ DOMAIN intents' = DOMAIN intents \ {f}
           /\ \A g \in DOMAIN intents \ {f} : IntentSame(g)
           /\ \A g : Effective(g)' <=> Effective(g) /\ g # f
<1>1. /\ DOMAIN intents' = DOMAIN intents \ {f}
      /\ \A g \in DOMAIN intents \ {f} : intents'[g] = intents[g]
  BY DEF Settled, Drop
<1>2. \A g \in DOMAIN intents \ {f} : IntentSame(g)
  BY <1>1 DEF IntentSame
<1>3. \A g : DiskSame(g)
  BY DEF Settled, DiskSame
<1>4. \A g \in DOMAIN intents \ {f} : (Landed(g)' <=> Landed(g)) /\ (Effective(g)' <=> Effective(g))
  BY <1>2, <1>3, SameIntent
<1>5. \A g : Effective(g)' <=> Effective(g) /\ g # f
  BY <1>1, <1>4 DEF Effective, Pending
<1>6. DiskTyped'
  <2>1. IsTable(writer, DOMAIN intents, Phase) /\ IsTable(disk', File, Content)
    BY DEF DiskInv, DiskTyped, Settled
  <2>2. IsTable(writer', DOMAIN intents', Phase)
    BY <1>1, <2>1 DEF Settled, IsTable, Drop
  <2> QED BY <2>1, <2>2 DEF DiskTyped
<1>7. Judged'
  <2>1. DOMAIN writer' = DOMAIN writer \ {f} /\ \A g \in DOMAIN writer \ {f} : writer'[g] = writer[g]
    BY DEF Settled, Drop
  <2>2. DOMAIN writer \subseteq DOMAIN intents
    BY DEF DiskInv, DiskTyped, IsTable
  <2> QED BY <1>4, <2>1, <2>2 DEF DiskInv, Judged
<1>8. AsPlanned'
  BY <1>1 DEF DiskInv, AsPlanned
<1>9. KeptApart'
  BY <1>1, <1>2, SameIntent DEF DiskInv, KeptApart
<1>10. \A g \in DOMAIN intents : g \in File
  BY DEF TypeOK, IsTable
<1>11. Retimes'
  <2>1. \A g \in DOMAIN intents' : Managed(g) => Managed(g)'
    BY <1>1, <1>10 DEF DiskInv, KeptApart, Settled, Lands, Managed
  <2> QED BY <1>1, <2>1 DEF DiskInv, Retimes
<1>12. RecordHasBaseline'
  BY DEF DiskInv, RecordHasBaseline, Settled, Lands
<1>13. Standing'
  <2>1. \A g \in DOMAIN intents \ {f} : \A x : x \in Superseded(g)' <=> x \in Superseded(g)
    BY <1>2, SameIntent
  <2>2. CASE Landed(f) /\ Lands(f)
    <3>1. ASSUME NEW g \in DOMAIN files', Untaken(g)', g # f
          PROVE  Holding(g, files[g].content)'
      <4>1. g \in File /\ g \in DOMAIN files /\ g \notin Superseded(f) /\ files'[g] = files[g]
        BY <2>2, <3>1 DEF Lands
      <4>2. Untaken(g)
        BY <1>1, <1>5, <2>1, <3>1, <4>1 DEF Untaken
      <4> QED BY <1>3, <3>1, <4>1, <4>2, StillStands DEF DiskInv
    <3>2. ASSUME f \in DOMAIN files'
          PROVE  Holding(f, files[f].content)'
      <4>1. intents[f].op # "delete" /\ files'[f].content = intents[f].content
        BY <2>2, <3>2 DEF Lands
      <4>2. Holding(f, intents[f].content)
        BY <2>2, <4>1 DEF Landed
      <4> QED BY <4>1, <4>2 DEF Holding, Settled
    <3> QED BY <3>1, <3>2 DEF Standing
  <2>3. CASE ~Landed(f) /\ UNCHANGED <<files, baselines>>
    <3>1. ASSUME NEW g \in DOMAIN files', Untaken(g)'
          PROVE  Untaken(g)
      <4>1. ~Effective(f)
        BY <2>3 DEF Effective
      <4> QED BY <1>1, <1>5, <2>1, <3>1, <4>1 DEF Untaken
    <3> QED BY <1>3, <2>3, <3>1, StillStands DEF DiskInv, Standing
  <2> QED BY <2>2, <2>3 DEF Settled
<1>14. DiskInv'
  BY <1>6, <1>7, <1>8, <1>9, <1>11, <1>12, <1>13 DEF DiskInv
<1> QED BY <1>1, <1>2, <1>5, <1>14

---------------------------------------------------------------------------
(* The invariant of the whole                                              *)

\* Each call of Begin is one that Starts describes.
LEMMA DeliveryStarts ==
    ASSUME TypeOK, NEW f \in File, NEW r \in Run, StartDelivery(f, r)
    PROVE  /\ \E in : Starts(f, in) /\ in.op = "deliver" /\ in.run = r
           /\ BeginDeliver(f, r)
<1> DEFINE in == [op |-> "deliver", content |-> Plan[r].content, locked |-> Plan[r].locked,
                  items |-> Plan[r].items, pair |-> Plan[r].pair, removes |-> Plan[r].removes,
                  run |-> r]
<1>1. /\ Apart(f) /\ ~Pending(f) /\ writer' = Put(writer, f, "staged") /\ disk' = disk
      /\ ~Holding(f, Plan[r].content) /\ BeginDeliver(f, r)
      /\ \A m \in Plan[r].removes : ~Pending(<<f[1], m[1]>>)
  BY DEF StartDelivery, Start, Apart
<1>2. intents' = Put(intents, f, in) /\ UNCHANGED <<files, baselines>>
  BY DEF StartDelivery, BeginDeliver, Stage, libraryVars
<1>3. in.op = "deliver" /\ in.content = Plan[r].content /\ in.removes = Plan[r].removes /\ in.run = r
  OBVIOUS
<1> HIDE DEF in
<1>4. intents'[f] = in
  BY <1>2 DEF Put
<1>5. \A g \in DOMAIN intents : g \notin Superseded(f)'
  BY <1>1, <1>3, <1>4 DEF Superseded, Pending
<1>6. ~Landed(f)'
  BY <1>1, <1>3, <1>4 DEF Landed, Holding
<1>7. Starts(f, in)
  BY <1>1, <1>2, <1>3, <1>5, <1>6 DEF Starts
<1> QED BY <1>1, <1>3, <1>7

\* BeginRetime stages a write that has not landed.
LEMMA RetimeStarts ==
    ASSUME TypeOK, NEW f \in File, NEW c \in Content, NEW adopt \in BOOLEAN, StartRetime(f, c, adopt)
    PROVE  \E in : Starts(f, in) /\ in.op # "deliver"
<1> DEFINE in == [op |-> "retime", content |-> c, adopt |-> adopt]
<1>1. /\ Apart(f) /\ ~Pending(f) /\ writer' = Put(writer, f, "staged") /\ disk' = disk
      /\ ~Holding(f, c) /\ Managed(f) # adopt
  BY DEF StartRetime, Start, Apart, BeginRetime
<1>2. intents' = Put(intents, f, in) /\ UNCHANGED <<files, baselines>>
  BY DEF StartRetime, BeginRetime, Stage, libraryVars
<1>3. in.op = "retime" /\ in.content = c /\ in.adopt = adopt
  OBVIOUS
<1> HIDE DEF in
<1>4. intents'[f] = in
  BY <1>2 DEF Put
<1>5. Superseded(f)' = {}
  BY <1>3, <1>4 DEF Superseded
<1>6. ~Landed(f)'
  BY <1>1, <1>3, <1>4 DEF Landed, Holding
<1>7. ~in.adopt => Managed(f)
  <2>1. CASE adopt = TRUE
    BY <1>3, <2>1
  <2>2. CASE adopt = FALSE
    <3>1. BeginRetime(f, c, FALSE)
      BY <2>2 DEF StartRetime
    <3>2. (f \in DOMAIN files) # FALSE
      BY <3>1, Zenon DEF BeginRetime, Managed
    <3>3. f \in DOMAIN files
      <4> SUFFICES ASSUME f \notin DOMAIN files PROVE FALSE
        OBVIOUS
      <4>1. (f \in DOMAIN files) = FALSE
        OBVIOUS
      <4> QED BY <3>2, <4>1
    <3> QED BY <3>3 DEF Managed
  <2> QED BY <2>1, <2>2
<1>8. Starts(f, in)
  BY <1>1, <1>2, <1>3, <1>5, <1>6, <1>7 DEF Starts
<1> QED BY <1>3, <1>8

\* BeginDelete stages a write that has not landed.
LEMMA DeleteStarts ==
    ASSUME TypeOK, NEW f \in File, StartDelete(f)
    PROVE  \E in : Starts(f, in) /\ in.op # "deliver"
<1> DEFINE in == [op |-> "delete"]
<1>1. /\ Apart(f) /\ ~Pending(f) /\ writer' = Put(writer, f, "staged") /\ disk' = disk
      /\ f \in DOMAIN disk
  BY DEF StartDelete, Start, Apart
<1>2. intents' = Put(intents, f, in) /\ UNCHANGED <<files, baselines>>
  BY DEF StartDelete, BeginDelete, Stage, libraryVars
<1>3. in.op = "delete"
  OBVIOUS
<1> HIDE DEF in
<1>4. intents'[f] = in
  BY <1>2 DEF Put
<1>5. Superseded(f)' = {}
  BY <1>3, <1>4 DEF Superseded
<1>6. ~Landed(f)'
  BY <1>1, <1>3, <1>4 DEF Landed
<1>7. Starts(f, in)
  BY <1>1, <1>2, <1>3, <1>5, <1>6 DEF Starts
<1> QED BY <1>3, <1>7

\* A listing of the unmanaged files is well formed.
LEMMA ListKeeps ==
    ASSUME PipeInv, NEW i \in Inst, List(i)
    PROVE  /\ TypeOK' /\ IntentInv' /\ UNCHANGED <<intents, files, baselines, disk, writer, downloads, begun>>
<1> DEFINE names == {n \in Name : <<i, n>> \in DOMAIN disk /\ ~Managed(<<i, n>>) /\ ~Pending(<<i, n>>)}
           set == [n \in names |-> SubOf[disk[<<i, n>>]]]
<1>1. /\ PutExternal(i, set) /\ UNCHANGED <<disk, writer>>
      /\ UNCHANGED <<policy, active, owned, intents, files, baselines, embedded, downloads, begun>>
  BY DEF List, PutExternal, pipelineVars
<1>2. \A f \in DOMAIN disk : disk[f] \in Content
  BY DEF PipeInv, DiskInv, DiskTyped, IsTable
<1>3. set \in [names -> Sub]
  BY <1>2, ContentAssumption
<1>4. set \in UNION {[N -> Sub] : N \in SUBSET Name}
  <2>1. names \in SUBSET Name
    OBVIOUS
  <2> HIDE DEF names, set
  <2> QED BY <1>3, <2>1
<1> HIDE DEF set
<1>5. local' = Put(local, i, set) /\ Recompute(policy, {i}, locks, TRUE)
  BY <1>1 DEF PutExternal
<1>6. IsTable(local', Inst, UNION {[N -> Sub] : N \in SUBSET Name})
  BY <1>4, <1>5, PutIsTable DEF PipeInv, TypeOK
<1>7. /\ coverage' \in [Key -> UNION {[Q -> Coverages] : Q \in SUBSET Pair}]
      /\ locks' \in [Key -> SUBSET Pair]
  <2>1. policy \in Policy /\ {i} \in SUBSET Inst /\ locks \in [Key -> SUBSET Pair] /\ TRUE \in BOOLEAN
        /\ coverage \in [Key -> UNION {[Q -> Coverages] : Q \in SUBSET Pair}]
    BY DEF PipeInv, TypeOK
  <2> QED BY <1>5, <2>1, RecomputeType
<1>8. TypeOK'
  BY <1>1, <1>6, <1>7 DEF PipeInv, TypeOK
<1>9. IntentInv'
  BY <1>1 DEF PipeInv, IntentInv, OneIntentPerRun, OwnItems, LoggedOnce, Staged
<1> QED BY <1>1, <1>8, <1>9

\* The empty store over the empty disk satisfies the invariant.
LEMMA InitPipe == PipelineInit => PipeInv
<1> SUFFICES ASSUME PipelineInit PROVE PipeInv
  OBVIOUS
<1>1. Init /\ disk = EmptyTable /\ writer = EmptyTable
  BY DEF PipelineInit
<1>2. IInv
  BY <1>1, InitInv
<1>3. DOMAIN intents = {} /\ DOMAIN files = {} /\ DOMAIN writer = {}
  BY <1>1 DEF Init, EmptyTable
<1>4. DiskTyped
  BY <1>1, EmptyIsTable DEF DiskTyped
<1>5. DiskInv
  BY <1>3, <1>4 DEF DiskInv, AsPlanned, KeptApart, Judged, Standing, Retimes, RecordHasBaseline
<1> QED BY <1>2, <1>5 DEF PipeInv, IInv, IntentInv

\* What the steps of WriteIntents keep, they keep with a disk.
LEMMA StoreKeeps ==
    ASSUME PipeInv, [Next]_vars
    PROVE  TypeOK' /\ IntentInv'
BY NextType, NextIntent DEF PipeInv

\* Every step of the caller, the user and the process keeps the invariant.
LEMMA StepKeepsDisk ==
    ASSUME PipeInv, [PipelineNext]_allVars
    PROVE  PipeInv'
<1>1. ASSUME NEW f \in File, CallerStep(f)
      PROVE  PipeInv'
  <2>1. ASSUME NEW r \in Run, StartDelivery(f, r)
        PROVE  PipeInv'
    <3>1. Next
      BY <2>1, DeliveryStarts DEF PipeInv, Next, Begin
    <3>2. DiskInv'
      BY <2>1, DeliveryStarts, StartKeeps DEF PipeInv
    <3> QED BY <3>1, <3>2, StoreKeeps DEF PipeInv
  <2>2. ASSUME NEW c \in Content, NEW adopt \in BOOLEAN, StartRetime(f, c, adopt)
        PROVE  PipeInv'
    <3>1. Next
      BY <2>2 DEF StartRetime, Next, Begin
    <3>2. DiskInv'
      BY <2>2, RetimeStarts, StartKeeps DEF PipeInv
    <3> QED BY <3>1, <3>2, StoreKeeps DEF PipeInv
  <2>3. CASE StartDelete(f)
    <3>1. Next
      BY <2>3 DEF StartDelete, Next, Begin
    <3>2. DiskInv'
      BY <2>3, DeleteStarts, StartKeeps DEF PipeInv
    <3> QED BY <3>1, <3>2, StoreKeeps DEF PipeInv
  <2>4. CASE Write(f) \/ Fail(f) \/ Finish(f) \/ Recover(f)
    <3>1. UNCHANGED vars
      BY <2>4 DEF Write, Fail, Finish, Recover, Move
    <3>2. DiskInv'
      BY <2>4, WriteKeeps, FailKeeps, FinishKeeps, RecoverKeeps DEF PipeInv
    <3> QED BY <3>1, <3>2, StoreKeeps DEF PipeInv
  <2>5. CASE Settle(f)
    <3>1. Next
      BY <2>5 DEF Settle, Next, End
    <3>2. DiskInv'
      BY <2>5, SettleSettles, SettledKeeps DEF PipeInv
    <3> QED BY <3>1, <3>2, StoreKeeps DEF PipeInv
  <2> QED BY <1>1, <2>1, <2>2, <2>3, <2>4, <2>5 DEF CallerStep
<1>2. ASSUME NEW f \in File, NEW c \in Content, UserAdds(f, c)
      PROVE  PipeInv'
  <2>1. UNCHANGED vars
    BY <1>2 DEF UserAdds
  <2> QED BY <1>2, <2>1, UserAddsKeeps, StoreKeeps DEF PipeInv
<1>3. ASSUME NEW i \in Inst, List(i)
      PROVE  PipeInv'
  <2>1. TypeOK' /\ IntentInv' /\ UNCHANGED <<intents, files, baselines, disk, writer>>
    BY <1>3, ListKeeps
  <2>2. DiskInv'
    BY <2>1, QuietKeeps DEF PipeInv, DiskInv, DiskTyped, Judged
  <2> QED BY <2>1, <2>2 DEF PipeInv
<1>4. CASE Crash
  <2>1. Next
    BY <1>4 DEF Crash, Next
  <2> QED BY <1>4, <2>1, CrashKeeps, StoreKeeps DEF PipeInv
<1>5. ASSUME NEW p \in Policy, Activate(p, {}), UNCHANGED pipelineVars
      PROVE  PipeInv'
  <2>1. Next
    BY <1>5 DEF Next
  <2>2. UNCHANGED <<intents, files, baselines, disk, writer>>
    BY <1>5 DEF Activate, pipelineVars
  <2>3. DiskInv'
    BY <2>2, QuietKeeps DEF PipeInv, DiskInv, DiskTyped, Judged
  <2> QED BY <2>1, <2>3, StoreKeeps DEF PipeInv
<1>6. CASE UNCHANGED allVars
  <2>1. UNCHANGED vars /\ UNCHANGED <<intents, files, baselines, disk, writer>>
    BY <1>6 DEF allVars, vars
  <2>2. DiskInv'
    BY <2>1, QuietKeeps DEF PipeInv, DiskInv, DiskTyped, Judged
  <2> QED BY <2>1, <2>2, StoreKeeps DEF PipeInv
<1> QED BY <1>1, <1>2, <1>3, <1>4, <1>5, <1>6 DEF PipelineNext

\* In every state of the protocol the records, the pending writes, the caller and the
\* disk agree, whatever crashes and recoveries came before.
THEOREM DiskInvariance == PipelineSpec => []PipeInv
<1>1. PipeInv /\ [PipelineNext]_allVars => PipeInv'
  BY StepKeepsDisk
<1> QED BY <1>1, InitPipe, PTL DEF PipelineSpec

\* With no write pending on its video, no landed write takes a record away.
LEMMA StandsOnDisk == PipeInv => FilesRecorded
<1> SUFFICES ASSUME PipeInv PROVE FilesRecorded
  OBVIOUS
<1>1. ASSUME NEW f \in DOMAIN files, ~Pinned(f[1])
      PROVE  Holding(f, files[f].content)
  <2>1. f \in File
    BY DEF PipeInv, TypeOK, IsTable
  <2>2. ~Effective(f)
    BY <1>1 DEF Effective, Pending, Pinned
  <2>3. ASSUME NEW g \in DOMAIN intents
        PROVE  f \notin Superseded(g)
    <3>1. \A x \in Superseded(g) : x[1] = g[1]
      BY DEF Superseded
    <3> QED BY <1>1, <3>1 DEF Pinned
  <2> QED BY <2>2, <2>3 DEF PipeInv, DiskInv, Standing, Untaken
<1> QED BY <1>1 DEF FilesRecorded, RecordsOnDisk, PipeInv, DiskInv

\* Once no write is pending on a video its records name exactly bytes that are on disk,
\* each with its baseline: a crash at any point loses no delivered file.
THEOREM FilesStayRecorded == PipelineSpec => []FilesRecorded
BY StandsOnDisk, DiskInvariance, PTL

---------------------------------------------------------------------------
(* The library a reader sees                                               *)

\* What the library holds: the files of the writes that landed, and the records
\* that no such write takes away.
ReadingIs ==
    /\ DOMAIN libraryMap = ManagedNow
    /\ libraryMap = [f \in ManagedNow |-> libraryMap[f]]
    /\ \A f \in ManagedNow :
          /\ Effective(f) => libraryMap[f] = intents[f].content
          /\ ~Effective(f) => libraryMap[f] = files[f].content
    /\ \A f : f \in ManagedNow <=>
          f \in File /\ ((Effective(f) /\ intents[f].op # "delete") \/ (Managed(f) /\ Untaken(f)))

\* The library is read as ReadingIs says.
LEMMA Reading == ReadingIs
<1>1. DOMAIN libraryMap = ManagedNow
      /\ libraryMap = [f \in ManagedNow |-> libraryMap[f]]
      /\ \A f \in ManagedNow :
          /\ Effective(f) => libraryMap[f] = intents[f].content
          /\ ~Effective(f) => libraryMap[f] = files[f].content
  BY DEF libraryMap
<1>2. \A f : f \in ManagedNow <=>
          f \in File /\ ((Effective(f) /\ intents[f].op # "delete") \/ (Managed(f) /\ Untaken(f)))
  <2>1. \A f : f \in ManagedNow <=> f \in File /\
          \/ Effective(f) /\ intents[f].op # "delete"
          \/ /\ Managed(f)
             /\ ~(Effective(f) /\ intents[f].op = "delete")
             /\ \A g \in DOMAIN intents : Effective(g) => f \notin Superseded(g)
    BY DEF ManagedNow
  <2> QED BY <2>1 DEF Untaken
<1> QED BY <1>1, <1>2 DEF ReadingIs

\* It is read so before a step and after it.
LEMMA ReadingBefore == ReadingIs /\ ReadingIs'
BY Reading, PTL

\* Two libraries of the same files with the same bytes are equal.
LEMMA SameLibrary ==
    ASSUME \A f : f \in ManagedNow' <=> f \in ManagedNow,
           \A f \in ManagedNow : libraryMap'[f] = libraryMap[f]
    PROVE  libraryMap' = libraryMap
<1>1. ManagedNow' = ManagedNow
  OBVIOUS
<1> QED BY <1>1, ReadingBefore DEF ReadingIs

\* Which records landed writes take away depends on those writes alone.
LEMMA SameUntaken ==
    ASSUME \A g : Effective(g)' <=> Effective(g), \A g : Effective(g) => IntentSame(g)
    PROVE  \A f : Untaken(f)' <=> Untaken(f)
<1>1. \A g : Effective(g) => \A x : x \in Superseded(g)' <=> x \in Superseded(g)
  BY SameIntent
<1>2. \A g : Effective(g) => g \in DOMAIN intents /\ g \in DOMAIN intents'
  BY DEF IntentSame
<1> QED BY <1>1, <1>2 DEF Untaken

\* The records and the landed writes decide what a reader sees.
LEMMA SameReading ==
    ASSUME \A g : Effective(g)' <=> Effective(g), \A g : Effective(g) => IntentSame(g), files' = files
    PROVE  libraryMap' = libraryMap
<1>1. \A f : Untaken(f)' <=> Untaken(f)
  BY SameUntaken
<1>2. \A f : Managed(f)' <=> Managed(f)
  BY DEF Managed
<1>3. \A f : Effective(f) => intents'[f] = intents[f]
  BY DEF IntentSame
<1>4. \A f : f \in ManagedNow' <=> f \in ManagedNow
  BY <1>1, <1>2, <1>3, ReadingBefore DEF ReadingIs
<1>5. \A f \in ManagedNow : libraryMap'[f] = libraryMap[f]
  BY <1>3, <1>4, ReadingBefore DEF ReadingIs
<1> QED BY <1>4, <1>5, SameLibrary


\* Settling a write changes nothing that a reader sees: what landed is read from
\* the record from then on, and what did not was never seen.
LEMMA SettleReads ==
    ASSUME TypeOK, DiskInv, NEW f \in File, Settled(f)
    PROVE  libraryMap' = libraryMap
<1>1. /\ DiskInv'
      /\ DOMAIN intents' = DOMAIN intents \ {f}
      /\ \A g \in DOMAIN intents \ {f} : IntentSame(g)
      /\ \A g : Effective(g)' <=> Effective(g) /\ g # f
      /\ f \in DOMAIN intents
  BY SettledKeeps DEF Settled
<1>2. \A g : Effective(g) => g \in DOMAIN intents
  BY DEF Effective, Pending
<1>3. CASE ~Landed(f)
  <2>1. files' = files /\ ~Effective(f)
    BY <1>3 DEF Settled, Effective
  <2>2. \A g : Effective(g)' <=> Effective(g)
    BY <1>1, <2>1
  <2>3. \A g : Effective(g) => IntentSame(g)
    BY <1>1, <1>2, <2>1
  <2> QED BY <2>1, <2>2, <2>3, SameReading
<1>4. CASE Landed(f)
  <2>1. Lands(f) /\ Effective(f) /\ ~Effective(f)'
    BY <1>1, <1>4 DEF Settled, Effective, Pending
  <2>2. \A h \in DOMAIN intents : f \notin Superseded(h)
    BY <1>1 DEF DiskInv, KeptApart
  <2>3. \A h \in DOMAIN intents \ {f} : \A x : x \in Superseded(h)' <=> x \in Superseded(h)
    BY <1>1, SameIntent
  <2>4. Untaken(f)' /\ ~Untaken(f)
    BY <1>1, <2>1, <2>2, <2>3 DEF Untaken
  <2>5. ASSUME NEW g \in File, g # f
        PROVE  /\ Untaken(g) <=> Untaken(g)' /\ g \notin Superseded(f)
               /\ Managed(g)' <=> Managed(g) /\ g \notin Superseded(f)
               /\ Effective(g) => intents'[g] = intents[g]
               /\ Managed(g)' => files'[g] = files[g]
    <3>1. Untaken(g) <=> Untaken(g)' /\ g \notin Superseded(f)
      BY <1>1, <2>1, <2>3, <2>5 DEF Untaken
    <3>2. Managed(g)' <=> Managed(g) /\ g \notin Superseded(f)
      BY <2>1, <2>5 DEF Lands, Managed
    <3>3. Effective(g) => intents'[g] = intents[g]
      BY <1>1, <1>2, <2>5 DEF IntentSame
    <3>4. Managed(g)' => files'[g] = files[g]
      BY <2>1, <2>5 DEF Lands, Managed
    <3> QED BY <3>1, <3>2, <3>3, <3>4
  <2>6. f \in ManagedNow' <=> f \in ManagedNow
    <3>1. Managed(f)' <=> intents[f].op # "delete"
      BY <2>1 DEF Lands, Managed
    <3> QED BY <2>1, <2>4, <3>1, ReadingBefore DEF ReadingIs
  <2>7. f \in ManagedNow => libraryMap'[f] = libraryMap[f]
    <3>1. f \in ManagedNow => intents[f].op # "delete"
      BY <2>1, <2>4, ReadingBefore DEF ReadingIs
    <3>2. f \in ManagedNow => libraryMap[f] = intents[f].content
      BY <2>1, ReadingBefore DEF ReadingIs
    <3>3. f \in ManagedNow => libraryMap'[f] = files'[f].content
      BY <2>1, <2>6, ReadingBefore DEF ReadingIs
    <3> QED BY <2>1, <3>1, <3>2, <3>3 DEF Lands
  <2>8. ASSUME NEW g, g # f
        PROVE  g \in ManagedNow' <=> g \in ManagedNow
    <3>1. CASE g \notin File
      BY <3>1, ReadingBefore DEF ReadingIs
    <3>2. CASE g \in File /\ Effective(g)
      <4>1. Effective(g)' /\ intents'[g] = intents[g] /\ ~Untaken(g) /\ ~Untaken(g)'
        BY <1>1, <2>5, <2>8, <3>2 DEF Untaken
      <4> QED BY <3>2, <4>1, ReadingBefore DEF ReadingIs
    <3>3. CASE g \in File /\ ~Effective(g)
      <4>1. ~Effective(g)'
        BY <1>1, <3>3
      <4> QED BY <2>5, <2>8, <3>3, <4>1, ReadingBefore DEF ReadingIs
    <3> QED BY <3>1, <3>2, <3>3
  <2>9. ASSUME NEW g \in ManagedNow, g # f
        PROVE  libraryMap'[g] = libraryMap[g]
    <3>1. g \in File /\ g \in ManagedNow'
      BY <2>8, <2>9, ReadingBefore DEF ReadingIs
    <3>2. CASE Effective(g)
      <4>1. Effective(g)' /\ intents'[g] = intents[g]
        BY <1>1, <2>5, <2>9, <3>1, <3>2
      <4> QED BY <3>1, <3>2, <4>1, ReadingBefore DEF ReadingIs
    <3>3. CASE ~Effective(g)
      <4>1. ~Effective(g)'
        BY <1>1, <3>3
      <4>2. Managed(g)'
        BY <3>1, <4>1, ReadingBefore DEF ReadingIs
      <4> QED BY <2>5, <2>9, <3>1, <3>3, <4>1, <4>2, ReadingBefore DEF ReadingIs
    <3> QED BY <3>2, <3>3
  <2> QED BY <2>6, <2>7, <2>8, <2>9, SameLibrary
<1> QED BY <1>3, <1>4

\* The disk write changes the library a reader sees, in one step: the file it
\* writes or removes, and the ones it supersedes.
LEMMA WriteReads ==
    ASSUME TypeOK, DiskInv, NEW f \in File, Write(f)
    PROVE  /\ f \in ManagedNow' <=> intents[f].op # "delete"
           /\ f \in ManagedNow' => libraryMap'[f] = intents[f].content
           /\ f \in ManagedNow <=> Managed(f)
           /\ f \in ManagedNow => ~Landed(f) /\ Holding(f, libraryMap[f])
           /\ \A g : g # f => (g \in ManagedNow' <=> g \in ManagedNow /\ g \notin Superseded(f))
           /\ \A g \in ManagedNow' : g # f => libraryMap'[g] = libraryMap[g]
<1>1. /\ f \in DOMAIN intents /\ ~Effective(f) /\ Effective(f)'
      /\ \A g \in DOMAIN intents \ {f} : Effective(g)' <=> Effective(g)
      /\ \A g \in DOMAIN intents : IntentSame(g)
      /\ UNCHANGED <<intents, files, baselines>>
  BY WriteKeeps
<1>2. \A g : g # f => (Effective(g)' <=> Effective(g))
  BY <1>1 DEF Effective, Pending
<1>3. \A g, h \in DOMAIN intents : g \notin Superseded(h)
  BY DEF DiskInv, KeptApart
<1>4. \A h \in DOMAIN intents : \A x : x \in Superseded(h)' <=> x \in Superseded(h)
  BY <1>1, SameIntent
<1>5. Untaken(f) /\ ~Untaken(f)'
  BY <1>1, <1>3 DEF Untaken
<1>6. \A g : g # f => (Untaken(g)' <=> Untaken(g) /\ g \notin Superseded(f))
  BY <1>1, <1>2, <1>4 DEF Untaken
<1>7. f \in ManagedNow' <=> intents[f].op # "delete"
  BY <1>1, <1>5, ReadingBefore DEF ReadingIs
<1>8. f \in ManagedNow' => libraryMap'[f] = intents[f].content
  BY <1>1, ReadingBefore DEF ReadingIs
<1>9. f \in ManagedNow <=> Managed(f)
  BY <1>1, <1>5, ReadingBefore DEF ReadingIs
<1>10. f \in ManagedNow => ~Landed(f) /\ Holding(f, libraryMap[f])
  <2>1. f \in ManagedNow => libraryMap[f] = files[f].content /\ f \in DOMAIN files
    BY <1>1, <1>9, ReadingBefore DEF ReadingIs, Managed
  <2>2. f \in DOMAIN files => Holding(f, files[f].content)
    BY <1>5 DEF DiskInv, Standing
  <2> QED BY <1>1, <2>1, <2>2 DEF Effective, Pending
<1>11. \A g : Managed(g)' <=> Managed(g)
  BY <1>1 DEF Managed
<1>12. ASSUME NEW g, g # f
       PROVE  g \in ManagedNow' <=> g \in ManagedNow /\ g \notin Superseded(f)
  <2>1. CASE Effective(g)
    <3>1. Effective(g)' /\ g \in DOMAIN intents /\ ~Untaken(g) /\ ~Untaken(g)'
      BY <1>2, <1>12, <2>1 DEF Untaken, Effective, Pending
    <3>2. g \notin Superseded(f)
      BY <1>1, <1>3, <3>1
    <3> QED BY <1>1, <2>1, <3>1, <3>2, ReadingBefore DEF ReadingIs
  <2>2. CASE ~Effective(g)
    <3>1. ~Effective(g)'
      BY <1>2, <1>12, <2>2
    <3> QED BY <1>6, <1>11, <1>12, <2>2, <3>1, ReadingBefore DEF ReadingIs
  <2> QED BY <2>1, <2>2
<1>13. ASSUME NEW g \in ManagedNow', g # f
       PROVE  libraryMap'[g] = libraryMap[g]
  <2>1. g \in ManagedNow /\ (Effective(g)' <=> Effective(g))
    BY <1>2, <1>12, <1>13
  <2> QED BY <1>1, <2>1, ReadingBefore DEF ReadingIs
<1> QED BY <1>7, <1>8, <1>9, <1>10, <1>12, <1>13


\* The library after the disk write of a delivery.
LEMMA DeliveryReads ==
    ASSUME TypeOK, DiskInv, NEW f \in File, Write(f), intents[f].op = "deliver"
    PROVE  \E N \in SUBSET Name :
              libraryMap' = Put(Drop(libraryMap, {<<f[1], n>> : n \in N}), f, intents[f].content)
<1> DEFINE N == {m[1] : m \in intents[f].removes} \ {f[2]}
           S == {<<f[1], n>> : n \in N}
<1>1. f \in DOMAIN intents
  BY WriteKeeps
<1>2. N \in SUBSET Name
  <2>1. intents[f] \in Intent
    BY <1>1 DEF TypeOK, IsTable
  <2>2. intents[f] \in Delivery
    BY <2>1 DEF Intent, Retiming, Deletion
  <2> QED BY <2>2 DEF Delivery
<1>3. f = <<f[1], f[2]>>
  BY DEF File
<1>4. \A g : g \in S <=> g \in Superseded(f)
  BY <1>3 DEF Superseded
<1>5. /\ f \in ManagedNow' /\ libraryMap'[f] = intents[f].content
      /\ \A g : g # f => (g \in ManagedNow' <=> g \in ManagedNow /\ g \notin Superseded(f))
      /\ \A g \in ManagedNow' : g # f => libraryMap'[g] = libraryMap[g]
  BY WriteReads
<1> HIDE DEF N, S
<1>6. libraryMap' = Put(Drop(libraryMap, S), f, intents[f].content)
  <2>1. DOMAIN Drop(libraryMap, S) = ManagedNow \ S
        /\ \A g \in ManagedNow \ S : Drop(libraryMap, S)[g] = libraryMap[g]
    BY ReadingBefore DEF ReadingIs, Drop
  <2>2. ManagedNow' = (ManagedNow \ S) \union {f}
    BY <1>4, <1>5
  <2>3. libraryMap' = [g \in ManagedNow' |-> libraryMap'[g]]
    BY ReadingBefore DEF ReadingIs
  <2>4. libraryMap' = [g \in (ManagedNow \ S) \union {f} |->
                         IF g = f THEN intents[f].content ELSE Drop(libraryMap, S)[g]]
    BY <1>5, <2>1, <2>2, <2>3
  <2> QED BY <2>1, <2>4 DEF Put
<1> QED BY <1>2, <1>6 DEF S

\* The library after the disk write of a retime.
LEMMA RetimeReads ==
    ASSUME TypeOK, DiskInv, NEW f \in File, Write(f), intents[f].op = "retime"
    PROVE  libraryMap' = Put(libraryMap, f, intents[f].content)
<1>1. Superseded(f) = {}
  BY DEF Superseded
<1>2. /\ f \in ManagedNow' /\ libraryMap'[f] = intents[f].content
      /\ \A g : g # f => (g \in ManagedNow' <=> g \in ManagedNow)
      /\ \A g \in ManagedNow' : g # f => libraryMap'[g] = libraryMap[g]
  BY <1>1, WriteReads
<1>3. ManagedNow' = ManagedNow \union {f}
  BY <1>2
<1>4. libraryMap' = [g \in ManagedNow' |-> libraryMap'[g]] /\ DOMAIN libraryMap = ManagedNow
  BY ReadingBefore DEF ReadingIs
<1> QED BY <1>2, <1>3, <1>4 DEF Put

\* The library after the disk write of a deletion.
LEMMA DeletionReads ==
    ASSUME TypeOK, DiskInv, NEW f \in File, Write(f), intents[f].op = "delete"
    PROVE  libraryMap' = Drop(libraryMap, {f})
<1>1. Superseded(f) = {}
  BY DEF Superseded
<1>2. /\ f \notin ManagedNow'
      /\ \A g : g # f => (g \in ManagedNow' <=> g \in ManagedNow)
      /\ \A g \in ManagedNow' : g # f => libraryMap'[g] = libraryMap[g]
  BY <1>1, WriteReads
<1>3. ManagedNow' = ManagedNow \ {f}
  BY <1>2
<1>4. libraryMap' = [g \in ManagedNow' |-> libraryMap'[g]] /\ DOMAIN libraryMap = ManagedNow
  BY ReadingBefore DEF ReadingIs
<1> QED BY <1>2, <1>3, <1>4 DEF Drop

---------------------------------------------------------------------------
(* What became of each attempt                                             *)

\* A delivery of run r has landed on the disk and is not settled yet.
EffRun(r) == \E f \in DOMAIN intents :
                intents[f].op = "deliver" /\ intents[f].run = r /\ Effective(f)

\* The outcome of each run, from the log and the landed deliveries.
OutcomeIs ==
    /\ outcomeMap = [r \in Run |-> outcomeMap[r]]
    /\ \A r \in Run :
          /\ r \notin begun => outcomeMap[r] = "idle"
          /\ r \in begun /\ downloads[<<r, "undelivered">>] > 0 => outcomeMap[r] = "undelivered"
          /\ r \in begun /\ ~(downloads[<<r, "undelivered">>] > 0)
                /\ (downloads[<<r, "delivered">>] > 0 \/ EffRun(r)) => outcomeMap[r] = "delivered"
          /\ r \in begun /\ ~(downloads[<<r, "undelivered">>] > 0)
                /\ ~(downloads[<<r, "delivered">>] > 0) /\ ~EffRun(r) => outcomeMap[r] = "offered"

\* The outcomes are read as OutcomeIs says.
LEMMA OutcomeRead == OutcomeIs
<1>1. outcomeMap = [r \in Run |-> outcomeMap[r]]
  BY DEF outcomeMap
<1>2. \A r \in Run : outcomeMap[r] =
        IF r \notin begun THEN "idle"
        ELSE IF downloads[<<r, "undelivered">>] > 0 THEN "undelivered"
        ELSE IF downloads[<<r, "delivered">>] > 0 \/ EffRun(r) THEN "delivered" ELSE "offered"
  BY DEF outcomeMap, EffRun
<1> QED BY <1>1, <1>2 DEF OutcomeIs

\* They are read so before a step and after it.
LEMMA OutcomeBefore == OutcomeIs /\ OutcomeIs'
BY OutcomeRead, PTL

\* The outcome of a run that nothing was logged of, begun and landed alike.
OutcomeSame(r) ==
    /\ r \in begun' <=> r \in begun
    /\ downloads'[<<r, "undelivered">>] = downloads[<<r, "undelivered">>]
    /\ downloads'[<<r, "delivered">>] = downloads[<<r, "delivered">>]
    /\ EffRun(r)' <=> EffRun(r)

\* A run whose log and landing stay has the outcome it had.
LEMMA KeptOutcome ==
    ASSUME NEW r \in Run, OutcomeSame(r)
    PROVE  outcomeMap'[r] = outcomeMap[r]
BY OutcomeBefore DEF OutcomeIs, OutcomeSame

\* When that holds of every run, no outcome changes.
LEMMA SameOutcome ==
    ASSUME \A r \in Run : OutcomeSame(r)
    PROVE  outcomeMap' = outcomeMap
<1>1. \A r \in Run : outcomeMap'[r] = outcomeMap[r]
  BY KeptOutcome
<1> QED BY <1>1, OutcomeBefore DEF OutcomeIs

\* When it holds of every run but one, that one's outcome changes alone.
LEMMA OneOutcome ==
    ASSUME NEW r \in Run, NEW v, \A s \in Run \ {r} : OutcomeSame(s), outcomeMap'[r] = v
    PROVE  outcomeMap' = [outcomeMap EXCEPT ![r] = v]
<1>1. \A s \in Run \ {r} : outcomeMap'[s] = outcomeMap[s]
  BY KeptOutcome
<1> QED BY <1>1, OutcomeBefore DEF OutcomeIs


\* Nothing is logged of a run before its delivery is settled.
LEMMA NotLogged ==
    ASSUME TypeOK, IntentInv, NEW r \in Run, r \notin begun \/ Staged(r)
    PROVE  downloads[<<r, "undelivered">>] = 0 /\ downloads[<<r, "delivered">>] = 0
<1>1. downloads[<<r, "undelivered">>] \in Nat /\ downloads[<<r, "delivered">>] \in Nat
  <2>1. <<r, "undelivered">> \in Run \X Outcome /\ <<r, "delivered">> \in Run \X Outcome
    BY DEF Outcome
  <2> QED BY <2>1 DEF TypeOK
<1>2. downloads[<<r, "delivered">>] + downloads[<<r, "undelivered">>] = 0
  BY DEF IntentInv, LoggedOnce
<1> QED BY <1>1, <1>2

\* The run of a delivery that landed is one whose delivery is staged.
LEMMA EffStaged ==
    ASSUME IntentInv, NEW r, EffRun(r)
    PROVE  Staged(r) /\ r \in begun
BY DEF EffRun, Staged, IntentInv, OneIntentPerRun

\* Writes that land and are settled alike leave every run's landing as it was.
LEMMA SameEffRun ==
    ASSUME \A g : Effective(g)' <=> Effective(g), \A g : Effective(g) => IntentSame(g), NEW r
    PROVE  EffRun(r)' <=> EffRun(r)
BY DEF EffRun, IntentSame

\* A step that settles nothing and writes nothing is not seen in the library.
LEMMA Unseen ==
    ASSUME \A g : Effective(g)' <=> Effective(g), \A g : Effective(g) => IntentSame(g),
           UNCHANGED <<files, begun, downloads>>
    PROVE  UNCHANGED <<libraryMap, outcomeMap>>
<1>1. \A r \in Run : OutcomeSame(r)
  BY SameEffRun DEF OutcomeSame
<1> QED BY <1>1, SameReading, SameOutcome

\* A staged delivery offers its run's attempt.
LEMMA DeliveryOffers ==
    ASSUME TypeOK, IntentInv, NEW f \in File, NEW r \in Run, StartDelivery(f, r)
    PROVE  Promise!Offer(r)
<1>1. PICK in : Starts(f, in)
  BY DeliveryStarts
<1>2. /\ \A g \in DOMAIN intents : IntentSame(g)
      /\ \A g : Effective(g)' <=> Effective(g)
  BY <1>1, StartsQuietly
<1>3. \A g : Effective(g) => IntentSame(g)
  BY <1>2 DEF Effective, Pending
<1>4. r \notin begun /\ begun' = begun \union {r} /\ downloads' = downloads /\ files' = files
  BY DEF StartDelivery, BeginDeliver, Stage, libraryVars
<1>5. \A s \in Run : EffRun(s)' <=> EffRun(s)
  BY <1>2, <1>3, SameEffRun
<1>6. \A s \in Run \ {r} : OutcomeSame(s)
  BY <1>4, <1>5 DEF OutcomeSame
<1>7. ~EffRun(r) /\ ~EffRun(r)'
  BY <1>4, <1>5, EffStaged
<1>8. outcomeMap[r] = "idle"
  BY <1>4, OutcomeBefore DEF OutcomeIs
<1>9. outcomeMap'[r] = "offered"
  <2>1. ~(downloads'[<<r, "undelivered">>] > 0) /\ ~(downloads'[<<r, "delivered">>] > 0)
    BY <1>4, NotLogged
  <2>2. r \in begun'
    BY <1>4
  <2> QED BY <1>7, <2>1, <2>2, OutcomeBefore DEF OutcomeIs
<1>10. libraryMap' = libraryMap
  BY <1>2, <1>3, <1>4, SameReading
<1>11. outcomeMap' = [outcomeMap EXCEPT ![r] = "offered"]
  BY <1>6, <1>9, OneOutcome
<1> QED BY <1>8, <1>10, <1>11 DEF Promise!Offer

\* A staged retime or deletion is not seen.
LEMMA OthersUnseen ==
    ASSUME TypeOK, NEW f \in File, StartDelete(f) \/ \E c \in Content, adopt \in BOOLEAN : StartRetime(f, c, adopt)
    PROVE  UNCHANGED <<libraryMap, outcomeMap>>
<1>1. PICK in : Starts(f, in)
  BY RetimeStarts, DeleteStarts
<1>2. /\ \A g \in DOMAIN intents : IntentSame(g)
      /\ \A g : Effective(g)' <=> Effective(g)
  BY <1>1, StartsQuietly
<1>3. \A g : Effective(g) => IntentSame(g)
  BY <1>2 DEF Effective, Pending
<1>4. UNCHANGED <<files, begun, downloads>>
  BY DEF StartDelete, StartRetime, BeginRetime, BeginDelete, Stage, libraryVars
<1> QED BY <1>2, <1>3, <1>4, Unseen

\* The landing of a delivery, seen by its run alone.
LEMMA WriteOutcomes ==
    ASSUME TypeOK, IntentInv, DiskInv, NEW f \in File, Write(f)
    PROVE  /\ intents[f].op # "deliver" => outcomeMap' = outcomeMap
           /\ intents[f].op = "deliver" =>
                /\ intents[f].run \in Run
                /\ outcomeMap[intents[f].run] = "offered"
                /\ outcomeMap' = [outcomeMap EXCEPT ![intents[f].run] = "delivered"]
<1>1. /\ f \in DOMAIN intents /\ ~Effective(f) /\ Effective(f)'
      /\ \A g \in DOMAIN intents \ {f} : Effective(g)' <=> Effective(g)
      /\ intents' = intents /\ begun' = begun /\ downloads' = downloads
  BY WriteKeeps DEF Write, Move, vars
<1>2. CASE intents[f].op # "deliver"
  <2>1. \A r \in Run : EffRun(r)' <=> EffRun(r)
    BY <1>1, <1>2 DEF EffRun
  <2> QED BY <1>1, <1>2, <2>1, SameOutcome DEF OutcomeSame
<1>3. CASE intents[f].op = "deliver"
  <2>1. PICK r : r = intents[f].run
    OBVIOUS
  <2>2. r \in begun /\ r \in Run /\ Staged(r)
    BY <1>1, <1>3, <2>1 DEF IntentInv, OneIntentPerRun, TypeOK, Staged
  <2>3. \A g \in DOMAIN intents : intents[g].op = "deliver" /\ intents[g].run = r => g = f
    BY <1>1, <1>3, <2>1 DEF IntentInv, OneIntentPerRun
  <2>4. ~EffRun(r) /\ EffRun(r)'
    BY <1>1, <1>3, <2>1, <2>3 DEF EffRun
  <2>5. \A s \in Run \ {r} : EffRun(s)' <=> EffRun(s)
    BY <1>1, <1>3, <2>1 DEF EffRun
  <2>6. \A s \in Run \ {r} : OutcomeSame(s)
    BY <1>1, <2>5 DEF OutcomeSame
  <2>7. ~(downloads[<<r, "undelivered">>] > 0) /\ ~(downloads[<<r, "delivered">>] > 0)
    BY <2>2, NotLogged
  <2>8. outcomeMap[r] = "offered"
    BY <2>2, <2>4, <2>7, OutcomeBefore DEF OutcomeIs
  <2>9. outcomeMap'[r] = "delivered"
    BY <1>1, <2>2, <2>4, <2>7, OutcomeBefore DEF OutcomeIs
  <2>10. outcomeMap' = [outcomeMap EXCEPT ![r] = "delivered"]
    BY <2>2, <2>6, <2>9, OneOutcome
  <2> QED BY <1>3, <2>1, <2>2, <2>8, <2>10
<1> QED BY <1>2, <1>3


\* Logging an outcome of a run changes the log at that entry alone.
LEMMA LogEntries ==
    ASSUME TypeOK, NEW r \in Run, NEW d \in Outcome, downloads' = Log(r, d)
    PROVE  /\ downloads'[<<r, d>>] = downloads[<<r, d>>] + 1
           /\ \A s \in Run, e \in Outcome : s # r \/ e # d => downloads'[<<s, e>>] = downloads[<<s, e>>]
<1>1. <<r, d>> \in Run \X Outcome
  OBVIOUS
<1>2. \A s \in Run, e \in Outcome : <<s, e>> \in Run \X Outcome /\ (s # r \/ e # d => <<s, e>> # <<r, d>>)
  OBVIOUS
<1> QED BY <1>1, <1>2 DEF Log, TypeOK

\* Settling a delivery that did not land refuses its attempt; settling any other
\* write changes no outcome.
LEMMA SettleOutcomes ==
    ASSUME TypeOK, IntentInv, DiskInv, NEW f \in File, Settle(f)
    PROVE  outcomeMap' = outcomeMap \/
           \E r \in Run : outcomeMap[r] = "offered" /\ outcomeMap' = [outcomeMap EXCEPT ![r] = "undelivered"]
<1>1. Settled(f)
  BY SettleSettles
<1>2. /\ DOMAIN intents' = DOMAIN intents \ {f}
      /\ \A g \in DOMAIN intents \ {f} : intents'[g] = intents[g]
      /\ \A g : Effective(g)' <=> Effective(g) /\ g # f
      /\ f \in DOMAIN intents
  BY <1>1, SettledKeeps DEF Settled, IntentSame
<1>3. begun' = begun
  BY DEF Settle, EndDeliver, EndRetime, EndDelete
<1>4. CASE intents[f].op # "deliver"
  <2>1. downloads' = downloads
    BY <1>4 DEF Settle, EndDeliver, EndRetime, EndDelete, Take
  <2>2. \A r : EffRun(r)' <=> EffRun(r)
    BY <1>2, <1>4 DEF EffRun
  <2>3. \A r \in Run : OutcomeSame(r)
    BY <1>3, <2>1, <2>2 DEF OutcomeSame
  <2> QED BY <2>3, SameOutcome
<1>5. CASE intents[f].op = "deliver"
  <2>1. PICK r : r = intents[f].run
    OBVIOUS
  <2>2. r \in begun /\ r \in Run /\ Staged(r)
    BY <1>2, <1>5, <2>1 DEF IntentInv, OneIntentPerRun, TypeOK, Staged
  <2>3. \A g \in DOMAIN intents : intents[g].op = "deliver" /\ intents[g].run = r => g = f
    BY <1>2, <1>5, <2>1 DEF IntentInv, OneIntentPerRun
  <2>4. ~EffRun(r)' /\ (EffRun(r) <=> Effective(f))
    BY <1>2, <1>5, <2>1, <2>3 DEF EffRun
  <2>5. \A s \in Run \ {r} : EffRun(s)' <=> EffRun(s)
    BY <1>2, <2>1 DEF EffRun
  <2>6. downloads[<<r, "undelivered">>] = 0 /\ downloads[<<r, "delivered">>] = 0
    BY <2>2, NotLogged
  <2>7. ASSUME NEW d \in Outcome, downloads' = Log(r, d)
        PROVE  /\ \A s \in Run \ {r} : OutcomeSame(s)
               /\ downloads'[<<r, d>>] = downloads[<<r, d>>] + 1
               /\ \A e \in Outcome : e # d => downloads'[<<r, e>>] = downloads[<<r, e>>]
    <3>1. /\ downloads'[<<r, d>>] = downloads[<<r, d>>] + 1
          /\ \A s \in Run, e \in Outcome : s # r \/ e # d => downloads'[<<s, e>>] = downloads[<<s, e>>]
      BY <2>2, <2>7, LogEntries
    <3>2. \A s \in Run \ {r} : OutcomeSame(s)
      BY <1>3, <2>5, <3>1 DEF OutcomeSame, Outcome
    <3> QED BY <2>2, <3>1, <3>2
  <2>8. CASE writer[f] = "finished"
    <3>1. downloads' = Log(r, "delivered") /\ Effective(f)
      <4>1. EndDeliver(f, TRUE)
        BY <1>5, <2>8 DEF Settle, EndRetime, EndDelete, Take
      <4>2. downloads' = Log(r, "delivered")
        BY <2>1, <4>1 DEF EndDeliver, DeliverLanded
      <4>3. Landed(f)
        BY <2>8 DEF Settle, DiskInv, Judged
      <4> QED BY <1>2, <4>2, <4>3 DEF Effective, Pending
    <3>2. downloads'[<<r, "delivered">>] = 1 /\ downloads'[<<r, "undelivered">>] = 0
      BY <2>6, <2>7, <3>1 DEF Outcome
    <3>3. outcomeMap'[r] = "delivered" /\ outcomeMap[r] = "delivered"
      BY <1>3, <2>2, <2>4, <2>6, <3>1, <3>2, OutcomeBefore DEF OutcomeIs
    <3>4. outcomeMap' = [outcomeMap EXCEPT ![r] = "delivered"]
      BY <2>2, <2>7, <3>1, <3>3, OneOutcome DEF Outcome
    <3>5. outcomeMap' = outcomeMap
      BY <2>2, <3>3, <3>4, OutcomeBefore DEF OutcomeIs
    <3> QED BY <3>5
  <2>9. CASE writer[f] = "failed"
    <3>1. downloads' = Log(r, "undelivered") /\ ~Effective(f)
      <4>1. EndDeliver(f, FALSE)
        BY <1>5, <2>9 DEF Settle, EndRetime, EndDelete, Take
      <4>2. downloads' = Log(r, "undelivered")
        BY <2>1, <4>1 DEF EndDeliver
      <4>3. ~Landed(f)
        BY <2>9 DEF Settle, DiskInv, Judged
      <4> QED BY <4>2, <4>3 DEF Effective
    <3>2. downloads'[<<r, "undelivered">>] = 1 /\ downloads'[<<r, "undelivered">>] > 0
      BY <2>6, <2>7, <3>1 DEF Outcome
    <3>3. outcomeMap[r] = "offered"
      BY <2>2, <2>4, <2>6, <3>1, OutcomeBefore DEF OutcomeIs
    <3>4. outcomeMap'[r] = "undelivered"
      BY <1>3, <2>2, <3>2, OutcomeBefore DEF OutcomeIs
    <3>5. outcomeMap' = [outcomeMap EXCEPT ![r] = "undelivered"]
      BY <2>2, <2>7, <3>1, <3>4, OneOutcome DEF Outcome
    <3> QED BY <2>2, <3>3, <3>5
  <2> QED BY <2>8, <2>9 DEF Settle
<1> QED BY <1>4, <1>5

---------------------------------------------------------------------------
(* The library is implemented                                              *)

\* What the disk write is to a reader: one step of the library.
LEMMA WriteImplements ==
    ASSUME PipeInv, NEW f \in File, Write(f)
    PROVE  Promise!Next \/ UNCHANGED <<libraryMap, outcomeMap>>
<1>1. TypeOK /\ IntentInv /\ DiskInv /\ f \in DOMAIN intents
  BY WriteKeeps DEF PipeInv
<1>2. f \in Promise!File
  BY DEF File, Promise!File
<1>3. intents[f] \in Intent
  BY <1>1 DEF TypeOK, IsTable
<1>4. CASE intents[f].op = "deliver"
  <2>1. PICK r : r = intents[f].run
    OBVIOUS
  <2>2. r \in Run /\ outcomeMap[r] = "offered" /\ outcomeMap' = [outcomeMap EXCEPT ![r] = "delivered"]
    BY <1>1, <1>4, <2>1, WriteOutcomes
  <2>3. PICK c : c = intents[f].content
    OBVIOUS
  <2>4. PICK N \in SUBSET Name : libraryMap' = Put(Drop(libraryMap, {<<f[1], n>> : n \in N}), f, c)
    BY <1>1, <1>4, <2>3, DeliveryReads
  <2>5. c = wantedMap[r]
    BY <1>1, <1>4, <2>1, <2>2, <2>3 DEF DiskInv, AsPlanned, wantedMap
  <2>6. f \in DOMAIN libraryMap => libraryMap[f] # c
    <3>1. f \in DOMAIN libraryMap => f \in ManagedNow
      BY ReadingBefore DEF ReadingIs
    <3> QED BY <1>1, <1>4, <2>3, <3>1, WriteReads DEF Landed, Holding
  <2>7. Promise!Deliver(r, f, N)
    BY <2>2, <2>4, <2>5, <2>6 DEF Promise!Deliver, Put, Drop, Promise!Put, Promise!Drop
  <2> QED BY <1>2, <2>2, <2>4, <2>7 DEF Promise!Next
<1>5. CASE intents[f].op = "retime"
  <2>1. PICK c : c = intents[f].content
    OBVIOUS
  <2>2. c \in Content
    BY <1>3, <1>5, <2>1 DEF Intent, Delivery, Retiming, Deletion
  <2>3. libraryMap' = Put(libraryMap, f, c) /\ outcomeMap' = outcomeMap
    BY <1>1, <1>5, <2>1, RetimeReads, WriteOutcomes
  <2>4. Promise!Rewrite(f, c)
    BY <2>3 DEF Promise!Rewrite, Put, Promise!Put
  <2> QED BY <1>2, <2>2, <2>4 DEF Promise!Next
<1>6. CASE intents[f].op = "delete"
  <2>1. libraryMap' = Drop(libraryMap, {f}) /\ outcomeMap' = outcomeMap
    BY <1>1, <1>6, DeletionReads, WriteOutcomes
  <2>2. CASE f \in DOMAIN libraryMap
    <3>1. Promise!Delete(f)
      BY <2>1, <2>2 DEF Promise!Delete, Drop, Promise!Drop
    <3> QED BY <1>2, <3>1 DEF Promise!Next
  <2>3. CASE f \notin DOMAIN libraryMap
    <3>1. libraryMap' = libraryMap
      BY <2>1, <2>3, ReadingBefore DEF ReadingIs, Drop
    <3> QED BY <2>1, <3>1
  <2> QED BY <2>2, <2>3
<1> QED BY <1>3, <1>4, <1>5, <1>6 DEF Intent, Delivery, Retiming, Deletion


\* A step that changes no record, intent, log or byte on the disk is not seen.
LEMMA QuietUnseen ==
    ASSUME UNCHANGED <<intents, files, disk, begun, downloads>>
    PROVE  UNCHANGED <<libraryMap, outcomeMap>>
<1>1. \A g : DiskSame(g)
  BY DEF DiskSame
<1>2. \A g \in DOMAIN intents : IntentSame(g)
  BY DEF IntentSame
<1>3. \A g \in DOMAIN intents : Effective(g)' <=> Effective(g)
  BY <1>1, <1>2, SameIntent
<1>4. \A g : Effective(g)' <=> Effective(g)
  BY <1>3 DEF Effective, Pending
<1>5. \A g : Effective(g) => IntentSame(g)
  BY <1>2 DEF Effective, Pending
<1> QED BY <1>4, <1>5, Unseen

\* Every step over the disk is a step of the library, or is not seen.
LEMMA StepImplements ==
    ASSUME PipeInv, [PipelineNext]_allVars
    PROVE  Promise!Next \/ UNCHANGED <<libraryMap, outcomeMap>>
<1>0. TypeOK /\ IntentInv /\ DiskInv
  BY DEF PipeInv
<1>1. ASSUME NEW f \in File, CallerStep(f)
      PROVE  Promise!Next \/ UNCHANGED <<libraryMap, outcomeMap>>
  <2>1. ASSUME NEW r \in Run, StartDelivery(f, r)
        PROVE  Promise!Next
    BY <1>0, <2>1, DeliveryOffers DEF Promise!Next
  <2>2. CASE StartDelete(f) \/ \E c \in Content, adopt \in BOOLEAN : StartRetime(f, c, adopt)
    BY <1>0, <2>2, OthersUnseen
  <2>3. CASE Write(f)
    BY <2>3, WriteImplements
  <2>4. CASE Fail(f)
    <3>1. UNCHANGED <<intents, files, disk, begun, downloads>>
      BY <2>4 DEF Fail, Move, vars
    <3> QED BY <3>1, QuietUnseen
  <2>5. CASE Finish(f)
    <3>1. (\A g : Effective(g)' <=> Effective(g)) /\ \A g \in DOMAIN intents : IntentSame(g)
      BY <1>0, <2>5, FinishKeeps
    <3>2. UNCHANGED <<files, begun, downloads>> /\ \A g : Effective(g) => IntentSame(g)
      BY <2>5, <3>1 DEF Finish, Move, vars, Effective, Pending
    <3> QED BY <3>1, <3>2, Unseen
  <2>6. CASE Settle(f)
    <3>1. libraryMap' = libraryMap
      BY <1>0, <2>6, SettleSettles, SettleReads
    <3>2. CASE outcomeMap' = outcomeMap
      BY <3>1, <3>2
    <3>3. CASE \E r \in Run : outcomeMap[r] = "offered"
                             /\ outcomeMap' = [outcomeMap EXCEPT ![r] = "undelivered"]
      <4>1. \E r \in Run : Promise!Refuse(r)
        BY <3>1, <3>3 DEF Promise!Refuse
      <4> QED BY <4>1 DEF Promise!Next
    <3> QED BY <1>0, <2>6, <3>2, <3>3, SettleOutcomes
  <2>7. CASE Recover(f)
    <3>1. UNCHANGED <<intents, files, disk, begun, downloads>>
      BY <2>7 DEF Recover, vars
    <3> QED BY <3>1, QuietUnseen
  <2> QED BY <1>1, <2>1, <2>2, <2>3, <2>4, <2>5, <2>6, <2>7 DEF CallerStep
<1>2. ASSUME NEW f \in File, NEW c \in Content, UserAdds(f, c)
      PROVE  UNCHANGED <<libraryMap, outcomeMap>>
  <2>1. (\A g : Effective(g)' <=> Effective(g)) /\ \A g \in DOMAIN intents : IntentSame(g)
    BY <1>0, <1>2, UserAddsKeeps
  <2>2. UNCHANGED <<files, begun, downloads>> /\ \A g : Effective(g) => IntentSame(g)
    BY <1>2, <2>1 DEF UserAdds, vars, Effective, Pending
  <2> QED BY <2>1, <2>2, Unseen
<1>3. ASSUME NEW i \in Inst, List(i)
      PROVE  UNCHANGED <<libraryMap, outcomeMap>>
  <2>1. UNCHANGED <<intents, files, disk, begun, downloads>>
    BY <1>3, ListKeeps
  <2> QED BY <2>1, QuietUnseen
<1>4. CASE Crash
  <2>1. UNCHANGED <<intents, files, disk, begun, downloads>>
    BY <1>4 DEF Crash, Reopen, libraryVars
  <2> QED BY <2>1, QuietUnseen
<1>5. ASSUME NEW p \in Policy, Activate(p, {}), UNCHANGED pipelineVars
      PROVE  UNCHANGED <<libraryMap, outcomeMap>>
  <2>1. UNCHANGED <<intents, files, disk, begun, downloads>>
    BY <1>5 DEF Activate, pipelineVars
  <2> QED BY <2>1, QuietUnseen
<1>6. CASE UNCHANGED allVars
  <2>1. UNCHANGED <<intents, files, disk, begun, downloads>>
    BY <1>6 DEF allVars, vars
  <2> QED BY <2>1, QuietUnseen
<1> QED BY <1>1, <1>2, <1>3, <1>4, <1>5, <1>6 DEF PipelineNext

\* The store starts as the library does: empty, and every attempt idle.
LEMMA InitImplements == PipelineInit => Promise!Init
<1> SUFFICES ASSUME PipelineInit PROVE Promise!Init
  OBVIOUS
<1>1. DOMAIN intents = {} /\ DOMAIN files = {} /\ begun = {}
  BY DEF PipelineInit, Init, EmptyTable
<1>2. ManagedNow = {}
  BY <1>1 DEF ManagedNow, Effective, Pending, Managed
<1>3. libraryMap = Promise!EmptyTable
  BY <1>2 DEF libraryMap, Promise!EmptyTable
<1>4. outcomeMap = [r \in Run |-> "idle"]
  BY <1>1 DEF outcomeMap
<1> QED BY <1>3, <1>4 DEF Promise!Init

\* The write-intent protocol, over a disk and a process that can stop between any two
\* steps, implements the library: deliveries, rewrites and removals happen in single
\* steps, and each attempt ends delivered or undelivered, once.
THEOREM PipelineIsLibrary == PipelineSpec => ImplementsLibrary
<1>1. PipeInv /\ [PipelineNext]_allVars => [Promise!Next]_<<libraryMap, outcomeMap>>
  BY StepImplements
<1> QED BY <1>1, InitImplements, DiskInvariance, PTL DEF PipelineSpec, ImplementsLibrary, Promise!Spec

=============================================================================
