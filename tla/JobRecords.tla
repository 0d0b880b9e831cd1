----------------------------- MODULE JobRecords -----------------------------
(***************************************************************************)
(* internal/status (jobs.go, persist.go, retention.go) over its records in *)
(* internal/statedb/jobs.go: jobs live in memory, their records in the     *)
(* store, and the end of a job reaches its record late, by its updater or  *)
(* by the one runner that retries what failed.                             *)
(*                                                                         *)
(* A step is what runs under s.mu or in one transaction; everything else   *)
(* may come between two of them.  A write of the store may fail, and may   *)
(* land and report failure.  Queued and Running are not told apart: a job  *)
(* is Done when its outcome is not None.  Ended stamps keep their order    *)
(* only, so any age limit may have passed for the oldest ones.             *)
(***************************************************************************)
EXTENDS Tables, Naturals, FiniteSets

CONSTANTS
    Id,             \* ids are random and never repeat: one for each call of Begin
    Asks,           \* what that call asks for: the owner and the key
    System,         \* SystemOwner
    NoKey,
    Outcome,        \* the outcomes a job's own work gives
    PerOwner,       \* JobLimits
    Total,
    MaxDone,        \* liveMaxDone
    Runner,         \* the goroutine of Run
    MaxProgress,    \* bound: updates that do not end a job
    MaxFaults,      \* bound: failing writes of the store
    MaxRestart      \* bound: restarts

ASSUME LimitsAssumption == PerOwner \in Nat \ {0} /\ Total \in Nat \ {0} /\ MaxDone \in Nat
ASSUME BoundsAssumption == MaxProgress \in Nat /\ MaxFaults \in Nat /\ MaxRestart \in Nat
ASSUME RunnerAssumption == Runner \notin Id
ASSUME AsksAssumption ==
    \A id \in Id : Asks[id].owner = System => Asks[id].key = NoKey

None == "none"
Failed == "failed"
Interrupted == "interrupted"
AnyOutcome == Outcome \union {Failed, Interrupted}

\* A stored record, as far as anything reads it.
Record == [outcome : AnyOutcome \union {None}, rev : Nat, ended : Nat]

\* A live job: durable, saving and attempts # 0 are liveJob's.
Live == [outcome : AnyOutcome \union {None}, rev : Nat, ended : Nat,
         durable : BOOLEAN, saving : BOOLEAN, tried : BOOLEAN]

\* Where a call of persist stands.
Call == [at : {"begin", "put", "failed", "stored", "raise", "clear"}, id : Id]

VARIABLES
    begun,      \* the ids Begin gave out and recorded
    records,    \* the store's jobs table
    up,         \* New has returned and the process lives
    starting,   \* jobs Begin has recorded and not yet made live
    live,
    unsaved,
    alert,      \* AlertJobRecords is raised
    wake,       \* retryWake holds a wake
    calls,      \* persist calls, by the job whose Update makes it or Runner
    runner,     \* Run: where it is, its timer, the ids left of saveUnsaved
    faults,
    restarts

memory == <<starting, live, unsaved, alert, wake, calls, runner>>
vars == <<begun, records, up, memory, faults, restarts>>

Process == Id \union {Runner}
Done(r) == r.outcome # None
Fault == faults < MaxFaults /\ faults' = faults + 1

\* The next revision.  With MaxFaults failing writes a job needs no more of
\* them; a retry that is refused because its record is gone raises it for ever.
MaxRev == MaxProgress + 2 + MaxFaults
Raised(rev) == IF rev < MaxRev THEN rev + 1 ELSE rev

---------------------------------------------------------------------------
(* Records: statedb/jobs.go                                                *)

UserOwned(id) == Asks[id].owner # System

\* The record that bars a new one under id's key: one per owner and key.
Holders(id) ==
    {x \in DOMAIN records : Asks[id].key # NoKey /\ Asks[x] = Asks[id]}

\* Faulty OldestEnded: any oldest record, its job ended or not.
OldestAny(R, K) == {x \in K : \A y \in K : R[x].ended <= R[y].ended}

\* The first entries of an ended index over the records K.
OldestEnded(R, K) ==
    {x \in K : Done(R[x]) /\ \A y \in K : Done(R[y]) => R[x].ended <= R[y].ended}

\* Faulty RoomWithin: one record too many.
RoomPast(R, K, limit) ==
    IF Cardinality(K) <= limit THEN {R} ELSE {Drop(R, {x}) : x \in OldestEnded(R, K)}

\* The tables one bound may leave: no table, when it refuses.
RoomWithin(R, K, limit) ==
    IF Cardinality(K) < limit THEN {R} ELSE {Drop(R, {x}) : x \in OldestEnded(R, K)}

OwnedBy(R, owner) == {x \in DOMAIN R : Asks[x].owner = owner}

\* makeRoom: the owner's bound, then the one all users share.
MakeRoom(R, owner) ==
    LET own == RoomWithin(R, OwnedBy(R, owner), PerOwner)
    IN  IF owner = System THEN own
        ELSE UNION {RoomWithin(r, {x \in DOMAIN r : UserOwned(x)}, Total) : r \in own}

RecordOf(job) == [outcome |-> job.outcome, rev |-> job.rev, ended |-> job.ended]

\* PutJob's refusal of an absent id or a revision not above the stored one.
Refused(id) == id \in DOMAIN records => live[id].rev <= records[id].rev

\* A stamp after every other.
Now ==
    LET stamps == {records[x].ended : x \in DOMAIN records} \union {live[x].ended : x \in DOMAIN live}
    IN  1 + (IF stamps = {} THEN 0 ELSE CHOOSE t \in stamps : \A u \in stamps : u <= t)

---------------------------------------------------------------------------
(* Retention                                                               *)

\* Faulty Evicted: durable or not.
EvictedUnsaved(L) ==
    LET ended == {x \in DOMAIN L : Done(L[x])}
    IN  {Drop(L, D) : D \in {D \in SUBSET ended :
           /\ Cardinality(ended \ D) <= MaxDone
           /\ \A d \in D, e \in ended \ D : L[d].ended <= L[e].ended}}

\* The live views evictLocked may leave of L: the oldest ended and durable
\* jobs go until MaxDone stay, and older ones for their age.
Evicted(L) ==
    LET ended == {x \in DOMAIN L : Done(L[x]) /\ L[x].durable}
    IN  {Drop(L, D) : D \in {D \in SUBSET ended :
           /\ Cardinality(ended \ D) <= MaxDone
           /\ \A d \in D, e \in ended \ D : L[d].ended <= L[e].ended}}

---------------------------------------------------------------------------
(* Jobs                                                                    *)

\* Begin up to its InsertJob.  A keyed resend finds a holder and changes
\* nothing, a full bound and a write that did not land neither.  A write
\* that lands and reports failure leaves a record no work runs for.
Begin(id) ==
    /\ up
    /\ id \notin begun
    /\ Holders(id) = {}
    /\ \E r \in MakeRoom(records, Asks[id].owner) :
         records' = Put(r, id, [outcome |-> None, rev |-> 1, ended |-> 0])
    /\ begun' = begun \union {id}
    /\ \/ starting' = starting \union {id} /\ UNCHANGED faults
       \/ Fault /\ UNCHANGED starting
    /\ UNCHANGED <<up, live, unsaved, alert, wake, calls, runner, restarts>>

\* Begin after its InsertJob.
GoLive(id) ==
    /\ id \in starting
    /\ starting' = starting \ {id}
    /\ live' = Put(live, id, [outcome |-> None, rev |-> 1, ended |-> 0,
                              durable |-> TRUE, saving |-> FALSE, tried |-> FALSE])
    /\ UNCHANGED <<begun, records, up, unsaved, alert, wake, calls, runner, faults, restarts>>

\* Update that does not end the job.
Progress(id) ==
    /\ id \in DOMAIN live
    /\ ~Done(live[id])
    /\ live[id].rev <= MaxProgress
    /\ live' = [live EXCEPT ![id].rev = @ + 1]
    /\ UNCHANGED <<begun, records, up, starting, unsaved, alert, wake, calls, runner, faults, restarts>>

\* Faulty Ending: Ended stays zero.
EndingUnstamped(id, o) ==
    /\ live' = [live EXCEPT ![id].outcome = IF o = None THEN Failed ELSE o,
                            ![id].rev = @ + 1, ![id].durable = FALSE, ![id].tried = FALSE]
    /\ unsaved' = unsaved \union {id}
    /\ calls' = Put(calls, id, [at |-> "begin", id |-> id])
    /\ UNCHANGED <<begun, records, up, starting, alert, wake, runner, faults, restarts>>

\* Update's terminal transition of the live job to outcome o.
Ending(id, o) ==
    /\ live' = [live EXCEPT ![id].outcome = IF o = None THEN Failed ELSE o,
                            ![id].rev = @ + 1, ![id].ended = Now,
                            ![id].durable = FALSE, ![id].tried = FALSE]
    /\ unsaved' = unsaved \union {id}
    /\ calls' = Put(calls, id, [at |-> "begin", id |-> id])
    /\ UNCHANGED <<begun, records, up, starting, alert, wake, runner, faults, restarts>>

\* Faulty End: a Done job is ended again.
EndAgain(id, o) ==
    /\ id \in DOMAIN live
    /\ id \notin DOMAIN calls
    /\ live[id].rev <= MaxProgress + 2
    /\ Ending(id, o)

\* Update that ends the job, up to its call of persist.
End(id, o) ==
    /\ id \in DOMAIN live
    /\ ~Done(live[id])
    /\ Ending(id, o)

---------------------------------------------------------------------------
(* persist, called by an updater or by the runner                          *)

\* Faulty BeginPersist: a retry goes out under the revision it first had.
BeginPersistSameRev(p, id) ==
    IF id \in DOMAIN live /\ ~live[id].durable /\ ~live[id].saving
    THEN /\ live' = [live EXCEPT ![id].tried = TRUE, ![id].saving = TRUE]
         /\ calls' = Put(calls, p, [at |-> "put", id |-> id])
    ELSE /\ calls' = Drop(calls, {p})
         /\ UNCHANGED live

\* The head of persist: nothing to do, or an attempt under a raised revision
\* when it is not the first.
BeginPersist(p, id) ==
    IF id \in DOMAIN live /\ ~live[id].durable /\ ~live[id].saving
    THEN /\ live' = [live EXCEPT ![id].rev = IF live[id].tried THEN Raised(@) ELSE @,
                                 ![id].tried = TRUE, ![id].saving = TRUE]
         /\ calls' = Put(calls, p, [at |-> "put", id |-> id])
    ELSE /\ calls' = Drop(calls, {p})
         /\ UNCHANGED live

UpdaterPersists(id) ==
    /\ id \in DOMAIN calls
    /\ calls[id].at = "begin"
    /\ BeginPersist(id, id)
    /\ UNCHANGED <<begun, records, up, starting, unsaved, alert, wake, runner, faults, restarts>>

\* The write of p's attempt: it lands, is refused, does not land, or lands
\* and reports failure.  The live job keeps still while it is being saved.
PutJob(p) ==
    /\ p \in DOMAIN calls
    /\ calls[p].at = "put"
    /\ LET id == calls[p].id
           landed == Put(records, id, RecordOf(live[id]))
       IN  \/ /\ ~Refused(id)
              /\ records' = landed
              /\ calls' = [calls EXCEPT ![p].at = "stored"]
              /\ UNCHANGED faults
           \/ /\ Refused(id)
              /\ calls' = [calls EXCEPT ![p].at = "failed"]
              /\ UNCHANGED <<records, faults>>
           \/ /\ ~Refused(id)
              /\ Fault
              /\ records' \in {records, landed}
              /\ calls' = [calls EXCEPT ![p].at = "failed"]
    /\ UNCHANGED <<begun, up, starting, live, unsaved, alert, wake, runner, restarts>>

PutFailed(p) ==
    /\ p \in DOMAIN calls
    /\ calls[p].at = "failed"
    /\ live' = [live EXCEPT ![calls[p].id].saving = FALSE]
    /\ calls' = [calls EXCEPT ![p].at = "raise"]
    /\ UNCHANGED <<begun, records, up, starting, unsaved, alert, wake, runner, faults, restarts>>

PutStored(p) ==
    /\ p \in DOMAIN calls
    /\ calls[p].at = "stored"
    /\ LET id == calls[p].id IN
       /\ live' \in Evicted([live EXCEPT ![id].saving = FALSE, ![id].durable = TRUE])
       /\ unsaved' = unsaved \ {id}
    /\ calls' = IF unsaved' = {} THEN [calls EXCEPT ![p].at = "clear"] ELSE Drop(calls, {p})
    /\ UNCHANGED <<begun, records, up, starting, alert, wake, runner, faults, restarts>>

\* Faulty Raise: the runner is not woken.
RaiseQuietly(p) ==
    /\ p \in DOMAIN calls
    /\ calls[p].at = "raise"
    /\ alert' = TRUE
    /\ calls' = Drop(calls, {p})
    /\ UNCHANGED <<begun, records, up, starting, live, unsaved, wake, runner, faults, restarts>>

\* Reconcile(AlertJobRecords, true) and the wake, which nothing tells apart.
Raise(p) ==
    /\ p \in DOMAIN calls
    /\ calls[p].at = "raise"
    /\ alert' = TRUE
    /\ wake' = TRUE
    /\ calls' = Drop(calls, {p})
    /\ UNCHANGED <<begun, records, up, starting, live, unsaved, runner, faults, restarts>>

Clear(p) ==
    /\ p \in DOMAIN calls
    /\ calls[p].at = "clear"
    /\ alert' = FALSE
    /\ calls' = Drop(calls, {p})
    /\ UNCHANGED <<begun, records, up, starting, live, unsaved, wake, runner, faults, restarts>>

---------------------------------------------------------------------------
(* Run                                                                     *)

RunnerAt(places) == up /\ runner.at \in places

\* The top of the loop: the timer is armed when something is unsaved.
Top ==
    /\ RunnerAt({"top"})
    /\ runner' = [runner EXCEPT !.at = "select", !.armed = @ \/ unsaved # {}]
    /\ UNCHANGED <<begun, records, up, starting, live, unsaved, alert, wake, calls, faults, restarts>>

Wake ==
    /\ RunnerAt({"select"})
    /\ wake
    /\ wake' = FALSE
    /\ runner' = [runner EXCEPT !.at = "top"]
    /\ UNCHANGED <<begun, records, up, starting, live, unsaved, alert, calls, faults, restarts>>

\* saveUnsaved reads the ids once; here at the end of the timer.
Fire ==
    /\ RunnerAt({"select"})
    /\ runner.armed
    /\ runner' = [at |-> "saving", armed |-> FALSE, todo |-> unsaved]
    /\ UNCHANGED <<begun, records, up, starting, live, unsaved, alert, wake, calls, faults, restarts>>

\* The end of Run's context: one last attempt.
Stop ==
    /\ RunnerAt({"select"})
    /\ restarts < MaxRestart
    /\ runner' = [runner EXCEPT !.at = "last", !.todo = unsaved]
    /\ UNCHANGED <<begun, records, up, starting, live, unsaved, alert, wake, calls, faults, restarts>>

\* The next id of saveUnsaved, in any order.
SaveNext(id) ==
    /\ RunnerAt({"saving", "last"})
    /\ Runner \notin DOMAIN calls
    /\ id \in runner.todo
    /\ runner' = [runner EXCEPT !.todo = @ \ {id}]
    /\ BeginPersist(Runner, id)
    /\ UNCHANGED <<begun, records, up, starting, unsaved, alert, wake, faults, restarts>>

SaveEnds ==
    /\ RunnerAt({"saving", "last"})
    /\ Runner \notin DOMAIN calls
    /\ runner.todo = {}
    /\ runner' = [runner EXCEPT !.at = IF @ = "last" THEN "gone" ELSE "top"]
    /\ UNCHANGED <<begun, records, up, starting, live, unsaved, alert, wake, calls, faults, restarts>>

\* sweepRecords, at Run's start and hourly: the records ended before some
\* instant go.  One that fails without landing changes nothing.
Sweep ==
    /\ RunnerAt({"start", "select"})
    /\ \E t \in 0..Now :
         records' = Drop(records, {x \in DOMAIN records : Done(records[x]) /\ records[x].ended < t})
    /\ runner' = [runner EXCEPT !.at = "top"]
    /\ UNCHANGED <<begun, up, starting, live, unsaved, alert, wake, calls, faults, restarts>>

Expire ==
    /\ RunnerAt({"select"})
    /\ live' \in Evicted(live)
    /\ runner' = [runner EXCEPT !.at = "top"]
    /\ UNCHANGED <<begun, records, up, starting, unsaved, alert, wake, calls, faults, restarts>>

---------------------------------------------------------------------------
(* The process                                                             *)

Starting == [at |-> "start", armed |-> FALSE, todo |-> {}]

Halt ==
    /\ up
    /\ restarts < MaxRestart
    /\ restarts' = restarts + 1
    /\ up' = FALSE
    /\ starting' = {}
    /\ live' = EmptyTable
    /\ unsaved' = {}
    /\ alert' = FALSE
    /\ wake' = FALSE
    /\ calls' = EmptyTable
    /\ runner' = Starting
    /\ UNCHANGED <<begun, records, faults>>

Crash == runner.at # "gone" /\ Halt

\* Run returned, and the process with it.
Exit == runner.at = "gone" /\ Halt

Unfinished == {x \in DOMAIN records : ~Done(records[x])}

\* New's record of a job a crash cut short, all of one instant.
MarkedAt(x, now) == [outcome |-> Interrupted, rev |-> records[x].rev + 1, ended |-> now]

Marked(S) == [x \in DOMAIN records |-> IF x \in S THEN MarkedAt(x, Now) ELSE records[x]]

\* New: it marks every unfinished record and keeps those jobs live.
Open ==
    /\ ~up
    /\ up' = TRUE
    /\ records' = Marked(Unfinished)
    /\ live' \in Evicted([x \in Unfinished |->
         [outcome |-> Interrupted, rev |-> records[x].rev + 1, ended |-> Now,
          durable |-> TRUE, saving |-> FALSE, tried |-> FALSE]])
    /\ UNCHANGED <<begun, starting, unsaved, alert, wake, calls, runner, faults, restarts>>

\* New fails at one of its writes, which ends the process.
OpenFails ==
    /\ ~up
    /\ Fault
    /\ \E S \in SUBSET Unfinished : records' = Marked(S)
    /\ UNCHANGED <<begun, up, memory, restarts>>

Init ==
    /\ begun = {}
    /\ records = EmptyTable
    /\ up = TRUE
    /\ starting = {}
    /\ live = EmptyTable
    /\ unsaved = {}
    /\ alert = FALSE
    /\ wake = FALSE
    /\ calls = EmptyTable
    /\ runner = Starting
    /\ faults = 0
    /\ restarts = 0

Next ==
    \/ \E id \in Id :
        \/ Begin(id)
        \/ GoLive(id)
        \/ Progress(id)
        \/ \E o \in Outcome \union {None} : End(id, o)
        \/ UpdaterPersists(id)
        \/ SaveNext(id)
    \/ \E p \in Process : PutJob(p) \/ PutFailed(p) \/ PutStored(p) \/ Raise(p) \/ Clear(p)
    \/ Top \/ Wake \/ Fire \/ Stop \/ SaveEnds \/ Sweep \/ Expire
    \/ Crash \/ Exit \/ Open \/ OpenFails

Spec == Init /\ [][Next]_vars

\* Every goroutine goes on.  Go's select picks at random, so the runner does
\* not pass over its timer for ever; a process whose Run returned exits.
Fairness ==
    /\ \A id \in Id : WF_vars(UpdaterPersists(id)) /\ WF_vars(SaveNext(id))
    /\ \A p \in Process :
        /\ WF_vars(PutJob(p)) /\ WF_vars(PutFailed(p)) /\ WF_vars(PutStored(p))
        /\ WF_vars(Raise(p)) /\ WF_vars(Clear(p))
    /\ WF_vars(Top) /\ WF_vars(SaveEnds) /\ WF_vars(Exit)
    /\ SF_vars(Wake) /\ SF_vars(Fire)
    /\ WF_vars(Sweep /\ runner.at = "start")

FairSpec == Spec /\ Fairness

---------------------------------------------------------------------------
(* Properties                                                              *)

\* A job has an end exactly when it has an outcome, which the ended indexes need.
Stamped(t) == \A x \in DOMAIN t : Done(t[x]) <=> t[x].ended # 0

\* The shapes of status.Store, of its records and of the calls in flight.
TypeOK ==
    /\ Stamped(records) /\ Stamped(live)
    /\ begun \subseteq Id
    /\ IsTable(records, Id, Record)
    /\ up \in BOOLEAN
    /\ starting \subseteq Id
    /\ IsTable(live, Id, Live)
    /\ unsaved \subseteq Id
    /\ alert \in BOOLEAN
    /\ wake \in BOOLEAN
    /\ IsTable(calls, Process, Call)
    /\ runner \in [at : {"start", "top", "select", "saving", "last", "gone"},
                   armed : BOOLEAN, todo : SUBSET Id]
    /\ faults \in 0..MaxFaults
    /\ restarts \in 0..MaxRestart

\* makeRoom: no owner holds more records than its bound, and the users
\* together no more than theirs, whoever begins, ends or is swept.
RecordsBounded ==
    /\ \A owner \in {Asks[id].owner : id \in Id} : Cardinality(OwnedBy(records, owner)) <= PerOwner
    /\ Cardinality({x \in DOMAIN records : UserOwned(x)}) <= Total

\* Begin's replay: an owner's key never has two jobs at work at once, though
\* room is made by deleting records and with them their keys.
OneJobPerKey ==
    \A x, y \in DOMAIN live :
        /\ x # y /\ Asks[x].key # NoKey
        /\ Asks[x] = Asks[y]
        => Done(live[x]) \/ Done(live[y])

\* Begin and makeRoom: records are well formed and within both bounds, and a
\* key has one job at work.
KeysAndBounds == TypeOK /\ RecordsBounded /\ OneJobPerKey

\* Update and persist: a record that says a live job ended says how it ended
\* and when, and a job not yet stored is in the set that is retried.
RecordsAgree ==
    /\ unsaved = {x \in DOMAIN live : ~live[x].durable}
    /\ \A x \in DOMAIN live \intersect DOMAIN records :
        /\ Done(records[x]) => /\ records[x].outcome = live[x].outcome
                               /\ records[x].ended = live[x].ended
        /\ Done(live[x]) /\ live[x].durable => Done(records[x])

\* Run and persist: the runner never sleeps without its timer on a job whose
\* last attempt failed, whatever order the failure, the wake and the loop come in.
NoRetryLost ==
    runner.at = "select" /\ ~runner.armed /\ ~wake => unsaved \subseteq DOMAIN calls

\* persist: AlertJobRecords is raised for jobs that are not stored, and not
\* after the last one is.  The code raises it after it has let go of s.mu.
\* The code does not keep it: see the README's disagreements.
AlertIsTrue ==
    alert => unsaved # {} \/ \E p \in DOMAIN calls : calls[p].at = "clear"

\* A job whose record has not gone reaches its record, though attempts land
\* and report failure, unless the process ends first.
EveryEndStored == \A id \in Id : id \in unsaved ~> id \notin unsaved \/ id \notin DOMAIN records

\* persist: what is stored of a job never contradicts the live one, and its
\* end is stored at last.
EndsStored == []RecordsAgree /\ EveryEndStored

---------------------------------------------------------------------------
(* The promise                                                             *)

\* The job has a record that does not say how it ended.
Behind(id) == id \in DOMAIN records /\ ~Done(records[id])

\* Get's answer as the board has it: of the live job, then of the record, which
\* New will mark as interrupted when the process that ran its job is gone.
board ==
    LET Board == INSTANCE JobBoard WITH Outcome <- AnyOutcome, board <- {}
        OfJob(id) == IF Done(live[id]) THEN Board!Ended(live[id].outcome, ~Behind(id)) ELSE Board!Open
        OfRecord(id) ==
            IF ~Behind(id) THEN Board!Ended(records[id].outcome, TRUE)
            ELSE IF up THEN Board!Open ELSE Board!Ended(Interrupted, TRUE)
    IN  [id \in Id |->
          IF id \in DOMAIN live THEN OfJob(id)
          ELSE IF id \in DOMAIN records THEN OfRecord(id)
          ELSE IF id \in begun THEN Board!Gone ELSE Board!Unborn]

Promise == INSTANCE JobBoard WITH Outcome <- AnyOutcome

\* Over crashes, failing and retried writes, eviction and sweeps, a job ends
\* once and Get never falls back from its end.
ImplementsBoard == Promise!Spec
=============================================================================
