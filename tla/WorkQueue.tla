----------------------------- MODULE WorkQueue -----------------------------
(***************************************************************************)
(* internal/statedb/work.go: the durable queue of videos to search for,    *)
(* its writers, and the one drainer it is made for.                        *)
(*                                                                         *)
(* A row carries a generation: an enqueue of a queued video moves it on,   *)
(* so acknowledging a run that read the older one leaves the row.  A wake  *)
(* channel of capacity one tells the drainer that a commit enqueued work;  *)
(* the commit and its signal are two steps here, because AfterCommit runs  *)
(* when other transactions can already see the row.                        *)
(*                                                                         *)
(* The drainer is not in the source tree yet.  It is modelled from         *)
(* WorkReady's comment: one drainer, which waits for a wake and then reads *)
(* NextWork until it answers none; it runs what it read in any order, and  *)
(* acknowledges or defers each run once.  It looks again by itself when a  *)
(* deferral it made ends.                                                  *)
(***************************************************************************)
EXTENDS Tables, Naturals, FiniteSets

CONSTANTS
    Inst,
    Limit,      \* NextWork's limit
    MaxGen,     \* bound: the generations of a row
    MaxSeq,     \* bound: the rows ever created
    MaxCrash    \* bound: restarts

ASSUME LimitAssumption == Limit \in Nat \ {0}
ASSUME BoundsAssumption == MaxGen \in Nat /\ MaxSeq \in Nat /\ MaxCrash \in Nat

Scan == 1
Import == 2
ItemCause == 3
Cause == {Scan, Import, ItemCause}

\* A row's not-before: none, ahead, or over.
When == {"now", "later", "over"}

\* Its first deferral.
First == {"none", "set"}

Row == [seq : Nat, gen : Nat, cause : Cause, when : When, first : First]
Work == [inst : Inst, gen : Nat, cause : Cause]
Phase == {"waiting", "reading", "running"}

VARIABLES
    known,      \* the stored instances
    gone,       \* those deleted: an id is never given out again
    rows,       \* table 0x13
    next,       \* the last enqueue position given out
    signals,    \* commits whose AfterCommit has not run
    wake,       \* workReady holds a wake
    phase,      \* the drainer
    held,       \* the works it read and has not run
    ran,        \* the works it ran and has not settled
    changed,    \* the instances changed since a run of theirs began
    crashes

stored == <<known, gone, rows, next>>
drainer == <<phase, held, ran>>
vars == <<stored, signals, wake, drainer, changed, crashes>>

Queued(i) == i \in DOMAIN rows

---------------------------------------------------------------------------
(* Writers                                                                 *)

Create(i) ==
    /\ i \notin known \union gone
    /\ known' = known \union {i}
    /\ UNCHANGED <<gone, rows, next, signals, wake, drainer, changed, crashes>>

\* Faulty Delete: the queued row stays.
DeleteUncascaded(i) ==
    /\ i \in known
    /\ known' = known \ {i}
    /\ gone' = gone \union {i}
    /\ changed' = changed \ {i}
    /\ UNCHANGED <<rows, next, signals, wake, drainer, crashes>>

\* deleteInstance, whose cascade takes the queued row.
Delete(i) ==
    /\ i \in known
    /\ known' = known \ {i}
    /\ gone' = gone \union {i}
    /\ rows' = Drop(rows, {i})
    /\ changed' = changed \ {i}
    /\ UNCHANGED <<next, signals, wake, drainer, crashes>>

Higher(c, d) == IF c > d THEN c ELSE d

\* enqueueOne of a queued instance: the higher cause, the next generation,
\* due at once, at the position it had.
Requeued(row, c) ==
    [row EXCEPT !.cause = Higher(@, c), !.gen = @ + 1, !.when = "now"]

\* EnqueueWork for an instance something changed about; an unknown one is
\* skipped and signals nothing.
EnqueueWork(i, c) ==
    /\ i \in known
    /\ IF Queued(i)
       THEN /\ rows[i].gen < MaxGen
            /\ rows' = Put(rows, i, Requeued(rows[i], c))
            /\ UNCHANGED next
       ELSE /\ next < MaxSeq
            /\ next' = next + 1
            /\ rows' = Put(rows, i, [seq |-> next + 1, gen |-> 1, cause |-> c,
                                     when |-> "now", first |-> "none"])
    /\ signals' = signals + 1
    /\ changed' = changed \union {i}
    /\ UNCHANGED <<known, gone, wake, drainer, crashes>>

\* signalWork: a send that drops when a wake is pending.
SignalWork ==
    /\ signals > 0
    /\ signals' = signals - 1
    /\ wake' = TRUE
    /\ UNCHANGED <<stored, drainer, changed, crashes>>

\* The not-before of a deferred row passes.
Elapse(i) ==
    /\ Queued(i) /\ rows[i].when = "later"
    /\ rows' = [rows EXCEPT ![i].when = "over"]
    /\ UNCHANGED <<known, gone, next, signals, wake, drainer, changed, crashes>>

---------------------------------------------------------------------------
(* The drainer                                                             *)

Due == {i \in DOMAIN rows : rows[i].when # "later"}

\* workOrderEntries: the higher cause first, and the earlier position.
Before(i, j) ==
    \/ rows[i].cause > rows[j].cause
    \/ rows[i].cause = rows[j].cause /\ rows[i].seq < rows[j].seq

\* NextWork answers I: the first Limit due rows, or all of them.
FirstDue(I) ==
    /\ I \subseteq Due
    /\ I # Due => Cardinality(I) = Limit
    /\ Cardinality(I) <= Limit
    /\ \A i \in I, j \in Due \ I : Before(i, j)

WorkOf(i) == [inst |-> i, gen |-> rows[i].gen, cause |-> rows[i].cause]

\* A wake, or the end of a deferral.
Wake ==
    /\ phase = "waiting"
    /\ phase' = "reading"
    /\ \/ wake /\ wake' = FALSE
       \/ (\E i \in DOMAIN rows : rows[i].when = "over") /\ UNCHANGED wake
    /\ UNCHANGED <<stored, signals, held, ran, changed, crashes>>

\* Faulty NextWork: what is read is no longer queued.
TakeWork(I) ==
    /\ phase = "reading"
    /\ FirstDue(I)
    /\ held' = {WorkOf(i) : i \in I}
    /\ phase' = IF I = {} THEN "waiting" ELSE "running"
    /\ rows' = Drop(rows, I)
    /\ UNCHANGED <<known, gone, next, signals, wake, ran, changed, crashes>>

NextWork(I) ==
    /\ phase = "reading"
    /\ FirstDue(I)
    /\ held' = {WorkOf(i) : i \in I}
    /\ phase' = IF I = {} THEN "waiting" ELSE "running"
    /\ UNCHANGED <<stored, signals, wake, ran, changed, crashes>>

\* A run of w sees everything that changed before it.
Run(w) ==
    /\ w \in held
    /\ held' = held \ {w}
    /\ ran' = ran \union {w}
    /\ changed' = changed \ {w.inst}
    /\ UNCHANGED <<stored, signals, wake, phase, crashes>>

\* The row is there, at the generation w was read at.
Current(w) == Queued(w.inst) /\ rows[w.inst].gen = w.gen

\* Faulty AckWork: the generation is not compared.
AckAnyway(W) ==
    /\ W # {} /\ W \subseteq ran
    /\ ran' = ran \ W
    /\ rows' = Drop(rows, {w.inst : w \in W})
    /\ UNCHANGED <<known, gone, next, signals, wake, phase, held, changed, crashes>>

\* AckWork deletes each row still at the generation its work names.
AckWork(W) ==
    /\ W # {} /\ W \subseteq ran
    /\ ran' = ran \ W
    /\ rows' = Drop(rows, {w.inst : w \in {x \in W : Current(x)}})
    /\ UNCHANGED <<known, gone, next, signals, wake, phase, held, changed, crashes>>

\* Faulty DeferWork: the generation is not compared.
DeferAnyway(w) ==
    /\ w \in ran
    /\ ran' = ran \ {w}
    /\ IF Queued(w.inst)
       THEN rows' = [rows EXCEPT ![w.inst].when = "later", ![w.inst].first = "set"]
       ELSE UNCHANGED rows
    /\ UNCHANGED <<known, gone, next, signals, wake, phase, held, changed, crashes>>

DeferWork(w) ==
    /\ w \in ran
    /\ ran' = ran \ {w}
    /\ IF Current(w)
       THEN rows' = [rows EXCEPT ![w.inst].when = "later", ![w.inst].first = "set"]
       ELSE UNCHANGED rows
    /\ UNCHANGED <<known, gone, next, signals, wake, phase, held, changed, crashes>>

ReadAgain ==
    /\ phase = "running"
    /\ held = {} /\ ran = {}
    /\ phase' = "reading"
    /\ UNCHANGED <<stored, signals, wake, held, ran, changed, crashes>>

\* Faulty Stored: Open reads no queue.
NothingStored == FALSE

\* wakeForStoredWork
Stored == DOMAIN rows # {}

\* The process ends, at any point, and the store opens again.
Reopen ==
    /\ crashes < MaxCrash
    /\ crashes' = crashes + 1
    /\ signals' = 0
    /\ wake' = Stored
    /\ phase' = "waiting" /\ held' = {} /\ ran' = {}
    /\ changed' = changed \union ({w.inst : w \in ran} \intersect DOMAIN rows)
    /\ UNCHANGED stored

---------------------------------------------------------------------------
Init ==
    /\ known = {} /\ gone = {}
    /\ rows = EmptyTable /\ next = 0
    /\ signals = 0 /\ wake = FALSE
    /\ phase = "waiting" /\ held = {} /\ ran = {}
    /\ changed = {}
    /\ crashes = 0

Settle ==
    \/ \E W \in SUBSET ran : AckWork(W)
    \/ \E w \in ran : DeferWork(w)

Next ==
    \/ \E i \in Inst :
        \/ Create(i)
        \/ Delete(i)
        \/ \E c \in Cause : EnqueueWork(i, c)
        \/ Elapse(i)
    \/ SignalWork
    \/ Wake
    \/ \E I \in SUBSET DOMAIN rows : NextWork(I)
    \/ \E w \in held : Run(w)
    \/ Settle
    \/ ReadAgain
    \/ Reopen

Spec == Init /\ [][Next]_vars

\* A committing goroutine runs its AfterCommit, time passes, and the drainer
\* keeps taking the step it can take.  It does not defer for ever: DeferWork
\* hands it the first deferral of the row so that it can give up.
FairSpec ==
    /\ Spec
    /\ WF_vars(SignalWork)
    /\ \A i \in Inst : WF_vars(Elapse(i))
    /\ WF_vars(Wake)
    /\ WF_vars(\E I \in SUBSET DOMAIN rows : NextWork(I))
    /\ WF_vars(\E w \in held : Run(w))
    /\ WF_vars(Settle)
    /\ SF_vars(\E W \in SUBSET ran : AckWork(W))
    /\ WF_vars(ReadAgain)

---------------------------------------------------------------------------
(* Properties                                                              *)

TypeOK ==
    /\ known \in SUBSET Inst /\ gone \in SUBSET Inst
    /\ IsTable(rows, known, Row)
    /\ next \in Nat /\ signals \in Nat /\ crashes \in Nat
    /\ wake \in BOOLEAN
    /\ phase \in Phase
    /\ held \in SUBSET Work /\ ran \in SUBSET Work
    /\ changed \in SUBSET known

\* A change to a video that no run has seen keeps it queued: an enqueue that
\* lands while the video is being searched survives the acknowledgement of
\* that search, through restarts too.
NoLostWork == \A i \in changed : Queued(i)

\* Nor is a video dropped between its run and the run's acknowledgement: a
\* process that ends there runs it again.
RunStaysQueued ==
    \A w \in held \union ran :
        w.inst \in known => Queued(w.inst) /\ rows[w.inst].gen >= w.gen

\* The drainer never sleeps on a row due since its enqueue, whatever order
\* its last read, the commit and the signal come in.
NoLostWake ==
    phase = "waiting" /\ (\E i \in DOMAIN rows : rows[i].when = "now")
    => wake \/ signals > 0

\* A deferral never delays a change that came after the run it ends.
ChangeIsDue == \A i \in changed : Queued(i) => rows[i].when # "later"

\* A video stays queued while a change to it is unseen, due at once, and until
\* its run is acknowledged.
WorkKept == NoLostWork /\ RunStaysQueued /\ ChangeIsDue

\* Once callers stop, every change is seen by a run, unless its video goes.
EveryChangeRun == \A i \in Inst : i \in changed ~> i \notin changed
=============================================================================
