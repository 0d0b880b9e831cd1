----------------------------- MODULE ChangeFeed -----------------------------
(***************************************************************************)
(* statedb/feed.go: which library roots a commit publishes, what Since     *)
(* answers, and an observer that keeps a copy of the library by it.        *)
(*                                                                         *)
(* A root is shown by its item record, the instance that record names, and *)
(* that instance's files.  A row's content is the revision that wrote it.  *)
(* The change log and its retention are bolttable's (external).            *)
(***************************************************************************)
EXTENDS Integers, FiniteSets

CONSTANTS
    Roots, Insts,
    NoInst,    \* an item record with no instance
    Retention, \* how many revisions the log keeps
    MaxRev,    \* bound: revisions of one epoch
    MaxEpoch   \* bound: times the store's file is replaced

ASSUME FeedAssumption == NoInst \notin Insts /\ Retention \in Nat

VARIABLES
    item,      \* root -> the instance its item record names, or NoInst
    row,       \* instance -> [items, facts], items = {} when not stored
    file,      \* instance -> the revision of its managed files
    itemRev,   \* root -> the revision of its item record
    log,       \* the retained changes
    rev, epoch, configRev,
    gen,       \* how many times Changed's channel was replaced
    dirty,     \* roots whose managed files changed since the observer asked
    obs        \* the observer: its step, its position, its copy

store == <<item, row, file, itemRev>>
fvars == <<store, log, rev, epoch, configRev, gen, dirty, obs>>

\* What a reader of root r is shown
View(r) ==
    <<item[r], itemRev[r],
      IF item[r] = NoInst THEN <<>> ELSE <<row[item[r]].facts, file[item[r]]>> >>

NoRow == [items |-> {}, facts |-> 0]

FInit ==
    /\ item = [r \in Roots |-> NoInst]
    /\ row = [i \in Insts |-> NoRow]
    /\ file = [i \in Insts |-> 0]
    /\ itemRev = [r \in Roots |-> 0]
    /\ log = {} /\ rev = 0 /\ epoch = 0 /\ configRev = 0 /\ gen = 0
    /\ dirty = {}
    /\ obs = [at |-> "channel", token |-> 0, epoch |-> 0, rev |-> 0,
              reread |-> {}, unnamed |-> {}, copy |-> [r \in Roots |-> <<NoInst, 0, <<>> >>]]

\* addInstanceRoots reads the row as stored after the write.
InstanceRoots(i) == row'[i].items

\* mapSubject: what the touched rows publish.  Touched written subjects
\* pass through, and a written root is also a root.
Written(touched) ==
    {t[2] : t \in {u \in touched : u[1] = "written"}}
        \union UNION {InstanceRoots(t[2]) : t \in {u \in touched : u[1] = "file"}}

Published(touched) ==
    Written(touched)
        \union {t[2] : t \in {u \in touched : u[1] = "item"}}
        \union UNION {InstanceRoots(t[2]) : t \in {u \in touched : u[1] = "instance"}}

Trim(l) == {c \in l : c.rev > rev + 1 - Retention}

\* A commit that allocates a revision: beforeCommit, then onCommit closes
\* the channel.  One marked config records no subjects.
Commit(touched, config) ==
    /\ rev < MaxRev
    /\ rev' = rev + 1
    /\ log' = Trim(log \union {[rev |-> rev + 1,
                                roots |-> IF config THEN {} ELSE Published(touched),
                                written |-> IF config THEN {} ELSE Written(touched)]})
    /\ configRev' = IF config THEN rev + 1 ELSE configRev
    /\ gen' = gen + 1
    /\ dirty' = dirty \union
           {r \in Roots : item[r] # NoInst /\ file'[item[r]] # file[item[r]]}
    /\ UNCHANGED <<epoch, obs>>

Emptied(r, j) == j # NoInst /\ row[j].items = {r}

\* Faulty Released: an emptied instance's files go unpublished.
ReleasedSilently(r, j) == IF j = NoInst THEN {} ELSE {<<"instance", j>>, <<"file", j>>}

\* What releasing r's key from instance j touches: dropEmptied touches the
\* written root of a key it emptied before deleteInstance's cascade.
Released(r, j) ==
    IF j = NoInst THEN {}
    ELSE IF Emptied(r, j) THEN {<<"written", r>>, <<"instance", j>>, <<"file", j>>}
    ELSE {<<"instance", j>>}

\* The rows once r moves from instance j to i.
MovedRow(r, j, i) ==
    [n \in Insts |->
        IF n = i THEN [items |-> row[i].items \union {r}, facts |-> rev + 1]
        ELSE IF n # j THEN row[n]
        ELSE IF Emptied(r, j) THEN NoRow
        ELSE [items |-> row[j].items \ {r}, facts |-> rev + 1]]

\* An observation attaches r's item to i, or releases it (i = NoInst).
Attach(r, i) ==
    LET j == item[r] IN
    /\ i # j
    /\ item' = [item EXCEPT ![r] = i]
    /\ itemRev' = [itemRev EXCEPT ![r] = rev + 1]
    /\ row' = MovedRow(r, j, i)
    /\ file' = [n \in Insts |-> IF n = j /\ Emptied(r, j) THEN 0 ELSE file[n]]
    /\ Commit(Released(r, j) \union {<<"item", r>>}
                \union (IF i = NoInst THEN {} ELSE {<<"instance", i>>}), FALSE)

\* A managed file of i is recorded, changed or removed.
PutFile(i) ==
    /\ row[i].items # {}
    /\ file' = [file EXCEPT ![i] = rev + 1]
    /\ UNCHANGED <<item, itemRev, row>>
    /\ Commit({<<"file", i>>}, FALSE)

\* i's own row, or its local or embedded set.
PutFacts(i) ==
    /\ row[i].items # {}
    /\ row' = [row EXCEPT ![i].facts = rev + 1]
    /\ UNCHANGED <<item, itemRev, file>>
    /\ Commit({<<"instance", i>>}, FALSE)

\* An activation: rows change everywhere, and readers re-read in full.
Activate ==
    /\ row' = [i \in Insts |-> IF row[i].items = {} THEN row[i] ELSE [row[i] EXCEPT !.facts = rev + 1]]
    /\ UNCHANGED <<item, itemRev, file>>
    /\ Commit({}, TRUE)

\* The file is reset or replaced while the server is down: a new epoch, whose
\* revisions start over.  The observer connects again with what it holds.
Replace ==
    /\ epoch < MaxEpoch
    /\ epoch' = epoch + 1
    /\ item' = [r \in Roots |-> NoInst] /\ itemRev' = [r \in Roots |-> 0]
    /\ row' = [i \in Insts |-> NoRow] /\ file' = [i \in Insts |-> 0]
    /\ log' = {} /\ rev' = 0 /\ configRev' = 0 /\ gen' = 0
    /\ dirty' = {}
    /\ obs' = [obs EXCEPT !.at = "channel"]

(***************************************************************************)
(* The observer                                                            *)
(***************************************************************************)

\* Changed, before Since
ReadChannel ==
    /\ obs.at = "channel"
    /\ obs' = [obs EXCEPT !.at = "since", !.token = gen]
    /\ UNCHANGED <<store, log, rev, epoch, configRev, gen, dirty>>

\* bolttable: it cannot answer from before its log, nor from past the head.
NotRetained(after) == after > rev \/ after < rev - Retention

\* Faulty MustReread: another store's revisions are taken for this one's.
RereadIgnoringEpoch(e, after) == after = 0 \/ after < configRev \/ NotRetained(after)

\* Since answers Full.
MustReread(e, after) ==
    e # epoch \/ after = 0 \/ after < configRev \/ NotRetained(after)

\* Since and collect, in one View: each root once
CallSince ==
    LET newer == {c \in log : c.rev > obs.rev}
        full == MustReread(obs.epoch, obs.rev)
    IN
    /\ obs.at = "since"
    /\ obs' = [obs EXCEPT
        !.at = "read", !.epoch = epoch, !.rev = rev,
        !.reread = IF full THEN Roots ELSE UNION {c.roots : c \in newer},
        !.unnamed = IF full THEN {} ELSE dirty \ UNION {c.written : c \in newer}]
    /\ dirty' = {}
    /\ UNCHANGED <<store, log, rev, epoch, configRev, gen>>

\* The observer reads what the answer named, in a later View.
Reread ==
    /\ obs.at = "read"
    /\ obs' = [obs EXCEPT !.at = "asleep", !.reread = {},
        !.copy = [r \in Roots |-> IF r \in obs.reread THEN View(r) ELSE obs.copy[r]]]
    /\ UNCHANGED <<store, log, rev, epoch, configRev, gen, dirty>>

\* The channel it read is closed.
Woken ==
    /\ obs.at = "asleep"
    /\ obs.token < gen
    /\ obs' = [obs EXCEPT !.at = "channel"]
    /\ UNCHANGED <<store, log, rev, epoch, configRev, gen, dirty>>

Follow == ReadChannel \/ CallSince \/ Reread \/ Woken

FNext ==
    \/ \E r \in Roots, i \in Insts \union {NoInst} : Attach(r, i)
    \/ \E i \in Insts : PutFile(i) \/ PutFacts(i)
    \/ Activate \/ Replace
    \/ Follow

FSpec == FInit /\ [][FNext]_fvars /\ WF_fvars(Follow)

(***************************************************************************)
(* Properties                                                              *)
(***************************************************************************)

\* An observer that sleeps on a channel no commit has closed holds every root
\* as the store does, and was told of every root whose managed files changed:
\* each commit named all it changed, an emptied instance's cascade included,
\* and nothing slipped between the channel and the answer.
AsleepIsCurrent ==
    obs.at = "asleep" /\ obs.token = gen =>
        obs.unnamed = {} /\ \A r \in Roots : obs.copy[r] = View(r)
=============================================================================
