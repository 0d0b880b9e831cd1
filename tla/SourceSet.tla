------------------------------ MODULE SourceSet ------------------------------
(***************************************************************************)
(* mediasource's Set: the check of every answer an Items walk gives, and   *)
(* the root folders and tags a rebuilt Set inherits.  The adapter is any   *)
(* implementation of Adapter, one that goes on after a walk's end included.*)
(***************************************************************************)
EXTENDS Integers, Sequences, FiniteSets

CONSTANTS
    NativeRefs,     \* native references of roots
    Foreign,        \* those that break the identity rule
    MaxListed,      \* bound: roots one walk's adapter lists
    WalkFailBudget, \* consecutive unread roots that end a walk
    MaxUnreadRoots, \* the most unread roots of one walk
    Viewers,        \* MediaRoots calls
    MaxEntryEdits   \* bound: settings edits

ASSUME WalkAssumption == WalkFailBudget \in Nat \ {0} /\ MaxUnreadRoots \in Nat

VARIABLES
    listed,   \* what the adapter listed: [ref, readable], in order
    told,     \* what the caller was told of it: [ref, how]
    run, total,
    end,      \* the error that ended the walk, or "none"
    answer,   \* what Items answered
    config,   \* the source's entry: [conn, secret]
    set,      \* set -> its config, its caches, its first fill
    live,     \* the set published last
    probe,    \* a RootFolders call under way: the set it is of, 0 for none
    viewer    \* viewer -> the set whose fill it waits for, or "idle"

walked == <<listed, told, run, total, end, answer>>
sets == <<config, set, live, probe, viewer>>
svars == <<walked, sets>>

NoRoots == [known |-> FALSE, conn |-> 0]

NewSet(c) == [config |-> c, roots |-> NoRoots, fill |-> "none"]

SInit ==
    /\ listed = <<>> /\ told = <<>> /\ run = 0 /\ total = 0
    /\ end = "none" /\ answer = "none"
    /\ config = [conn |-> 0, secret |-> 0]
    /\ set = << NewSet([conn |-> 0, secret |-> 0]) >>
    /\ live = 1 /\ probe = 0
    /\ viewer = [v \in Viewers |-> 0]

(***************************************************************************)
(* Items                                                                   *)
(***************************************************************************)

Seen(ref) == \E i \in 1 .. Len(listed) : listed[i].ref = ref
Stop == end' = "refused" /\ UNCHANGED <<told, run, total>>

\* Faulty OverBudget: only the unread roots in a row count.
OverRunOnly == run + 1 >= WalkFailBudget

\* The walkFailBudget-th unread root in a row, or one past the bound.
OverBudget == run + 1 >= WalkFailBudget \/ total + 1 > MaxUnreadRoots

\* skip: the caller hears of it and may end the walk.
Skip(ref) ==
    /\ run' = run + 1 /\ total' = total + 1
    /\ IF OverBudget THEN end' = "refused" /\ UNCHANGED told
       ELSE /\ told' = Append(told, [ref |-> ref, how |-> "unread"])
            /\ end' \in {end, "caller"}

\* walk.root: a root whose items break a bound is skipped.
Yield(ref) ==
    /\ run' = 0 /\ UNCHANGED total
    /\ told' = Append(told, [ref |-> ref, how |-> "yielded"])
    /\ end' \in {end, "caller"}

\* The adapter lists a root, read or unread.
List(ref, readable) ==
    /\ answer = "none"
    /\ Len(listed) < MaxListed
    /\ listed' = Append(listed, [ref |-> ref, readable |-> readable])
    /\ IF end # "none" THEN UNCHANGED <<told, run, total, end>>
       ELSE IF ref \in Foreign \/ Seen(ref)
       THEN Stop
       ELSE IF readable THEN Yield(ref) ELSE Skip(ref)
    /\ UNCHANGED <<answer, sets>>

\* Faulty ItemsAnswer: the adapter's own answer is taken.
AdapterAnswer(adapter) == adapter

\* The walk's end wins over whatever the adapter returns.
ItemsAnswer(adapter) == IF end # "none" THEN end ELSE adapter

Finish(adapter) ==
    /\ answer = "none"
    /\ answer' = ItemsAnswer(adapter)
    /\ UNCHANGED <<listed, told, run, total, end, sets>>

WalkNext ==
    \/ \E ref \in NativeRefs, readable \in BOOLEAN : List(ref, readable)
    \/ \E adapter \in {"ok", "failed"} : Finish(adapter)

(***************************************************************************)
(* The Set's caches                                                        *)
(***************************************************************************)

SetRoots(s, conn) == [set EXCEPT ![s].roots = [known |-> TRUE, conn |-> conn]]

\* Faulty Inherits: an entry with the same id keeps its roots.
KeptById(old, new) == TRUE

\* sameOutsideSecrets
Inherits(old, new) == old.conn = new.conn

\* A save rebuilds the Set, which inherits before it is published.
Edit(c) ==
    /\ Len(set) <= MaxEntryEdits
    /\ config' = c
    /\ set' = Append(set, [NewSet(c) EXCEPT
                  !.roots = IF Inherits(config, c) THEN set[live].roots ELSE NoRoots])
    /\ live' = Len(set) + 1
    /\ UNCHANGED <<probe, viewer, walked>>

\* A RootFolders call of the live set, answered after any later edit
StartProbe ==
    /\ probe = 0 /\ probe' = live
    /\ UNCHANGED <<config, set, live, viewer, walked>>

EndProbe(ok) ==
    /\ probe # 0
    /\ set' = IF ok THEN SetRoots(probe, set[probe].config.conn) ELSE set
    /\ probe' = 0
    /\ UNCHANGED <<config, live, viewer, walked>>

\* Faulty FillOf: each caller of an empty cache starts a fill.
FillAgain(s) == "running"

\* startFill: once per Set
FillOf(s) == IF set[s].fill = "none" THEN "running" ELSE set[s].fill

\* MediaRoots with an empty cache waits for its one fill.
AskRoots(v) ==
    /\ viewer[v] = 0
    /\ ~set[live].roots.known
    /\ set' = [set EXCEPT ![live].fill = FillOf(live)]
    /\ viewer' = [viewer EXCEPT ![v] = live]
    /\ UNCHANGED <<config, live, probe, walked>>

\* The fill ends within rootFoldersWait, its channel closed either way.
EndFill(s, ok) ==
    /\ s <= Len(set) /\ set[s].fill = "running"
    /\ LET read == IF ok THEN SetRoots(s, set[s].config.conn) ELSE set
       IN set' = [read EXCEPT ![s].fill = "ended"]
    /\ UNCHANGED <<config, live, probe, viewer, walked>>

\* The caller has the fill's folders, or none.
Answer(v) ==
    /\ viewer[v] # 0
    /\ set[viewer[v]].fill = "ended"
    /\ viewer' = [viewer EXCEPT ![v] = 0]
    /\ UNCHANGED <<config, set, live, probe, walked>>

\* Its own deadline passes first.
GiveUp(v) ==
    /\ viewer[v] # 0
    /\ viewer' = [viewer EXCEPT ![v] = 0]
    /\ UNCHANGED <<config, set, live, probe, walked>>

FillEnds == \E s \in 1 .. MaxEntryEdits + 1, ok \in BOOLEAN : EndFill(s, ok)

SetsNext ==
    \/ \E conn, secret \in {0, 1} : Edit([conn |-> conn, secret |-> secret])
    \/ StartProbe \/ \E ok \in BOOLEAN : EndProbe(ok)
    \/ \E v \in Viewers : AskRoots(v) \/ Answer(v) \/ GiveUp(v)
    \/ FillEnds

\* A fill's deadline passes, and a caller whose wait is over runs.
SSpec ==
    /\ SInit
    /\ [][WalkNext \/ SetsNext]_svars
    /\ WF_svars(FillEnds)
    /\ \A v \in Viewers : WF_svars(Answer(v))

(***************************************************************************)
(* Properties                                                              *)
(***************************************************************************)

ToldOf(ref) == {i \in 1 .. Len(told) : told[i].ref = ref}
Unread == {i \in 1 .. Len(told) : told[i].how = "unread"}

\* A walk that answers no error told its caller of every root the source
\* listed, once each, and of no more unread ones than storage keeps: what it
\* did not mention may be retired.
WalkIsWhole ==
    answer = "ok" =>
        /\ \A i \in 1 .. Len(listed) : Cardinality(ToldOf(listed[i].ref)) = 1
        /\ Cardinality(Unread) <= MaxUnreadRoots
        /\ \A i \in 1 .. Len(told) - WalkFailBudget + 1 :
               ~(i .. i + WalkFailBudget - 1 \subseteq Unread)

\* A published Set answers only for the connection it is configured with: the
\* root folders it knows were read over that one, before or after an edit.
OwnRoots == \A s \in 1 .. Len(set) : set[s].roots.known => set[s].roots.conn = set[s].config.conn
=============================================================================
