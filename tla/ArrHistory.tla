----------------------------- MODULE ArrHistory -----------------------------
(***************************************************************************)
(* mediasource/arr/history.go: the change cursor a source is polled with.  *)
(*                                                                         *)
(* The history is Sonarr's or Radarr's: records appear with the date of    *)
(* what they record, which may be before or after the moment they are      *)
(* committed.  Time is counted in units of which Overlap are the re-read   *)
(* window; dates are cut to the cursor's unit, as inWindow cuts them.      *)
(***************************************************************************)
EXTENDS Integers, FiniteSets, FiniteSetsExt

CONSTANTS
    Overlap,    \* overlap, in units of time
    MaxNow,     \* bound: the clock stops here
    MaxRecords, \* bound: records committed
    MaxLate,    \* bound: how far before its commit a record is dated
    MaxAhead    \* bound: how far after its commit a record is dated

ASSUME HistoryAssumption ==
    Overlap \in Nat /\ MaxAhead \in Int /\ MaxLate \in Int /\ MaxRecords \in Nat

AdvanceAfter == 2 * Overlap

\* The zero cursor
NoCursor == [since |-> 0, seen |-> {}, held |-> FALSE]

VARIABLES
    now,        \* the clock
    history,    \* the records committed
    cursor,     \* the cursor the caller keeps
    reported,   \* record -> how often a call named it since the head
    atHead      \* the records the last head was taken over

hvars == <<now, history, cursor, reported, atHead>>

Record == [id : 1 .. MaxRecords, date : Int, at : Int]

HInit ==
    /\ now = 0
    /\ history = {}
    /\ cursor = NoCursor
    /\ reported = [id \in 1 .. MaxRecords |-> 0]
    /\ atHead = {}

\* Faulty InWindow: records dated ahead count at once.
InWindowAhead(recs, lower) == {r \in recs : r.date >= lower}

\* inWindow: the records the call counts.  What the service answers from
\* before lower is dropped, and what is dated past the clock waits.
InWindow(recs, lower) ==
    {r \in recs : r.date >= lower /\ r.date <= now + Overlap}

\* Faulty SeenIn: the ids are those of the answer's last moment.
SeenAt(recs, since) == {r.id : r \in {q \in recs : q.date = since}}

\* seenIn
SeenIn(recs, since) ==
    {r.id : r \in {q \in recs : q.date >= since - Overlap /\ q.date <= since}}

\* newest, no older than lower: inWindow left nothing older
Newest(recs, lower) == Max({lower} \union {r.date : r \in recs})

\* The new cursor after recs, with news when a record is unseen.
Advanced(recs, cur, news) ==
    LET latest == Newest(recs, cur.since - Overlap)
        since == IF latest > cur.since THEN latest
                 ELSE IF now - cur.since >= AdvanceAfter THEN now - Overlap
                 ELSE cur.since
    IN IF since = cur.since /\ ~news THEN cur
       ELSE [since |-> since, seen |-> SeenIn(recs, since), held |-> TRUE]

\* Changes with no cursor: takes the head, reports nothing.
TakeHead ==
    /\ ~cursor.held
    /\ LET recs == InWindow(history, now - Overlap)
           since == Newest(recs, now - Overlap)
       IN cursor' = [since |-> since, seen |-> SeenIn(recs, since), held |-> TRUE]
    /\ atHead' = {r \in history : r.date <= now + Overlap}
    /\ reported' = [id \in 1 .. MaxRecords |-> 0]
    /\ UNCHANGED <<now, history>>

\* Changes with one: names the root of every record not seen.
Changes ==
    /\ cursor.held
    /\ LET recs == InWindow(history, cursor.since - Overlap)
           unseen == {r \in recs : r.id \notin cursor.seen}
       IN /\ reported' = [id \in 1 .. MaxRecords |->
                IF \E r \in unseen : r.id = id THEN reported[id] + 1 ELSE reported[id]]
          /\ cursor' = Advanced(recs, cursor, unseen # {})
    /\ UNCHANGED <<now, history, atHead>>

\* An answer over the service's list cap, or a cursor of another version:
\* Expired.  The caller drops the cursor; a whole pass stands for the records.
ExpireCursor ==
    /\ cursor.held
    /\ cursor' = NoCursor
    /\ UNCHANGED <<now, history, reported, atHead>>

\* The service commits a record.
CommitRecord(date) ==
    /\ Cardinality(history) < MaxRecords
    /\ history' = history \union
          {[id |-> Cardinality(history) + 1, date |-> date, at |-> now]}
    /\ UNCHANGED <<now, cursor, reported, atHead>>

Tick ==
    /\ now < MaxNow
    /\ now' = now + 1
    /\ UNCHANGED <<history, cursor, reported, atHead>>

HNext ==
    \/ TakeHead \/ Changes \/ ExpireCursor \/ Tick
    \/ \E d \in (now - MaxLate) .. (now + MaxAhead) : CommitRecord(d)

HSpec == HInit /\ [][HNext]_hvars

(***************************************************************************)
(* Properties                                                              *)
(***************************************************************************)

\* "a record is reported at most once": the ids the cursor holds are those
\* of the window the next call reads again.
ReportedOnce == \A id \in DOMAIN reported : reported[id] <= 1

\* How far ahead of the clock a counted record may be dated.
DatedAhead == Min({Overlap, Max({0} \union {r.date - r.at : r \in history})})

\* r is committed so soon after its date that the re-read window, less what
\* other records are dated ahead, reaches back to it.
InSlack(r) == r.at - r.date + DatedAhead <= Overlap

\* A record committed late, after later-dated ones were reported, is not
\* behind the cursor: it has been reported or the next call finds it, once its
\* date has come.
NothingMissed ==
    cursor.held =>
        \A r \in history \ atHead :
            InSlack(r) /\ reported[r.id] = 0 =>
                r.date >= cursor.since - Overlap /\ r.id \notin cursor.seen

\* A source's change reaches its caller once, however late or early the
\* service dates it.
HistoryWhole == ReportedOnce /\ NothingMissed
=============================================================================
