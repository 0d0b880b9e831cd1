------------------------------- MODULE HDBits -------------------------------
(***************************************************************************)
(* provider/hdbits: season packs downloaded by several episodes at once    *)
(* through one LRU cache, and a search over a title's torrents.            *)
(***************************************************************************)
EXTENDS Integers, Sequences, FiniteSets, SequencesExt

CONSTANTS
    Fetchers,   \* concurrent Download calls
    Packs,      \* subtitle ids
    Oversize,   \* the packs over MaxCacheItemSize
    MaxEntries, \* MaxCacheEntries
    Torrents,   \* a title's torrents, by position 1 .. Torrents
    Workers,    \* TorrentLookupConcurrency
    MaxFetches, \* bound: Download calls made
    MaxClears   \* bound: ClearCache calls

Free == "free"

ASSUME DownloadAssumption == MaxEntries \in Nat \ {0} /\ Free \notin Fetchers /\ Packs # {}
ASSUME SearchAssumption == Torrents \in Nat

VARIABLES
    lru,       \* the packs cached, least recently used first
    flight,    \* pack -> the fetcher that fetches it, or Free
    fetcher,   \* fetcher -> where it is, and the pack it wants
    once,      \* dc.saturated: fresh, running or done
    fetches, clears,
    dispatch,  \* a search: the next torrent to look up
    lookup,    \* torrent -> where its lookup is
    search     \* the search: its group's error, its context, its answer

downloading == <<lru, flight, fetcher, once, fetches, clears>>
lookups == <<dispatch, lookup, search>>
dvars == <<downloading, lookups>>

DInit ==
    /\ lru = <<>>
    /\ flight = [p \in Packs |-> Free]
    /\ fetcher = [f \in Fetchers |-> [at |-> "idle", pack |-> CHOOSE p \in Packs : TRUE]]
    /\ once = "fresh" /\ fetches = 0 /\ clears = 0
    /\ dispatch = 1
    /\ lookup = [t \in 1 .. Torrents |-> "unstarted"]
    /\ search = [stopped |-> FALSE, cancelled |-> FALSE, answer |-> "none"]

(***************************************************************************)
(* Download                                                                *)
(***************************************************************************)

Cached(p) == Contains(lru, p)
PlaceOf(p) == CHOOSE i \in 1 .. Len(lru) : lru[i] = p
Used(p) == Append(RemoveAt(lru, PlaceOf(p)), p)
Go(f, where) == [fetcher EXCEPT ![f].at = where]

Begin(f, p) ==
    /\ fetcher[f].at = "idle" /\ fetches < MaxFetches
    /\ fetches' = fetches + 1
    /\ fetcher' = [fetcher EXCEPT ![f] = [at |-> "look", pack |-> p]]
    /\ UNCHANGED <<lru, flight, once, clears, lookups>>

\* dc.get: a hit is also the most recently used.
Get(f) ==
    LET p == fetcher[f].pack IN
    /\ fetcher[f].at = "look"
    /\ IF Cached(p) THEN lru' = Used(p) /\ fetcher' = Go(f, "idle")
       ELSE UNCHANGED lru /\ fetcher' = Go(f, "join")
    /\ UNCHANGED <<flight, once, fetches, clears, lookups>>

\* Faulty Recheck: the flight's leader trusts the miss it came with.
RecheckNothing(p) == FALSE

\* The leader looks again, inside the flight.
Recheck(p) == Cached(p)

\* dlSfg.Do
Join(f) ==
    LET p == fetcher[f].pack IN
    /\ fetcher[f].at = "join"
    /\ IF flight[p] # Free THEN UNCHANGED <<lru, flight>> /\ fetcher' = Go(f, "waiting")
       ELSE IF Recheck(p) THEN UNCHANGED flight /\ lru' = Used(p) /\ fetcher' = Go(f, "idle")
       ELSE UNCHANGED lru /\ flight' = [flight EXCEPT ![p] = f] /\ fetcher' = Go(f, "fetching")
    /\ UNCHANGED <<once, fetches, clears, lookups>>

\* The flight ends: those who waited have its answer.
Landed(p) ==
    /\ flight' = [flight EXCEPT ![p] = Free]
    /\ fetcher' = [g \in Fetchers |->
           IF g = flight[p] \/ (fetcher[g].at = "waiting" /\ fetcher[g].pack = p)
           THEN [fetcher[g] EXCEPT !.at = "idle"] ELSE fetcher[g]]

\* Faulty MakeRoom: a full cache takes one entry too many.
MakeNoRoom == lru

\* evictOldest when full
MakeRoom == IF Len(lru) >= MaxEntries THEN Tail(lru) ELSE lru

\* doFetch, and put of what fits.  A failed fetch stores nothing.
Fetched(f) ==
    LET p == fetcher[f].pack IN
    /\ fetcher[f].at = "fetching"
    /\ \/ UNCHANGED lru /\ Landed(p)
       \/ p \notin Oversize /\ lru' = (IF Cached(p) THEN lru ELSE Append(MakeRoom, p)) /\ Landed(p)
       \/ /\ p \in Oversize /\ UNCHANGED <<lru, flight>>
          /\ fetcher' = Go(f, "saturated")
    /\ UNCHANGED <<once, fetches, clears, lookups>>

\* saturated.Do, outside dc.mu: Once's own mutex is held while it warns.
Saturate(f) ==
    LET p == fetcher[f].pack IN
    /\ fetcher[f].at = "saturated"
    /\ \/ once = "done" /\ UNCHANGED once /\ Landed(p)
       \/ once = "fresh" /\ once' = "running" /\ fetcher' = Go(f, "warning") /\ UNCHANGED flight
    /\ UNCHANGED <<lru, fetches, clears, lookups>>

\* Do unlocks the mutex it locked.  One that was overwritten meanwhile is
\* not locked, and unlocking it is fatal.
Warned(f) ==
    /\ fetcher[f].at = "warning"
    /\ IF once = "running"
       THEN once' = "done" /\ Landed(fetcher[f].pack)
       ELSE UNCHANGED <<once, flight>> /\ fetcher' = Go(f, "fatal")
    /\ UNCHANGED <<lru, fetches, clears, lookups>>

\* ClearCache: dc.clear gives the cache a new Once.
ClearCache ==
    /\ clears < MaxClears
    /\ clears' = clears + 1
    /\ lru' = <<>> /\ once' = "fresh"
    /\ UNCHANGED <<flight, fetcher, fetches, lookups>>

(***************************************************************************)
(* Search: collectSubtitles                                                *)
(***************************************************************************)

Running == {t \in 1 .. Torrents : lookup[t] = "running"}
GroupEnded == search.stopped \/ search.cancelled

\* The next torrent, when its delay has passed and a worker is free.  The
\* first needs no delay, so it starts whatever the context.
Dispatch ==
    /\ dispatch <= Torrents /\ search.answer = "none"
    /\ dispatch > 1 => ~GroupEnded
    /\ Cardinality(Running) < Workers
    /\ dispatch' = dispatch + 1
    /\ lookup' = [lookup EXCEPT ![dispatch] = IF GroupEnded THEN "skipped" ELSE "running"]
    /\ UNCHANGED <<downloading, search>>

\* Its delay is cut short.
StopDispatch ==
    /\ 1 < dispatch /\ dispatch <= Torrents /\ GroupEnded
    /\ dispatch' = Torrents + 1
    /\ UNCHANGED <<downloading, lookup, search>>

\* A slot freed after the group's end goes to one that starts for nothing.
LateSlot ==
    /\ dispatch <= Torrents /\ dispatch > 1 /\ GroupEnded
    /\ dispatch' = dispatch + 1
    /\ lookup' = [lookup EXCEPT ![dispatch] = "skipped"]
    /\ UNCHANGED <<downloading, search>>

\* lookupTorrent: its subtitles, a failure that is skipped, or a stop error,
\* which ends the group.
LookedUp(t) ==
    /\ lookup[t] = "running"
    /\ \/ ~GroupEnded /\ lookup' = [lookup EXCEPT ![t] = "added"] /\ UNCHANGED search
       \/ lookup' = [lookup EXCEPT ![t] = "failed"] /\ UNCHANGED search
       \/ /\ ~GroupEnded
          /\ lookup' = [lookup EXCEPT ![t] = "refused"]
          /\ search' = [search EXCEPT !.stopped = TRUE]
    /\ UNCHANGED <<downloading, dispatch>>

\* The caller's context ends.
CancelSearch ==
    /\ search.answer = "none" /\ ~search.cancelled
    /\ search' = [search EXCEPT !.cancelled = TRUE]
    /\ UNCHANGED <<downloading, dispatch, lookup>>

\* Faulty SearchAnswer: the context is not looked at again.
SearchAnswerUnchecked == IF search.stopped THEN "error" ELSE "results"

\* g.Wait's error, or the context's, before what was collected
SearchAnswer == IF search.stopped \/ search.cancelled THEN "error" ELSE "results"

Collect ==
    /\ dispatch > Torrents /\ Running = {} /\ search.answer = "none"
    /\ search' = [search EXCEPT !.answer = SearchAnswer]
    /\ UNCHANGED <<downloading, dispatch, lookup>>

DownloadNext ==
    \/ \E f \in Fetchers :
        (\E p \in Packs : Begin(f, p)) \/ Get(f) \/ Join(f) \/ Fetched(f) \/ Saturate(f) \/ Warned(f)
    \/ ClearCache

SearchNext ==
    \/ Dispatch \/ StopDispatch \/ LateSlot \/ CancelSearch \/ Collect
    \/ \E t \in 1 .. Torrents : LookedUp(t)

\* Nothing is shared between the two.
DSpec == DInit /\ [][DownloadNext \/ SearchNext]_dvars

(***************************************************************************)
(* Properties                                                              *)
(***************************************************************************)

\* A pack's archive is fetched by one caller at a time, and never while it is
\* cached: episodes that ask at once, or just after, share one download.  The
\* cache stays within its bound, each pack in it once.
PackSharedOnce ==
    /\ \A f, g \in Fetchers :
        fetcher[f].at = "fetching" /\ fetcher[g].at = "fetching" /\ f # g =>
            fetcher[f].pack # fetcher[g].pack
    /\ \A f \in Fetchers : fetcher[f].at = "fetching" => ~Cached(fetcher[f].pack)
    /\ Len(lru) <= MaxEntries /\ IsInjective(lru)

\* A search that answers its results looked at every torrent: one cut short,
\* by its caller or by an answer every later call would repeat, is an error.
ResultsAreWhole ==
    search.answer = "results" => \A t \in 1 .. Torrents : lookup[t] \in {"added", "failed"}

\* "downloadCache is a thread-safe LRU cache": no call of it is fatal.
\* The code does not keep it: see the README's disagreements.
ThreadSafe == \A f \in Fetchers : fetcher[f].at # "fatal"
=============================================================================
