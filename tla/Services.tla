------------------------------ MODULE Services ------------------------------
(***************************************************************************)
(* The services beside the library's core, each a machine of its own that  *)
(* shares no state with the others: the store's lists and small tables,    *)
(* the change feed, an account of OpenSubtitles, the history cursor, the   *)
(* downloads and searches of HDBits, the lookups of AniDB, a source's walk *)
(* and the caches of a source set.  A behaviour is of one of them, `part`, *)
(* and the others stay as they began.                                      *)
(***************************************************************************)
EXTENDS StoreReads, ChangeFeed, OpenSubtitles, ArrHistory, HDBits, AniDB, SourceSet

VARIABLE part

allVars == <<part, rvars, fvars, ovars, hvars, dvars, avars, svars>>

Init ==
    /\ part \in {"store", "feed", "account", "history", "packs", "torrents", "lookups", "walk", "sets"}
    /\ RInit /\ FInit /\ OInit /\ HInit /\ DInit /\ AInit /\ SInit

StoreStep == part = "store" /\ RNext /\ UNCHANGED <<part, fvars, ovars, hvars, dvars, avars, svars>>
FeedStep == part = "feed" /\ FNext /\ UNCHANGED <<part, rvars, ovars, hvars, dvars, avars, svars>>
AccountStep == part = "account" /\ ONext /\ UNCHANGED <<part, rvars, fvars, hvars, dvars, avars, svars>>
HistoryStep == part = "history" /\ HNext /\ UNCHANGED <<part, rvars, fvars, ovars, dvars, avars, svars>>
PacksStep == part = "packs" /\ DownloadNext /\ UNCHANGED <<part, rvars, fvars, ovars, hvars, avars, svars>>
TorrentsStep == part = "torrents" /\ SearchNext /\ UNCHANGED <<part, rvars, fvars, ovars, hvars, avars, svars>>
LookupsStep == part = "lookups" /\ ANext /\ UNCHANGED <<part, rvars, fvars, ovars, hvars, dvars, svars>>
WalkStep == part = "walk" /\ WalkNext /\ UNCHANGED <<part, rvars, fvars, ovars, hvars, dvars, avars>>
SetsStep == part = "sets" /\ SetsNext /\ UNCHANGED <<part, rvars, fvars, ovars, hvars, dvars, avars>>

Next ==
    \/ StoreStep \/ FeedStep \/ AccountStep \/ HistoryStep \/ PacksStep
    \/ TorrentsStep \/ LookupsStep \/ WalkStep \/ SetsStep

\* Each service's own fairness (OSpec, ASpec, SSpec)
Fairness ==
    /\ WF_ovars(part = "account" /\ OProgress)
    /\ \A c \in Callers : WF_avars(part = "lookups" /\ Look(c))
    /\ WF_avars(part = "lookups" /\ MappingEnds) /\ WF_avars(part = "lookups" /\ PutBack)
    /\ \A s \in Series : SF_avars(part = "lookups" /\ Fetch(s))
    /\ WF_svars(part = "sets" /\ FillEnds)
    /\ \A v \in Viewers : WF_svars(part = "sets" /\ Answer(v))

Spec == Init /\ [][Next]_allVars /\ Fairness

(***************************************************************************)
(* Properties                                                              *)
(***************************************************************************)

\* What a cache keeps is what a request for it would find: season packs, each
\* fetched by one call at a time; a series' episodes, all or none, with the
\* verdict on the key; the root folders of the connection configured
\* (provider/hdbits, provider/anidb, mediasource).
CachesWhole == PackSharedOnce /\ SeriesWhole /\ VerdictNamed /\ OwnRoots

\* An answer with no error is the whole answer: every torrent was looked up,
\* and the caller of a walk was told of every root once (provider/hdbits,
\* mediasource).
AnswersWhole == ResultsAreWhole /\ WalkIsWhole

\* Every caller is answered: of OpenSubtitles, though it waits on another's
\* login and on the rate all share; of AniDB, on the list others fetch, another
\* caller's request and the rate; of a source set, on a fill another started.
CallersAnswered ==
    /\ CallsEnd
    /\ \A c \in Callers :
          part = "lookups" /\ caller[c] # "idle" ~> caller[c] \in {"found", "nothing"}
    /\ \A v \in Viewers : part = "sets" /\ viewer[v] # 0 ~> viewer[v] = 0
=============================================================================
