------------------------------- MODULE AniDB -------------------------------
(***************************************************************************)
(* provider/anidb: the lookups of AniDB episode ids that share a mapping   *)
(* of series, a cache of episodes, one request rate, and what AniDB has    *)
(* said: a ban, or a refusal of the client key.                            *)
(*                                                                         *)
(* A caller asks for one episode of a TVDB series.  AnimeList is the anime *)
(* list, in the file's order; Has the episodes AniDB has of a series.      *)
(***************************************************************************)
EXTENDS Integers, Sequences, SequencesExt, FiniteSets

CONSTANTS
    Callers,
    Asked,      \* caller -> the [tvdb, season, episode] it asks for
    AnimeList,  \* the entries of anime-list.xml
    Has         \* AniDB series -> its episode numbers

(***************************************************************************)
(* anidb_mapping.go: the AniDB series and number of a TVDB episode.        *)
(***************************************************************************)

NotMapped == [series |-> 0, number |-> 0]
Mapped(series, number) == [series |-> series, number |-> number]

\* findEpisodeInMapping, of a text as its pairs: the first that names e
PairFor(pairs, e) ==
    LET hits == SelectSeq(pairs, LAMBDA p : e \in p.tvdb)
    IN IF hits = <<>> THEN 0 ELSE hits[1].anidb

\* resolveAbsoluteMapping: a pair of the season's wins over its offsets, and
\* of those the first that stays positive.
AbsoluteMapping(entry, season, e) ==
    LET ofSeason == SelectSeq(entry.mappings, LAMBDA m : m.season = season)
        exact == SelectSeq(ofSeason, LAMBDA m : PairFor(m.pairs, e) > 0)
        shifted == SelectSeq(ofSeason, LAMBDA m : e - m.offset > 0)
    IN IF exact # <<>> THEN Mapped(entry.id, PairFor(exact[1].pairs, e))
       ELSE IF shifted # <<>> THEN Mapped(entry.id, e - shifted[1].offset)
       ELSE NotMapped

\* bestCandidate: of the parts of a season the last that begins before e
BestCandidate(entries, e) ==
    LET before == {i \in DOMAIN entries : e > entries[i].offset}
        best == CHOOSE i \in before : \A j \in before : entries[j].offset <= entries[i].offset
    IN IF before = {} THEN NotMapped ELSE Mapped(entries[best].id, e - entries[best].offset)

\* findInMapping
FindInMapping(list, ask) ==
    LET ofSeries == SelectSeq(list, LAMBDA a : a.tvdb = ask.tvdb)
        absolute == SelectSeq(ofSeries, LAMBDA a :
            a.absolute /\ AbsoluteMapping(a, ask.season, ask.episode) # NotMapped)
        parts == SelectSeq(ofSeries, LAMBDA a : ~a.absolute /\ a.season = ask.season)
    IN IF absolute # <<>> THEN AbsoluteMapping(absolute[1], ask.season, ask.episode)
       ELSE BestCandidate(parts, ask.episode)

Want == [c \in Callers |-> FindInMapping(AnimeList, Asked[c])]
Series == {Want[c].series : c \in Callers} \ {0}

(***************************************************************************)
(* The machine                                                             *)
(***************************************************************************)

VARIABLES
    list,      \* the parsed list: "none", "fresh", or "stale" after 24 hours
    fetching,  \* mappingSF has a fetch of the list under way
    cached,    \* the <<series, number>> in episodeCache
    rejected,  \* clientRejected is set
    answered,  \* clientAnswered
    banned,    \* before banUntil
    slot,      \* rateCh holds its one token
    timers,    \* timers that will put it back
    request,    \* series -> its request: "none", "pacing", "sent"
    check,     \* CheckClientKey: "idle", "pacing", "sent"
    caller     \* caller -> where its lookup is

verdict == <<rejected, answered, banned>>
pace == <<slot, timers>>
avars == <<list, fetching, cached, verdict, pace, request, check, caller>>

AInit ==
    /\ list = "none" /\ fetching = FALSE /\ cached = {}
    /\ rejected = FALSE /\ answered = FALSE /\ banned = FALSE
    /\ slot = 1 /\ timers = 0
    /\ request = [s \in Series |-> "none"] /\ check = "idle"
    /\ caller = [c \in Callers |-> "idle"]

Moved(from, to) == [c \in Callers |-> IF caller[c] = from THEN to ELSE caller[c]]
Told(s, to) ==
    [c \in Callers |-> IF caller[c] = "waiting" /\ Want[c].series = s THEN to ELSE caller[c]]

Resolve(c) ==
    /\ caller[c] = "idle"
    /\ caller' = [caller EXCEPT ![c] = "mapping"]
    /\ UNCHANGED <<list, fetching, cached, verdict, pace, request, check>>

\* parsedMapping, its look; then mappingSF, whose fetch all share
ParsedMapping(c) ==
    /\ caller[c] = "mapping"
    /\ caller' = [caller EXCEPT ![c] = IF list = "fresh" THEN "mapped" ELSE "joinList"]
    /\ UNCHANGED <<list, fetching, cached, verdict, pace, request, check>>

JoinMapping(c) ==
    /\ caller[c] = "joinList"
    /\ fetching' = TRUE
    /\ caller' = [caller EXCEPT ![c] = "awaitList"]
    /\ UNCHANGED <<list, cached, verdict, pace, request, check>>

\* A new list empties the episode cache; without one a stale list serves.
MappingAnswer(ok) ==
    /\ fetching
    /\ fetching' = FALSE
    /\ IF ok THEN list' = "fresh" /\ cached' = {} ELSE UNCHANGED <<list, cached>>
    /\ caller' = Moved("awaitList", IF ok \/ list # "none" THEN "mapped" ELSE "nothing")
    /\ UNCHANGED <<verdict, pace, request, check>>

\* episodeID, its look: the refusal before the cache, the cache before a ban
EpisodeID(c) ==
    LET w == Want[c]
    IN /\ caller[c] = "mapped"
       /\ caller' = [caller EXCEPT ![c] =
              CASE w.series = 0 \/ w.number <= 0 \/ rejected -> "nothing"
                [] w.series # 0 /\ w.number > 0 /\ ~rejected /\ <<w.series, w.number>> \in cached -> "found"
                [] OTHER -> IF banned THEN "nothing" ELSE "join"]
       /\ UNCHANGED <<list, fetching, cached, verdict, pace, request, check>>

\* sf: the first caller of a series makes the request, the others wait.
JoinFlight(c) ==
    LET s == Want[c].series
    IN /\ caller[c] = "join"
       /\ caller' = [caller EXCEPT ![c] = "waiting"]
       /\ request' = IF request[s] = "none" THEN [request EXCEPT ![s] = "pacing"] ELSE request
       /\ UNCHANGED <<list, fetching, cached, verdict, pace, check>>

\* rateLimitAniDB: the token, and the timer that puts it back in two seconds
RateLimit == slot = 1 /\ slot' = 0 /\ timers' = timers + 1

\* cacheEpisodes sends.
SendEpisodes(s) ==
    /\ request[s] = "pacing"
    /\ RateLimit
    /\ request' = [request EXCEPT ![s] = "sent"]
    /\ UNCHANGED <<list, fetching, cached, verdict, check, caller>>

\* Faulty RejectClient: a refusal is no answer.
RejectOnly == rejected' = TRUE /\ answered' = answered

RejectClient == rejected' = TRUE /\ answered' = TRUE

\* cacheEpisodes gets the series' episodes, an error envelope or nothing.
EpisodesAnswer(s, what) ==
    /\ request[s] = "sent"
    /\ request' = [request EXCEPT ![s] = "none"]
    /\ CASE what = "data" ->
              /\ cached' = cached \union {<<s, n>> : n \in Has[s]}
              /\ answered' = TRUE /\ UNCHANGED <<rejected, banned>>
              /\ caller' = Told(s, "read")
         [] what = "banned" ->
              banned' = TRUE /\ UNCHANGED <<cached, rejected, answered>> /\ caller' = Told(s, "nothing")
         [] what = "refused" ->
              RejectClient /\ UNCHANGED <<cached, banned>> /\ caller' = Told(s, "nothing")
         [] OTHER ->
              UNCHANGED <<cached, verdict>> /\ caller' = Told(s, "nothing")
    /\ UNCHANGED <<list, fetching, pace, check>>

\* The context of the caller a request began for ends, for all it is shared by.
CancelFlight(s) ==
    /\ request[s] = "pacing"
    /\ request' = [request EXCEPT ![s] = "none"]
    /\ caller' = Told(s, "nothing")
    /\ UNCHANGED <<list, fetching, cached, verdict, pace, check>>

\* episodeID's second look: what a refresh or a forgotten verdict emptied
\* meanwhile is not found.
ReadCached(c) ==
    /\ caller[c] = "read"
    /\ caller' = [caller EXCEPT ![c] =
           IF <<Want[c].series, Want[c].number>> \in cached THEN "found" ELSE "nothing"]
    /\ UNCHANGED <<list, fetching, cached, verdict, pace, request, check>>

\* CheckClientKey: a request of its own, which stores no verdict
StartCheck ==
    /\ check = "idle" /\ check' = "pacing"
    /\ UNCHANGED <<list, fetching, cached, verdict, pace, request, caller>>
SendCheck ==
    /\ check = "pacing" /\ RateLimit /\ check' = "sent"
    /\ UNCHANGED <<list, fetching, cached, verdict, request, caller>>
EndCheck ==
    /\ check \in {"pacing", "sent"} /\ check' = "idle"
    /\ UNCHANGED <<list, fetching, cached, verdict, pace, request, caller>>

ForgetClientKeyVerdict ==
    /\ answered' = FALSE /\ rejected' = FALSE /\ cached' = {}
    /\ UNCHANGED <<list, fetching, banned, pace, request, check, caller>>

PutBack ==
    /\ timers > 0
    /\ timers' = timers - 1 /\ slot' = 1
    /\ UNCHANGED <<list, fetching, cached, verdict, request, check, caller>>

BanEnds ==
    /\ banned /\ banned' = FALSE
    /\ UNCHANGED <<list, fetching, cached, rejected, answered, pace, request, check, caller>>

MappingAges ==
    /\ list = "fresh" /\ list' = "stale"
    /\ UNCHANGED <<fetching, cached, verdict, pace, request, check, caller>>

Answers == {"data", "banned", "refused", "failed"}

Fetch(s) == SendEpisodes(s) \/ \E what \in Answers : EpisodesAnswer(s, what)
Look(c) == ParsedMapping(c) \/ JoinMapping(c) \/ EpisodeID(c) \/ JoinFlight(c) \/ ReadCached(c)

MappingEnds == \E ok \in BOOLEAN : MappingAnswer(ok)

ANext ==
    \/ \E c \in Callers : Resolve(c) \/ Look(c)
    \/ MappingEnds
    \/ \E s \in Series : Fetch(s) \/ CancelFlight(s)
    \/ StartCheck \/ SendCheck \/ EndCheck
    \/ ForgetClientKeyVerdict \/ PutBack \/ BanEnds \/ MappingAges

\* Lookups run, the timer fires, a request ends, by its timeout at last; and
\* those that wait for the slot get it in turn, as a channel's receivers do.
AFairness ==
    /\ \A c \in Callers : WF_avars(Look(c))
    /\ WF_avars(MappingEnds) /\ WF_avars(PutBack)
    /\ \A s \in Series : SF_avars(Fetch(s))
ASpec == AInit /\ [][ANext]_avars /\ AFairness

(***************************************************************************)
(* Properties                                                              *)
(***************************************************************************)

\* What is shown of the key agrees with itself: it is not refused and
\* unheard of, and a series' episodes are cached all or none, so a number not
\* cached after a fetch is one AniDB does not have, or one emptied since.
VerdictNamed == rejected => answered
SeriesWhole ==
    \A s \in Series : {n \in Has[s] : <<s, n>> \in cached} \in {{}, Has[s]}

\* "when AniDB returns an <error> XML body, suppress further API calls for
\* this long so we don't amplify a ban"
\* The code does not keep it: see the README's disagreements.
BanHolds ==
    [][banned => \A s \in Series : request[s] = "pacing" => request'[s] # "sent"]_avars
=============================================================================
