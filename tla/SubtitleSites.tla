--------------------------- MODULE SubtitleSites ---------------------------
(***************************************************************************)
(* provider/subsource, gestdown, subdl, betaseries, yifysubtitles,         *)
(* animetosho and the numbering part of opensubtitles: what a search and a *)
(* download make of the answers they get.                                  *)
(*                                                                         *)
(* A response is its HTTP code (0: none, or one that does not decode), the *)
(* body's own verdict (said) and its data.  An outcome is an error class,  *)
(* "" for none, and the subtitles, in order.  A title is its set of words. *)
(***************************************************************************)
EXTENDS Integers, Sequences, SequencesExt, FiniteSets

CONSTANTS
    MaxEntries,  \* maxSearchEntries
    MaxPages,    \* paginatedSearch's maxPages
    Attempts,    \* RetryOnRateLimit's maxAttempts
    MaxBody,     \* maxResponseBodyBytes
    IntText      \* the texts of the integers an int holds

Found(subs) == [err |-> "", subs |-> subs]
Failed(err) == [err |-> err, subs |-> <<>>]
Nothing == Found(<<>>)

\* httpwire.CheckHTTPStatus
StatusError(r) ==
    CASE r.code \in {401, 403} -> "auth"
      [] r.code = 429 -> "limited"
      [] r.code = 200 -> ""
      [] OTHER -> "error"

(***************************************************************************)
(* provider/classify: a comment is the kinds of pattern it contains.  The  *)
(* denying patterns come first in the table.                               *)
(***************************************************************************)
IsForced(comment) == "forced" \in comment
IsHearingImpaired(comment, file) ==
    "_hi_" \in file \/ ("nonhi" \notin comment /\ "hi" \in comment)

\* The names the registry and the sites have for the codes they differ by
RegistryName == [en |-> "English", fr |-> "French", pt |-> "Portuguese",
                 zh |-> "Chinese", pb |-> "Brazilian Portuguese"]
SubSourceName == [RegistryName EXCEPT !.pb = "Brazillian Portuguese", !.zh = "Chinese BG code"]
SubDLName == [en |-> "EN", fr |-> "FR", pt |-> "PT", zh |-> "ZH", pb |-> "BR_PT"]
OpenSubtitlesName == [en |-> "en", fr |-> "fr", pt |-> "pt-PT", zh |-> "zh-CN", pb |-> "pt-BR"]

NamesOf(site) ==
    CASE site = "subsource" -> SubSourceName
      [] site = "subdl" -> SubDLName
      [] site = "opensubtitles" -> OpenSubtitlesName
      [] OTHER -> RegistryName
SiteName(site, code) == IF code \in DOMAIN RegistryName THEN NamesOf(site)[code] ELSE ""

\* The code a name stands for, "" for none
Reversed(names, name) ==
    LET codes == {c \in DOMAIN names : names[c] = name}
    IN IF codes = {} THEN "" ELSE CHOOSE c \in codes : TRUE
BetaSeriesCode(name) ==
    CASE name \in {"vo", "en"} -> "en" [] name \in {"vf", "fr"} -> "fr" [] OTHER -> ""
\* fromOSLang: an unknown name is passed on
OpenSubtitlesCode(name) ==
    CASE name = "ea" -> "es"
      [] Reversed(OpenSubtitlesName, name) # "" -> Reversed(OpenSubtitlesName, name)
      [] OTHER -> name
CodeOf(site, name) ==
    CASE site = "betaseries" -> BetaSeriesCode(name)
      [] site = "opensubtitles" -> OpenSubtitlesCode(name)
      [] OTHER -> Reversed(NamesOf(site), name)

\* Subtitles of parts asked one by one, failures apart; one error stands for
\* all where no part was answered.
Joined(parts) == FoldLeft(LAMBDA all, o : all \o o.subs, <<>>, parts)

\* Faulty Aggregate: what was not answered holds nothing.
AggregateQuiet(parts, err) == Found(Joined(parts))

Aggregate(parts, err) ==
    IF Len(parts) > 0 /\ \A i \in DOMAIN parts : parts[i].err # ""
    THEN Failed(err)
    ELSE Found(Joined(parts))

\* The languages of a request the site has a name for
Supported(site, langs) == SelectSeq(langs, LAMBDA l : SiteName(site, l) # "")
PerLanguage(site, langs, answers) ==
    LET ls == Supported(site, langs) IN [i \in DOMAIN ls |-> answers[ls[i]]]

(***************************************************************************)
(* SubSource: a title by IMDb id, else by text, else by another title of   *)
(* the item; then every language at once.                                  *)
(***************************************************************************)

\* apiFailure, of an answer that says no; a refused title reads as no data
SourceError(r) ==
    IF StatusError(r) # "" THEN StatusError(r)
    ELSE CASE r.said = "key" -> "auth" [] r.said = "other" -> "error" [] OTHER -> ""
SourceData(r) == IF r.said = "yes" THEN r.data ELSE <<>>

MatchTitle(data, title, year) ==
    LET hits == SelectSeq(data, LAMBDA d : title \subseteq d.title /\ (year = 0 \/ d.year = year))
    IN IF hits = <<>> THEN 0 ELSE hits[1].id

\* searchTitleUncached and searchTitleByText
SearchTitle(ask, req, title) ==
    LET byId == ask[title].imdb
        byText == ask[title].text
        Answer(r) == IF SourceError(r) # "" THEN [err |-> SourceError(r), id |-> 0]
                     ELSE [err |-> "", id |-> MatchTitle(SourceData(r), title, req.year)]
    IN IF SourceError(byId) = "" /\ SourceData(byId) = <<>> /\ title # {}
       THEN Answer(byText) ELSE Answer(byId)

FatalSearchError(err) == err \in {"limited", "auth"}

\* Faulty TitleWithAlternatives: the last title's answer is the answer.
TitleLastWord(ask, req) ==
    LET titles == <<req.title>> \o req.alternatives
        answers == [i \in DOMAIN titles |-> SearchTitle(ask, req, titles[i])]
        found == {i \in DOMAIN titles : answers[i].id > 0}
    IN IF found # {} THEN answers[CHOOSE i \in found : \A j \in found : i <= j]
       ELSE answers[Len(titles)]

\* searchTitleWithAlternatives: the first id, unless the title itself fails or
\* another fails for good before it; with no id, the first failure
TitleWithAlternatives(ask, req) ==
    LET titles == <<req.title>> \o req.alternatives
        answers == [i \in DOMAIN titles |-> SearchTitle(ask, req, titles[i])]
        ends == {i \in DOMAIN titles :
                    answers[i].id > 0 \/ FatalSearchError(answers[i].err)
                       \/ (i = 1 /\ answers[i].err # "")}
        failures == {i \in DOMAIN titles : answers[i].err # ""}
        Least(S) == CHOOSE i \in S : \A j \in S : i <= j
    IN IF ends # {} THEN answers[Least(ends)]
       ELSE IF failures # {} THEN answers[Least(failures)]
       ELSE [err |-> "", id |-> 0]

\* buildSubtitles: one subtitle for each release an item names
SourceSubtitles(items, lang) ==
    LET kept == SelectSeq(items, LAMBDA s : ~s.foreign /\ ~IsForced(s.comment))
        Each(s) == [j \in DOMAIN s.releases |->
                       [id |-> s.id, lang |-> lang, release |-> s.releases[j],
                        hi |-> s.hi \/ IsHearingImpaired(s.comment, {})]]
    IN FlattenSeq([i \in DOMAIN kept |->
                      Each(IF kept[i].releases = <<>> THEN [kept[i] EXCEPT !.releases = <<"">>]
                           ELSE kept[i])])

QuerySubtitles(r, lang) ==
    IF SourceError(r) # "" THEN Failed(SourceError(r))
    ELSE Found(SourceSubtitles(SourceData(r), lang))

SubSourceSearch(req, ask) ==
    LET title == TitleWithAlternatives(ask.titles, req)
        Ask(l) == QuerySubtitles(ask.langs[l], l)
        parts == PerLanguage("subsource", req.langs, [l \in ToSet(req.langs) |-> Ask(l)])
        errors == SelectSeq(parts, LAMBDA o : o.err # "")
    IN IF req.imdb = "" THEN Nothing
       ELSE IF title.err # "" THEN Failed(title.err)
       ELSE IF title.id = 0 THEN Nothing
       ELSE Aggregate(parts, IF errors = <<>> THEN "" ELSE errors[Len(errors)].err)

(***************************************************************************)
(* Gestdown: the shows of a TVDB id; for each language the shows in turn,  *)
(* until one has subtitles or fails.  423 is its rate limit.               *)
(***************************************************************************)

GestdownError(r) == IF r.code = 423 THEN "limited" ELSE StatusError(r)

\* RetryOnRateLimit: the first answer that is no rate limit, of at most Attempts
Settled(rs) ==
    LET tried == SubSeq(rs, 1, IF Len(rs) < Attempts THEN Len(rs) ELSE Attempts)
        other == {i \in DOMAIN tried : GestdownError(tried[i]) # "limited"}
    IN IF other = {} THEN tried[Len(tried)]
       ELSE tried[CHOOSE i \in other : \A j \in other : i <= j]

\* convertSubtitle and filterByEpisode
SeasonSubtitles(r, lang, episode) ==
    IF r.code = 404 THEN Nothing
    ELSE IF GestdownError(r) # "" THEN Failed(GestdownError(r))
    ELSE LET kept == SelectSeq(r.data, LAMBDA s : s.completed /\ s.local /\ s.episode = episode)
         IN Found([i \in DOMAIN kept |-> [id |-> kept[i].id, lang |-> lang]])

\* searchShowsForLang
ShowsForLang(ask, lang, episode) ==
    LET named == SelectSeq(ask.shows.data, LAMBDA s : s # "")
        answers == [i \in DOMAIN named |->
                       SeasonSubtitles(Settled(ask.seasons[named[i]][lang]), lang, episode)]
        ends == {i \in DOMAIN named : answers[i].err # "" \/ answers[i].subs # <<>>}
    IN IF named = <<>> THEN Nothing
       ELSE IF ends = {} THEN Nothing
       ELSE answers[CHOOSE i \in ends : \A j \in ends : i <= j]

GestdownSearch(req, ask) ==
    LET Ask(l) == ShowsForLang(ask, l, req.episode)
    IN IF req.kind # "episode" \/ req.tvdb = 0 \/ ask.shows.code = 404 THEN Nothing
       ELSE IF GestdownError(ask.shows) # "" THEN Failed(GestdownError(ask.shows))
       ELSE IF ask.shows.data = <<>> THEN Nothing
       ELSE Aggregate(PerLanguage("gestdown", req.langs, [l \in ToSet(req.langs) |-> Ask(l)]), "error")

(***************************************************************************)
(* SubDL, BetaSeries and YIFY: one request each.                           *)
(***************************************************************************)

\* buildSearchParams: the identifier a search goes by
SubDLParam(req) ==
    CASE req.imdb # "" -> "imdb"
      [] req.imdb = "" /\ req.kind = "movie" /\ req.tmdb > 0 -> "tmdb"
      [] OTHER -> "title"

\* checkAPIStatus and filterResults
SubDLSearch(req, ask) ==
    LET r == ask.only
        kept == SelectSeq(r.data, LAMBDA s :
                    /\ ~(req.kind = "episode" /\ s.from # s.to)
                    /\ CodeOf("subdl", s.lang) # ""
                    /\ ~IsForced(s.comment))
    IN IF (req.imdb = "" /\ req.tmdb = 0 /\ req.title = {}) \/ Supported("subdl", req.langs) = <<>>
       THEN Nothing
       ELSE IF StatusError(r) # "" THEN Failed(StatusError(r))
       ELSE CASE r.said = "yes" ->
                   Found([i \in DOMAIN kept |->
                            [id |-> kept[i].id, lang |-> CodeOf("subdl", kept[i].lang),
                             by |-> SubDLParam(req)]])
              [] r.said = "key" -> Failed("auth")
              [] r.said = "other" -> Failed("error")
              [] OTHER -> Nothing

\* doGet and classifyBadRequest, then filterSubtitleEntries
BetaSeriesSearch(req, ask) ==
    LET r == ask.only
        kept == SelectSeq(r.data, LAMBDA s :
                    CodeOf("betaseries", s.lang) \in ToSet(req.langs) /\ s.source # "seriessub")
    IN CASE req.kind # "episode" \/ req.tvdb <= 0 -> Nothing
         [] r.code = 400 -> (CASE r.said = "4001" -> Nothing
                               [] r.said = "1001" -> Failed("auth")
                               [] OTHER -> Failed("error"))
         [] r.code = 429 -> Failed("limited")
         [] r.code # 200 -> Failed("error")
         [] r.said = "errors" -> Nothing
         [] OTHER -> Found([i \in DOMAIN kept |->
                              [id |-> kept[i].id, lang |-> CodeOf("betaseries", kept[i].lang)]])

\* fetchPage, parseResults and parseRow
PageError(r) == CASE r.code \in {200, 404} -> "" [] r.code = 429 -> "limited" [] OTHER -> "error"
YifySearch(req, ask) ==
    LET r == ask.only
        kept == SelectSeq(r.data, LAMBDA s :
                    CodeOf("yify", s.lang) \in ToSet(req.langs) /\ s.link)
    IN IF req.kind # "movie" \/ req.imdb \in {"", "odd"} \/ r.code = 404 THEN Nothing
       ELSE IF PageError(r) # "" THEN Failed(PageError(r))
       ELSE Found([i \in DOMAIN kept |->
                      [id |-> kept[i].id, lang |-> CodeOf("yify", kept[i].lang)]])

(***************************************************************************)
(* AnimeTosho: by the AniDB episode id, else by title; each entry's files. *)
(***************************************************************************)

Complete(entries) ==
    LET done == SelectSeq(entries, LAMBDA e : e.complete)
    IN SubSeq(done, 1, IF Len(done) < MaxEntries THEN Len(done) ELSE MaxEntries)

\* fileMatchesEpisode, of what epmarker reads of the file's name
FileMatches(f, req) ==
    \/ <<req.season, req.episode>> \in f.claims
    \/ f.number # 0 /\ (f.number = req.episode \/ (req.absolute > 0 /\ f.number = req.absolute))

\* Faulty MatchFiles: a pack none of whose names is understood is taken whole.
WholePack(files, req) ==
    LET hits == SelectSeq(files, LAMBDA f : FileMatches(f, req))
    IN IF hits = <<>> THEN files ELSE hits

MatchFiles(files, req) ==
    IF Len(files) <= 1 THEN files ELSE SelectSeq(files, LAMBDA f : FileMatches(f, req))

\* attachmentToSubtitle: English where the language is not said
Attachments(file, req) ==
    LET Lang(a) == CASE a.lang = "" -> "en"
                     [] a.lang = "pt" /\ a.brazil -> "pb"
                     [] OTHER -> a.lang
        kept == SelectSeq(file.attachments, LAMBDA a :
                    a.subtitle /\ a.id > 0 /\ Lang(a) \in ToSet(req.langs))
    IN [i \in DOMAIN kept |-> [id |-> kept[i].id, lang |-> Lang(kept[i])]]

EntrySubtitles(r, req) ==
    LET files == MatchFiles(r.data, req)
    IN FlattenSeq([i \in DOMAIN files |-> Attachments(files[i], req)])

\* mergeEntryResults: an id once, under the first entry that has it
MergeEntries(all) ==
    FoldLeft(LAMBDA kept, s : IF \E i \in DOMAIN kept : kept[i].id = s.id THEN kept
                              ELSE Append(kept, s), <<>>, all)

\* collectSubtitles: a failed entry is left out, a rate limit ends the search
CollectEntries(entries, ask, req) ==
    LET valid == SelectSeq(entries, LAMBDA e : e.id > 0)
        r == [i \in DOMAIN valid |-> ask.entries[valid[i].id]]
        good == SelectSeq(valid, LAMBDA e : StatusError(ask.entries[e.id]) = "")
        Named(e) == LET subs == EntrySubtitles(ask.entries[e.id], req)
                    IN [j \in DOMAIN subs |-> [id |-> subs[j].id, lang |-> subs[j].lang, release |-> e.title]]
    IN IF \E i \in DOMAIN valid : StatusError(r[i]) = "limited" THEN Failed("limited")
       ELSE Found(MergeEntries(FlattenSeq([i \in DOMAIN good |-> Named(good[i])])))

FeedSearch(r, ask, req) ==
    IF StatusError(r) # "" THEN Failed(StatusError(r))
    ELSE CollectEntries(Complete(r.data), ask, req)

AnimeToshoSearch(req, ask) ==
    LET byId == FeedSearch(ask.eid, ask, req)
    IN IF req.kind # "episode" \/ req.title = {} THEN Nothing
       ELSE IF req.tvdb > 0 /\ ask.resolves /\ (byId.subs # <<>> \/ byId.err = "limited") THEN byId
       ELSE FeedSearch(ask.feed, ask, req)

(***************************************************************************)
(* OpenSubtitles: an episode under each numbering, each by id, then by     *)
(* title, page by page.                                                    *)
(***************************************************************************)

\* episodeNumberings: the pairs, each once, in order
Numberings(req) ==
    LET Season(s) == IF s <= 0 THEN req.season ELSE s
        scene == <<Season(req.scene[1]), req.scene[2]>>
        base == IF req.scene[1] <= 0 THEN 1 ELSE req.scene[1]
        all == << <<Season(req.season), req.episode>>, scene >>
               \o (IF req.season # 0 THEN << <<base, req.absolute>> >> ELSE <<>>)
        stated == SelectSeq(all, LAMBDA p : p[2] > 0)
    IN IF req.kind # "episode" THEN << <<req.season, req.episode>> >>
       ELSE FoldLeft(LAMBDA kept, p : IF p \in ToSet(kept) THEN kept ELSE Append(kept, p), <<>>, stated)

\* filterSearchResults, by the flags of the source's settings
OSFiltered(data, req) ==
    SelectSeq(data, LAMBDA s :
        /\ s.ai => req.includeAI
        /\ s.mt => req.includeMT
        /\ s.files
        /\ CodeOf("opensubtitles", s.lang) \in ToSet(req.langs))

\* paginatedSearch: page after page until enough, the last one, or a failure
Pages(rs, req) ==
    LET subs(n) == FlattenSeq([i \in 1 .. n |-> OSFiltered(rs[i].data, req)])
        last == IF Len(rs) < MaxPages THEN Len(rs) ELSE MaxPages
        ends == {i \in 1 .. last :
                    \/ StatusError(rs[i]) # ""
                    \/ i = last
                    \/ Len(subs(i)) >= req.maxResults}
        stop == CHOOSE i \in ends : \A j \in ends : i <= j
    IN IF StatusError(rs[stop]) # ""
       THEN [err |-> StatusError(rs[stop]), subs |-> subs(stop - 1)]
       ELSE Found(subs(stop))

\* searchNumbering
OSNumbering(req, ask) ==
    LET byId == Pages(ask.byId, req)
        idSent == req.imdb \notin {"", "tt0"} \/ (req.kind = "movie" /\ req.tmdb # 0)
    IN IF idSent /\ (byId.err # "" \/ byId.subs # <<>>) THEN byId
       ELSE IF req.title = {} THEN Nothing
       ELSE Pages(ask.byTitle, req)

\* Faulty OpenSubtitlesSearch: an error stands only where every part failed.
SilentScheme(req, ask) ==
    IF Len(Numberings(req)) <= 1 THEN OSNumbering(req, ask.schemes[1])
    ELSE Aggregate([i \in DOMAIN Numberings(req) |-> OSNumbering(req, ask.schemes[i])], "error")

\* mergeNumberingResults
MergeNumberings(parts) ==
    LET errors == SelectSeq(parts, LAMBDA o : o.err # "")
        merged == MergeEntries(Joined(SelectSeq(parts, LAMBDA o : o.err = "")))
    IN IF merged = <<>> /\ errors # <<>> THEN Failed(errors[Len(errors)].err)
       ELSE Found(merged)

\* Search
OpenSubtitlesSearch(req, ask) ==
    IF Len(Numberings(req)) <= 1 THEN OSNumbering(req, ask.schemes[1])
    ELSE MergeNumberings([i \in DOMAIN Numberings(req) |-> OSNumbering(req, ask.schemes[i])])

(***************************************************************************)
(* Downloads: the class of what each site's download ends with.  A body is *)
(* a subtitle, one its archive refuses for good, or junk.                  *)
(***************************************************************************)

\* ExtractAndValidate; a lone subtitle is only validated
BodyVerdict(body) ==
    CASE body = "subtitle" -> "" [] body = "refused" -> "permanent" [] OTHER -> "error"
LoneVerdict(body) == IF body = "subtitle" THEN "" ELSE "error"

SubSourceDownload(r) == IF StatusError(r) # "" THEN StatusError(r) ELSE BodyVerdict(r.body)
AnimeToshoDownload(r) == IF StatusError(r) # "" THEN StatusError(r) ELSE LoneVerdict(r.body)

\* Faulty GestdownDownload: its lock is any other status.
GestdownDownloadOpen(r) == AnimeToshoDownload(r)
GestdownDownload(r) == IF GestdownError(r) # "" THEN GestdownError(r) ELSE LoneVerdict(r.body)
BetaSeriesDownload(r) ==
    IF r.code = 404 THEN "absent" ELSE SubSourceDownload(r)
\* The subtitle's page, then the file it links
YifyDownload(r) ==
    CASE r.code = 404 /\ r.page -> "absent"
      [] r.code = 429 -> "limited"
      [] r.code = 200 -> BodyVerdict(r.body)
      [] OTHER -> "error"

\* handleDownloadResponse: a short 500 is the spent quota
SubDLDownload(r) ==
    CASE r.code = 429 \/ (r.code = 500 /\ r.small) -> "limited"
      [] r.code = 200 -> BodyVerdict(r.body)
      [] OTHER -> "error"
\* fetchSubtitleFile: the file is on another host
OpenSubtitlesDownload(r) == IF r.code = 200 THEN LoneVerdict(r.body) ELSE "error"

(***************************************************************************)
(* Properties                                                              *)
(***************************************************************************)

Search(site, req, ask) ==
    CASE site = "subsource" -> SubSourceSearch(req, ask)
      [] site = "gestdown" -> GestdownSearch(req, ask)
      [] site = "subdl" -> SubDLSearch(req, ask)
      [] site = "betaseries" -> BetaSeriesSearch(req, ask)
      [] site = "yify" -> YifySearch(req, ask)
      [] site = "animetosho" -> AnimeToshoSearch(req, ask)
      [] site = "opensubtitles" -> OpenSubtitlesSearch(req, ask)

(***************************************************************************)
(* The providers a configuration loads.  A setting is a kind and its text; *)
(* a field of a schema is [key, type, default], "" for no default, and is  *)
(* required or not; a provider is its fields, and is registered or not.    *)
(***************************************************************************)

\* coerceDefault: a number that is none stays a text
Coerced(f) ==
    CASE f.type = "bool" -> [kind |-> "bool", text |-> IF f.default = "true" THEN "true" ELSE "false"]
      [] f.type = "number" /\ f.default \in IntText -> [kind |-> "int", text |-> f.default]
      [] OTHER -> [kind |-> "string", text |-> f.default]

\* NormalizeSettings: a field that was set is never rewritten
NormalizeSettings(fields, raw) ==
    LET filled == {f \in ToSet(fields) : f.default # "" /\ f.key \notin DOMAIN raw}
    IN [k \in DOMAIN raw \cup {f.key : f \in filled} |->
           IF k \in DOMAIN raw THEN raw[k] ELSE Coerced(CHOOSE f \in filled : f.key = k)]

\* SettingBool, SettingString and SettingInt: def for a value that is no such
SettingBool(settings, key, def) ==
    IF key \in DOMAIN settings /\ settings[key].kind \in {"bool", "string"} /\ settings[key].text \in {"true", "false"}
    THEN settings[key].text ELSE def
SettingString(settings, key) ==
    IF key \in DOMAIN settings /\ settings[key].kind = "string" THEN settings[key].text ELSE ""
SettingInt(settings, key, def) ==
    IF key \in DOMAIN settings /\ settings[key].kind \in {"int", "float", "string"} /\ settings[key].text \in IntText
    THEN settings[key].text ELSE def

\* FromMap: the common keys that are texts, use_hash, and the rest
Common == {"api_key", "username", "password", "passkey", "token"}
FromMap(settings) ==
    [texts |-> [k \in Common |-> SettingString(settings, k)],
     useHash |-> SettingBool(settings, "use_hash", "false"),
     custom |-> [k \in DOMAIN settings \ (Common \cup {"use_hash"}) |-> settings[k]]]

\* A factory fails on a required setting that is blank and on nothing else.
Builds(p, settings) ==
    \A f \in ToSet(p.fields) : f.required => SettingString(settings, f.key) # ""

\* Faulty Activated: what the factory is asked with, as the form has it.
ActivatedRaw(p, raw) == raw

\* Registry.Normalize
Activated(p, raw) == NormalizeSettings(p.fields, raw)

\* LoadAll: config is what is configured of each provider.  Those that are
\* enabled and registered are built in parallel, each on its own; late are
\* the ones whose turn comes after the caller has given up.
ToLoad(known, config) == {n \in DOMAIN config : config[n].enabled /\ n \in DOMAIN known}
LoadAll(known, config, late) ==
    LET built == {n \in ToLoad(known, config) \ late : Builds(known[n], Activated(known[n], config[n].settings))}
    IN [loaded |-> built, errors |-> ToLoad(known, config) \ built]

\* CheckCredentials: checked is what the site says of them
CheckCredentials(known, name, raw, offers, checked) ==
    CASE name \notin DOMAIN known -> "no check"
      [] ~Builds(known[name], NormalizeSettings(known[name].fields, raw)) -> "auth"
      [] ~offers -> "no check"
      [] OTHER -> checked

\* cappedBody: how reads of any length end for a body of n bytes; with no room
\* left one more byte is asked for
BodyReads(n) ==
    LET ends[left \in 0 .. n, room \in 0 .. MaxBody] ==
            CASE room = 0 -> IF left > 0 THEN {"too large"} ELSE {"whole"}
              [] left = 0 -> {"whole"}
              [] OTHER -> UNION {ends[left - k, room - k] : k \in {j \in 1 .. left : j <= room}}
    IN ends[n, MaxBody]

\* A request some site's search goes to the network for
Asks(site, req) ==
    CASE site = "subsource" -> req.imdb # ""
      [] site = "betaseries" -> req.kind = "episode" /\ req.tvdb > 0
      [] site = "gestdown" ->
           req.kind = "episode" /\ req.tvdb > 0 /\ Supported(site, req.langs) # <<>>
      [] site = "subdl" -> Supported(site, req.langs) # <<>>
      [] site = "yify" -> req.kind = "movie" /\ req.imdb \notin {"", "odd"}
      [] site = "animetosho" -> req.kind = "episode"
      [] OTHER -> TRUE

\* The title is known; r refuses or is lost.  With each of its requests so
\* answered no site's search ends as one that found nothing: an outage is told
\* from "no subtitles", whatever languages, titles, shows, entries and
\* numberings it goes through.
OutageHeard(site, req, ask) ==
    req.title # {} /\ Asks(site, req) => Search(site, req, ask).err # ""

\* A SubSource search that finds no title had each lookup answered: a failure
\* followed by a clean "not found" does not pass for one.  With a title, some
\* language was answered.
SubSourceHeard(req, ask) ==
    LET titles == <<req.title>> \o req.alternatives
        answer(i) == SearchTitle(ask.titles, req, titles[i])
        langs == Supported("subsource", req.langs)
    IN SubSourceSearch(req, ask) = Nothing /\ req.imdb # "" =>
         IF \A i \in DOMAIN titles : answer(i).id = 0
         THEN \A i \in DOMAIN titles : answer(i).err = ""
         ELSE langs # <<>> => \E i \in DOMAIN langs : SourceError(ask.langs[langs[i]]) = ""

\* An OpenSubtitles search that finds nothing had every numbering answered.
OpenSubtitlesHeard(req, ask) ==
    OpenSubtitlesSearch(req, ask) = Nothing =>
        \A i \in DOMAIN Numberings(req) : OSNumbering(req, ask.schemes[i]).err = ""

\* Of a pack AnimeTosho offers only what a file naming the episode holds.
PackIsSearched(req, ask) ==
    LET o == AnimeToshoSearch(req, ask)
        Holds(f, s) == \E a \in DOMAIN f.attachments : f.attachments[a].id = s.id
    IN \A s \in ToSet(o.subs) : \E e \in DOMAIN ask.entries :
          LET files == ask.entries[e].data
          IN \E i \in DOMAIN files :
               Holds(files[i], s) /\ (Len(files) > 1 => FileMatches(files[i], req))

\* What a search of a site takes for a rate limit, a download of it does too.
LimitIsLimit(r) ==
    /\ GestdownError(r) = "limited" => GestdownDownload(r) = "limited"
    /\ StatusError(r) = "limited" =>
         \A verdict \in {SubSourceDownload(r), AnimeToshoDownload(r), BetaSeriesDownload(r),
                          YifyDownload(r), SubDLDownload(r)} : verdict = "limited"

\* A provider reads a setting as the operator stored it, else as its schema
\* declares it, and never by a default of its own; normalizing what is
\* normalized changes nothing, and no setting is lost between those that are
\* common and the rest.
SettingsRead(fields, raw) ==
    LET full == NormalizeSettings(fields, raw)
        declared(k) == CHOOSE f \in ToSet(fields) : f.key = k
        fills(k, T) == k \notin DOMAIN raw /\ \E f \in ToSet(fields) : f.key = k /\ f.type = T /\ f.default # ""
        got == FromMap(full)
    IN /\ NormalizeSettings(fields, full) = full
       /\ \A k \in DOMAIN raw : full[k] = raw[k]
       /\ \A f \in ToSet(fields), def \in {"true", "false"} :
             fills(f.key, "bool") /\ f.default \in {"true", "false"} => SettingBool(full, f.key, def) = f.default
       /\ \A f \in ToSet(fields), def \in IntText :
             fills(f.key, "number") /\ f.default \in IntText => SettingInt(full, f.key, def) = f.default
       /\ \A k \in DOMAIN full : k \in Common \cup {"use_hash"} \/ (k \in DOMAIN got.custom /\ got.custom[k] = full[k])
       /\ \A k \in Common : fills(k, "text") => got.texts[k] = declared(k).default

\* One provider that fails, is unknown or is disabled keeps no other from
\* loading; each that is not loaded though it could be has its error, and only
\* those; and a credential check refuses what a save of the same settings
\* could not load, and nothing else of its own.
LoadsEachAlone(known, config, late) ==
    LET got == LoadAll(known, config, late)
        alone(n) == LoadAll(known, [m \in {n} |-> config[m]], late)
    IN /\ got.loaded = UNION {alone(n).loaded : n \in DOMAIN config}
       /\ got.errors = UNION {alone(n).errors : n \in DOMAIN config}
       /\ \A n \in ToLoad(known, config) \ late :
             (CheckCredentials(known, n, config[n].settings, TRUE, "accepted") = "accepted") <=> n \in got.loaded

\* A body of exactly the ceiling is read whole and one byte more is an error,
\* however the reads fall.
BodyIsWhole(n) == BodyReads(n) = {IF n <= MaxBody THEN "whole" ELSE "too large"}

\* A language asked for by the site's name comes back as itself.
AskedAndReturned(site) ==
    \A c \in DOMAIN RegistryName : CodeOf(site, SiteName(site, c)) = c
=============================================================================
