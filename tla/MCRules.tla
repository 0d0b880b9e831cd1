------------------------------- MODULE MCRules -------------------------------
(***************************************************************************)
(* The program's pure rules over bounded inputs.  A behaviour takes one    *)
(* `part` and one `input` of it, and the properties judge what the rules   *)
(* answer: the paths of a source, the settings document, the languages,    *)
(* the episode a name gives, an archive's member, the site searches, the   *)
(* timing aligners, the store's keys, the subtitle text rules and formats, *)
(* and the release patterns' lookarounds.                                  *)
(***************************************************************************)
EXTENDS LanguagePolicy, TLC

VARIABLES part, input

UpTo(S, n) == BoundedSeq(S, n)
Given(p) == part = p /\ input # <<>>
it == input[1]

-----------------------------------------------------------------------------
\* Languages: two tags with regions, two scripts of one language, a private
\* spelling and a text Parse refuses.
TagDef == {"en", "en-GB", "zh-Hant", "zh", "spl", "sdh"}
RowTexts == (TagDef \ {"sdh"}) \cup {"EN", "zh-TW", "cht", "xx", "SPL"}
\* Segments of a file name: flags, ordinals, extensions, some of them also
\* spelled as a language
FlagWords == {"hi", "forced", "foreign", "SDH"}
OrdinalTextDef == <<"1", "2">>
SegmentDef == FlagWords \cup {"1", "01", "srt", "SRT", "sub", "mkv"}
TextDef == RowTexts \cup {"sdh"} \cup SegmentDef \cup {"2"}
SpellingDef == [t \in TagDef |-> t]
ReadsDef ==
    SpellingDef @@ ("EN" :> "en" @@ "zh-TW" :> "zh-Hant" @@ "cht" :> "Unread" @@ "SPL" :> "spl" @@ "SDH" :> "sdh")
       @@ [t \in TextDef |-> "Unread"]
LowerDef == ("EN" :> "en" @@ "SPL" :> "spl" @@ "SDH" :> "sdh" @@ "SRT" :> "srt") @@ [t \in TextDef |-> t]
MeaningDef == "spl" :> "en-GB" @@ "cht" :> "zh-Hant"
FileFormDef == "zh-Hant" :> "zh-TW"
CloseTiers ==
    <<"en", "en-GB">> :> 2 @@ <<"en-GB", "en">> :> 3 @@ <<"zh", "zh-Hant">> :> 5 @@ <<"zh-Hant", "zh">> :> 5
TierDef == CloseTiers @@ [p \in TagDef \X TagDef |-> IF p[1] = p[2] THEN 1 ELSE 7]
Same == {<<t, t>> : t \in TagDef}
CoversScriptDef == Same \cup {<<"en", "en-GB">>, <<"en-GB", "en">>, <<"zh", "zh-Hant">>}
CoversRegionDef == (TagDef \X TagDef) \ {<<"en-GB", "en">>}

Row == [tag : RowTexts, variants : {Unstated, <<2, 1>>, <<1, 1>>}]
Rows == {r \in Row : r.tag \in TagDef \cup {"SPL", "xx"}}
Rule == [audio : {"en", "zh", "EN"}, targets : {Bad, <<>>} \cup {<<r>> : r \in Row}]
Sections == [default : {Bad} \cup UpTo(Rows, 2), rules : {<<>>} \cup {<<r>> : r \in Rule}]
ShortRow == [tag : {"en", "en-GB"}, variants : {Unstated, <<2, 1>>}]
ShortSections ==
    [default : {<<>>} \cup {<<r>> : r \in ShortRow},
     rules : {<<>>} \cup {<<[audio |-> a, targets |-> l]>> : a \in {"en", "zh"}, l \in UpTo(ShortRow, 2)}]
Folders == {<<a, b>> : a \in {<<"movie">>, <<"movie", "en">>}, b \in {<<"movie">>, <<"movie", "en">>, <<"other">>}}
Segments == {"en", "zh-TW", "cht", "sdh", "SDH", "hi", "forced", "foreign", "1", "01"}
Asks == [needs : UpTo(TagDef, 2), offers : UpTo(TagDef, 3), covers : BOOLEAN]

-----------------------------------------------------------------------------
\* A source: what it answers, and two or three path mappings over two names
Source == INSTANCE SourceAnswers WITH
    MaxItemTags <- 2, MaxAudioLangs <- 1, ValidID <- LAMBDA id : id # "bad", Listed <- LAMBDA kind : TRUE,
    KnownType <- LAMBDA t : t # "unknown",
    ValidEpisodeNumber <- LAMBDA n : n \in 0 .. 9, Component <- {"a", "b"},
    MaxSources <- 2, MaxMappings <- 2, MaxExcludeTags <- 2, DefaultTag <- "none",
    NormLabel <- LAMBDA l : IF l = "A" THEN "a" ELSE l
PathsTo(n) == UpTo({"a", "b"}, n)
Mapping == [from : PathsTo(2), to : PathsTo(2)]
Mappings == {{m, n, o} : m, n \in Mapping, o \in {[from |-> <<"a">>, to |-> <<"b">>], [from |-> <<>>, to |-> <<"a">>]}}

\* The entries of a sources section, and the sections of saves in a row
NoMappings == <<>>
TwoMappings == <<[from |-> <<"a">>, to |-> <<>>], [from |-> <<"b">>, to |-> <<"a">>]>>
FullEntries ==
    {Source!NotAMapping} \cup
    [id : {"unset", "bad", "a"}, type : {"t", "unknown"}, enabled : {"unset", "true", "false", "bad"},
     mappings : {NoMappings, TwoMappings}, tags : {<<"unset">>, <<"A", "a">>, <<"b", "A">>, <<"">>}, decodes : BOOLEAN, makes : BOOLEAN]
EntryIDs ==
    {Source!NotAMapping} \cup
    [id : {"unset", "a", "b"}, type : {"t", "unknown"}, enabled : {"true", "false", "bad"}, mappings : {NoMappings},
     tags : {<<"unset">>}, decodes : {TRUE}, makes : {TRUE}]
SourceLists == {<<e>> : e \in FullEntries} \cup UpTo(EntryIDs, 2) \cup
    [1 .. 3 -> {e \in EntryIDs : e # Source!NotAMapping /\ e.type = "t" /\ e.enabled # "bad"}]
SavedEntry(id, n, conn) == [id |-> id, type |-> "t", connection |-> conn, index |-> n]
Saves ==
    {<<>>} \cup {<<SavedEntry(i, 1, c)>> : i \in {"a", "b"}, c \in 1 .. 2}
        \cup {<<SavedEntry(i[1], 1, c), SavedEntry(i[2], 2, d)>> : i \in {<<"a", "b">>, <<"b", "a">>}, c, d \in 1 .. 2}
SaveChains == UpTo(Saves, 3)

\* Files whose hosts are absent, doubled, misspelled or references the
\* environment sets or does not, and stored lists whose entries share an id
Settings == INSTANCE SettingsDocument WITH
    PlainKeys <- {"id"}, References <- {"${H}", "${U}"}, Env <- ("${H}" :> "nas2"), Hosts <- {"nas", "nas2"}
Leaf(t) == Settings!Scalar(t)
ListOf(kids) == Settings!List(kids)
MapOf(keys, kids) == Settings!Map(keys, kids)
HostTexts == {Leaf(t) : t \in {"nas", "*bad", "${H}", "${U}", "", "null"}}
HostEntries == HostTexts \cup {Settings!Odd(Leaf("nas")), ListOf(<<>>)}
HostLists ==
    {Leaf("null"), Leaf("nas"), ListOf(<<>>)} \cup {ListOf(<<e>>) : e \in HostEntries}
        \cup {ListOf(<<Leaf("nas"), e>>) : e \in HostEntries}
Servers ==
    {Leaf("null"), Leaf("x"), ListOf(<<>>), MapOf(<<>>, <<>>)}
        \cup {MapOf(<<"allowed_hosts">>, <<h>>) : h \in HostLists}
        \cup {MapOf(<<"allowed_hosts", k>>, <<h, Leaf("x")>>) :
                 h \in HostLists, k \in {"allowed_hosts", Settings!NoText, "log_level", "other"}}
Files ==
    {Settings!Absent, ListOf(<<>>), MapOf(<<>>, <<>>)} \cup {MapOf(<<"server">>, <<s>>) : s \in Servers}
        \cup {MapOf(<<"server", k>>, <<s, MapOf(<<>>, <<>>)>>) :
                 s \in Servers, k \in {"server", Settings!NoText, "other"}}
Entries ==
    {MapOf(<<"id", "secret">>, <<Leaf(i), Leaf(s)>>) : i \in {"a", "b", "${H}"}, s \in {"s1", "s2"}}
        \cup {MapOf(<<"secret">>, <<Leaf("s3")>>)}
Stored == {ListOf(l) : l \in UpTo(Entries, 3)}

SettingsInput ==
    /\ input = <<>>
    /\ \/ part = "named" /\ \E folder \in Folders, s \in UpTo(Segments, 4), ext \in {"srt", "SRT", "sub", "mkv"} :
             input' = <<[stems |-> folder, name |-> <<"movie">> \o s \o <<ext>>]>>
       \/ part = "digest" /\ \E s, o \in ShortSections : input' = <<[s |-> s, o |-> o]>>
       \/ part = "paths" /\ \E ms \in Mappings : input' = <<ms>>
       \/ part = "policy" /\ \E s \in Sections : input' = <<s>>
       \/ part = "asks" /\ \E q \in Asks : input' = <<q>>
       \/ part = "file" /\ \E f \in Files : input' = <<f>>
       \/ part = "sources" /\ \E l \in SourceLists : input' = <<l>>
       \/ part = "saves" /\ \E l \in SaveChains : input' = <<l>>
       \/ part = "stored" /\ \E l \in Stored : input' = <<l>>
    /\ UNCHANGED part

\* What the settings accept means one thing: no two paths of a source are one
\* local file; every row and rule the document holds is counted and reads
\* back as it was entered, and a provider is asked for a tag once; a document
\* that names hosts admits no other, whatever else is wrong with it; and an
\* edit of a list keeps each secret with the entry it was stored for.
ConfigurationHolds ==
    /\ Given("paths") => \A p, q \in PathsTo(3) : Source!NoAlias(it, p, q)
    /\ Given("sources") => Source!ConfigsWhole(it)
    /\ Given("saves") => \A up \in SUBSET {<<"t", 1>>, <<"t", 2>>} : Source!SavedHasAnswered(it, up)
    /\ Given("policy") => CountsEveryRow(it) /\ TargetsReadBack(it)
    /\ Given("named") => NamesReadBack(it.stems, it.name)
    /\ Given("digest") => DigestTells(it.s, it.o)
    /\ Given("asks") => AsksOnce(it.needs, it.offers, it.covers)
    /\ Given("file") => Settings!HostsFailClosed(it)
    /\ Given("stored") => \A picks \in UpTo(1 .. Len(it.kids), 3) : Settings!SecretsStay(it, picks)

-----------------------------------------------------------------------------
\* Names of up to three markers, whose numbers are one digit or two wide
Marker == INSTANCE EpisodeMarker WITH MaxRangeSpan <- 1, MaxRangeEpisode <- 9
n1 == [v |-> 1, wide |-> TRUE]
n2 == [v |-> 2, wide |-> FALSE]
n3 == [v |-> 3, wide |-> TRUE]
Marks ==
    {<<"SE", <<n1, n3>>>>, <<"X", <<n2, n3>>>>, <<"S", <<n1>>>>, <<"Season", <<>>>>, <<"Season", <<n2>>>>,
     <<"E", <<n1>>>>, <<"E", <<n1, n3>>>>, <<"Ep", <<>>>>, <<"Ep", <<n2>>>>,
     <<"N", <<n1>>>>, <<"N", <<n2>>>>, <<"N", <<n3>>>>, <<"other", <<>>>>}
Token(mark, sep, inside) ==
    [kind |-> mark[1], nums |-> mark[2], sep |-> sep, inside |-> inside, leads |-> inside /\ sep = "far"]
Tokens ==
    {Token(m, s, FALSE) : m \in Marks, s \in {" ", " - ", "-", "."}}
        \cup {Token(<<"N", <<n1>>>>, s, TRUE) : s \in {"far", " - ", "-"}}

\* Archives of up to three members: of the episode asked for, of another, of
\* none, damaged, too large, a bomb, or one whose sizes wrap
Arc == INSTANCE Archive WITH MaxEntries <- 2, BombRatio <- 2, MaxExtract <- 3, MaxInt <- 7
Member(claims, bare, packed, unpacked, intact) ==
    [subtitle |-> TRUE, packed |-> packed, unpacked |-> unpacked, claims |-> claims, bare |-> bare,
     intact |-> intact, size |-> IF unpacked > 4 THEN 3 ELSE unpacked, cues |-> TRUE]
Wanted == Member({<<1, 1>>}, 0, 1, 1, TRUE)
Other == Member({<<1, 2>>}, 0, 1, 2, TRUE)
Members ==
    {Wanted, Other, [Wanted EXCEPT !.intact = FALSE], [Other EXCEPT !.subtitle = FALSE],
     Member({}, 1, 1, 1, TRUE), Member({}, 2, 1, 1, TRUE), Member({}, 1, 1, 3, TRUE),
     Member({<<1, 1>>}, 0, 0, 1, TRUE), Member({<<1, 1>>}, 0, 5, 9, TRUE), Member({<<1, 1>>}, 0, 1, 4, TRUE)}
MemberLists == UpTo(Members, 3) \cup {Arc!NotOne}
FewLists == {Arc!NotOne, <<Wanted>>, <<Other>>}
Body(magic, zip, rar, text) == [magic |-> magic, zip |-> zip, rar |-> rar, text |-> text, cues |-> text]
Bodies ==
    {Body(m, l, f, t) : m \in {"zip", "none"}, l \in MemberLists, f \in FewLists, t \in BOOLEAN}
        \cup {Body(m, f, l, t) : m \in {"rar", "none"}, l \in MemberLists, f \in FewLists, t \in BOOLEAN}

FileInput ==
    /\ input = <<>>
    /\ \/ part = "marker" /\ \E toks \in UpTo(Tokens, 3) : input' = <<toks>>
       \/ part = "archive" /\ \E b \in Bodies, w \in {Arc!AnyEpisode, <<1, 1>>} : input' = <<[body |-> b, want |-> w]>>
    /\ UNCHANGED part

\* The views of one name (the episodes it claims, its season, whether it
\* states an episode at all, its absolute number) agree on every name.
ViewsAgree == Given("marker") => Marker!ViewsAgree(it)

\* A download that names an episode never answers with an archive's member of
\* another one, nor with a member larger than the cap.
RightEpisode == Given("archive") => Arc!RightEpisode(it.body, it.want)

-----------------------------------------------------------------------------
\* Searches of the sites: what each of their calls is answered, by a status
\* (0 is no answer), what the body says and its data.
Sites == INSTANCE SubtitleSites WITH MaxEntries <- 2, MaxPages <- 2, Attempts <- 3, MaxBody <- 3, IntText <- {"5", "7"}
Titles == {{"w"}, {"a"}, {"b"}}
Request ==
    [kind |-> "episode", imdb |-> "tt", tmdb |-> 0, tvdb |-> 1, title |-> {"w"}, alternatives |-> <<{"a"}, {"b"}>>,
     year |-> 0, langs |-> <<"en", "fr">>, season |-> 1, episode |-> 2, scene |-> <<0, 0>>, absolute |-> 0,
     includeAI |-> FALSE, includeMT |-> TRUE, maxResults |-> 2]
Answer(code, data) == [code |-> code, data |-> data]
Saying(code, says, data) == [code |-> code, said |-> says, data |-> data]
Nothing == Answer(200, <<>>)
Lost == Answer(0, <<>>)
Limited == Answer(429, <<>>)

\* SubSource: a title search for each title, then one list per language
Titled(title, id) == Saying(200, "yes", <<[title |-> title, year |-> 0, id |-> id]>>)
Outages == {Saying(0, "yes", <<>>), Saying(429, "yes", <<>>), Saying(200, "key", <<>>)}
ByTitle == Outages \cup {Saying(200, "missing", <<>>), Titled({"a"}, 7), Titled({"z"}, 8)}
ByText == {Saying(200, "yes", <<>>), Saying(0, "yes", <<>>), Titled({"a", "b", "w"}, 9)}
Offered == [id |-> 1, foreign |-> FALSE, comment |-> {"hi"}, hi |-> FALSE, releases |-> <<"r">>]
OfLanguage == Outages \cup {Saying(200, "yes", <<>>), Saying(200, "yes", <<Offered>>)}
SubSourceCalls ==
    {[titles |-> [t \in Titles |-> [imdb |-> byTitle[t], text |-> byText]], langs |-> langs] :
        byTitle \in [Titles -> ByTitle], byText \in ByText, langs \in [{"en", "fr"} -> OfLanguage]}

\* OpenSubtitles: the three numbering schemes of an episode, by id and title
PageOf(id) == Answer(200, <<[id |-> id, ai |-> FALSE, mt |-> FALSE, files |-> TRUE, lang |-> "en"]>>)
PageRuns == {<<Nothing>>, <<Lost>>, <<PageOf(1), PageOf(2)>>, <<PageOf(2), Lost>>}
SchemeCalls == [schemes : [1 .. 3 -> [byId : PageRuns, byTitle : PageRuns]]]
SchemeRequests ==
    {[Request EXCEPT !.scene = scene, !.absolute = n, !.imdb = id] :
        scene \in {<<0, 0>>, <<2, 1>>}, n \in {0, 2, 14}, id \in {"tt", "tt0"}}

\* AnimeTosho: the entries of an id or of a feed, and the files of each
FileOf(claims, n, id) ==
    [claims |-> claims, number |-> n, attachments |-> <<[id |-> id, subtitle |-> TRUE, lang |-> "", brazil |-> FALSE]>>]
Packs ==
    {<<>>, <<FileOf({}, 0, 1)>>, <<FileOf({<<1, 2>>}, 0, 1), FileOf({<<1, 3>>}, 3, 2)>>,
     <<FileOf({}, 0, 1), FileOf({}, 14, 3)>>, <<FileOf({}, 0, 1), FileOf({}, 0, 2)>>}
Entry(i) == [id |-> i, complete |-> TRUE, title |-> i]
ToshoCalls ==
    [eid : {Answer(200, <<Entry(1), Entry(2)>>), Lost, Limited},
     feed : {Answer(200, <<Entry(2), Entry(0), Entry(1)>>), Lost}, resolves : BOOLEAN,
     entries : [1 .. 2 -> [code : {200}, data : Packs] \cup {Lost, Limited}]]
ToshoRequests == {[Request EXCEPT !.absolute = n, !.title = t] : n \in {0, 14}, t \in {{"w"}, {}}}

\* A download, and a search whose every call meets the same outage
Downloaders == {"subsource", "gestdown", "subdl", "betaseries", "yify", "animetosho"}
ByName == {"subsource", "gestdown", "subdl", "opensubtitles"}
Downloads ==
    [code : {0, 200, 401, 404, 423, 429, 500}, small : BOOLEAN, page : BOOLEAN, body : {"subtitle", "refused", "junk"}]
OutageOf(code) == [code |-> code, said |-> "", data |-> <<>>, small |-> FALSE, page |-> TRUE, body |-> "junk"]
Throughout(site, r) ==
    CASE site = "subsource" ->
            [titles |-> [t \in Titles |-> [imdb |-> r, text |-> r]], langs |-> [l \in {"en", "fr", "pb"} |-> r]]
      [] site = "gestdown" ->
            [shows |-> [r EXCEPT !.code = 200, !.data = <<"", "s">>],
             seasons |-> [show \in {"s"} |-> [l \in {"en", "fr", "pb"} |-> <<r, r, r>>]]]
      [] site \in {"subdl", "betaseries", "yify"} -> [only |-> r]
      [] site = "animetosho" -> [resolves |-> TRUE, eid |-> r, feed |-> r, entries |-> <<r, r>>]
      [] site = "opensubtitles" -> [schemes |-> [i \in 1 .. 3 |-> [byId |-> <<r, r>>, byTitle |-> <<r, r>>]]]
OutageRequests ==
    {[Request EXCEPT !.kind = k, !.langs = l, !.scene = scene, !.alternatives = alt] :
        k \in {"movie", "episode"}, l \in {<<"en", "fr">>, <<"pb">>, <<"xx">>},
        scene \in {<<0, 0>>, <<2, 1>>}, alt \in {<<>>, <<{"a"}>>}}

\* What a source answers: errors, the items of a root, and readings of a
\* catalogue
AnswerCauses == SUBSET {"unknown", "changed", "not_api", "unsupported", "refused", "too_large", "deadline"}
SourceRoots == [id : {"r"}, kind : {"episode", "movie"}]
SourceItems ==
    [native : {"a", "b", "bad"}, path : {"in", "outside"}, langs : {<<"en", "", "fr">>},
     tags : {<<>>, <<"t">>, <<"t", "bad", "u", "v">>, <<"v", "w", "bad", "t">>}, excluded : {FALSE}, dateOK : {TRUE},
     numbering : {Source!NoNumbering, [scheme |-> "tvdb", season |-> 1, episode |-> 1]}]
ChangeRoots == [id : {"r", "s", "bad"}, kind : {"series", "movie"}]
TitleSets == [language : 1 .. 2, found : BOOLEAN, titles : UpTo(1 .. 2, 2)]
Orders == [type : {"dvd", "official"}, places : UpTo({<<1, 2>>, Source!Unlisted}, 2), extra : UpTo({<<0, 1>>, <<1, 0>>}, 2)]
Aired == UpTo([id : 1 .. 2, place : {<<1, 1>>}], 2)
Readings ==
    [catalogue : [tvdb : {1}, fetched : {0}, episodes : Aired, orders : {<<>>}], titles : UpTo(TitleSets, 2)]
        \cup [catalogue : [tvdb : {1}, fetched : {0}, episodes : Aired, orders : UpTo(Orders, 1)], titles : {<<>>}]

\* Settings of a provider, and three providers configured as they may be
Value == [kind : {"bool"}, text : {"true", "false"}] \cup [kind : {"string"}, text : {"", "true", "5", "text"}]
    \cup [kind : {"int", "float"}, text : {"5", "2.5"}]
SomeField(k) == [key : {k}, type : {"bool", "number", "text"}, default : {"", "true", "false", "7", "text"}, required : {FALSE}]
RawSettings == UNION {[K -> Value] : K \in SUBSET {"use_hash", "token", "other"}}
FieldLists == UNION {{<<f>> : f \in SomeField(k)} : k \in {"use_hash", "token", "other"}} \cup {<<>>}
SettingReads == [fields : FieldLists, raw : RawSettings]
Required(default) == <<[key |-> "token", type |-> "text", default |-> default, required |-> TRUE]>>
Known == [a |-> [fields |-> Required("")], b |-> [fields |-> Required("text")]]
TokenSettings == {<<>>} \cup {[token |-> [kind |-> "string", text |-> t]] : t \in {"", "text"}}
Configured == UNION {[N -> [enabled : BOOLEAN, settings : TokenSettings]] : N \in SUBSET {"a", "b", "c"}}

SearchInput ==
    /\ input = <<>>
    /\ \/ part = "subsource" /\ \E c \in SubSourceCalls : input' = <<[req |-> Request, calls |-> c]>>
       \/ part = "opensubtitles" /\ \E r \in SchemeRequests, c \in SchemeCalls : input' = <<[req |-> r, calls |-> c]>>
       \/ part = "animetosho" /\ \E r \in ToshoRequests, c \in ToshoCalls : input' = <<[req |-> r, calls |-> c]>>
       \/ part = "download" /\ \E r \in Downloads : input' = <<r>>
       \/ part = "answer" /\ \E c \in AnswerCauses, code \in {0, 200, 401, 404, 429, 503} : input' = <<[wraps |-> c, code |-> code]>>
       \/ part = "settings" /\ \E r \in SettingReads : input' = <<r>>
       \/ part = "load" /\ \E c \in Configured : input' = <<c>>
       \/ part = "body" /\ \E n \in 0 .. 6 : input' = <<n>>
       \/ part = "listing" /\ \E s \in UpTo(SourceItems, 2) : input' = <<s>>
       \/ part = "changes" /\ \E l \in UpTo(ChangeRoots, 3) : input' = <<l>>
       \/ part = "reading" /\ \E e \in Readings : input' = <<e>>
       \/ /\ part = "outage"
          /\ \E r \in OutageRequests, s \in Downloaders \cup {"opensubtitles"}, code \in {0, 401, 429, 500} :
                input' = <<[req |-> r, site |-> s, calls |-> Throughout(s, OutageOf(code))]>>
    /\ UNCHANGED part

\* What a source answers passes whole, marked and classed as it was answered.
SourcesHeard ==
    /\ Given("answer") => \A ctx \in {"open", "cancelled", "deadline"} : Source!RescanIsTold(ctx, it.wraps, it.code)
    /\ Given("listing") => \A asked, got \in SourceRoots, x \in SUBSET {"t", "u"} :
                           Source!ExclusionsHold(asked, {got}, it, {"l"}, [t \in x |-> "l"] @@ [t \in {"w"} |-> "o"])
    /\ Given("changes") => \A caps \in SUBSET {"rescan"} : Source!CallsHeard(it, caps)
    /\ Given("reading") => Source!ReorderIsSeen(it.catalogue)
    /\ Given("reading") => \A at \in 0 .. 1 : Source!EvidenceIsWhole(it, {[it EXCEPT !.catalogue.fetched = at]})

\* A site's search, and a source's call, is heard as it was answered: "no results" only of calls
\* that were answered, and an outage as an error; a rate limit is one for a
\* download too; of a pack, only the files that name the episode are offered;
\* and a language asked for by the site's name is returned as itself.
SearchesHeard ==
    /\ Given("subsource") => Sites!SubSourceHeard(it.req, it.calls)
    /\ Given("opensubtitles") => Sites!OpenSubtitlesHeard(it.req, it.calls)
    /\ Given("animetosho") => Sites!PackIsSearched(it.req, it.calls)
    /\ Given("download") => Sites!LimitIsLimit(it)
    /\ Given("outage") => Sites!OutageHeard(it.site, it.req, it.calls)
    /\ Given("download") => \A site \in ByName : Sites!AskedAndReturned(site)
    /\ Given("settings") => Sites!SettingsRead(it.fields, it.raw)
    /\ Given("load") => \A late \in SUBSET {"a", "b"} : Sites!LoadsEachAlone(Known, it, late)
    /\ Given("body") => Sites!BodyIsWhole(it)
    /\ SourcesHeard

-----------------------------------------------------------------------------
\* Timing: cues of small documents, offset runs, weighted pairs, and the
\* candidates a vote is of
Sync == INSTANCE Subsync WITH
    Unit <- 60, MaxSpans <- 10, MaxBucketRange <- 30, MaxSegmentLen <- 500, MaxSplits <- 20, MinSegmentCues <- 2,
    MaxPredecessors <- 10, Agreement <- 2, Cluster <- 4, LargeOffset <- 3, SimilarDuration <- 5, Window2 <- 2,
    Slack <- 1, TopK <- 3, Alike <- {}, FrameRates <- <<48, 50, 49>>, MinFrameCues <- 3, MinDuration <- 10, MaxResidual <- 2,
    AudioAgreement <- 1, MinAudioLimit <- 3, MaxAudioLimit <- 10
Cue(from, to) == [start |-> from, end |-> to]
Cues(starts, lengths) == {Cue(t, t + l) : t \in starts, l \in lengths}
InTime(S, n) == {s \in UpTo(S, n) : s # <<>> /\ \A i \in 2 .. Len(s) : s[i - 1].start <= s[i].start}
PairSets == {S \in SUBSET ((1 .. 3) \X (1 .. 3)) : Cardinality(S) \in 1 .. 5}
Weighted(S, w) == SetToSeq({[inc |-> p[1], ref |-> p[2], score |-> w[p], offset |-> 0] : p \in S})

Incoming == <<Cue(1, 3), Cue(6, 8)>>
Reference == <<Cue(2, 4), Cue(7, 9)>>
ShiftedBy(source, d, conf) == Sync!Candidate(source, "shift", d, Sync!Shifted(Incoming, d), conf)
CrossLanguage == {Sync!NoCandidate("crosslang", Incoming)} \cup {ShiftedBy("crosslang", d, 30) : d \in {1, 3}}
FrameCues == {<<Cue(2, 5), Cue(9, 12)>>, <<Cue(4, 6), Cue(9, 11)>>, <<Cue(9, 10), Cue(2, 4)>>, <<Cue(2, 4)>>}
FrameRate ==
    {Sync!NoCandidate("framerate", <<>>)} \cup {Sync!Candidate("framerate", "framerate", 0, c, 54) : c \in FrameCues}
Offsets == {ShiftedBy("offset", d, 24) : d \in {0, 2, 4}}
Splits ==
    {Sync!NoCandidate("split", Incoming)}
        \cup {Sync!Candidate("split", "segments", 0, <<Incoming[1], Sync!Moved(Incoming[2], d)>>, 40) : d \in {1, 3}}
Audio == {Sync!NoCandidate("audio", Incoming), Sync!Candidate("audio", "none", 5, Sync!Shifted(Incoming, 5), 40)}

\* Five cues with a number each, or none, and the same ones late
Numbered(n) == [numbers |-> IF n = 0 THEN <<>> ELSE <<n>>, nouns |-> <<>>, cognates |-> <<>>, punct |-> ""]
Spoken(starts, length, numbered) ==
    [i \in DOMAIN starts |-> [start |-> starts[i], end |-> starts[i] + length,
                              anchor |-> Numbered(IF numbered THEN i ELSE 0)]]
LateBy(d, cues) == [i \in DOMAIN cues |-> [cues[i] EXCEPT !.start = @ + d, !.end = @ + d]]
StartLists == {SetToSortSeq(S, <) : S \in {S \in SUBSET {10, 20, 30, 40, 50, 60, 70} : Cardinality(S) = 5}}
SyncOptions == [fps |-> 0, penalty |-> 100, min |-> 0, audio |-> FALSE]

SyncInput ==
    /\ input = <<>>
    /\ \/ /\ part = "align"
          /\ \E r \in InTime(Cues({0, 3, 40}, {1, 3}), 2), i \in InTime(Cues({0, 2, 6}, {1, 2, 4}), 2) :
                input' = <<[ref |-> r, inc |-> i]>>
       \/ /\ part = "cover"
          /\ \E r \in InTime(Cues({0, 4}, {2, 3}), 2), i \in InTime(Cues({0, 1, 3}, {1, 2, 5}), 3) :
                Sync!InOrder(r) /\ input' = <<[ref |-> r, inc |-> i]>>
       \/ part = "split" /\ \E o \in UpTo({0, 1, 4}, 5) : o # <<>> /\ input' = <<o>>
       \/ part = "path" /\ \E S \in PairSets : \E w \in [S -> {1, 2}] : input' = <<Weighted(S, w)>>
       \/ /\ part = "late"
          /\ \E starts \in StartLists, length \in {3, 5}, numbered \in BOOLEAN, d \in {0, 1, 4, 13} :
                input' = <<[ref |-> Spoken(starts, length, numbered), late |-> d]>>
       \/ part = "vote" /\ \E v \in CrossLanguage \X FrameRate \X Offsets \X Splits : input' = <<v>>
    /\ UNCHANGED part

\* The aligners find what they search for: no offset scores above the one
\* taken, no cue is counted twice, no cut of the runs is cheaper, no path of
\* pairs is heavier; the vote does not hang on the order of its candidates,
\* and what it answers has the cues it was given.
SyncHolds ==
    /\ Given("align") => Sync!PeakIsBest(it.ref, it.inc)
    /\ Given("cover") => Sync!OverlapCountsOnce(it.ref, it.inc)
    /\ Given("split") => \A penalty \in {0, 60, 200} : Sync!SplitsAreBest(it, penalty)
    /\ Given("path") => Sync!PathIsHeaviest(it)
    /\ Given("late") => Sync!DelayIsUndone(it.ref, LateBy(it.late, it.ref), SyncOptions)
    /\ Given("vote") =>
          /\ Sync!VoteIsSettled(it, Reference, Incoming)
          /\ \A a \in Audio, min \in {0, 25} :
                Sync!CuesAreKept(it, a, Reference, Incoming, [min |-> min, audio |-> TRUE])

-----------------------------------------------------------------------------
\* The store's keys over eight bytes, numbers, seasons and episodes of two, and
\* digits 0 and 1
Keys == INSTANCE StoreKeys WITH
    ByteSize <- 8, Width <- 2, MaxId <- 40, MaxNumber <- 63, Digits <- <<"0", "1">>, IdDigits <- 3,
    TagOf <- (<<1>> :> <<1>> @@ <<1, 1>> :> <<1>> @@ <<2>> :> <<2>> @@ <<2, 1>> :> <<2, 1>>)
TagTexts == {<<1>>, <<1, 1>>, <<2>>, <<2, 1>>}
KeyTexts == TagTexts \cup {<<>>, <<1, 2>>}
AllKeys ==
    {Keys!Choose(kind, ids, scheme, s, e) :
        kind \in {"episode", "movie"}, ids \in [tvdb : {0, 1}, tmdb : {0, 5}, imdb : {0, 2}],
        scheme \in Keys!Schemes \cup {"none"}, s \in {-1, 0, 63, 64}, e \in {0, 8}} \ {Keys!NoKey}
\* The components every kind of key is made of
Parts(k, i, source, id, name) ==
    [key |-> k, inst |-> i, source |-> source, root |-> [source |-> source, kind |-> k.kind, id |-> id],
     item |-> name, name |-> name, tag |-> IF id \in TagTexts THEN id ELSE <<2>>, variant |-> 1, provider |-> name,
     flags |-> [hi |-> TRUE, forced |-> FALSE]]
Numerals(n) == UpTo({"0", "1"}, n)
\* A row of each type with every field set, the values its fields may hold
\* (in range and past each end) and the texts that may be stored for them
LeftOut(t) == {{}, Keys!OptionalOf(t)} \cup {{o} : o \in Keys!OptionalOf(t)}
SomeKey == CHOOSE k \in AllKeys : k.kind = "episode"
LeavesOf(kind) ==
    CASE kind.is = "enum" -> {0, 1, 2, 3, kind.hi, kind.hi + 1}
      [] kind.is = "atLeast" -> {kind.least - 1, kind.least, 5}
      [] kind.is = "hex" -> {kind.bytes}
      [] kind.is = "key" -> {SomeKey}
      [] kind.is = "tag" -> {<<>>, <<1>>, <<2, 1>>}
      [] OTHER -> {<<>>, <<1>>}
SomeLeaf(kind) ==
    CASE kind.is = "enum" -> 1 [] kind.is = "atLeast" -> 1 [] kind.is = "hex" -> kind.bytes
      [] kind.is = "key" -> SomeKey [] OTHER -> <<1>>
SomeRow(t, out) == LET T == Keys!RowTypes[t] IN [p \in Keys!FieldsOf(t, out) |-> SomeLeaf(T[p])]
StoredAs(t, v, p) ==
    LET T == Keys!RowTypes[t]
        kind == T[p]
        fields == [q \in DOMAIN v |-> Keys!LeafText(T[q], v[q])]
        texts == CASE kind.is = "hex" -> {16, 32} [] kind.is = "tag" -> {<<1, 1>>, <<3>>}
                   [] kind.is = "key" -> {<<1, 2>>, fields[p]} [] OTHER -> LeavesOf(kind)
    IN {[fields |-> [fields EXCEPT ![p] = x], trailing |-> b] : x \in texts, b \in BOOLEAN}
          \cup {[fields |-> [q \in DOMAIN v \ {p} |-> fields[q]], trailing |-> FALSE],
                [fields |-> [q \in DOMAIN v \cup {Append(p, "extra")} |-> IF q \in DOMAIN v THEN fields[q] ELSE 1],
                 trailing |-> FALSE]}
SomeJobs == [owner : {-1, 0, 2}, ended : {-3, 4}, state : {2, 3}, key : {{}, {<<1>>}, {<<1, 1>>}}]
OtherJobs == [owner : {-1, 2}, ended : {4}, state : {3}, key : {{}, {<<1>>}, {<<1, 1>>}}]
Spelled ==
    {<<p>> \o d : p \in {"tt", "tvdb-"}, d \in Numerals(4)}
        \cup {<<p>> \o d \o <<"-s">> \o s \o <<"e">> \o e :
                 p \in {"tt", "tvdb-"}, d \in Numerals(2), s \in Numerals(2),
                 e \in Numerals(3) \cup {Keys!DigitsOf(63, 2), Keys!DigitsOf(64, 2)}}

KeyInput ==
    /\ input = <<>>
    /\ \/ part = "read" /\ input' \in {<<r>> : r \in
             [k : AllKeys, i : {1, 63}, s : KeyTexts, t : TagTexts, v : Keys!Variants, f : [hi : BOOLEAN, forced : BOOLEAN]]}
       \/ part = "scan" /\ \E k, o \in AllKeys, i, j \in {1, 4}, s \in KeyTexts, t \in {<<1>>, <<1, 1>>, <<>>}, n \in {<<>>, <<2>>} :
             input' = <<[k |-> Parts(k, i, s, t, s), o |-> Parts(o, j, t, n, s)]>>
       \/ part = "order" /\ \E m, n \in -32 .. 31 : input' = <<[m |-> m, n |-> n]>>
       \/ part = "spelled" /\ \E k \in AllKeys, t \in Spelled : input' = <<[k |-> k, t |-> t]>>
       \/ part = "row" /\ \E t \in DOMAIN Keys!RowTypes : \E out \in LeftOut(t) : \E p \in Keys!FieldsOf(t, out) :
             \/ \E x \in LeavesOf(Keys!RowTypes[t][p]) :
                   input' = <<[t |-> t, v |-> [SomeRow(t, out) EXCEPT ![p] = x]]>>
             \/ t = "jobs" /\ p = <<"ended">> /\ input' = <<[t |-> t, v |-> [SomeRow(t, out) EXCEPT ![<<"state">>] = Keys!Done, ![p] = <<>>]]>>
       \/ part = "saved" /\ \E t \in DOMAIN Keys!RowTypes : \E out \in LeftOut(t) : \E p \in Keys!FieldsOf(t, out) :
             \E b \in StoredAs(t, SomeRow(t, out), p) : input' = <<[t |-> t, b |-> b]>>
       \/ part = "entries" /\ \E w, x \in [cause : 1 .. 3, seq : {1, 2}], j \in SomeJobs, k \in OtherJobs :
             input' = <<[w |-> w, x |-> x, j |-> j, k |-> k]>>
    /\ UNCHANGED part

\* A key written is the key read, a scan of a prefix meets the keys under it
\* and no other's, keys of numbers are in the order of the numbers, and a key
\* spelled for a person is read as itself or refused.
KeysHold ==
    /\ Given("read") => Keys!KeysReadBack(it.k, it.i, it.s, it.t, it.v, it.f)
    /\ Given("scan") => Keys!ScansStayInside(it.k, it.o)
    /\ Given("order") => Keys!OrderKept(it.m, it.n)
    /\ Given("spelled") => Keys!TextsReadBack(it.k, it.t)
    /\ Given("row") => Keys!WritesReadBack(it.t, it.v)
    /\ Given("saved") => Keys!RowsReadBack(it.t, it.b)
    /\ Given("entries") => Keys!EntriesOrdered(it.w, it.x, it.j, it.k)

-----------------------------------------------------------------------------
\* Lines of the characters the text rules look at, and documents of a few lines
Line == INSTANCE LineScan
RuleSets == [hi : {TRUE}, tags : BOOLEAN, blanks : BOOLEAN] \ {[hi |-> TRUE, tags |-> TRUE, blanks |-> FALSE]}
CharLines ==
    UpTo({"[", "]", "note", "A", ":", " "}, 5) \cup UpTo({"<", "i", ">", "[", "]", " "}, 5)
        \cup UpTo({"(", ")", "A", "-", ":", " ", "x"}, 4)

Says(text) == [k |-> "text", t |-> text]
Cleaning ==
    [plain |-> Says("plain"), said |-> Says("plain"), noise |-> [k |-> "gone"], sound |-> [k |-> "blank"],
     count |-> [k |-> "num", n |-> 7]]
Docs == INSTANCE SubtitleDoc WITH
    MaxStamp <- 50, MaxAssStamp <- 60, AssUnit <- 10, MaxOffset <- 30, MaxSegmentEnd <- 20,
    MinScale <- 9, MaxScale <- 11, One <- 10,
    CleanTo <- Cleaning
Some(S, n) == UpTo(S, n) \ {<<>>}
Plain == Docs!Words("plain")
SrtLines == {Docs!Blank, Docs!Num(7), Docs!Time(2, 4), Docs!Time(5, 5), Plain}
DirtyLines == (SrtLines \ {Docs!Time(5, 5)}) \cup {Docs!Words(t) : t \in {"noise", "sound", "count"}}
VttLines == {Docs!Blank, [k |-> "keyword"], Docs!Time(2, 4), Docs!Time(5, 60), [k |-> "unread"], Plain, Docs!Num(7)}
Piece(from, to, offset, drop) == [from |-> from, to |-> to, offset |-> offset, drop |-> drop]
Timings ==
    {Docs!Identity, Docs!Shift(1), Docs!Shift(-4), Docs!Shift(-5), Docs!Linear(11, -1),
     Docs!Piecewise(10, <<Piece(0, 3, 0, TRUE), Piece(3, 0, -2, FALSE)>>)}
Pieces ==
    {<<Piece(0, a, o, d), Piece(3, b, p, e)>> :
        a \in {0, 3, 9}, b \in {0, 5}, o \in {0, 1}, p \in {0, 1}, d \in BOOLEAN, e \in BOOLEAN}
AllTimings ==
    {Docs!Identity} \cup {Docs!Shift(n) : n \in -7 .. 7} \cup {Docs!Linear(s, o) : s \in 8 .. 12, o \in -7 .. 7}
        \cup {Docs!Piecewise(s, g) : s \in 9 .. 11, g \in Pieces}
Stamp(n) == [stamp |-> TRUE, ms |-> n]
Words == [stamp |-> FALSE, ms |-> 0]
Dialogue(f) == [k |-> "dialogue", f |-> f]
AssLines ==
    {[k |-> "section", name |-> s] : s \in {"events", "styles"}}
        \cup {[k |-> "format", names |-> f] :
                 f \in {<<"end", "style", "start", "text">>, <<"start", "text", "end">>, <<"start", "end", "text">>}}
        \cup {Dialogue(<<Stamp(10), Stamp(20), Words, Words>>), Dialogue(<<Stamp(10), Stamp(40), Stamp(30)>>),
              Dialogue(<<Stamp(10), Stamp(20), Stamp(30), Words>>)}
AssTimings ==
    {Docs!Shift(7), Docs!Shift(-25), Docs!Linear(11, 0),
     Docs!Piecewise(10, <<Piece(0, 15, 0, TRUE), Piece(15, 0, -2, FALSE)>>)}

TextInput ==
    /\ input = <<>>
    /\ \/ part = "line" /\ \E l \in CharLines, r \in RuleSets : input' = <<[line |-> l, rules |-> r]>>
       \/ part = "render" /\ \E d \in Some(SrtLines, 5), t \in Timings : input' = <<[doc |-> d, timing |-> t]>>
       \/ part = "clean" /\ \E d \in Some(DirtyLines, 5), e \in BOOLEAN : input' = <<[doc |-> d, empty |-> e]>>
       \/ part = "vtt" /\ \E d \in Some(VttLines, 5) : input' = <<<<[k |-> "keyword"]>> \o d>>
       \/ part = "ass" /\ \E d \in Some(AssLines, 4), t \in AssTimings : input' = <<[doc |-> d, timing |-> t]>>
       \/ part = "canonical" /\ \E t \in AllTimings, s \in 0 .. 10, e \in {3, 11}, u \in {1, 10} :
             input' = <<[timing |-> t, cue |-> [s |-> s, e |-> e], unit |-> u]>>
       \/ part = "preview" /\ \E d \in Some(SrtLines, 4), t \in Timings, from \in 0 .. 4 :
             input' = <<[doc |-> d, timing |-> t, from |-> from]>>
    /\ UNCHANGED part

\* A subtitle keeps what it says through every rule and format: cleaning a
\* line is removing match after match, and settles; a document cleaned,
\* retimed, converted or previewed has the cues it should, each with its own
\* lines and times.
SubtitlesKept ==
    /\ Given("line") => Line!ScanIsReference(it.line, it.rules) /\ Line!ScanSettles(it.line, it.rules)
    /\ Given("render") => Docs!NumberedReadsBack(it.doc, it.timing)
    /\ Given("clean") => Docs!CleanReadsBack(it.doc, it.empty)
    /\ Given("vtt") => Docs!VTTReadsBack(it)
    /\ Given("ass") => Docs!AssReadsBack(it.doc, it.timing)
    /\ Given("canonical") => Docs!CanonicalMapsAlike(it.timing, it.cue, it.unit)
    /\ Given("preview") => Docs!PreviewIsFile(it.doc, it.timing, it.from, 3)

-----------------------------------------------------------------------------
\* Releases of each family, with and without what can differ; tails of a name
\* of up to six runes; titles of up to three pieces
Condition(kind, values, negate, required) ==
    [kind |-> kind, values |-> values, negate |-> negate, required |-> required]
Format(label, words) ==
    [label |-> label, specs |-> {Condition("title", words, FALSE, FALSE), Condition("source", {"WebDL"}, FALSE, TRUE),
                                 Condition("group", {"H"}, TRUE, TRUE)}]
Refinement(token, adds, languages, word) ==
    [token |-> token, adds |-> adds, languages |-> languages, word |-> word]
Fit == INSTANCE ReleaseFit WITH
    Services <- <<Format("one", {"w1"}), Format("two", {"w2"}), Format("one", {"w3"})>>,
    Refinements <- <<Refinement("traditional", "Hant", {"zh"}, FALSE), Refinement("cht", "Hant", {"zh"}, TRUE),
                     Refinement("chs", "Hans", {"zh"}, TRUE), Refinement("pt-br", "BR", {"pt"}, TRUE),
                     Refinement("portugal", "PT", {"pt"}, TRUE), Refinement("latin", "Latn", {"sr"}, TRUE)>>,
    Parses <- LAMBDA t : t.script # "Latn"
ReleaseName(sources, remux, guess, tail, exact, edition, words) ==
    [sources |-> sources, remux |-> remux, raw |-> FALSE, guess |-> guess, other |-> "", anime |-> "",
     exact |-> exact, exception |-> <<>>, tail |-> tail, edition |-> edition, words |-> words,
     season |-> FALSE, episode |-> FALSE]
Editions ==
    {<<>>, <<"extended">>, <<"unrated">>, <<"director", "s", "cut">>, <<"extended", "unrated">>, <<"fan", "edit", "uncut">>}
ReleaseNames ==
    {ReleaseName(l, FALSE, "", g, <<>>, e, {}) :
        l \in {<<>>, <<"BluRay">>, <<"Cam">>, <<"HDTV", "Telesync">>}, g \in {"", "G", "number"}, e \in Editions}
        \cup {ReleaseName(<<"WebDL">>, r, "", "G", x, e, w) :
                r \in BOOLEAN, x \in {<<>>, <<"H">>}, e \in {<<>>, <<"uncut">>}, w \in {{}, {"w1"}, {"w1", "w3"}, {"w1", "w2"}}}
        \cup {ReleaseName(<<>>, r, g, "H", <<>>, <<>>, {"w1"}) : r \in BOOLEAN, g \in {"WebDL", "BluRay"}}
Releases == {Fit!ParseName(n, FALSE) : n \in ReleaseNames}
RateNames == {"", "PAL", "Film"}
Facts ==
    [source : ToSet(Fit!Agreement), group : ToSet(Fit!Agreement), service : ToSet(Fit!Agreement),
     cut : ToSet(Fit!Agreement), rate : ToSet(Fit!Agreement), pre : BOOLEAN, hash : BOOLEAN]
NameTails == UpTo({"-", "n", "R", "E", ".", "_"}, 5) \cup {<<"-", "n", ".", "[">> \o t : t \in UpTo({"n", "]", "-", "R"}, 3)}
TrackTitles == UpTo({"traditional", "cht", "chs", "pt-br", "portugal", "latin", "letters", " "}, 4)
TrackTags == [lang : {"zh", "pt", "sr", "en"}, script : {"", "Hans"}, region : {"", "BR"}]

ReleaseInput ==
    /\ input = <<>>
    /\ \/ part = "fit" /\ \E a, b \in Releases : input' = <<[video |-> a, sub |-> b]>>
       \/ part = "facts" /\ \E f \in Facts : input' = <<f>>
       \/ part = "tail" /\ \E s \in NameTails : input' = <<s>>
       \/ part = "rate" /\ \E fps \in 23900 .. 24100 \cup 24900 .. 25100 \cup 29900 .. 30100 : input' = <<fps>>
       \/ part = "title" /\ \E t \in TrackTitles : input' = <<t>>
    /\ UNCHANGED part

\* A subtitle's release is graded by what both names state: the video's own
\* release fits best, agreeing more never fits worse, the group is the name's
\* last, and a rate is of one family; and a track's title refines its tag only
\* when it says one thing.
ReleasesGraded ==
    /\ Given("fit") =>
          /\ \A v, s \in RateNames : Fit!FitsItselfBest(it.video, it.sub, v, s)
          /\ Fit!CutsConflict(it.video, it.sub)
    /\ Given("facts") => Fit!AgreementHelps(it)
    /\ Given("tail") => Fit!GroupIsRead(it)
    /\ Given("rate") => Fit!RatesApart(it)
    /\ Given("title") => \A t \in TrackTags : Fit!RefinesOnce(t, it)

-----------------------------------------------------------------------------
\* Patterns with one assertion among groups and repeats, and short ones of
\* every token; each is compiled once and asked about short names.
Look == INSTANCE Lookarounds WITH UTFMax <- 2
Symbols == {"a", "e", ".", "(", "(?:", "(?=", "(?<!", ")", "|", "+", "^", "$", "\\1"}
Heads ==
    {<<>>, <<"a", "a">>, <<"a", "+">>, <<"a", "+", "?">>, <<"a", "?", "b", "*">>, <<"\\b", "a", "+">>,
     <<".", "+", "b">>, <<"(", "a", "b", "?", ")">>, <<"(", "b", "|", "a", "b", ")">>,
     <<"(?:", "a", "b", ")", "+">>, <<"(?:", "a", "|", "b", ")", "+">>, <<"[ab]", "{1,2}">>, <<"(?<n>", "a", ")", "[^a]", "?">>}
Asserted == {<<"b">>, <<".", "*", "b">>, <<"(", "b", ")">>, <<"a", "+">>, <<"a", "|", "b", "b">>, <<"(?i:", ".", "*", ")", "e">>}
Tails == {<<>>, <<"b">>, <<"$">>, <<"\\b">>, <<"(", "b", ")">>, <<"|", "b", "b">>, <<"^", "a">>, <<".", "\\B", "e">>}
Patterns ==
    UpTo(Symbols, 3)
        \cup {h \o <<o>> \o i \o <<")">> \o t : h \in Heads, o \in Look!Assertions, i \in Asserted, t \in Tails}
Names ==
    UpTo({"a", "b"}, 3)
        \cup {<<"a", "b", "a", "b">>, <<"a", "a", "b", "b">>, <<"nl", "a", "b">>, <<"e1", "e2", "b">>, <<"b", "a", "e1", "e2", "b">>, <<"a", "nl", "e1", "e2">>,
               <<"a", "b", "e1">>}

PatternInput ==
    /\ part = "pattern" /\ input = <<>>
    /\ \E t \in Patterns : LET c == Look!Compile(t) IN c.ok /\ input' = <<[pattern |-> c, name |-> <<>>]>>
    /\ UNCHANGED part

NameInput ==
    /\ Given("pattern") /\ it.name = <<>>
    /\ \E s \in Names \ {<<>>} : input' = <<[it EXCEPT !.name = s]>>
    /\ UNCHANGED part

\* A release pattern means what it spells: a group is reported under its own
\* number, the two questions a pattern is asked agree, the shortcuts change no
\* answer, and what is accepted is a match; and ReleasesGraded.
NamesMatched ==
    /\ ReleasesGraded
    /\ Given("pattern") =>
        /\ Look!GroupsKeepNumbers(it.pattern)
        /\ Look!QuestionsAgree(it.pattern, it.name)
        /\ Look!QuickIsDirect(it.pattern, it.name)
        /\ Look!AnswersHold(it.pattern, it.name)

-----------------------------------------------------------------------------
Init ==
    /\ input = <<>>
    /\ part \in {"paths", "policy", "named", "digest", "asks", "file", "stored", "marker", "archive", "subsource", "opensubtitles",
                 "animetosho", "download", "outage", "answer", "listing", "reading", "align", "cover", "split", "path", "late", "vote", "sources", "saves", "changes", "settings", "load", "body", "read", "scan",
                 "order", "spelled", "line", "render", "clean", "vtt", "ass", "canonical", "preview", "fit", "facts", "tail",
                 "rate", "title", "pattern", "row", "saved", "entries"}
Next ==
    \/ SettingsInput \/ FileInput \/ SearchInput \/ SyncInput \/ KeyInput \/ TextInput
    \/ ReleaseInput \/ PatternInput \/ NameInput

Spec == Init /\ [][Next]_<<part, input>>

\* The pattern two words each wanted somewhere make, and longer names
TwoWords == <<"\\b", "a", "\\b", "(?=", ".", "*", "\\b", "b", ")">>
QuickInit ==
    /\ part = "pattern"
    /\ input \in {<<[pattern |-> Look!Compile(TwoWords), name |-> s]>> : s \in UpTo({"a", "b", "-"}, 6)}
QuickNext == UNCHANGED <<part, input>>

\* pcre_compile.go:761-763, of the shortcuts a compiled branch takes: "Both
\* are soundness-preserving".
QuickIsDirect == Look!QuickIsDirect(it.pattern, it.name)
=============================================================================
