---------------------------- MODULE SourceAnswers ----------------------------
(***************************************************************************)
(* mediasource's check of what an adapter answers, call by call: how its   *)
(* errors are classed, which items of a root pass and what is cut of them, *)
(* which catalogues, changes and posters pass; where its path mappings     *)
(* lead; and which entries of the settings make a source.                  *)
(* The walk of Items over many roots is SourceSet's.                       *)
(***************************************************************************)
EXTENDS Integers, Sequences, FiniteSets, SequencesExt

CONSTANTS
    MaxItemTags, MaxAudioLangs,
    ValidID(_),     \* validNativeID
    Listed(_),      \* a kind of root the source lists
    ValidEpisodeNumber(_),
    Component,      \* of a path
    KnownType(_),   \* a type some adapter is registered for
    MaxSources, MaxMappings, MaxExcludeTags,
    NormLabel(_),   \* normLabel: a label trimmed and lower-cased, "" of none
    DefaultTag      \* defaultExcludeTag

(***************************************************************************)
(* Errors.  An arr's error is what it wraps and its status code, 0 for no  *)
(* status; a SourceError is a cause, "unset" for none, and what it wraps.  *)
(***************************************************************************)

StatusCause(code) ==
    CASE code \in {401, 403} -> "unauthorized"
      [] code = 404 -> "not_found"
      [] code \in {408, 429} \cup 500 .. 599 -> "unreachable"
      [] OTHER -> "protocol"

\* arr.Classify: the first matching row
Classify(wraps, code) ==
    LET cause == CASE wraps \cap {"unknown", "changed"} # {} -> "unreachable"
                   [] "not_api" \in wraps -> "not_found"
                   [] wraps \cap {"unsupported", "refused", "too_large"} # {} -> "protocol"
                   [] code > 0 -> StatusCause(code)
                   [] OTHER -> "unreachable"
    IN [kind |-> "source", cause |-> cause, wraps |-> wraps]

\* adapterError
AdapterError(e) ==
    [kind |-> "source", wraps |-> e.wraps,
     cause |-> IF e.kind = "source" /\ e.cause # "unset" THEN e.cause ELSE "protocol"]

\* answered: a classified answer, which a deadline after it does not replace
Answered(e) == e.kind = "source" /\ e.cause # "unset" /\ "deadline" \notin e.wraps

Cancelled == [kind |-> "cancelled", cause |-> "unset", wraps |-> {}]
NoAnswer == [kind |-> "source", cause |-> "unreachable", wraps |-> {"deadline"}]

\* Faulty Fail: the deadline is looked at first.
FailAtDeadline(ctx, e) ==
    CASE ctx = "cancelled" -> Cancelled [] ctx = "deadline" -> NoAnswer [] OTHER -> AdapterError(e)

\* fail, of an error: ctx is the state of the caller's context
Fail(ctx, e) ==
    CASE ctx = "cancelled" -> Cancelled
      [] ctx = "deadline" /\ ~Answered(e) -> NoAnswer
      [] OTHER -> AdapterError(e)

(***************************************************************************)
(* Items of a root, and the tags excluded.                                 *)
(***************************************************************************)

Refused == [how |-> "refused", items |-> <<>>]
Given(items) == [how |-> "answered", items |-> items]

\* exclusions: the tags whose label is one of the configured ones
Exclusions(labels, tagLabels, readsTags) ==
    IF labels = {} \/ ~readsTags THEN {} ELSE {t \in DOMAIN tagLabels : tagLabels[t] \in labels}

\* The first n of a list that are among the ones to keep
Bounded(s, keep, n) ==
    LET kept == SelectSeq(s, LAMBDA x : x \in keep) IN SubSeq(kept, 1, IF Len(kept) < n THEN Len(kept) ELSE n)
Langs(s) == Bounded(s, ToSet(s) \ {""}, MaxAudioLangs)
Tags(s) == Bounded(s, {t \in ToSet(s) : ValidID(t)}, MaxItemTags)

NoNumbering == [scheme |-> "none", season |-> 0, episode |-> 0]
ValidSeriesNumbering(kind, n) ==
    IF kind # "episode" THEN n = NoNumbering
    ELSE n.scheme = "tvdb" /\ ValidEpisodeNumber(n.season) /\ ValidEpisodeNumber(n.episode)

\* An item passes on its own: its id, its path under a mapping, its numbering
\* and its air date.
Passes(kind, it) ==
    ValidID(it.native) /\ it.path # "outside" /\ ValidSeriesNumbering(kind, it.numbering) /\ it.dateOK

\* Faulty Accepted: what is excluded is read after the cut.
AcceptedAfterCut(it, excluded) ==
    [it EXCEPT !.langs = Langs(it.langs), !.tags = Tags(it.tags), !.excluded = ToSet(Tags(it.tags)) \cap excluded # {}]

Accepted(it, excluded) ==
    [it EXCEPT !.langs = Langs(it.langs), !.tags = Tags(it.tags), !.excluded = ToSet(it.tags) \cap excluded # {}]

Items(kind, in, excluded) ==
    IF \/ \E i \in DOMAIN in : ~Passes(kind, in[i])
       \/ \E i, j \in DOMAIN in : i < j /\ in[i].native = in[j].native
    THEN Refused ELSE Given([i \in DOMAIN in |-> Accepted(in[i], excluded)])

(***************************************************************************)
(* Root                                                                    *)
(***************************************************************************)

\* the identity rule
RefOK(r) == ValidID(r.id) /\ Listed(r.kind)

Absent == [how |-> "absent", items |-> <<>>]

\* Root: got is the roots answered, one or none; a none with items, or another
\* root than the one asked for, is refused.
Root(ref, got, items, excluded) ==
    CASE ~RefOK(ref) -> Refused
      [] got = {} -> IF items = <<>> THEN Absent ELSE Refused
      [] got # {ref} -> Refused
      [] OTHER -> Items(ref.kind, items, excluded)

\* call: caps is what the source's adapter can do, need what the call asks
\* of it, nothing for most
Call(known, caps, need) ==
    CASE ~known -> "unknown_source" [] ~(need \subseteq caps) -> "unsupported" [] OTHER -> "answer"

\* Changes: the roots named by an answer, whole or refused
Changes(named) ==
    IF \E i \in DOMAIN named : ~RefOK(named[i]) \/ \E j \in 1 .. i - 1 : named[j] = named[i]
    THEN Refused ELSE Given(named)

\* Poster: an answer that says it found one comes with a body, another with
\* none.  What is handed out is the caller's to close, what is not is closed.
Poster(ref, found, body) ==
    CASE ~RefOK(ref) -> [how |-> "refused", opened |-> FALSE, closed |-> FALSE]
      [] found # body -> [how |-> "refused", opened |-> body, closed |-> body]
      [] OTHER -> [how |-> IF found THEN "answered" ELSE "absent", opened |-> body, closed |-> FALSE]

(***************************************************************************)
(* Catalogue, TitleSet and RootEvidence.  A title set's language is its    *)
(* place in the order of the codes, and its titles the ids they are of.    *)
(***************************************************************************)

PlaceOK(p) == ValidEpisodeNumber(p[1]) /\ ValidEpisodeNumber(p[2])
PlaceLess(p, q) == p[1] < q[1] \/ (p[1] = q[1] /\ p[2] < q[2])
Ascends(s) == \A i \in 2 .. Len(s) : s[i - 1] < s[i]
Distinct(s) == Cardinality(ToSet(s)) = Len(s)

Unlisted == <<>>

\* An order's places are of the catalogue's episodes, Unlisted for one it
\* leaves out.
OrderOK(o, episodes) ==
    /\ o.type \notin {"", "official", "absolute"}
    /\ Len(o.places) = episodes
    /\ \A i \in DOMAIN o.places : o.places[i] = Unlisted \/ PlaceOK(o.places[i])
    /\ \A i \in DOMAIN o.extra : PlaceOK(o.extra[i])
    /\ \A i \in 2 .. Len(o.extra) : ~PlaceLess(o.extra[i], o.extra[i - 1])

CatalogueOK(c) ==
    /\ c.tvdb > 0
    /\ Distinct([i \in DOMAIN c.episodes |-> c.episodes[i].id])
    /\ \A i \in DOMAIN c.episodes : c.episodes[i].id > 0 /\ PlaceOK(c.episodes[i].place)
    /\ Distinct([i \in DOMAIN c.orders |-> c.orders[i].type])
    /\ \A i \in DOMAIN c.orders : OrderOK(c.orders[i], Len(c.episodes))

\* moved: the regular episodes an order lists at another place than aired
Moved(c, o) ==
    {i \in DOMAIN o.places : /\ o.places[i] # Unlisted /\ o.places[i][1] > 0 /\ c.episodes[i].place[1] > 0
                           /\ o.places[i] # c.episodes[i].place}
Reordered(c) == \E o \in ToSet(c.orders) : Moved(c, o) # {}

TitleSetOK(t) ==
    /\ t.found \/ t.titles = <<>>
    /\ Ascends(t.titles)

EvidenceOK(e) ==
    /\ CatalogueOK(e.catalogue)
    /\ \A i \in DOMAIN e.titles : TitleSetOK(e.titles[i])
    /\ Ascends([i \in DOMAIN e.titles |-> e.titles[i].language])
    /\ \A i \in DOMAIN e.titles :
          ToSet(e.titles[i].titles) \subseteq {e.catalogue.episodes[k].id : k \in DOMAIN e.catalogue.episodes}

\* held is the readings held: one or none
RootEvidenceOK(bound, held) ==
    /\ EvidenceOK(bound)
    /\ \A h \in held : /\ EvidenceOK(h)
                       /\ h.catalogue.tvdb = bound.catalogue.tvdb
                       /\ h.catalogue.fetched > bound.catalogue.fetched

(***************************************************************************)
(* Path mappings.  A path is absolute and clean, the sequence of its       *)
(* components; the root is the empty one.  parseMappings accepts those     *)
(* Parsed.                                                                 *)
(***************************************************************************)

Path == Seq(Component)

NotLocal == [refused |-> TRUE, path |-> <<>>]
Local(p) == [refused |-> FALSE, path |-> p]

\* under: root contains p by component.
Under(root, p) ==
    Len(root) <= Len(p) /\ \A i \in 1 .. Len(root) : root[i] = p[i]

\* The relative path under answers.
Rel(root, p) == [i \in 1 .. Len(p) - Len(root) |-> p[Len(root) + i]]

Overlaps(a, b) == Under(a, b) \/ Under(b, a)

\* nestsExactly: one from is under the other by the path their tos nest by.
NestsExactly(a, b) ==
    IF Under(a.to, b.to)
    THEN Under(a.from, b.from) /\ Rel(a.from, b.from) = Rel(a.to, b.to)
    ELSE Under(b.from, a.from) /\ Rel(b.from, a.from) = Rel(b.to, a.to)

\* Faulty Injective: only one from of two may be under the other.
InjectiveByFrom(ms) ==
    \A a, b \in ms : a # b /\ Overlaps(a.to, b.to) => Overlaps(a.from, b.from)

\* injective
Injective(ms) ==
    \A a, b \in ms : a # b /\ Overlaps(a.to, b.to) => NestsExactly(a, b)

\* parseMappings: each from once, and injective
Parsed(ms) ==
    /\ \A a, b \in ms : a.from = b.from => a = b
    /\ Injective(ms)

\* The mappings that contain p, and of them the one with the longest from
Matching(ms, p) == {m \in ms : Under(m.from, p)}
Longest(ms, p) ==
    CHOOSE m \in Matching(ms, p) : \A n \in Matching(ms, p) : Len(n.from) <= Len(m.from)

\* toLocal
ToLocal(ms, p) ==
    IF Matching(ms, p) # {}
    THEN LET m == Longest(ms, p) IN Local(m.to \o Rel(m.from, p))
    ELSE IF \E m \in ms : Under(m.to, p) THEN NotLocal
    ELSE Local(p)

(***************************************************************************)
(* The sources section.  An entry is NotAMapping, or the value of each of  *)
(* its keys: "unset" for one that is absent or null, "bad" for one that is *)
(* no value of its kind.  Its adapter keys are decoded or not, and its     *)
(* adapter is made of them or not.                                         *)
(***************************************************************************)

NotAMapping == [entry |-> "scalar"]
NoID == "unset"

\* parseID
IDOf(e) == IF e = NotAMapping \/ ~ValidID(e.id) THEN NoID ELSE e.id

MappingsOK(ms) ==
    /\ Len(ms) <= MaxMappings
    /\ \A i, j \in DOMAIN ms : i < j => ms[i].from # ms[j].from
    /\ Injective(ToSet(ms))

Labels(l) == [i \in DOMAIN l |-> NormLabel(l[i])]
TagsOK(l) ==
    l # <<NoID>> => /\ Len(l) <= MaxExcludeTags
                    /\ "" \notin ToSet(Labels(l)) /\ Distinct(Labels(l))

\* parseExcludeTags: <<NoID>> for no such key
ExcludeTags(l) == IF l = <<NoID>> THEN <<DefaultTag>> ELSE Labels(l)

\* parseEntry's errors, by key; "" is of the entry, and "adapter" of its own
\* keys.  A kind that is not known decodes no keys, and New is asked of an
\* entry without an error alone.
KeyErrors(e) ==
    {k \in {"id", "type", "enabled", "path_mappings", "exclude_tags", "adapter"} :
        CASE k = "id" -> IDOf(e) = NoID
          [] k = "type" -> ~KnownType(e.type)
          [] k = "enabled" -> e.enabled = "bad"
          [] k = "path_mappings" -> ~MappingsOK(e.mappings)
          [] k = "exclude_tags" -> ~TagsOK(e.tags)
          [] k = "adapter" -> KnownType(e.type) /\ ~e.decodes}
EntryErrors(e) ==
    CASE e = NotAMapping -> {""}
      [] KeyErrors(e) = {} /\ ~e.makes -> {""}
      [] OTHER -> KeyErrors(e)
Enabled(e) == e # NotAMapping /\ e.enabled \in {"unset", "true"}

\* An id is taken by the first entry it can be read of, with an error or
\* disabled as it may be.
Repeats(l, i) == IDOf(l[i]) # NoID /\ \E j \in 1 .. i - 1 : IDOf(l[j]) = IDOf(l[i])

\* Faulty IDErrors: a disabled entry takes no id.
IDErrorsOfEnabled(l, i) ==
    IF IDOf(l[i]) # NoID /\ \E j \in 1 .. i - 1 : Enabled(l[j]) /\ IDOf(l[j]) = IDOf(l[i]) THEN {"id"} ELSE {}

IDErrors(l, i) == IF Repeats(l, i) THEN {"id"} ELSE {}

Config(l, i) ==
    [id |-> l[i].id, type |-> l[i].type, index |-> i, mappings |-> l[i].mappings, tags |-> ExcludeTags(l[i].tags)]

\* ParseConfigs, of a list: every error, by entry (0 the list's own), and the
\* sources made when there is none
ConfigErrors(l) ==
    [i \in 0 .. Len(l) |-> IF i = 0 THEN (IF Len(l) > MaxSources THEN {"sources"} ELSE {})
                          ELSE EntryErrors(l[i]) \cup IDErrors(l, i)]
ParseConfigs(l) ==
    LET errors == ConfigErrors(l)
        enabled == SelectSeq([i \in DOMAIN l |-> i], LAMBDA i : Enabled(l[i]))
    IN [errors |-> errors,
        out |-> IF \E i \in DOMAIN errors : errors[i] # {} THEN <<>>
                ELSE [k \in DOMAIN enabled |-> Config(l, enabled[k])]]

\* Faulty ChangedConnection: the entry at the same place is compared.
ChangedAtIndex(prev, c) ==
    ~\E i \in DOMAIN prev : prev[i].index = c.index /\ prev[i].type = c.type /\ prev[i].connection = c.connection

\* changedConnection: connection is what the fields the schema marks required
\* or secret hold; the first entry with the id is compared
ChangedConnection(prev, c) ==
    ~\E i \in DOMAIN prev :
        /\ prev[i].id = c.id /\ \A j \in 1 .. i - 1 : prev[j].id # c.id
        /\ prev[i].type = c.type /\ prev[i].connection = c.connection

\* CheckSaved: the places of the entries a save asks and hears no answer of;
\* up is what answers a ping
CheckSaved(prev, next, up) ==
    {c.index : c \in {d \in ToSet(next) : ChangedConnection(prev, d) /\ <<d.type, d.connection>> \notin up}}

(***************************************************************************)
(* Properties                                                              *)
(***************************************************************************)

\* A rescan the source may have run is told so, whatever its answer wraps
\* beside that and even when the deadline passes after it, unless the caller
\* has cancelled; a failure always has a cause, and only a refused credential
\* is unauthorized.
RescanIsTold(ctx, wraps, code) ==
    LET got == Fail(ctx, Classify(wraps, code))
    IN /\ ctx = "cancelled" <=> got = Cancelled
       /\ got # Cancelled => got.cause # "unset"
       /\ "unknown" \in wraps /\ "deadline" \notin wraps /\ ctx # "cancelled" => "unknown" \in got.wraps
       /\ got.cause = "unauthorized" => code \in {401, 403}

\* No item with an excluded tag passes unmarked, however many tags are ahead
\* of it; an answer passes whole or not at all, of the root asked for, and no
\* item of it twice.
ExclusionsHold(ref, got, in, labels, tagLabels) ==
    LET excluded == Exclusions(labels, tagLabels, TRUE)
        answer == Root(ref, got, in, excluded)
        out == answer.items
    IN answer.how = "answered" =>
          /\ got = {ref}
          /\ Len(out) = Len(in) /\ Distinct([i \in DOMAIN out |-> out[i].native])
          /\ \A i \in DOMAIN in :
                out[i].excluded <=> \E k \in DOMAIN in[i].tags : in[i].tags[k] \in DOMAIN tagLabels /\ tagLabels[in[i].tags[k]] \in labels
          /\ \A i \in DOMAIN in : Len(out[i].tags) <= MaxItemTags /\ \A k \in DOMAIN out[i].tags : ValidID(out[i].tags[k])

\* Comparing neighbours alone finds every repeat of an accepted reading, and
\* every title of it is of an episode aired once; of two readings one is the
\* later.
EvidenceIsWhole(e, held) ==
    RootEvidenceOK(e, held) =>
        /\ \A h \in held : ~RootEvidenceOK(h, {e})
        /\ Distinct([i \in DOMAIN e.titles |-> e.titles[i].language])
        /\ \A t \in ToSet(e.titles) : Distinct(t.titles) /\ (t.titles # <<>> => t.found)
        /\ \A t \in ToSet(e.titles) : \A id \in ToSet(t.titles) :
              Cardinality({k \in DOMAIN e.catalogue.episodes : e.catalogue.episodes[k].id = id}) = 1
        /\ \A o \in ToSet(e.catalogue.orders) : \A i, j \in DOMAIN o.extra : i < j => ~PlaceLess(o.extra[j], o.extra[i])

\* Of an answer that names changes no root is heard twice or half; a body the
\* source opened is handed out or closed, never both or neither; and a call a
\* source cannot answer is never made.
CallsHeard(named, caps) ==
    /\ Changes(named).how = "answered" => Changes(named).items = named /\ Distinct(named) /\ \A r \in ToSet(named) : RefOK(r)
    /\ Changes(named).how = "refused" => Changes(named).items = <<>>
    /\ \A r \in ToSet(named), found, body \in BOOLEAN :
          LET got == Poster(r, found, body)
          IN got.opened <=> (got.closed # (got.how = "answered"))
    /\ \A known \in BOOLEAN, need \in {{}, {"rescan"}} :
          Call(known, caps, need) = "answer" <=> known /\ need \subseteq caps

\* Of a catalogue that passes, one whose every order is the aired one is not
\* reordered, whatever its specials are; and moving one regular episode is
\* seen.
ReorderIsSeen(c) ==
    CatalogueOK(c) =>
        /\ (\A o \in ToSet(c.orders) : \A i \in DOMAIN o.places : o.places[i] \in {Unlisted, c.episodes[i].place}) => ~Reordered(c)
        /\ Reordered(c) => \E o \in ToSet(c.orders) : \E i \in DOMAIN o.places :
                             o.places[i] # c.episodes[i].place /\ c.episodes[i].place[1] > 0

\* An entry with enabled: false is validated as another: disabling or enabling
\* an entry that says so changes no error of the section, so a section that
\* is accepted stays so.  The sources made have one id each, are those enabled
\* at their places, and their tags are told apart whatever their case; and an
\* error of one entry hides none of another.
ParsedWhole(l, got) ==
    LET toggled(i) == [l EXCEPT ![i].enabled = IF @ = "false" THEN "true" ELSE "false"]
        alone(i) == ParseConfigs(<<l[i]>>).errors[1]
    IN /\ \A i \in DOMAIN l : l[i] # NotAMapping /\ l[i].enabled # "bad" => ParseConfigs(toggled(i)).errors = got.errors
       /\ \A i \in DOMAIN l : alone(i) \subseteq got.errors[i] /\ got.errors[i] \subseteq alone(i) \cup {"id"}
       /\ got.out # <<>> => \A i, j \in DOMAIN l : i # j => IDOf(l[i]) # IDOf(l[j])
       /\ {c.index : c \in ToSet(got.out)} \in {{}, {i \in DOMAIN l : Enabled(l[i])}}
       /\ \A k \in DOMAIN got.out : /\ Parsed(ToSet(got.out[k].mappings)) /\ Distinct(got.out[k].tags)
                                    /\ k > 1 => got.out[k - 1].index < got.out[k].index
ConfigsWhole(l) == ParsedWhole(l, ParseConfigs(l))

\* However a section came to be through saves that were all accepted, each
\* connection in it has answered a ping; and a save that changes the
\* connection of none is not refused while they are down, in whatever order
\* it has them.
SavedHasAnswered(saves, up) ==
    LET prev(k) == IF k = 1 THEN <<>> ELSE saves[k - 1]
        connections(l) == {[c EXCEPT !.index = 0] : c \in ToSet(l)}
    IN /\ (\A k \in DOMAIN saves : CheckSaved(prev(k), saves[k], up) = {}) =>
             \A k \in DOMAIN saves : \A c \in ToSet(saves[k]) : <<c.type, c.connection>> \in up
       /\ \A k \in DOMAIN saves :
             connections(saves[k]) \subseteq connections(prev(k)) => CheckSaved(prev(k), saves[k], {}) = {}

\* Under mappings the settings accept, no two paths a source reports are one
\* local file: "so no two reported paths map to one local path".
NoAlias(ms, p, q) ==
    Parsed(ms) /\ p # q /\ ~ToLocal(ms, p).refused => ToLocal(ms, p) # ToLocal(ms, q)
=============================================================================
