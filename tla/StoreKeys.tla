----------------------------- MODULE StoreKeys ------------------------------
(***************************************************************************)
(* What a row is stored under.  internal/media chooses an item's key from  *)
(* its external ids and spells it as bytes and as text; internal/statedb   *)
(* composes the keys of its tables from fixed-width and length-prefixed    *)
(* components (keys.go, codecs.go), so that a cascade or a list that scans *)
(* a prefix reaches the rows of one parent and no other's.                 *)
(*                                                                         *)
(* A byte is a number below ByteSize, a uint64 is Width of them, and a     *)
(* text, an id or a tag is a short sequence of bytes.                      *)
(***************************************************************************)
EXTENDS Integers, Sequences, SequencesExt, FiniteSets, FiniteSetsExt

CONSTANTS
    ByteSize,      \* how many bytes there are (256)
    Width,         \* bytes of a uint64 (8)
    MaxId,         \* the largest external id a key holds (2^53 - 1)
    MaxNumber,     \* the largest season or episode (65,535)
    Digits,        \* the digits, least first
    IdDigits,      \* the digits an IMDb id is padded to (7)
    TagOf          \* tag text -> the canonical text of the tag it parses to

BigEndian(n, w) == [i \in 1 .. w |-> (n \div ByteSize ^ (w - i)) % ByteSize]

Number(b) == FoldLeft(LAMBDA n, x : n * ByteSize + x, 0, b)

-----------------------------------------------------------------------------
(* internal/media: the identity of an item. *)

Schemes == {"tvdb", "tmdb", "imdb"}
NoKey == [kind |-> "none"]

ValidExternalID(id) == id \in 1 .. MaxId
ValidEpisodeNumber(n) == n \in 0 .. MaxNumber

\* An episode is keyed by the id of the scheme that numbers it, a movie by
\* TMDB's, then IMDb's; ids[s] = 0 is an unknown id.
Choose(kind, ids, scheme, season, episode) ==
    LET movieBy == {s \in {"tmdb", "imdb"} : ValidExternalID(ids[s])}
        best == IF "tmdb" \in movieBy THEN "tmdb" ELSE "imdb"
    IN CASE /\ kind = "episode" /\ scheme \in Schemes
            /\ ValidExternalID(ids[scheme]) /\ ValidEpisodeNumber(season) /\ ValidEpisodeNumber(episode) ->
               [kind |-> kind, scheme |-> scheme, id |-> ids[scheme], season |-> season, episode |-> episode]
         [] kind = "movie" /\ movieBy # {} ->
               [kind |-> kind, scheme |-> best, id |-> ids[best], season |-> 0, episode |-> 0]
         [] OTHER -> NoKey

KindByte == [episode |-> 1, movie |-> 2]
SchemeByte == [none |-> 0, tvdb |-> 1, tmdb |-> 2, imdb |-> 3]

\* The kinds and schemes a key has, and how its text begins.
KeyPrefix ==
    [k \in {<<"movie", "tmdb">>, <<"movie", "imdb">>, <<"episode", "tvdb">>, <<"episode", "tmdb">>, <<"episode", "imdb">>} |->
        CASE k = <<"movie", "tmdb">> -> "tmdb-" [] k = <<"movie", "imdb">> -> "tt"
          [] k = <<"episode", "tvdb">> -> "tvdb-" [] k = <<"episode", "tmdb">> -> "tmdbtv-" [] OTHER -> "imdbtv-tt"]

RootBytes(k) == <<KindByte[k.kind], SchemeByte[k.scheme]>> \o BigEndian(k.id, Width)

KeyBytes(k) == RootBytes(k) \o BigEndian(k.season, 2) \o BigEndian(k.episode, 2)

KeyLength == 6 + Width

\* The key these bytes are, refusing a kind and scheme no key has, an id out
\* of range and a movie with an episode.
RootFromBytes(b) ==
    LET named == {k \in DOMAIN KeyPrefix : KindByte[k[1]] = b[1] /\ SchemeByte[k[2]] = b[2]}
        id == Number(SubSeq(b, 3, 2 + Width))
    IN IF named = {} \/ ~ValidExternalID(id) THEN NoKey
       ELSE LET k == CHOOSE k \in named : TRUE
            IN [kind |-> k[1], scheme |-> k[2], id |-> id, season |-> 0, episode |-> 0]

KeyFromBytes(b) ==
    LET root == IF Len(b) = KeyLength THEN RootFromBytes(b) ELSE NoKey
        season == Number(SubSeq(b, KeyLength - 3, KeyLength - 2))
        episode == Number(SubSeq(b, KeyLength - 1, KeyLength))
    IN IF root = NoKey \/ (root.kind = "movie" /\ (season # 0 \/ episode # 0)) THEN NoKey
       ELSE [root EXCEPT !.season = season, !.episode = episode]

\* Decimal text: as many digits as the number needs, and at least `least`.
Base == Len(Digits)
DigitsOf(n, least) ==
    LET w == CHOOSE w \in least .. least + 20 : n < Base ^ w /\ (w = least \/ n >= Base ^ (w - 1))
    IN [i \in 1 .. w |-> Digits[((n \div Base ^ (w - i)) % Base) + 1]]

Least(scheme) == IF scheme = "imdb" THEN IdDigits ELSE 1

RootText(k) == <<KeyPrefix[<<k.kind, k.scheme>>]>> \o DigitsOf(k.id, Least(k.scheme))

KeyText(k) ==
    RootText(k) \o (IF k.kind = "movie" THEN <<>>
                    ELSE <<"-s">> \o DigitsOf(k.season, 2) \o <<"e">> \o DigitsOf(k.episode, 2))

\* The leading digits of a text, and what they number.
CutDigits(t) ==
    LET n == CHOOSE n \in 0 .. Len(t) :
                /\ \A i \in 1 .. n : t[i] \in Range(Digits)
                /\ n = Len(t) \/ t[n + 1] \notin Range(Digits)
    IN SubSeq(t, 1, n)

ValueOf(ds) == FoldLeft(LAMBDA n, d : n * Base + (CHOOSE v \in 0 .. Base - 1 : Digits[v + 1] = d), 0, ds)

\* A season or an episode as parseEpisode cuts it: within range, and spelled
\* with two digits or with no leading zero.
CutLoosely(t, most) ==              \* a faulty form, that takes any spelling of the number
    LET ds == CutDigits(t) IN IF ds = <<>> \/ ValueOf(ds) > most THEN [ok |-> FALSE]
                             ELSE [ok |-> TRUE, n |-> ValueOf(ds), rest |-> SubSeq(t, Len(ds) + 1, Len(t))]

CutNumber(t, most) ==
    LET ds == CutDigits(t)
    IN IF ds = <<>> \/ ValueOf(ds) > most \/ DigitsOf(ValueOf(ds), 2) # ds THEN [ok |-> FALSE]
       ELSE [ok |-> TRUE, n |-> ValueOf(ds), rest |-> SubSeq(t, Len(ds) + 1, Len(t))]

ParseRoot(t) ==
    LET named == {k \in DOMAIN KeyPrefix : t # <<>> /\ t[1] = KeyPrefix[k]}
        k == CHOOSE k \in named : TRUE
        ds == CutDigits(Tail(t))
    IN IF named = {} THEN [ok |-> FALSE]
       ELSE IF ds = <<>> \/ ~ValidExternalID(ValueOf(ds)) \/ DigitsOf(ValueOf(ds), Least(k[2])) # ds THEN [ok |-> FALSE]
       ELSE [ok |-> TRUE, rest |-> SubSeq(t, Len(ds) + 2, Len(t)),
             root |-> [kind |-> k[1], scheme |-> k[2], id |-> ValueOf(ds), season |-> 0, episode |-> 0]]

ParseEpisode(t) ==
    LET season == CutNumber(Tail(t), MaxNumber)
        episode == CutNumber(Tail(season.rest), MaxNumber)
    IN IF t = <<>> \/ t[1] # "-s" THEN [ok |-> FALSE]
       ELSE IF ~season.ok THEN [ok |-> FALSE]
       ELSE IF season.rest = <<>> \/ season.rest[1] # "e" THEN [ok |-> FALSE]
       ELSE IF ~episode.ok THEN [ok |-> FALSE]
       ELSE IF episode.rest # <<>> THEN [ok |-> FALSE]
       ELSE [ok |-> TRUE, season |-> season.n, episode |-> episode.n]

ParseKey(t) ==
    LET r == ParseRoot(t)
        e == ParseEpisode(r.rest)
    IN CASE ~r.ok -> NoKey
         [] r.root.kind = "movie" -> IF r.rest = <<>> THEN r.root ELSE NoKey
         [] OTHER -> IF e.ok THEN [r.root EXCEPT !.season = e.season, !.episode = e.episode] ELSE NoKey

ParseRootKey(t) == LET r == ParseRoot(t) IN IF r.ok /\ r.rest = <<>> THEN r.root ELSE NoKey

-----------------------------------------------------------------------------
(* internal/statedb: the components of a table's key. *)

\* A signed number and an instant are stored with the sign bit flipped, so
\* that bytes order as numbers do: n is in two's complement, and -1 sorts
\* before 0.
SignFlip == ByteSize ^ Width \div 2
AsUint64(n) == n % (ByteSize ^ Width)
PlainSigned(n) == BigEndian(AsUint64(n), Width)         \* a faulty form, that keeps the sign bit
SignedBytes(n) == BigEndian((AsUint64(n) + SignFlip) % (ByteSize ^ Width), Width)

Uint64Bytes(n) == BigEndian(n, Width)

\* A text carries its length first: no text's bytes begin another's.
BareText(s) == s                                         \* a faulty form, with no length
TextBytes(s) == <<Len(s)>> \o s

FlagsByte(f) == (IF f.hi THEN 1 ELSE 0) + (IF f.forced THEN 2 ELSE 0)
FlagsOf(b) == [hi |-> b % 2 = 1, forced |-> (b \div 2) % 2 = 1]
Variants == 1 .. 3

RootRefBytes(r) == TextBytes(r.source) \o <<KindByte[r.kind]>> \o TextBytes(r.id)
ItemRefBytes(r) == RootRefBytes(r.root) \o TextBytes(r.item)
FileKeyBytes(k) == Uint64Bytes(k.inst) \o TextBytes(k.name)
LockKeyBytes(k) == KeyBytes(k.key) \o TextBytes(k.tag) \o <<k.variant>>
OrdinalKeyBytes(k) == Uint64Bytes(k.inst) \o TextBytes(k.tag) \o <<FlagsByte(k.flags)>>
NoResultKeyBytes(k) == KeyBytes(k.key) \o TextBytes(k.tag) \o TextBytes(k.provider)

\* The one key of a table of one row
ConstKeyBytes == <<0>>

\* What each table is keyed by, and the tables whose rows go with the row of
\* another.
TableKeys ==
    [t \in {"activation"} |-> "const"] @@ [t \in {"passes", "cursors"} |-> "source"]
        @@ [t \in {"roots", "root_evidence"} |-> "root"] @@ [t \in {"sightings", "stamps", "overlaps"} |-> "item"]
        @@ [t \in {"items", "coverage"} |-> "media"] @@ [t \in {"instances", "local", "embedded", "work"} |-> "inst"]
        @@ [t \in {"files", "baselines", "intents"} |-> "file"] @@ [t \in {"locks"} |-> "lock"]
        @@ [t \in {"ordinals"} |-> "ordinal"] @@ [t \in {"no_results"} |-> "noResult"]
        @@ [t \in {"downloads"} |-> "sequence"] @@ [t \in {"jobs", "credentials"} |-> "text"]
Cascades ==
    {<<"instances", t>> : t \in {"files", "baselines", "ordinals", "local", "embedded", "work"}}
        \cup {<<"items", "no_results">>, <<"roots", "root_evidence">>}

\* The bytes of a key of that kind with these components
BytesOf(kind, k) ==
    CASE kind = "const" -> ConstKeyBytes
      [] kind = "source" -> TextBytes(k.source)
      [] kind = "root" -> RootRefBytes(k.root)
      [] kind = "item" -> ItemRefBytes(k)
      [] kind = "media" -> KeyBytes(k.key)
      [] kind \in {"inst", "sequence"} -> Uint64Bytes(k.inst)
      [] kind = "file" -> FileKeyBytes(k)
      [] kind = "lock" -> LockKeyBytes(k)
      [] kind = "ordinal" -> OrdinalKeyBytes(k)
      [] kind = "noResult" -> NoResultKeyBytes(k)
      [] OTHER -> TextBytes(k.name)

\* The reader takes one component after another; a failure sticks, and end
\* refuses bytes left over.
Reader(b) == [ok |-> TRUE, rest |-> b, got |-> <<>>]
Failed(r) == [r EXCEPT !.ok = FALSE]

\* The next n bytes, read as value where they fit
Leads(r, n) == SubSeq(r.rest, 1, n)
Fixed(r, n, fits, value) ==
    IF ~r.ok \/ Len(r.rest) < n \/ ~fits THEN Failed(r)
    ELSE [ok |-> TRUE, rest |-> SubSeq(r.rest, n + 1, Len(r.rest)), got |-> Append(r.got, value)]

\* A length and then as many bytes
Said(r) == SubSeq(r.rest, 2, 1 + r.rest[1])
FieldText(r, fits) ==
    IF ~r.ok \/ r.rest = <<>> THEN Failed(r)
    ELSE Fixed([r EXCEPT !.rest = Tail(@)], r.rest[1], fits, Said(r))

\* A tag is refused unless its bytes are the canonical text of what they parse to.
CanonicalTag(s) == s \in DOMAIN TagOf /\ TagOf[s] = s

TagText(r) == FieldText(r, CanonicalTag(Said(r)))
Inst(r) == LET id == Number(Leads(r, Width)) IN Fixed(r, Width, id # 0, id)
MediaKey(r) == LET key == KeyFromBytes(Leads(r, KeyLength)) IN Fixed(r, KeyLength, key # NoKey, key)
RootKind(r) ==
    LET kinds == {k \in DOMAIN KindByte : KindByte[k] = r.rest[1]}
    IN Fixed(r, 1, kinds # {}, CHOOSE k \in kinds : TRUE)
VariantByte(r) == Fixed(r, 1, r.rest[1] \in Variants, r.rest[1])
Flags(r) == Fixed(r, 1, r.rest[1] \in 0 .. 3, FlagsOf(r.rest[1]))
SourceText(r) == FieldText(r, Said(r) # <<>>)
AnyText(r) == FieldText(r, TRUE)

Ended(r) == IF r.ok /\ r.rest = <<>> THEN r.got ELSE <<"corrupt">>

ParseConst(b) == Ended(Fixed(Reader(b), 1, b[1] = 0, "the row"))
ParseInst(b) == Ended(Inst(Reader(b)))
ParseMediaKey(b) == Ended(MediaKey(Reader(b)))
ParseSource(b) == Ended(SourceText(Reader(b)))
ParseText(b) == Ended(AnyText(Reader(b)))
ParseRootRef(b) == Ended(AnyText(RootKind(SourceText(Reader(b)))))
ParseItemRef(b) == Ended(AnyText(AnyText(RootKind(SourceText(Reader(b))))))
ParseFileKey(b) == Ended(AnyText(Inst(Reader(b))))
ParseLockKey(b) == Ended(VariantByte(TagText(MediaKey(Reader(b)))))
ParseOrdinalKey(b) == Ended(Flags(TagText(Inst(Reader(b)))))
ParseNoResultKey(b) == Ended(AnyText(TagText(MediaKey(Reader(b)))))

-----------------------------------------------------------------------------
(* internal/statedb: the rows.  A row type gives each of its fields -- named *)
(* by the path that reaches it, a list's element standing for the list -- a  *)
(* kind: what its stored text is, and what its check asks.                   *)

Row(names) == [p \in {<<n>> : n \in names} |-> [is |-> "plain"]]
Field(name, kind) == <<name>> :> kind
Within(name, T) == [p \in {<<name>> \o q : q \in DOMAIN T} |-> T[Tail(p)]]

Enum(lo, hi) == [is |-> "enum", lo |-> lo, hi |-> hi]
FlagBits == Enum(0, 3)                      \* flagsAll is the two low bits
VariantEnum == Enum(1, 3)                   \* Standard, HI, Forced
Sum32 == [is |-> "hex", bytes |-> 32]
Id16 == [is |-> "hex", bytes |-> 16]
RowKey == [is |-> "key"]
RowTag == [is |-> "tag"]
AtLeast(n) == [is |-> "atLeast", least |-> n]

Bypass == -1
Queued == 1
Done == 3

Numbering == Row({"season", "episode"}) @@ Field("scheme", Enum(0, 3))
NativeRef == Row({"id"}) @@ Field("kind", Enum(1, 2))
Outcome == Row({"confidence", "offset_ms"}) @@ Field("action", Enum(0, 4)) @@ Field("skip", Enum(0, 4))
              @@ Field("method", Enum(0, 2)) @@ Field("verdict", Enum(0, 3))
Facts == Row({"hash", "pre_release", "season_pack", "episode_by_number"})
            @@ [p \in {<<f>> : f \in {"source", "group", "service", "cut", "rate"}} |-> Enum(0, 2)]
Provenance == Row({"provider", "release", "manual", "uploaded", "machine_translated"})
                 @@ Field("matched_by", Enum(0, 3)) @@ Field("fit", Enum(0, 5))
                 @@ Within("timing", Outcome) @@ Within("facts", Facts)
Identity == Row({"size", "mtime_ns"}) @@ Field("sha256", Sum32)
FileRow == Row({"timing", "ordinal", "generation", "locked"}) @@ Field("tag", RowTag) @@ Field("flags", FlagBits)
              @@ Within("identity", Identity) @@ Within("provenance", Provenance)
DownloadRow == Row({"at", "refusal", "attempt", "inst", "delivered"}) @@ Field("target", RowTag)
                  @@ Field("items", RowKey) @@ Field("run", Id16) @@ Field("candidate", Sum32)
                  @@ Field("variant", VariantEnum) @@ Within("provenance", Provenance)

\* The row of each table; a root's evidence, whose own check SourceAnswers
\* models, has no field here.
ObservedRows == [
    activation |-> Row({"sources", "codecs", "config_rev"}) @@ Field("policy", Sum32),
    passes |-> Row({"pass"}) @@ Within("roots", NativeRef),
    cursors |-> Row({"cursor"}),
    roots |-> Row({"order", "title", "link", "alt_titles", "external", "year"}) @@ Field("language", RowTag),
    sightings |-> Row({"video_path", "scene_name", "title", "air_date", "tags", "external", "absolute", "excluded"})
        @@ Field("key", RowKey) @@ Field("original_lang", RowTag) @@ Field("audio_langs", RowTag)
        @@ Within("numbering", Numbering) @@ Within("series_numbering", Numbering),
    stamps |-> Row({"pass"}),
    overlaps |-> Row({"owner", "by_key"}),
    items |-> Row({"source", "item", "inst"}) @@ Within("root", NativeRef),
    instances |-> Row({"orphaned", "owner", "video_path", "scene_name"}) @@ Field("items", RowKey),
    coverage |-> Within("pairs", Field("tag", RowTag) @@ Field("variant", VariantEnum) @@ Field("coverage", Enum(1, 3))),
    locks |-> Row({"at"})]
KeptRows == [
    files |-> FileRow,
    baselines |-> Row({"cues"}),
    ordinals |-> Row({"next"}),
    intents |-> Row({"baseline"}) @@ Field("sha256", Sum32) @@ Field("op", Enum(1, 3)) @@ Within("record", FileRow)
        @@ Within("attempts", DownloadRow) @@ Within("removes", Row({"name"}) @@ Field("sha256", Sum32)),
    local |-> Within("files", Row({"name"}) @@ Field("tag", RowTag) @@ Field("flags", FlagBits)),
    embedded |-> Row({"size", "mtime_ns", "fps"})
        @@ Within("tracks", Row({"codec", "title", "index"}) @@ Field("tag", RowTag) @@ Field("flags", FlagBits)),
    downloads |-> DownloadRow]
QueueRows == [
    work |-> Row({"not_before", "first_deferral", "gen", "seq"}) @@ Field("cause", Enum(1, 3)),
    jobs |-> Row({"started", "ended", "scope", "phase", "cause", "done", "total", "rev", "cancellable"})
        @@ Within("key", Row({"key"}) @@ Field("fingerprint", Sum32)) @@ Field("owner", AtLeast(Bypass))
        @@ Field("kind", Enum(1, 6)) @@ Field("state", Enum(Queued, Done)) @@ Field("outcome", Enum(0, 5)),
    credentials |-> Row({"at", "fingerprint", "reason"}),
    no_results |-> Row({"next"}) @@ Field("count", AtLeast(1))]
RowTypes == ObservedRows @@ KeptRows @@ QueueRows

\* What a row may leave out: a nil pointer or an empty list, with every field
\* under it.
Optional == [
    sightings |-> {<<"key">>, <<"tags">>, <<"audio_langs">>}, passes |-> {<<"roots">>}, coverage |-> {<<"pairs">>},
    instances |-> {<<"owner">>, <<"items">>}, roots |-> {<<"alt_titles">>},
    files |-> {<<"provenance">>}, embedded |-> {<<"tracks">>}, local |-> {<<"files">>}, jobs |-> {<<"key">>},
    downloads |-> {<<"items">>},
    intents |-> {<<"record">>, <<"record", "provenance">>, <<"baseline">>, <<"attempts">>, <<"attempts", "items">>,
                 <<"removes">>}]
OptionalOf(t) == IF t \in DOMAIN Optional THEN Optional[t] ELSE {}
\* The fields of a row that leaves those out
FieldsOf(t, out) == LET T == RowTypes[t] IN {p \in DOMAIN T : ~\E o \in out : IsPrefix(o, p)}

\* An absent field decodes as its kind's zero value: no bytes for "plain".
ZeroOf(kind) ==
    CASE kind.is \in {"enum", "atLeast"} -> 0
      [] kind.is = "hex" -> kind.bytes
      [] OTHER -> <<>>

Fits(kind, x) ==
    CASE kind.is = "enum" -> x \in kind.lo .. kind.hi
      [] kind.is = "atLeast" -> x >= kind.least
      [] OTHER -> TRUE

\* The row's check: its own enums, those of the nested rows whose check it
\* calls, and a done job's end.
Nested == {"roots", "numbering", "series_numbering", "root", "pairs", "record", "provenance", "timing", "facts",
           "attempts", "files", "tracks"}
Asked(p) == \A i \in 1 .. Len(p) - 1 : p[i] \in Nested
Unended(t, v) == t = "jobs" /\ v[<<"state">>] = Done /\ v[<<"ended">>] = <<>>
Checked(t, v) ==
    LET T == RowTypes[t] IN (\A p \in DOMAIN v : Asked(p) => Fits(T[p], v[p])) /\ ~Unended(t, v)

\* A leaf's text, and whether a stored text reads as a leaf: hex of the wrong
\* length, bytes of no key and text of no language do not.  An older spelling
\* of a tag reads as its current one.
LeafText(kind, x) ==
    CASE kind.is = "key" -> KeyBytes(x)
      [] kind.is = "tag" -> IF x = <<>> THEN x ELSE TagOf[x]
      [] OTHER -> x
LeafReads(kind, b) ==
    CASE kind.is = "hex" -> b = kind.bytes
      [] kind.is = "key" -> KeyFromBytes(b) # NoKey
      [] kind.is = "tag" -> b \in DOMAIN TagOf \cup {<<>>}
      [] OTHER -> TRUE
LeafOf(kind, b) ==
    CASE kind.is = "key" -> KeyFromBytes(b)
      [] kind.is = "tag" -> IF b = <<>> THEN b ELSE TagOf[b]
      [] OTHER -> b

NoRow == [refused |-> TRUE]
RowRead(v) == [refused |-> FALSE, row |-> v]

\* rowCodec.Append: a row is stored only when its check passes.
AppendRow(t, v) ==
    LET T == RowTypes[t]
    IN IF ~Checked(t, v) THEN NoRow
       ELSE RowRead([fields |-> [p \in DOMAIN v |-> LeafText(T[p], v[p])], trailing |-> FALSE])

\* rowCodec.Decode: an unknown field, a field that does not read, bytes left
\* over and a failed check are refused; an absent field is zero.
DecodeAs(T, t, b) ==
    LET given == DOMAIN b.fields
        out == {o \in OptionalOf(t) : ~\E p \in given : IsPrefix(o, p)}
        v == [p \in FieldsOf(t, out) |->
                 IF p \in given THEN LeafOf(T[p], b.fields[p]) ELSE ZeroOf(T[p])]
    IN IF \/ ~(given \subseteq DOMAIN T)
          \/ \E p \in given : ~LeafReads(T[p], b.fields[p])
          \/ b.trailing
          \/ ~Checked(t, v)
       THEN NoRow ELSE RowRead(v)
DecodeRow(t, b) == DecodeAs(RowTypes[t], t, b)

\* A codec's version: its own, and the version of every format its bytes hold,
\* so that a change to a tag's text or to timing data resets the store.
TaggedVersion(own, format) == own * 2 ^ 16 + format
TimedVersion(own, timing, format) == own * 2 ^ 24 + timing * 2 ^ 16 + format

\* The entries a row adds to the indexes, a set of at most one key's bytes
\* where it may add none; a job's key is one text or no text.
ItemCause == 3
UserOwned(owner) == owner > 0 \/ owner = Bypass
WorkOrderEntry(r) == <<ItemCause - r.cause>> \o Uint64Bytes(r.seq)
OwnerEntry(r) == SignedBytes(r.owner)
KeyEntry(r) == {SignedBytes(r.owner) \o TextBytes(k) : k \in r.key}
EndedEntry(r) == IF r.state # Done THEN {} ELSE {SignedBytes(r.ended)}
OwnerEndedEntry(r) == IF r.state # Done THEN {} ELSE {SignedBytes(r.owner) \o SignedBytes(r.ended)}
UserEndedEntry(r) == IF r.state # Done \/ ~UserOwned(r.owner) THEN {} ELSE {SignedBytes(r.ended)}

-----------------------------------------------------------------------------
Before(a, b) ==         \* the order of a table: bytes.Compare
    \/ IsStrictPrefix(a, b)
    \/ \E i \in 1 .. Len(a) : i <= Len(b) /\ SubSeq(a, 1, i - 1) = SubSeq(b, 1, i - 1) /\ a[i] < b[i]

\* A key reads back as itself from each of its tables' bytes, and a lock
\* stored under another spelling of its tag is refused: nothing addresses it.
KeysReadBack(k, inst, s, t, v, f) ==
    /\ ParseLockKey(LockKeyBytes([key |-> k, tag |-> t, variant |-> v])) =
          IF CanonicalTag(t) THEN <<k, t, v>> ELSE <<"corrupt">>
    /\ CanonicalTag(t) =>
          /\ ParseNoResultKey(NoResultKeyBytes([key |-> k, tag |-> t, provider |-> s])) = <<k, t, s>>
          /\ ParseOrdinalKey(OrdinalKeyBytes([inst |-> inst, tag |-> t, flags |-> f])) = <<inst, t, f>>
    /\ ParseFileKey(FileKeyBytes([inst |-> inst, name |-> s])) = <<inst, s>>
    /\ ParseConst(ConstKeyBytes) = <<"the row">> /\ ParseInst(Uint64Bytes(inst)) = <<inst>>
    /\ ParseMediaKey(KeyBytes(k)) = <<k>> /\ ParseText(TextBytes(s)) = <<s>>
    /\ ParseSource(TextBytes(s)) = IF s = <<>> THEN <<"corrupt">> ELSE <<s>>
    /\ LET r == [source |-> t, kind |-> k.kind, id |-> s]
       IN /\ ParseRootRef(RootRefBytes(r)) = <<t, k.kind, s>>
          /\ ParseItemRef(ItemRefBytes([root |-> r, item |-> t])) = <<t, k.kind, s, t>>

\* A cascade of a deleted instance, item or root reaches the rows under that
\* parent and no other's, whatever the other keys spell; and so do a list of
\* one root's items and a scan of one source's roots.  No key of a table
\* begins another.
ScansStayInside(k, o) ==
    /\ \A c \in Cascades :
          LET parent == TableKeys[c[1]]
          IN IsPrefix(BytesOf(parent, k), BytesOf(TableKeys[c[2]], o)) <=> BytesOf(parent, k) = BytesOf(parent, o)
    /\ IsPrefix(RootBytes(k.key), KeyBytes(o.key)) <=> RootBytes(k.key) = RootBytes(o.key)
    /\ IsPrefix(RootRefBytes(k.root), ItemRefBytes(o)) <=> k.root = o.root
    /\ IsPrefix(TextBytes(k.source), RootRefBytes(o.root)) <=> k.source = o.root.source
    /\ \A t \in DOMAIN TableKeys \ {"activation"} :
          ~IsStrictPrefix(BytesOf(TableKeys[t], k), BytesOf(TableKeys[t], o))

\* Owners and instants order as numbers do, those before zero first.
OrderKept(m, n) == m < n <=> Before(SignedBytes(m), SignedBytes(n))

\* A key's text reads back as the key, and no other spelling is a key's text.
TextsReadBack(k, t) ==
    /\ ParseKey(KeyText(k)) = k
    /\ ParseRootKey(RootText(k)) = [k EXCEPT !.season = 0, !.episode = 0]
    /\ \A key \in {ParseKey(t)} \ {NoKey} : KeyText(key) = t
    /\ \A root \in {ParseRootKey(t)} \ {NoKey} : RootText(root) = t
\* A write stores a row exactly when every enum in it, however deep, is in its
\* set and a done job has an end, and what it stores reads back as the row.
WritesReadBack(t, v) ==
    LET stored == AppendRow(t, v)
        T == RowTypes[t]
    IN IF (\A p \in DOMAIN v : Fits(T[p], v[p])) /\ ~Unended(t, v)
       THEN ~stored.refused /\ DecodeRow(t, stored.row) = RowRead(v)
       ELSE stored.refused

\* What decodes at all -- with a field missing, or a tag spelled as before --
\* is a row a write would store and that reads back as itself.
StoredAgain(t, read, stored) == ~stored.refused /\ DecodeRow(t, stored.row) = read
ReadBack(t, read) == read.refused \/ StoredAgain(t, read, AppendRow(t, read.row))
RowsReadBack(t, b) == ReadBack(t, DecodeRow(t, b))

\* The work index serves item work first and then the order of enqueueing; a
\* job's entries order by owner and then by end, two jobs share a key's entry
\* exactly when one owner named it twice, and a scan of an owner's entries
\* reaches no other owner's.
EntriesOrdered(w, x, j, k) ==
    /\ Before(WorkOrderEntry(w), WorkOrderEntry(x)) <=> (w.cause > x.cause \/ (w.cause = x.cause /\ w.seq < x.seq))
    /\ \A a \in OwnerEndedEntry(j), b \in OwnerEndedEntry(k) :
          /\ Before(a, b) <=> (j.owner < k.owner \/ (j.owner = k.owner /\ j.ended < k.ended))
          /\ IsPrefix(OwnerEntry(j), b) <=> j.owner = k.owner
    /\ KeyEntry(j) \cap KeyEntry(k) # {} <=> j.owner = k.owner /\ j.key \cap k.key # {}
    /\ UserEndedEntry(j) \subseteq EndedEntry(j)
=============================================================================
