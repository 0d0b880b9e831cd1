------------------------------ MODULE ReleaseFit ------------------------------
(***************************************************************************)
(* release and rank, and language's title refinements: what a release name *)
(* states, how two names compare, and what a track's title adds to a tag.  *)
(* A name is what the imported patterns report of it: the source labels in *)
(* order, the groups, the edition's words and the words services look for. *)
(***************************************************************************)
EXTENDS Integers, Sequences, FiniteSets, SequencesExt

CONSTANTS
    Services,     \* the streaming formats of one arr, in order
    Refinements,  \* refinement's table, in order
    Parses(_)     \* language.Parse of a composed tag: whether it reads one

Unstated == ""
LastOf(s) == IF s = <<>> THEN Unstated ELSE Last(s)

(***************************************************************************)
(* arrTables.source: raw HD, then the last label, a BluRay of a remux being *)
(* a Remux; then what only guesses.  guess is the first of animeBluray,     *)
(* animeWebDL and the joined resolutions that holds, other is source-other. *)
(***************************************************************************)

SourceOf(n) ==
    LET last == LastOf(n.sources)
    IN IF n.raw THEN "RawHD"
       ELSE IF n.remux /\ last \in {"BluRay", Unstated} THEN "Remux"
       ELSE IF last # Unstated THEN last
       ELSE IF n.guess # Unstated THEN n.guess ELSE n.other

Families == [
    Disc |-> {"BluRay", "Remux", "BDRip", "BRRip"}, Web |-> {"WebDL", "WebRip"},
    TV |-> {"HDTV", "SDTV", "PDTV", "DSR", "TVRip", "RawHD"}, DVD |-> {"DVDSource", "DVDR"},
    PreRelease |-> {"Cam", "Telesync", "Telecine", "Screener", "Regional", "Workprint"}]
FamilyOf(source) ==
    IF \E f \in DOMAIN Families : source \in Families[f]
    THEN CHOOSE f \in DOMAIN Families : source \in Families[f] ELSE Unstated

(***************************************************************************)
(* arrTables.group.  groupPort's tails: a text of name runes ("n", "m", "R" *)
(* for a resolution token), "E" a name rune no group may end with after a   *)
(* dash, and the other runes.  A match is [at, cut, end, next]: the dash,   *)
(* the ends of the first name and of the whole group, and where it stops.   *)
(***************************************************************************)

NameRunes == {"n", "m", "R", "E"}
Named(s, from, to) == from <= to /\ \A k \in from .. to : s[k] \in NameRunes
TokenAhead(s, e) == \E k \in e + 2 .. Len(s) : s[k] = "R"
NoGroupBehind(s, e) == e >= 1 /\ (s[e] = "R" \/ (s[e] = "E" /\ e > 1 /\ s[e - 1] = "-"))

\* groupPort.ends: 0 where the group may not end at e
EndsPart(s, e, part) ==
    IF \/ TokenAhead(s, e) \/ NoGroupBehind(s, e)
       \/ part > 0 /\ NoGroupBehind(s, e - part)
    THEN 0
    ELSE IF e = Len(s) \/ s[e + 1] \notin NameRunes \cup {"_"} THEN e
    ELSE IF s[e + 1] = "_" THEN e + 1 ELSE 0

\* Faulty Ends: a part is never looked behind.
EndsUnparted(s, cut, e) == EndsPart(s, e, 0)

Ends(s, cut, e) == EndsPart(s, e, e - cut)

\* groupPort.dashed: the longest name, with the longest second part and then
\* none, before a shorter name
NameEnds(s, at) == {c \in at + 1 .. Len(s) : Named(s, at + 1, c)}
GroupEnds(s, c) == {c} \cup (IF c < Len(s) /\ s[c + 1] = "-" THEN NameEnds(s, c + 1) ELSE {})
Tails(s, at) == {<<c, e>> \in NameEnds(s, at) \X (1 .. Len(s)) : e \in GroupEnds(s, c) /\ Ends(s, c, e) > 0}
Earlier(x, y) == x[1] > y[1] \/ (x[1] = y[1] /\ x[2] > y[2])
NoTail == [at |-> 0, from |-> 0, end |-> 0, next |-> 0]

Dashed(s, at) ==
    IF s[at] # "-" \/ Tails(s, at) = {} THEN NoTail
    ELSE LET t == CHOOSE x \in Tails(s, at) : \A y \in Tails(s, at) : x = y \/ Earlier(x, y)
         IN [at |-> at, from |-> at + 1, end |-> t[2], next |-> Ends(s, t[1], t[2])]

\* the bracketed group, only as the text's end
Bracketed(s, at) ==
    IF /\ at + 2 < Len(s) /\ s[at] \in {"-", "_", "."} /\ s[at + 1] = "[" /\ s[Len(s)] = "]"
       /\ Named(s, at + 2, Len(s) - 1)
    THEN [at |-> at, from |-> at + 2, end |-> Len(s) - 1, next |-> Len(s)] ELSE NoTail

Attempt(s, at) == IF Dashed(s, at) # NoTail THEN Dashed(s, at) ELSE Bracketed(s, at)

\* groupPort.find and findAll: each search starts where the last match ended
MatchesOf(attempts) ==
    LET starts == {at \in DOMAIN attempts : attempts[at] # NoTail}
        all[pos \in 1 .. Len(attempts) + 1] ==
            LET here == {at \in starts : at >= pos}
            IN IF here = {} THEN <<>>
               ELSE LET m == attempts[CHOOSE at \in here : \A o \in here : at <= o]
                    IN <<m>> \o all[m.next + 1]
    IN all[1]
GroupMatches(s) == MatchesOf([at \in 1 .. Len(s) |-> Attempt(s, at)])

\* group: an anime group, then the last of the exceptions in the arr's order,
\* then the tail's, unless it is a number or one of the invalid names
GroupOf(n, exactFirst) ==
    LET excepted == IF exactFirst THEN <<n.exact, n.exception>> ELSE <<n.exception, n.exact>>
        found == SelectSeq(excepted, LAMBDA e : e # <<>>)
    IN IF n.anime # Unstated THEN n.anime
       ELSE IF found # <<>> THEN Last(found[1])
       ELSE IF n.tail \in {"number", "invalid"} THEN Unstated ELSE n.tail

(***************************************************************************)
(* format.holds and arrTables.service: of each kind of condition one holds  *)
(* and none that is required fails; two labels are none.                    *)
(***************************************************************************)

Satisfied(sp, n, group, source) ==
    CASE sp.kind = "source" -> source \in sp.values
      [] sp.kind = "group" -> group # Unstated /\ group \in sp.values
      [] sp.kind = "title" -> n.words \cap sp.values # {}
Meets(sp, n, group, source) == Satisfied(sp, n, group, source) # sp.negate

FormatHolds(f, n, group, source) ==
    \A kind \in {sp.kind : sp \in f.specs} :
        /\ \E sp \in f.specs : sp.kind = kind /\ Meets(sp, n, group, source)
        /\ \A sp \in f.specs : sp.kind = kind /\ sp.required => Meets(sp, n, group, source)

ServiceOf(n, group, source) ==
    LET holding == SelectSeq(Services, LAMBDA f : FormatHolds(f, n, group, source))
        labels == {f.label : f \in ToSet(holding)}
    IN IF Cardinality(labels) = 1 THEN holding[1].label ELSE Unstated

(***************************************************************************)
(* cutOf: the edition's words, two of which a separator may split           *)
(***************************************************************************)

PrimaryCuts ==
    {"theatrical", "extended", "directors", "ultimate", "final", "assembly", "recut", "despecialized", "special",
     "fanedit"}
QualifierCuts == {"unrated", "uncut", "uncensored"}
Joined == {<<"director", "s">>, <<"fan", "edit">>}

CutOf(words) ==
    LET starts(i) == i < Len(words) /\ <<words[i], words[i + 1]>> \in Joined
        word(i) == CASE starts(i) -> IF words[i] = "fan" THEN "fanedit" ELSE "directors" [] OTHER -> words[i]
    IN {word(i) : i \in {i \in DOMAIN words : i = 1 \/ ~starts(i - 1)}} \cap (PrimaryCuts \cup QualifierCuts)

\* Parse; a name of an episode is a pack when it states a season alone
ReadAs(n, source, group) ==
    [source |-> source, group |-> group, service |-> ServiceOf(n, group, source), cut |-> CutOf(n.edition),
     pack |-> n.season /\ ~n.episode]
ParseName(n, exactFirst) == ReadAs(n, SourceOf(n), GroupOf(n, exactFirst))

(***************************************************************************)
(* rank.Compare and FitOf                                                  *)
(***************************************************************************)

SameIf(p) == IF p THEN "same" ELSE "differs"
TextFact(a, b) == IF Unstated \in {a, b} THEN "unknown" ELSE SameIf(a = b)
SourceFact(a, b) == IF a = "PreRelease" /\ b = "PreRelease" THEN "unknown" ELSE TextFact(a, b)

\* Faulty CutFact: any token both carry makes two cuts the same.
CutShared(a, b) == IF {} \in {a, b} THEN "unknown" ELSE SameIf(a \cap b # {})

CutFact(a, b) ==
    IF {} \in {a, b} THEN "unknown"
    ELSE LET pa == a \cap PrimaryCuts
             pb == b \cap PrimaryCuts
         IN IF pa # {} /\ pb # {} THEN SameIf(pa \cap pb # {})
            ELSE IF pa \cup pb # {} THEN "differs" ELSE SameIf(a \cap b # {})

\* RateFamilyOf, of thousandths of a frame a second
Rates == <<<<25000, "PAL">>, <<50000, "PAL">>>>
    \o [i \in 1 .. 8 |-> <<<<23976, 24000, 29970, 30000, 47950, 48000, 59940, 60000>>[i], "Film">>]
Within(fps, rate) == 10000 * (IF fps < rate THEN rate - fps ELSE fps - rate) <= 11 * rate
RateFamilyOf(fps) ==
    LET i == SelectInSeq(Rates, LAMBDA r : Within(fps, r[1])) IN IF i = 0 THEN Unstated ELSE Rates[i][2]

\* claimed: the provider matched by hash and confirmed the identity
Compare(video, videoRate, sub, subRate, claimed) ==
    LET vf == FamilyOf(video.source)
        sf == FamilyOf(sub.source)
        source == SourceFact(vf, sf)
        cut == CutFact(video.cut, sub.cut)
    IN [source |-> source, group |-> TextFact(video.group, sub.group),
        service |-> IF vf = "Web" /\ sf = "Web" THEN TextFact(video.service, sub.service) ELSE "unknown",
        cut |-> cut, rate |-> TextFact(videoRate, subRate), pre |-> (vf = "PreRelease") # (sf = "PreRelease"),
        hash |-> claimed /\ source # "differs" /\ cut # "differs"]

Conflict == 1
OtherFit == 2
SameSource == 3
SameRelease == 4
ExactFit == 5

FitOf(f) ==
    IF f.hash THEN ExactFit
    ELSE IF f.cut = "differs" \/ f.pre THEN Conflict
    ELSE IF f.group = "same" /\ "differs" \notin {f.source, f.service, f.rate} THEN SameRelease
    ELSE IF f.source = "same" /\ f.rate # "differs" THEN SameSource
    ELSE OtherFit

(***************************************************************************)
(* RefineFromTitle.  A title is a sequence of pieces: a token, "letters", or *)
(* " ", no letter.                                                          *)
(***************************************************************************)

IsScript(adds) == adds \in {"Hant", "Hans", "Latn", "Cyrl"}
States(t, adds) == IF IsScript(adds) THEN t.script # Unstated ELSE t.region # Unstated
HasToken(title, token, word) ==
    \E i \in DOMAIN title :
        /\ title[i] = token
        /\ word => /\ i = 1 \/ title[i - 1] = " "
                   /\ i = Len(title) \/ title[i + 1] = " "
Applies(r, t, title) == t.lang \in r.languages /\ ~States(t, r.adds) /\ HasToken(title, r.token, r.word)

\* the loop: what the tokens before have stated, or Conflicting
Conflicting == "two results"
Adds(t, title) ==
    FoldLeft(LAMBDA adds, r :
                 IF adds = Conflicting \/ ~Applies(r, t, title) \/ r.adds = adds THEN adds
                 ELSE IF adds = Unstated THEN r.adds ELSE Conflicting,
             Unstated, Refinements)

WithAdded(t, adds) == IF IsScript(adds) THEN [t EXCEPT !.script = adds] ELSE [t EXCEPT !.region = adds]
RefineFromTitle(t, title) ==
    LET adds == Adds(t, title)
    IN IF adds \in {Unstated, Conflicting} \/ ~Parses(WithAdded(t, adds)) THEN t ELSE WithAdded(t, adds)

(***************************************************************************)
(* Properties                                                              *)
(***************************************************************************)

\* A release fits itself at least as well as any other release does, so no
\* other subtitle is ever preferred to the one of the video's own release;
\* and the comparison is the same read from either side.
FitsItselfBest(a, b, ra, rb) ==
    /\ FitOf(Compare(a, ra, a, ra, FALSE)) >= FitOf(Compare(a, ra, b, rb, FALSE))
    /\ Compare(a, ra, b, rb, FALSE) = Compare(b, rb, a, ra, FALSE)

\* Two labelled cuts with different primary cuts conflict, whatever qualifiers
\* they share.
CutsConflict(a, b) ==
    a.cut # {} /\ b.cut # {} /\ a.cut \cap PrimaryCuts # b.cut \cap PrimaryCuts
        /\ a.cut \cap b.cut \cap PrimaryCuts = {}
        => FitOf(Compare(a, Unstated, b, Unstated, TRUE)) = Conflict

\* Agreeing on one more fact, or disagreeing on one fewer, never makes a fit
\* worse; and a hash is exact only of two names that do not contradict it.
Agreement == <<"differs", "unknown", "same">>
MoreAgreed(f) ==
    {[f EXCEPT ![x] = "unknown"] : x \in {x \in {"source", "group", "service", "cut", "rate"} : f[x] = "differs"}}
        \cup {[f EXCEPT ![x] = "same"] : x \in {x \in {"source", "group", "service", "cut", "rate"} : f[x] # "same"}}
        \cup {[f EXCEPT !.pre = FALSE]}
AgreementHelps(f) == \A g \in MoreAgreed(f) : FitOf(f) <= FitOf(g)

\* The group read is the name's last, no resolution follows it, and neither
\* it nor its first name ends as a codec or a language does.
GroupIsRead(s) ==
    LET all == GroupMatches(s)
    IN \A m \in {Last(all) : x \in DOMAIN all} :
          /\ \A k \in m.next + 1 .. Len(s) : Attempt(s, k) = NoTail
          /\ s[m.at + 1] # "[" =>
                /\ ~TokenAhead(s, m.end)
                /\ \A e \in m.from .. m.end : e = m.end \/ s[e + 1] = "-" => ~NoGroupBehind(s, e)

\* A rate is of one family, whichever of the table's rates it is near: the
\* order of the table decides nothing.
RatesApart(fps) == \A r \in ToSet(Rates) : Within(fps, r[1]) => r[2] = RateFamilyOf(fps)

\* A title refines a tag exactly when its tokens that apply name one result,
\* whatever their order; the language stays, and nothing stated is replaced.
RefinesOnce(t, title) ==
    LET named == {r.adds : r \in {r \in ToSet(Refinements) : Applies(r, t, title)}}
        got == RefineFromTitle(t, title)
    IN /\ got # t => Cardinality(named) = 1 /\ got \in {WithAdded(t, a) : a \in named}
       /\ Cardinality(named) = 1 /\ Parses(WithAdded(t, CHOOSE a \in named : TRUE)) => got # t
       /\ got.lang = t.lang
       /\ t.script # Unstated => got.script = t.script
       /\ t.region # Unstated => got.region = t.region
=============================================================================
