---------------------------- MODULE LanguagePolicy ----------------------------
(***************************************************************************)
(* The languages section: how it is read (policy_parse.go), the targets it *)
(* gives an item (policy.go), the class of an offered tag (grade.go), the  *)
(* tags a provider is asked for (query.go) and the language segment of a   *)
(* file name (filename.go).  Texts and tags are values, and langtag is     *)
(* what it answers of them: Reads, Spelling, Tier and the two covers.      *)
(***************************************************************************)
EXTENDS Integers, Sequences, FiniteSets, SequencesExt

CONSTANTS
    Text, Tag,
    NoTag, Unread,      \* Parse's answer to "", and its refusal
    Reads, Spelling,    \* Parse: text -> tag; String: tag -> text
    Lower,              \* asciiLower
    Meaning,            \* readExceptions: lowered text -> tag
    FileForm,           \* filenameChinese: tag -> text
    Chinese,            \* bare zh
    Tier,               \* langtag's Compare: <<target, have>> -> tier
    CoversScript, CoversRegion, \* the pairs <<target, have>> it covers
    OrdinalText,        \* the numbers a name may carry -> their digits
    HIWords, ForcedWords, \* what a segment may say of a flag
    DiskExts, WriterExts, \* extensions read beside a video, and written
    MaxListTargets, MaxRules, MaxDistinctTags

\* Parse inverts String, reads each region form as the tag it stands for, and
\* no region form is an exception.
ASSUME LanguageAssumption ==
    /\ Spelling \in [Tag -> Text]
    /\ \A t \in Tag : Reads[Spelling[t]] = t
    /\ \A t \in Tag \cap DOMAIN FileForm :
           Reads[FileForm[t]] = t /\ Lower[FileForm[t]] \notin DOMAIN Meaning
    /\ "sdh" \in HIWords /\ "forced" \in ForcedWords /\ WriterExts \subseteq DiskExts
    /\ IsInjective(OrdinalText) /\ Range(OrdinalText) \cap (HIWords \cup ForcedWords) = {}

(***************************************************************************)
(* File names                                                              *)
(***************************************************************************)

FilenameTag(t) == IF t \in DOMAIN FileForm THEN FileForm[t] ELSE Spelling[t]

ReadFilename(segment) ==
    IF Lower[segment] \in DOMAIN Meaning THEN Meaning[Lower[segment]] ELSE Reads[segment]

\* subtitlefile.  A name is its segments between dots, the extension last, and
\* a video's stem is such segments too: <stem>.<language>[.sdh][.forced][.<N>].<ext>
Unnamed == [named |-> FALSE]
NameOf(tag, flags, ordinal, ext) ==
    [named |-> TRUE, tag |-> tag, hi |-> flags.hi, forced |-> flags.forced, ordinal |-> ordinal, ext |-> ext]

Buildable(n) ==
    /\ n.tag # NoTag /\ ReadFilename(FilenameTag(n.tag)) = n.tag
    /\ n.ordinal \in {0} \cup DOMAIN OrdinalText
    /\ n.ext \in WriterExts
Build(stem, n) ==
    stem \o <<FilenameTag(n.tag)>> \o (IF n.hi THEN <<"sdh">> ELSE <<>>) \o (IF n.forced THEN <<"forced">> ELSE <<>>)
         \o (IF n.ordinal > 0 THEN <<OrdinalText[n.ordinal]>> ELSE <<>>) \o <<n.ext>>

\* Each flag at most once, in either order and any case
ReadFlags(segs) ==
    LET HI == {i \in 1 .. Len(segs) : Lower[segs[i]] \in HIWords}
        Forced == {i \in 1 .. Len(segs) : Lower[segs[i]] \in ForcedWords}
    IN [ok |-> HI \cup Forced = 1 .. Len(segs) /\ Cardinality(HI) <= 1 /\ Cardinality(Forced) <= 1,
        hi |-> HI # {}, forced |-> Forced # {}]

\* The ordinal a segment spells, 0 for none
OrdinalOf(seg) == IF seg \in Range(OrdinalText) THEN CHOOSE n \in DOMAIN OrdinalText : OrdinalText[n] = seg ELSE 0

ParseTail(segs, ext) ==
    LET tag == ReadFilename(segs[1])
        said == Tail(segs)
        ordinal == IF said = <<>> THEN 0 ELSE OrdinalOf(Last(said))
        flags == ReadFlags(IF ordinal = 0 THEN said ELSE Front(said))
    IN IF tag \in {NoTag, Unread} \/ ~flags.ok THEN Unnamed ELSE NameOf(tag, flags, ordinal, ext)

Parse(stem, name) ==
    LET ext == Lower[Last(name)]
        segs == SubSeq(name, Len(stem) + 1, Len(name) - 1)
    IN IF ~IsStrictPrefix(stem, name) \/ ext \notin DiskExts THEN Unnamed
       ELSE IF segs = <<>> THEN NameOf(NoTag, [hi |-> FALSE, forced |-> FALSE], 0, ext)
       ELSE ParseTail(segs, ext)

\* The longest stem of a folder's videos that the name continues owns it; a
\* stem of two videos owns nothing.
NoOwner == <<"no video">>
Owner(stems, name) ==
    LET fits == {i \in 1 .. Len(stems) : IsStrictPrefix(stems[i], name)}
        best == {i \in fits : \A j \in fits : Len(stems[j]) <= Len(stems[i])}
    IN IF Cardinality(best) = 1 THEN stems[CHOOSE i \in best : TRUE] ELSE NoOwner

\* AudioOK: a rule's spoken language in its one spelling.
AudioOK(text) == Reads[text] \in Tag /\ text = Spelling[Reads[text]]

\* Faulty TargetOK: a tag other tools write for another is a target.
TargetSpelled(text) == AudioOK(text) /\ Reads[text] # Chinese

\* targetTagProblem answers no problem.
TargetOK(text) ==
    /\ AudioOK(text) /\ Reads[text] # Chinese
    /\ Lower[text] \notin DOMAIN Meaning

(***************************************************************************)
(* ParsePolicy.  A section is [default, rules]; a rule [audio, targets]; a *)
(* list its rows, or Bad; a row [tag, variants], its variants as written.   *)
(***************************************************************************)

Bad == << [tag |-> "not a list", variants |-> <<>>] >>

\* A row without the key asks for full subtitles; a written list holds known
\* variants, each once, and at least one.
Standard == 1
Variant == 1 .. 3
Unstated == <<"unstated">>
VariantsOK(written) == written = Unstated \/ (written # <<>> /\ ToSet(written) \subseteq Variant /\ IsInjective(written))
Variants(written) == IF written = Unstated THEN <<Standard>> ELSE written
TargetOf(row) == [tag |-> Reads[row.tag], variants |-> Variants(row.variants)]

Walk0 == [distinct |-> {}, written |-> FALSE, errs |-> 0]
Fail(w) == [w EXCEPT !.errs = @ + 1]
FailIf(c, w) == IF c THEN Fail(w) ELSE w

\* Faulty ReadRow: only a row that enters the policy counts.
ReadRowEntered(st, row) ==
    LET good == VariantsOK(row.variants)
        w == FailIf(~good, st.w)
        tag == Reads[row.tag]
    IN IF ~TargetOK(row.tag) \/ tag \in st.listed THEN [st EXCEPT !.w = Fail(w)]
       ELSE [w |-> IF good THEN [w EXCEPT !.distinct = @ \cup {tag}] ELSE w,
             listed |-> st.listed \cup {tag},
             targets |-> IF good THEN Append(st.targets, TargetOf(row)) ELSE st.targets]

\* One row of targetList
ReadRow(st, row) ==
    LET good == VariantsOK(row.variants)
        w == FailIf(~good, st.w)
        tag == Reads[row.tag]
    IN IF ~TargetOK(row.tag) \/ tag \in st.listed THEN [st EXCEPT !.w = Fail(w)]
       ELSE [w |-> [w EXCEPT !.distinct = @ \cup {tag}],
             listed |-> st.listed \cup {tag},
             targets |-> IF good THEN Append(st.targets, TargetOf(row)) ELSE st.targets]

\* targetList: a list over its limit is refused and still read.
TargetList(w, list) ==
    IF list = Bad THEN [w |-> Fail(w), targets |-> <<>>]
    ELSE LET start == FailIf(Len(list) > MaxListTargets, [w EXCEPT !.written = @ \/ list # <<>>])
             end == FoldLeft(ReadRow, [w |-> start, listed |-> {}, targets |-> <<>>], list)
         IN [w |-> end.w, targets |-> end.targets]

\* One rule of rules: its targets are read whatever its audio.
ReadRule(st, rule) ==
    LET audio == Reads[rule.audio]
        ok == AudioOK(rule.audio) /\ audio \notin st.first
        read == TargetList(FailIf(~ok, st.w), rule.targets)
    IN [w |-> read.w,
        first |-> IF ok THEN st.first \cup {audio} ELSE st.first,
        rules |-> IF ok /\ read.w.errs = st.w.errs
                  THEN Append(st.rules, [audio |-> audio, targets |-> read.targets])
                  ELSE st.rules]

\* walkPolicy, and checkTargetCount last
WalkedRules(section, defaults) ==
    LET start == FailIf(Len(section.rules) > MaxRules, defaults.w)
        end == FoldLeft(ReadRule, [w |-> start, first |-> {}, rules |-> <<>>], section.rules)
    IN [w |-> end.w, defaults |-> defaults.targets, rules |-> end.rules]
Walked(section) == WalkedRules(section, TargetList(Walk0, section.default))

CountRefused(w) == ~w.written \/ Cardinality(w.distinct) > MaxDistinctTags

Passes(w) == w.errs = 0 /\ ~CountRefused(w)
Accepted(section) == Passes(Walked(section).w)

(***************************************************************************)
(* TargetsFor                                                              *)
(***************************************************************************)

OtherScript == 5   \* langtag's audio floor, TierOtherScript

Matches(p, spoken) ==
    {i \in 1 .. Len(p.rules) : Tier[<<p.rules[i].audio, spoken>>] <= OtherScript}

\* ruleFor: the closest, the first of a tie
RuleFor(p, spoken) ==
    CHOOSE i \in Matches(p, spoken) : \A j \in Matches(p, spoken) :
        LET a == Tier[<<p.rules[i].audio, spoken>>]
            b == Tier[<<p.rules[j].audio, spoken>>]
        IN a < b \/ (a = b /\ i <= j)

\* The first of the original language and the audio tracks a rule matches
TargetsFor(p, spokens) ==
    LET matched == SelectSeq(spokens, LAMBDA s : Matches(p, s) # {})
    IN IF matched = <<>> THEN p.defaults ELSE p.rules[RuleFor(p, matched[1])].targets

\* unionTargets: every target once, where it is first listed, with each
\* variant any of its listings asks for
Listed(p) == p.defaults \o FlattenSeq([i \in 1 .. Len(p.rules) |-> p.rules[i].targets])
Targets(p) ==
    LET all == Listed(p)
        first == SetToSortSeq({i \in 1 .. Len(all) : \A j \in 1 .. i - 1 : all[j].tag # all[i].tag}, LAMBDA i, j : i < j)
        Asked(tag) == UNION {ToSet(all[j].variants) : j \in {j \in 1 .. Len(all) : all[j].tag = tag}}
    IN [k \in 1 .. Len(first) |->
           [tag |-> all[first[k]].tag, variants |-> SetToSortSeq(Asked(all[first[k]].tag), LAMBDA v, u : v < u)]]

\* digestOf: the fields it hashes, each list after its length
DigestList(ts) ==
    <<Len(ts)>> \o FlattenSeq([i \in 1 .. Len(ts) |->
                                <<Spelling[ts[i].tag], Len(ts[i].variants)>> \o ts[i].variants])
Digest(p, closeVarieties) ==
    <<closeVarieties>> \o DigestList(p.defaults) \o <<Len(p.rules)>>
        \o FlattenSeq([i \in 1 .. Len(p.rules) |-> <<Spelling[p.rules[i].audio]>> \o DigestList(p.rules[i].targets)])

(***************************************************************************)
(* Grade and the queries                                                   *)
(***************************************************************************)

\* closenessOf puts OtherScript after Intelligible, tiers 5 and 4 here.
Unrelated == 6
Exact == 1
Substitute == 2
ManualOnly == 3
ClassUnrelated == 4

Closeness(target, have) ==
    IF NoTag \in {target, have} \/ Tier[<<target, have>>] > OtherScript
    THEN Unrelated ELSE Tier[<<target, have>>]

\* classOf
Class(target, have) ==
    LET c == Closeness(target, have)
    IN IF c = Unrelated THEN ClassUnrelated
       ELSE IF c = OtherScript \/ <<target, have>> \notin CoversScript THEN ManualOnly
       ELSE IF c <= 2 /\ <<target, have>> \in CoversRegion THEN Exact
       ELSE Substitute

Automatic(class, closeVarieties) == class = Exact \/ (class = Substitute /\ closeVarieties)

\* AutoQuery ranks an offered tag by the first target it may serve.
Serves(needing, have, cv) ==
    {i \in 1 .. Len(needing) : Automatic(Class(needing[i], have), cv)}

First(S) == CHOOSE i \in S : \A j \in S : i <= j

\* query: each offered tag once, by key, closeness, then as offered
AutoQuery(needing, offered, cv) ==
    LET hits == {i \in 1 .. Len(offered) :
                    /\ \A j \in 1 .. i - 1 : offered[j] # offered[i]
                    /\ Serves(needing, offered[i], cv) # {}}
        Key(i) == First(Serves(needing, offered[i], cv))
        Close(i) == Closeness(needing[Key(i)], offered[i])
        Nearer(i, j) == Close(i) < Close(j) \/ (Close(i) = Close(j) /\ i < j)
        Before(i, j) == Key(i) < Key(j) \/ (Key(i) = Key(j) /\ Nearer(i, j))
        order == SetToSortSeq(hits, Before)
    IN [k \in 1 .. Len(order) |-> offered[order[k]]]

(***************************************************************************)
(* Properties                                                              *)
(***************************************************************************)

\* The lists of a section that read, and the targets its rows name
Lists(section) ==
    {l \in {section.default} \cup {section.rules[i].targets : i \in 1 .. Len(section.rules)} : l # Bad}
Named(section) == {Reads[t] : t \in {u \in UNION {{l[i].tag : i \in 1 .. Len(l)} : l \in Lists(section)} : TargetOK(u)}}

\* The count of a section's languages is the count of those its rows name,
\* wherever its errors are: the verdict on it never depends on how far the
\* walk got.
CountsEveryRow(section) ==
    /\ Walked(section).w.distinct = Named(section)
    /\ Walked(section).w.written = (Lists(section) \ {<<>>} # {})

Serving(targets, t) == \E i \in 1 .. Len(targets) :
    targets[i].tag = t.tag /\ ToSet(t.variants) \subseteq ToSet(targets[i].variants)

\* Every target of an accepted section reads back from its own file name as
\* the language it is, whatever other tools write by that name; and an item
\* is asked for targets of the section only, all of them, with their variants,
\* among the targets Policy.Targets lists once each.
ReadsBack(p, named) ==
    /\ \A t \in p.w.distinct : ReadFilename(FilenameTag(t)) = t
    /\ \A spoken \in Tag : \A t \in ToSet(TargetsFor(p, <<spoken>>)) : t.tag \in named /\ Serving(Targets(p), t)
    /\ IsInjective([i \in 1 .. Len(Targets(p)) |-> Targets(p)[i].tag])
TargetsReadBack(section) == Accepted(section) => ReadsBack(Walked(section), Named(section))

\* Two accepted sections that name the same targets and rules in the same
\* order share a digest, and any difference moves it.
ToldApart(p, q, cv) ==
    /\ Digest(p, cv) = Digest(q, cv) <=> p.defaults = q.defaults /\ p.rules = q.rules
    /\ Digest(p, cv) # Digest(q, ~cv)
DigestTells(section, other) ==
    Accepted(section) /\ Accepted(other) => \A cv \in BOOLEAN : ToldApart(Walked(section), Walked(other), cv)

\* Parse reads back every name Build writes, and a name it reads says the same
\* written over.  A folder's file belongs to one video at most, and one written
\* for a video belongs to it unless another's stem goes on as the file's does.
NamesReadBack(stems, name) ==
    /\ \A i \in 1 .. Len(stems) :
          LET n == Parse(stems[i], name)
          IN n.named /\ Buildable(n) =>
                /\ Parse(stems[i], Build(stems[i], n)) = n
                /\ Owner(stems, Build(stems[i], n)) = stems[i]
                      \/ \E j \in 1 .. Len(stems) \ {i} :
                            IsPrefix(stems[i], stems[j]) /\ IsStrictPrefix(stems[j], Build(stems[i], n))
    /\ Owner(stems, name) = Owner(Reverse(stems), name)
    /\ Owner(stems, name) = NoOwner \/ \A i \in 1 .. Len(stems) :
          IsStrictPrefix(stems[i], name) => IsPrefix(stems[i], Owner(stems, name))

\* A provider is asked automatically for each tag once and for none that a
\* person must pick, whichever targets need it; closest target first.
AsksOnce(needing, offered, cv) ==
    LET asked == AutoQuery(needing, offered, cv)
    IN /\ IsInjective(asked)
       /\ ToSet(asked) = {h \in ToSet(offered) : \E t \in ToSet(needing) :
                             Automatic(Class(t, h), cv)}
=============================================================================
