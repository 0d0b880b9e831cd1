---------------------------- MODULE Lookarounds ----------------------------
(***************************************************************************)
(* Patterns with lookarounds on an engine that has none                    *)
(* (internal/search/release: pcre_compile.go, pcre.go).  A pattern is      *)
(* parsed into a tree; each top-level branch is matched without its        *)
(* assertions, an empty marker group in the place of each; an assertion is *)
(* then checked at its marker and, when a quantified run stands before it, *)
(* at the shorter ends of that run.                                        *)
(*                                                                         *)
(* A pattern is a sequence of tokens: literals, "." and classes, the       *)
(* anchors, the openings of groups and assertions, ")", "|" and the        *)
(* quantifiers.  The subject is a sequence of bytes: "a", "b", "-" and     *)
(* "nl" are letters of one byte, "e1" and "e2" together are the letter "e" *)
(* and apart are letters no literal names (a slice may part them).         *)
(* Patterns are matched without regard to case, so the flag group "(?i:"   *)
(* is like "(?:" and the flag "(?i)" matches anywhere.                     *)
(***************************************************************************)
EXTENDS Integers, Sequences, SequencesExt, FiniteSets, FiniteSetsExt, TLC

CONSTANT UTFMax         \* the most bytes of a letter (utf8.UTFMax)

StartAnchors == {"^", "\\A"}
EndAnchors == {"$", "\\z"}
Anchors == StartAnchors \cup EndAnchors \cup {"\\b", "\\B", "(?i)"}
Assertions == {"(?=", "(?!", "(?<=", "(?<!"}
CaptureOpenings == {"(", "(?<n>", "(?P<n>"}
GroupOpenings == CaptureOpenings \cup {"(?:", "(?i:"}
RejectedGroups == {"(?>", "(?(", "(?#", "(?P=", "(?'", "(?<>"}      \* "(?<>": a name that is empty
Openings == Assertions \cup GroupOpenings \cup RejectedGroups
Backreferences == {"\\1", "\\k", "\\g"}
AnyLetter == {".", "dotall"}          \* "dotall": "." where it takes a newline, too
Classes == [c \in {"[ab]", "\\w"} |-> {"a", "b"}] @@ [c \in {"[^a]"} |-> {"b", "-", "nl", "e", "e1", "e2"}]
Many == 100             \* a quantifier's bound when it has none: longer than any subject
Once == [min |-> 1, max |-> 1, lazy |-> FALSE]
Between(m, n) == [min |-> m, max |-> n, lazy |-> FALSE]
Quantifiers == ("?" :> Between(0, 1)) @@ ("*" :> Between(0, Many)) @@ ("+" :> Between(1, Many))
               @@ ("{2}" :> Between(2, 2)) @@ ("{1,2}" :> Between(1, 2))

Node(k, t, i) == [k |-> k, text |-> t[i], from |-> i, to |-> i, quant |-> Once, src |-> 0, body |-> <<>>]
IsZeroWidth(n) == n.k \in {"anchor", "assert"}
Positive(a) == a.text \in {"(?=", "(?<="}
Ahead(a) == a.text \in {"(?=", "(?!"}
Capturing(n) == n.k = "group" /\ n.text \in CaptureOpenings

-----------------------------------------------------------------------------
(* Parse: tokens t from pos on, n capturing groups so far. *)

RECURSIVE ParseAlt(_, _, _, _), ParseMore(_, _, _), ParseSeq(_, _, _, _, _), ParseElement(_, _, _, _), Extend(_, _, _, _)

Rejected == [ok |-> FALSE]
Parsed(pos, n, out) == [ok |-> TRUE, pos |-> pos, n |-> n, out |-> out]

ParseAlt(t, pos, n, depth) == ParseMore(t, ParseSeq(t, pos, n, depth, <<>>), depth)

ParseMore(t, first, depth) ==
    LET more == first.pos <= Len(t) /\ t[first.pos] = "|"
        rest == ParseAlt(t, first.pos + 1, first.n, depth)
    IN IF ~first.ok THEN Rejected
       ELSE IF ~more THEN [first EXCEPT !.out = <<@>>]
       ELSE IF ~rest.ok THEN Rejected ELSE [rest EXCEPT !.out = <<first.out>> \o @]

\* A quantifier after an element: "?" after it makes it lazy; possessive
\* quantifiers and quantified assertions are refused.
AttachQuantifier(t, e) ==
    IF ~e.ok THEN Rejected
    ELSE IF e.pos > Len(t) \/ t[e.pos] \notin DOMAIN Quantifiers THEN [e EXCEPT !.out.to = e.pos - 1]
    ELSE LET suffix == IF e.pos < Len(t) THEN t[e.pos + 1] ELSE ""
             next == IF suffix = "?" THEN e.pos + 2 ELSE e.pos + 1
         IN IF suffix = "+" \/ e.out.k = "assert" THEN Rejected
            ELSE [e EXCEPT !.pos = next, !.out.to = next - 1,
                           !.out.quant = [Quantifiers[t[e.pos]] EXCEPT !.lazy = suffix = "?"]]

ParseSeq(t, pos, n, depth, sq) ==
    IF pos > Len(t) \/ (t[pos] = "|") \/ (t[pos] = ")" /\ depth > 0) THEN Parsed(pos, n, sq)
    ELSE IF t[pos] = ")" THEN Rejected
    ELSE Extend(t, AttachQuantifier(t, ParseElement(t, pos, n, depth)), depth, sq)

Extend(t, q, depth, sq) == IF ~q.ok THEN Rejected ELSE ParseSeq(t, q.pos, q.n, depth, Append(sq, q.out))

\* Where the parenthesis open at pos closes, or 0.
Depth(t, pos, j) == Cardinality({k \in pos .. j : t[k] \in Openings}) - Cardinality({k \in pos .. j : t[k] = ")"})
CloseOf(t, pos) == LET ends == {j \in pos .. Len(t) : Depth(t, pos, j) = 0} IN IF ends = {} THEN 0 ELSE Min(ends)

NestedLookaround(t, from, to) == \E j \in from .. to : t[j] \in Assertions

\* The assertion's own pattern compiles alone; its groups are not counted here.
ParseLookaround(t, pos, n) ==
    LET end == CloseOf(t, pos)
        inner == ParseAlt(SubSeq(t, 1, end - 1), pos + 1, 0, 0)
    IN IF end = 0 \/ NestedLookaround(t, pos + 1, end - 1) THEN Rejected
       ELSE IF ~inner.ok THEN Rejected
       ELSE Parsed(end + 1, n, [Node("assert", t, pos) EXCEPT !.body = inner.out])

\* A capturing group takes the next number, named or not.
ParseGroup(t, pos, n, depth) ==
    LET index == IF t[pos] \in CaptureOpenings THEN n + 1 ELSE n
        body == ParseAlt(t, pos + 1, index, depth + 1)
    IN IF ~body.ok THEN Rejected
       ELSE IF body.pos > Len(t) THEN Rejected
       ELSE Parsed(body.pos + 1, body.n, [Node("group", t, pos) EXCEPT !.body = body.out, !.src = index])

\* A quantifier with nothing before it is refused (by the engine).
ParseElement(t, pos, n, depth) ==
    CASE t[pos] \in Assertions -> ParseLookaround(t, pos, n)
      [] t[pos] \in GroupOpenings -> ParseGroup(t, pos, n, depth)
      [] t[pos] \in RejectedGroups \cup Backreferences \cup DOMAIN Quantifiers -> Rejected
      [] t[pos] \in Anchors -> Parsed(pos + 1, n, Node("anchor", t, pos))
      [] OTHER -> Parsed(pos + 1, n, Node("atom", t, pos))

-----------------------------------------------------------------------------
(* Analyze. *)

RECURSIVE MinWidth(_), MaxWidth(_), HasAssert(_), TrailingChain(_), BadNest(_), AssertsOf(_), CapturesIn(_),
          TextAnchor(_), EdgeAsked(_), Flattened(_), Peeled(_)

Nodes(n) == UNION {{n.body[i][j] : j \in DOMAIN n.body[i]} : i \in DOMAIN n.body}

\* The widths of a node's branches, of those of the nodes in them
AltWidth(n, wide) == {FoldLeft(LAMBDA w, m : w + wide[m], 0, n.body[i]) : i \in DOMAIN n.body}

\* A literal's bytes; a class counts one, whatever letter it takes.
Bytes(text) == IF text = "e" THEN 2 ELSE 1

MinWidth(n) ==
    IF IsZeroWidth(n) THEN 0
    ELSE n.quant.min * IF n.k = "atom" THEN Bytes(n.text) ELSE Min(AltWidth(n, [m \in Nodes(n) |-> MinWidth(m)]))

\* Branches of one letter each are a class to the engine's own parser.
Letters(n) == Len(n.body) > 1 /\ \A i \in DOMAIN n.body : Len(n.body[i]) = 1 /\ n.body[i][1].k = "atom" /\ n.body[i][1].quant = Once

\* Many or more: no bound.  A letter that is not a literal counts the widest.
MaxWidth(n) ==
    IF IsZeroWidth(n) THEN 0
    ELSE n.quant.max * IF n.k = "atom" THEN IF n.text \in AnyLetter \cup DOMAIN Classes THEN UTFMax ELSE Bytes(n.text)
                       ELSE IF Letters(n) THEN UTFMax
                       ELSE Max(AltWidth(n, [m \in Nodes(n) |-> MaxWidth(m)]))

HasAssert(n) == n.k = "assert" \/ \E m \in Nodes(n) : HasAssert(m)

\* An assertion in a quantified group is refused: its marker would say only
\* where the last round was.
BadNest(n) == n.k = "group" /\ ((n.quant # Once /\ HasAssert(n)) \/ \E m \in Nodes(n) : BadNest(m))

\* The quantified elements a sequence ends in, or those of the group it ends
\* in when that is unquantified and has one branch; path is the groups passed.
NoChain == [chain |-> <<>>, path |-> <<>>]
TrailingChain(sq) ==
    LET solid == SelectSeq(sq, LAMBDA n : ~IsZeroWidth(n))
        fixed == Max({0} \cup {i \in DOMAIN solid : solid[i].quant = Once})
        last == solid[fixed]
        within == IF last.k = "group" /\ Len(last.body) = 1 THEN TrailingChain(last.body[1]) ELSE NoChain
    IN IF fixed < Len(solid) THEN [NoChain EXCEPT !.chain = SubSeq(solid, fixed + 1, Len(solid))]
       ELSE IF fixed = 0 \/ within = NoChain THEN NoChain
       ELSE [within EXCEPT !.path = <<last>> \o @]

\* Every assertion of a sequence with what stands before and after it there.
AssertsOf(sq) ==
    FlattenSeq([i \in DOMAIN sq |->
        IF sq[i].k = "assert"
        THEN <<[node |-> sq[i], before |-> SubSeq(sq, 1, i - 1), after |-> SubSeq(sq, i + 1, Len(sq))]>>
        ELSE FlattenSeq([j \in DOMAIN sq[i].body |-> AssertsOf(sq[i].body[j])])])

CapturesIn(sq) ==
    FlattenSeq([i \in DOMAIN sq |->
        (IF Capturing(sq[i]) THEN <<sq[i]>> ELSE <<>>)
        \o FlattenSeq([j \in DOMAIN sq[i].body |-> CapturesIn(sq[i].body[j])])])

\* Source numbers count the groups inside assertions too: a group moves up by
\* those of the assertions before it, which themselves take part in no match.
CountCapturesIn(t, from, to) == Cardinality({k \in from .. to : t[k] \in CaptureOpenings})
ShiftEarlier(t, asserts, g) == 0                \* a faulty form: every such group numbered last
ShiftOf(t, asserts, g) ==
    FoldLeft(LAMBDA n, a : n + IF a.from < g.from THEN CountCapturesIn(t, a.from, CloseOf(t, a.from)) ELSE 0, 0, asserts)

\* A sequence with the groups that only bracket its beginning opened, as the
\* engine's parser does, ...
Flattened(sq) ==
    LET n == sq[1]
    IN IF sq = <<>> THEN sq
       ELSE IF n.text = "(?i)" THEN Flattened(Tail(sq))
       ELSE IF /\ n.k = "group" /\ ~Capturing(n)
               /\ n.quant = Once /\ Len(n.body) = 1 /\ n.body[1] # <<>> THEN Flattened(n.body[1] \o Tail(sq))
       ELSE sq

\* ... and what is in the capturing groups around the whole of one: nothing
\* when that has branches.
Peeled(alts) ==
    LET sq == Flattened(alts[1])
    IN IF Len(alts) # 1 THEN <<>>
       ELSE IF Len(sq) = 1 /\ Capturing(sq[1]) /\ sq[1].quant = Once THEN Peeled(sq[1].body)
       ELSE sq

UnboundedDotPrefix(alts) ==
    LET sq == Peeled(alts)
        first == Peeled(<<<<sq[1]>>>>)
    IN /\ sq # <<>> /\ Len(first) = 1
       /\ first[1].text = "." /\ first[1].quant.max = Many

-----------------------------------------------------------------------------
(* The engine: matches in the order a backtracking engine finds them, which  *)
(* is the order of RE2's leftmost-first rule.  caps holds the span of each   *)
(* group by where it opens, of each quantified run by the negative, and an   *)
(* assertion's marker.  Check says whether assertions are checked in place   *)
(* (a backtracking engine) or only marked (the core).                        *)

\* The letter at an offset and its bytes.
LetterAt(s, i) == IF s[i + 1] = "e1" /\ i + 2 <= Len(s) /\ s[i + 2] = "e2" THEN "e" ELSE s[i + 1]
Width(s, i) == IF i < Len(s) THEN Bytes(LetterAt(s, i)) ELSE 1

\* The offsets a scan from pos stops at: those that part no letter.
Stops(s, pos) == {i \in pos .. Len(s) : i = pos \/ ~(i < Len(s) /\ s[i] = "e1" /\ s[i + 1] = "e2")}

Word(c) == c \in {"a", "b"}
Boundary(s, i) == (i > 0 /\ Word(s[i])) # (i < Len(s) /\ Word(s[i + 1]))
AnchorHolds(a, s, i) ==
    CASE a \in StartAnchors -> i = 0
      [] a \in EndAnchors -> i = Len(s)
      [] a = "\\b" -> Boundary(s, i)
      [] a = "\\B" -> ~Boundary(s, i)
      [] OTHER -> TRUE

AtomMatches(a, c) ==
    CASE a = "dotall" -> TRUE
      [] a = "." -> c # "nl"
      [] a \in DOMAIN Classes -> c \in Classes[a]
      [] OTHER -> a = c

Set(caps, key, from, to) == [k \in DOMAIN caps \cup {key} |-> IF k = key THEN <<from, to>> ELSE caps[k]]
Captured(ms, key, from) == [m \in DOMAIN ms |-> [ms[m] EXCEPT !.caps = Set(@, key, from, ms[m].at)]]

RECURSIVE MatchAlt(_, _, _, _, _), MatchSeq(_, _, _, _, _), MatchOne(_, _, _, _, _), MatchTimes(_, _, _, _, _, _),
          AfterEach(_, _, _, _), RoundsAfter(_, _, _, _, _, _)

MatchAlt(alts, s, i, caps, check) ==
    IF alts = <<>> THEN <<>> ELSE MatchSeq(alts[1], s, i, caps, check) \o MatchAlt(Tail(alts), s, i, caps, check)

\* What a backtracking engine checks at i, in the whole subject.
InPlace(a, s, i) ==
    Positive(a) = IF Ahead(a) THEN MatchAlt(a.body, s, i, <<>>, FALSE) # <<>>
                  ELSE \E j \in Stops(s, 0) : j <= i /\ \E m \in ToSet(MatchAlt(a.body, s, j, <<>>, FALSE)) : m.at = i

MatchOne(n, s, i, caps, check) ==
    CASE n.k = "atom" ->
            IF i < Len(s) /\ AtomMatches(n.text, LetterAt(s, i)) THEN <<[at |-> i + Width(s, i), caps |-> caps]>> ELSE <<>>
      [] n.k = "anchor" -> IF AnchorHolds(n.text, s, i) THEN <<[at |-> i, caps |-> caps]>> ELSE <<>>
      [] n.k = "assert" ->
            IF check /\ ~InPlace(n, s, i) THEN <<>> ELSE <<[at |-> i, caps |-> Set(caps, n.from, i, i)]>>
      [] OTHER -> Captured(MatchAlt(n.body, s, i, caps, check), n.from, i)

\* done rounds so far; a round past the least that takes nothing is the last.
MatchTimes(n, s, i, caps, check, done) ==
    LET more == IF done = n.quant.max THEN <<>> ELSE RoundsAfter(MatchOne(n, s, i, caps, check), n, s, i, check, done)
        stop == IF done >= n.quant.min THEN <<[at |-> i, caps |-> caps]>> ELSE <<>>
    IN IF n.quant.lazy THEN stop \o more ELSE more \o stop

RoundsAfter(rounds, n, s, i, check, done) ==
    IF rounds = <<>> THEN <<>>
    ELSE LET r == rounds[1]
         IN (IF r.at > i THEN MatchTimes(n, s, r.at, r.caps, check, done + 1)
             ELSE IF done < n.quant.min THEN <<r>> ELSE <<>>)
            \o RoundsAfter(Tail(rounds), n, s, i, check, done)

MatchSeq(sq, s, i, caps, check) ==
    LET n == sq[1]
    IN IF sq = <<>> THEN <<[at |-> i, caps |-> caps]>>
       ELSE IF n.quant = Once THEN AfterEach(MatchOne(n, s, i, caps, check), Tail(sq), s, check)
       ELSE AfterEach(Captured(MatchTimes(n, s, i, caps, check, 0), -n.from, i), Tail(sq), s, check)

AfterEach(heads, sq, s, check) ==
    IF heads = <<>> THEN <<>>
    ELSE MatchSeq(sq, s, heads[1].at, heads[1].caps, check) \o AfterEach(Tail(heads), sq, s, check)

RECURSIVE FindAll(_, _, _, _, _), FromFirst(_, _, _, _, _, _, _)

\* The matches from pos on that do not overlap; an empty one at the end of
\* the match before it is not one.
FindAll(alts, s, pos, prev, check) ==
    LET starts == {i \in Stops(s, pos) : MatchAlt(alts, s, i, <<>>, check) # <<>>}
        first == Min(starts)
    IN IF starts = {} THEN <<>>
       ELSE FromFirst(alts, s, pos, prev, check, first, MatchAlt(alts, s, first, <<>>, check)[1])

FromFirst(alts, s, pos, prev, check, start, m) ==
    (IF m.at = pos /\ start = prev THEN <<>> ELSE <<[from |-> start, to |-> m.at, caps |-> m.caps]>>)
    \o FindAll(alts, s, IF m.at > pos THEN m.at ELSE pos + Width(s, pos), m.at, check)

-----------------------------------------------------------------------------
(* Assertions checked after the core has matched (pcre.go).  The engine      *)
(* sees only the slice it is given: what is before it, or after, is not      *)
(* there.  quick says whether the shortcuts are taken.                       *)

Prefix(alts, s) == MatchAlt(alts, s, 0, <<>>, FALSE) # <<>>
EndsAt(alts, s, i) == \E m \in ToSet(MatchAlt(alts, s, i, <<>>, FALSE)) : m.at = Len(s)
Slice(s, from, to) == SubSeq(s, from + 1, to)

TextAnchor(n) == n.text \in StartAnchors \cup EndAnchors \/ \E m \in Nodes(n) : TextAnchor(m)

\* How far back a lookbehind looks, when its widest match is bounded; the
\* slack shows a "\b" at its edge the letter before.
Window(a) ==
    LET widest == IF Letters(a) THEN UTFMax ELSE Max(AltWidth(a, [m \in Nodes(a) |-> MaxWidth(m)]))
    IN IF Ahead(a) \/ widest >= Many \/ TextAnchor(a) THEN -1 ELSE widest + UTFMax + 1

MonotoneDot(a) == Ahead(a) /\ UnboundedDotPrefix(a.body)

\* An assertion as compiled: its shortcuts, and the plan of its retry -- the
\* chain of quantified elements before it, that chain and the rest of its level
\* compiled alone.  A source that holds another assertion does not compile.
\* What follows the assertion compiles twice: "." takes a newline in the form
\* that is matched after one letter of what is before ("(?i)(?s)^.(?:").
Reparse(t, from, to) == ParseAlt(SubSeq(t, 1, to), from, 0, 0).out
DotAll(t) == [i \in DOMAIN t |-> IF t[i] = "." THEN "dotall" ELSE t[i]]
NoSource == [ok |-> FALSE]
SourceOf(t, sq) ==
    IF sq = <<>> THEN NoSource
    ELSE LET from == sq[1].from
             to == sq[Len(sq)].to
         IN IF NestedLookaround(t, from, to) THEN NoSource
            ELSE [ok |-> TRUE, alts |-> Reparse(t, from, to), mid |-> Reparse(DotAll(t), from, to),
                  anchored |-> \E j \in from .. to : t[j] \in StartAnchors]

Planned(t, e, run) ==
    [node |-> e.node, window |-> Window(e.node), dot |-> MonotoneDot(e.node), chain |-> run.chain, path |-> run.path,
     keep |-> [k \in DOMAIN run.chain |-> FoldLeft(LAMBDA w, n : w + MinWidth(n), 0, SubSeq(run.chain, k, Len(run.chain)))],
     legal |-> SourceOf(t, run.chain), rest |-> SourceOf(t, e.after),
     inChain |-> {n.from : n \in ToSet(CapturesIn(run.chain))},
     onPath |-> {n.from : n \in {n \in ToSet(run.path) : Capturing(n)}}]
Assertion(t, e) == Planned(t, e, TrailingChain(e.before))

CompileParsed(t, p) ==
    LET Branch(sq, es) == [sq |-> sq, asserts |-> [k \in DOMAIN es |-> Assertion(t, es[k])]]
    IN IF ~p.ok THEN Rejected
       ELSE IF \E i \in DOMAIN p.out : \E j \in DOMAIN p.out[i] : BadNest(p.out[i][j]) THEN Rejected
       ELSE [ok |-> TRUE, t |-> t, branches |-> [i \in DOMAIN p.out |-> Branch(p.out[i], AssertsOf(p.out[i]))]]
Compile(t) == CompileParsed(t, ParseAlt(t, 1, 0, 0))

-----------------------------------------------------------------------------
HoldsAt(e, s, pos, quick) ==
    LET from == IF quick /\ e.window >= 0 /\ pos > e.window THEN pos - e.window ELSE 0
        behind == Slice(s, from, pos)
    IN Positive(e.node) = IF Ahead(e.node) THEN Prefix(e.node.body, Slice(s, pos, Len(s)))
                          ELSE \E j \in Stops(behind, 0) : EndsAt(e.node.body, behind, j)

\* The last position a dot-prefixed lookahead matches at, by bisection: on a
\* line of its own it matches at every position before one it matches at.
RECURSIVE Bisect(_, _, _, _, _)
Bisect(e, s, lo, hi, found) ==
    LET mid == (lo + hi) \div 2
    IN IF lo > hi THEN found
       ELSE IF Prefix(e.node.body, Slice(s, mid, Len(s))) THEN Bisect(e, s, mid + 1, hi, mid)
       ELSE Bisect(e, s, lo, mid - 1, found)
Threshold(e, s) == Bisect(e, s, 0, Len(s), -1)

Bisected(e, s, quick) == quick /\ e.dot /\ \A i \in DOMAIN s : s[i] # "nl"

EvalAt(e, s, pos, quick) ==
    IF Bisected(e, s, quick) THEN Positive(e.node) = (pos <= Threshold(e, s)) ELSE HoldsAt(e, s, pos, quick)

-----------------------------------------------------------------------------
(* The retry at shorter ends. *)

\* The chain could have taken s[from .. off).
AnyWidth(e, s, from, off) == TRUE          \* a faulty form, that tries every end
LegalWidth(e, s, from, off) == e.legal.ok => EndsAt(e.legal.alts, Slice(s, from, off), 0)

\* The rest of the pattern at the assertion's level still matches from off,
\* with one letter of what is before it in view.
ContinuationHolds(rest, s, off) ==
    IF ~rest.ok THEN TRUE
    ELSE IF off > 0 /\ s[off] \notin {"e1", "e2"} THEN MatchAlt(rest.mid, Slice(s, off - 1, Len(s)), 1, <<>>, FALSE) # <<>>
    ELSE IF off > 0 /\ rest.anchored THEN FALSE
    ELSE Prefix(rest.alts, Slice(s, off, Len(s)))

\* Where the chain begins in a candidate, and the least it keeps.
ShrinkBounds(e, caps) ==
    LET there == {k \in DOMAIN e.chain : -e.chain[k].from \in DOMAIN caps}
        start == caps[-e.chain[Min(there)].from][1]
    IN IF there = {} THEN [start |-> -1, floor |-> -1] ELSE [start |-> start, floor |-> start + e.keep[Min(there)]]

\* A capture that ends past the accepted end is cut to it.
ClampCaptures(e, caps, pos, off) ==
    LET gone == {k \in e.inChain \cap DOMAIN caps : caps[k][1] >= off}
        cut(k) == \/ k \in e.onPath /\ caps[k][2] = pos
                  \/ k \in e.inChain /\ caps[k][2] > off
    IN [k \in DOMAIN caps \ gone |-> IF cut(k) THEN <<caps[k][1], off>> ELSE caps[k]]

\* The shorter ends the assertion, the chain and the rest all accept; the
\* longest is taken.
ShorterEnds(e, s, bounds, pos, quick) ==
    LET bisected == Bisected(e, s, quick)
        from == IF bisected THEN Min({pos - 1, Threshold(e, s)}) ELSE pos - 1
    IN IF e.chain = <<>> \/ bounds.floor < 0 \/ (bisected /\ ~Positive(e.node)) THEN {}
       ELSE {off \in bounds.floor .. from :
                /\ bisected \/ EvalAt(e, s, off, quick)
                /\ LegalWidth(e, s, bounds.start, off)
                /\ ContinuationHolds(e.rest, s, off)}

Shrunk(e, caps, pos, offs) ==
    IF offs = {} THEN [ok |-> FALSE, caps |-> caps]
    ELSE [ok |-> TRUE, caps |-> ClampCaptures(e, caps, pos, Max(offs))]

RetryShrink(e, s, caps, pos, quick) ==
    Shrunk(e, caps, pos, ShorterEnds(e, s, ShrinkBounds(e, caps), pos, quick))

\* A candidate's assertions, in order; one in a branch that took no part is skipped.
CheckAssertions(b, s, cand, quick) ==
    LET one(v, e) ==
            LET pos == v.caps[e.node.from][1]
            IN IF ~v.ok \/ e.node.from \notin DOMAIN v.caps THEN v
               ELSE IF EvalAt(e, s, pos, quick) THEN v
               ELSE RetryShrink(e, s, v.caps, pos, quick)
    IN FoldLeft(one, [ok |-> TRUE, caps |-> cand.caps], b.asserts)

-----------------------------------------------------------------------------
(* A compiled pattern's two questions. *)

Checked(b, s, cand, quick) ==
    LET Kept(v) == IF v.ok THEN <<[cand EXCEPT !.caps = v.caps]>> ELSE <<>>
    IN Kept(CheckAssertions(b, s, cand, quick))

Survivors(b, s, quick) ==
    LET Left(all) == FlattenSeq([c \in DOMAIN all |-> Checked(b, s, all[c], quick)])
    IN Left(FindAll(<<b.sq>>, s, 0, -1, FALSE))

MatchString(p, s) == \E b \in DOMAIN p.branches : Survivors(p.branches[b], s, TRUE) # <<>>

\* The branches' candidates merged in one scan from the left: the earliest
\* start at or past the cursor, the first branch of a tie; the last one wins.
RECURSIVE MergeScan(_, _, _)
MergeScan(all, cursor, last) ==
    LET next == [b \in DOMAIN all |-> SelectSeq(all[b], LAMBDA c : c.from >= cursor)]
        open == {b \in DOMAIN all : next[b] # <<>>}
        start == Min({next[b][1].from : b \in open})
        sel == Min({b \in open : next[b][1].from = start})
        cand == next[sel][1]
    IN IF open = {} THEN last
       ELSE MergeScan([next EXCEPT ![sel] = Tail(@)], IF cand.to > cursor THEN cand.to ELSE cursor + 1,
                      [branch |-> sel, cand |-> cand])

NoMatch == [branch |-> 0]
Found(p, s) == MergeScan([b \in DOMAIN p.branches |-> Survivors(p.branches[b], s, TRUE)], 0, NoMatch)

\* Source number -> where the group opens; no group of an assertion has one.
Whole(p) == [b \in DOMAIN p.branches |-> p.branches[b].sq]
Remap(p) ==
    LET all == FlattenSeq(Whole(p))
        asserts == [k \in DOMAIN AssertsOf(all) |-> AssertsOf(all)[k].node]
        groups == {CapturesIn(all)[k] : k \in DOMAIN CapturesIn(all)}
        outside == {g \in groups : \A k \in DOMAIN asserts : g.from \notin asserts[k].from .. CloseOf(p.t, asserts[k].from)}
    IN [n \in {g.src + ShiftOf(p.t, asserts, g) : g \in outside} |->
          (CHOOSE g \in outside : g.src + ShiftOf(p.t, asserts, g) = n).from]

\* The match and each group's text by its source number: nothing for a group
\* of another branch, of an assertion, or that took no part.
SourceGroups(p) == CountCapturesIn(p.t, 1, Len(p.t))
SourceSubmatch(p, s, cand) ==
    LET CapturedText(n) == IF n \in DOMAIN Remap(p) /\ Remap(p)[n] \in DOMAIN cand.caps
                   THEN Slice(s, cand.caps[Remap(p)[n]][1], cand.caps[Remap(p)[n]][2]) ELSE <<>>
    IN [n \in 0 .. SourceGroups(p) |-> IF n = 0 THEN Slice(s, cand.from, cand.to) ELSE CapturedText(n)]

NotFound == <<>>
Reported(p, s, last) == IF last = NoMatch THEN NotFound ELSE SourceSubmatch(p, s, last.cand)
FindSubmatch(p, s) == Reported(p, s, Found(p, s))

-----------------------------------------------------------------------------
\* A group is reported under its number in the source, where every capturing
\* group counts: also those inside assertions, which are never reported.
GroupsKeepNumbers(p) == \A n \in DOMAIN Remap(p) : n = CountCapturesIn(p.t, 1, Remap(p)[n])

\* The two questions agree: a name matches when it has a submatch.
QuestionsAgree(p, s) == MatchString(p, s) <=> FindSubmatch(p, s) # NotFound

\* After a shorter end is taken every span left is one of the name, or
\* cutting its text out of the name would panic.
SpansAreSlices(s, found) ==
    \A cand \in found : \A k \in DOMAIN cand.caps :
        k > 0 => 0 <= cand.caps[k][1] /\ cand.caps[k][1] <= cand.caps[k][2] /\ cand.caps[k][2] <= Len(s)

\* What a branch accepts is a match of a backtracking engine that starts there;
\* unless an assertion has an anchor, which is asked of the slice alone and
\* takes the slice's edge for the name's (see the README's disagreements).
EdgeAsked(n) == n.text \in Anchors \ {"(?i)"} \/ \E m \in Nodes(n) : EdgeAsked(m)
AcceptedIsReal(b, s, found) ==
    (\A k \in DOMAIN b.asserts : ~EdgeAsked(b.asserts[k].node)) =>
        \A cand \in found : MatchSeq(b.sq, s, cand.from, <<>>, TRUE) # <<>>

\* Of every candidate a branch leaves over.
FoundHolds(b, s, found) == SpansAreSlices(s, found) /\ AcceptedIsReal(b, s, found)
AnswersHold(p, s) ==
    \A b \in DOMAIN p.branches : FoundHolds(p.branches[b], s, ToSet(Survivors(p.branches[b], s, TRUE)))

\* The shortcuts change no answer (pcre_compile.go:761-763, "Both are
\* soundness-preserving").
\* The code does not keep it: see the README's disagreements.
QuickIsDirect(p, s) ==
    \A b \in DOMAIN p.branches : Cardinality({Survivors(p.branches[b], s, quick) : quick \in BOOLEAN}) = 1

\* A backtracking engine finds a match exactly when the layer does.
\* The code does not keep it: see the README's disagreements.
MatchesAlike(p, s) == MatchString(p, s) <=> FindAll(Whole(p), s, 0, -1, TRUE) # <<>>
=============================================================================
