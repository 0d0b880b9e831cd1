---------------------------- MODULE EpisodeMarker ----------------------------
(***************************************************************************)
(* epmarker: what a release or member name claims of its season and its    *)
(* episode.  A name is its tokens, each [kind, nums, sep, inside, leads]:  *)
(*   "SE" S##E##.. in one token, "X" ##x##, "S" S##, "Season" and "Ep" the *)
(*   words with the number glued to them or none, "E" E## runs, "N" bare   *)
(*   digits, "other".                                                      *)
(* A number is [v, wide]: wide when written with two digits or more.  sep  *)
(* is what stands before it: "", " ", " - ", "-", ".", "~" or "far".       *)
(***************************************************************************)
EXTENDS Integers, Sequences, FiniteSets, SequencesExt

CONSTANTS MaxRangeSpan, MaxRangeEpisode

\* joinsMarker and the gap wordNumber reads across
JoinsMarker(sep) == sep \in {" ", ".", "-", " - "}
JoinsWord(sep) == sep \in {" ", ".", "-"}

\* joinsRange
JoinsRange(t, beforeE) ==
    \/ t.sep \in {"-", "~"}
    \/ t.inside /\ t.sep = " - "
    \/ beforeE /\ t.sep = "."

JoinsNumber(t) == t.kind = "N" /\ JoinsRange(t, FALSE)

None == [v |-> -1, wide |-> FALSE]
Run(form, season, nums, at) == [form |-> form, season |-> season, nums |-> nums, at |-> at]

(***************************************************************************)
(* read: the marker shapes, the runs of numbers and the season statements  *)
(***************************************************************************)

Nothing == [shapes |-> <<>>, runs |-> <<>>, stated |-> <<>>]

Shape(r, s, e, x) == [r EXCEPT !.shapes = Append(@, [season |-> s, episode |-> e, cross |-> x])]
AddRun(r, u) == [r EXCEPT !.runs = Append(@, u)]
State(r, n, at, w) == [r EXCEPT !.stated = Append(@, [season |-> n, at |-> at, word |-> w])]

\* extend: a number in the last run's notation that a range joiner precedes
Extends(r, t) ==
    LET form == Last(r.runs).form
    IN \/ t.kind = "N" /\ JoinsRange(t, FALSE)
       \/ t.kind = "E" /\ form \in {"marker", "e"} /\ JoinsRange(t, TRUE)
       \/ t.kind = "Ep" /\ t.nums # <<>> /\ form = "word" /\ JoinsRange(t, FALSE)
Extended(r, t) == [r EXCEPT !.runs[Len(r.runs)].nums = @ \o t.nums]

\* wordNumber: the number glued to a word, or the next token's
WordNumber(toks, k) ==
    IF toks[k].nums # <<>> THEN [n |-> toks[k].nums[1], used |-> 0]
    ELSE IF k < Len(toks) /\ toks[k + 1].kind = "N" /\ JoinsWord(toks[k + 1].sep)
    THEN [n |-> toks[k + 1].nums[1], used |-> 1]
    ELSE [n |-> None, used |-> 0]

RECURSIVE LastJoined(_, _)
LastJoined(toks, k) ==
    IF k < Len(toks) /\ JoinsNumber(toks[k + 1]) THEN LastJoined(toks, k + 1) ELSE k

\* readDigits: its reading and the last token read
Digits(toks, k, r, anchored) ==
    LET t == toks[k]
        after == IF k < Len(toks) THEN toks[k + 1].sep ELSE ""
        joined == k < Len(toks) /\ JoinsNumber(toks[k + 1])
        As(form) == [r |-> AddRun(r, Run(form, None, t.nums, k)), last |-> k]
    IN IF ~t.inside /\ t.sep = " - " THEN As("dash")
       ELSE IF joined /\ anchored THEN As("range")
       ELSE IF joined THEN [r |-> r, last |-> LastJoined(toks, k)]
       ELSE IF ~t.inside /\ t.sep \in {" ", " - "} /\ after \in {" ", " - "} THEN As("space")
       ELSE [r |-> r, last |-> k]

\* One token, with the index where bare digits may open a range
Step(toks, k, r, rangeAt) ==
    LET t == toks[k]
        next == IF k < Len(toks) THEN toks[k + 1] ELSE [t EXCEPT !.kind = "other"]
        Is(q, last, at) == [r |-> q, last |-> last, rangeAt |-> at]
    IN CASE t.kind = "SE" ->
              Is(AddRun(State(Shape(r, t.nums[1], t.nums[2], FALSE), t.nums[1], k, FALSE),
                        Run("marker", t.nums[1], Tail(t.nums), k)), k, rangeAt)
         [] t.kind = "X" ->
              Is(AddRun(Shape(r, t.nums[1], t.nums[2], TRUE),
                        Run("marker", t.nums[1], <<t.nums[2]>>, k)), k, rangeAt)
         [] t.kind = "S" /\ next.kind = "E" /\ JoinsMarker(next.sep) ->
              Is(AddRun(Shape(State(r, t.nums[1], k, FALSE), t.nums[1], next.nums[1], FALSE),
                        Run("marker", t.nums[1], next.nums, k + 1)), k + 1, -1)
         [] t.kind = "S" /\ ~(next.kind = "E" /\ JoinsMarker(next.sep)) ->
              Is(State(r, t.nums[1], k, FALSE), k, k + 1)
         [] t.kind = "Season" ->
              LET w == WordNumber(toks, k)
              IN IF w.n = None THEN Is(r, k, -1)
                 ELSE Is(State(r, w.n, k + w.used, TRUE), k + w.used, k + w.used + 1)
         [] t.kind = "E" -> Is(AddRun(r, Run("e", None, t.nums, k)), k, rangeAt)
         [] t.kind = "Ep" ->
              LET w == WordNumber(toks, k)
              IN IF w.n = None THEN Is(r, k, rangeAt)
                 ELSE Is(AddRun(r, Run("word", None, <<w.n>>, k + w.used)), k + w.used, rangeAt)
         [] t.kind = "N" ->
              LET d == Digits(toks, k, r, k = rangeAt \/ t.leads) IN Is(d.r, d.last, rangeAt)
         [] t.kind = "other" -> Is(r, k, rangeAt)

RECURSIVE ReadFrom(_, _, _, _, _)
ReadFrom(toks, k, r, open, rangeAt) ==
    IF k > Len(toks) THEN r
    ELSE IF open /\ Extends(r, toks[k])
    THEN ReadFrom(toks, k + 1, Extended(r, toks[k]), TRUE, rangeAt)
    ELSE LET s == Step(toks, k, r, rangeAt)
         IN ReadFrom(toks, s.last + 1, s.r, Len(s.r.runs) > Len(r.runs), s.rangeAt)

Read(toks) == ReadFrom(toks, 1, Nothing, FALSE, -1)

(***************************************************************************)
(* A run of numbers                                                        *)
(***************************************************************************)

Lettered(u) == u.form \in {"marker", "e", "word"}
ReadsAlone(u) == u.form \in {"marker", "word"} \/ u.nums[1].wide

\* span: a range never decreases, and ends before a year
FirstEpisode(u) == u.nums[1].v
LastEpisode(u) == u.nums[Len(u.nums)].v
IsRange(u) ==
    /\ Len(u.nums) > 1
    /\ \A i \in 1 .. Len(u.nums) - 1 : u.nums[i].v <= u.nums[i + 1].v
    /\ LastEpisode(u) <= MaxRangeEpisode

\* states
States(u) ==
    IF Len(u.nums) = 1 THEN u.form # "space" /\ ReadsAlone(u)
    ELSE Lettered(u) \/ (IsRange(u) /\ ReadsAlone(u))

Episodes(u) ==
    IF IsRange(u) /\ LastEpisode(u) - FirstEpisode(u) <= MaxRangeSpan THEN FirstEpisode(u) .. LastEpisode(u) ELSE {FirstEpisode(u)}

\* seasonOf: its marker's, else the latest statement before it
SeasonOf(r, u) ==
    LET before == {i \in 1 .. Len(r.stated) : r.stated[i].at <= u.at}
    IN IF u.season # None THEN u.season
       ELSE IF before = {} THEN None
       ELSE r.stated[CHOOSE i \in before : \A j \in before : j <= i].season

(***************************************************************************)
(* The views                                                               *)
(***************************************************************************)

Find(r) == {<<r.shapes[i].season.v, r.shapes[i].episode.v>> : i \in 1 .. Len(r.shapes)}
Present(r) == r.shapes # <<>>

\* Faulty Claiming: beside a marker every run adds its episodes.
ClaimingAll(r, u) == States(u) /\ SeasonOf(r, u) # None

\* Beside a marker only a lettered run of numbers adds episodes.
Claiming(r, u) ==
    /\ Present(r) => Len(u.nums) > 1 /\ Lettered(u)
    /\ States(u) /\ SeasonOf(r, u) # None

Claims(r) ==
    Find(r) \cup UNION {{<<SeasonOf(r, r.runs[i]).v, e>> : e \in Episodes(r.runs[i])} :
                        i \in {j \in 1 .. Len(r.runs) : Claiming(r, r.runs[j])}}

\* Season: an S## token, else "Season N", else the cross form
Season(r) ==
    LET Of(w) == SelectSeq(r.stated, LAMBDA st : st.word = w)
        crosses == SelectSeq(r.shapes, LAMBDA s : s.cross)
    IN IF Of(FALSE) # <<>> THEN Of(FALSE)[1].season
       ELSE IF Of(TRUE) # <<>> THEN Of(TRUE)[1].season
       ELSE IF crosses # <<>> THEN crosses[1].season ELSE None

\* StatesEpisode
StatesEpisode(r) ==
    \/ Present(r)
    \/ \E i \in 1 .. Len(r.runs) :
           /\ States(r.runs[i])
           /\ \/ Lettered(r.runs[i])
              \/ r.stated # <<>> /\ r.stated[1].at <= r.runs[i].at

\* Absolute: the last dash form, else the first word, else the first spaced
Absolute(r) ==
    LET alone == SelectSeq(r.runs, LAMBDA u : Len(u.nums) = 1 /\ ReadsAlone(u))
        Of(fs) == SelectSeq(alone, LAMBDA u : u.form \in fs)
    IN IF Present(r) THEN None
       ELSE IF Of({"dash"}) # <<>> THEN Last(Of({"dash"})).nums[1]
       ELSE IF Of({"e", "word"}) # <<>> THEN Of({"e", "word"})[1].nums[1]
       ELSE IF Of({"space"}) # <<>> THEN Of({"space"})[1].nums[1] ELSE None

(***************************************************************************)
(* Properties                                                              *)
(***************************************************************************)

\* The views of one name agree: a name that claims an episode states one and
\* has a season, so it is never taken for a season pack; an absolute number is
\* read only off a name with no marker, and a lone number beside a marker adds
\* no episode to it.
ViewsAgree(toks) ==
    LET r == Read(toks)
    IN /\ Claims(r) # {} => StatesEpisode(r) /\ Season(r) # None
       /\ Absolute(r) # None => ~Present(r)
       /\ Present(r) /\ (\A i \in 1 .. Len(r.runs) : Len(r.runs[i].nums) = 1) => Claims(r) = Find(r)
=============================================================================
