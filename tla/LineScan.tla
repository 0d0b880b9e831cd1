------------------------------ MODULE LineScan ------------------------------
(***************************************************************************)
(* The text rules of a delivered subtitle (internal/timing, striphi.go):   *)
(* one left-to-right scan of a line drops hearing-impaired annotations,    *)
(* speaker labels, formatting tags and outer blanks.  A kept rune is       *)
(* appended once; a rule that completes truncates the output back to where *)
(* its match began, with what the scan knew there.                         *)
(*                                                                         *)
(* A rune is what the rules tell apart: an uppercase letter "A", a digit   *)
(* "0", a blank " ", a note, the brackets, "<" and ">", "/" , the          *)
(* formatting name "i", "-", ":", and "x" for any other.                   *)
(***************************************************************************)
EXTENDS Integers, Sequences, SequencesExt, FiniteSets, FiniteSetsExt

\* Which options apply: hearing-impaired rules, tags, blanks.
TextRules == [hi : BOOLEAN, tags : BOOLEAN, blanks : BOOLEAN]

IsBlank(r) == r = " "
IsNote(r) == r = "note"

\* The runes of a speaker label.
LabelRune(r, first) == r = "A" \/ (~first /\ r \in {"0", "-", " "})

\* The text of <...> that a player reads as formatting: the name, after a
\* slash and up to a blank; only its first six runes decide.
FirstRunes(s, n) == SubSeq(s, 1, IF Len(s) < n THEN Len(s) ELSE n)
FormatTag(inner) ==
    LET name == IF inner # <<>> /\ inner[1] = "/" THEN Tail(inner) ELSE inner
    IN name # <<>> /\ name[1] = "i" /\ (Len(name) = 1 \/ IsBlank(name[2]))

MusicOnly(line) ==
    /\ \E i \in DOMAIN line : IsNote(line[i])
    /\ \A i \in DOMAIN line : IsNote(line[i]) \/ IsBlank(line[i])

-----------------------------------------------------------------------------
\* What the scan holds: the output, the source runs it is made of, the
\* openers a closer may pair with, where the trailing blanks start, and where
\* the output stopped reading as a label (-1: it still does).
Start == [out |-> <<>>, runs |-> <<>>, brackets |-> <<>>, parens |-> <<>>, notes |-> <<>>, lts |-> <<>>,
          trim |-> [out |-> 0, src |-> 0], hasTrim |-> FALSE, deadAt |-> -1, afterLabel |-> FALSE]

LineStart == [at |-> [out |-> 0, src |-> 0], trim |-> [out |-> 0, src |-> 0], hasTrim |-> FALSE]

PopFrom(st, p) == SelectSeq(st, LAMBDA o : o.at.out < p)

\* The output cut back to an opener, and the scan's state with it.
TruncateOut(s, to) ==               \* a faulty cut, that keeps the label and blank state of what it drops
    [s EXCEPT !.out = SubSeq(@, 1, to.at.out),
              !.runs = SelectSeq(@, LAMBDA k : k.outFrom < to.at.out),
              !.brackets = PopFrom(@, to.at.out), !.parens = PopFrom(@, to.at.out),
              !.notes = PopFrom(@, to.at.out), !.lts = PopFrom(@, to.at.out)]

Truncate(s, to) ==
    LET p == to.at.out
        left == SelectSeq(s.runs, LAMBDA k : k.outFrom < p)
        n == Len(left)
    IN [s EXCEPT !.out = SubSeq(@, 1, p),
                 !.runs = IF n = 0 THEN left
                          ELSE [left EXCEPT ![n].to = IF @ < to.at.src THEN @ ELSE to.at.src],
                 !.brackets = PopFrom(@, p), !.parens = PopFrom(@, p),
                 !.notes = PopFrom(@, p), !.lts = PopFrom(@, p),
                 !.deadAt = IF @ >= p THEN -1 ELSE @,
                 !.trim = to.trim, !.hasTrim = to.hasTrim]

TagOpen(s) ==
    /\ s.lts # <<>>
    /\ LET lt == Last(s.lts).at.out
       IN FormatTag(FirstRunes(SubSeq(s.out, lt + 2, Len(s.out)), 6))

\* The openers a hearing-impaired closer pairs with; it takes the earliest.
Closes(s, r) ==
    CASE r = "]" -> s.brackets [] r = ")" -> s.parens [] IsNote(r) -> s.notes [] OTHER -> <<>>

\* Rune r completes a rule, or does not.
Closing(s, rules, r) ==
    CASE rules.hi /\ Closes(s, r) # <<>> -> [yes |-> TRUE, s |-> Truncate(s, Closes(s, r)[1])]
      [] rules.tags /\ r = ">" /\ TagOpen(s) -> [yes |-> TRUE, s |-> Truncate(s, Last(s.lts))]
      [] rules.hi /\ r = ":" /\ s.deadAt < 0 /\ Len(s.out) >= 2 ->
            [yes |-> TRUE, s |-> [Truncate(s, LineStart) EXCEPT !.afterLabel = TRUE]]
      [] OTHER -> [yes |-> FALSE]

\* r as an opener, on the stack of its kind.
Push(s, rules, r, op) ==
    CASE rules.hi /\ r = "[" -> [s EXCEPT !.brackets = Append(@, op)]
      [] rules.hi /\ r = "(" -> [s EXCEPT !.parens = Append(@, op)]
      [] rules.hi /\ IsNote(r) -> [s EXCEPT !.notes = Append(@, op)]
      [] rules.tags /\ r = "<" -> [s EXCEPT !.lts = Append(@, op)]
      [] OTHER -> s

\* The runs with the rune at source place i kept.
KeptRun(s, i) ==
    LET n == Len(s.runs)
    IN IF n > 0 /\ s.runs[n].to = i THEN [s.runs EXCEPT ![n].to = i + 1]
       ELSE Append(s.runs, [outFrom |-> Len(s.out), from |-> i, to |-> i + 1])

\* A rune that completes no rule is kept.
KeepRune(s, rules, r, i) ==
    LET at == [out |-> Len(s.out), src |-> i]
        pushed == Push(s, rules, r, [at |-> at, trim |-> s.trim, hasTrim |-> s.hasTrim])
    IN [pushed EXCEPT
            !.deadAt = IF @ < 0 /\ ~LabelRune(r, Len(s.out) = 0) THEN Len(s.out) ELSE @,
            !.trim = IF IsBlank(r) /\ ~s.hasTrim THEN at ELSE @,
            !.hasTrim = IsBlank(r),
            !.runs = KeptRun(s, i),
            !.out = Append(@, r)]

\* The scan takes the rune at source place i.
Feed(s, rules, r, i) ==
    LET open == [s EXCEPT !.afterLabel = IF IsBlank(r) THEN @ ELSE FALSE]
        closing == Closing(open, rules, r)
    IN IF IsBlank(r) /\ s.out = <<>> /\ (rules.blanks \/ s.afterLabel) THEN s
       ELSE IF closing.yes THEN closing.s
       ELSE KeepRune(open, rules, r, i)

\* The end of the line: its trailing blanks go, and a line left empty, a lone
\* dash or notes alone is dropped.
Finish(s, rules) ==
    LET cut == IF rules.blanks /\ s.hasTrim THEN Truncate(s, [LineStart EXCEPT !.at = s.trim]) ELSE s
        dropped == \/ rules.blanks /\ cut.out \in {<<>>, <<"-">>}
                   \/ rules.hi /\ MusicOnly(cut.out)
    IN [scan |-> cut, keep |-> ~dropped, text |-> ~dropped /\ \E i \in DOMAIN cut.out : ~IsBlank(cut.out[i])]

Scan(line, rules) ==
    Finish(FoldLeft(LAMBDA s, i : Feed(s, rules, line[i], i - 1), Start, [i \in DOMAIN line |-> i]), rules)

\* The source runes the runs keep.
Source(line, runs) == FlattenSeq([n \in DOMAIN runs |-> SubSeq(line, runs[n].from + 1, runs[n].to)])

\* A line after the rules, <<>> when it is dropped.
Cleaned(line, rules) ==
    LET r == Scan(line, rules) IN IF r.keep THEN Source(line, r.scan.runs) ELSE <<>>

-----------------------------------------------------------------------------
\* The rules said slowly: remove the match whose closing rune comes first,
\* and again, until none is left.
NoMatch == [from |-> 0, to |-> 0]

IsLabel(p) == Len(p) >= 2 /\ \A k \in DOMAIN p : LabelRune(p[k], k = 1)

Earliest(line, j, Opens(_)) ==
    LET at == {i \in 1 .. j - 1 : Opens(line[i])} IN IF at = {} THEN 0 ELSE Min(at)

MatchAt(line, rules, j) ==
    LET r == line[j]
        lts == {i \in 1 .. j - 1 : line[i] = "<"}
        from == CASE rules.hi /\ r = "]" -> Earliest(line, j, LAMBDA c : c = "[")
                  [] rules.hi /\ r = ")" -> Earliest(line, j, LAMBDA c : c = "(")
                  [] rules.hi /\ IsNote(r) -> Earliest(line, j, IsNote)
                  [] rules.tags /\ r = ">" /\ lts # {} ->
                        IF /\ \A i \in Max(lts) .. j - 1 : line[i] # ">"
                           /\ FormatTag(SubSeq(line, Max(lts) + 1, j - 1)) THEN Max(lts) ELSE 0
                  [] OTHER -> 0
        past == CHOOSE t \in j .. Len(line) : /\ \A i \in j + 1 .. t : IsBlank(line[i])
                                              /\ t = Len(line) \/ ~IsBlank(line[t + 1])
    IN IF from > 0 THEN [from |-> from, to |-> j]
       ELSE IF rules.hi /\ r = ":" /\ IsLabel(SubSeq(line, 1, j - 1)) THEN [from |-> 1, to |-> past]
       ELSE NoMatch

FirstMatch(line, rules) ==
    LET at == {j \in DOMAIN line : MatchAt(line, rules, j) # NoMatch}
    IN IF at = {} THEN NoMatch ELSE MatchAt(line, rules, Min(at))

\* The line without the blanks it begins with, and without those it ends with.
Leading(line) == LET at == {i \in DOMAIN line : ~IsBlank(line[i])}
                 IN IF at = {} THEN <<>> ELSE SubSeq(line, Min(at), Len(line))
Trailing(line) == LET at == {i \in DOMAIN line : ~IsBlank(line[i])}
                  IN IF at = {} THEN <<>> ELSE SubSeq(line, 1, Max(at))

Without(l, m) == IF m = NoMatch THEN l ELSE SubSeq(l, 1, m.from - 1) \o SubSeq(l, m.to + 1, Len(l))
ReferenceStep(line, rules) ==
    LET l == IF rules.blanks THEN Leading(line) ELSE line IN Without(l, FirstMatch(l, rules))

EndOf(last, rules) ==
    LET l == IF rules.blanks THEN Trailing(last) ELSE last
    IN IF \/ rules.blanks /\ l \in {<<>>, <<"-">>}
          \/ rules.hi /\ MusicOnly(l) THEN <<>> ELSE l
Reference(line, rules) ==
    EndOf(FoldLeft(LAMBDA l, n : ReferenceStep(l, rules), line, [n \in 1 .. Len(line) + 1 |-> n]), rules)

-----------------------------------------------------------------------------
\* One pass does what removing match after match does: the text kept is the
\* reference's, and it is the source's own runes, so a rule that completes
\* on what another one left is seen.
ScanIsReference(line, rules) == Cleaned(line, rules) = Reference(line, rules)

\* The result is a fixed point: cleaning a delivered file again changes nothing.
ScanSettles(line, rules) ==
    LET once == Cleaned(line, rules) IN Cleaned(once, rules) = once
=============================================================================
