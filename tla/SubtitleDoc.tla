----------------------------- MODULE SubtitleDoc -----------------------------
(***************************************************************************)
(* Subtitle documents and the timings applied to them (internal/timing).   *)
(* A document is parsed into cues that point into it (parse_srt.go,        *)
(* parse_ass.go; WebVTT is rewritten as SRT first, parse_vtt.go); Render   *)
(* rewrites its stamps and Clean its text, leave the rest as it is, and    *)
(* the result is parsed again when the file is next read.                  *)
(*                                                                         *)
(* A document is a sequence of lines: blank, a lone number, a timing line, *)
(* a text line; or, in ASS, a section head, a Format line, a Dialogue      *)
(* line.  What a text says is a model value: no text reads as a timing.    *)
(***************************************************************************)
EXTENDS Integers, Sequences, SequencesExt, FiniteSets, FiniteSetsExt

CONSTANTS
    MaxStamp,      \* the last time an SRT stamp writes (999:59:59,999)
    MaxAssStamp,   \* and an ASS stamp (9:59:59.99)
    AssUnit,       \* milliseconds ASS rounds to (10)
    MaxOffset,     \* the largest offset of a timing (6 h)
    MaxSegmentEnd, \* the last end of a segment (24 h)
    MinScale, MaxScale, One,   \* the scales a timing has, and 1, in the same fractions
    CleanTo        \* text -> the line the text rules leave of it, or Gone

Blank == [k |-> "blank"]
Num(n) == [k |-> "num", n |-> n]
Time(s, e) == [k |-> "time", s |-> s, e |-> e]
Words(t) == [k |-> "text", t |-> t]
Gone == [k |-> "gone"]

-----------------------------------------------------------------------------
(* SRT. *)

\* The open event ends at line n; text lines run to textEnd, 0 for none yet.
CloseOpen(p, n) ==
    LET last == Len(p.events)
    IN IF last = 0 THEN p
       ELSE [p EXCEPT !.events[last].textTo = IF p.index > 0 THEN p.index ELSE p.textEnd,
                      !.events[last].blockTo = n - 1]

\* A timing line starts an event, and a lone number just before it is its index.
TimingLine(p, doc, i) ==
    LET from == IF p.index > 0 THEN p.index ELSE i
        closed == CloseOpen([p EXCEPT !.index = 0], from)
    IN [closed EXCEPT !.events = Append(@, [s |-> doc[i].s, e |-> doc[i].e, stamp |-> i, index |-> p.index,
                                            textTo |-> i, blockFrom |-> from, blockTo |-> i]),
                      !.textEnd = i]

\* A line that is neither blank nor a timing: text, or a lone number that may
\* be the next index.  A second one makes the first text.
IndexForgotten(p, doc, i) ==        \* a faulty form, that loses a number followed by another
    [p EXCEPT !.index = IF doc[i].k = "num" THEN i ELSE 0,
              !.textEnd = IF doc[i].k = "num" THEN @ ELSE i]

TextLine(p, doc, i) ==
    [p EXCEPT !.index = IF doc[i].k = "num" THEN i ELSE 0,
              !.textEnd = IF p.events = <<>> THEN @
                          ELSE IF doc[i].k # "num" THEN i
                          ELSE IF p.index > 0 THEN p.index ELSE @]

SRTLine(p, doc, i) ==
    CASE doc[i].k = "time" -> TimingLine(p, doc, i)
      [] doc[i].k = "blank" -> p
      [] OTHER -> TextLine(p, doc, i)

ParseSRT(doc) ==
    CloseOpen(FoldLeft(LAMBDA p, i : SRTLine(p, doc, i), [events |-> <<>>, index |-> 0, textEnd |-> 0],
                       [i \in DOMAIN doc |-> i]), Len(doc) + 1).events

-----------------------------------------------------------------------------
(* ASS and SSA. *)

DefaultFields == [n |-> 4, start |-> 1, end |-> 2]

\* A Format line names the fields of the Dialogue lines after it; it counts
\* when it has a start and an end, and its only text is the last.
PlacesOf(names, name) == {k \in DOMAIN names : names[k] = name}
ReadFormat(names) ==
    IF \/ PlacesOf(names, "start") = {} \/ PlacesOf(names, "end") = {}
       \/ PlacesOf(names, "text") # {Len(names)} THEN [ok |-> FALSE]
    ELSE [ok |-> TRUE, fields |-> [n |-> Len(names), start |-> Max(PlacesOf(names, "start")),
                                   end |-> Max(PlacesOf(names, "end"))]]

\* The event of a Dialogue line: one field per comma, the last with the rest.
NoEvent == [ok |-> FALSE]
Dialogue(line, i, fields) ==
    IF Len(line.f) < fields.n THEN NoEvent
    ELSE LET s == line.f[fields.start]
             e == line.f[fields.end]
         IN IF ~(s.stamp /\ e.stamp) THEN NoEvent
            ELSE [ok |-> TRUE, ev |-> [s |-> s.ms, e |-> e.ms, stamp |-> i, index |-> 0, textTo |-> i,
                                       blockFrom |-> i, blockTo |-> i, fields |-> fields,
                                       text |-> SubSeq(line.f, fields.n, Len(line.f))]]

AssLine(p, doc, i) ==
    LET line == doc[i]
        format == ReadFormat(line.names)
        said == Dialogue(line, i, p.fields)
    IN CASE line.k = "section" -> [p EXCEPT !.section = line.name]
         [] line.k = "format" /\ p.section = "events" -> IF format.ok THEN [p EXCEPT !.fields = format.fields] ELSE p
         [] line.k = "dialogue" /\ p.section = "events" -> IF said.ok THEN [p EXCEPT !.events = Append(@, said.ev)] ELSE p
         [] OTHER -> p

ParseASS(doc) ==
    FoldLeft(LAMBDA p, i : AssLine(p, doc, i), [events |-> <<>>, section |-> "none", fields |-> DefaultFields],
             [i \in DOMAIN doc |-> i]).events

-----------------------------------------------------------------------------
(* Timings. *)

Identity == [kind |-> "identity"]
Shift(ms) == [kind |-> "shift", ms |-> ms]
Linear(scale, offset) == [kind |-> "linear", scale |-> scale, offset |-> offset]
Piecewise(scale, segs) == [kind |-> "piecewise", scale |-> scale, segs |-> segs]

OffsetOK(ms) == ms \in -MaxOffset .. MaxOffset
ScaleOK(s) == s \in MinScale .. MaxScale

\* Segments chain from 0, end within a day, and the last is open-ended (0).
SegmentsOK(segs) ==
    /\ Len(segs) >= 2
    /\ \A i \in DOMAIN segs :
          /\ segs[i].from = IF i = 1 THEN 0 ELSE segs[i - 1].to
          /\ OffsetOK(segs[i].offset)
          /\ i < Len(segs) => segs[i].to > segs[i].from /\ segs[i].to <= MaxSegmentEnd
    /\ segs[Len(segs)].to = 0

InBounds(t) ==
    CASE t.kind = "identity" -> TRUE
      [] t.kind = "shift" -> OffsetOK(t.ms)
      [] t.kind = "linear" -> ScaleOK(t.scale) /\ OffsetOK(t.offset)
      [] OTHER -> ScaleOK(t.scale) /\ SegmentsOK(t.segs)

AnyOffset(segs) == \A i \in DOMAIN segs : segs[i].offset = segs[1].offset     \* a faulty form, that joins dropped segments
SingleOffset(segs) == \A i \in DOMAIN segs : ~segs[i].drop /\ segs[i].offset = segs[1].offset

\* One form per mapping; a timing out of bounds is left as it is.
AsLinear(t) == IF t.kind = "piecewise" /\ SingleOffset(t.segs) THEN Linear(t.scale, t.segs[1].offset) ELSE t
AsShift(t) == IF t.kind = "linear" /\ t.scale = One THEN Shift(t.offset) ELSE t
AsIdentity(t) == IF t.kind = "shift" /\ t.ms = 0 THEN Identity ELSE t

Canonical(t) == IF InBounds(t) THEN AsIdentity(AsShift(AsLinear(t))) ELSE t

Valid(t) == InBounds(t) /\ Canonical(t).kind = t.kind

\* The segment a cue that starts at ms is mapped by: the first that ends past it.
SegmentAt(segs, ms) ==
    segs[Cardinality({i \in 1 .. Len(segs) - 1 : segs[i].to <= ms}) + 1]

Mapping(t, ms) ==
    CASE t.kind = "shift" -> [scale |-> One, offset |-> t.ms, keep |-> TRUE]
      [] t.kind = "linear" -> [scale |-> t.scale, offset |-> t.offset, keep |-> TRUE]
      [] t.kind = "piecewise" ->
            LET s == SegmentAt(t.segs, ms) IN [scale |-> t.scale, offset |-> s.offset, keep |-> ~s.drop]
      [] OTHER -> [scale |-> One, offset |-> 0, keep |-> TRUE]

\* x / One rounded to a multiple of unit, halves away from zero.
RoundTo(x, unit) ==
    LET d == One * unit
        up(n) == (2 * n + d) \div (2 * d)
    IN unit * IF x >= 0 THEN up(x) ELSE -up(-x)

\* One cue's times under t: a cue that ends at or before 0 is dropped, one
\* that starts before 0 starts there.
MapCue(ev, t, unit) ==
    LET m == Mapping(t, ev.s)
        s == RoundTo(ev.s * m.scale + m.offset * One, unit)
        e == RoundTo(ev.e * m.scale + m.offset * One, unit)
    IN [s |-> IF s > 0 THEN s ELSE 0, e |-> e, keep |-> m.keep /\ e > 0]

MapEvents(events, t, unit) == [i \in DOMAIN events |-> MapCue(events[i], t, unit)]

\* A stamp that moves past the last time of its format is refused.
Renders(events, t, unit, last) ==
    /\ Valid(t)
    /\ \A i \in DOMAIN events : \A m \in {MapCue(events[i], t, unit)} :
          m.keep => /\ m.s # events[i].s => m.s <= last
                    /\ m.e # events[i].e => m.e <= last

-----------------------------------------------------------------------------
\* A document rewritten event by event: a dropped event's block goes, and
\* then the indexes that are left number from 1; stamped is the stamp lines.
Rewritten(doc, events, keep, stamped) ==
    LET renumber == \E j \in DOMAIN events : ~keep[j]
        at(i) == {j \in DOMAIN events : i \in events[j].blockFrom .. events[j].blockTo}
        number(j) == Cardinality({n \in 1 .. j : keep[n]})
        line(i) ==
            LET j == CHOOSE j \in at(i) : TRUE
            IN CASE at(i) = {} -> <<doc[i]>>
                 [] ~keep[j] -> <<>>
                 [] renumber /\ i = events[j].index -> <<Num(number(j))>>
                 [] i = events[j].stamp -> <<stamped[j]>>
                 [] OTHER -> <<doc[i]>>
    IN FlattenSeq([i \in DOMAIN doc |-> line(i)])

Render(doc, t) ==
    LET events == ParseSRT(doc)
        mapped == MapEvents(events, t, 1)
    IN Rewritten(doc, events, [j \in DOMAIN events |-> mapped[j].keep],
                 [j \in DOMAIN events |-> Time(mapped[j].s, mapped[j].e)])

RenderASS(doc, t) ==
    LET events == ParseASS(doc)
        mapped == MapEvents(events, t, AssUnit)
    IN Rewritten(doc, events, [j \in DOMAIN events |-> mapped[j].keep],
                 [j \in DOMAIN events |->
                     [doc[events[j].stamp] EXCEPT !.f[events[j].fields.start].ms = mapped[j].s,
                                                  !.f[events[j].fields.end].ms = mapped[j].e]])

\* The preview of a window: the events it meets, shifted and clipped to it.
Window(mapped, from, span) ==
    LET shown == {j \in DOMAIN mapped : mapped[j].keep /\ mapped[j].e > from /\ mapped[j].s < from + span}
    IN [j \in shown |-> [s |-> IF mapped[j].s > from THEN mapped[j].s - from ELSE 0,
                         e |-> IF mapped[j].e - from < span THEN mapped[j].e - from ELSE span]]
RenderVTT(events, t, unit, from, span) == Window(MapEvents(events, t, unit), from, span)

\* An event's text, and what the text rules leave of it: a line they drop
\* goes, and an event of no text is empty.
TextOf(doc, ev) == SubSeq(doc, ev.stamp + 1, ev.textTo)

CleanLine(l) == IF l.k = "text" THEN CleanTo[l.t] ELSE l

CleanText(lines) == SelectSeq([i \in DOMAIN lines |-> CleanLine(lines[i])], LAMBDA l : l # Gone)

HasText(lines) == \E i \in DOMAIN lines : lines[i].k # "blank"

\* Clean's text edit; RemoveEmpty removes the events left with no text.
Edit(doc, removeEmpty) ==
    LET events == ParseSRT(doc)
        keep == [j \in DOMAIN events |-> ~removeEmpty \/ HasText(CleanText(TextOf(doc, events[j])))]
        inText(i) == \E j \in DOMAIN events : i \in events[j].stamp + 1 .. events[j].textTo
        marked == [i \in DOMAIN doc |-> IF inText(i) THEN CleanLine(doc[i]) ELSE doc[i]]
    IN SelectSeq(Rewritten(marked, events, keep, [j \in DOMAIN events |-> marked[events[j].stamp]]), LAMBDA l : l # Gone)

-----------------------------------------------------------------------------
(* WebVTT, whose lines after the header are blank, a block keyword, a timing *)
(* line -- read or not --, a cue's identifier, a payload line.               *)

SkipBlock(v, i) ==
    LET ends == {j \in i .. Len(v) : v[j].k = "blank"} IN IF ends = {} THEN Len(v) + 1 ELSE Min(ends)

\* A cue's payload ends at a blank line or at the next timing line.
PayloadEnd(v, i) ==
    LET ends == {j \in i .. Len(v) : v[j].k \in {"blank", "time", "unread"}}
    IN IF ends = {} THEN Len(v) + 1 ELSE Min(ends)

\* The cue at timing line i: written as SRT, or dropped when its times do not
\* read; a time past the last SRT stamp refuses the document.
VTTCue(w, v, i) ==
    LET end == PayloadEnd(v, i + 1)
    IN CASE v[i].k = "unread" -> [w EXCEPT !.at = SkipBlock(v, i + 1)]
         [] v[i].s > MaxStamp \/ v[i].e > MaxStamp -> [w EXCEPT !.refused = TRUE, !.at = Len(v) + 1]
         [] OTHER -> [w EXCEPT !.n = @ + 1, !.at = end,
                               !.out = @ \o <<Num(w.n + 1), v[i]>> \o SubSeq(v, i + 1, end - 1) \o <<Blank>>]

IsTiming(l) == l.k \in {"time", "unread"}

VTTStep(w, v) ==
    LET i == w.at
        next == i < Len(v) /\ IsTiming(v[i + 1])
    IN CASE i > Len(v) -> w
         [] i <= Len(v) /\ v[i].k = "blank" -> [w EXCEPT !.at = i + 1]
         [] i <= Len(v) /\ v[i].k = "keyword" -> [w EXCEPT !.at = SkipBlock(v, i + 1)]
         [] i <= Len(v) /\ IsTiming(v[i]) -> VTTCue(w, v, i)
         [] OTHER -> IF next THEN VTTCue(w, v, i + 1) ELSE [w EXCEPT !.at = SkipBlock(v, i + 1)]

\* The header block ends at the first blank line.
FromVTT(v) ==
    FoldLeft(LAMBDA w, n : VTTStep(w, v), [at |-> SkipBlock(v, 1), n |-> 0, out |-> <<>>, refused |-> FALSE],
             [n \in DOMAIN v |-> n])

\* A document with no cue is no WebVTT.
VTTRefused(v) == FromVTT(v).refused \/ FromVTT(v).n = 0

-----------------------------------------------------------------------------
\* What a reader of a document sees: times and text, less the blank lines around it.
NotBlank(lines) == SelectSeq(lines, LAMBDA l : l.k # "blank")
Shown(doc) == LET events == ParseSRT(doc)
              IN [j \in DOMAIN events |-> [s |-> events[j].s, e |-> events[j].e, text |-> NotBlank(TextOf(doc, events[j]))]]

Numbers(doc) == LET events == ParseSRT(doc)
                IN [j \in DOMAIN events |-> IF events[j].index = 0 THEN 0 ELSE doc[events[j].index].n]

KeptOf(s, Keep(_)) == LET js == SelectSeq([j \in DOMAIN s |-> j], Keep) IN [n \in DOMAIN js |-> s[js[n]]]

AllNumbered(doc) == \A j \in DOMAIN ParseSRT(doc) : ParseSRT(doc)[j].index # 0

\* Render rewrites times and nothing else: read again, the file holds the
\* cues the timing keeps, at the times it maps them to and each with its own
\* text (render.go:17-24).
RenderReadsBack(doc, t) ==
    LET events == ParseSRT(doc)
        mapped == MapEvents(events, t, 1)
        was == [j \in DOMAIN events |-> [s |-> mapped[j].s, e |-> mapped[j].e, text |-> NotBlank(TextOf(doc, events[j]))]]
    IN Renders(events, t, 1, MaxStamp) => Shown(Render(doc, t)) = KeptOf(was, LAMBDA j : mapped[j].keep)

\* It does when every cue has a number, and the numbers run from 1 after a drop.
NumberedReadsBack(doc, t) ==
    LET events == ParseSRT(doc)
        out == Render(doc, t)
    IN AllNumbered(doc) =>
          /\ RenderReadsBack(doc, t)
          /\ (\E j \in DOMAIN events : ~MapCue(events[j], t, 1).keep) /\ Renders(events, t, 1, MaxStamp) =>
                Numbers(out) = [j \in DOMAIN ParseSRT(out) |-> j]

\* The same for ASS, whose Format lines may move the fields about.
AssReadsBack(doc, t) ==
    LET events == ParseASS(doc)
        mapped == MapEvents(events, t, AssUnit)
        said(evs) == [j \in DOMAIN evs |-> [s |-> evs[j].s, e |-> evs[j].e, text |-> evs[j].text]]
    IN Renders(events, t, AssUnit, MaxAssStamp) =>
          said(ParseASS(RenderASS(doc, t))) =
          KeptOf([j \in DOMAIN events |-> [s |-> mapped[j].s, e |-> mapped[j].e, text |-> events[j].text]],
                 LAMBDA j : mapped[j].keep)

\* Cleaning keeps each cue's times and the text the rules leave it, drops the
\* cues left empty when told to, and moves no line from one cue to another;
\* again for numbered cues.
CleanReadsBack(doc, removeEmpty) ==
    LET before == Shown(doc)
        clean == [j \in DOMAIN before |-> [before[j] EXCEPT !.text = NotBlank(CleanText(@))]]
    IN AllNumbered(doc) =>
       Shown(Edit(doc, removeEmpty)) = KeptOf(clean, LAMBDA j : ~removeEmpty \/ clean[j].text # <<>>)

\* A WebVTT block is a run of lines with no blank in it; its cues are its timing
\* lines that read, when the first line or the one after an identifier is a
\* timing, up to one that does not read.
BlockFrom(v, i) == Max({0} \cup {j \in 1 .. i : v[j].k = "blank"}) + 1
CueAt(v, i) ==
    LET b == BlockFrom(v, i)
    IN /\ v[i].k = "time" /\ b > SkipBlock(v, 1)
       /\ IsTiming(v[b]) \/ (v[b].k # "keyword" /\ IsTiming(v[b + 1]))
       /\ \A j \in b .. i : v[j].k # "unread"

\* The cues of a WebVTT document that read are the cues of the SRT it is
\* stored as: same order, same times, same payload.
VTTReadsBack(v) ==
    LET cues == SelectSeq([i \in DOMAIN v |-> i], LAMBDA i : CueAt(v, i))
    IN IF VTTRefused(v) THEN ~FromVTT(v).refused => cues = <<>> ELSE
          Shown(FromVTT(v).out) = [n \in DOMAIN cues |-> [s |-> v[cues[n]].s, e |-> v[cues[n]].e,
                                       text |-> SubSeq(v, cues[n] + 1, PayloadEnd(v, cues[n] + 1) - 1)]]

\* One mapping has one form: the canonical form is valid, and maps every cue
\* as the timing it comes from does.
CanonicalMapsAlike(t, ev, unit) ==
    InBounds(t) => /\ Valid(Canonical(t))
                   /\ MapCue(ev, Canonical(t), unit) = MapCue(ev, t, unit)

\* The preview and the file agree: a cue is previewed when the file under the
\* same timing has it in the window, at the file's times.
ShowsAs(preview, file, from, span) ==
    {[s |-> preview[j].s, e |-> preview[j].e] : j \in DOMAIN preview} =
    {[s |-> Max({file[j].s - from, 0}), e |-> Min({file[j].e - from, span})] :
        j \in {j \in DOMAIN file : file[j].e > from /\ file[j].s < from + span}}
PreviewIsFile(doc, t, from, span) ==
    AllNumbered(doc) /\ Renders(ParseSRT(doc), t, 1, MaxStamp) =>
        ShowsAs(RenderVTT(ParseSRT(doc), t, 1, from, span), ParseSRT(Render(doc, t)), from, span)
=============================================================================
