------------------------------ MODULE Subsync ------------------------------
(***************************************************************************)
(* subsync: retiming a subtitle by a reference one.  Four strategies each  *)
(* propose corrected cues, a vote picks one, audio is the fallback.        *)
(*                                                                         *)
(* A cue is its start and end in milliseconds.  Scores and confidences are *)
(* whole numbers, Unit to one.                                             *)
(***************************************************************************)
EXTENDS Integers, Sequences, SequencesExt, FiniteSets, FiniteSetsExt

CONSTANTS
    Unit,             \* a score of 1.0, a multiple of the lengths it divides
    MaxSpans,         \* maxAlignSpans
    MaxBucketRange,   \* maxBucketRangeMs
    MaxSegmentLen,    \* maxSegmentLen's cap
    MaxSplits,        \* maxSplits
    MinSegmentCues,   \* minSegmentCues
    MaxPredecessors,  \* dpMaxPredecessors
    Agreement,        \* correctedCueAgreementMs
    Cluster,          \* voteConfig.ClusterMs
    LargeOffset,      \* voteConfig.LargeOffsetMs
    SimilarDuration,  \* voteConfig.SimilarDurationMs
    Window2,          \* config.Pass2WindowMs
    Slack,            \* the second added to estimateMaxWindowMs
    TopK,             \* config.TopK
    Alike,            \* the pairs of words isCognate takes for one
    FrameRates,       \* knownFramerates, in order
    MinFrameCues,     \* framerateConfig.MinCues
    MinDuration,      \* framerateConfig.MinDuration
    MaxResidual,      \* framerateConfig.MaxResidualMs
    AudioAgreement,   \* audioSyncConfig.AgreementMs
    MinAudioLimit,    \* audioSyncConfig.MinOffsetMs
    MaxAudioLimit     \* audioSyncConfig.MaxOffsetMs

Least(a, b) == IF a < b THEN a ELSE b
Most(a, b) == IF a < b THEN b ELSE a
Gap(a, b) == Most(a, b) - Least(a, b)
Sums(s) == FoldFunction(+, 0, s)
Ascending(S) == [i \in 1..Cardinality(S) |-> CHOOSE x \in S : Cardinality({y \in S : y <= x}) = i]

\* overlapMs
Overlap(a, b) == Most(0, Least(a.end, b.end) - Most(a.start, b.start))
Moved(c, d) == [start |-> c.start + d, end |-> c.end + d]
\* shiftCues, which never goes below zero
Shifted(cues, d) == [i \in DOMAIN cues |->
    [start |-> Most(0, cues[i].start + d), end |-> Most(0, cues[i].end + d)]]

(***************************************************************************)
(* The constant offset: over all offsets the rating is piecewise linear,   *)
(* and each pair of spans changes its slope at four of them.               *)
(***************************************************************************)
SpanScore(r, s) ==
    LET a == r.end - r.start
        b == s.end - s.start
    IN IF a <= 0 \/ b <= 0 THEN 0 ELSE (Unit * Least(a, b)) \div Most(a, b)

\* Faulty Breaks: the slope never comes back after the plateau.
BreaksTwo(r, s) ==
    LET score == SpanScore(r, s)
    IN IF score = 0 THEN <<>>
       ELSE << <<r.start - s.end, score>>, <<r.end - s.end, 0 - score>> >>

Breaks(r, s) ==
    LET score == SpanScore(r, s)
    IN IF score = 0 THEN <<>>
       ELSE << <<r.start - s.end, score>>, <<r.end - s.end, 0 - score>>,
               <<r.start - s.start, 0 - score>>, <<r.end - s.start, score>> >>

Events(ref, inc) ==
    FlattenSeq([i \in DOMAIN ref |-> FlattenSeq([j \in DOMAIN inc |-> Breaks(ref[i], inc[j])])])

\* What either sweep has summed when it gets to x: each slope change so far,
\* for as long as it held
RatingAt(events, x) ==
    Sums([i \in DOMAIN events |-> IF events[i][1] < x THEN events[i][2] * (x - events[i][1]) ELSE 0])

\* Of offsets with their ratings, the first of the best rated, when one has any
BestRated(rated, none) ==
    LET best == Max({r[1] : r \in rated} \cup {0})
    IN IF best = 0 THEN none ELSE Min({r[2] : r \in {r \in rated : r[1] = best}})

\* The merge rates the offsets of the events; the buckets each millisecond, and
\* report the one before the offset they rate.
MergeSweep(events, minOffset) ==
    BestRated({<<RatingAt(events, e[1]), e[1]>> : e \in ToSet(events)}, minOffset)
MergeSort(ref, inc, minOffset) == MergeSweep(Events(ref, inc), minOffset)

BucketSweep(events, minOffset, maxOffset) ==
    BestRated({<<RatingAt(events, o + 1), o>> : o \in minOffset..maxOffset}, 0)
BucketSort(ref, inc, minOffset, maxOffset) ==
    IF maxOffset - minOffset + 1 > MaxBucketRange THEN MergeSort(ref, inc, minOffset)
    ELSE BucketSweep(Events(ref, inc), minOffset, maxOffset)

Capped(spans) == SubSeq(spans, 1, Least(Len(spans), MaxSpans))
MinOffset(ref, inc) == ref[1].start - inc[Len(inc)].end
MaxOffset(ref, inc) == ref[Len(ref)].end - inc[1].start

AlignSpans(ref, inc, low, high) ==
    LET size == high - low + 1
    IN CASE size <= 0 -> 0
         [] size > 0 /\ 4 * Len(inc) * Len(ref) > size \div 10 -> BucketSort(ref, inc, low, high)
         [] OTHER -> MergeSort(ref, inc, low)
AlignCapped(ref, inc) == AlignSpans(ref, inc, MinOffset(ref, inc), MaxOffset(ref, inc))
AlignConstantOffset(reference, incorrect) ==
    IF reference = <<>> \/ incorrect = <<>> THEN 0 ELSE AlignCapped(Capped(reference), Capped(incorrect))

(***************************************************************************)
(* How well corrected cues cover the reference.                            *)
(***************************************************************************)

\* Faulty Covered: what two corrected cues cover counts twice.
CoveredTwice(r, corrected) == Sums([k \in DOMAIN corrected |-> Overlap(r, corrected[k])])

\* overlapTotal's sweep of one reference span: each corrected span adds what
\* no earlier one covered
Covered(r, corrected) ==
    LET Step(s, c) == LET start == Most(c.start, s.upTo)
                          end == Least(c.end, r.end)
                      IN IF end > start THEN [sum |-> s.sum + end - start, upTo |-> end] ELSE s
        From(i) == IF i = 0 THEN <<>> ELSE SubSeq(corrected, i, Len(corrected))
        Till(s, i) == IF i = 0 THEN s ELSE SubSeq(s, 1, i - 1)
        Near(rest) == Till(rest, SelectInSeq(rest, LAMBDA c : c.start >= r.end))
    IN FoldLeft(Step, [sum |-> 0, upTo |-> r.start],
                Near(From(SelectInSeq(corrected, LAMBDA c : c.end > r.start)))).sum
OverlapTotal(corrected, ref) == Sums([i \in DOMAIN ref |-> Covered(ref[i], corrected)])
RefTotal(ref) == Sums([i \in DOMAIN ref |-> ref[i].end - ref[i].start])

\* alignmentRating, Unit to one
Rating(reference, corrected) ==
    IF RefTotal(reference) = 0 THEN 0
    ELSE Least((Unit * OverlapTotal(corrected, reference)) \div RefTotal(reference), Unit)

\* At most one corrected cue is looked at for each reference cue.
ConstantOffsetConfidence(reference, incorrect, d) ==
    LET shifted == Shifted(incorrect, d)
        Lone(r) == LET k == SelectInSeq(shifted, LAMBDA c : c.end > r.start)
                   IN IF k = 0 THEN 0 ELSE Overlap(r, shifted[k])
        total == Sums([i \in DOMAIN reference |-> Lone(reference[i])])
    IN IF incorrect = <<>> \/ RefTotal(reference) = 0 THEN 0
       ELSE (9 * Least((Unit * total) \div RefTotal(reference), Unit)) \div 10

(***************************************************************************)
(* A candidate of the vote, from one of the strategies.                    *)
(***************************************************************************)
Order == <<"crosslang", "framerate", "offset", "split">>
Rank(source) == SelectInSeq(Order, LAMBDA s : s = source)
Candidate(source, kind, shift, cues, conf) ==
    [source |-> source, kind |-> kind, shift |-> shift, cues |-> cues, conf |-> conf,
     ratio |-> <<1, 1>>]
NoCandidate(source, cues) == Candidate(source, "none", 0, cues, 0)

\* syncCues and the offset strategy
OffsetCandidate(reference, incorrect) ==
    LET At(d) == Candidate("offset", "shift", d, IF d = 0 THEN incorrect ELSE Shifted(incorrect, d),
                           ConstantOffsetConfidence(reference, incorrect, d))
    IN At(AlignConstantOffset(reference, incorrect))

(***************************************************************************)
(* Splits: the cues' own best offsets are cut where they change.           *)
(***************************************************************************)
BestCueOffset(cue, ref) ==
    LET Step(b, r) == LET d == r.start - cue.start
                      IN IF SpanScore(r, Moved(cue, d)) > b.score
                         THEN [score |-> SpanScore(r, Moved(cue, d)), at |-> d] ELSE b
    IN FoldLeft(Step, [score |-> 0, at |-> 0], ref).at
PerCueOffsets(ref, incorrect) ==
    [i \in DOMAIN Capped(incorrect) |-> BestCueOffset(incorrect[i], Capped(ref))]

\* Faulty SegmentCost: the variance, however many cues have it.
SegmentVariance(s) ==
    LET n == Len(s)
    IN IF n < 2 THEN 0
       ELSE (Unit * (n * Sums([i \in DOMAIN s |-> s[i] * s[i]]) - Sums(s) * Sums(s))) \div (n * n)

\* The squared deviations from the mean, Unit to one
SegmentCost(s) ==
    LET n == Len(s)
    IN IF n < 2 THEN 0
       ELSE (Unit * (n * Sums([i \in DOMAIN s |-> s[i] * s[i]]) - Sums(s) * Sums(s))) \div n

\* cost[i + 1] and from[i + 1]: the least cost of the first i cues, and where
\* the last segment of that cut starts (0-based)
SplitTable(offsets, penalty) ==
    LET n == Len(offsets)
        Starts(i) == Most(0, i - Least(n, MaxSegmentLen))..(i - 1)
        Totals(t, i) == [j \in Starts(i) |->
            t.cost[j + 1] + SegmentCost(SubSeq(offsets, j + 1, i)) + (IF j = 0 THEN 0 ELSE penalty)]
        Cheapest(totals) == Min({j \in DOMAIN totals : \A k \in DOMAIN totals : totals[j] <= totals[k]})
        Ending(t, totals, best) == [cost |-> Append(t.cost, totals[best]), from |-> Append(t.from, best)]
        Step(t, i) == LET totals == Totals(t, i) IN Ending(t, totals, Cheapest(totals))
    IN FoldLeft(Step, [cost |-> <<0>>, from |-> <<0>>], [i \in 1..n |-> i])

\* The starts of the segments, in order
CutBack(from, n) ==
    LET Back(s, i) == IF s[1] = 0 THEN s ELSE <<from[s[1] + 1]>> \o s
    IN FoldLeft(Back, <<from[n + 1]>>, [i \in 1..n |-> i])
DetectSplits(offsets, penalty) ==
    LET Few(starts) == SubSeq(starts, 1, Least(Len(starts), MaxSplits + 1))
    IN IF offsets = <<>> THEN <<>>
       ELSE Few(CutBack(SplitTable(offsets, penalty).from, Len(offsets)))

\* A short segment joins the one before it; each has its own best offset.
BuildSegments(ref, incorrect, splits) ==
    LET End(i) == IF i < Len(splits) THEN splits[i + 1] ELSE Len(incorrect)
        Step(segs, i) ==
            IF End(i) - splits[i] < MinSegmentCues /\ segs # <<>>
            THEN [segs EXCEPT ![Len(segs)].end = End(i)]
            ELSE Append(segs, [start |-> splits[i], end |-> End(i),
                               offset |-> AlignConstantOffset(ref, SubSeq(incorrect, splits[i] + 1, End(i)))])
    IN FoldLeft(Step, <<>>, [i \in DOMAIN splits |-> i])

AlignSegments(incorrect, segments) ==
    [i \in DOMAIN incorrect |->
        LET k == SelectInSeq(segments, LAMBDA g : g.start < i /\ i <= g.end)
        IN IF k = 0 THEN incorrect[i] ELSE Shifted(<<incorrect[i]>>, segments[k].offset)[1]]

\* In hundredths: 85 less 5 a further segment, never under 40
SegmentConfidence(segments, corrected, ref) ==
    (Rating(ref, corrected) * Most(85 - 5 * (Len(segments) - 1), 40)) \div 100

SplitCandidate(reference, incorrect, penalty) ==
    LET Segmented(segments, corrected) ==
            Candidate("split", "segments", 0, corrected, SegmentConfidence(segments, corrected, reference))
        Cut(segments) == Segmented(segments, AlignSegments(incorrect, segments))
        Of(splits) == IF Len(splits) <= 1 THEN NoCandidate("split", incorrect)
                      ELSE Cut(BuildSegments(reference, incorrect, splits))
    IN Of(DetectSplits(PerCueOffsets(reference, incorrect), penalty))

(***************************************************************************)
(* Framerate: the drift of matching cues grows with time.  A ratio is a    *)
(* pair <<from, to>>, to frames for from.                                  *)
(***************************************************************************)
KnownRatios ==
    FlattenSeq([i \in DOMAIN FrameRates |->
        SelectSeq([j \in DOMAIN FrameRates |-> <<FrameRates[i], FrameRates[j]>>],
                  LAMBDA p : p[1] # p[2])])
ScaleCues(cues, ratio) == [i \in DOMAIN cues |->
    [start |-> (cues[i].start * ratio[1]) \div ratio[2], end |-> (cues[i].end * ratio[1]) \div ratio[2]]]

\* Twice a cue's middle, against twice the drift there
MeasureDrifts(reference, incorrect) ==
    LET n == Least(Len(reference), Len(incorrect))
        samples == Least(10, n \div 2)
        Mid(c) == c.start + c.end
        At(i) == 1 + (i - 1) * (n \div samples)
    IN IF samples < 3 THEN <<>>
       ELSE [i \in 1..samples |-> [x |-> Mid(incorrect[At(i)]),
                                   y |-> Mid(incorrect[At(i)]) - Mid(reference[At(i)])]]

\* n squared times the variances and the covariance: the slope is xy / xx and
\* r2 is xy * xy / (xx * yy)
LinearRegression(points) ==
    LET n == Len(points)
        Cross(f, g) == n * Sums([i \in DOMAIN points |-> points[i][f] * points[i][g]])
                        - Sums([i \in DOMAIN points |-> points[i][f]])
                          * Sums([i \in DOMAIN points |-> points[i][g]])
    IN [xx |-> Cross("x", "x"), xy |-> Cross("x", "y"), yy |-> Cross("y", "y")]
R2(l) == CASE l.xx = 0 -> 0 [] l.yy = 0 -> Unit [] OTHER -> (Unit * ((l.xy * l.xy) \div l.yy)) \div l.xx
Observed(l) == <<l.xx, l.xx + l.xy>>

\* Within a thousandth; with the video's own rate known (0: not), its pairs only
CollectRatioCandidates(observed, fps) ==
    SelectSeq(KnownRatios, LAMBDA p :
        /\ fps = 0 \/ fps \in {p[1], p[2]}
        /\ 1000 * Gap(observed[2] * p[1], p[2] * observed[1]) < p[2] * observed[1])

AlignmentScore(ref, inc, d) ==
    Sums([i \in DOMAIN ref |-> Sums([k \in DOMAIN inc |-> Overlap(ref[i], Moved(inc[k], d))])])
BestRatioCandidate(candidates, incorrect, ref) ==
    LET Aligned(scaled) == AlignmentScore(ref, scaled, AlignConstantOffset(ref, scaled))
        Score(p) == Aligned(ScaleCues(incorrect, p))
        Step(b, p) == IF b = <<>> \/ Score(p) > Score(b) THEN p ELSE b
    IN FoldLeft(Step, <<>>, candidates)

VerifyFramerateCorrection(reference, corrected) ==
    LET n == Least(Len(reference), Len(corrected))
        Within(d) == \A i \in (n \div 10) + 1..n - (n \div 10) :
                         Gap(reference[i].start, corrected[i].start + d) <= MaxResidual
    IN Within(AlignConstantOffset(reference, corrected))

\* searched is the ratio the golden-section search ends at, <<1, 1>> for one
\* next to it; conf is capped by how the ratio was found
AtRatio(reference, incorrect, line, known, fps, searched) ==
    LET Corrected(ratio, cap) ==
            [Candidate("framerate", "framerate", 0, ScaleCues(incorrect, ratio), Least(R2(line), cap))
               EXCEPT !.ratio = ratio]
    IN IF known # <<>> /\ VerifyFramerateCorrection(reference, ScaleCues(incorrect, known))
       THEN Corrected(known, (Unit * (IF fps > 0 THEN 98 ELSE 95)) \div 100)
       ELSE IF searched = <<1, 1>> THEN NoCandidate("framerate", <<>>)
            ELSE Corrected(searched, (Unit * 85) \div 100)

CorrectFramerate(reference, incorrect, fps, searched) ==
    LET fewest == Least(Len(reference), Len(incorrect))
        most == Most(Len(reference), Len(incorrect))
        On(line) == IF 5 * R2(line) < 4 * Unit THEN NoCandidate("framerate", <<>>)
                    ELSE AtRatio(reference, incorrect, line,
                                 BestRatioCandidate(CollectRatioCandidates(Observed(line), fps), incorrect, reference),
                                 fps, searched)
        Over(drifts) == IF drifts = <<>> THEN NoCandidate("framerate", <<>>) ELSE On(LinearRegression(drifts))
    IN IF \/ fewest < MinFrameCues
          \/ 4 * (most - fewest) > most
          \/ Last(reference).end < MinDuration \/ Last(incorrect).end < MinDuration
       THEN NoCandidate("framerate", <<>>) ELSE Over(MeasureDrifts(reference, incorrect))

(***************************************************************************)
(* Crosslang: cues of two languages meet by numbers, names and cognates.   *)
(***************************************************************************)
Strong(a) == a.numbers # <<>> \/ a.nouns # <<>> \/ a.cognates # <<>>

\* countShared and countCognates: each word of b serves one of a's
CountMatches(a, b, alike) ==
    LET Step(left, w) == LET j == SelectInSeq(left, LAMBDA v : v = w \/ <<w, v>> \in alike)
                         IN IF j = 0 THEN left ELSE RemoveAt(left, j)
    IN Len(b) - Len(FoldLeft(Step, b, a))

FeatureScore(a, b, weight, penalty, alike) ==
    CASE a # <<>> /\ b # <<>> ->
            <<(weight * Unit * CountMatches(a, b, alike)) \div Most(Len(a), Len(b)), weight>>
      [] a # <<>> \/ b # <<>> -> <<0, penalty>>
      [] OTHER -> <<0, 0>>
AnchorMatchScore(a, b) ==
    LET f == << FeatureScore(a.numbers, b.numbers, 40, 20, {}),
                FeatureScore(a.nouns, b.nouns, 35, 15, {}),
                FeatureScore(a.cognates, b.cognates, 20, 0, Alike),
                <<IF a.punct \in {"?", "!"} /\ a.punct = b.punct THEN 5 * Unit ELSE 0, 5>> >>
    IN Sums([i \in DOMAIN f |-> f[i][1]]) \div Sums([i \in DOMAIN f |-> f[i][2]])

StrongRefs(ref) ==
    SortSeq(SelectSeq([j \in DOMAIN ref |-> j], LAMBDA j : Strong(ref[j].anchor)),
            LAMBDA i, j : ref[i].start < ref[j].start)

\* The search for the widest window takes it to be around the cue's own start.
\* InWindow is the distance in a window, Unit to its edge, past Unit outside:
\* of two places in the whole, or around an offset.
InWindow(window, a, b) ==
    IF window.how = "place" THEN 10 * Gap((Unit * b) \div window.ref, (Unit * a) \div window.inc)
    ELSE (Unit * Gap(b, a + window.by)) \div Window2
EstimateMaxWindow(ref, refs, at, window) ==
    LET Widest(last) ==
            LET from[lo \in 0..last, hi \in 0..last] ==
                    LET mid == (lo + hi + 1) \div 2
                    IN CASE lo >= hi -> lo
                         [] lo < hi /\ InWindow(window, at, at + mid) <= Unit -> from[mid, hi]
                         [] OTHER -> from[lo, mid - 1]
            IN from[0, last]
        Wider(lo) == lo + lo \div 10 + Slack
    IN IF refs = <<>> THEN 0 ELSE Wider(Widest(Most(ref[refs[Len(refs)]].start, 1)))

Scores(cue, ref, window) ==
    AnchorMatchScore(cue.anchor, ref.anchor) * 20 >= Unit /\ InWindow(window, cue.start, ref.start) <= Unit
ScoredCandidates(inc, ref, i, window) ==
    LET Pair(j) == [inc |-> i, ref |-> j, offset |-> ref[j].start - inc[i].start,
                    score |-> (9 * AnchorMatchScore(inc[i].anchor, ref[j].anchor)
                               + Unit - InWindow(window, inc[i].start, ref[j].start)) \div 10]
        Near(refs, span) == SelectSeq(refs, LAMBDA j : /\ Gap(ref[j].start, inc[i].start) <= span
                                                       /\ Scores(inc[i], ref[j], window))
        Scored(near) == SortSeq([k \in DOMAIN near |-> Pair(near[k])], LAMBDA p, q : p.score > q.score)
        Top(best) == SubSeq(best, 1, Least(Len(best), TopK))
        Among(refs) == Top(Scored(Near(refs, EstimateMaxWindow(ref, refs, inc[i].start, window))))
    IN Among(StrongRefs(ref))
GatherCandidates(inc, ref, window) ==
    FlattenSeq([i \in DOMAIN inc |->
        IF Strong(inc[i].anchor) THEN ScoredCandidates(inc, ref, i, window) ELSE <<>>])

WeightedMedianOffset(pairs) ==
    LET Median(sorted) ==
            LET Upto(k) == Sums([i \in 1..k |-> sorted[i].score])
            IN sorted[CHOOSE k \in DOMAIN sorted :
                         /\ 2 * Upto(k) >= Upto(Len(sorted))
                         /\ \A j \in 1..k - 1 : 2 * Upto(j) < Upto(Len(sorted))].offset
    IN Median(SortSeq(pairs, LAMBDA p, q : p.offset < q.offset))

\* Faulty Follows: two cues of the subtitle may share one of the reference.
FollowsLoosely(p, q) == p.inc < q.inc /\ p.ref <= q.ref

Follows(p, q) == p.inc < q.inc /\ p.ref < q.ref

\* The heaviest chain ending at each pair, of the pairs not too far before it;
\* the nearest before it wins a tie
ComputeDP(pairs) ==
    LET Step(t, i) ==
            LET before == {j \in Most(1, i - MaxPredecessors)..i - 1 : Follows(pairs[j], pairs[i])}
                heaviest == {j \in before : \A k \in before : t.dp[k] <= t.dp[j]}
                from == IF heaviest = {} THEN 0 ELSE Max(heaviest)
            IN [dp |-> Append(t.dp, pairs[i].score + (IF from = 0 THEN 0 ELSE t.dp[from])),
                parent |-> Append(t.parent, from)]
    IN FoldLeft(Step, [dp |-> <<>>, parent |-> <<>>], [i \in DOMAIN pairs |-> i])

HeaviestPath(pairs, t) ==
    LET end == Min({i \in DOMAIN pairs : \A k \in DOMAIN pairs : t.dp[k] <= t.dp[i]})
        Back(path, i) == IF t.parent[path[1]] = 0 THEN path ELSE <<t.parent[path[1]]>> \o path
        Through(path) == [k \in DOMAIN path |-> pairs[path[k]]]
    IN IF pairs = <<>> THEN <<>> ELSE Through(FoldLeft(Back, <<end>>, [i \in DOMAIN pairs |-> i]))
DPAlign(unsorted) ==
    LET Of(pairs) == HeaviestPath(pairs, ComputeDP(pairs))
    IN Of(SortSeq(unsorted, LAMBDA p, q : p.inc < q.inc \/ (p.inc = q.inc /\ p.ref < q.ref)))

ComputeConfidence(aligned, median) ==
    LET agree == SelectSeq(aligned, LAMBDA p : Gap(p.offset, median) <= Agreement)
        Weight(s) == Sums([i \in DOMAIN s |-> s[i].score])
        base == (88 * Weight(agree) * Unit) \div (Weight(aligned) * 100)
    IN CASE Weight(aligned) = 0 -> 0
         [] Len(agree) >= 20 -> Least(base + (Unit * 5) \div 100, (Unit * 92) \div 100)
         [] Len(agree) < 5 -> base \div 2
         [] OTHER -> base

\* Align: a first pass anywhere, its cues met by their place in the whole, and
\* a second around the first one's offset.
Met(incorrect, aligned, median) ==
    LET conf == ComputeConfidence(aligned, median)
    IN IF conf * 10 < 3 * Unit THEN NoCandidate("crosslang", incorrect)
       ELSE Candidate("crosslang", "shift", median,
                      [i \in DOMAIN incorrect |-> Moved(incorrect[i], median)], conf)
AlongPath(incorrect, aligned) ==
    IF Len(aligned) < 3 THEN NoCandidate("crosslang", incorrect)
    ELSE Met(incorrect, aligned, WeightedMedianOffset(aligned))

Around(reference, incorrect, rough) ==
    GatherCandidates(incorrect, reference, [how |-> "offset", by |-> rough])
SecondPass(first, second) == DPAlign(IF Len(second) < Len(first) \div 3 THEN first ELSE second)
Refined(reference, incorrect, first, path) ==
    IF Len(path) < 3 THEN NoCandidate("crosslang", incorrect)
    ELSE AlongPath(incorrect, SecondPass(first, Around(reference, incorrect, WeightedMedianOffset(path))))

Anywhere(reference, incorrect) ==
    GatherCandidates(incorrect, reference,
                     [how |-> "place", ref |-> Last(reference).end, inc |-> Last(incorrect).end])
FirstPass(reference, incorrect, first) ==
    IF Len(first) < 3 THEN NoCandidate("crosslang", incorrect)
    ELSE Refined(reference, incorrect, first, DPAlign(first))

CrossLangAlign(reference, incorrect) ==
    IF \/ Len(reference) < 5 \/ Len(incorrect) < 5
       \/ Len(SelectSeq(incorrect, LAMBDA c : Strong(c.anchor))) < 3
       \/ Last(reference).end <= 0 \/ Last(incorrect).end <= 0
    THEN NoCandidate("crosslang", incorrect)
    ELSE FirstPass(reference, incorrect, Anywhere(reference, incorrect))

(***************************************************************************)
(* The vote: candidates that agree cue by cue stand together.              *)
(***************************************************************************)

\* Faulty IsValidCandidate: as many cues as it likes.
AnyLength(c, want) == \A i \in 2..Len(c.cues) : c.cues[i - 1].start <= c.cues[i].start

IsValidCandidate(c, want) ==
    /\ c.cues # <<>> /\ Len(c.cues) = want
    /\ \A i \in 2..Len(c.cues) : c.cues[i - 1].start <= c.cues[i].start

CorrectedCuesAgree(a, b) ==
    /\ Len(a) = Len(b)
    /\ \A i \in DOMAIN a : /\ Gap(a[i].start, b[i].start) <= Agreement
                           /\ Gap(a[i].end, b[i].end) <= Agreement
CandidatesAgree(a, b) ==
    /\ ~ (a.kind = "shift" /\ b.kind = "shift" /\ Gap(a.shift, b.shift) > Cluster)
    /\ CorrectedCuesAgree(a.cues, b.cues)

\* Faulty ClusterAccepts: one member in agreement is enough.
AcceptsByOne(members, c) == \E i \in DOMAIN members : CandidatesAgree(members[i], c)

ClusterAccepts(members, c) == \A i \in DOMAIN members : CandidatesAgree(members[i], c)

\* Faulty Canonical: the order they came in.
AsTheyCame(candidates) == candidates

Canonical(candidates) == SortSeq(candidates, LAMBDA a, b : Rank(a.source) < Rank(b.source))

\* Each joins the first cluster that takes it.
ClusterCandidates(candidates) ==
    LET Step(clusters, c) ==
            LET j == SelectInSeq(clusters, LAMBDA m : ClusterAccepts(m, c))
            IN IF j = 0 THEN Append(clusters, <<c>>) ELSE [clusters EXCEPT ![j] = Append(@, c)]
    IN FoldLeft(Step, <<>>, Canonical(candidates))

PlausibleCandidate(c, similar) ==
    ~ similar \/ c.kind # "shift" \/ Gap(c.shift, 0) <= LargeOffset

\* The first best-rated member, of the plausible ones where there are any
ScoreCluster(members, reference, similar) ==
    LET Heard(plausible) == IF plausible = <<>> THEN members ELSE plausible
        Best(heard, rate) ==
            LET best == Min({i \in DOMAIN heard : \A k \in DOMAIN heard : rate[k] <= rate[i]})
            IN [best |-> heard[best], rating |-> rate[best], size |-> Len(members)]
        Rated(heard) == Best(heard, [i \in DOMAIN heard |-> Rating(reference, heard[i].cues)])
    IN Rated(Heard(SelectSeq(members, LAMBDA c : PlausibleCandidate(c, similar))))
Outranks(s, o) == IF s.size # o.size THEN s.size > o.size ELSE s.rating > o.rating

Similar(reference, incorrect) == Gap(Last(reference).end, Last(incorrect).end) < SimilarDuration

\* pickWinner: the first cluster none outranks
Winning(candidates, reference, incorrect) ==
    LET First(score) == CHOOSE i \in DOMAIN score :
                            /\ \A k \in DOMAIN score : ~ Outranks(score[k], score[i])
                            /\ \A k \in 1..i - 1 : Outranks(score[i], score[k])
        Pick(clusters, score, i) == [cluster |-> clusters[i], winner |-> score[i].best]
        Scored(clusters, score) == Pick(clusters, score, First(score))
        Among(clusters) ==
            Scored(clusters, [i \in DOMAIN clusters |->
                                 ScoreCluster(clusters[i], reference, Similar(reference, incorrect))])
    IN Among(ClusterCandidates(candidates))
VoteOnCandidates(candidates, reference, incorrect) ==
    IF Len(candidates) = 1 THEN candidates[1] ELSE Winning(candidates, reference, incorrect).winner

\* referenceSync, of what the strategies answered
Live(candidates, incorrect) ==
    SelectSeq(candidates, LAMBDA c : c.conf > 0 /\ IsValidCandidate(c, Len(incorrect)))
ReferenceSync(candidates, reference, incorrect) ==
    LET Of(live) == IF live = <<>> THEN NoCandidate("none", incorrect)
                    ELSE VoteOnCandidates(live, reference, incorrect)
    IN Of(Live(candidates, incorrect))

\* The four strategies, each on its own; how they end is not their order here
Strategies(reference, incorrect, opts) ==
    <<CrossLangAlign(reference, incorrect), CorrectFramerate(reference, incorrect, opts.fps, <<1, 1>>),
      OffsetCandidate(reference, incorrect), SplitCandidate(reference, incorrect, opts.penalty)>>

(***************************************************************************)
(* Audio: two passes over the sound, the precise one believed where the    *)
(* recall-biased one is near it.                                           *)
(***************************************************************************)
AudioSync(incorrect, safe, precise, duration) ==
    LET corr == IF Gap(safe.offset, precise.offset) <= AudioAgreement THEN precise ELSE safe
        limit == Least(Most(duration \div 10, MinAudioLimit), MaxAudioLimit)
        conf == (corr.peak * 9) \div 10
    IN CASE Len(incorrect) < 5 \/ duration = 0 -> NoCandidate("audio", incorrect)
         [] corr.offset = 0 -> Candidate("audio", "none", 0, incorrect, conf)
         [] Gap(corr.offset, 0) > limit -> NoCandidate("audio", incorrect)
         [] OTHER -> Candidate("audio", "none", corr.offset, Shifted(incorrect, corr.offset), conf)

\* SyncWithOptions: audio is asked when the reference's winner falls short
SyncWithOptions(candidates, audio, reference, incorrect, opts) ==
    LET least == IF opts.min <= 0 THEN Unit \div 2 ELSE opts.min
        Filled(best) == IF best.conf < least /\ best.cues = <<>> THEN [best EXCEPT !.cues = incorrect] ELSE best
        Best(byReference) ==
            IF byReference.conf >= least THEN byReference
            ELSE Filled(IF opts.audio /\ audio.conf > byReference.conf THEN audio ELSE byReference)
    IN CASE incorrect = <<>> -> NoCandidate("none", incorrect)
         [] reference = <<>> -> Best(NoCandidate("none", <<>>))
         [] OTHER -> Best(ReferenceSync(candidates, reference, incorrect))

(***************************************************************************)
(* What the searches and the vote promise.                                 *)
(***************************************************************************)

\* Spans in order, and none within another
InOrder(spans) ==
    /\ \A i \in DOMAIN spans : spans[i].start < spans[i].end
    /\ \A i \in 2..Len(spans) : /\ spans[i - 1].start <= spans[i].start
                                /\ spans[i - 1].end <= spans[i].end

\* The overlap at an offset, each pair by how alike its lengths are
Weighted(ref, inc, d) ==
    Sums([i \in DOMAIN ref |-> Sums([j \in DOMAIN inc |->
        SpanScore(ref[i], inc[j]) * Overlap(ref[i], Moved(inc[j], d))])])

\* The sweeps over the slopes find the offset of the greatest overlap: the
\* merge exactly, the buckets one millisecond short of it, so that the two
\* never differ by more.
PeakIsBest(ref, inc) ==
    LET low == MinOffset(ref, inc)
        high == MaxOffset(ref, inc)
        Best(merge) ==
            /\ \A d \in low..high : Weighted(ref, inc, d) <= Weighted(ref, inc, merge)
            /\ BucketSort(ref, inc, low, high) =
                   IF high - low < MaxBucketRange THEN merge - 1 ELSE merge
            /\ AlignConstantOffset(ref, inc) \in {merge - 1, merge}
    IN InOrder(ref) /\ InOrder(inc) => Best(MergeSort(ref, inc, low))

\* align_merge.go:34: the two "differ by up to 1ms", for any spans in order of
\* their starts.
\* The code does not keep it: see the README's disagreements.
SweepsAgree(ref, inc) ==
    LET low == MinOffset(ref, inc)
    IN Gap(MergeSort(ref, inc, low), BucketSort(ref, inc, low, MaxOffset(ref, inc))) <= 1

\* The overlap counts each instant of the reference once, however many
\* corrected cues cover it.
OverlapCountsOnce(ref, inc) ==
    OverlapTotal(inc, ref) =
        Sums([i \in DOMAIN ref |-> Cardinality({t \in ref[i].start..ref[i].end - 1 :
                                     \E k \in DOMAIN inc : inc[k].start <= t /\ t < inc[k].end})])

\* No other cut into segments costs less: the squared distances from each
\* segment's mean, and the penalty for each segment but the first.
Scatter(s) ==
    LET n == Len(s)
    IN Sums([i \in DOMAIN s |-> (Unit \div n) * (n * s[i] - Sums(s)) * (n * s[i] - Sums(s))]) \div n
CutCost(offsets, starts, penalty) ==
    LET Cost(cut) == Sums([i \in 1..Len(cut) - 1 |-> Scatter(SubSeq(offsets, cut[i] + 1, cut[i + 1]))])
    IN Cost(Ascending(starts \cup {Len(offsets)})) + penalty * (Cardinality(starts) - 1)
SplitsAreBest(offsets, penalty) ==
    LET cost == CutCost(offsets, ToSet(DetectSplits(offsets, penalty)), penalty)
    IN \A starts \in {{0} \cup s : s \in SUBSET (1..Len(offsets) - 1)} :
           cost <= CutCost(offsets, starts, penalty)

\* The path through the matches goes forward in both subtitles, and none that
\* does weighs more.
Chains(pairs) == {s \in SUBSET ToSet(pairs) : \A p, q \in s : p = q \/ Follows(p, q) \/ Follows(q, p)}
Heavy(s) == FoldSet(LAMBDA p, t : p.score + t, 0, s)
PathIsHeaviest(pairs) ==
    LET Heaviest(path) ==
            /\ \A i \in 2..Len(path) : path[i - 1].inc < path[i].inc /\ path[i - 1].ref < path[i].ref
            /\ \A s \in Chains(pairs) : Heavy(s) <= Heavy(ToSet(path))
    IN Heaviest(DPAlign(pairs))

\* Whatever order the strategies end in, the vote is the same, and the
\* winner's cluster agrees pair by pair.
VoteIsSettled(candidates, reference, incorrect) ==
    LET Answer(order) == ReferenceSync([i \in DOMAIN candidates |-> candidates[order[i]]], reference, incorrect)
        Agreed(cluster) == \A i, j \in DOMAIN cluster : CorrectedCuesAgree(cluster[i].cues, cluster[j].cues)
        Settled(live) == Len(live) > 1 => Agreed(Winning(live, reference, incorrect).cluster)
    IN /\ Cardinality({Answer(p) : p \in Permutations(DOMAIN candidates)}) = 1
       /\ Settled(Live(candidates, incorrect))

\* The answer keeps the subtitle's cues, one for one, whatever the strategies
\* made of them.
CuesAreKept(candidates, audio, reference, incorrect, opts) ==
    Len(SyncWithOptions(candidates, audio, reference, incorrect, opts).cues) = Len(incorrect)

\* A subtitle that is only late, with or without words to meet by, is put back:
\* every cue within the millisecond by which the buckets fall short.
DelayIsUndone(reference, late, opts) ==
    LET Answered(r) == \A i \in DOMAIN reference :
                           /\ Gap(r.cues[i].start, reference[i].start) <= 1
                           /\ Gap(r.cues[i].end, reference[i].end) <= 1
    IN Answered(SyncWithOptions(Strategies(reference, late, opts), NoCandidate("audio", late), reference, late, opts))

\* scoredCandidatesForCue's comment: "scores every in-window reference anchor".
\* The code does not keep it: see the README's disagreements.
WindowIsScored(inc, ref, window) ==
    \A i \in DOMAIN inc : Strong(inc[i].anchor) =>
        LET due == {j \in DOMAIN ref : Strong(ref[j].anchor) /\ Scores(inc[i], ref[j], window)}
        IN Cardinality(due) <= TopK =>
               due = {p.ref : p \in ToSet(ScoredCandidates(inc, ref, i, window))}

\* framerate_detect.go:105: "ratio = slope + 1", so a subtitle that runs at a
\* known ratio of the reference is found at it.
\* The code does not keep it: see the README's disagreements.
RatioIsFound(reference, ratio) ==
    LET played == ScaleCues(reference, <<ratio[2], ratio[1]>>)
        found == CorrectFramerate(reference, played, 0, <<1, 1>>)
    IN found.conf > 0 /\ found.ratio = ratio
=============================================================================
