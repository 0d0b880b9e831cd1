----------------------------- MODULE MCGrades -----------------------------
(***************************************************************************)
(* Ownership with coverage and locks: one configured language, which       *)
(* either policy or a sighting's own language facts switch off, and passes *)
(* that are change batches.                                                *)
(***************************************************************************)
EXTENDS Ownership

MCPolicy == {"p", "q"}
MCProfile == {"foreign", "native"}
MCPair == {"en"}
MCSub == {"s"}
MCSource == {"A", "B"}
MCRoot == {"ra", "rb"}
MCRef == {1, 2, 3}
MCKey == {"k1", "k2"}
MCPath == {"p1", "p2"}
MCRootOf == [ref \in MCRef |-> IF ref = 3 THEN "rb" ELSE "ra"]
MCSourceOf == [r \in MCRoot |-> IF r = "ra" THEN "A" ELSE "B"]
MCScopes == {Batch({"ra", "rb"})}
MCEvidences == SUBSET MCSub

Item(ref, k, p, l) == [ref |-> ref, key |-> k, path |-> p, lang |-> l]

\* Ref 1 changes its language or its number; ref 2 doubles it; ref 3 claims
\* the same path or waits as an heir of the key.
MCReports == [r \in MCRoot |->
    IF r = "ra"
    THEN {<<Item(1, "k1", "p1", "foreign")>>, <<Item(1, "k1", "p1", "native")>>,
          <<Item(1, "k2", "p1", "foreign")>>,
          <<Item(1, "k1", "p1", "foreign"), Item(2, "k1", "p2", "foreign")>>}
    ELSE {<<Item(3, "k1", "p1", "foreign")>>, <<Item(3, "k1", NoPath, "native")>>}]

\* Only policy "p" wants English, and only of a video in a foreign language.
MCWants == [p \in MCPolicy |-> [l \in MCProfile |->
    IF p = "p" /\ l = "foreign" THEN {"en"} ELSE {}]]
MCClass == [p \in MCPolicy |-> [q \in MCPair |-> [s \in MCSub |-> "exact"]]]

---------------------------------------------------------------------------
(* A repeated report                                                       *)

VARIABLES
    last,       \* that report, <<>> when what it decided on changed since
    repeated    \* the last step repeated it

claims == <<roots, sightings, overlaps, holdings, graded>>

RetriedInit == Init /\ last = <<>> /\ repeated = FALSE

\* No other root of r's source provides, at a video, a key of the report.
NoOtherRoot(r, report) ==
    \A n \in DOMAIN report : LET k == report[n].key IN
        k \in DOMAIN items /\ items[k].inst # NoInst =>
            LET ref == items[k].ref IN SourceOfRef(ref) = SourceOf[r] => RootOf[ref] = r

\* An ownerless video keeps the records of the pass that lost it.  Where one of
\* an item the report names still names a ref of the report, either no other
\* offer claims the item, or that ref reports it at the video, as it did.
NoStaleRecord(report) ==
    \A m, n \in DOMAIN report : LET k == report[m].key IN
        /\ m # n
        /\ k \in DOMAIN items /\ items[k].ref = report[n].ref
        /\ items[k].inst # NoInst
        => LET video == instances[items[k].inst] IN
           \/ video.owner # NoOwner
           \/ report[n].key = k /\ report[n].path = video.path

\* A report is remembered that is its pass's first of the root and finds
\* neither, or repeats the one remembered.
RetriedNext ==
    \/ \E r \in Root : \E report \in Reports[r] :
          /\ ObserveItems(r, report)
          /\ repeated' = (last = <<r, report>>)
          /\ last' = IF \/ repeated'
                        \/ r \notin seenRoots /\ NoOtherRoot(r, report) /\ NoStaleRecord(report)
                     THEN <<r, report>> ELSE <<>>
    \/ /\ Otherwise
       /\ repeated' = FALSE
       /\ last' = IF UNCHANGED claims THEN last ELSE <<>>

RetriedSpec == RetriedInit /\ [][RetriedNext]_<<vars, last, repeated>>

\* A report repeated, in the same pass or a later one, gives each video and
\* each sighting what the first gave it, even when it names one item twice:
\* "nothing alternates over passes" (attachOrOverlap), of a report that no other
\* root of the source contends with and that meets no record left from before
\* the source was removed.  Which of two sightings with no video provides an
\* item can still change.
RetryChangesNothing ==
    [][repeated' => UNCHANGED <<roots, sightings, overlaps, instances, next, evidence>>]_<<vars, last, repeated>>
=============================================================================
