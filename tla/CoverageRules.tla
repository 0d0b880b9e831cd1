--------------------------- MODULE CoverageRules ---------------------------
(***************************************************************************)
(* internal/statedb/coverage.go as operators: how one configured pair of an *)
(* item (a target language and a subtitle variant) is graded against the   *)
(* subtitles its video has.  Both store modules use them, one for the      *)
(* writes that change the subtitles, one for the writes that change who    *)
(* owns the video.                                                         *)
(*                                                                         *)
(* A subtitle is abstracted to what grading tells apart: Sub stands for a  *)
(* tag with its flags and codec.  Class[p][q][s] is the grade of subtitle  *)
(* s for the pair q under the policy p; a subtitle whose flags do not      *)
(* serve the pair's variant, or whose codec the policy ignores, grades     *)
(* "unrelated", because judge skips it the same way.  A Profile is the     *)
(* language facts of a sighting (original and audio languages), and        *)
(* Wants[p][x] the pairs policy p configures for it.                       *)
(***************************************************************************)
CONSTANTS Policy, Profile, Pair, Sub, Wants, Class

Grades == {"exact", "substitute", "manual", "unrelated"}
Coverages == {"missing", "substitute", "exact"}

ASSUME WantsAssumption == Wants \in [Policy -> [Profile -> SUBSET Pair]]
ASSUME ClassAssumption == Class \in [Policy -> [Pair -> [Sub -> Grades]]]

Best(p, q, ev, grade) == \E s \in ev : Class[p][q][s] = grade

\* judge: the best grade of the evidence; a "manual" subtitle is servable
\* by hand and leaves the pair missing.
Judge(p, q, ev) ==
    IF Best(p, q, ev, "exact") THEN "exact"
    ELSE IF Best(p, q, ev, "substitute") THEN "substitute" ELSE "missing"

Servable(p, q, ev) == \E s \in ev : Class[p][q][s] # "unrelated"

\* The coverage row of an item with language facts x: one entry for each
\* configured pair.  No pair configured is the empty row, which the code
\* deletes.
CoverageRow(p, x, ev) == [q \in Wants[p][x] |-> Judge(p, q, ev)]

\* Faulty KeptLocks: the locks of pairs no longer configured stay.
KeptUnconfigured(p, x, ev, locked, sweep) ==
    {q \in locked : sweep => Servable(p, q, ev)}

\* judgeLocks: the locks of an item that a recompute keeps.  With sweep (an
\* inventory write over a complete inventory) a lock nothing serves goes.
KeptLocks(p, x, ev, locked, sweep) ==
    {q \in locked : q \in Wants[p][x] /\ (sweep => Servable(p, q, ev))}
=============================================================================
