--------------------------- MODULE MCWriteIntents ---------------------------
(***************************************************************************)
(* WriteIntents on a small instance: one video holding a double episode    *)
(* (two items with different languages), two file names, two file contents *)
(* whose subtitles grade differently under two policies.                   *)
(***************************************************************************)
EXTENDS WriteIntents

MCPolicy == {"strict", "lax"}
MCProfile == {"foreign", "native"}
MCPair == {"en"}
MCSub == {"full", "machine"}
MCRun == {1, 2}
MCInst == {"v"}
MCName == {"a", "b"}
MCKey == {"e1", "e2"}
MCHolds == [i \in MCInst |-> MCKey]
MCLangOf == [k \in MCKey |-> IF k = "e1" THEN "foreign" ELSE "native"]
MCContent == {"x", "y"}
MCSubOf == [c \in MCContent |-> IF c = "x" THEN "full" ELSE "machine"]

\* One run delivers a locked file for the whole double episode and replaces
\* "a"; the other an unlocked machine translation for one of them.
MCPlan == [r \in MCRun |->
    IF r = 1
    THEN [content |-> "x", locked |-> TRUE, items |-> MCKey, pair |-> "en",
          removes |-> {<<"a", "y">>}]
    ELSE [content |-> "y", locked |-> TRUE, items |-> {"e2"}, pair |-> "en",
          removes |-> {}]]
MCListings == {[n \in {"a"} |-> "full"]}
MCProbes == {{"machine"}}

\* The lax policy wants the pair for an item in its own language too.
MCWants == [p \in MCPolicy |-> [l \in MCProfile |->
              IF l = "foreign" \/ p = "lax" THEN MCPair ELSE {}]]
\* A machine subtitle is servable by hand under the strict policy and counts
\* as nothing under the lax one.
MCClass == [p \in MCPolicy |-> [q \in MCPair |-> [s \in MCSub |->
              IF s = "full" THEN "exact"
              ELSE IF p = "strict" THEN "manual" ELSE "unrelated"]]]
=============================================================================
