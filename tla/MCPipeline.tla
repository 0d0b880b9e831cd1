----------------------------- MODULE MCPipeline -----------------------------
(***************************************************************************)
(* Pipeline on one video with one item, two file names and two contents:   *)
(* one run, whose delivery replaces "a"; adoption, retiming and deletion   *)
(* reach both names, so the delivery lands on a new or a managed file.     *)
(***************************************************************************)
EXTENDS Pipeline

MCPolicy == {"p"}
MCProfile == {"foreign"}
MCPair == {"en"}
MCSub == {"full", "machine"}
MCInst == {"v"}
MCName == {"a", "b"}
MCKey == {"e1"}
MCHolds == [i \in MCInst |-> MCKey]
MCLangOf == [k \in MCKey |-> "foreign"]
MCContent == {"x", "y"}
MCSubOf == [c \in MCContent |-> IF c = "x" THEN "full" ELSE "machine"]
MCRun == {1}
MCPlan == [r \in MCRun |->
    [content |-> "y", locked |-> TRUE, items |-> MCKey, pair |-> "en",
     removes |-> {<<"a", "x">>}]]
\* No pair is configured: coverage and locks are MCWriteIntents' subject.
MCWants == [p \in MCPolicy |-> [l \in MCProfile |-> {}]]
MCClass == [p \in MCPolicy |-> [q \in MCPair |-> [s \in MCSub |->
              IF s = "full" THEN "exact" ELSE "manual"]]]
=============================================================================
