---------------------------- MODULE MCOwnership ----------------------------
(***************************************************************************)
(* Ownership on two sources that report the same two items: "A" through    *)
(* one root with two refs, "B" through one ref.  No pair is configured, so *)
(* coverage stays empty: MCGrades checks it.                               *)
(***************************************************************************)
EXTENDS Ownership

MCPolicy == {"p"}
MCProfile == {"foreign"}
MCPair == {}
MCSub == {}
MCSource == {"A", "B"}
MCRoot == {"ra", "rb"}
MCRef == {1, 2, 3}
MCKey == {"k1", "k2"}
MCPath == {"p1", "p2"}
MCRootOf == [ref \in MCRef |-> IF ref = 3 THEN "rb" ELSE "ra"]
MCSourceOf == [r \in MCRoot |-> IF r = "ra" THEN "A" ELSE "B"]

Item(ref, k, p) == [ref |-> ref, key |-> k, path |-> p, lang |-> "foreign"]

MCScopes == {Whole}

\* Ref 1 is renumbered or loses its video; ref 2 doubles it, shares its file
\* or is unidentified; ref 3 competes for the path and for the key.
Offers1 == {Item(1, "k1", "p1"), Item(1, "k2", "p1"), Item(1, "k1", NoPath)}
Offers2 == {Item(2, "k1", "p2"), Item(2, "k2", "p1"), Item(2, NoKey, NoPath)}
Offers3 == {Item(3, "k1", "p1"), Item(3, "k1", NoPath)}

MCReports == [r \in MCRoot |->
    IF r = "rb" THEN {<<o>> : o \in Offers3}
    ELSE {<<o>> : o \in Offers1}
         \union {<<o[1], o[2]>> : o \in Offers1 \X Offers2}]
MCWants == [p \in MCPolicy |-> [l \in MCProfile |-> {}]]
MCClass == [p \in MCPolicy |-> [q \in MCPair |-> [s \in MCSub |-> "exact"]]]
=============================================================================
