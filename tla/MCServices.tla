----------------------------- MODULE MCServices -----------------------------
(***************************************************************************)
(* Services with two or three of everything: two callers of one AniDB      *)
(* series, which lacks what the second asks for, and a store that begins   *)
(* empty or with three items.                                              *)
(***************************************************************************)
EXTENDS Services, TLC

MCKeyOf == [f \in Refs |-> IF f = "a" THEN 1 ELSE 2]
MCHighest == {-1, 0, 1, 3}      \* the last is MaxInt

Episode(n) == [tvdb |-> 1, season |-> 1, episode |-> n]
Part(series, offset) ==
    [tvdb |-> 1, season |-> 1, absolute |-> FALSE, id |-> series, offset |-> offset, mappings |-> <<>>]
MCAsked == [c \in Callers |-> IF c = "c" THEN Episode(3) ELSE Episode(4)]
MCAnimeList == <<Part(11, 0), Part(12, 2)>>
MCHas == (11 :> {1}) @@ (12 :> {1, 3})

MCInit == Init /\ Cardinality(DOMAIN items) \in IF part = "store" THEN {0, 3} ELSE {0}
MCSpec == MCInit /\ [][Next]_allVars /\ Fairness
=============================================================================
