---------------------------- MODULE MCJobRecords ----------------------------
(***************************************************************************)
(* JobRecords with up to four jobs: two under one key of one user, one     *)
(* more of that user, one of another.  A cfg picks those it wants in Id.   *)
(***************************************************************************)
EXTENDS JobRecords

MCAsks == [
    j1 |-> [owner |-> "u1", key |-> "k"],
    j2 |-> [owner |-> "u1", key |-> "k"],
    j3 |-> [owner |-> "u1", key |-> "none"],
    j4 |-> [owner |-> "u2", key |-> "none"]]
=============================================================================
