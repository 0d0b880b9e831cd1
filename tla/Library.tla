------------------------------ MODULE Library ------------------------------
(***************************************************************************)
(* What the write-intent protocol promises, with no intents, disk or       *)
(* restarts in sight: the files subflux manages change in single steps.    *)
(* A delivery puts its file, drops what it supersedes and counts as        *)
(* delivered at one instant; an attempt ends delivered or undelivered,     *)
(* once, and never both.                                                   *)
(***************************************************************************)
EXTENDS Tables

CONSTANTS
    Inst, Name, Content, Run,
    Wanted      \* the bytes each run's attempt delivers

VARIABLES
    lib,        \* the managed files and their bytes
    outcome     \* what became of each run's attempt

File == Inst \X Name

Init ==
    /\ lib = EmptyTable
    /\ outcome = [r \in Run |-> "idle"]

Offer(r) ==
    /\ outcome[r] = "idle"
    /\ outcome' = [outcome EXCEPT ![r] = "offered"]
    /\ UNCHANGED lib

Refuse(r) ==
    /\ outcome[r] = "offered"
    /\ outcome' = [outcome EXCEPT ![r] = "undelivered"]
    /\ UNCHANGED lib

\* The attempt's bytes arrive where they were not, and what they supersede goes.
Deliver(r, f, N) ==
    /\ outcome[r] = "offered"
    /\ f \in DOMAIN lib => lib[f] # Wanted[r]
    /\ outcome' = [outcome EXCEPT ![r] = "delivered"]
    /\ lib' = Put(Drop(lib, {<<f[1], n>> : n \in N}), f, Wanted[r])

Rewrite(f, c) ==
    /\ lib' = Put(lib, f, c)
    /\ UNCHANGED outcome

Delete(f) ==
    /\ f \in DOMAIN lib
    /\ lib' = Drop(lib, {f})
    /\ UNCHANGED outcome

Next ==
    \/ \E r \in Run :
        \/ Offer(r)
        \/ Refuse(r)
        \/ \E f \in File, N \in SUBSET Name : Deliver(r, f, N)
    \/ \E f \in File :
        \/ \E c \in Content : Rewrite(f, c)
        \/ Delete(f)

Spec == Init /\ [][Next]_<<lib, outcome>>
=============================================================================
