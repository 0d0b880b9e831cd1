------------------------------ MODULE JobBoard ------------------------------
(***************************************************************************)
(* What internal/status promises of a job to whoever started it, with no   *)
(* records, retries or live view in sight: a job is open until it ends,    *)
(* ends once, and keeps its outcome until it is forgotten.  Only a restart *)
(* before the outcome is kept may change it, to interrupted.               *)
(***************************************************************************)
CONSTANTS Id, Outcome, Interrupted

VARIABLE board      \* what asking for each job answers

Unborn == [at |-> "unborn"]
Open == [at |-> "open"]
Gone == [at |-> "gone"]
Ended(o, kept) == [at |-> "ended", outcome |-> o, kept |-> kept]

Kept(id) == board[id].at = "ended" /\ board[id].kept

\* The board with the jobs of G forgotten.
Without(G) == [id \in Id |-> IF id \in G THEN Gone ELSE board[id]]

Init == board = [id \in Id |-> Unborn]

\* A job is taken on; kept jobs may make room for it.
Start(id, G) ==
    /\ board[id] = Unborn
    /\ \A x \in G : Kept(x)
    /\ board' = [Without(G) EXCEPT ![id] = Open]

End(id, o) ==
    /\ board[id] = Open
    /\ board' = [board EXCEPT ![id] = Ended(o, FALSE)]

Keep(id) ==
    /\ board[id].at = "ended"
    /\ board' = [board EXCEPT ![id] = Ended(board[id].outcome, TRUE)]

Forget(G) ==
    /\ \A id \in G : Kept(id)
    /\ board' = Without(G)

\* A kept job survives or is forgotten; every other one was interrupted.
Restart(G) ==
    /\ \A id \in G : Kept(id)
    /\ board' = [id \in Id |->
         IF board[id].at \in {"unborn", "gone"} \/ Kept(id) THEN Without(G)[id]
         ELSE Ended(Interrupted, TRUE)]

Next ==
    \/ \E id \in Id :
        \/ \E G \in SUBSET Id : Start(id, G)
        \/ \E o \in Outcome : End(id, o)
        \/ Keep(id)
    \/ \E G \in SUBSET Id : Forget(G) \/ Restart(G)

Spec == Init /\ [][Next]_board
=============================================================================
