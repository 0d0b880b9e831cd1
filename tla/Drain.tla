------------------------------- MODULE Drain -------------------------------
(***************************************************************************)
(* internal/app/supervise.go over SettingsSave: the one drain, from its    *)
(* cause to the store closed or left open.  Producers and sinks are the    *)
(* components it stops, each kind as one: they return, in time or not,     *)
(* with an error or none.  The Saves are nobody's component: Shutdown is   *)
(* what ends them.                                                         *)
(***************************************************************************)
EXTENDS SettingsSave

VARIABLES
    stage,      \* supervise: serving, the parts of the drain, its end
    clean       \* no drain error so far

drain == <<stage, clean>>
allVars == <<vars, drain>>

Stages == {"serving", "producers", "shutdown", "waiting", "sinks", "ending", "closed", "left open"}

\* The process's context ends, or a component returns.
Cause ==
    /\ stage = "serving"
    /\ stage' = "producers"
    /\ UNCHANGED <<vars, clean>>

\* The producers return, one of them with an error, or overrun the grace.
ProducersEnd ==
    /\ stage = "producers"
    /\ stage' = "shutdown"
    /\ clean' \in BOOLEAN
    /\ UNCHANGED vars

\* Shutdown closes the door and tries the slot once.
BeginShutdown ==
    /\ stage = "shutdown"
    /\ closing' = TRUE
    /\ IF slot = Free
       THEN slot' = Taken /\ stage' = "sinks"
       ELSE stage' = "waiting" /\ UNCHANGED slot
    /\ UNCHANGED <<file, seen, live, diverged, changed, saver, stopped, loop, applied, edited, bounds, clean>>

TakeSlot ==
    /\ stage = "waiting"
    /\ slot = Free
    /\ slot' = Taken
    /\ stage' = "sinks"
    /\ UNCHANGED <<file, seen, live, diverged, changed, saver, closing, stopped, loop, applied, edited, bounds, clean>>

\* Faulty Overrun: Shutdown stays for the Save it does not cancel.
OverrunWaiting ==
    /\ stage = "waiting"
    /\ clean
    /\ clean' = FALSE
    /\ UNCHANGED <<vars, stage>>

\* Faulty Overrun: the Save is left behind and never cancelled.
OverrunUncancelled ==
    /\ stage = "waiting"
    /\ clean' = FALSE
    /\ stage' = "sinks"
    /\ UNCHANGED vars

\* Faulty Overrun: its error is lost.
OverrunUnreported ==
    /\ stage = "waiting"
    /\ stopped' = TRUE
    /\ stage' = "sinks"
    /\ UNCHANGED <<service, closing, loop, applied, edited, bounds, clean>>

\* The grace ends first: the running Save is cancelled and not waited for.
Overrun ==
    /\ stage = "waiting"
    /\ stopped' = TRUE
    /\ clean' = FALSE
    /\ stage' = "sinks"
    /\ UNCHANGED <<service, closing, loop, applied, edited, bounds>>

\* The sinks return, well or not, or overrun the drain's budget.
SinksEnd ==
    /\ stage = "sinks"
    /\ stage' = "ending"
    /\ clean' \in {clean, FALSE}
    /\ UNCHANGED vars

\* The store is closed, or left open for what may still be on it.
Finish ==
    /\ stage = "ending"
    /\ stage' = IF clean THEN "closed" ELSE "left open"
    /\ UNCHANGED <<vars, clean>>

DrainInit == Init /\ stage = "serving" /\ clean = TRUE

\* The change loop is a producer and ends with them.
LoopNext == stage \in {"serving", "producers"} /\ (Receive \/ Read \/ Apply)

DrainNext ==
    \/ (\/ \E s \in Saver : SaveNext(s)
        \/ \E c \in Content : Edit(c)
        \/ LoopNext) /\ UNCHANGED drain
    \/ Cause \/ ProducersEnd \/ BeginShutdown \/ TakeSlot \/ Overrun \/ SinksEnd \/ Finish

DrainSpec == DrainInit /\ [][DrainNext]_allVars

\* A Save that holds the slot goes on, and its activation ends when it is
\* cancelled; a waiter gives up when Shutdown begins; the budgets end.
\* Callers need not ask, nor the process stop, nor an activation end by itself.
DrainFairness ==
    /\ \A s \in Saver :
        WF_allVars(SaveGoesOn(s) /\ UNCHANGED drain) /\ WF_allVars(RefuseClosed(s) /\ UNCHANGED drain)
    /\ WF_allVars(ProducersEnd) /\ WF_allVars(BeginShutdown)
    /\ WF_allVars(TakeSlot) /\ WF_allVars(Overrun)
    /\ WF_allVars(SinksEnd) /\ WF_allVars(Finish)

DrainFairSpec == DrainSpec /\ DrainFairness

\* The shapes of the service, its Saves and the drain; the slot is held by
\* exactly the Save between lock and unlock.
DrainTypeOK == TypeOK /\ stage \in Stages /\ clean \in BOOLEAN

\* supervise and Shutdown: once the store is closed no Save is under way or
\* can begin, so none activates on it.
StoreClosedAlone == stage = "closed" => \A s \in Saver : saver[s].at \in {"idle", "locking"} /\ slot = Taken

\* supervise, Shutdown and commit: a drain ends, though a Save hang in its
\* activation; and once it has begun every Save is answered, the one that
\* hangs by its cancellation and those behind it by ErrClosed.
DrainSettles ==
    /\ stage # "serving" ~> stage \in {"closed", "left open"}
    /\ \A s \in Saver : saver[s].at # "idle" /\ stage # "serving" ~> saver[s].at = "idle"
=============================================================================
