---------------------------- MODULE SettingsSave ----------------------------
(***************************************************************************)
(* internal/settings (save.go, service.go): the one settings file, the     *)
(* live snapshot read from it, and the Saves that move both together;      *)
(* and internal/app/changeloop.go, the reader of Service.Changed.          *)
(*                                                                         *)
(* A Save holds the slot from lock to unlock, and takes the steps another  *)
(* goroutine, the user's editor or Shutdown can come between.  Documents   *)
(* are compared for equality only.  Writing the file, activating and       *)
(* restoring may each fail; a failed write of the file has not landed,     *)
(* as filesafe is taken to promise, while a failed removal may have.       *)
(***************************************************************************)
EXTENDS Naturals

CONSTANTS
    Saver,          \* callers of Save, each one Save at a time
    Doc,
    Absent,         \* no file
    Unknown,        \* a file that could not be read
    Free, Taken,    \* the slot with no Save: free, or kept by Shutdown
    MaxRev,         \* bound: live revisions
    MaxEdits,       \* bound: edits by hand
    MaxFaults       \* bound: failures

Content == Doc \union {Absent}

ASSUME NoneAssumption ==
    /\ Free \notin Saver /\ Taken \notin Saver /\ Free # Taken
    /\ Absent \notin Doc /\ Unknown \notin Content
ASSUME BoundsAssumption == MaxRev \in Nat /\ MaxEdits \in Nat /\ MaxFaults \in Nat

At == {"idle", "locking", "locked", "entered", "checked", "written", "restoring", "active", "signalling"}

VARIABLES
    file,
    seen,           \* the file as the service last read or wrote it
    live,           \* the live snapshot: its revision and its file
    diverged,
    changed,        \* Changed holds a signal
    slot,
    closing,        \* Shutdown has begun
    stopped,        \* Shutdown has cancelled the running Save
    saver,          \* where each Save stands, its document and its base
    loop,           \* changeLoop: waiting, woken, applying what it read
    applied,        \* the revision it last read to apply
    edited,         \* the user changed the file since the service read or wrote it
    edits, faults

service == <<file, seen, live, diverged, changed, slot, saver>>
bounds == <<edits, faults>>
vars == <<service, closing, stopped, loop, applied, edited, bounds>>

Fault == faults < MaxFaults /\ faults' = faults + 1

\* A step under the Save's own context fails by itself or by Shutdown.
Fails == Fault \/ (stopped /\ UNCHANGED faults)

Moves(s, at) == saver' = [saver EXCEPT ![s].at = at]

Idle == [at |-> "idle", doc |-> Absent, base |-> 0]

\* Faulty Returns: no unlock.
ReturnsHeld(s) == saver' = [saver EXCEPT ![s] = Idle] /\ UNCHANGED slot

\* unlock and return.
Returns(s) == saver' = [saver EXCEPT ![s] = Idle] /\ slot' = Free

---------------------------------------------------------------------------
(* Save                                                                    *)

\* A caller has a document it edited from the live one.
Ask(s, d) ==
    /\ saver[s].at = "idle"
    /\ live.rev < MaxRev
    /\ saver' = [saver EXCEPT ![s] = [at |-> "locking", doc |-> d, base |-> live.rev]]
    /\ UNCHANGED <<file, seen, live, diverged, changed, slot, closing, stopped, loop, applied, edited, bounds>>

Lock(s) ==
    /\ saver[s].at = "locking"
    /\ slot = Free
    /\ slot' = s
    /\ Moves(s, "locked")
    /\ UNCHANGED <<file, seen, live, diverged, changed, closing, stopped, loop, applied, edited, bounds>>

\* lock gives up for Shutdown; a caller's own end of patience is no different.
RefuseClosed(s) ==
    /\ saver[s].at = "locking"
    /\ closing
    /\ saver' = [saver EXCEPT ![s] = Idle]
    /\ UNCHANGED <<file, seen, live, diverged, changed, slot, closing, stopped, loop, applied, edited, bounds>>

\* lock's second look: Shutdown may have begun with the slot free.
Enter(s) ==
    /\ saver[s].at = "locked"
    /\ IF closing THEN Returns(s) ELSE Moves(s, "entered") /\ UNCHANGED slot
    /\ UNCHANGED <<file, seen, live, diverged, changed, closing, stopped, loop, applied, edited, bounds>>

\* Faulty Admissible: the base is not looked at.
AdmissibleAnyBase(s) == seen # Unknown /\ file = seen

\* The base, first, and the baseline.
Admissible(s) ==
    /\ saver[s].base = live.rev
    /\ seen # Unknown /\ file = seen

Admit(s) ==
    /\ saver[s].at = "entered"
    /\ Admissible(s)
    /\ Moves(s, "checked")
    /\ UNCHANGED <<file, seen, live, diverged, changed, slot, closing, stopped, loop, applied, edited, bounds>>

\* Not admissible, an unreadable baseline, or a document the merge, the
\* parse or the check refuses.
Refuse(s) ==
    /\ saver[s].at \in {"entered", "checked"}
    /\ Returns(s)
    /\ UNCHANGED <<file, seen, live, diverged, changed, closing, stopped, loop, applied, edited, bounds>>

Write(s) ==
    /\ saver[s].at = "checked"
    /\ \/ /\ file' = saver[s].doc
          /\ edited' = FALSE
          /\ Moves(s, "written")
          /\ UNCHANGED <<slot, faults>>
       \/ /\ Fails
          /\ Returns(s)
          /\ UNCHANGED <<file, edited>>
    /\ UNCHANGED <<seen, live, diverged, changed, closing, stopped, loop, applied, edits>>

Activate(s) ==
    /\ saver[s].at = "written"
    /\ \/ Moves(s, "active") /\ UNCHANGED faults
       \/ Moves(s, "restoring") /\ Fails
    /\ UNCHANGED <<file, seen, live, diverged, changed, slot, closing, stopped, loop, applied, edited, edits>>

Restore(s) ==
    /\ saver[s].at = "restoring"
    /\ file' = seen
    /\ edited' = FALSE
    /\ Returns(s)
    /\ UNCHANGED <<seen, live, diverged, changed, closing, stopped, loop, applied, bounds>>

\* Faulty RestoreFails: the baseline stays what it was.
RestoreFailsUnread(s) ==
    /\ saver[s].at = "restoring"
    /\ Fault
    /\ diverged' = TRUE
    /\ Moves(s, "signalling")
    /\ UNCHANGED <<file, seen, live, changed, slot, closing, stopped, loop, applied, edited, edits>>

\* Faulty RestoreFails: nobody is told.
RestoreFailsUntold(s) ==
    /\ saver[s].at = "restoring"
    /\ Fault
    /\ seen' \in {file, Unknown}
    /\ edited' = IF seen' = Unknown THEN edited ELSE FALSE
    /\ Moves(s, "signalling")
    /\ UNCHANGED <<file, live, diverged, changed, slot, closing, stopped, loop, applied, edits>>

\* The file is read again, which may fail too.
RestoreFails(s) ==
    /\ saver[s].at = "restoring"
    /\ Fault
    /\ file' \in {file} \union ({seen} \intersect {Absent})
    /\ seen' \in {file', Unknown}
    /\ edited' = IF seen' = Unknown THEN edited ELSE FALSE
    /\ diverged' = TRUE
    /\ Moves(s, "signalling")
    /\ UNCHANGED <<live, changed, slot, closing, stopped, loop, applied, edits>>

Commit(s) ==
    /\ saver[s].at = "active"
    /\ seen' = saver[s].doc
    /\ live' = [rev |-> live.rev + 1, file |-> saver[s].doc]
    /\ diverged' = FALSE
    /\ Moves(s, "signalling")
    /\ UNCHANGED <<file, changed, slot, closing, stopped, loop, applied, edited, bounds>>

\* Faulty Signal: a channel with no buffer, and nobody listening.
SignalUnbuffered(s) ==
    /\ saver[s].at = "signalling"
    /\ changed' = (changed \/ loop = "waiting")
    /\ Returns(s)
    /\ UNCHANGED <<file, seen, live, diverged, closing, stopped, loop, applied, edited, bounds>>

Signal(s) ==
    /\ saver[s].at = "signalling"
    /\ changed' = TRUE
    /\ Returns(s)
    /\ UNCHANGED <<file, seen, live, diverged, closing, stopped, loop, applied, edited, bounds>>

---------------------------------------------------------------------------
(* The user's editor and the change loop                                   *)

Edit(c) ==
    /\ edits < MaxEdits
    /\ c # file
    /\ edits' = edits + 1
    /\ file' = c
    /\ edited' = TRUE
    /\ UNCHANGED <<seen, live, diverged, changed, slot, saver, closing, stopped, loop, applied, faults>>

Receive ==
    /\ loop = "waiting"
    /\ changed
    /\ changed' = FALSE
    /\ loop' = "woken"
    /\ UNCHANGED <<file, seen, live, diverged, slot, saver, closing, stopped, applied, edited, bounds>>

Read ==
    /\ loop = "woken"
    /\ applied' = live.rev
    /\ loop' = "applying"
    /\ UNCHANGED <<service, closing, stopped, edited, bounds>>

Apply ==
    /\ loop = "applying"
    /\ loop' = "waiting"
    /\ UNCHANGED <<service, closing, stopped, applied, edited, bounds>>

Init ==
    /\ file \in Content
    /\ seen \in {file, Unknown}
    /\ live = [rev |-> 0, file |-> seen]
    /\ diverged = FALSE
    /\ changed = FALSE
    /\ slot = Free
    /\ closing = FALSE
    /\ stopped = FALSE
    /\ saver = [s \in Saver |-> Idle]
    /\ loop = "waiting"
    /\ applied = 0
    /\ edited = FALSE
    /\ edits = 0
    /\ faults = 0

SaveNext(s) ==
    \/ \E d \in Doc : Ask(s, d)
    \/ Lock(s) \/ RefuseClosed(s) \/ Enter(s) \/ Admit(s) \/ Refuse(s) \/ Write(s) \/ Activate(s)
    \/ Restore(s) \/ RestoreFails(s) \/ Commit(s) \/ Signal(s)

\* What a Save that holds the slot does by itself.  Its activation may hang
\* until Shutdown cancels it.
SaveGoesOn(s) ==
    /\ saver[s].at \notin {"idle", "locking"}
    /\ saver[s].at = "written" => stopped
    /\ SaveNext(s)

TypeOK ==
    /\ file \in Content
    /\ seen \in Content \union {Unknown}
    /\ live \in [rev : 0..MaxRev, file : Content \union {Unknown}]
    /\ diverged \in BOOLEAN /\ changed \in BOOLEAN
    /\ slot \in Saver \union {Free, Taken}
    /\ closing \in BOOLEAN /\ stopped \in BOOLEAN
    /\ saver \in [Saver -> [at : At, doc : Content, base : 0..MaxRev]]
    /\ \A s \in Saver : saver[s].at \notin {"idle", "locking"} <=> slot = s
    /\ loop \in {"waiting", "woken", "applying"}
    /\ applied \in 0..MaxRev
    /\ edited \in BOOLEAN
    /\ edits \in 0..MaxEdits /\ faults \in 0..MaxFaults

Saving == \E s \in Saver : saver[s].at \in {"written", "restoring", "active"}

\* commit and restore: between Saves the file is what is live, or Diverged
\* says it is not, unless the user edited it by hand.
FileIsLive == ~Saving /\ ~edited /\ live.file # Unknown => diverged \/ file = live.file

\* restore: what the service did to the file itself it knows, so no later
\* Save is refused as a hand edit for it.
OwnWriteKnown == ~Saving /\ ~edited => seen \in {file, Unknown}

\* Save and changeLoop: the loop does not wait with nothing to wake it while
\* settings it has not applied are live.
NoSettingsMissed ==
    loop = "waiting" /\ ~changed /\ (\A s \in Saver : saver[s].at # "signalling")
    => applied = live.rev

\* Between Saves the file, what the service knows of it and what the loop has
\* applied follow what is live, or are said not to.
SettingsAgree == FileIsLive /\ OwnWriteKnown /\ NoSettingsMissed

\* Save: a document becomes live only over the revision it was edited from,
\* however long its Save waited, wrote and activated.
NoLostUpdate == [][live' # live => \E s \in Saver : slot = s /\ saver[s].base = live.rev]_vars
=============================================================================
