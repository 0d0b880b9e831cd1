---------------------------- MODULE DrainProofs ----------------------------
(***************************************************************************)
(* Proofs about SettingsSave under Drain, for every set of callers and     *)
(* documents, and every bound.                                             *)
(*                                                                         *)
(* Everything rests on the slot: the Save that holds it is the only one    *)
(* past lock (TypeOK), so the base it checked stays live until it commits  *)
(* (BaseLive).  FileIsLive is not inductive: what a restore puts back is   *)
(* live because the baseline is (SeenIsLive), and what a commit makes live *)
(* is in the file because nobody but the user wrote it since (OwnBytes).   *)
(***************************************************************************)
EXTENDS Drain, TLAPS

Checked == {"checked", "written", "restoring", "active"}

\* The base of a Save can be committed on.  Past the check it is what is live,
\* and there is a baseline to restore.
BaseLive ==
    \A s \in Saver :
        /\ saver[s].at # "idle" => saver[s].base < MaxRev
        /\ saver[s].at \in Checked => saver[s].base = live.rev /\ seen # Unknown

\* The baseline is the live file, unless Diverged says otherwise.
SeenIsLive == live.file # Unknown /\ ~diverged => seen = live.file

\* Between its write and its end a Save finds its own bytes in the file.
OwnBytes ==
    \A s \in Saver :
        saver[s].at \in {"written", "restoring", "active"} /\ ~edited => file = saver[s].doc

\* The loop's last read is of what is live, or it has a signal to come.
ReadIsLive ==
    loop # "woken" /\ ~changed /\ (\A s \in Saver : saver[s].at # "signalling")
    => applied = live.rev

\* A drain that has not failed holds the slot from Shutdown on.
SlotKept ==
    (stage \in {"sinks", "ending"} /\ clean) \/ stage = "closed" => slot = Taken

---------------------------------------------------------------------------
(* The slot                                                                *)

SaverRec == [at : At, doc : Content, base : 0..MaxRev]

Holding(x) == x.at \notin {"idle", "locking"}

\* A step that moves one Save changes nothing of the others.
LEMMA MoveSaver ==
    ASSUME saver \in [Saver -> SaverRec], NEW s \in Saver, NEW at \in At, Moves(s, at)
    PROVE  /\ saver' \in [Saver -> SaverRec]
           /\ saver'[s].at = at /\ saver'[s].doc = saver[s].doc /\ saver'[s].base = saver[s].base
           /\ \A x \in Saver \ {s} : saver'[x] = saver[x]
BY DEF SaverRec, Moves

\* Nor does one that sets its record.
LEMMA SetSaver ==
    ASSUME saver \in [Saver -> SaverRec], NEW s \in Saver, NEW r \in SaverRec,
           saver' = [saver EXCEPT ![s] = r]
    PROVE  /\ saver' \in [Saver -> SaverRec]
           /\ saver'[s] = r
           /\ \A x \in Saver \ {s} : saver'[x] = saver[x]
OBVIOUS

LEMMA IdleSaver == Idle \in SaverRec /\ ~Holding(Idle) /\ Idle.at = "idle"
BY BoundsAssumption DEF Idle, SaverRec, At, Content, Holding

SlotInv == DrainTypeOK /\ BaseLive

\* The types of everything but the Saves.
RestTyped ==
    /\ file \in Content /\ seen \in Content \union {Unknown}
    /\ live \in [rev : 0..MaxRev, file : Content \union {Unknown}]
    /\ diverged \in BOOLEAN /\ changed \in BOOLEAN
    /\ slot \in Saver \union {Free, Taken}
    /\ closing \in BOOLEAN /\ stopped \in BOOLEAN
    /\ loop \in {"waiting", "woken", "applying"}
    /\ applied \in 0..MaxRev
    /\ edited \in BOOLEAN
    /\ edits \in 0..MaxEdits /\ faults \in 0..MaxFaults
    /\ stage \in Stages /\ clean \in BOOLEAN

SaversHold == \A s \in Saver : Holding(saver[s]) <=> slot = s

\* SlotInv taken apart, in this state and in the next.
LEMMA SlotParts ==
    SlotInv <=> saver \in [Saver -> SaverRec] /\ SaversHold /\ RestTyped /\ BaseLive
BY DEF SlotInv, DrainTypeOK, TypeOK, SaverRec, Holding, SaversHold, RestTyped

LEMMA SlotPartsNext ==
    SlotInv' <=> (saver \in [Saver -> SaverRec] /\ SaversHold /\ RestTyped /\ BaseLive)'
BY DEF SlotInv, DrainTypeOK, TypeOK, SaverRec, Holding, SaversHold, RestTyped

LEMMA InitSlot == DrainInit => SlotInv
<1> SUFFICES ASSUME DrainInit PROVE SlotInv
  OBVIOUS
<1>1. saver \in [Saver -> SaverRec] /\ \A s \in Saver : saver[s] = Idle
  BY IdleSaver DEF DrainInit, Init
<1>2. BaseLive
  BY <1>1, IdleSaver DEF BaseLive, Idle, Checked
<1>3. \A s \in Saver : Holding(saver[s]) <=> slot = s
  BY <1>1, IdleSaver, NoneAssumption DEF DrainInit, Init
<1>4. live \in [rev : 0..MaxRev, file : Content \union {Unknown}]
  <2>1. seen \in Content \union {Unknown}
    BY DEF DrainInit, Init
  <2> QED
    BY <2>1, BoundsAssumption DEF DrainInit, Init
<1>5. file \in Content /\ seen \in Content \union {Unknown} /\ slot \in Saver \union {Free, Taken}
  BY DEF DrainInit, Init
<1>6. /\ diverged \in BOOLEAN /\ changed \in BOOLEAN /\ closing \in BOOLEAN /\ stopped \in BOOLEAN
      /\ edited \in BOOLEAN /\ loop \in {"waiting", "woken", "applying"}
  BY DEF DrainInit, Init
<1>7. applied \in 0..MaxRev /\ edits \in 0..MaxEdits /\ faults \in 0..MaxFaults
  BY BoundsAssumption DEF DrainInit, Init
<1>8. stage \in Stages /\ clean \in BOOLEAN
  BY DEF DrainInit, Stages
<1> QED
  BY <1>1, <1>2, <1>3, <1>4, <1>5, <1>6, <1>7, <1>8 DEF SlotInv, DrainTypeOK, TypeOK, SaverRec, Holding

\* A step of one Save that leaves the slot and the live settings alone.
LEMMA FrameSlot ==
    ASSUME SlotInv, NEW s \in Saver, RestTyped', live' = live, slot' = slot,
           saver' \in [Saver -> SaverRec], \A x \in Saver \ {s} : saver'[x] = saver[x],
           Holding(saver'[s]) <=> Holding(saver[s]),
           saver'[s].at # "idle" => saver'[s].base < MaxRev,
           saver'[s].at \in Checked => saver'[s].base = live.rev /\ seen' # Unknown,
           Holding(saver[s]) \/ seen' = seen
    PROVE  SlotInv'
<1>1. SaversHold'
  BY SlotParts DEF SaversHold
<1>2. \A x \in Saver \ {s} : saver[x].at \in Checked => seen' = seen
  BY SlotParts DEF SaversHold, Holding, Checked
<1>3. BaseLive'
  BY <1>2, SlotParts DEF BaseLive
<1> QED
  BY <1>1, <1>3, SlotPartsNext

\* The slot holder returns.
LEMMA ReturnSlot ==
    ASSUME SlotInv, NEW s \in Saver, Holding(saver[s]), Returns(s), RestTyped', live' = live
    PROVE  SlotInv'
<1>1. /\ saver' \in [Saver -> SaverRec] /\ saver'[s] = Idle
      /\ \A x \in Saver \ {s} : saver'[x] = saver[x]
  BY SlotParts, IdleSaver, SetSaver DEF Returns
<1>2. SaversHold'
  BY <1>1, SlotParts, IdleSaver, NoneAssumption DEF SaversHold, Returns
<1>3. \A x \in Saver : saver'[x].at \notin Checked
  BY <1>1, SlotParts, IdleSaver DEF SaversHold, Holding, Checked
<1>4. BaseLive'
  BY <1>1, <1>3, SlotParts, IdleSaver DEF BaseLive
<1> QED
  BY <1>1, <1>2, <1>4, SlotPartsNext

\* The slot holder goes on.
LEMMA MoveSlot ==
    ASSUME SlotInv, NEW s \in Saver, Holding(saver[s]), RestTyped', live' = live, slot' = slot,
           NEW at \in At \ {"idle", "locking"}, Moves(s, at),
           at \in Checked => saver[s].base = live.rev /\ seen' # Unknown
    PROVE  SlotInv'
<1>1. /\ saver' \in [Saver -> SaverRec]
      /\ saver'[s].at = at /\ saver'[s].base = saver[s].base
      /\ \A x \in Saver \ {s} : saver'[x] = saver[x]
  BY SlotParts, MoveSaver
<1>2. saver[s].at # "idle" /\ saver[s].base < MaxRev
  BY SlotParts DEF BaseLive, Holding
<1> QED
  BY <1>1, <1>2, FrameSlot DEF Holding

\* The steps of a Save outside the slot.
LEMMA AskSlot ==
    ASSUME SlotInv, NEW s \in Saver, NEW d \in Doc, Ask(s, d), UNCHANGED drain PROVE SlotInv'
<1> DEFINE r == [at |-> "locking", doc |-> d, base |-> live.rev]
<1>1. r \in SaverRec /\ ~Holding(r) /\ live.rev < MaxRev
  BY SlotParts DEF RestTyped, SaverRec, At, Content, Holding, Ask
<1>2. /\ saver' \in [Saver -> SaverRec] /\ saver'[s] = r
      /\ \A x \in Saver \ {s} : saver'[x] = saver[x]
  BY <1>1, SetSaver, SlotParts DEF Ask
<1>3. RestTyped'
  BY SlotParts DEF RestTyped, Ask, bounds, drain
<1> QED
  BY <1>1, <1>2, <1>3, FrameSlot DEF Ask, Holding, Checked

LEMMA RefuseClosedSlot ==
    ASSUME SlotInv, NEW s \in Saver, RefuseClosed(s), UNCHANGED drain PROVE SlotInv'
<1>1. RestTyped'
  BY SlotParts DEF RestTyped, RefuseClosed, bounds, drain
<1>2. /\ saver' \in [Saver -> SaverRec] /\ saver'[s] = Idle
      /\ \A x \in Saver \ {s} : saver'[x] = saver[x]
  BY IdleSaver, SetSaver, SlotParts DEF RefuseClosed
<1> QED
  BY <1>1, <1>2, IdleSaver, FrameSlot DEF RefuseClosed, Holding, Checked

LEMMA LockSlot ==
    ASSUME SlotInv, NEW s \in Saver, Lock(s), UNCHANGED drain PROVE SlotInv'
<1>1. RestTyped'
  BY SlotParts DEF RestTyped, Lock, bounds, drain
<1>2. /\ saver' \in [Saver -> SaverRec]
      /\ saver'[s].at = "locked" /\ saver'[s].base = saver[s].base
      /\ \A x \in Saver \ {s} : saver'[x] = saver[x]
  BY SlotParts, MoveSaver DEF Lock, At
<1>3. SaversHold'
  BY <1>2, SlotParts, NoneAssumption DEF SaversHold, Holding, Lock
<1>4. BaseLive'
  BY <1>2, SlotParts DEF BaseLive, Lock, Checked
<1> QED
  BY <1>1, <1>2, <1>3, <1>4, SlotPartsNext
\* The steps of the Save that holds the slot.
LEMMA HolderSlot ==
    ASSUME SlotInv, NEW s \in Saver, SaveNext(s), Holding(saver[s]), UNCHANGED drain PROVE SlotInv'
<1>1. CASE Enter(s)
  <2>1. RestTyped'
    BY <1>1, SlotParts DEF RestTyped, Enter, Returns, bounds, drain
  <2>2. CASE closing
    BY <1>1, <2>1, <2>2, ReturnSlot DEF Enter
  <2>3. CASE ~closing
    BY <1>1, <2>1, <2>3, MoveSlot DEF Enter, At, Checked
  <2> QED
    BY <2>2, <2>3
<1>2. CASE Admit(s)
  <2>1. RestTyped'
    BY <1>2, SlotParts DEF RestTyped, Admit, bounds, drain
  <2> QED
    BY <1>2, <2>1, MoveSlot DEF Admit, Admissible, At
<1>3. CASE Refuse(s)
  <2>1. RestTyped'
    BY <1>3, SlotParts DEF RestTyped, Refuse, Returns, bounds, drain
  <2> QED
    BY <1>3, <2>1, ReturnSlot DEF Refuse
<1>4. CASE Write(s)
  <2>1. saver[s].at = "checked" /\ saver[s].base = live.rev /\ seen # Unknown /\ saver[s].doc \in Content
    BY <1>4, SlotParts DEF Write, BaseLive, SaverRec, Checked
  <2>4. UNCHANGED <<seen, live, diverged, changed, closing, stopped, loop, applied, edits>>
    BY <1>4 DEF Write
  <2>2. CASE file' = saver[s].doc /\ edited' = FALSE /\ Moves(s, "written") /\ UNCHANGED <<slot, faults>>
    <3>1. RestTyped'
      BY <2>1, <2>2, <2>4, SlotParts DEF RestTyped, drain
    <3> QED
      BY <1>4, <2>1, <2>2, <3>1, MoveSlot DEF Write, At
  <2>3. CASE Fails /\ Returns(s) /\ UNCHANGED <<file, edited>>
    <3>1. RestTyped'
      BY <2>3, <2>4, SlotParts, BoundsAssumption DEF RestTyped, Returns, Fails, Fault, drain
    <3> QED
      BY <1>4, <2>3, <3>1, ReturnSlot DEF Write
  <2> QED
    BY <1>4, <2>2, <2>3 DEF Write
<1>5. CASE Activate(s)
  <2>1. saver[s].at = "written" /\ saver[s].base = live.rev /\ seen # Unknown
    BY <1>5, SlotParts DEF Activate, BaseLive, Checked
  <2>2. RestTyped'
    BY <1>5, SlotParts, BoundsAssumption DEF RestTyped, Activate, Fails, Fault, drain
  <2> QED
    BY <1>5, <2>1, <2>2, MoveSlot DEF Activate, At
<1>6. CASE Restore(s)
  <2>1. saver[s].at = "restoring" /\ seen # Unknown
    BY <1>6, SlotParts DEF Restore, BaseLive, Checked
  <2>2. RestTyped'
    BY <1>6, <2>1, SlotParts DEF RestTyped, Restore, Returns, bounds, drain
  <2> QED
    BY <1>6, <2>2, ReturnSlot DEF Restore
<1>7. CASE RestoreFails(s)
  <2>1. file' \in Content /\ seen' \in Content \union {Unknown}
    BY <1>7, SlotParts DEF RestTyped, RestoreFails, Content
  <2>2. edited' \in BOOLEAN /\ diverged' \in BOOLEAN
    BY <1>7, SlotParts DEF RestTyped, RestoreFails
  <2>3. faults' \in 0..MaxFaults
    BY <1>7, SlotParts, BoundsAssumption DEF RestTyped, RestoreFails, Fault
  <2>4. UNCHANGED <<live, changed, slot, closing, stopped, loop, applied, edits, drain>>
    BY <1>7 DEF RestoreFails
  <2>5. RestTyped'
    BY <2>1, <2>2, <2>3, <2>4, SlotParts DEF RestTyped, drain
  <2> QED
    BY <1>7, <2>5, MoveSlot DEF RestoreFails, At, Checked
<1>8. CASE Commit(s)
  <2>1. saver[s].at = "active" /\ saver[s].base = live.rev /\ saver[s].base < MaxRev /\ saver[s].doc \in Content
    BY <1>8, SlotParts DEF Commit, BaseLive, SaverRec, Checked
  <2>7. live' \in [rev : 0..MaxRev, file : Content \union {Unknown}]
    BY <1>8, <2>1, SlotParts, BoundsAssumption DEF RestTyped, Commit
  <2>8. seen' \in Content \union {Unknown} /\ diverged' \in BOOLEAN
    BY <1>8, <2>1 DEF Commit
  <2>9. UNCHANGED <<file, changed, slot, closing, stopped, loop, applied, edited, edits, faults, drain>>
    BY <1>8 DEF Commit, bounds
  <2>2. RestTyped'
    BY <2>7, <2>8, <2>9, SlotParts DEF RestTyped, drain
  <2>3. /\ saver' \in [Saver -> SaverRec]
        /\ saver'[s].at = "signalling" /\ saver'[s].base = saver[s].base
        /\ \A x \in Saver \ {s} : saver'[x] = saver[x]
    BY <1>8, SlotParts, MoveSaver DEF Commit, At
  <2>4. SaversHold'
    BY <1>8, <2>3, SlotParts DEF SaversHold, Holding, Commit
  <2>5. \A x \in Saver \ {s} : ~Holding(saver[x])
    BY SlotParts DEF SaversHold
  <2>6. BaseLive'
    BY <2>1, <2>3, <2>5, SlotParts DEF BaseLive, Holding, Checked
  <2> QED
    BY <2>2, <2>3, <2>4, <2>6, SlotPartsNext
<1>9. CASE Signal(s)
  <2>1. RestTyped'
    BY <1>9, SlotParts DEF RestTyped, Signal, Returns, bounds, drain
  <2> QED
    BY <1>9, <2>1, ReturnSlot DEF Signal
<1> QED
  BY <1>1, <1>2, <1>3, <1>4, <1>5, <1>6, <1>7, <1>8, <1>9 DEF SaveNext, Holding, Ask, Lock, RefuseClosed

\* The steps of nobody's Save.
OtherNext ==
    \/ (\E c \in Content : Edit(c)) /\ UNCHANGED drain
    \/ LoopNext /\ UNCHANGED drain
    \/ Cause \/ ProducersEnd \/ BeginShutdown \/ TakeSlot \/ Overrun \/ SinksEnd \/ Finish

LEMMA OtherSlot == ASSUME SlotInv, OtherNext PROVE SlotInv'
<1>1. UNCHANGED <<saver, live, seen>>
  BY DEF OtherNext, Edit, LoopNext, Receive, Read, Apply, Cause, ProducersEnd, BeginShutdown, TakeSlot,
         Overrun, SinksEnd, Finish, service, vars
<1>2. slot' = slot \/ (slot = Free /\ slot' = Taken)
  BY DEF OtherNext, Edit, LoopNext, Receive, Read, Apply, Cause, ProducersEnd, BeginShutdown, TakeSlot,
         Overrun, SinksEnd, Finish, service, vars
<1>3. SaversHold'
  BY <1>1, <1>2, SlotParts, NoneAssumption DEF SaversHold
<1>4. BaseLive'
  BY <1>1, SlotParts DEF BaseLive
<1>5. RestTyped'
  <2>0. RestTyped
    BY SlotParts
  <2> USE <2>0 DEF RestTyped
  <2>1. CASE (\E c \in Content : Edit(c)) /\ UNCHANGED drain
    <3>1. PICK c \in Content : Edit(c)
      BY <2>1
    <3>2. file' \in Content /\ edited' \in BOOLEAN
      BY <3>1 DEF Edit
    <3>3. edits' \in 0..MaxEdits
      BY <3>1, BoundsAssumption DEF Edit
    <3>4. UNCHANGED <<seen, live, diverged, changed, slot, closing, stopped, loop, applied, faults, drain>>
      BY <2>1, <3>1 DEF Edit
    <3> QED
      BY <3>2, <3>3, <3>4 DEF drain
  <2>2. CASE LoopNext /\ UNCHANGED drain
    BY <2>2 DEF LoopNext, Receive, Read, Apply, service, bounds, drain
  <2>3. CASE Cause \/ ProducersEnd \/ SinksEnd \/ Finish
    BY <2>3 DEF Cause, ProducersEnd, SinksEnd, Finish, vars, service, bounds, Stages
  <2>4. CASE BeginShutdown \/ TakeSlot
    <3>1. stage' \in Stages /\ slot' \in Saver \union {Free, Taken} /\ closing' \in BOOLEAN
      BY <2>4 DEF BeginShutdown, TakeSlot, Stages
    <3>2. UNCHANGED <<file, seen, live, diverged, changed, stopped, loop, applied, edited, edits, faults, clean>>
      BY <2>4 DEF BeginShutdown, TakeSlot, bounds
    <3> QED
      BY <3>1, <3>2
  <2>5. CASE Overrun
    BY <2>5 DEF Overrun, service, bounds, Stages
  <2> QED
    BY <2>1, <2>2, <2>3, <2>4, <2>5 DEF OtherNext
<1> QED
  BY <1>1, <1>3, <1>4, <1>5, SlotParts, SlotPartsNext

LEMMA SlotStep == ASSUME SlotInv, [DrainNext]_allVars PROVE SlotInv'
<1>1. CASE \E s \in Saver : SaveNext(s) /\ UNCHANGED drain
  <2>1. PICK s \in Saver : SaveNext(s) /\ UNCHANGED drain
    BY <1>1
  <2>2. CASE Holding(saver[s])
    BY <2>1, <2>2, HolderSlot
  <2>3. CASE ~Holding(saver[s])
    BY <2>1, <2>3, AskSlot, LockSlot, RefuseClosedSlot
       DEF SaveNext, Holding, Enter, Admit, Refuse, Write, Activate, Restore, RestoreFails, Commit, Signal
  <2> QED
    BY <2>2, <2>3
<1>2. CASE OtherNext
  BY <1>2, OtherSlot
<1>3. CASE UNCHANGED allVars
  <2>1. UNCHANGED <<file, seen, live, diverged, changed, slot, saver, closing, stopped, loop, applied,
                    edited, edits, faults, stage, clean>>
    BY <1>3 DEF allVars, vars, service, bounds, drain
  <2> QED
    BY <2>1, SlotParts, SlotPartsNext DEF SaversHold, RestTyped, BaseLive
<1> QED
  BY <1>1, <1>2, <1>3 DEF DrainNext, OtherNext

\* The shapes of the service and the drain, and that the slot is held by
\* exactly the one Save between lock and unlock.
THEOREM TypeCorrect == DrainSpec => []DrainTypeOK
<1>1. SlotInv /\ [DrainNext]_allVars => SlotInv'
  BY SlotStep
<1>2. SlotInv => DrainTypeOK
  BY DEF SlotInv
<1> QED
  BY InitSlot, <1>1, <1>2, PTL DEF DrainSpec
---------------------------------------------------------------------------
(* The file, the live settings and the loop                                *)

ContentInv == SeenIsLive /\ OwnBytes /\ FileIsLive /\ OwnWriteKnown

Busy(x) == x.at \in {"written", "restoring", "active"}

\* While one Save holds the slot nobody else is past lock or moves.
LEMMA HolderAlone ==
    ASSUME SlotInv, NEW s \in Saver, SaveNext(s), Holding(saver[s])
    PROVE  \A x \in Saver \ {s} : ~Holding(saver[x]) /\ saver'[x] = saver[x]
<1>1. \A x \in Saver \ {s} : ~Holding(saver[x])
  BY SlotParts DEF SaversHold
<1>2. \/ \E at \in At : Moves(s, at)
      \/ Returns(s)
  BY DEF SaveNext, Holding, Ask, Lock, RefuseClosed, Enter, Admit, Refuse, Write, Activate, Restore,
         RestoreFails, Commit, Signal, At
<1>3. \A x \in Saver \ {s} : saver'[x] = saver[x]
  BY <1>2, SlotParts DEF Moves, Returns
<1> QED
  BY <1>1, <1>3

\* A step of a Save that neither writes the file nor the live settings.
LEMMA QuietContent ==
    ASSUME ContentInv, UNCHANGED <<file, seen, live, diverged, edited>>, Saving => Saving',
           \A x \in Saver : Busy(saver'[x]) => Busy(saver[x]) /\ saver'[x].doc = saver[x].doc
    PROVE  ContentInv'
<1>1. SeenIsLive'
  BY DEF ContentInv, SeenIsLive
<1>2. OwnBytes'
  BY DEF ContentInv, OwnBytes, Busy
<1>3. FileIsLive' /\ OwnWriteKnown'
  BY DEF ContentInv, FileIsLive, OwnWriteKnown
<1> QED
  BY <1>1, <1>2, <1>3 DEF ContentInv

LEMMA HolderContent ==
    ASSUME SlotInv, ContentInv, NEW s \in Saver, SaveNext(s), Holding(saver[s]) PROVE ContentInv'
<1>1. \A x \in Saver \ {s} : ~Holding(saver[x]) /\ saver'[x] = saver[x]
  BY HolderAlone
<1>2. \A x \in Saver \ {s} : ~Busy(saver[x]) /\ ~Busy(saver'[x])
  BY <1>1 DEF Busy, Holding
<1>3. (Saving <=> Busy(saver[s])) /\ (Saving' <=> Busy(saver'[s]))
  BY <1>2 DEF Saving, Busy
<1>4. OwnBytes' <=> (Busy(saver'[s]) /\ ~edited' => file' = saver'[s].doc)
  BY <1>2 DEF OwnBytes, Busy
<1>5. /\ \A at \in At : Moves(s, at) => saver'[s].at = at /\ saver'[s].doc = saver[s].doc
      /\ Returns(s) => ~Busy(saver'[s])
  BY SlotParts, MoveSaver, SetSaver, IdleSaver DEF Returns, Busy
<1>6. CASE Enter(s) \/ Admit(s) \/ Refuse(s) \/ Signal(s)
  <2>1. ~Busy(saver[s]) /\ ~Busy(saver'[s]) /\ UNCHANGED <<file, seen, live, diverged, edited>>
    BY <1>5, <1>6 DEF Enter, Admit, Refuse, Signal, Busy, At
  <2> QED
    BY <1>2, <1>3, <2>1, QuietContent
<1>7. CASE Write(s)
  <2>1. UNCHANGED <<seen, live, diverged>> /\ ~Busy(saver[s])
    BY <1>7 DEF Write, Busy
  <2>2. CASE file' = saver[s].doc /\ edited' = FALSE /\ Moves(s, "written")
    <3>1. Busy(saver'[s]) /\ file' = saver'[s].doc
      BY <1>5, <2>2 DEF Busy, At
    <3> QED
      BY <1>3, <1>4, <2>1, <3>1 DEF ContentInv, SeenIsLive, FileIsLive, OwnWriteKnown
  <2>3. CASE Returns(s) /\ UNCHANGED <<file, edited>>
    BY <1>2, <1>3, <1>5, <2>1, <2>3, QuietContent
  <2> QED
    BY <1>7, <2>2, <2>3 DEF Write
<1>8. CASE Activate(s)
  <2>1. UNCHANGED <<file, seen, live, diverged, edited>> /\ Busy(saver[s])
    BY <1>8 DEF Activate, Busy
  <2>2. Busy(saver'[s]) /\ saver'[s].doc = saver[s].doc
    BY <1>5, <1>8 DEF Activate, Busy, At
  <2> QED
    BY <1>2, <1>3, <2>1, <2>2, QuietContent
<1>9. CASE Restore(s)
  <2>1. UNCHANGED <<seen, live, diverged>> /\ file' = seen /\ edited' = FALSE /\ ~Busy(saver'[s])
    BY <1>5, <1>9 DEF Restore
  <2> QED
    BY <1>3, <1>4, <2>1 DEF ContentInv, SeenIsLive, FileIsLive, OwnWriteKnown
<1>10. CASE RestoreFails(s)
  <2>1. seen' \in {file', Unknown} /\ diverged' = TRUE /\ live' = live /\ ~Busy(saver'[s])
    BY <1>5, <1>10 DEF RestoreFails, Busy, At
  <2> QED
    BY <1>3, <1>4, <2>1 DEF ContentInv, SeenIsLive, FileIsLive, OwnWriteKnown
<1>11. CASE Commit(s)
  <2>1. /\ UNCHANGED <<file, edited>> /\ seen' = saver[s].doc /\ live'.file = saver[s].doc
        /\ Busy(saver[s]) /\ ~Busy(saver'[s])
    BY <1>5, <1>11 DEF Commit, Busy, At
  <2>2. ~edited => file = saver[s].doc
    BY <2>1 DEF ContentInv, OwnBytes, Busy
  <2> QED
    BY <1>3, <1>4, <2>1, <2>2 DEF ContentInv, SeenIsLive, FileIsLive, OwnWriteKnown
<1> QED
  BY <1>6, <1>7, <1>8, <1>9, <1>10, <1>11 DEF SaveNext, Holding, Ask, Lock, RefuseClosed

LEMMA ContentStep == ASSUME SlotInv, ContentInv, [DrainNext]_allVars PROVE ContentInv'
<1>1. CASE \E s \in Saver : SaveNext(s) /\ UNCHANGED drain
  <2>1. PICK s \in Saver : SaveNext(s) /\ UNCHANGED drain
    BY <1>1
  <2>2. CASE Holding(saver[s])
    BY <2>1, <2>2, HolderContent
  <2>3. CASE ~Holding(saver[s])
    <3>1. (\E d \in Doc : Ask(s, d)) \/ Lock(s) \/ RefuseClosed(s)
      BY <2>1, <2>3
         DEF SaveNext, Holding, Enter, Admit, Refuse, Write, Activate, Restore, RestoreFails, Commit, Signal
    <3>2. UNCHANGED <<file, seen, live, diverged, edited>>
      BY <3>1 DEF Ask, Lock, RefuseClosed
    <3>3. ~Busy(saver[s])
      BY <2>3 DEF Busy, Holding
    <3>4. ~Busy(saver'[s]) /\ \A x \in Saver \ {s} : saver'[x] = saver[x]
      BY <3>1, SlotParts DEF Ask, Lock, RefuseClosed, Moves, Busy, Idle, SaverRec
    <3> QED
      BY <3>2, <3>3, <3>4, QuietContent DEF Saving, Busy
  <2> QED
    BY <2>2, <2>3
<1>2. CASE \E c \in Content : Edit(c)
  BY <1>2 DEF Edit, ContentInv, SeenIsLive, OwnBytes, FileIsLive, OwnWriteKnown
<1>3. CASE UNCHANGED <<file, seen, live, diverged, edited, saver>>
  BY <1>3, QuietContent DEF Saving
<1>4. OtherNext \/ UNCHANGED allVars =>
        (\E c \in Content : Edit(c)) \/ UNCHANGED <<file, seen, live, diverged, edited, saver>>
  BY DEF OtherNext, LoopNext, Receive, Read, Apply, Cause, ProducersEnd, BeginShutdown, TakeSlot,
         Overrun, SinksEnd, Finish, service, vars, allVars
<1> QED
  BY <1>1, <1>2, <1>3, <1>4 DEF DrainNext, OtherNext
LEMMA ReadStep == ASSUME SlotInv, ReadIsLive, [DrainNext]_allVars PROVE ReadIsLive'
<1> DEFINE quiet == \A s \in Saver : saver[s].at # "signalling"
<1>1. CASE \E s \in Saver : SaveNext(s) /\ UNCHANGED drain
  <2>1. PICK s \in Saver : SaveNext(s)
    BY <1>1
  <2>2. UNCHANGED <<loop, applied>>
    BY <2>1 DEF SaveNext, Ask, Lock, RefuseClosed, Enter, Admit, Refuse, Write, Activate, Restore,
                RestoreFails, Commit, Signal
  <2>3. CASE Commit(s) \/ RestoreFails(s)
    <3>1. saver'[s].at = "signalling"
      BY <2>3, SlotParts, MoveSaver DEF Commit, RestoreFails, At
    <3> QED
      BY <3>1 DEF ReadIsLive
  <2>4. CASE Signal(s)
    BY <2>4 DEF Signal, ReadIsLive
  <2>5. CASE ~(Commit(s) \/ RestoreFails(s) \/ Signal(s))
    <3>1. UNCHANGED <<live, changed>>
      BY <2>1, <2>5 DEF SaveNext, Ask, Lock, RefuseClosed, Enter, Admit, Refuse, Write, Activate, Restore
    <3>2. saver[s].at # "signalling" /\ \A x \in Saver \ {s} : saver'[x] = saver[x]
      BY <2>1, <2>5, SlotParts
         DEF SaveNext, Ask, Lock, RefuseClosed, Enter, Admit, Refuse, Write, Activate, Restore, Moves, Returns
    <3> QED
      BY <2>2, <3>1, <3>2 DEF ReadIsLive
  <2> QED
    BY <2>3, <2>4, <2>5
<1>2. CASE Receive \/ Read \/ Apply
  BY <1>2 DEF Receive, Read, Apply, ReadIsLive, service
<1>3. OtherNext \/ UNCHANGED allVars =>
        Receive \/ Read \/ Apply \/ UNCHANGED <<live, changed, saver, loop, applied>>
  BY DEF OtherNext, LoopNext, Edit, Cause, ProducersEnd, BeginShutdown, TakeSlot,
         Overrun, SinksEnd, Finish, service, vars, allVars
<1>4. CASE UNCHANGED <<live, changed, saver, loop, applied>>
  BY <1>4 DEF ReadIsLive
<1> QED
  BY <1>1, <1>2, <1>3, <1>4 DEF DrainNext, OtherNext

LEMMA KeptStep == ASSUME SlotInv, SlotKept, [DrainNext]_allVars PROVE SlotKept'
<1>1. CASE \E s \in Saver : SaveNext(s) /\ UNCHANGED drain
  <2>1. PICK s \in Saver : SaveNext(s) /\ UNCHANGED drain
    BY <1>1
  <2>2. slot = Taken => ~Holding(saver[s])
    BY SlotParts, NoneAssumption DEF SaversHold
  <2>3. slot = Taken => slot' = Taken
    BY <2>1, <2>2, NoneAssumption
       DEF SaveNext, Holding, Ask, Lock, RefuseClosed, Enter, Admit, Refuse, Write, Activate, Restore,
           RestoreFails, Commit, Signal
  <2> QED
    BY <2>1, <2>3 DEF SlotKept, drain
<1>2. CASE UNCHANGED <<slot, drain>>
  BY <1>2 DEF SlotKept, drain
<1>3. CASE Cause \/ ProducersEnd \/ BeginShutdown \/ TakeSlot \/ Overrun \/ SinksEnd \/ Finish
  BY <1>3 DEF Cause, ProducersEnd, BeginShutdown, TakeSlot, Overrun, SinksEnd, Finish, vars, service, SlotKept
<1>4. (\E c \in Content : Edit(c)) \/ LoopNext => slot' = slot
  BY DEF Edit, LoopNext, Receive, Read, Apply, service
<1> QED
  BY <1>1, <1>2, <1>3, <1>4 DEF DrainNext, allVars, vars, service

---------------------------------------------------------------------------
(* The theorems                                                            *)

Inv == SlotInv /\ ContentInv /\ ReadIsLive /\ SlotKept

LEMMA InitInv == DrainInit => Inv
<1> SUFFICES ASSUME DrainInit PROVE Inv
  OBVIOUS
<1>1. \A s \in Saver : saver[s].at = "idle"
  BY DEF DrainInit, Init, Idle
<1>2. ContentInv
  BY <1>1 DEF DrainInit, Init, ContentInv, SeenIsLive, OwnBytes, FileIsLive, OwnWriteKnown
<1>3. ReadIsLive /\ SlotKept
  BY DEF DrainInit, Init, ReadIsLive, SlotKept
<1> QED
  BY InitSlot, <1>2, <1>3 DEF Inv

\* The inductive invariant.
THEOREM Invariance == DrainSpec => []Inv
<1>1. Inv /\ [DrainNext]_allVars => Inv'
  BY SlotStep, ContentStep, ReadStep, KeptStep DEF Inv
<1> QED
  BY InitInv, <1>1, PTL DEF DrainSpec

\* Between Saves the file is what is live, or Diverged says it is not,
\* whichever write, activation and restore failed or was cancelled.
THEOREM FileStaysLive == DrainSpec => []FileIsLive
<1>1. Inv => FileIsLive
  BY DEF Inv, ContentInv
<1> QED
  BY Invariance, <1>1, PTL

\* What the service did to the file itself is its baseline.
THEOREM OwnWritesKnown == DrainSpec => []OwnWriteKnown
<1>1. Inv => OwnWriteKnown
  BY DEF Inv, ContentInv
<1> QED
  BY Invariance, <1>1, PTL

\* The change loop never waits, with no signal to come, on settings it has
\* not read.
THEOREM SettingsSeen == DrainSpec => []NoSettingsMissed
<1>1. Inv => NoSettingsMissed
  BY DEF Inv, ReadIsLive, NoSettingsMissed
<1> QED
  BY Invariance, <1>1, PTL

\* No Save is under way, or can begin, on a closed store.
THEOREM StoreClosesAlone == DrainSpec => []StoreClosedAlone
<1>1. Inv => StoreClosedAlone
  <2> SUFFICES ASSUME Inv, stage = "closed" PROVE \A s \in Saver : ~Holding(saver[s]) /\ slot = Taken
    BY DEF StoreClosedAlone, Holding
  <2>1. slot = Taken
    BY DEF Inv, SlotKept
  <2> QED
    BY <2>1, SlotParts, NoneAssumption DEF Inv, SaversHold
<1> QED
  BY Invariance, <1>1, PTL

\* A document becomes live only over the revision it was edited from.
THEOREM UpdatesKept == DrainSpec => NoLostUpdate
<1>1. Inv /\ [DrainNext]_allVars => [live' # live => \E s \in Saver : slot = s /\ saver[s].base = live.rev]_vars
  <2> SUFFICES ASSUME Inv, [DrainNext]_allVars, live' # live
               PROVE  \E s \in Saver : slot = s /\ saver[s].base = live.rev
    OBVIOUS
  <2>1. PICK s \in Saver : Commit(s)
    BY DEF DrainNext, SaveNext, Ask, Lock, RefuseClosed, Enter, Admit, Refuse, Write, Activate, Restore,
           RestoreFails, Signal, Edit, LoopNext, Receive, Read, Apply, Cause, ProducersEnd, BeginShutdown,
           TakeSlot, Overrun, SinksEnd, Finish, service, vars, allVars
  <2>2. slot = s /\ saver[s].base = live.rev
    BY <2>1, SlotParts DEF Inv, Commit, BaseLive, Checked, SaversHold, Holding
  <2> QED
    BY <2>2
<1> QED
  BY Invariance, <1>1, PTL DEF DrainSpec, NoLostUpdate

\* The file, what the service knows of it and what the loop applied follow
\* what is live.
THEOREM SettingsStayAgreed == DrainSpec => []SettingsAgree
BY FileStaysLive, OwnWritesKnown, SettingsSeen, PTL DEF SettingsAgree
=============================================================================
