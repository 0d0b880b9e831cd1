------------------------------ MODULE Pipeline ------------------------------
(***************************************************************************)
(* WriteIntents together with the disk and the caller the protocol is made *)
(* for.  The caller is not in the source tree yet; it is modelled from     *)
(* what intents.go expects of it: stage, touch the disk, settle; after a   *)
(* restart judge every pending intent by the bytes on disk (Intent.SHA256, *)
(* "the content hash its outcome is judged by"), finish what landed and    *)
(* settle it.  Each disk change is atomic (a rename or an unlink).         *)
(*                                                                         *)
(* The caller keeps concurrent writes of one video apart: a pending file   *)
(* is neither superseded nor superseding another pending one, it stages    *)
(* bytes the disk does not hold yet, and it supersedes and deletes the     *)
(* bytes it knows.  The user adds files where nothing is managed or        *)
(* pending.  Every video stays owned here: ownership changes only coverage *)
(* and locks.                                                              *)
(***************************************************************************)
EXTENDS WriteIntents

VARIABLES
    disk,       \* the subtitle files beside the videos, and their bytes
    writer      \* how far the running caller is with each write it staged

pipelineVars == <<disk, writer>>
allVars == <<vars, disk, writer>>

Phase == {"staged", "written", "finished", "failed"}

Holding(f, c) == f \in DOMAIN disk /\ disk[f] = c

\* The names a pending delivery supersedes.
Superseded(f) ==
    IF intents[f].op = "deliver"
    THEN {<<f[1], m[1]>> : m \in intents[f].removes} \ {f} ELSE {}

---------------------------------------------------------------------------
(* The caller                                                              *)

\* No two writes of the caller meet on a file.
Apart(f) ==
    /\ ~Pending(f)
    /\ \A g \in DOMAIN intents : f \notin Superseded(g)

Start(f) ==
    /\ Apart(f)
    /\ writer' = Put(writer, f, "staged")
    /\ UNCHANGED disk

StartDelivery(f, r) ==
    /\ Start(f)
    /\ ~Holding(f, Plan[r].content)
    /\ f \in DOMAIN disk => Managed(f)
    /\ \A m \in Plan[r].removes : LET g == <<f[1], m[1]>> IN
          Apart(g) /\ Managed(g) /\ Holding(g, m[2])
    /\ BeginDeliver(f, r)

StartRetime(f, c, adopt) ==
    /\ Start(f)
    /\ f \in DOMAIN disk /\ ~Holding(f, c)
    /\ BeginRetime(f, c, adopt)

StartDelete(f) ==
    /\ Start(f)
    /\ f \in DOMAIN disk
    /\ BeginDelete(f)

Move(f, from, to) ==
    /\ f \in DOMAIN writer
    /\ writer[f] = from
    /\ writer' = [writer EXCEPT ![f] = to]
    /\ UNCHANGED vars

\* The disk write, which happens or fails.
Write(f) ==
    /\ Move(f, "staged", "written")
    /\ disk' = IF intents[f].op = "delete" THEN Drop(disk, {f})
               ELSE Put(disk, f, intents[f].content)

Fail(f) == Move(f, "staged", "failed") /\ UNCHANGED disk

\* A delivery removes each file it supersedes that still holds its bytes.
Finish(f) ==
    /\ Move(f, "written", "finished")
    /\ disk' = IF intents[f].op # "deliver" THEN disk
               ELSE Drop(disk, {g \in Superseded(f) :
                        \E m \in intents[f].removes : g[2] = m[1] /\ Holding(g, m[2])})

Settle(f) ==
    /\ f \in DOMAIN writer
    /\ writer[f] \in {"finished", "failed"}
    /\ LET landed == writer[f] = "finished" IN
          EndDeliver(f, landed) \/ EndRetime(f, landed) \/ EndDelete(f, landed)
    /\ writer' = Drop(writer, {f})
    /\ UNCHANGED disk

\* What the disk says of a pending write.
Landed(f) ==
    IF intents[f].op = "delete" THEN f \notin DOMAIN disk
    ELSE Holding(f, intents[f].content)

\* Recovery takes up a write whose caller is gone.
Recover(f) ==
    /\ Pending(f)
    /\ f \notin DOMAIN writer
    /\ writer' = Put(writer, f, IF Landed(f) THEN "written" ELSE "failed")
    /\ UNCHANGED <<vars, disk>>

Crash ==
    /\ Reopen
    /\ writer' = EmptyTable
    /\ UNCHANGED disk

\* The caller lists what lies beside the video that it does not manage.
List(i) ==
    LET names == {n \in Name : <<i, n>> \in DOMAIN disk /\ ~Managed(<<i, n>>)
                                 /\ ~Pending(<<i, n>>)}
    IN  /\ PutExternal(i, [n \in names |-> SubOf[disk[<<i, n>>]]])
        /\ UNCHANGED pipelineVars

UserAdds(f, c) ==
    /\ f \notin DOMAIN disk /\ ~Managed(f) /\ Apart(f)
    /\ disk' = Put(disk, f, c)
    /\ UNCHANGED <<vars, writer>>

---------------------------------------------------------------------------
PipelineInit ==
    /\ Init
    /\ disk = EmptyTable
    /\ writer = EmptyTable

CallerStep(f) ==
    \/ \E r \in Run : StartDelivery(f, r)
    \/ \E c \in Content, adopt \in BOOLEAN : StartRetime(f, c, adopt)
    \/ StartDelete(f)
    \/ Write(f)
    \/ Fail(f)
    \/ Finish(f)
    \/ Settle(f)
    \/ Recover(f)

PipelineNext ==
    \/ \E f \in File : CallerStep(f)
    \/ \E f \in File, c \in Content : UserAdds(f, c)
    \/ \E i \in Inst : List(i)
    \/ Crash
    \/ \E p \in Policy : Activate(p, {}) /\ UNCHANGED pipelineVars

PipelineSpec == PipelineInit /\ [][PipelineNext]_allVars

---------------------------------------------------------------------------
(* Properties                                                              *)

\* Once no write is pending on a video, its records name exactly bytes that
\* are on disk: a crash between the disk write and its End, at any point,
\* loses no delivered file and leaves no record of a removed one.
RecordsOnDisk ==
    \A f \in DOMAIN files :
        ~Pinned(f[1]) => Holding(f, files[f].content)

\* A managed file always has the baseline its retimes start from.
RecordHasBaseline == \A f \in DOMAIN files : f \in baselines

\* With no write pending the records name what is on disk, and each managed
\* file has its baseline.
FilesRecorded == RecordsOnDisk /\ RecordHasBaseline

\* The library a reader of the promise sees: the records, as every pending
\* write will leave them judged by the disk.
Effective(f) == Pending(f) /\ Landed(f)

ManagedNow ==
    {f \in File :
        \/ Effective(f) /\ intents[f].op # "delete"
        \/ /\ Managed(f)
           /\ ~(Effective(f) /\ intents[f].op = "delete")
           /\ \A g \in DOMAIN intents : Effective(g) => f \notin Superseded(g)}

libraryMap ==
    [f \in ManagedNow |-> IF Effective(f) THEN intents[f].content ELSE files[f].content]

outcomeMap ==
    [r \in Run |->
        IF r \notin begun THEN "idle"
        ELSE IF downloads[<<r, "undelivered">>] > 0 THEN "undelivered"
        ELSE IF \/ downloads[<<r, "delivered">>] > 0
                \/ \E f \in DOMAIN intents :
                     /\ intents[f].op = "deliver" /\ intents[f].run = r
                     /\ Effective(f)
             THEN "delivered" ELSE "offered"]

wantedMap == [r \in Run |-> Plan[r].content]

Promise == INSTANCE Library
    WITH lib <- libraryMap, outcome <- outcomeMap, Wanted <- wantedMap

\* The protocol over a disk that can be interrupted anywhere implements the
\* library whose files change in single steps.
ImplementsLibrary == Promise!Spec
=============================================================================
