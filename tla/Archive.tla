------------------------------- MODULE Archive -------------------------------
(***************************************************************************)
(* provider/download.go and provider/archive: the subtitle of a download   *)
(* body.  A body is what opening it does, as a zip and as a rar; a member  *)
(* its declared sizes, what epmarker reads off its name, and its content.  *)
(***************************************************************************)
EXTENDS Integers, Sequences, FiniteSets, SequencesExt

CONSTANTS
    MaxEntries,  \* maxZipEntries and maxRAREntries
    BombRatio,
    MaxExtract,  \* maxExtractSize
    MaxInt       \* the largest size an int64 holds

AnyEpisode == "any"

\* Target.Matches and MatchesBareEpisode, of what epmarker reads of the name:
\* claims, and bare, a leading number in a name that claims nothing, or 0
Matches(want, m) == want = AnyEpisode \/ want \in m.claims
MatchesBare(want, m) == want # AnyEpisode /\ m.claims = {} /\ m.bare = want[2]

\* Faulty Gate: a size that wraps is compared as it is.
GateWraps(m) ==
    /\ m.subtitle
    /\ ~(m.packed = 0 /\ m.unpacked > 0)
    /\ m.packed > 0 => m.unpacked \div m.packed <= BombRatio

\* gate: no directory, no other file, no size undeclared or past an int64,
\* no expansion above the ratio
Gate(m) ==
    /\ m.subtitle
    /\ m.packed <= MaxInt /\ m.unpacked <= MaxInt
    /\ ~(m.packed = 0 /\ m.unpacked > 0)
    /\ m.packed > 0 => m.unpacked \div m.packed <= BombRatio

\* checkMemberContent
Readable(m) == m.intact /\ m.size > 0 /\ m.size <= MaxExtract

(***************************************************************************)
(* selectMember: the first gated member that matches and reads; a bare     *)
(* number only where no gated member claims an episode                     *)
(***************************************************************************)

Gated(members) == {i \in 1 .. Len(members) : Gate(members[i])}
FirstOf(S) == CHOOSE i \in S : \A j \in S : i <= j

Refused(why) == [ok |-> FALSE, member |-> 0, why |-> why]
Chosen(i) == [ok |-> TRUE, member |-> i, why |-> ""]

\* Faulty BareStands: a bare number answers whatever else is claimed.
BareAlways(members) == TRUE

BareStands(members) == \A i \in Gated(members) : members[i].claims = {}

SelectMember(members, want) ==
    LET matching == {i \in Gated(members) : Matches(want, members[i])}
        read == {i \in matching : Readable(members[i])}
        bare == {i \in Gated(members) : MatchesBare(want, members[i]) /\ Readable(members[i])}
    IN IF read # {} THEN Chosen(FirstOf(read))
       ELSE IF bare # {} /\ BareStands(members) THEN Chosen(FirstOf(bare))
       ELSE IF matching # {} THEN Refused("every match fails to read")
       ELSE IF Gated(members) = {} THEN Refused("no subtitle member")
       ELSE Refused("no match")

(***************************************************************************)
(* Extract and ExtractAndValidate.  A body is [magic, zip, rar, text,      *)
(* cues]: text when it looks like a subtitle, cues when ParseCues accepts  *)
(* it; zip and rar are its members, or NotOne.                             *)
(***************************************************************************)

NotOne == << [packed |-> -1] >>
NotArchive == Refused("not an archive")

Inspected(members) == SubSeq(members, 1, IF Len(members) < MaxEntries THEN Len(members) ELSE MaxEntries)

\* zipMembers refuses a declared count above the cap, rarMembers stops there.
FromZip(body, want) ==
    IF body.zip = NotOne THEN NotArchive
    ELSE IF Len(body.zip) > MaxEntries THEN Refused("too many entries")
    ELSE SelectMember(body.zip, want)

FromRar(body, want) ==
    IF body.rar = NotOne THEN NotArchive
    ELSE SelectMember(Inspected(body.rar), want)

\* extractFromContainer, and statedRefusal when both fail: z and r are what
\* each opener answers
Combined(magic, z, r) ==
    CASE magic = "zip" -> [from |-> "zip", got |-> z]
      [] magic = "rar" -> [from |-> "rar", got |-> r]
      [] magic = "none" ->
           IF z.ok THEN [from |-> "zip", got |-> z]
           ELSE IF r.ok THEN [from |-> "rar", got |-> r]
           ELSE [from |-> "none", got |-> IF z # NotArchive THEN z ELSE r]

FromContainer(body, want) == Combined(body.magic, FromZip(body, want), FromRar(body, want))

\* Extract: a text is answered whole, before its container or when that fails
Whole == [from |-> "body", got |-> Chosen(0)]
OrWhole(body, c) == IF ~c.got.ok /\ body.text THEN Whole ELSE c

Extract(body, want) ==
    IF body.text /\ body.magic = "none" THEN Whole ELSE OrWhole(body, FromContainer(body, want))

\* ExtractAndValidate: the bytes answered, or a refusal
Cues(body, e) ==
    IF e.from = "body" THEN body.cues
    ELSE (IF e.from = "zip" THEN body.zip ELSE body.rar)[e.got.member].cues

Judged(body, e) ==
    IF e.got.ok THEN [e EXCEPT !.got.ok = Cues(body, e)]
    ELSE IF e.got = NotArchive /\ body.cues THEN Whole ELSE e

Validated(body, want) == Judged(body, Extract(body, want))

(***************************************************************************)
(* Properties                                                              *)
(***************************************************************************)

RightMember(members, m, want) ==
    /\ Matches(want, m) \/ (m.bare = want[2] /\ \A n \in ToSet(members) : Gate(n) => n.claims = {})
    /\ m.cues /\ m.size <= MaxExtract /\ m.unpacked <= MaxInt

\* A download that names an episode never answers with a member of another
\* one: the member claims it, or no member with a readable name claims any and
\* it states the number alone. What is answered is no larger than the cap, and
\* is declared in no size an int64 loses.
RightEpisode(body, want) ==
    \A v \in {Validated(body, want)} :
        v.got.ok /\ v.from # "body" =>
            LET members == Inspected(IF v.from = "zip" THEN body.zip ELSE body.rar)
            IN RightMember(members, members[v.got.member], want)
=============================================================================
