--------------------------- MODULE SettingsDocument ---------------------------
(***************************************************************************)
(* The settings file as a document: what a reading of it is (shape.go,     *)
(* load.go, sections.go), what a person is shown of it (document.go), what *)
(* a saved document takes from it (merge.go), and the server section in    *)
(* force when it does not parse (server.go).                               *)
(* A node is [kind, text, odd, keys, kids]: kids are a mapping's values,   *)
(* under its keys, or a sequence's elements; odd is a tag or an anchor.    *)
(***************************************************************************)
EXTENDS Integers, Sequences, FiniteSets, SequencesExt

CONSTANTS
    PlainKeys,   \* the keys whose scalars a section's parse marks plain
    References,  \* texts that are wholly one ${NAME}
    Env,         \* the ones the environment sets, and their values
    Hosts        \* texts CanonicalHost accepts

Unchanged == "(unchanged)"   \* a scalar tagged !unchanged
NoText == "(no text)"        \* a merge key or a collection key
Null == "null"
Blank == ""

Scalar(t) == [kind |-> "scalar", text |-> t, odd |-> FALSE, keys |-> <<>>, kids |-> <<>>]
Map(ks, vs) == [Scalar("") EXCEPT !.kind = "map", !.keys = ks, !.kids = vs]
List(vs) == [Scalar("") EXCEPT !.kind = "list", !.kids = vs]
Absent == [Scalar("") EXCEPT !.kind = "absent"]
Odd(n) == [n EXCEPT !.odd = TRUE]

At(n, key) == {i \in 1 .. Len(n.keys) : n.kind = "map" /\ n.keys[i] = key}

\* mappingValue: the value of a key held once
Value(n, key) ==
    IF Cardinality(At(n, key)) = 1 THEN n.kids[CHOOSE i \in At(n, key) : TRUE] ELSE Absent

(***************************************************************************)
(* The shape walk and the sections                                         *)
(***************************************************************************)

RECURSIVE Shaped(_)
\* walkShapes finds nothing under fileShape.
Shaped(n) ==
    /\ ~n.odd
    /\ n.kind = "map" => NoText \notin ToSet(n.keys) /\ IsInjective(n.keys)
    /\ \A i \in 1 .. Len(n.kids) : Shaped(n.kids[i])

RECURSIVE Expands(_)
\* expand leaves no name.
Expands(n) ==
    /\ n.kind = "scalar" /\ n.text \in References => n.text \in DOMAIN Env
    /\ \A i \in 1 .. Len(n.kids) : Expands(n.kids[i])

Expanded(t) == IF t \in DOMAIN Env THEN Env[t] ELSE t

\* checkShapes and parse: sections are known absent only when every top-level
\* key has a text; a section held twice is tainted by its second key.
Opaque(file) == NoText \in ToSet(file.keys)
Tainted(file, key) ==
    \/ Opaque(file)
    \/ Cardinality(At(file, key)) > 1
    \/ \E i \in At(file, key) : ~Shaped(file.kids[i]) \/ ~Expands(file.kids[i])

(***************************************************************************)
(* The server section.  A policy is [active, hosts]: an inactive one       *)
(* admits every Host, an active one its own.                               *)
(***************************************************************************)

\* httpserver.ParseHostList
Policy(entries) ==
    [active |-> entries \ {Blank} # {}, hosts |-> entries \cap Hosts]

IsNull(n) == n.kind = "absent" \/ (n.kind = "scalar" /\ n.text = Null)

\* parseServer reads allowed_hosts, each entry one its parser accepts.
ServerParses(n) ==
    LET hosts == Value(n, "allowed_hosts")
    IN \/ IsNull(n)
       \/ /\ n.kind = "map" /\ ToSet(n.keys) \subseteq {"allowed_hosts", "log_level"}
          /\ IsNull(Value(n, "log_level")) \/ Value(n, "log_level").text = "info"
          /\ \/ IsNull(hosts)
             \/ /\ hosts.kind = "list"
                /\ \A i \in 1 .. Len(hosts.kids) :
                       hosts.kids[i].kind = "scalar" /\ Expanded(hosts.kids[i].text) \in Hosts

ParsedPolicy(n) ==
    LET hosts == Value(n, "allowed_hosts")
    IN Policy({Expanded(hosts.kids[i].text) : i \in 1 .. Len(hosts.kids)})

\* Each element writtenHosts passes on: one that is no text, its path
Written(e) ==
    IF e.kind # "scalar" \/ e.text \in {Null, Blank} THEN "its path" ELSE Expanded(e.text)

DenyAll == [active |-> TRUE, hosts |-> {}]

\* Faulty FailClosed: an element that is no text is left out.
FailClosedSkips(n) ==
    LET hosts == Value(n, "allowed_hosts")
    IN IF IsNull(n) THEN Policy({})
       ELSE IF n.kind # "map" \/ NoText \in ToSet(n.keys) THEN DenyAll
       ELSE IF At(n, "allowed_hosts") = {} THEN Policy({})
       ELSE IF IsNull(hosts) /\ hosts.kind = "scalar" THEN Policy({})
       ELSE IF hosts.kind # "list" THEN DenyAll
       ELSE Policy({Written(hosts.kids[i]) : i \in 1 .. Len(hosts.kids)} \ {"its path"})

\* failClosedServer: a list held twice, or that is none, denies every Host.
FailClosed(n) ==
    LET hosts == Value(n, "allowed_hosts")
    IN IF IsNull(n) THEN Policy({})
       ELSE IF n.kind # "map" \/ NoText \in ToSet(n.keys) THEN DenyAll
       ELSE IF At(n, "allowed_hosts") = {} THEN Policy({})
       ELSE IF IsNull(hosts) /\ hosts.kind = "scalar" THEN Policy({})
       ELSE IF hosts.kind # "list" THEN DenyAll
       ELSE Policy({Written(hosts.kids[i]) : i \in 1 .. Len(hosts.kids)})

\* A file that is no mapping is a root failure; the rest is parse.
InForce(file) ==
    IF file.kind = "absent" THEN Policy({})
    ELSE IF file.kind # "map" \/ Opaque(file) THEN DenyAll
    ELSE IF Tainted(file, "server") \/ ~ServerParses(Value(file, "server"))
    THEN IF Cardinality(At(file, "server")) = 1 THEN FailClosed(Value(file, "server")) ELSE DenyAll
    ELSE ParsedPolicy(Value(file, "server"))

(***************************************************************************)
(* The document a person is shown                                          *)
(***************************************************************************)

RECURSIVE Shown(_, _)
\* view: a scalar keeps its text where it is marked, or is one reference.
Shown(n, plain) ==
    IF n.kind = "scalar"
    THEN Scalar(IF ~n.odd /\ (plain \/ n.text \in References) THEN n.text ELSE Unchanged)
    ELSE IF n.kind = "list"
    THEN List([i \in 1 .. Len(n.kids) |-> Shown(n.kids[i], plain)])
    ELSE LET told == SelectSeq([i \in 1 .. Len(n.keys) |-> i], LAMBDA i : n.keys[i] # NoText)
         IN Map([i \in 1 .. Len(told) |-> n.keys[told[i]]],
                [i \in 1 .. Len(told) |-> Shown(n.kids[told[i]], n.keys[told[i]] \in PlainKeys)])

(***************************************************************************)
(* mergeDocument                                                           *)
(***************************************************************************)

RECURSIVE Holds(_)
\* holdsUnchanged
Holds(n) == (n.kind = "scalar" /\ n.text = Unchanged) \/ \E i \in 1 .. Len(n.kids) : Holds(n.kids[i])

\* entryID
HasId(e) ==
    LET v == Value(e, "id") IN v.kind = "scalar" /\ ~v.odd /\ v.text \notin {Unchanged, Blank}
WithId(list, id) ==
    {i \in 1 .. Len(list.kids) : HasId(list.kids[i]) /\ Value(list.kids[i], "id").text = id}

Refusal == [Absent EXCEPT !.text = "refused"]

\* Faulty ElementByID: the element at the entry's own place.
ElementByPlace(e, body, stored) ==
    LET i == CHOOSE k \in 1 .. Len(body.kids) : body.kids[k] = e
    IN IF stored.kind = "list" /\ i <= Len(stored.kids) THEN stored.kids[i] ELSE Absent

\* elementByID: the element whose id is held once on each side
ElementByID(e, body, stored) ==
    IF /\ HasId(e) /\ stored.kind = "list"
       /\ Cardinality(WithId(body, Value(e, "id").text)) = 1
       /\ Cardinality(WithId(stored, Value(e, "id").text)) = 1
    THEN stored.kids[CHOOSE i \in WithId(stored, Value(e, "id").text) : TRUE]
    ELSE Absent

RECURSIVE Merged(_, _)
\* mergeNode, mergeMapping and mergeSequence
Merged(b, st) ==
    IF b.kind = "scalar"
    THEN IF b.text # Unchanged THEN b
         ELSE IF st.kind = "scalar" /\ ~st.odd THEN st ELSE Refusal
    ELSE LET Of(i) == IF b.kind = "map" THEN Merged(b.kids[i], Value(st, b.keys[i]))
                      ELSE IF ~Holds(b.kids[i]) THEN Merged(b.kids[i], Absent)
                      ELSE LET e == ElementByID(b.kids[i], b, st)
                           IN IF e = Absent THEN Refusal ELSE Merged(b.kids[i], e)
             kids == [i \in 1 .. Len(b.kids) |-> Of(i)]
         IN IF Refusal \in ToSet(kids) THEN Refusal ELSE [b EXCEPT !.kids = kids]

(***************************************************************************)
(* Properties                                                              *)
(***************************************************************************)

\* The web interface answers every Host only where no file, or one mapping
\* whose list is absent, null or empty, asks for it: whatever else is wrong
\* with the file, a list written with any element admits no more than the
\* hosts it names.
HostsFailClosed(file) ==
    LET written == Value(Value(file, "server"), "allowed_hosts")
    IN /\ ~InForce(file).active =>
              \/ file.kind = "absent"
              \/ file.kind = "map" /\ ~Opaque(file) /\ (IsNull(written) \/ written.kids = <<>>)
       /\ InForce(file).hosts \subseteq {Expanded(written.kids[i].text) : i \in 1 .. Len(written.kids)}

\* Saving entries of a shown document, some left out, moved or repeated, puts
\* every secret kept back into the entry it was saved in, or is refused: no
\* entry takes another's.
SecretsStay(stored, picks) ==
    LET shown == Shown(stored, FALSE)
        kept == Merged([shown EXCEPT !.kids = [i \in 1 .. Len(picks) |-> @[picks[i]]]], stored)
    IN kept # Refusal => \A i \in 1 .. Len(picks) : kept.kids[i] = stored.kids[picks[i]]
=============================================================================
