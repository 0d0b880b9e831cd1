------------------------- MODULE SourceAnswersProofs -------------------------
(***************************************************************************)
(* Theorems about SourceAnswers, for any settings, mappings and paths:     *)
(* what the settings accept as mappings never leads two paths to one file, *)
(* and what a saved source may change without an answer.                   *)
(*                                                                         *)
(* No property of the mappings needs the longest one: two mappings a path  *)
(* can come back from nest under each other exactly, so both give the      *)
(* same.                                                                   *)
(***************************************************************************)
EXTENDS SourceAnswers, TableTheorems

Mapping == [from : Path, to : Path]

\* A set of lengths that is bounded has a greatest.
LEMMA Greatest ==
    ASSUME NEW T, T \subseteq Nat, T # {}, NEW n \in Nat, \A x \in T : x <= n
    PROVE  \E x \in T : \A y \in T : y <= x
<1>. DEFINE short == {n - x : x \in T}
<1>1. short \subseteq Nat /\ short # {}
  <2>1. ASSUME NEW x \in T PROVE n - x \in Nat
    <3>1. x \in Nat /\ x <= n
      OBVIOUS
    <3>. QED BY <3>1
  <2>. QED BY <2>1
<1>3. PICK m \in short : \A y \in short : m <= y
  <2>1. PICK S : S = short
    OBVIOUS
  <2>2. \E z \in S : \A y \in S : z <= y
    BY <1>1, <2>1, Least
  <2>. QED BY <2>1, <2>2
<1>4. PICK x \in T : m = n - x
  BY <1>3
<1>5. ASSUME NEW y \in T PROVE y <= x
  <2>1. n - x <= n - y /\ x \in Nat /\ y \in Nat
    BY <1>3, <1>4
  <2>. QED BY <2>1
<1>. QED BY <1>5

\* A path that some mapping contains is led by one of them.
LEMMA LongestMatches ==
    ASSUME NEW ms \in SUBSET Mapping, NEW p \in Path, Matching(ms, p) # {}
    PROVE  Longest(ms, p) \in Matching(ms, p)
<1>. DEFINE lengths == {Len(m.from) : m \in Matching(ms, p)}
<1>1. ASSUME NEW m \in Matching(ms, p) PROVE Len(m.from) \in Nat /\ Len(m.from) <= Len(p)
  <2>1. m.from \in Seq(Component) /\ Under(m.from, p)
    BY DEF Matching, Mapping, Path
  <2>. QED BY <2>1 DEF Under
<1>2. PICK x \in lengths : \A y \in lengths : y <= x
  <2>1. lengths \subseteq Nat /\ lengths # {} /\ \A x \in lengths : x <= Len(p)
    BY <1>1
  <2>2. Len(p) \in Nat
    BY DEF Path
  <2>3. PICK T : T = lengths
    OBVIOUS
  <2>4. \E x \in T : \A y \in T : y <= x
    BY <2>1, <2>2, <2>3, Greatest
  <2>. QED BY <2>3, <2>4
<1>3. PICK m \in Matching(ms, p) : x = Len(m.from)
  BY <1>2
<1>4. \A n \in Matching(ms, p) : Len(n.from) <= Len(m.from)
  BY <1>2, <1>3
<1>. QED BY <1>4 DEF Longest

\* A sequence after another begins with the one and ends with the other.
LEMMA Joined ==
    ASSUME NEW r \in Seq(Component), NEW t \in Seq(Component)
    PROVE  /\ t \o r \in Seq(Component) /\ Len(t \o r) = Len(t) + Len(r)
           /\ \A i \in 1 .. Len(t) : (t \o r)[i] = t[i]
           /\ \A i \in 1 .. Len(r) : (t \o r)[Len(t) + i] = r[i]
OBVIOUS

\* What a path is led to lies under the mapping's to, by the path it lay under
\* its from.
LEMMA Landing ==
    ASSUME NEW m \in Mapping, NEW p \in Path, Under(m.from, p)
    PROVE  /\ m.to \o Rel(m.from, p) \in Path
           /\ Len(m.to \o Rel(m.from, p)) = Len(m.to) + (Len(p) - Len(m.from))
           /\ Under(m.to, m.to \o Rel(m.from, p))
           /\ \A i \in Len(m.from) + 1 .. Len(p) :
                 (m.to \o Rel(m.from, p))[Len(m.to) + (i - Len(m.from))] = p[i]
<1>1. /\ m.to \in Seq(Component) /\ m.from \in Seq(Component) /\ p \in Seq(Component)
      /\ Len(m.from) <= Len(p) /\ Len(m.from) \in Nat /\ Len(p) \in Nat
  BY DEF Mapping, Path, Under
<1>2. /\ Rel(m.from, p) \in Seq(Component)
      /\ Len(Rel(m.from, p)) = Len(p) - Len(m.from)
      /\ \A i \in 1 .. Len(p) - Len(m.from) : Rel(m.from, p)[i] = p[Len(m.from) + i]
  BY <1>1 DEF Rel
<1>4. /\ m.to \o Rel(m.from, p) \in Seq(Component)
      /\ Len(m.to \o Rel(m.from, p)) = Len(m.to) + Len(Rel(m.from, p))
      /\ \A i \in 1 .. Len(m.to) : (m.to \o Rel(m.from, p))[i] = m.to[i]
      /\ \A i \in 1 .. Len(Rel(m.from, p)) : (m.to \o Rel(m.from, p))[Len(m.to) + i] = Rel(m.from, p)[i]
  BY <1>1, <1>2, Joined
<1>5. \A i \in Len(m.from) + 1 .. Len(p) : (m.to \o Rel(m.from, p))[Len(m.to) + (i - Len(m.from))] = p[i]
  <2>1. ASSUME NEW i \in Len(m.from) + 1 .. Len(p)
        PROVE  (m.to \o Rel(m.from, p))[Len(m.to) + (i - Len(m.from))] = p[i]
    <3>1. PICK j : j = i - Len(m.from)
      OBVIOUS
    <3>2. j \in 1 .. Len(p) - Len(m.from) /\ Len(m.from) + j = i
      BY <1>1, <3>1
    <3>3. (m.to \o Rel(m.from, p))[Len(m.to) + j] = p[i]
      BY <1>2, <1>4, <3>2
    <3>. QED BY <3>1, <3>3
  <2>. QED BY <2>1
<1>6. Under(m.to, m.to \o Rel(m.from, p))
  <2>1. PICK y : y = m.to \o Rel(m.from, p)
    OBVIOUS
  <2>2. Len(m.to) \in Nat /\ Len(Rel(m.from, p)) \in Nat /\ Len(y) = Len(m.to) + Len(Rel(m.from, p))
    <3>1. Len(m.to) \in Nat
      BY <1>1
    <3>2. Len(Rel(m.from, p)) \in Nat
      BY ONLY <1>1, <1>2
    <3>3. Len(y) = Len(m.to) + Len(Rel(m.from, p))
      BY <1>4, <2>1
    <3>. QED BY <3>1, <3>2, <3>3
  <2>3. \A i \in 1 .. Len(m.to) : y[i] = m.to[i]
    BY <1>4, <2>1
  <2>4. Len(m.to) <= Len(y)
    <3>1. PICK a \in Nat, b \in Nat : a = Len(m.to) /\ Len(y) = a + b
      BY <2>2
    <3>2. a <= a + b
      OBVIOUS
    <3>. QED BY <3>1, <3>2, Zenon
  <2>5. \A i \in 1 .. Len(m.to) : m.to[i] = y[i]
    BY <2>3
  <2>6. Under(m.to, y)
    BY <2>4, <2>5, Zenon DEF Under
  <2>. QED BY <2>1, <2>6
<1>. QED BY <1>2, <1>4, <1>5, <1>6 DEF Path

\* Two paths under mappings that nest exactly, led to one path, are one path.
LEMMA NestedAgree ==
    ASSUME NEW m \in Mapping, NEW n \in Mapping, NEW p \in Path, NEW q \in Path,
           Under(m.from, p), Under(n.from, q), Under(m.from, n.from), Under(m.to, n.to),
           Rel(m.from, n.from) = Rel(m.to, n.to),
           m.to \o Rel(m.from, p) = n.to \o Rel(n.from, q)
    PROVE  p = q
<1>1. PICK x : x = m.to \o Rel(m.from, p) /\ x = n.to \o Rel(n.from, q)
  OBVIOUS
<1>2. /\ Len(x) = Len(m.to) + (Len(p) - Len(m.from)) /\ Len(x) = Len(n.to) + (Len(q) - Len(n.from))
      /\ Under(n.to, x)
      /\ \A i \in Len(m.from) + 1 .. Len(p) : x[Len(m.to) + (i - Len(m.from))] = p[i]
      /\ \A i \in Len(n.from) + 1 .. Len(q) : x[Len(n.to) + (i - Len(n.from))] = q[i]
  <2>1. /\ Len(m.to \o Rel(m.from, p)) = Len(m.to) + (Len(p) - Len(m.from))
        /\ \A i \in Len(m.from) + 1 .. Len(p) : (m.to \o Rel(m.from, p))[Len(m.to) + (i - Len(m.from))] = p[i]
    BY Landing
  <2>2. /\ Len(n.to \o Rel(n.from, q)) = Len(n.to) + (Len(q) - Len(n.from))
        /\ Under(n.to, n.to \o Rel(n.from, q))
        /\ \A i \in Len(n.from) + 1 .. Len(q) : (n.to \o Rel(n.from, q))[Len(n.to) + (i - Len(n.from))] = q[i]
    BY Landing
  <2>. QED BY ONLY <1>1, <2>1, <2>2
<1>3. PICK f, g, t, u : f = Len(m.from) /\ g = Len(n.from) /\ t = Len(m.to) /\ u = Len(n.to)
  OBVIOUS
<1>4. /\ f \in Nat /\ g \in Nat /\ t \in Nat /\ u \in Nat /\ Len(p) \in Nat /\ Len(q) \in Nat
      /\ f <= g /\ t <= u /\ f <= Len(p) /\ g <= Len(q)
  <2>1. m.from \in Seq(Component) /\ n.from \in Seq(Component) /\ m.to \in Seq(Component) /\ n.to \in Seq(Component)
        /\ p \in Seq(Component) /\ q \in Seq(Component)
    BY DEF Mapping, Path
  <2>2. f <= g /\ t <= u /\ f <= Len(p) /\ g <= Len(q)
    BY <1>3 DEF Under
  <2>. QED BY <1>3, <2>1, <2>2
<1>5. /\ DOMAIN Rel(m.from, n.from) = 1 .. g - f /\ DOMAIN Rel(m.to, n.to) = 1 .. u - t
      /\ \A i \in 1 .. g - f : Rel(m.from, n.from)[i] = n.from[f + i]
      /\ \A i \in 1 .. u - t : Rel(m.to, n.to)[i] = n.to[t + i]
  BY <1>3 DEF Rel
<1>6. g - f = u - t
  <2>1. 1 .. g - f = 1 .. u - t
    BY <1>5
  <2>2. PICK a, b : a = g - f /\ b = u - t /\ a \in Nat /\ b \in Nat
    BY <1>4
  <2>3. 1 .. a = 1 .. b
    BY <2>1, <2>2
  <2>4. a = b
    BY ONLY <2>2, <2>3
  <2>. QED BY <2>2, <2>4
<1>7. Len(p) = Len(q)
  <2>1. t + (Len(p) - f) = u + (Len(q) - g)
    BY <1>2, <1>3
  <2>. QED BY ONLY <2>1, <1>4, <1>6
<1>8. ASSUME NEW i \in 1 .. Len(p) PROVE p[i] = q[i]
  <2>1. CASE i <= f
    <3>1. p[i] = m.from[i] /\ n.from[i] = m.from[i] /\ q[i] = n.from[i]
      <4>1. i \in 1 .. Len(m.from) /\ i \in 1 .. Len(n.from)
        BY <1>3, <1>4, <2>1
      <4>. QED BY <4>1 DEF Under
    <3>. QED BY <3>1
  <2>2. CASE i > f /\ i <= g
    <3>1. PICK j : j = i - f /\ j \in 1 .. g - f /\ f + j = i /\ t + j \in 1 .. u
      BY <2>2, <1>4, <1>6
    <3>2. p[i] = x[t + j]
      <4>1. i \in Len(m.from) + 1 .. Len(p)
        BY <1>3, <1>4, <2>2
      <4>. QED BY <1>2, <1>3, <3>1, <4>1
    <3>3. x[t + j] = n.to[t + j]
      BY <1>2, <1>3, <3>1 DEF Under
    <3>4. n.to[t + j] = n.from[i]
      BY <1>5, <1>6, <3>1
    <3>5. q[i] = n.from[i]
      <4>1. i \in 1 .. Len(n.from)
        BY <1>3, <1>4, <2>2
      <4>. QED BY <4>1 DEF Under
    <3>. QED BY <3>2, <3>3, <3>4, <3>5
  <2>3. CASE i > g
    <3>1. i \in Len(m.from) + 1 .. Len(p) /\ i \in Len(n.from) + 1 .. Len(q)
      BY <1>3, <1>4, <1>7, <2>3
    <3>2. p[i] = x[t + (i - f)] /\ q[i] = x[u + (i - g)]
      BY <1>2, <1>3, <3>1
    <3>3. t + (i - f) = u + (i - g)
      BY <1>4, <1>6
    <3>. QED BY <3>2, <3>3
  <2>. QED BY <2>1, <2>2, <2>3, <1>4
<1>. QED BY <1>7, <1>8 DEF Path

\* "so no two reported paths map to one local path" (mapping.go), for any
\* mappings the settings accept and any two paths.
THEOREM MappingsNeverAlias ==
    ASSUME NEW ms \in SUBSET Mapping, NEW p \in Path, NEW q \in Path
    PROVE  NoAlias(ms, p, q)
<1>. SUFFICES ASSUME Parsed(ms), p # q, ~ToLocal(ms, p).refused, ToLocal(ms, p) = ToLocal(ms, q)
              PROVE  FALSE
  BY DEF NoAlias
<1>1. ASSUME NEW r \in Path, ~ToLocal(ms, r).refused
      PROVE  \/ \E m \in ms : Under(m.from, r) /\ ToLocal(ms, r).path = m.to \o Rel(m.from, r)
             \/ (\A m \in ms : ~Under(m.to, r)) /\ ToLocal(ms, r).path = r
  <2>1. CASE Matching(ms, r) # {}
    <3>1. Longest(ms, r) \in ms /\ Under(Longest(ms, r).from, r)
      BY <2>1, LongestMatches DEF Matching
    <3>. QED BY <2>1, <3>1 DEF ToLocal, Local
  <2>2. CASE Matching(ms, r) = {}
    BY <2>2, <1>1 DEF ToLocal, Local, NotLocal
  <2>. QED BY <2>1, <2>2
<1>2. ~ToLocal(ms, q).refused /\ ToLocal(ms, p).path = ToLocal(ms, q).path
  OBVIOUS
<1>3. ASSUME NEW a \in Path, NEW b \in Path, NEW m \in ms, Under(m.from, a),
             \A k \in ms : ~Under(k.to, b), m.to \o Rel(m.from, a) = b
      PROVE  FALSE
  <2>1. Under(m.to, m.to \o Rel(m.from, a))
    BY <1>3, Landing
  <2>. QED BY <2>1, <1>3
<1>4. ASSUME NEW m \in ms, NEW n \in ms, Under(m.from, p), Under(n.from, q),
             m.to \o Rel(m.from, p) = n.to \o Rel(n.from, q)
      PROVE  FALSE
  <2>. DEFINE x == m.to \o Rel(m.from, p)
  <2>1. m \in Mapping /\ n \in Mapping
    OBVIOUS
  <2>2. Under(m.to, x) /\ Under(n.to, x)
    BY <1>4, <2>1, Landing
  <2>3. Under(m.to, n.to) \/ Under(n.to, m.to)
    <3>1. PICK y : y = x
      OBVIOUS
    <3>2. Under(m.to, y) /\ Under(n.to, y)
      BY <2>2, <3>1
    <3>3. Len(m.to) \in Nat /\ Len(n.to) \in Nat
      BY <2>1 DEF Mapping, Path
    <3>. QED BY ONLY <3>2, <3>3 DEF Under
  <2>4. CASE m = n
    <3>1. Under(m.from, m.from) /\ Under(m.to, m.to) /\ Rel(m.from, m.from) = Rel(m.to, m.to)
      BY <2>1 DEF Under, Rel, Mapping, Path
    <3>. QED BY <2>1, <2>4, <3>1, <1>4, NestedAgree
  <2>5. CASE m # n
    <3>1. NestsExactly(m, n)
      BY <2>3, <2>5 DEF Parsed, Injective, Overlaps
    <3>2. CASE Under(m.to, n.to)
      BY <3>1, <3>2, <2>1, <1>4, NestedAgree DEF NestsExactly
    <3>3. CASE ~Under(m.to, n.to)
      <4>1. n.to \o Rel(n.from, q) = m.to \o Rel(m.from, p)
        BY <1>4
      <4>. QED BY <3>1, <3>3, <2>1, <2>3, <1>4, <4>1, NestedAgree DEF NestsExactly
    <3>. QED BY <3>2, <3>3
  <2>. QED BY <2>4, <2>5
<1>. QED BY <1>1, <1>2, <1>3, <1>4
(***************************************************************************)
(* Theorems: the sources section, for any entries and any line of saves.   *)
(***************************************************************************)

Saved(ID, T, C) == [id : ID, type : T, connection : C, index : Nat]

\* An entry whose connection did not change has it from the save before.
LEMMA KeptFromBefore ==
    ASSUME NEW prev, NEW c, ~ChangedConnection(prev, c)
    PROVE  \E d \in ToSet(prev) : d.type = c.type /\ d.connection = c.connection
BY DEF ChangedConnection, ToSet

\* However long a line of accepted saves is, each connection of each has
\* answered a ping; and where no two entries have one id, a save that brings no
\* new connection is not refused while they are down (check.go, CheckSaved).
THEOREM SavesHaveAnswered ==
    ASSUME NEW ID, NEW T, NEW C, NEW saves \in Seq(Seq(Saved(ID, T, C))), NEW up,
           \A k \in DOMAIN saves : \A i, j \in DOMAIN saves[k] : saves[k][i].id = saves[k][j].id => i = j
    PROVE  SavedHasAnswered(saves, up)
<1>. DEFINE prev(k) == IF k = 1 THEN <<>> ELSE saves[k - 1]
            connections(l) == {[c EXCEPT !.index = 0] : c \in ToSet(l)}
            heard(k) == \A c \in ToSet(saves[k]) : <<c.type, c.connection>> \in up
<1>1. ASSUME \A k \in DOMAIN saves : CheckSaved(prev(k), saves[k], up) = {}, NEW k \in DOMAIN saves
      PROVE heard(k)
  <2>1. PICK late : late = {n \in DOMAIN saves : ~heard(n)}
    OBVIOUS
  <2>. SUFFICES ASSUME late # {} PROVE FALSE
    BY <2>1
  <2>2. PICK n \in late : \A m \in late : n <= m
    <3>1. late \subseteq Nat
      BY <2>1
    <3>. QED BY <3>1, Least
  <2>3. n \in DOMAIN saves /\ ~heard(n)
    BY <2>1
  <2>4. PICK c \in ToSet(saves[n]) : <<c.type, c.connection>> \notin up
    BY <2>3
  <2>5. ~ChangedConnection(prev(n), c)
    <3>1. CheckSaved(prev(n), saves[n], up) = {}
      BY <1>1, <2>3
    <3>2. ASSUME ChangedConnection(prev(n), c) PROVE c.index \in CheckSaved(prev(n), saves[n], up)
      BY <2>4, <3>2, Zenon DEF CheckSaved
    <3>. QED BY <3>1, <3>2
  <2>6. PICK d \in ToSet(prev(n)) : d.type = c.type /\ d.connection = c.connection
    BY <2>5, KeptFromBefore
  <2>7. CASE n = 1
    BY <2>6, <2>7 DEF ToSet
  <2>8. CASE n # 1
    <3>1. n - 1 \in DOMAIN saves /\ ~(n <= n - 1)
      BY <2>3, <2>8
    <3>2. heard(n - 1)
      BY <2>1, <2>2, <3>1
    <3>. QED BY <2>4, <2>6, <2>8, <3>2
  <2>. QED BY <2>7, <2>8
<1>2. ASSUME NEW k \in DOMAIN saves, connections(saves[k]) \subseteq connections(prev(k))
      PROVE CheckSaved(prev(k), saves[k], {}) = {}
  <2>. SUFFICES ASSUME NEW c \in ToSet(saves[k]) PROVE ~ChangedConnection(prev(k), c)
    BY DEF CheckSaved
  <2>1. PICK d \in ToSet(prev(k)) : [c EXCEPT !.index = 0] = [d EXCEPT !.index = 0]
    BY <1>2
  <2>2. k # 1
    BY <2>1 DEF ToSet
  <2>3. k - 1 \in DOMAIN saves /\ prev(k) = saves[k - 1]
    BY <2>2
  <2>4. saves[k] \in Seq(Saved(ID, T, C)) /\ prev(k) \in Seq(Saved(ID, T, C))
    BY <2>3
  <2>5. c \in Saved(ID, T, C) /\ d \in Saved(ID, T, C)
    BY <2>4 DEF ToSet
  <2>6. c.id = d.id /\ c.type = d.type /\ c.connection = d.connection
    BY <2>1, <2>5 DEF Saved
  <2>7. PICK i \in DOMAIN prev(k) : prev(k)[i] = d
    BY DEF ToSet
  <2>8. \A j \in DOMAIN prev(k) : prev(k)[j].id = d.id => j = i
    BY <2>3, <2>7
  <2>9. i \in Nat /\ \A j \in 1 .. i - 1 : j \in DOMAIN prev(k) /\ j # i
    BY <2>4, <2>7
  <2>. QED BY <2>6, <2>7, <2>8, <2>9 DEF ChangedConnection
<1>. QED BY <1>1, <1>2 DEF SavedHasAnswered

\* An error of an entry has nothing to do with whether it is enabled.
LEMMA ErrorsOfEither ==
    ASSUME NEW e, NEW f, e # NotAMapping, f # NotAMapping, e.enabled # "bad", f.enabled # "bad",
           e.id = f.id, e.type = f.type, e.mappings = f.mappings, e.tags = f.tags,
           e.decodes = f.decodes, e.makes = f.makes
    PROVE  EntryErrors(e) = EntryErrors(f) /\ IDOf(e) = IDOf(f)
<1>1. IDOf(e) = IDOf(f)
  BY DEF IDOf
<1>2. KeyErrors(e) = KeyErrors(f)
  BY <1>1 DEF KeyErrors
<1>. QED BY <1>1, <1>2, Zenon DEF EntryErrors

\* Two entries that are one, but for whether they are enabled
Alike(e, f) ==
    \/ e = f
    \/ /\ e # NotAMapping /\ f # NotAMapping /\ e.enabled # "bad" /\ f.enabled # "bad"
       /\ e.id = f.id /\ e.type = f.type /\ e.mappings = f.mappings /\ e.tags = f.tags
       /\ e.decodes = f.decodes /\ e.makes = f.makes

\* Enabling or disabling entries makes no section one that is refused, nor
\* hides an error of one that is: "an entry with enabled: false is validated"
\* (config.go, ParseConfigs).
THEOREM DisabledIsValidated ==
    ASSUME NEW E, NEW l \in Seq(E), NEW m \in Seq(E), Len(l) = Len(m), \A i \in DOMAIN l : Alike(l[i], m[i])
    PROVE  ParseConfigs(l).errors = ParseConfigs(m).errors
<1>1. DOMAIN l = 1 .. Len(l) /\ DOMAIN m = 1 .. Len(l) /\ Len(l) \in Nat
  OBVIOUS
<1>2. ASSUME NEW i \in DOMAIN l PROVE EntryErrors(l[i]) = EntryErrors(m[i]) /\ IDOf(l[i]) = IDOf(m[i])
  BY ErrorsOfEither DEF Alike
<1>3. ASSUME NEW i \in DOMAIN l PROVE Repeats(l, i) <=> Repeats(m, i)
  <2>1. \A j \in 1 .. i - 1 : j \in DOMAIN l
    BY <1>1
  <2>. QED BY <1>2, <2>1 DEF Repeats
<1>4. ASSUME NEW i \in 1 .. Len(l)
      PROVE  EntryErrors(l[i]) \cup IDErrors(l, i) = EntryErrors(m[i]) \cup IDErrors(m, i)
  BY <1>1, <1>2, <1>3 DEF IDErrors
<1>5. ConfigErrors(l) = ConfigErrors(m)
  <2>1. \A i \in 0 .. Len(l) : i # 0 => i \in 1 .. Len(l)
    BY <1>1
  <2>. QED BY <1>4, <2>1, Zenon DEF ConfigErrors
<1>. QED BY <1>5 DEF ParseConfigs

\* The sources a section makes have one id each, whatever entries are disabled
\* (config.go, ParseConfigs).
THEOREM SourcesHaveOneID ==
    ASSUME NEW E, NEW l \in Seq(E), \A i \in 0 .. Len(l) : ParseConfigs(l).errors[i] = {},
           NEW i \in DOMAIN l, NEW j \in DOMAIN l, i # j
    PROVE  IDOf(l[i]) # IDOf(l[j])
<1>1. DOMAIN l = 1 .. Len(l) /\ Len(l) \in Nat
  OBVIOUS
<1>2. ASSUME NEW k \in DOMAIN l PROVE EntryErrors(l[k]) = {} /\ IDErrors(l, k) = {}
  <2>1. ConfigErrors(l)[k] = {} /\ k \in 0 .. Len(l) /\ k # 0
    BY <1>1 DEF ParseConfigs
  <2>2. ConfigErrors(l)[k] = EntryErrors(l[k]) \cup IDErrors(l, k)
    BY <2>1, Zenon DEF ConfigErrors
  <2>. QED BY <2>1, <2>2
<1>3. ASSUME NEW k \in DOMAIN l PROVE IDOf(l[k]) # NoID /\ ~Repeats(l, k)
  <2>1. EntryErrors(l[k]) = {} => KeyErrors(l[k]) = {}
    BY Zenon DEF EntryErrors
  <2>2. IDOf(l[k]) = NoID => "id" \in KeyErrors(l[k])
    BY DEF KeyErrors
  <2>3. ~Repeats(l, k)
    BY <1>2 DEF IDErrors
  <2>. QED BY <1>2, <2>1, <2>2, <2>3
<1>4. ASSUME NEW a \in DOMAIN l, NEW b \in DOMAIN l, a < b PROVE IDOf(l[a]) # IDOf(l[b])
  <2>1. a \in 1 .. b - 1
    BY <1>1, <1>4
  <2>. QED BY <1>3, <2>1 DEF Repeats
<1>5. i < j \/ j < i
  BY <1>1
<1>. QED BY <1>4, <1>5
=============================================================================
