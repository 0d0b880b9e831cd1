-------------------------- MODULE ProvidersProofs --------------------------
(***************************************************************************)
(* Proofs about the clients of the services outside, for every value of    *)
(* their constants: the account of OpenSubtitles, the history cursor of    *)
(* ArrHistory, the searches and downloads of HDBits, the episodes of AniDB *)
(* and the walks and sets of SourceSet.                                    *)
(*                                                                         *)
(* Only AniDB's properties are inductive.  A login is needed because only  *)
(* the leader is past its second look (OneLogin).  A change is named once  *)
(* because the cursor holds the id of every named record it reads again    *)
(* (NamedHeld), and none is missed because the cursor is never further     *)
(* past the clock than a record is dated (CursorNear).  Results are whole  *)
(* because a torrent is given up only in a group that has ended (GivenUp). *)
(* A pack is fetched once because a flight is its leader's from the miss   *)
(* to the landing (OneFlight).  A walk is whole because what was told so   *)
(* far is what was listed (ToldAll) and the two counts are those of the    *)
(* roots told (Counted).  A set owns its roots because the set published   *)
(* last is built from the entry that is stored (LiveIsConfigured).         *)
(***************************************************************************)
EXTENDS Services, TableTheorems,
        FiniteSetTheorems, SequenceTheorems

(***************************************************************************)
(* OpenSubtitles: the account.                                             *)
(***************************************************************************)
Places ==
    {"idle", "ensure", "join", "waiting", "loggedIn", "loginPace", "loginSent",
     "pace", "sent", "backoff", "done", "failed", "refused"}
CallType == [at : Places, left : Int, attempt : Int, with : Int]

AccountTyped == token \in Int /\ fresh \in BOOLEAN /\ issued \in Nat
CallTyped == call \in [Calls -> CallType]

\* Only the leader is between its second look and its answer, and while it
\* asks for a login there is no token to use.
OneLogin ==
    \A c \in Calls :
        /\ call[c].at \in {"loginPace", "loginSent", "loggedIn"} => c = leader
        /\ call[c].at \in {"loginPace", "loginSent"} => ~TokenValid

LoginInv == AccountTyped /\ CallTyped /\ OneLogin

\* A request has a number of legs.
LEMMA LegsTyped == \A c \in Calls : Legs(c) \in Int
BY CallsAssumption DEF Legs

\* What a login's answer makes of a call
LEMMA HearsTyped ==
    ASSUME CallTyped, NEW c \in Calls, NEW got
    PROVE Hears(c, got) \in CallType /\ Hears(c, got).at \in {"pace", "backoff", "failed"}
<1>1. call[c] \in CallType /\ Legs(c) \in Int
  BY LegsTyped DEF CallTyped
<1>2. CASE got = "ok"
  <2>1. Hears(c, got) = [call[c] EXCEPT !.at = "pace", !.left = Legs(c)]
    BY <1>2 DEF Hears
  <2> QED BY <1>1, <2>1 DEF CallType, Places
<1>3. CASE got # "ok"
  <2>1. PICK w \in {"backoff", "failed"} : Hears(c, got) = Where(c, w)[c]
    BY <1>3, Zenon DEF Hears, AfterFailure
  <2>2. Where(c, w)[c] = [call[c] EXCEPT !.at = w]
    BY DEF Where, CallTyped
  <2> QED BY <1>1, <2>1, <2>2 DEF CallType, Places
<1> QED BY <1>2, <1>3

\* A login's answer moves its leader and those that wait for it.
LEMMA AnsweredOthers ==
    ASSUME CallTyped, NEW c \in Calls, NEW own, NEW others, Answered(c, own, others)
    PROVE /\ call' \in [Calls -> CallType]
          /\ \A d \in Calls : call'[d].at = call[d].at \/ call'[d].at \in {"pace", "backoff", "failed"}
          /\ call'[c].at \in {"pace", "backoff", "failed"}
<1>1. \A d \in Calls :
          /\ call[d] \in CallType
          /\ Hears(d, own) \in CallType /\ Hears(d, own).at \in {"pace", "backoff", "failed"}
          /\ Hears(d, others) \in CallType /\ Hears(d, others).at \in {"pace", "backoff", "failed"}
  BY HearsTyped DEF CallTyped
<1>2. call' = [d \in Calls |-> IF d = c THEN Hears(c, own)
                               ELSE IF call[d].at = "waiting" THEN Hears(d, others)
                               ELSE call[d]]
  BY DEF Answered
<1>3. \A d \in Calls : call'[d] \in {call[d], Hears(d, own), Hears(d, others)}
  BY <1>2
<1>4. call'[c] = Hears(c, own)
  BY <1>2
<1>5. call' \in [Calls -> CallType]
  BY <1>1, <1>2
<1> QED BY <1>1, <1>3, <1>4, <1>5

\* The account stays typed.
LEMMA AccountTypedStep == AccountTyped /\ [ONext]_ovars => AccountTyped'
<1> SUFFICES ASSUME AccountTyped, [ONext]_ovars PROVE AccountTyped'
  OBVIOUS
<1>1. CASE UNCHANGED account
  BY <1>1 DEF AccountTyped, account
<1>2. ASSUME NEW c \in Calls, NEW got \in LoginAnswers, LoginAnswer(c, got) PROVE AccountTyped'
  <2>1. token' \in Int /\ issued' \in Nat
    BY <1>2 DEF AccountTyped, LoginAnswer
  <2>2. fresh' \in BOOLEAN
    BY <1>2, Zenon DEF AccountTyped, LoginAnswer
  <2> QED BY <2>1, <2>2 DEF AccountTyped
<1>3. ASSUME NEW c \in Calls, Unauthorized(c) PROVE AccountTyped'
  BY <1>3 DEF AccountTyped, Unauthorized, NoToken
<1>4. CASE Expire \/ \E t \in 1 .. MaxTokens : Revoke(t)
  BY <1>4 DEF AccountTyped, Expire, Revoke
<1>5. ASSUME NEW c \in Calls,
             Start(c) \/ EnsureToken(c) \/ JoinLogin(c) \/ LoggedIn(c) \/ SendLogin(c) \/ Send(c)
             \/ TransientFailure(c) \/ Backoff(c) \/ Cancel(c) \/ \E more \in BOOLEAN : Served(c, more)
      PROVE UNCHANGED account
  BY <1>5 DEF Start, EnsureToken, JoinLogin, LoggedIn, SendLogin, Send, TransientFailure, Backoff, Cancel, Served
<1>6. CASE Refill
  BY <1>1, <1>6 DEF Refill
<1>7. CASE UNCHANGED ovars
  BY <1>1, <1>7 DEF ovars
<1> QED
  BY <1>1, <1>2, <1>3, <1>4, <1>5, <1>6, <1>7 DEF ONext, Step

\* And so do the calls.
LEMMA CallTypedStep == AccountTyped /\ CallTyped /\ [ONext]_ovars => CallTyped'
<1> SUFFICES ASSUME AccountTyped, CallTyped, [ONext]_ovars PROVE CallTyped'
  OBVIOUS
<1>1. CASE UNCHANGED call
  BY <1>1 DEF CallTyped
<1>2. ASSUME NEW c \in Calls, NEW f \in CallType, call' = [call EXCEPT ![c] = f] PROVE CallTyped'
  BY <1>2 DEF CallTyped
<1>3. ASSUME NEW c \in Calls PROVE call[c] \in CallType
  BY DEF CallTyped
<1>4. ASSUME NEW c \in Calls, NEW w \in Places, call' = Where(c, w) PROVE CallTyped'
  <2>1. call' = [call EXCEPT ![c] = [call[c] EXCEPT !.at = w]]
    BY <1>4 DEF Where
  <2>2. [call[c] EXCEPT !.at = w] \in CallType
    BY <1>3 DEF CallType
  <2> QED BY <1>2, <2>1, <2>2
<1>5. ASSUME NEW c \in Calls, NEW n \in Int,
             \/ call' = [call EXCEPT ![c].at = "ensure", ![c].attempt = n]
             \/ call' = [call EXCEPT ![c].at = "pace", ![c].left = n]
             \/ call' = [call EXCEPT ![c].at = "sent", ![c].with = n]
      PROVE CallTyped'
  <2> DEFINE moved == {[call[c] EXCEPT !.at = "ensure", !.attempt = n],
                       [call[c] EXCEPT !.at = "pace", !.left = n],
                       [call[c] EXCEPT !.at = "sent", !.with = n]}
  <2>1. PICK f \in moved : call' = [call EXCEPT ![c] = f]
    BY <1>5
  <2>2. moved \subseteq CallType
    BY <1>3 DEF CallType, Places
  <2> QED BY <1>2, <2>1, <2>2
<1>6. ASSUME NEW c \in Calls PROVE call[c].attempt + 1 \in Int /\ call[c].left - 1 \in Int
  BY <1>3 DEF CallType
<1>7. ASSUME NEW c \in Calls, Start(c) PROVE CallTyped'
  <2> DEFINE first == 1
  <2>1. first \in Int /\ call' = [call EXCEPT ![c].at = "ensure", ![c].attempt = first]
    BY <1>7 DEF Start
  <2> HIDE DEF first
  <2> QED BY <1>5, <2>1
<1>8. ASSUME NEW c \in Calls, EnsureToken(c) PROVE CallTyped'
  <2>1. call' = Where(c, "join") \/ call' = [call EXCEPT ![c].at = "pace", ![c].left = Legs(c)]
    BY <1>8 DEF EnsureToken
  <2> QED BY <1>4, <1>5, <2>1, LegsTyped DEF Places
<1>9. ASSUME NEW c \in Calls, JoinLogin(c) \/ SendLogin(c) \/ TransientFailure(c) \/ Unauthorized(c)
      PROVE CallTyped'
  <2>1. PICK w \in {"loggedIn", "loginPace", "waiting", "loginSent", "backoff", "failed", "refused"} :
            call' = Where(c, w)
    BY <1>9 DEF JoinLogin, LeaderStart, SendLogin, TransientFailure, AfterFailure, Unauthorized
  <2> QED BY <1>4, <2>1 DEF Places
<1>10. ASSUME NEW c \in Calls, Backoff(c) PROVE CallTyped'
  <2>1. call' = [call EXCEPT ![c].at = "ensure", ![c].attempt = call[c].attempt + 1]
    BY <1>10 DEF Backoff
  <2> QED BY <1>5, <1>6, <2>1
<1>11. ASSUME NEW c \in Calls, Send(c) PROVE CallTyped'
  <2> DEFINE carried == IF AtFile(c) THEN NoToken ELSE token
  <2>1. carried \in Int
    BY DEF AccountTyped, NoToken
  <2>2. call' = [call EXCEPT ![c].at = "sent", ![c].with = carried]
    BY <1>11 DEF Send
  <2> QED BY <1>5, <2>1, <2>2
<1>12. ASSUME NEW c \in Calls, NEW more \in BOOLEAN, Served(c, more) PROVE CallTyped'
  <2>1. \/ call' = Where(c, "done")
        \/ call' = [call EXCEPT ![c].at = "pace", ![c].left = call[c].left - 1]
    BY <1>12 DEF Served
  <2> QED BY <1>4, <1>5, <1>6, <2>1 DEF Places
<1>13. ASSUME NEW c \in Calls, NEW got, LoggedIn(c) \/ LoginAnswer(c, got) PROVE CallTyped'
  BY <1>13, AnsweredOthers DEF LoggedIn, LoginAnswer, CallTyped
<1>14. ASSUME NEW c \in Calls, Cancel(c) PROVE CallTyped'
  <2>1. (\E others \in LoginAnswers : Answered(c, "lasting", others)) \/ call' = Where(c, "failed")
    BY <1>14 DEF Cancel
  <2> QED BY <1>4, <2>1, AnsweredOthers DEF CallTyped, Places
<1>15. CASE UNCHANGED ovars \/ Refill \/ Expire \/ \E t \in 1 .. MaxTokens : Revoke(t)
  BY <1>1, <1>15 DEF ovars, Refill, Expire, Revoke
<1>16. ASSUME NEW c \in Calls, Step(c) PROVE CallTyped'
  BY <1>8, <1>9, <1>10, <1>11, <1>12, <1>13, <1>16 DEF Step
<1> QED
  BY <1>7, <1>14, <1>15, <1>16 DEF ONext

\* Nobody else logs in while the leader does.
LEMMA OneLoginStep == LoginInv /\ [ONext]_ovars => OneLogin'
<1> SUFFICES ASSUME LoginInv, [ONext]_ovars PROVE OneLogin'
  OBVIOUS
<1>0. CallTyped /\ OneLogin
  BY DEF LoginInv
<1>1. CASE UNCHANGED ovars
  BY <1>0, <1>1 DEF ovars, account, OneLogin, TokenValid
<1>2. ASSUME NEW c \in Calls, Start(c) \/ EnsureToken(c) \/ SendLogin(c) \/ TransientFailure(c) \/ Backoff(c)
      PROVE OneLogin'
  BY <1>0, <1>2 DEF CallTyped, CallType, OneLogin, Start, EnsureToken, SendLogin, TransientFailure, AfterFailure,
                    Backoff, Where, account, TokenValid
<1>3. ASSUME NEW c \in Calls, JoinLogin(c) PROVE OneLogin'
  BY <1>0, <1>3, CallsAssumption DEF CallTyped, CallType, OneLogin, JoinLogin, LeaderStart, Where, account, TokenValid
<1>4. ASSUME NEW c \in Calls, Send(c) \/ Unauthorized(c) \/ \E more \in BOOLEAN : Served(c, more)
      PROVE OneLogin'
  BY <1>0, <1>4 DEF CallTyped, CallType, OneLogin, Send, Unauthorized, Served, Where, account, TokenValid
<1>5. ASSUME NEW c \in Calls, NEW got, LoggedIn(c) \/ LoginAnswer(c, got) PROVE OneLogin'
  <2>1. /\ c = leader
        /\ Answered(c, "ok", "ok") \/ Answered(c, got, got)
    BY <1>0, <1>5 DEF OneLogin, LoggedIn, LoginAnswer
  <2>2. /\ \A d \in Calls : call'[d].at = call[d].at \/ call'[d].at \in {"pace", "backoff", "failed"}
        /\ call'[c].at \in {"pace", "backoff", "failed"}
    BY <1>0, <2>1, AnsweredOthers
  <2>3. \A d \in Calls : call'[d].at \notin {"loginPace", "loginSent", "loggedIn"}
    BY <1>0, <2>1, <2>2 DEF OneLogin
  <2> QED BY <2>3 DEF OneLogin
<1>6. ASSUME NEW c \in Calls, Cancel(c) PROVE OneLogin'
  <2>1. CASE c = leader
    <3>1. PICK others \in LoginAnswers : Answered(c, "lasting", others)
      BY <1>6, <2>1 DEF Cancel
    <3>2. /\ \A d \in Calls : call'[d].at = call[d].at \/ call'[d].at \in {"pace", "backoff", "failed"}
          /\ call'[c].at \in {"pace", "backoff", "failed"}
      BY <1>0, <3>1, AnsweredOthers
    <3>3. \A d \in Calls : call'[d].at \notin {"loginPace", "loginSent", "loggedIn"}
      BY <1>0, <2>1, <3>2 DEF OneLogin
    <3> QED BY <3>3 DEF OneLogin
  <2>2. CASE c # leader
    BY <1>0, <1>6, <2>2 DEF CallTyped, CallType, OneLogin, Cancel, Where, account, TokenValid
  <2> QED BY <2>1, <2>2
<1>7. CASE Refill \/ Expire \/ \E t \in 1 .. MaxTokens : Revoke(t)
  BY <1>0, <1>7 DEF OneLogin, Refill, Expire, Revoke, account, TokenValid
<1>8. ASSUME NEW c \in Calls, Step(c) PROVE OneLogin'
  BY <1>2, <1>3, <1>4, <1>5, <1>8 DEF Step
<1> QED
  BY <1>1, <1>2, <1>6, <1>7, <1>8 DEF ONext

\* One login at a time, and none while a token could be used: ensureToken and
\* login however many calls share the account, and wherever each is cancelled.
THEOREM OneLoginAtATime == OSpec => []LoginNeeded
<1>1. OInit => LoginInv
  <2> SUFFICES ASSUME OInit PROVE LoginInv
    OBVIOUS
  <2>1. \A c \in Calls : call[c] = [at |-> "idle", left |-> 0, attempt |-> 0, with |-> 0]
    BY DEF OInit, NoToken
  <2>2. call \in [Calls -> CallType]
    <3>1. [at |-> "idle", left |-> 0, attempt |-> 0, with |-> 0] \in CallType
      BY DEF CallType, Places
    <3> QED BY <3>1 DEF OInit, NoToken
  <2>3. CallTyped
    BY <2>2 DEF CallTyped
  <2>4. token \in Int /\ issued \in Nat
    BY DEF OInit, NoToken
  <2>5. fresh \in BOOLEAN
    BY Zenon DEF OInit
  <2>6. OneLogin
    BY <2>1 DEF OneLogin
  <2> QED BY <2>3, <2>4, <2>5, <2>6 DEF LoginInv, AccountTyped
<1>2. LoginInv /\ [ONext]_ovars => LoginInv'
  BY AccountTypedStep, CallTypedStep, OneLoginStep DEF LoginInv
<1>3. LoginInv => LoginNeeded
  BY DEF LoginInv, OneLogin, LoginNeeded
<1> QED
  BY <1>1, <1>2, <1>3, PTL DEF OSpec

(***************************************************************************)
(* ArrHistory: the cursor.                                                 *)
(***************************************************************************)

\* What the proofs ask of the bounds.
\* recs is a history by time t.
Dated(recs, t) ==
    /\ t \in Int
    /\ recs \subseteq Record
    /\ \A r \in recs : r.at <= t /\ r.date <= r.at + MaxAhead

HistoryTyped ==
    /\ Dated(history, now)
    /\ IsFiniteSet(history)
    /\ \A r \in history : r.id <= Cardinality(history)
    /\ \A r, q \in history : r.id = q.id => r = q

CursorTyped ==
    /\ cursor \in [since : Int, seen : SUBSET (1 .. MaxRecords), held : BOOLEAN]
    /\ reported \in [1 .. MaxRecords -> Nat]

\* The cursor is never further past the clock than a counted record can be.
CursorNear == cursor.held => cursor.since <= now + DatedAhead

\* What was named or seen is in the history.
NamedExist == \A id \in 1 .. MaxRecords : reported[id] > 0 \/ id \in cursor.seen => \E r \in history : r.id = id

\* A record already named was in its window, and the cursor holds its id as
\* long as the next call reads it again.
NamedHeld ==
    cursor.held =>
        \A r \in history : reported[r.id] > 0 =>
            r.date <= now + Overlap /\ (r.date >= cursor.since - Overlap => r.id \in cursor.seen)

HistoryInv == HistoryTyped /\ CursorTyped /\ CursorNear /\ NamedExist /\ NamedHeld /\ HistoryWhole

\* A set of integers with a bound has a greatest.
LEMMA Greatest ==
    ASSUME NEW S, S \subseteq Int, S # {}, NEW b \in Int, \A x \in S : x <= b
    PROVE  Max(S) \in S /\ \A x \in S : x <= Max(S)
<1>1. PICK T : T = {b - x : x \in S}
  OBVIOUS
<1>2. PICK x \in S : \A y \in S : b - x <= b - y
  <2>0. \A x \in S : b - x \in Nat
    OBVIOUS
  <2>1. T \subseteq Nat /\ T # {}
    BY <1>1, <2>0
  <2>2. PICK n \in T : \A m \in T : n <= m
    BY ONLY <2>1, Least
  <2>. QED BY <1>1, <2>2
<1>3. \A y \in S : x >= y
  BY <1>2
<1>. QED BY <1>3 DEF Max

LEMMA LeastOfTwo ==
    ASSUME NEW a \in Int, NEW b \in Int
    PROVE  /\ Min({a, b}) \in {a, b} /\ Min({a, b}) <= a /\ Min({a, b}) <= b
<1>1. \E m \in {a, b} : \A y \in {a, b} : m <= y
  <2>1. CASE a <= b
    BY <2>1
  <2>2. CASE b <= a
    BY <2>2
  <2>. QED BY <2>1, <2>2
<1>. QED BY <1>1 DEF Min

\* How far ahead the records are dated.
Aheads(recs) == {0} \union {r.date - r.at : r \in recs}
AheadOf(recs) == Min({Overlap, Max(Aheads(recs))})

LEMMA AheadIs ==
    ASSUME NEW recs, NEW t, Dated(recs, t)
    PROVE  /\ AheadOf(recs) \in Int /\ AheadOf(recs) <= Overlap /\ AheadOf(recs) >= 0
           /\ \A r \in recs : r.date <= t + Overlap => r.date <= t + AheadOf(recs)
           /\ \E m \in Int : /\ m \in Aheads(recs)
                             /\ \A x \in Aheads(recs) : x <= m
                             /\ AheadOf(recs) = IF Overlap <= m THEN Overlap ELSE m
<1>1. Aheads(recs) \subseteq Int /\ Aheads(recs) # {}
  BY DEF Aheads, Dated, Record
<1>2. PICK b \in Nat : b >= MaxAhead
  <2>1. CASE MaxAhead >= 0
    BY <2>1, HistoryAssumption
  <2>2. CASE MaxAhead < 0
    BY <2>2, HistoryAssumption
  <2>. QED BY <2>1, <2>2, HistoryAssumption
<1>3. \A x \in Aheads(recs) : x <= b
  BY <1>2, HistoryAssumption DEF Aheads, Dated, Record
<1>4. PICK m \in Int : m = Max(Aheads(recs)) /\ m \in Aheads(recs) /\ \A x \in Aheads(recs) : x <= m
  <2>1. b \in Int
    BY <1>2
  <2>2. Max(Aheads(recs)) \in Aheads(recs) /\ \A x \in Aheads(recs) : x <= Max(Aheads(recs))
    BY ONLY <1>1, <1>3, <2>1, Greatest
  <2>. QED BY <1>1, <2>2
<1>5. AheadOf(recs) = Min({Overlap, m})
  BY <1>4 DEF AheadOf
<1>6. Overlap \in Int /\ Overlap >= 0
  BY HistoryAssumption
<1>7. AheadOf(recs) \in {Overlap, m} /\ AheadOf(recs) <= Overlap /\ AheadOf(recs) <= m
  BY ONLY <1>5, <1>6, m \in Int, LeastOfTwo
<1>8. AheadOf(recs) = IF Overlap <= m THEN Overlap ELSE m
  BY ONLY <1>6, <1>7, m \in Int
<1>9. 0 \in Aheads(recs) /\ \A r \in recs : r.date - r.at \in Aheads(recs)
  BY DEF Aheads
<1>10. ASSUME NEW r \in recs, r.date <= t + Overlap PROVE r.date <= t + AheadOf(recs)
  <2>1. r.date \in Int /\ r.at \in Int /\ r.at <= t /\ t \in Int
    BY DEF Dated, Record
  <2>2. r.date - r.at <= m
    BY <1>4, <1>9
  <2>. QED BY ONLY <2>1, <2>2, <1>8, <1>10, <1>6, m \in Int
<1>11. AheadOf(recs) >= 0
  BY ONLY <1>4, <1>8, <1>9, <1>6
<1>. QED BY ONLY <1>4, <1>6, <1>7, <1>8, <1>10, <1>11

LEMMA NewestIs ==
    ASSUME HistoryTyped, NEW recs \in SUBSET history, NEW lower \in Int
    PROVE  /\ Newest(recs, lower) \in Int /\ lower <= Newest(recs, lower)
           /\ \A r \in recs : r.date <= Newest(recs, lower)
           /\ Newest(recs, lower) = lower \/ \E r \in recs : Newest(recs, lower) = r.date
<1>1. PICK S : S = {lower} \union {r.date : r \in recs}
  OBVIOUS
<1>2. S \subseteq Int /\ S # {} /\ lower \in S /\ \A r \in recs : r.date \in S
  BY <1>1 DEF HistoryTyped, Dated, Record
<1>3. PICK b \in Int : b >= lower /\ b >= now + MaxAhead
  <2>1. now + MaxAhead \in Int
    BY HistoryAssumption DEF HistoryTyped, Dated
  <2>2. CASE lower >= now + MaxAhead
    BY <2>1, <2>2
  <2>3. CASE lower < now + MaxAhead
    BY <2>1, <2>3
  <2>. QED BY <2>1, <2>2, <2>3
<1>4. \A x \in S : x <= b
  <2>1. \A r \in recs : r.date <= b
    BY <1>3, HistoryAssumption DEF HistoryTyped, Dated, Record
  <2>. QED BY <1>1, <1>3, <2>1
<1>5. Max(S) \in S /\ \A x \in S : x <= Max(S)
  BY ONLY <1>2, <1>3, <1>4, Greatest
<1>. QED BY <1>1, <1>2, <1>5 DEF Newest

\* A longer history is dated no less far ahead.
LEMMA AheadGrows ==
    ASSUME NEW recs, NEW t, Dated(recs, t), NEW more, NEW u, Dated(more, u), recs \subseteq more
    PROVE  AheadOf(recs) <= AheadOf(more)
<1>1. PICK m \in Int : /\ m \in Aheads(recs)
                       /\ \A x \in Aheads(recs) : x <= m
                       /\ AheadOf(recs) = IF Overlap <= m THEN Overlap ELSE m
  BY AheadIs
<1>3. PICK n \in Int : /\ n \in Aheads(more)
                       /\ \A x \in Aheads(more) : x <= n
                       /\ AheadOf(more) = IF Overlap <= n THEN Overlap ELSE n
  BY AheadIs
<1>4. m <= n
  BY <1>1, <1>3 DEF Aheads
<1>. QED BY ONLY <1>1, <1>3, <1>4, HistoryAssumption

\* The records a call counts.
LEMMA WindowIs ==
    ASSUME HistoryTyped, NEW lower \in Int
    PROVE  /\ InWindow(history, lower) \subseteq history
           /\ \A r \in history : r \in InWindow(history, lower) <=> r.date >= lower /\ r.date <= now + Overlap
BY DEF InWindow

\* A call moves the cursor forward, no further than CursorNear allows, and the
\* new one holds the ids of its window's counted records.
LEMMA AdvancedIs ==
    ASSUME HistoryTyped, CursorTyped, CursorNear, cursor.held,
           NEW recs, recs = InWindow(history, cursor.since - Overlap), NEW news \in BOOLEAN,
           NEW c, c = Advanced(recs, cursor, news)
    PROVE  /\ c.since \in Int /\ c.held = TRUE /\ c \in [since : Int, seen : SUBSET (1 .. MaxRecords), held : BOOLEAN]
           /\ cursor.since <= c.since /\ c.since <= now + AheadOf(history)
           /\ \/ c = cursor /\ ~news
              \/ c.seen = SeenIn(recs, c.since) /\ \A r \in recs : r.date <= c.since
<1>1. recs \subseteq history /\ \A r \in recs : r.date <= now + AheadOf(history)
  <2>1. recs \subseteq history /\ \A r \in recs : r.date <= now + Overlap
    BY DEF InWindow
  <2>. QED BY <2>1, AheadIs DEF HistoryTyped
<1>2. cursor.since \in Int /\ now \in Int /\ Overlap \in Nat /\ AheadOf(history) \in Int /\ AheadOf(history) >= 0
  BY AheadIs, HistoryAssumption DEF CursorTyped, HistoryTyped, Dated
<1>3. cursor.since <= now + AheadOf(history)
  BY DEF CursorNear, DatedAhead, AheadOf, Aheads
<1>4. PICK lower \in Int : lower = cursor.since - Overlap
  BY <1>2
<1>5. PICK latest : latest = Newest(recs, lower)
  OBVIOUS
<1>6. /\ latest \in Int /\ lower <= latest /\ \A r \in recs : r.date <= latest
      /\ latest = lower \/ \E r \in recs : latest = r.date
  BY <1>1, <1>5, NewestIs
<1>7. latest <= now + AheadOf(history)
  BY <1>1, <1>2, <1>3, <1>4, <1>6
<1>8. PICK since : since = IF latest > cursor.since THEN latest
                           ELSE IF now - cursor.since >= 2 * Overlap THEN now - Overlap
                           ELSE cursor.since
  OBVIOUS
<1>9. /\ since \in Int /\ cursor.since <= since /\ since <= now + AheadOf(history) /\ latest <= since
  BY ONLY <1>2, <1>3, <1>6, <1>7, <1>8
<1>10. c = IF since = cursor.since /\ ~news THEN cursor
           ELSE [since |-> since, seen |-> SeenIn(recs, since), held |-> TRUE]
  BY <1>4, <1>5, <1>8 DEF Advanced, AdvanceAfter
<1>11. \A r \in recs : r.date <= since
  <2>1. \A r \in recs : r.date \in Int
    BY <1>1 DEF HistoryTyped, Dated, Record
  <2>. QED BY ONLY <1>6, <1>9, <2>1
<1>12. SeenIn(recs, since) \subseteq 1 .. MaxRecords
  BY <1>1 DEF SeenIn, HistoryTyped, Dated, Record
<1>13. CASE since = cursor.since /\ ~news
  <2>1. c = cursor
    BY <1>10, <1>13
  <2>. QED BY <2>1, <1>13, <1>2, <1>3 DEF CursorTyped
<1>14. CASE ~(since = cursor.since /\ ~news)
  <2>1. PICK seen \in SUBSET (1 .. MaxRecords) : seen = SeenIn(recs, since)
    BY <1>12
  <2>2. c = [since |-> since, seen |-> seen, held |-> TRUE]
    BY <1>10, <1>14, <2>1
  <2>3. c.since = since /\ c.held = TRUE /\ c.seen = SeenIn(recs, c.since)
    BY <2>1, <2>2
  <2>4. c \in [since : Int, seen : SUBSET (1 .. MaxRecords), held : BOOLEAN]
    BY ONLY <2>2, <1>9, seen \in SUBSET (1 .. MaxRecords)
  <2>5. cursor.since <= c.since /\ c.since <= now + AheadOf(history) /\ \A r \in recs : r.date <= c.since
    BY <2>3, <1>9, <1>11
  <2>. QED BY <2>3, <2>4, <2>5
<1>. QED BY <1>13, <1>14

LEMMA HistoryInit == HInit => HistoryInv
<1>. SUFFICES ASSUME HInit PROVE HistoryInv
  OBVIOUS
<1>1. now = 0 /\ history = {} /\ cursor = NoCursor /\ reported = [id \in 1 .. MaxRecords |-> 0]
  BY DEF HInit
<1>2. HistoryTyped
  BY <1>1, FS_EmptySet DEF HistoryTyped, Dated
<1>3. CursorTyped
  BY <1>1 DEF CursorTyped, NoCursor
<1>4. ~cursor.held /\ cursor.seen = {}
  BY <1>1 DEF NoCursor
<1>5. \A id \in 1 .. MaxRecords : reported[id] = 0
  BY <1>1
<1>6. CursorNear /\ NamedHeld /\ NamedExist
  BY <1>4, <1>5 DEF CursorNear, NamedHeld, NamedExist
<1>7. HistoryWhole
  BY <1>1, <1>4, <1>5 DEF HistoryWhole, ReportedOnce, NothingMissed
<1>. QED BY <1>2, <1>3, <1>6, <1>7 DEF HistoryInv

\* What holds while no call is made and nothing is committed.
LEMMA HistoryWaits ==
    ASSUME HistoryInv, UNCHANGED <<history, reported, atHead>>,
           cursor' = cursor \/ cursor' = NoCursor, now' \in Int, now <= now'
    PROVE  HistoryInv'
<1>1. HistoryTyped'
  BY DEF HistoryInv, HistoryTyped, Dated, Record
<1>2. CursorTyped'
  <2>1. NoCursor \in [since : Int, seen : SUBSET (1 .. MaxRecords), held : BOOLEAN]
    <3>1. {} \in SUBSET (1 .. MaxRecords)
      OBVIOUS
    <3>. QED BY <3>1 DEF NoCursor
  <2>2. CursorTyped
    BY DEF HistoryInv
  <2>. QED BY <2>1, <2>2 DEF CursorTyped
<1>3. cursor' = cursor \/ (cursor'.held = FALSE /\ cursor'.seen = {})
  BY DEF NoCursor
<1>4. DatedAhead' = DatedAhead /\ DatedAhead \in Int
  BY AheadIs DEF DatedAhead, AheadOf, Aheads, HistoryInv, HistoryTyped
<1>5. CursorNear'
  BY <1>3, <1>4 DEF HistoryInv, CursorNear, CursorTyped, HistoryTyped, Dated
<1>6. NamedExist'
  BY <1>3 DEF HistoryInv, NamedExist
<1>7. NamedHeld'
  <2>1. \A r \in history : r.date <= now + Overlap => r.date <= now' + Overlap
    BY HistoryAssumption DEF HistoryInv, HistoryTyped, Dated, Record
  <2>. QED BY <1>3, <2>1 DEF HistoryInv, NamedHeld
<1>8. ReportedOnce'
  BY DEF HistoryInv, HistoryWhole, ReportedOnce
<1>9. NothingMissed'
  BY <1>3, <1>4 DEF HistoryInv, HistoryWhole, NothingMissed, InSlack
<1>. QED BY <1>1, <1>2, <1>5, <1>6, <1>7, <1>8, <1>9 DEF HistoryInv, HistoryWhole

\* The head: nothing is named, and a record left out of it is dated past every
\* window the cursor can have.
LEMMA TakeHeadStep ==
    ASSUME HistoryInv, TakeHead
    PROVE  HistoryInv'
<1>0. HistoryTyped /\ CursorTyped
  BY DEF HistoryInv
<1>1. UNCHANGED <<now, history>> /\ reported' = [id \in 1 .. MaxRecords |-> 0]
      /\ atHead' = {r \in history : r.date <= now + Overlap}
  BY DEF TakeHead
<1>2. PICK lower \in Int : lower = now - Overlap
  BY <1>0, HistoryAssumption DEF HistoryTyped, Dated
<1>3. PICK recs \in SUBSET history : recs = InWindow(history, lower)
  BY DEF InWindow
<1>4. PICK since : since = Newest(recs, lower)
  OBVIOUS
<1>5. cursor' = [since |-> since, seen |-> SeenIn(recs, since), held |-> TRUE]
  BY <1>2, <1>3, <1>4 DEF TakeHead
<1>6. /\ since \in Int
      /\ since = lower \/ \E r \in recs : since = r.date
  BY <1>0, <1>4, NewestIs
<1>7. \A r \in recs : r.date <= now + Overlap
  BY <1>3 DEF InWindow
<1>8. \A r \in recs : r.date <= now + AheadOf(history)
  BY <1>0, <1>7, AheadIs DEF HistoryTyped
<1>9. AheadOf(history) \in Int /\ AheadOf(history) >= 0 /\ AheadOf(history) <= Overlap
  BY <1>0, AheadIs DEF HistoryTyped
<1>10. now \in Int /\ Overlap \in Nat
  BY <1>0, HistoryAssumption DEF HistoryTyped, Dated
<1>11. since <= now + AheadOf(history)
  BY ONLY <1>2, <1>6, <1>8, <1>9, <1>10
<1>12. SeenIn(recs, since) \subseteq 1 .. MaxRecords /\ \A id \in SeenIn(recs, since) : \E r \in recs : r.id = id
  BY <1>0 DEF SeenIn, HistoryTyped, Dated, Record
<1>13. PICK seen \in SUBSET (1 .. MaxRecords) : seen = SeenIn(recs, since)
  BY <1>12
<1>14. /\ cursor'.since = since /\ cursor'.seen = seen /\ cursor'.held = TRUE
       /\ cursor' \in [since : Int, seen : SUBSET (1 .. MaxRecords), held : BOOLEAN]
  BY <1>5, <1>6, <1>13
<1>15. HistoryTyped'
  BY <1>0, <1>1 DEF HistoryTyped, Dated
<1>16. CursorTyped'
  BY <1>1, <1>14 DEF CursorTyped
<1>17. DatedAhead' = AheadOf(history)
  BY <1>1 DEF DatedAhead, AheadOf, Aheads
<1>18. CursorNear'
  BY <1>1, <1>11, <1>14, <1>17 DEF CursorNear
<1>19. \A id \in 1 .. MaxRecords : reported'[id] = 0
  BY <1>1
<1>20. NamedExist'
  BY <1>1, <1>12, <1>13, <1>14, <1>19 DEF NamedExist
<1>21. \A r \in history : r.id \in 1 .. MaxRecords /\ r.date \in Int
  BY <1>0 DEF HistoryTyped, Dated, Record
<1>22. NamedHeld'
  BY <1>1, <1>19, <1>21 DEF NamedHeld
<1>23. ReportedOnce'
  BY <1>1, <1>19 DEF ReportedOnce
<1>24. ASSUME NEW r \in history, r \notin atHead'
       PROVE  r.date >= since - Overlap /\ r.id \notin seen
  <2>1. r.date > now + Overlap
    BY <1>1, <1>10, <1>21, <1>24
  <2>2. r.date >= since - Overlap
    BY ONLY <2>1, <1>6, <1>9, <1>10, <1>11, <1>21, r \in history
  <2>3. r.id \notin seen
    <3>1. SUFFICES ASSUME r.id \in seen PROVE FALSE
      OBVIOUS
    <3>2. PICK q \in recs : q.id = r.id
      BY <1>12, <1>13, <3>1
    <3>3. q = r
      BY <1>0, <3>2 DEF HistoryTyped
    <3>. QED BY <3>2, <3>3, <1>7, <2>1, <1>10, <1>21
  <2>. QED BY <2>2, <2>3
<1>25. NothingMissed'
  BY <1>1, <1>14, <1>24 DEF NothingMissed
<1>. QED BY <1>15, <1>16, <1>18, <1>20, <1>22, <1>23, <1>25 DEF HistoryInv, HistoryWhole

\* A record is committed: one committed in the slack is in the next window.
LEMMA CommitRecordStep ==
    ASSUME HistoryInv, NEW d \in (now - MaxLate) .. (now + MaxAhead), CommitRecord(d)
    PROVE  HistoryInv'
<1>0. HistoryTyped /\ CursorTyped
  BY DEF HistoryInv
<1>1. PICK n : n = Cardinality(history) + 1
  OBVIOUS
<1>2. PICK new : new = [id |-> n, date |-> d, at |-> now]
  OBVIOUS
<1>3. history' = history \union {new} /\ UNCHANGED <<now, cursor, reported, atHead>> /\ Cardinality(history) < MaxRecords
  BY <1>1, <1>2 DEF CommitRecord
<1>4. Cardinality(history) \in Nat /\ n \in 1 .. MaxRecords
  BY <1>0, <1>1, <1>3, FS_CardinalityType, HistoryAssumption DEF HistoryTyped
<1>5. now \in Int /\ d \in Int /\ MaxAhead \in Int /\ MaxLate \in Int
  BY <1>0, HistoryAssumption DEF HistoryTyped, Dated
<1>6. new.id = n /\ new.date = d /\ new.at = now /\ new \in Record
  BY <1>2, <1>4, <1>5 DEF Record
<1>7. \A r \in history : r.id # n /\ r.id \in 1 .. MaxRecords
  BY <1>0, <1>1, <1>4 DEF HistoryTyped, Dated, Record
<1>8. new \notin history
  BY <1>6, <1>7
<1>9. IsFiniteSet(history') /\ Cardinality(history') = n
  <2>1. IsFiniteSet(history)
    BY <1>0 DEF HistoryTyped
  <2>. QED BY <1>1, <1>3, <1>8, <2>1, FS_AddElement
<1>10. HistoryTyped'
  <2>1. Dated(history, now)'
    BY <1>0, <1>3, <1>5, <1>6 DEF HistoryTyped, Dated
  <2>2. \A r \in history' : r.id <= n
    BY <1>0, <1>1, <1>3, <1>4, <1>6 DEF HistoryTyped, Dated, Record
  <2>3. \A r, q \in history' : r.id = q.id => r = q
    BY <1>0, <1>3, <1>6, <1>7 DEF HistoryTyped
  <2>. QED BY <1>9, <2>1, <2>2, <2>3 DEF HistoryTyped
<1>11. CursorTyped'
  BY <1>0, <1>3 DEF CursorTyped
<1>12. AheadOf(history) <= AheadOf(history') /\ AheadOf(history) \in Int /\ AheadOf(history') \in Int
       /\ DatedAhead = AheadOf(history) /\ DatedAhead' = AheadOf(history')
  <2>1. Dated(history, now) /\ Dated(history', now') /\ history \subseteq history'
    BY <1>0, <1>3, <1>10 DEF HistoryTyped
  <2>2. AheadOf(history) <= AheadOf(history')
    BY ONLY <2>1, AheadGrows, HistoryAssumption
  <2>3. AheadOf(history) \in Int /\ AheadOf(history') \in Int
    BY ONLY <2>1, AheadIs, HistoryAssumption
  <2>. QED BY <2>2, <2>3 DEF DatedAhead, AheadOf, Aheads
<1>13. CursorNear'
  BY <1>3, <1>5, <1>12, <1>0 DEF HistoryInv, CursorNear, CursorTyped
<1>14. NamedExist'
  BY <1>3 DEF HistoryInv, NamedExist
<1>15. reported[n] = 0 /\ n \notin cursor.seen
  <2>1. reported[n] \in Nat
    BY <1>0, <1>4 DEF CursorTyped
  <2>. QED BY <1>4, <1>7, <2>1 DEF HistoryInv, NamedExist
<1>16. NamedHeld'
  BY <1>3, <1>6, <1>15 DEF HistoryInv, NamedHeld
<1>17. ReportedOnce'
  BY <1>3 DEF HistoryInv, HistoryWhole, ReportedOnce
<1>18. ASSUME cursor.held, NEW r \in history, r \notin atHead, InSlack(r)', reported[r.id] = 0
       PROVE  r.date >= cursor.since - Overlap /\ r.id \notin cursor.seen
  <2>1. r.date \in Int /\ r.at \in Int /\ Overlap \in Int
    BY <1>0, HistoryAssumption DEF HistoryTyped, Dated, Record
  <2>2. r.at - r.date + DatedAhead' <= Overlap
    BY <1>18 DEF InSlack
  <2>3. InSlack(r)
    BY <2>1, <2>2, <1>12 DEF InSlack
  <2>. QED BY <1>18, <2>3 DEF HistoryInv, HistoryWhole, NothingMissed
<1>19. ASSUME cursor.held, InSlack(new)'
       PROVE  new.date >= cursor.since - Overlap /\ new.id \notin cursor.seen
  <2>1. new.at' - new.date' + DatedAhead' <= Overlap
    BY <1>19 DEF InSlack
  <2>2. now - d + AheadOf(history') <= Overlap
    BY <2>1, <1>6, <1>12
  <2>3. cursor.since <= now + AheadOf(history)
    BY <1>12, <1>19 DEF HistoryInv, CursorNear
  <2>4. cursor.since \in Int /\ Overlap \in Int
    BY <1>0, HistoryAssumption DEF CursorTyped
  <2>5. d >= cursor.since - Overlap
    BY ONLY <2>2, <2>3, <2>4, <1>5, <1>12
  <2>. QED BY <2>5, <1>6, <1>15
<1>20. NothingMissed'
  BY <1>3, <1>18, <1>19 DEF NothingMissed
<1>. QED BY <1>10, <1>11, <1>13, <1>14, <1>16, <1>17, <1>20 DEF HistoryInv, HistoryWhole

\* A call names what its window counts and the cursor does not hold.
LEMMA ChangesStep ==
    ASSUME HistoryInv, Changes
    PROVE  HistoryInv'
<1>0. HistoryTyped /\ CursorTyped /\ CursorNear /\ cursor.held
  BY DEF HistoryInv, Changes
<1>1. cursor.since \in Int /\ now \in Int /\ Overlap \in Nat
  BY <1>0, HistoryAssumption DEF CursorTyped, HistoryTyped, Dated
<1>2. PICK lower \in Int : lower = cursor.since - Overlap
  BY <1>1
<1>3. PICK recs \in SUBSET history : recs = InWindow(history, lower)
  BY DEF InWindow
<1>4. PICK unseen \in SUBSET recs : unseen = {r \in recs : r.id \notin cursor.seen}
  OBVIOUS
<1>5. PICK c : c = Advanced(recs, cursor, unseen # {})
  OBVIOUS
<1>6. /\ cursor' = c /\ UNCHANGED <<now, history, atHead>>
      /\ reported' = [id \in 1 .. MaxRecords |->
             IF \E r \in unseen : r.id = id THEN reported[id] + 1 ELSE reported[id]]
  BY <1>2, <1>3, <1>4, <1>5 DEF Changes
<1>7. /\ c.since \in Int /\ c.held = TRUE
      /\ c \in [since : Int, seen : SUBSET (1 .. MaxRecords), held : BOOLEAN]
      /\ cursor.since <= c.since /\ c.since <= now + AheadOf(history)
      /\ \/ c = cursor /\ unseen = {}
         \/ c.seen = SeenIn(recs, c.since) /\ \A r \in recs : r.date <= c.since
  <2>1. recs = InWindow(history, cursor.since - Overlap)
    BY <1>2, <1>3
  <2>2. PICK news \in BOOLEAN : news = (unseen # {})
    OBVIOUS
  <2>3. c = Advanced(recs, cursor, news)
    BY <1>5, <2>2, Zenon
  <2>4. /\ c.since \in Int /\ c.held = TRUE
        /\ c \in [since : Int, seen : SUBSET (1 .. MaxRecords), held : BOOLEAN]
        /\ cursor.since <= c.since /\ c.since <= now + AheadOf(history)
        /\ \/ c = cursor /\ ~news
           \/ c.seen = SeenIn(recs, c.since) /\ \A r \in recs : r.date <= c.since
    BY ONLY <1>0, <2>1, <2>3, news \in BOOLEAN, HistoryAssumption, AdvancedIs
  <2>. QED BY <2>2, <2>4
<1>8. AheadOf(history) \in Int /\ AheadOf(history) <= Overlap
  BY <1>0, AheadIs DEF HistoryTyped
<1>9. \A r \in history : r.id \in 1 .. MaxRecords /\ r.date \in Int
  BY <1>0 DEF HistoryTyped, Dated, Record
<1>10. \A r \in history : r \in recs <=> r.date >= lower /\ r.date <= now + Overlap
  BY <1>3 DEF InWindow
<1>11. \A r, q \in history : r.id = q.id => r = q
  BY <1>0 DEF HistoryTyped
<1>12. \A id \in 1 .. MaxRecords : reported[id] \in Nat
  BY <1>0 DEF CursorTyped
<1>13. \A r \in history : reported'[r.id] = IF r \in unseen THEN reported[r.id] + 1 ELSE reported[r.id]
  BY <1>6, <1>9, <1>11
<1>14. HistoryTyped'
  BY <1>0, <1>6 DEF HistoryTyped, Dated
<1>15. CursorTyped'
  BY <1>6, <1>7, <1>12 DEF CursorTyped
<1>16. CursorNear'
  <2>1. DatedAhead' = AheadOf(history)
    BY <1>6 DEF DatedAhead, AheadOf, Aheads
  <2>. QED BY <2>1, <1>6, <1>7 DEF CursorNear
<1>17. SeenIn(recs, c.since) = {r.id : r \in {q \in recs : q.date >= c.since - Overlap /\ q.date <= c.since}}
  BY DEF SeenIn
<1>18. NamedExist'
  <2>1. ASSUME NEW id \in 1 .. MaxRecords, reported'[id] > 0 \/ id \in c.seen
        PROVE  \E r \in history : r.id = id
    <3>1. CASE \E r \in unseen : r.id = id
      BY <3>1
    <3>2. CASE id \in c.seen /\ c.seen = SeenIn(recs, c.since)
      BY <3>2, <1>17
    <3>3. CASE id \in cursor.seen \/ reported[id] > 0
      BY <3>3 DEF HistoryInv, NamedExist
    <3>. QED BY <2>1, <3>1, <3>2, <3>3, <1>6, <1>7
  <2>. QED BY <2>1, <1>6 DEF NamedExist
<1>19. NamedHeld'
  <2>1. SUFFICES ASSUME NEW r \in history, reported'[r.id] > 0
                 PROVE  r.date <= now + Overlap /\ (r.date >= c.since - Overlap => r.id \in c.seen)
    BY <1>6 DEF NamedHeld
  <2>2. r \in unseen \/ reported[r.id] > 0
    BY <2>1, <1>13
  <2>3. r.date <= now + Overlap
    BY <2>2, <1>0, <1>10 DEF HistoryInv, NamedHeld
  <2>4. ASSUME r.date >= c.since - Overlap PROVE r.id \in c.seen
    <3>1. r.date >= lower
      BY ONLY <2>4, <1>1, <1>2, <1>7, <1>9, r \in history
    <3>2. r \in recs
      BY <3>1, <2>3, <1>10
    <3>3. CASE c = cursor /\ unseen = {}
      BY <3>2, <3>3, <1>4
    <3>4. CASE c.seen = SeenIn(recs, c.since) /\ \A q \in recs : q.date <= c.since
      BY <3>2, <3>4, <2>4, <1>17
    <3>. QED BY <3>3, <3>4, <1>7
  <2>. QED BY <2>3, <2>4
<1>20. ReportedOnce'
  <2>1. ASSUME NEW id \in 1 .. MaxRecords, NEW r \in unseen, r.id = id PROVE reported[id] = 0
    <3>1. r.date >= cursor.since - Overlap /\ r.id \notin cursor.seen
      BY <1>2, <1>4, <1>10
    <3>. QED BY <2>1, <3>1, <1>0, <1>12 DEF HistoryInv, NamedHeld
  <2>2. \A id \in 1 .. MaxRecords : reported[id] <= 1
    BY <1>0 DEF HistoryInv, HistoryWhole, ReportedOnce, CursorTyped
  <2>. QED BY <2>1, <2>2, <1>6, <1>12 DEF ReportedOnce
<1>21. NothingMissed'
  <2>1. DatedAhead' = DatedAhead
    BY <1>6 DEF DatedAhead
  <2>2. SUFFICES ASSUME NEW r \in history, r \notin atHead, InSlack(r), reported'[r.id] = 0
                 PROVE  r.date >= c.since - Overlap /\ r.id \notin c.seen
    BY <2>1, <1>6 DEF NothingMissed, InSlack
  <2>3. reported[r.id] = 0 /\ r \notin unseen
    BY <2>2, <1>9, <1>12, <1>13
  <2>4. r.date >= cursor.since - Overlap /\ r.id \notin cursor.seen
    BY <2>2, <2>3, <1>0 DEF HistoryInv, HistoryWhole, NothingMissed
  <2>5. r.date > now + Overlap
    BY <2>3, <2>4, <1>1, <1>2, <1>4, <1>9, <1>10
  <2>6. r.date >= c.since - Overlap
    BY ONLY <2>5, <1>1, <1>7, <1>8, <1>9, r \in history
  <2>7. r.id \notin c.seen
    <3>1. CASE c = cursor
      BY <3>1, <2>4
    <3>2. CASE c.seen = SeenIn(recs, c.since)
      <4>1. r \notin recs
        BY <2>5, <1>1, <1>9, <1>10
      <4>. QED BY <3>2, <4>1, <1>11, <1>17
    <3>. QED BY <3>1, <3>2, <1>7
  <2>. QED BY <2>6, <2>7
<1>. QED BY <1>14, <1>15, <1>16, <1>18, <1>19, <1>20, <1>21 DEF HistoryInv, HistoryWhole

\* Every change of the source reaches the caller of Changes once, unless it was
\* committed later after its date than the re-read window allows
\* (mediasource/arr/history.go).
THEOREM HistoryReachesOnce == HSpec => []HistoryWhole
<1>1. HInit => HistoryInv
  BY HistoryInit
<1>2. HistoryInv /\ [HNext]_hvars => HistoryInv'
  <2>. SUFFICES ASSUME HistoryInv, [HNext]_hvars PROVE HistoryInv'
    OBVIOUS
  <2>0. now \in Int
    BY DEF HistoryInv, HistoryTyped, Dated
  <2>1. CASE TakeHead
    BY <2>1, TakeHeadStep
  <2>2. CASE Changes
    BY <2>2, ChangesStep
  <2>3. CASE ExpireCursor
    BY <2>0, <2>3, HistoryWaits DEF ExpireCursor
  <2>4. CASE Tick
    BY <2>0, <2>4, HistoryWaits DEF Tick
  <2>5. ASSUME NEW d \in (now - MaxLate) .. (now + MaxAhead), CommitRecord(d) PROVE HistoryInv'
    BY <2>5, CommitRecordStep
  <2>6. CASE UNCHANGED hvars
    BY <2>0, <2>6, HistoryWaits DEF hvars
  <2>. QED BY <2>1, <2>2, <2>3, <2>4, <2>5, <2>6 DEF HNext
<1>3. HistoryInv => HistoryWhole
  BY DEF HistoryInv
<1>. QED BY <1>1, <1>2, <1>3, PTL DEF HSpec

(***************************************************************************)
(* HDBits: searches.                                                       *)
(***************************************************************************)

SearchType == [stopped : BOOLEAN, cancelled : BOOLEAN, answer : {"none", "error", "results"}]

SearchTyped ==
    /\ dispatch \in 1 .. Torrents + 1
    /\ lookup \in [1 .. Torrents -> {"unstarted", "running", "added", "failed", "refused", "skipped"}]
    /\ search \in SearchType

\* A torrent is given up only once the group has ended, and a refusal ends it.
GivenUp ==
    \A t \in 1 .. Torrents :
        /\ t >= dispatch => lookup[t] = "unstarted"
        /\ t < dispatch /\ lookup[t] \in {"unstarted", "skipped", "refused"} => GroupEnded

\* Nothing runs past an answer, and results are answered by a live group.
AnsweredLast ==
    /\ search.answer # "none" => dispatch = Torrents + 1 /\ Running = {}
    /\ search.answer = "results" => ~GroupEnded

SearchInv == SearchTyped /\ GivenUp /\ AnsweredLast

LEMMA SearchInit == DInit => SearchInv
<1>. SUFFICES ASSUME DInit PROVE SearchInv
  OBVIOUS
<1>. USE SearchAssumption
<1>1. dispatch = 1 /\ lookup = [t \in 1 .. Torrents |-> "unstarted"]
      /\ search = [stopped |-> FALSE, cancelled |-> FALSE, answer |-> "none"]
  BY DEF DInit
<1>2. SearchTyped
  BY <1>1 DEF SearchTyped, SearchType
<1>3. GivenUp
  BY <1>1 DEF GivenUp
<1>4. search.answer = "none"
  BY <1>1
<1>. QED BY <1>2, <1>3, <1>4 DEF SearchInv, AnsweredLast

LEMMA SearchKept == SearchInv /\ UNCHANGED lookups => SearchInv'
BY DEF SearchInv, SearchTyped, GivenUp, AnsweredLast, GroupEnded, Running, lookups

\* The fields of a search after a step.
LEMMA SearchFields ==
    ASSUME SearchTyped, NEW a \in {"error", "results"}, NEW s
    PROVE  /\ s = [search EXCEPT !.stopped = TRUE] =>
                  /\ s \in SearchType
                  /\ s.stopped /\ s.answer = search.answer
           /\ s = [search EXCEPT !.cancelled = TRUE] =>
                  /\ s \in SearchType
                  /\ s.cancelled /\ s.answer = search.answer
           /\ s = [search EXCEPT !.answer = a] =>
                  /\ s \in SearchType
                  /\ s.stopped = search.stopped /\ s.cancelled = search.cancelled /\ s.answer = a
BY DEF SearchTyped, SearchType

LEMMA SearchStep ==
    ASSUME SearchInv, SearchNext
    PROVE  SearchInv'
<1>. USE SearchAssumption
<1>0. SearchTyped /\ GivenUp /\ AnsweredLast
  BY DEF SearchInv
<1>1. CASE Dispatch \/ LateSlot
  <2>1. PICK to : lookup' = [lookup EXCEPT ![dispatch] = to]
                  /\ to \in {"skipped", "running"} /\ (to = "skipped" => GroupEnded)
    BY <1>1 DEF Dispatch, LateSlot
  <2>2. dispatch <= Torrents /\ dispatch' = dispatch + 1 /\ UNCHANGED search
    BY <1>1 DEF Dispatch, LateSlot
  <2>3. dispatch \in 1 .. Torrents /\ dispatch + 1 \in 1 .. Torrents + 1
    BY <1>0, <2>2 DEF SearchTyped
  <2>4. \A t \in 1 .. Torrents : lookup'[t] = IF t = dispatch THEN to ELSE lookup[t]
    BY <1>0, <2>1 DEF SearchTyped
  <2>5. SearchTyped'
    BY <1>0, <2>1, <2>2, <2>3 DEF SearchTyped
  <2>6. GivenUp'
    BY <1>0, <2>1, <2>2, <2>3, <2>4 DEF GivenUp, GroupEnded
  <2>7. search.answer = "none"
    BY <1>0, <2>3 DEF AnsweredLast
  <2>8. AnsweredLast'
    BY <2>2, <2>7 DEF AnsweredLast
  <2>. QED BY <2>5, <2>6, <2>8 DEF SearchInv
<1>2. CASE StopDispatch
  <2>1. dispatch <= Torrents /\ dispatch' = Torrents + 1 /\ UNCHANGED <<lookup, search>> /\ GroupEnded
    BY <1>2 DEF StopDispatch
  <2>2. search.answer = "none"
    BY <1>0, <2>1 DEF AnsweredLast, SearchTyped
  <2>3. SearchTyped' /\ GivenUp'
    BY <1>0, <2>1 DEF SearchTyped, GivenUp, GroupEnded
  <2>4. AnsweredLast'
    BY <2>1, <2>2 DEF AnsweredLast
  <2>. QED BY <2>3, <2>4 DEF SearchInv
<1>3. CASE CancelSearch
  <2>1. search' = [search EXCEPT !.cancelled = TRUE] /\ search.answer = "none" /\ UNCHANGED <<dispatch, lookup>>
    BY <1>3 DEF CancelSearch
  <2>2. search' \in SearchType /\ search'.cancelled /\ search'.answer = "none"
    BY <1>0, <2>1, SearchFields
  <2>4. SearchTyped' /\ GivenUp' /\ AnsweredLast'
    BY <1>0, <2>1, <2>2 DEF SearchTyped, SearchType, GivenUp, GroupEnded, AnsweredLast
  <2>. QED BY <2>4 DEF SearchInv
<1>4. CASE Collect
  <2>1. PICK a \in {"error", "results"} : a = SearchAnswer
    BY DEF SearchAnswer
  <2>2. search' = [search EXCEPT !.answer = a]
    BY <1>4, <2>1 DEF Collect
  <2>4. /\ search' \in SearchType
        /\ search'.stopped = search.stopped /\ search'.cancelled = search.cancelled /\ search'.answer = a
    BY <1>0, <2>2, SearchFields
  <2>5. dispatch > Torrents /\ Running = {} /\ UNCHANGED <<dispatch, lookup>>
    BY <1>4 DEF Collect
  <2>6. SearchTyped' /\ GivenUp'
    BY <1>0, <2>4, <2>5 DEF SearchTyped, SearchType, GivenUp, GroupEnded
  <2>7. dispatch' = Torrents + 1 /\ Running' = {}
    BY <1>0, <2>5 DEF SearchTyped, Running
  <2>8. a = "results" => ~GroupEnded
    BY <2>1 DEF SearchAnswer, GroupEnded
  <2>9. AnsweredLast'
    BY <2>4, <2>7, <2>8 DEF AnsweredLast, GroupEnded
  <2>. QED BY <2>6, <2>9 DEF SearchInv
<1>5. ASSUME NEW t \in 1 .. Torrents, LookedUp(t) PROVE SearchInv'
  <2>1. lookup[t] = "running" /\ UNCHANGED dispatch
    BY <1>5 DEF LookedUp
  <2>2. search.answer = "none"
    BY <1>0, <2>1 DEF AnsweredLast, Running
  <2>3. PICK to : /\ lookup' = [lookup EXCEPT ![t] = to]
                  /\ \/ to \in {"added", "failed"} /\ search' = search
                     \/ to = "refused" /\ search' = [search EXCEPT !.stopped = TRUE]
    BY <1>5 DEF LookedUp
  <2>4. /\ search' \in SearchType
        /\ search'.answer = "none" /\ (GroupEnded => GroupEnded') /\ (to = "refused" => GroupEnded')
    <3>1. CASE search' = search /\ to # "refused"
      BY <1>0, <2>2, <3>1 DEF SearchTyped, SearchType, GroupEnded
    <3>2. CASE search' = [search EXCEPT !.stopped = TRUE]
      <4>1. search' \in SearchType /\ search'.stopped /\ search'.answer = search.answer
        BY <1>0, <3>2, SearchFields
      <4>. QED BY <2>2, <4>1 DEF GroupEnded
    <3>. QED BY <2>3, <3>1, <3>2
  <2>5. \A u \in 1 .. Torrents : lookup'[u] = IF u = t THEN to ELSE lookup[u]
    BY <1>0, <2>3 DEF SearchTyped
  <2>6. t < dispatch
    BY <1>0, <2>1 DEF GivenUp, SearchTyped
  <2>7. SearchTyped'
    BY <1>0, <2>1, <2>3, <2>4 DEF SearchTyped, SearchType
  <2>8. GivenUp'
    BY <1>0, <2>1, <2>3, <2>4, <2>5, <2>6 DEF GivenUp
  <2>9. AnsweredLast'
    BY <2>4 DEF AnsweredLast
  <2>. QED BY <2>7, <2>8, <2>9 DEF SearchInv
<1>. QED BY <1>1, <1>2, <1>3, <1>4, <1>5 DEF SearchNext

\* The results of a search are all of them: every torrent was looked up
\* (provider/hdbits/hdbits.go).
THEOREM ResultsStayWhole == DSpec => []ResultsAreWhole
<1>1. DInit => SearchInv
  BY SearchInit
<1>2. SearchInv /\ [DownloadNext \/ SearchNext]_dvars => SearchInv'
  <2>. SUFFICES ASSUME SearchInv, [DownloadNext \/ SearchNext]_dvars PROVE SearchInv'
    OBVIOUS
  <2>1. CASE SearchNext
    BY <2>1, SearchStep
  <2>2. CASE DownloadNext \/ UNCHANGED dvars
    <3>1. UNCHANGED lookups
      BY <2>2 DEF DownloadNext, Begin, Get, Join, Fetched, Saturate, Warned, ClearCache, dvars
    <3>. QED BY <3>1, SearchKept
  <2>. QED BY <2>1, <2>2
<1>3. SearchInv => ResultsAreWhole
  <2>. SUFFICES ASSUME SearchInv, search.answer = "results", NEW t \in 1 .. Torrents
                PROVE  lookup[t] \in {"added", "failed"}
    BY DEF ResultsAreWhole
  <2>1. dispatch = Torrents + 1 /\ Running = {} /\ ~GroupEnded
    BY DEF SearchInv, AnsweredLast
  <2>2. lookup[t] # "running"
    BY <2>1 DEF Running
  <2>. QED BY <2>1, <2>2, SearchAssumption DEF SearchInv, SearchTyped, GivenUp
<1>. QED BY <1>1, <1>2, <1>3, PTL DEF DSpec

(***************************************************************************)
(* HDBits: downloads.                                                      *)
(***************************************************************************)

Stages == {"idle", "look", "join", "waiting", "fetching", "saturated", "warning", "fatal"}

DownloadTyped ==
    /\ lru \in Seq(Packs)
    /\ flight \in [Packs -> Fetchers \union {Free}]
    /\ fetcher \in [Fetchers -> [at : Stages, pack : Packs]]

\* A flight is its leader's, from the miss to the landing.
Leads(f) == fetcher[f].at \in {"fetching", "saturated", "warning", "fatal"}
OneFlight == \A f \in Fetchers, p \in Packs : flight[p] = f <=> Leads(f) /\ fetcher[f].pack = p

FetchesMissing == \A f \in Fetchers : fetcher[f].at = "fetching" => ~Cached(fetcher[f].pack)

Bounded(s) == Len(s) <= MaxEntries /\ IsInjective(s)

DownloadInv == DownloadTyped /\ OneFlight /\ FetchesMissing /\ Bounded(lru)

\* A hit moves its pack last: the cache keeps what it holds.
LEMMA UsedIs ==
    ASSUME lru \in Seq(Packs), IsInjective(lru), NEW p \in Packs, Cached(p)
    PROVE  /\ Used(p) \in Seq(Packs) /\ Len(Used(p)) = Len(lru) /\ IsInjective(Used(p))
           /\ \A q : Contains(Used(p), q) => Contains(lru, q)
<1>1. PICK n \in Nat : n = Len(lru)
  OBVIOUS
<1>2. PICK i \in 1 .. n : i = PlaceOf(p) /\ lru[i] = p
  <2>1. \E i \in 1 .. Len(lru) : lru[i] = p
    BY DEF Cached, Contains
  <2>2. PlaceOf(p) \in 1 .. Len(lru) /\ lru[PlaceOf(p)] = p
    BY <2>1, Zenon DEF PlaceOf
  <2>3. PlaceOf(p) \in 1 .. n
    BY <1>1, <2>2, Zenon
  <2>. QED BY ONLY <2>2, <2>3, Zenon
<1>3. PICK a \in Seq(Packs) : a = SubSeq(lru, 1, i - 1) /\ Len(a) = i - 1 /\ \A j \in 1 .. i - 1 : a[j] = lru[j]
  <2>1. SubSeq(lru, 1, i - 1) \in Seq(Packs) /\ Len(SubSeq(lru, 1, i - 1)) = i - 1
        /\ \A j \in 1 .. i - 1 : SubSeq(lru, 1, i - 1)[j] = lru[j]
    BY <1>1, <1>2
  <2>. QED BY <2>1
<1>4. PICK b \in Seq(Packs) : b = SubSeq(lru, i + 1, n) /\ Len(b) = n - i /\ \A j \in 1 .. n - i : b[j] = lru[i + j]
  <2>1. SubSeq(lru, i + 1, n) \in Seq(Packs) /\ Len(SubSeq(lru, i + 1, n)) = n - i
        /\ \A j \in 1 .. n - i : SubSeq(lru, i + 1, n)[j] = lru[i + j]
    <3>1. \A j \in i + 1 .. n : lru[j] \in Packs
      BY <1>1, <1>2
    <3>2. PICK k \in Int : k = i + 1
      BY <1>2
    <3>3. /\ SubSeq(lru, k, n) \in Seq(Packs)
          /\ Len(SubSeq(lru, k, n)) = IF k <= n THEN n - k + 1 ELSE 0
          /\ \A j \in 1 .. n - k + 1 : SubSeq(lru, k, n)[j] = lru[k + j - 1]
      BY ONLY <3>1, <3>2, n \in Nat, SubSeqProperties
    <3>4. n - k + 1 = n - i /\ \A j \in 1 .. n - i : k + j - 1 = i + j
      BY ONLY <3>2, <1>2, n \in Nat
    <3>. QED BY <3>2, <3>3, <3>4, <1>2
  <2>. QED BY <2>1
<1>5. PICK u : u = Used(p)
  OBVIOUS
<1>6. u = Append(a \o b, p)
  BY <1>1, <1>2, <1>3, <1>4, <1>5 DEF Used, RemoveAt
<1>7. /\ u \in Seq(Packs) /\ Len(u) = n /\ u[n] = p
      /\ \A j \in 1 .. n - 1 : u[j] = IF j < i THEN lru[j] ELSE lru[j + 1]
  <2>1. PICK c \in Seq(Packs) : c = a \o b /\ Len(c) = n - 1
                                /\ \A j \in 1 .. n - 1 : c[j] = IF j < i THEN a[j] ELSE b[j - (i - 1)]
    <3>1. a \o b \in Seq(Packs) /\ Len(a \o b) = n - 1
      BY <1>3, <1>4
    <3>2. \A j \in 1 .. n - 1 : (a \o b)[j] = IF j < i THEN a[j] ELSE b[j - (i - 1)]
      BY <1>3, <1>4
    <3>. QED BY <3>1, <3>2
  <2>2. u = Append(c, p)
    BY <1>6, <2>1
  <2>3. u \in Seq(Packs) /\ Len(u) = n /\ u[n] = p /\ \A j \in 1 .. n - 1 : u[j] = c[j]
    BY <2>1, <2>2
  <2>4. \A j \in 1 .. n - 1 : c[j] = IF j < i THEN lru[j] ELSE lru[j + 1]
    <3>1. ASSUME NEW j \in 1 .. n - 1, j < i PROVE c[j] = lru[j]
      BY <3>1, <1>3, <2>1
    <3>2. ASSUME NEW j \in 1 .. n - 1, ~(j < i) PROVE c[j] = lru[j + 1]
      <4>1. PICK k \in 1 .. n - i : k = j - (i - 1)
        BY <3>2
      <4>2. c[j] = b[k] /\ i + k = j + 1
        BY <3>2, <4>1, <2>1
      <4>. QED BY <4>1, <4>2, <1>4
    <3>. QED BY <3>1, <3>2
  <2>. QED BY <2>3, <2>4
<1>8. \A j, k \in 1 .. n : lru[j] = lru[k] => j = k
  BY <1>1 DEF IsInjective
<1>9. \A j, k \in 1 .. n : u[j] = u[k] => j = k
  BY ONLY <1>2, <1>7, <1>8, n \in Nat
<1>10. IsInjective(u)
  BY <1>7, <1>9 DEF IsInjective
<1>11. ASSUME NEW q, Contains(u, q) PROVE Contains(lru, q)
  <2>1. PICK j \in 1 .. n : u[j] = q
    BY ONLY <1>7, <1>11 DEF Contains
  <2>2. \E k \in 1 .. n : lru[k] = q
    <3>1. CASE j = n
      BY ONLY <1>2, <1>7, <2>1, <3>1
    <3>2. CASE j # n
      <4>1. j \in 1 .. n - 1 /\ j \in 1 .. n /\ j + 1 \in 1 .. n
        BY ONLY <2>1, <3>2, n \in Nat
      <4>2. u[j] = lru[j] \/ u[j] = lru[j + 1]
        BY ONLY <1>7, <4>1
      <4>. QED BY ONLY <2>1, <4>1, <4>2
    <3>. QED BY <3>1, <3>2
  <2>. QED BY ONLY <1>1, <2>2 DEF Contains
<1>. QED BY <1>1, <1>5, <1>7, <1>10, <1>11

\* What fits is stored after the least recent is let go.
LEMMA StoredIs ==
    ASSUME lru \in Seq(Packs), Bounded(lru), NEW p \in Packs, ~Cached(p)
    PROVE  /\ Append(MakeRoom, p) \in Seq(Packs) /\ Bounded(Append(MakeRoom, p))
           /\ \A q : Contains(Append(MakeRoom, p), q) => q = p \/ Contains(lru, q)
<1>1. PICK m : m = MakeRoom
  OBVIOUS
<1>2. PICK d \in {0, 1} : /\ m \in Seq(Packs)
                          /\ Len(m) = Len(lru) - d /\ Len(m) < MaxEntries
                          /\ \A j \in 1 .. Len(m) : m[j] = lru[j + d]
  <2>1. CASE Len(lru) >= MaxEntries
    <3>1. m = Tail(lru) /\ lru # <<>>
      BY <1>1, <2>1, DownloadAssumption DEF MakeRoom
    <3>2. m \in Seq(Packs) /\ Len(m) = Len(lru) - 1 /\ \A j \in 1 .. Len(m) : m[j] = lru[j + 1]
      BY <3>1
    <3>. QED BY <3>2, <2>1, DownloadAssumption DEF Bounded
  <2>2. CASE ~(Len(lru) >= MaxEntries)
    <3>1. m = lru
      BY <1>1, <2>2 DEF MakeRoom
    <3>2. Len(m) < MaxEntries
      BY <3>1, <2>2, DownloadAssumption
    <3>. QED BY <3>1, <3>2
  <2>. QED BY <2>1, <2>2
<1>3. PICK s : s = Append(m, p)
  OBVIOUS
<1>4. PICK n \in Nat : n = Len(m)
  <2>1. m \in Seq(Packs)
    BY <1>2, Zenon
  <2>. QED BY ONLY <2>1, LenProperties
<1>5. s \in Seq(Packs) /\ Len(s) = n + 1 /\ s[n + 1] = p /\ \A j \in 1 .. n : s[j] = m[j]
  BY ONLY <1>2, <1>3, <1>4, p \in Packs
<1>6. \A j \in 1 .. n : s[j] = lru[j + d] /\ j + d \in 1 .. Len(lru)
  BY <1>2, <1>4, <1>5
<1>7. \A j, k \in 1 .. Len(lru) : lru[j] = lru[k] => j = k
  <2>1. DOMAIN lru = 1 .. Len(lru)
    OBVIOUS
  <2>. QED BY <2>1, Zenon DEF Bounded, IsInjective
<1>8. \A j \in 1 .. Len(lru) : lru[j] # p
  BY DEF Cached, Contains
<1>9. \A j, k \in 1 .. n + 1 : s[j] = s[k] => j = k
  <2>1. ASSUME NEW j \in 1 .. n + 1, NEW k \in 1 .. n + 1, s[j] = s[k], j < k PROVE FALSE
    <3>1. j \in 1 .. n /\ s[j] = lru[j + d] /\ j + d \in 1 .. Len(lru)
      BY <1>6, <2>1
    <3>2. CASE k = n + 1
      BY <1>5, <1>8, <2>1, <3>1, <3>2
    <3>3. CASE k \in 1 .. n
      <4>1. j + d = k + d
        BY <1>6, <1>7, <2>1, <3>1, <3>3
      <4>. QED BY <4>1, <2>1
    <3>. QED BY <3>2, <3>3
  <2>. QED BY <2>1
<1>10. Len(s) <= MaxEntries
  BY <1>2, <1>4, <1>5, DownloadAssumption
<1>11. Bounded(s)
  BY <1>5, <1>9, <1>10 DEF Bounded, IsInjective
<1>12. ASSUME NEW q, Contains(s, q) PROVE q = p \/ Contains(lru, q)
  <2>1. PICK j \in 1 .. n + 1 : s[j] = q
    BY ONLY <1>5, <1>12 DEF Contains
  <2>2. CASE j = n + 1
    BY ONLY <1>5, <2>1, <2>2
  <2>3. CASE j # n + 1
    <3>1. j \in 1 .. n
      BY ONLY <2>1, <2>3, n \in Nat
    <3>2. \E k \in 1 .. Len(lru) : lru[k] = q
      BY ONLY <1>6, <2>1, <3>1
    <3>. QED BY ONLY <3>2 DEF Contains
  <2>. QED BY <2>2, <2>3
<1>. QED BY <1>1, <1>3, <1>5, <1>11, <1>12

LEMMA DownloadInit == DInit => DownloadInv
<1>. SUFFICES ASSUME DInit PROVE DownloadInv
  OBVIOUS
<1>1. PICK p \in Packs : p = CHOOSE q \in Packs : TRUE
  BY DownloadAssumption
<1>2. lru = <<>> /\ flight = [q \in Packs |-> Free] /\ fetcher = [f \in Fetchers |-> [at |-> "idle", pack |-> p]]
  BY <1>1 DEF DInit
<1>3. \A f \in Fetchers : fetcher[f].at = "idle"
  BY <1>2
<1>4. DownloadTyped
  <2>1. [at |-> "idle", pack |-> p] \in [at : Stages, pack : Packs]
    BY DEF Stages
  <2>. QED BY <1>2, <2>1 DEF DownloadTyped
<1>5. OneFlight
  BY <1>2, <1>3, DownloadAssumption DEF OneFlight, Leads
<1>6. FetchesMissing
  BY <1>3 DEF FetchesMissing
<1>7. Bounded(lru)
  BY <1>2, DownloadAssumption DEF Bounded, IsInjective
<1>. QED BY <1>4, <1>5, <1>6, <1>7 DEF DownloadInv

\* A call goes on with its pack.
LEMMA GoIs ==
    ASSUME DownloadTyped, NEW f \in Fetchers, NEW w \in Stages, fetcher' = Go(f, w)
    PROVE  /\ fetcher' \in [Fetchers -> [at : Stages, pack : Packs]]
           /\ \A g \in Fetchers : /\ fetcher'[g].at = IF g = f THEN w ELSE fetcher[g].at
                                  /\ fetcher'[g].pack = fetcher[g].pack
BY DEF DownloadTyped, Go

\* Its flight landed, its leader and those who waited are done.
LEMMA LandedIs ==
    ASSUME DownloadTyped, OneFlight, NEW l \in Fetchers, Leads(l), NEW p, p = fetcher[l].pack, Landed(p)
    PROVE  /\ fetcher' \in [Fetchers -> [at : Stages, pack : Packs]]
           /\ flight' \in [Packs -> Fetchers \union {Free}]
           /\ \A q \in Packs : flight'[q] = IF q = p THEN Free ELSE flight[q]
           /\ \A g \in Fetchers :
                  /\ fetcher'[g].pack = fetcher[g].pack
                  /\ fetcher'[g].at = IF g = l \/ (fetcher[g].at = "waiting" /\ fetcher[g].pack = p)
                                      THEN "idle" ELSE fetcher[g].at
<1>1. p \in Packs /\ flight[p] = l
  BY DEF DownloadTyped, OneFlight
<1>2. fetcher' = [g \in Fetchers |->
          IF g = l \/ (fetcher[g].at = "waiting" /\ fetcher[g].pack = p)
          THEN [fetcher[g] EXCEPT !.at = "idle"] ELSE fetcher[g]]
  BY <1>1 DEF Landed
<1>3. \A g \in Fetchers : fetcher[g] \in [at : Stages, pack : Packs]
  BY DEF DownloadTyped
<1>4. ASSUME NEW g \in Fetchers
      PROVE  /\ fetcher'[g] \in [at : Stages, pack : Packs] /\ fetcher'[g].pack = fetcher[g].pack
             /\ fetcher'[g].at = IF g = l \/ (fetcher[g].at = "waiting" /\ fetcher[g].pack = p)
                                 THEN "idle" ELSE fetcher[g].at
  <2>1. CASE g = l \/ (fetcher[g].at = "waiting" /\ fetcher[g].pack = p)
    <3>1. fetcher'[g] = [fetcher[g] EXCEPT !.at = "idle"]
      BY <1>2, <2>1
    <3>. QED BY <3>1, <1>3, <2>1 DEF Stages
  <2>2. CASE ~(g = l \/ (fetcher[g].at = "waiting" /\ fetcher[g].pack = p))
    <3>1. fetcher'[g] = fetcher[g]
      BY <1>2, <2>2
    <3>. QED BY <3>1, <1>3, <2>2
  <2>. QED BY <2>1, <2>2
<1>5. fetcher' \in [Fetchers -> [at : Stages, pack : Packs]]
  BY <1>2, <1>4
<1>6. flight' \in [Packs -> Fetchers \union {Free}] /\ \A q \in Packs : flight'[q] = IF q = p THEN Free ELSE flight[q]
  BY <1>1 DEF Landed, DownloadTyped
<1>. QED BY <1>4, <1>5, <1>6

\* A step that leaves the flights alone and moves f between places outside.
LEMMA OutsideStep ==
    ASSUME DownloadInv, NEW f \in Fetchers, UNCHANGED flight,
           fetcher' \in [Fetchers -> [at : Stages, pack : Packs]],
           \A g \in Fetchers \ {f} : fetcher'[g] = fetcher[g],
           ~Leads(f), fetcher'[f].at \in {"idle", "look", "join", "waiting"},
           lru' \in Seq(Packs), Bounded(lru'), \A q : Contains(lru', q) => Contains(lru, q)
    PROVE  DownloadInv'
<1>1. DownloadTyped'
  BY DEF DownloadInv, DownloadTyped
<1>2. OneFlight'
  <2>1. ASSUME NEW g \in Fetchers, NEW p \in Packs
        PROVE  flight'[p] = g <=> Leads(g)' /\ fetcher'[g].pack = p
    BY DEF DownloadInv, OneFlight, Leads
  <2>. QED BY <2>1 DEF OneFlight
<1>3. FetchesMissing'
  BY DEF DownloadInv, FetchesMissing, Cached
<1>. QED BY <1>1, <1>2, <1>3 DEF DownloadInv, Bounded

\* The leader goes on with its flight.
LEMMA LeadsOn ==
    ASSUME DownloadInv, NEW f \in Fetchers, Leads(f), UNCHANGED <<flight, lru>>,
           NEW w \in {"saturated", "warning", "fatal"}, fetcher' = Go(f, w)
    PROVE  DownloadInv'
<1>1. w \in Stages
  BY DEF Stages
<1>2. /\ fetcher' \in [Fetchers -> [at : Stages, pack : Packs]]
      /\ \A g \in Fetchers : /\ fetcher'[g].at = IF g = f THEN w ELSE fetcher[g].at
                             /\ fetcher'[g].pack = fetcher[g].pack
  BY <1>1, GoIs DEF DownloadInv
<1>3. DownloadTyped'
  BY <1>2 DEF DownloadInv, DownloadTyped
<1>4. OneFlight'
  BY <1>2 DEF DownloadInv, OneFlight, Leads
<1>5. FetchesMissing'
  BY <1>2 DEF DownloadInv, FetchesMissing, Cached
<1>. QED BY <1>3, <1>4, <1>5 DEF DownloadInv, Bounded

\* The flight of f lands, with its pack in the cache or not.
LEMMA LandsStep ==
    ASSUME DownloadInv, NEW f \in Fetchers, Leads(f), Landed(fetcher[f].pack),
           lru' \in Seq(Packs), Bounded(lru'),
           \A q : Contains(lru', q) => q = fetcher[f].pack \/ Contains(lru, q)
    PROVE  DownloadInv'
<1>1. PICK p \in Packs : p = fetcher[f].pack
  BY DEF DownloadInv, DownloadTyped
<1>2. /\ fetcher' \in [Fetchers -> [at : Stages, pack : Packs]]
      /\ flight' \in [Packs -> Fetchers \union {Free}]
      /\ \A q \in Packs : flight'[q] = IF q = p THEN Free ELSE flight[q]
      /\ \A g \in Fetchers :
             /\ fetcher'[g].pack = fetcher[g].pack
             /\ fetcher'[g].at = IF g = f \/ (fetcher[g].at = "waiting" /\ fetcher[g].pack = p)
                                 THEN "idle" ELSE fetcher[g].at
  <2>1. DownloadTyped /\ OneFlight /\ Landed(p)
    BY <1>1 DEF DownloadInv
  <2>. QED BY ONLY <2>1, <1>1, f \in Fetchers, Leads(f), LandedIs
<1>3. DownloadTyped'
  BY <1>2 DEF DownloadTyped
<1>4. \A g \in Fetchers : Leads(g) /\ fetcher[g].pack = p => g = f
  BY <1>1 DEF DownloadInv, OneFlight
<1>5. OneFlight'
  <2>1. \A g \in Fetchers : Leads(g)' <=> Leads(g) /\ g # f
    BY <1>2 DEF Leads
  <2>. QED BY <1>1, <1>2, <1>4, <2>1, DownloadAssumption DEF DownloadInv, OneFlight
<1>6. FetchesMissing'
  <2>1. SUFFICES ASSUME NEW g \in Fetchers, fetcher'[g].at = "fetching" PROVE ~Contains(lru', fetcher'[g].pack)
    BY DEF FetchesMissing, Cached
  <2>2. g # f /\ fetcher[g].at = "fetching" /\ fetcher'[g].pack = fetcher[g].pack
    BY <1>2, <2>1
  <2>3. Leads(g) /\ ~Contains(lru, fetcher[g].pack)
    BY <2>2 DEF Leads, DownloadInv, FetchesMissing, Cached
  <2>. QED BY <1>1, <1>4, <2>2, <2>3
<1>. QED BY <1>3, <1>5, <1>6 DEF DownloadInv, Bounded

LEMMA DownloadKept ==
    ASSUME DownloadInv, UNCHANGED <<lru, flight, fetcher>>
    PROVE  DownloadInv'
BY DEF DownloadInv, DownloadTyped, OneFlight, Leads, FetchesMissing, Cached, Bounded

LEMMA DownloadStep ==
    ASSUME DownloadInv, DownloadNext
    PROVE  DownloadInv'
<1>0. DownloadTyped /\ lru \in Seq(Packs) /\ Bounded(lru) /\ IsInjective(lru)
  BY DEF DownloadInv, DownloadTyped, Bounded
<1>1. \A f \in Fetchers : fetcher[f].pack \in Packs /\ fetcher[f] \in [at : Stages, pack : Packs]
  BY <1>0 DEF DownloadTyped
<1>2. ASSUME NEW f \in Fetchers, NEW p \in Packs, Begin(f, p) PROVE DownloadInv'
  <2>1. fetcher' = [fetcher EXCEPT ![f] = [at |-> "look", pack |-> p]] /\ fetcher[f].at = "idle" /\ UNCHANGED <<lru, flight>>
    BY <1>2 DEF Begin
  <2>2. [at |-> "look", pack |-> p] \in [at : Stages, pack : Packs]
    BY DEF Stages
  <2>3. fetcher' \in [Fetchers -> [at : Stages, pack : Packs]]
        /\ fetcher'[f].at = "look" /\ \A g \in Fetchers \ {f} : fetcher'[g] = fetcher[g]
    BY <1>0, <2>1, <2>2 DEF DownloadTyped
  <2>4. ~Leads(f)
    BY <2>1 DEF Leads
  <2>5. lru' \in Seq(Packs) /\ Bounded(lru') /\ \A q : Contains(lru', q) => Contains(lru, q)
    BY <1>0, <2>1
  <2>. QED BY <2>1, <2>3, <2>4, <2>5, OutsideStep
<1>3. ASSUME NEW f \in Fetchers, NEW w \in {"idle", "join", "waiting"}, fetcher' = Go(f, w),
             fetcher[f].at \in {"look", "join"}, UNCHANGED flight,
             \/ UNCHANGED lru
             \/ Cached(fetcher[f].pack) /\ lru' = Used(fetcher[f].pack)
      PROVE  DownloadInv'
  <2>1. w \in Stages
    BY DEF Stages
  <2>2. /\ fetcher' \in [Fetchers -> [at : Stages, pack : Packs]]
        /\ \A g \in Fetchers : fetcher'[g].at = (IF g = f THEN w ELSE fetcher[g].at)
    BY <1>0, <1>3, <2>1, GoIs
  <2>3. \A g \in Fetchers \ {f} : fetcher'[g] = fetcher[g]
    BY <1>0, <1>3 DEF Go, DownloadTyped
  <2>4. ~Leads(f)
    BY <1>3 DEF Leads
  <2>5. lru' \in Seq(Packs) /\ Bounded(lru') /\ \A q : Contains(lru', q) => Contains(lru, q)
    <3>1. CASE UNCHANGED lru
      BY <1>0, <3>1
    <3>2. CASE Cached(fetcher[f].pack) /\ lru' = Used(fetcher[f].pack)
      <4>1. /\ Used(fetcher[f].pack) \in Seq(Packs) /\ Len(Used(fetcher[f].pack)) = Len(lru)
            /\ IsInjective(Used(fetcher[f].pack))
            /\ \A q : Contains(Used(fetcher[f].pack), q) => Contains(lru, q)
        BY ONLY <1>0, <1>1, <3>2, f \in Fetchers, UsedIs
      <4>. QED BY <1>0, <3>2, <4>1 DEF Bounded
    <3>. QED BY <1>3, <3>1, <3>2
  <2>6. fetcher'[f].at \in {"idle", "look", "join", "waiting"}
    BY <2>2
  <2>. QED BY <1>3, <2>2, <2>3, <2>4, <2>5, <2>6, OutsideStep
<1>4. ASSUME NEW f \in Fetchers, Get(f) PROVE DownloadInv'
  BY <1>3, <1>4 DEF Get
<1>5. ASSUME NEW f \in Fetchers, Join(f) PROVE DownloadInv'
  <2>1. CASE flight[fetcher[f].pack] # Free \/ Recheck(fetcher[f].pack)
    BY <1>3, <1>5, <2>1 DEF Join, Recheck
  <2>2. CASE ~(flight[fetcher[f].pack] # Free \/ Recheck(fetcher[f].pack))
    <3>1. PICK p \in Packs : p = fetcher[f].pack
      BY <1>1
    <3>2. /\ fetcher[f].at = "join" /\ flight[p] = Free /\ ~Cached(p)
          /\ UNCHANGED lru /\ flight' = [flight EXCEPT ![p] = f] /\ fetcher' = Go(f, "fetching")
      BY <1>5, <2>2, <3>1 DEF Join, Recheck
    <3>3. /\ fetcher' \in [Fetchers -> [at : Stages, pack : Packs]]
          /\ \A g \in Fetchers : /\ fetcher'[g].at = IF g = f THEN "fetching" ELSE fetcher[g].at
                                 /\ fetcher'[g].pack = fetcher[g].pack
      <4>1. "fetching" \in Stages
        BY DEF Stages
      <4>. QED BY <1>0, <3>2, <4>1, GoIs
    <3>4. flight' \in [Packs -> Fetchers \union {Free}] /\ \A q \in Packs : flight'[q] = IF q = p THEN f ELSE flight[q]
      BY <1>0, <3>2 DEF DownloadTyped
    <3>5. DownloadTyped'
      BY <1>0, <3>2, <3>3, <3>4 DEF DownloadTyped
    <3>6. OneFlight'
      <4>1. \A g \in Fetchers : Leads(g)' <=> Leads(g) \/ g = f
        BY <3>3 DEF Leads
      <4>2. ~Leads(f)
        BY <3>2 DEF Leads
      <4>. QED BY <3>1, <3>2, <3>3, <3>4, <4>1, <4>2, DownloadAssumption DEF DownloadInv, OneFlight
    <3>7. FetchesMissing'
      BY <3>1, <3>2, <3>3 DEF DownloadInv, FetchesMissing, Cached
    <3>. QED BY <1>0, <3>2, <3>5, <3>6, <3>7 DEF DownloadInv, Bounded
  <2>. QED BY <2>1, <2>2
<1>6. ASSUME NEW f \in Fetchers, Leads(f), Landed(fetcher[f].pack), UNCHANGED lru PROVE DownloadInv'
  BY <1>0, <1>6, LandsStep
<1>7. ASSUME NEW f \in Fetchers, Fetched(f) PROVE DownloadInv'
  <2>0. Leads(f)
    BY <1>7 DEF Fetched, Leads
  <2>1. PICK p \in Packs : p = fetcher[f].pack
    BY <1>1
  <2>2. CASE UNCHANGED lru /\ Landed(p)
    BY <1>6, <2>0, <2>1, <2>2
  <2>3. CASE lru' = (IF Cached(p) THEN lru ELSE Append(MakeRoom, p)) /\ Landed(p)
    <3>1. CASE Cached(p)
      BY <1>6, <2>0, <2>1, <2>3, <3>1
    <3>2. CASE ~Cached(p)
      <4>1. lru' = Append(MakeRoom, p)
        BY <2>3, <3>2
      <4>2. /\ Append(MakeRoom, p) \in Seq(Packs) /\ Bounded(Append(MakeRoom, p))
            /\ \A q : Contains(Append(MakeRoom, p), q) => q = p \/ Contains(lru, q)
        BY ONLY <1>0, <3>2, p \in Packs, DownloadAssumption, StoredIs
      <4>3. Landed(fetcher[f].pack) /\ lru' \in Seq(Packs) /\ Bounded(lru')
            /\ \A q : Contains(lru', q) => q = fetcher[f].pack \/ Contains(lru, q)
        BY <2>1, <2>3, <4>1, <4>2
      <4>. QED BY <2>0, <4>3, LandsStep
    <3>. QED BY <3>1, <3>2
  <2>4. CASE UNCHANGED <<lru, flight>> /\ fetcher' = Go(f, "saturated")
    BY <2>0, <2>4, LeadsOn
  <2>. QED BY <1>7, <2>1, <2>2, <2>3, <2>4 DEF Fetched
<1>8. ASSUME NEW f \in Fetchers, Saturate(f) \/ Warned(f) PROVE DownloadInv'
  <2>1. Leads(f) /\ UNCHANGED lru
    BY <1>8 DEF Saturate, Warned, Leads
  <2>2. CASE Landed(fetcher[f].pack)
    BY <1>6, <2>1, <2>2
  <2>3. CASE UNCHANGED flight /\ (fetcher' = Go(f, "warning") \/ fetcher' = Go(f, "fatal"))
    BY <2>1, <2>3, LeadsOn
  <2>. QED BY <1>8, <2>2, <2>3 DEF Saturate, Warned
<1>9. CASE ClearCache
  <2>1. lru' = <<>> /\ UNCHANGED <<flight, fetcher>>
    BY <1>9 DEF ClearCache
  <2>2. \A q : ~Contains(lru', q)
    BY <2>1 DEF Contains
  <2>3. DownloadTyped' /\ OneFlight'
    BY <2>1 DEF DownloadInv, DownloadTyped, OneFlight, Leads
  <2>4. FetchesMissing' /\ Bounded(lru)'
    BY <2>1, <2>2, DownloadAssumption DEF FetchesMissing, Cached, Bounded, IsInjective
  <2>. QED BY <2>3, <2>4 DEF DownloadInv
<1>. QED BY <1>2, <1>4, <1>5, <1>7, <1>8, <1>9 DEF DownloadNext

\* Episodes that ask for one season pack share one download of it, and the
\* cache they share stays within its bound (provider/hdbits/dlcache.go).
THEOREM PacksStayShared == DSpec => []PackSharedOnce
<1>1. DInit => DownloadInv
  BY DownloadInit
<1>2. DownloadInv /\ [DownloadNext \/ SearchNext]_dvars => DownloadInv'
  <2>. SUFFICES ASSUME DownloadInv, [DownloadNext \/ SearchNext]_dvars PROVE DownloadInv'
    OBVIOUS
  <2>1. CASE DownloadNext
    BY <2>1, DownloadStep
  <2>2. CASE SearchNext \/ UNCHANGED dvars
    <3>1. UNCHANGED <<lru, flight, fetcher>>
      BY <2>2 DEF SearchNext, Dispatch, StopDispatch, LateSlot, CancelSearch, Collect, LookedUp, downloading, dvars
    <3>. QED BY <3>1, DownloadKept
  <2>. QED BY <2>1, <2>2
<1>3. DownloadInv => PackSharedOnce
  <2>. SUFFICES ASSUME DownloadInv PROVE PackSharedOnce
    OBVIOUS
  <2>1. ASSUME NEW f \in Fetchers, NEW g \in Fetchers, fetcher[f].at = "fetching", fetcher[g].at = "fetching", f # g
        PROVE  fetcher[f].pack # fetcher[g].pack
    <3>1. Leads(f) /\ Leads(g) /\ fetcher[f].pack \in Packs /\ fetcher[g].pack \in Packs
      BY <2>1 DEF Leads, DownloadInv, DownloadTyped
    <3>. QED BY <2>1, <3>1 DEF DownloadInv, OneFlight
  <2>. QED BY <2>1 DEF PackSharedOnce, DownloadInv, FetchesMissing, Bounded
<1>. QED BY <1>1, <1>2, <1>3, PTL DEF DSpec

(***************************************************************************)
(* AniDB.                                                                  *)
(***************************************************************************)

\* A step that stores no episode, or all of a series, or empties the cache.
LEMMA EpisodesStep ==
    ASSUME SeriesWhole,
           \/ cached' = cached \/ cached' = {}
           \/ \E s \in Series : cached' = cached \union {<<s, n>> : n \in Has[s]}
    PROVE  SeriesWhole'
<1>1. SUFFICES ASSUME NEW t \in Series PROVE {n \in Has[t] : <<t, n>> \in cached'} \in {{}, Has[t]}
  BY DEF SeriesWhole
<1>2. {n \in Has[t] : <<t, n>> \in cached} \in {{}, Has[t]}
  BY DEF SeriesWhole
<1>3. CASE cached' = cached \/ cached' = {}
  BY <1>2, <1>3
<1>4. ASSUME NEW s \in Series, cached' = cached \union {<<s, n>> : n \in Has[s]}
      PROVE  {n \in Has[t] : <<t, n>> \in cached'} \in {{}, Has[t]}
  <2>1. CASE t = s
    <3>1. \A n \in Has[t] : <<t, n>> \in cached'
      BY <1>4, <2>1
    <3>2. {n \in Has[t] : <<t, n>> \in cached'} = Has[t]
      BY <3>1
    <3>. QED BY <3>2
  <2>2. CASE t # s
    <3>1. \A n \in Has[t] : <<t, n>> \in cached' <=> <<t, n>> \in cached
      BY <1>4, <2>2
    <3>2. {n \in Has[t] : <<t, n>> \in cached'} = {n \in Has[t] : <<t, n>> \in cached}
      BY <3>1
    <3>. QED BY <1>2, <3>2
  <2>. QED BY <2>1, <2>2
<1>. QED BY <1>3, <1>4

LEMMA LookupStep ==
    ASSUME SeriesWhole, VerdictNamed, [ANext]_avars
    PROVE  (SeriesWhole /\ VerdictNamed)'
<1>1. ASSUME NEW s \in Series, NEW what \in Answers, EpisodesAnswer(s, what)
      PROVE  (SeriesWhole /\ VerdictNamed)'
  <2>1. /\ \/ cached' = cached
           \/ cached' = cached \union {<<s, n>> : n \in Has[s]}
        /\ \/ UNCHANGED <<rejected, answered>>
           \/ UNCHANGED rejected /\ answered' = TRUE
           \/ rejected' = TRUE /\ answered' = TRUE
    <3>1. CASE what = "data"
      BY <1>1, <3>1 DEF EpisodesAnswer
    <3>2. CASE what = "banned"
      BY <1>1, <3>2 DEF EpisodesAnswer
    <3>3. CASE what = "refused"
      BY <1>1, <3>3 DEF EpisodesAnswer, RejectClient
    <3>4. CASE what = "failed"
      BY <1>1, <3>4 DEF EpisodesAnswer, verdict
    <3>. QED BY <3>1, <3>2, <3>3, <3>4 DEF Answers
  <2>2. SeriesWhole'
    <3>1. \/ cached' = cached \/ cached' = {}
          \/ \E t \in Series : cached' = cached \union {<<t, n>> : n \in Has[t]}
      BY <2>1
    <3>. QED BY ONLY <3>1, SeriesWhole, EpisodesStep
  <2>3. VerdictNamed'
    <3>1. CASE answered' = TRUE
      BY <3>1, Zenon DEF VerdictNamed
    <3>2. CASE UNCHANGED <<rejected, answered>>
      BY <3>2, Zenon DEF VerdictNamed
    <3>. QED BY <2>1, <3>1, <3>2
  <2>. QED BY <2>2, <2>3
<1>2. CASE MappingEnds
  <2>1. PICK ok \in BOOLEAN : MappingAnswer(ok)
    BY <1>2 DEF MappingEnds
  <2>2. (cached' = cached \/ cached' = {}) /\ UNCHANGED <<rejected, answered>>
    BY <2>1 DEF MappingAnswer, verdict
  <2>. QED BY <2>2, EpisodesStep DEF VerdictNamed
<1>3. CASE ForgetClientKeyVerdict
  <2>1. cached' = {} /\ rejected' = FALSE
    BY <1>3 DEF ForgetClientKeyVerdict
  <2>. QED BY <2>1, EpisodesStep DEF VerdictNamed
<1>4. CASE UNCHANGED <<cached, rejected, answered>>
  BY <1>4, EpisodesStep DEF VerdictNamed
<1>5. CASE \/ \E c \in Callers : Resolve(c) \/ Look(c)
           \/ \E s \in Series : SendEpisodes(s) \/ CancelFlight(s)
           \/ StartCheck \/ SendCheck \/ EndCheck \/ PutBack \/ BanEnds \/ MappingAges
           \/ UNCHANGED avars
  BY <1>4, <1>5 DEF Resolve, Look, ParsedMapping, JoinMapping, EpisodeID, JoinFlight, ReadCached,
      SendEpisodes, CancelFlight, StartCheck, SendCheck, EndCheck, PutBack, BanEnds, MappingAges, avars, verdict
<1>. QED BY <1>1, <1>2, <1>3, <1>5 DEF ANext, Fetch

\* A series' episodes are cached all or none, and a key that AniDB refused is
\* one it has answered about (provider/anidb).
THEOREM EpisodesStayWhole == AInit /\ [][ANext]_avars => [](SeriesWhole /\ VerdictNamed)
<1>1. AInit => SeriesWhole /\ VerdictNamed
  <2>. SUFFICES ASSUME AInit PROVE SeriesWhole /\ VerdictNamed
    OBVIOUS
  <2>1. cached = {} /\ rejected = FALSE
    BY DEF AInit
  <2>2. \A s \in Series : {n \in Has[s] : <<s, n>> \in cached} = {}
    BY <2>1
  <2>. QED BY <2>1, <2>2 DEF SeriesWhole, VerdictNamed
<1>2. SeriesWhole /\ VerdictNamed /\ [ANext]_avars => (SeriesWhole /\ VerdictNamed)'
  BY LookupStep
<1>. QED BY <1>1, <1>2, PTL

(***************************************************************************)
(* SourceSet: walks.                                                       *)
(***************************************************************************)

RootListings == [ref : NativeRefs, readable : BOOLEAN]
Tellings == [ref : NativeRefs, how : {"unread", "yielded"}]

WalkTyped ==
    /\ listed \in Seq(RootListings)
    /\ told \in Seq(Tellings)
    /\ run \in Nat /\ total \in Nat
    /\ end \in {"none", "refused", "caller"}

\* While the walk goes on, its caller was told of every root listed, in order.
ToldAll ==
    /\ Len(told) = Len(listed)
    /\ \A i \in 1 .. Len(told) : told[i].ref = listed[i].ref
    /\ \A i, j \in 1 .. Len(told) : told[i].ref = told[j].ref => i = j

\* The counts are those of what was told: run ends the list, and what is
\* before the run's roots was read.
Counted ==
    /\ IsFiniteSet(Unread) /\ Cardinality(Unread) = total /\ total <= MaxUnreadRoots
    /\ run < WalkFailBudget /\ run <= Len(told)
    /\ run < Len(told) => Len(told) - run \notin Unread

ShortRuns ==
    \A i \in 1 .. Len(told) - WalkFailBudget + 1 : ~(i .. i + WalkFailBudget - 1 \subseteq Unread)

WalkInv ==
    /\ WalkTyped
    /\ end = "none" => ToldAll /\ Counted /\ ShortRuns
    /\ answer = "ok" => end = "none"

LEMMA WalkInit == SInit => WalkInv
<1>. SUFFICES ASSUME SInit PROVE WalkInv
  OBVIOUS
<1>1. listed = <<>> /\ told = <<>> /\ run = 0 /\ total = 0 /\ end = "none" /\ answer = "none"
  BY DEF SInit
<1>2. Len(told) = 0 /\ Len(listed) = 0 /\ WalkTyped
  BY <1>1 DEF WalkTyped
<1>3. Unread = {}
  BY <1>2 DEF Unread
<1>4. ToldAll
  BY <1>2 DEF ToldAll
<1>5. Counted
  BY <1>1, <1>2, <1>3, FS_EmptySet, WalkAssumption DEF Counted
<1>6. ShortRuns
  BY <1>2, WalkAssumption DEF ShortRuns
<1>. QED BY <1>1, <1>2, <1>4, <1>5, <1>6 DEF WalkInv

LEMMA WalkKept == WalkInv /\ UNCHANGED walked => WalkInv'
BY DEF WalkInv, WalkTyped, ToldAll, Counted, ShortRuns, Unread, walked

\* One more root is told, read or not, within the budgets.
LEMMA TellStep ==
    ASSUME WalkTyped, ToldAll, Counted, ShortRuns,
           NEW ref \in NativeRefs, NEW readable \in BOOLEAN, NEW how \in {"unread", "yielded"},
           ~Seen(ref),
           listed' = Append(listed, [ref |-> ref, readable |-> readable]),
           told' = Append(told, [ref |-> ref, how |-> how]),
           \/ how = "yielded" /\ run' = 0 /\ UNCHANGED total
           \/ how = "unread" /\ run' = run + 1 /\ total' = total + 1
              /\ run + 1 < WalkFailBudget /\ total + 1 <= MaxUnreadRoots,
           end' \in {"none", "caller"}
    PROVE  (WalkTyped /\ ToldAll /\ Counted /\ ShortRuns)'
<1>1. PICK n \in Nat : n = Len(told) /\ n = Len(listed)
  BY DEF WalkTyped, ToldAll
<1>2. PICK l \in RootListings : l = [ref |-> ref, readable |-> readable] /\ l.ref = ref
  <2>1. PICK l : l = [ref |-> ref, readable |-> readable]
    OBVIOUS
  <2>2. l \in RootListings /\ l.ref = ref
    BY <2>1 DEF RootListings
  <2>. QED BY ONLY <2>1, <2>2, Zenon
<1>3. PICK t \in Tellings : t = [ref |-> ref, how |-> how] /\ t.ref = ref /\ t.how = how
  <2>1. PICK t : t = [ref |-> ref, how |-> how]
    OBVIOUS
  <2>2. t \in Tellings /\ t.ref = ref /\ t.how = how
    BY <2>1 DEF Tellings
  <2>. QED BY ONLY <2>1, <2>2, Zenon
<1>4. listed' \in Seq(RootListings) /\ Len(listed') = n + 1 /\ listed'[n + 1] = l /\ \A i \in 1 .. n : listed'[i] = listed[i]
  BY <1>1, <1>2 DEF WalkTyped
<1>5. told' \in Seq(Tellings) /\ Len(told') = n + 1 /\ told'[n + 1] = t /\ \A i \in 1 .. n : told'[i] = told[i]
  <2>1. told' = Append(told, t) /\ told \in Seq(Tellings)
    BY <1>3 DEF WalkTyped
  <2>2. /\ Append(told, t) \in Seq(Tellings) /\ Len(Append(told, t)) = Len(told) + 1
        /\ \A i \in 1 .. Len(told) : Append(told, t)[i] = told[i]
        /\ Append(told, t)[Len(told) + 1] = t
    BY ONLY <2>1, t \in Tellings, AppendProperties
  <2>. QED BY ONLY <1>1, <2>1, <2>2
<1>6. run \in Nat /\ total \in Nat /\ run' \in Nat /\ total' \in Nat
  BY DEF WalkTyped
<1>7. WalkTyped'
  BY <1>4, <1>5, <1>6 DEF WalkTyped
<1>8. ToldAll'
  <2>1. \A i \in 1 .. n : told[i].ref = listed[i].ref /\ listed[i].ref # ref
    BY <1>1 DEF ToldAll, Seen
  <2>2. \A i \in 1 .. n + 1 : told'[i].ref = listed'[i].ref
    BY <1>2, <1>3, <1>4, <1>5, <2>1
  <2>3. \A i, j \in 1 .. n : told[i].ref = told[j].ref => i = j
    BY <1>1 DEF ToldAll
  <2>4. \A i, j \in 1 .. n + 1 : told'[i].ref = told'[j].ref => i = j
    <3>1. \A i \in 1 .. n : told'[i].ref # ref
      BY <1>5, <2>1
    <3>2. told'[n + 1].ref = ref
      BY <1>3, <1>5
    <3>3. ASSUME NEW i \in 1 .. n + 1, NEW j \in 1 .. n + 1, told'[i].ref = told'[j].ref PROVE i = j
      <4>1. CASE i = n + 1 \/ j = n + 1
        BY <3>1, <3>2, <3>3, <4>1
      <4>2. CASE i \in 1 .. n /\ j \in 1 .. n
        BY <1>5, <2>3, <3>3, <4>2
      <4>. QED BY <4>1, <4>2
    <3>. QED BY <3>3
  <2>. QED BY <1>4, <1>5, <2>2, <2>4 DEF ToldAll
<1>9. Unread \subseteq 1 .. n
  BY <1>1 DEF Unread
<1>10. Unread' = IF how = "unread" THEN Unread \union {n + 1} ELSE Unread
  <2>1. \A i \in 1 .. n + 1 : i \in Unread' <=> (i \in Unread \/ (i = n + 1 /\ how = "unread"))
    BY <1>1, <1>3, <1>5 DEF Unread
  <2>2. Unread' \subseteq 1 .. n + 1
    BY <1>5 DEF Unread
  <2>5. Unread \subseteq 1 .. n + 1 /\ n + 1 \in 1 .. n + 1
    BY ONLY <1>9, n \in Nat
  <2>3. CASE how = "unread"
    <3>0. PICK U : U = Unread'
      OBVIOUS
    <3>1. \A i : i \in U <=> i \in Unread \union {n + 1}
      BY ONLY <3>0, <2>1, <2>2, <2>3, <2>5, Zenon
    <3>. QED BY <2>3, <3>0, <3>1
  <2>4. CASE how # "unread"
    <3>0. PICK U : U = Unread'
      OBVIOUS
    <3>1. \A i : i \in U <=> i \in Unread
      BY ONLY <3>0, <2>1, <2>2, <2>4, <2>5, Zenon
    <3>. QED BY <2>4, <3>0, <3>1
  <2>. QED BY <2>3, <2>4
<1>11. IsFiniteSet(Unread) /\ Cardinality(Unread) = total /\ total <= MaxUnreadRoots
       /\ run < WalkFailBudget /\ run <= n /\ (run < n => n - run \notin Unread)
  BY <1>1 DEF Counted
<1>12. \A i \in 1 .. n - WalkFailBudget + 1 : ~(i .. i + WalkFailBudget - 1 \subseteq Unread)
  BY <1>1 DEF ShortRuns
<1>13. WalkFailBudget \in Nat \ {0} /\ MaxUnreadRoots \in Nat
  BY WalkAssumption
<1>14. IsFiniteSet(Unread') /\ Cardinality(Unread') = total' /\ total' <= MaxUnreadRoots
  <2>1. CASE how = "unread"
    <3>1. n + 1 \notin Unread
      BY <1>9
    <3>2. IsFiniteSet(Unread \union {n + 1}) /\ Cardinality(Unread \union {n + 1}) = total + 1
      BY <1>11, <3>1, FS_AddElement
    <3>. QED BY <1>10, <2>1, <3>2
  <2>2. CASE how = "yielded"
    BY <1>10, <1>11, <2>2
  <2>. QED BY <2>1, <2>2
<1>15. PICK m \in Nat : m = Len(told') /\ m = n + 1
  BY <1>5
<1>16. Counted'
  <2>1. CASE how = "unread"
    <3>1. run' = run + 1 /\ run + 1 < WalkFailBudget
      BY <2>1
    <3>2. PICK k : k = m - run'
      OBVIOUS
    <3>3. k = n - run /\ k # n + 1
      BY ONLY <1>6, <1>15, <3>1, <3>2, n \in Nat
    <3>4. run' < m => k \notin Unread'
      BY <1>6, <1>10, <1>11, <1>15, <2>1, <3>1, <3>3
    <3>5. run' < WalkFailBudget /\ run' <= m
      BY <1>6, <1>11, <1>15, <3>1
    <3>. QED BY <1>14, <1>15, <3>2, <3>4, <3>5 DEF Counted
  <2>2. CASE how = "yielded"
    <3>1. run' = 0 /\ Unread' = Unread
      BY <1>10, <2>2
    <3>2. m - run' = m /\ m \notin Unread' /\ run' < WalkFailBudget /\ run' <= m
      BY <1>9, <1>13, <1>15, <3>1
    <3>. QED BY <1>14, <1>15, <3>2 DEF Counted
  <2>. QED BY <2>1, <2>2
<1>17. ShortRuns'
  <2>1. SUFFICES ASSUME NEW i \in 1 .. (n + 1) - WalkFailBudget + 1, i .. i + WalkFailBudget - 1 \subseteq Unread' PROVE FALSE
    BY <1>5 DEF ShortRuns
  <2>2. CASE i \in 1 .. n - WalkFailBudget + 1
    <3>1. \A j \in i .. i + WalkFailBudget - 1 : j # n + 1 /\ j \in Unread
      BY <1>10, <1>13, <2>1, <2>2
    <3>. QED BY <1>12, <2>2, <3>1
  <2>3. CASE i = n - WalkFailBudget + 2
    <3>1. i + WalkFailBudget - 1 = n + 1 /\ n + 1 \in i .. i + WalkFailBudget - 1
      BY <1>13, <2>3
    <3>2. n + 1 \in Unread'
      BY <2>1, <3>1
    <3>3. how = "unread"
      BY <1>9, <1>10, <3>2
    <3>4. run + 1 < WalkFailBudget
      BY <3>3
    <3>5. run < n
      BY <1>6, <1>11, <1>13, <2>1, <2>3, <3>4
    <3>6. n - run \in i .. i + WalkFailBudget - 1 /\ n - run # n + 1
      BY ONLY <1>6, <1>13, <2>3, <3>1, <3>4, <3>5, n \in Nat
    <3>7. n - run \in Unread
      BY <1>10, <2>1, <3>6
    <3>. QED BY <1>11, <3>5, <3>7
  <2>. QED BY <1>13, <2>1, <2>2, <2>3
<1>. QED BY <1>7, <1>8, <1>16, <1>17


LEMMA WalkKeepsInv ==
    ASSUME WalkInv, WalkNext
    PROVE  WalkInv'
<1>0. WalkTyped
  BY DEF WalkInv
<1>1. ASSUME NEW adapter \in {"ok", "failed"}, Finish(adapter) PROVE WalkInv'
  <2>1. UNCHANGED <<listed, told, run, total, end>> /\ answer' = ItemsAnswer(adapter)
    BY <1>1 DEF Finish
  <2>2. answer' = "ok" => end' = "none"
    BY <1>0, <2>1 DEF ItemsAnswer, WalkTyped
  <2>3. WalkTyped' /\ (end' = "none" => (ToldAll /\ Counted /\ ShortRuns)')
    BY <2>1 DEF WalkInv, WalkTyped, ToldAll, Counted, ShortRuns, Unread
  <2>. QED BY <2>2, <2>3 DEF WalkInv
<1>2. ASSUME NEW ref \in NativeRefs, NEW readable \in BOOLEAN, List(ref, readable) PROVE WalkInv'
  <2>1. /\ answer = "none" /\ answer' = "none"
        /\ listed' = Append(listed, [ref |-> ref, readable |-> readable])
    BY <1>2 DEF List
  <2>2. [ref |-> ref, readable |-> readable] \in RootListings
    BY DEF RootListings
  <2>3. listed' \in Seq(RootListings)
    BY <1>0, <2>1, <2>2 DEF WalkTyped
  <2>4. CASE end # "none" /\ UNCHANGED <<told, run, total, end>>
    BY <1>0, <2>1, <2>3, <2>4 DEF WalkInv, WalkTyped
  <2>5. CASE end = "none" /\ Stop
    BY <1>0, <2>1, <2>3, <2>5 DEF WalkInv, WalkTyped, Stop
  <2>6. CASE end = "none" /\ ~Seen(ref) /\ readable /\ Yield(ref)
    <3>1. told' = Append(told, [ref |-> ref, how |-> "yielded"]) /\ run' = 0 /\ UNCHANGED total
      BY <2>6 DEF Yield
    <3>2. (WalkTyped /\ ToldAll /\ Counted /\ ShortRuns)'
      <4>1. ToldAll /\ Counted /\ ShortRuns /\ ~Seen(ref)
        BY <2>6 DEF WalkInv
      <4>2. PICK how \in {"unread", "yielded"} : how = "yielded"
        OBVIOUS
      <4>3. /\ told' = Append(told, [ref |-> ref, how |-> how])
            /\ \/ how = "yielded" /\ run' = 0 /\ UNCHANGED total
               \/ how = "unread" /\ run' = run + 1 /\ total' = total + 1
                  /\ run + 1 < WalkFailBudget /\ total + 1 <= MaxUnreadRoots
            /\ end' \in {"none", "caller"}
        BY <2>6, <3>1, <4>2 DEF Yield
      <4>. QED BY ONLY <1>0, <2>1, <4>1, <4>3, WalkAssumption, ref \in NativeRefs, readable \in BOOLEAN,
                  how \in {"unread", "yielded"}, TellStep
    <3>. QED BY <2>1, <3>2 DEF WalkInv
  <2>7. CASE end = "none" /\ ~Seen(ref) /\ ~readable /\ Skip(ref)
    <3>1. CASE OverBudget
      <4>1. run' = run + 1 /\ total' = total + 1 /\ UNCHANGED told /\ end' = "refused"
        BY <2>7, <3>1 DEF Skip
      <4>. QED BY <1>0, <2>1, <2>3, <4>1 DEF WalkInv, WalkTyped
    <3>2. CASE ~OverBudget
      <4>0. told' = Append(told, [ref |-> ref, how |-> "unread"]) /\ run' = run + 1 /\ total' = total + 1
            /\ run + 1 < WalkFailBudget /\ total + 1 <= MaxUnreadRoots
        BY <1>0, <2>7, <3>2, WalkAssumption DEF Skip, OverBudget, WalkTyped
      <4>1. ToldAll /\ Counted /\ ShortRuns /\ ~Seen(ref)
        BY <2>7 DEF WalkInv
      <4>2. PICK how \in {"unread", "yielded"} : how = "unread"
        OBVIOUS
      <4>3. /\ told' = Append(told, [ref |-> ref, how |-> how])
            /\ \/ how = "yielded" /\ run' = 0 /\ UNCHANGED total
               \/ how = "unread" /\ run' = run + 1 /\ total' = total + 1
                  /\ run + 1 < WalkFailBudget /\ total + 1 <= MaxUnreadRoots
            /\ end' \in {"none", "caller"}
        BY <2>7, <3>2, <4>0, <4>2 DEF Skip
      <4>4. (WalkTyped /\ ToldAll /\ Counted /\ ShortRuns)'
        BY ONLY <1>0, <2>1, <4>1, <4>3, WalkAssumption, ref \in NativeRefs, readable \in BOOLEAN,
                  how \in {"unread", "yielded"}, TellStep
      <4>. QED BY <2>1, <4>4 DEF WalkInv
    <3>. QED BY <3>1, <3>2
  <2>. QED BY <1>2, <2>4, <2>5, <2>6, <2>7 DEF List
<1>. QED BY <1>1, <1>2 DEF WalkNext

\* An Items walk that answers no error told its caller of every root once, and
\* ended at neither budget (mediasource/set.go, policy.go).
THEOREM WalksStayWhole == SInit /\ [][WalkNext \/ SetsNext]_svars => []WalkIsWhole
<1>1. SInit => WalkInv
  BY WalkInit
<1>2. WalkInv /\ [WalkNext \/ SetsNext]_svars => WalkInv'
  <2>. SUFFICES ASSUME WalkInv, [WalkNext \/ SetsNext]_svars PROVE WalkInv'
    OBVIOUS
  <2>1. CASE WalkNext
    BY <2>1, WalkKeepsInv
  <2>2. CASE SetsNext \/ UNCHANGED svars
    <3>1. UNCHANGED walked
      BY <2>2 DEF SetsNext, Edit, StartProbe, EndProbe, AskRoots, Answer, GiveUp, FillEnds, EndFill, svars
    <3>. QED BY <3>1, WalkKept
  <2>. QED BY <2>1, <2>2
<1>3. WalkInv => WalkIsWhole
  <2>. SUFFICES ASSUME WalkInv, answer = "ok" PROVE ToldAll /\ Counted /\ ShortRuns => WalkIsWhole
    BY DEF WalkInv, WalkIsWhole
  <2>. SUFFICES ASSUME ToldAll, Counted, ShortRuns PROVE WalkIsWhole
    OBVIOUS
  <2>1. ASSUME NEW i \in 1 .. Len(listed) PROVE Cardinality(ToldOf(listed[i].ref)) = 1
    <3>1. ToldOf(listed[i].ref) = {i}
      BY DEF ToldAll, ToldOf
    <3>. QED BY <3>1, FS_Singleton
  <2>2. Cardinality(Unread) <= MaxUnreadRoots
    BY DEF Counted
  <2>. QED BY <2>1, <2>2 DEF WalkIsWhole, ShortRuns
<1>. QED BY <1>1, <1>2, <1>3, PTL

(***************************************************************************)
(* SourceSet: the sets.                                                    *)
(***************************************************************************)

Config == [conn : {0, 1}, secret : {0, 1}]
SourceSets == [config : Config, roots : [known : BOOLEAN, conn : {0, 1}], fill : {"none", "running", "ended"}]

SetsTyped ==
    /\ config \in Config
    /\ set \in Seq(SourceSets)
    /\ live \in 1 .. Len(set)
    /\ probe \in 0 .. Len(set)

\* The set published last is built from the entry that is stored.
LiveIsConfigured == set[live].config = config

SetsInv == SetsTyped /\ LiveIsConfigured /\ OwnRoots

\* A set whose roots, if any, were read over its connection.
Owns(s) == s.roots.known => s.roots.conn = s.config.conn

LEMMA OwnsAll == OwnRoots <=> \A i \in 1 .. Len(set) : Owns(set[i])
BY DEF OwnRoots, Owns

\* One set's roots or fill changes.
LEMMA OneSetStep ==
    ASSUME SetsInv, NEW i \in 1 .. Len(set), NEW r \in SourceSets, Owns(r), r.config = set[i].config,
           set' = [set EXCEPT ![i] = r], UNCHANGED <<config, live>>, probe' \in 0 .. Len(set)
    PROVE  SetsInv'
<1>1. set' \in Seq(SourceSets) /\ Len(set') = Len(set) /\ \A j \in 1 .. Len(set) : set'[j] = IF j = i THEN r ELSE set[j]
  BY DEF SetsInv, SetsTyped
<1>2. SetsTyped'
  BY <1>1 DEF SetsInv, SetsTyped
<1>3. LiveIsConfigured'
  BY <1>1 DEF SetsInv, SetsTyped, LiveIsConfigured
<1>4. OwnRoots'
  BY <1>1 DEF SetsInv, OwnRoots, Owns
<1>. QED BY <1>2, <1>3, <1>4 DEF SetsInv

\* The set that is read, and the set whose fill goes on.
ReadOver(s, c) == [s EXCEPT !.roots = [known |-> TRUE, conn |-> c]]
FilledTo(s, f) == [s EXCEPT !.fill = f]

LEMMA SetFields ==
    ASSUME NEW s \in SourceSets, NEW f \in {"none", "running", "ended"}, NEW c \in {0, 1}
    PROVE  /\ ReadOver(s, c) \in SourceSets /\ ReadOver(s, c).config = s.config
           /\ ReadOver(s, c).roots.known /\ ReadOver(s, c).roots.conn = c
           /\ FilledTo(s, f) \in SourceSets /\ FilledTo(s, f).config = s.config
           /\ FilledTo(s, f).roots = s.roots
<1>1. [known |-> TRUE, conn |-> c] \in [known : BOOLEAN, conn : {0, 1}]
  OBVIOUS
<1>2. [known |-> TRUE, conn |-> c].known /\ [known |-> TRUE, conn |-> c].conn = c
  OBVIOUS
<1>3. ReadOver(s, c) \in SourceSets /\ ReadOver(s, c).config = s.config
      /\ ReadOver(s, c).roots = [known |-> TRUE, conn |-> c]
  BY <1>1 DEF ReadOver, SourceSets
<1>4. FilledTo(s, f) \in SourceSets /\ FilledTo(s, f).config = s.config
      /\ FilledTo(s, f).roots = s.roots
  BY DEF FilledTo, SourceSets
<1>. QED BY <1>2, <1>3, <1>4

LEMMA SetsKept == SetsInv /\ UNCHANGED <<config, set, live, probe>> => SetsInv'
BY DEF SetsInv, SetsTyped, LiveIsConfigured, OwnRoots

LEMMA SetsInit == SInit => SetsInv
<1>. SUFFICES ASSUME SInit PROVE SetsInv
  OBVIOUS
<1>1. PICK c \in Config : c = [conn |-> 0, secret |-> 0]
  BY DEF Config
<1>2. PICK r \in [known : BOOLEAN, conn : {0, 1}] : r = [known |-> FALSE, conn |-> 0] /\ ~r.known
  <2>1. [known |-> FALSE, conn |-> 0] \in [known : BOOLEAN, conn : {0, 1}]
    OBVIOUS
  <2>2. ~([known |-> FALSE, conn |-> 0].known)
    OBVIOUS
  <2>. QED BY ONLY <2>1, <2>2, Zenon
<1>3. PICK s \in SourceSets : s = [config |-> c, roots |-> r, fill |-> "none"] /\ s.config = c /\ s.roots = r
  <2>1. PICK s : s = [config |-> c, roots |-> r, fill |-> "none"]
    OBVIOUS
  <2>2. s \in SourceSets /\ s.config = c /\ s.roots = r
    BY <2>1 DEF SourceSets
  <2>. QED BY ONLY <2>1, <2>2, Zenon
<1>4. config = c /\ set = <<s>> /\ live = 1 /\ probe = 0
  BY <1>1, <1>2, <1>3 DEF SInit, NewSet, NoRoots
<1>5. set \in Seq(SourceSets) /\ Len(set) = 1 /\ set[1] = s
  BY <1>4
<1>6. SetsTyped /\ LiveIsConfigured
  BY <1>3, <1>4, <1>5 DEF SetsTyped, LiveIsConfigured
<1>7. OwnRoots
  BY <1>2, <1>3, <1>5 DEF OwnRoots
<1>. QED BY <1>6, <1>7 DEF SetsInv

LEMMA EditStep ==
    ASSUME SetsInv, NEW c \in Config, Edit(c)
    PROVE  SetsInv'
<1>0. SetsTyped /\ LiveIsConfigured /\ OwnRoots
  BY DEF SetsInv
<1>1. set[live] \in SourceSets /\ live \in 1 .. Len(set) /\ Len(set) \in Nat
  BY <1>0 DEF SetsTyped
<1>2. PICK r \in [known : BOOLEAN, conn : {0, 1}] :
          r = IF Inherits(config, c) THEN set[live].roots ELSE NoRoots
  <2>1. NoRoots \in [known : BOOLEAN, conn : {0, 1}]
    BY DEF NoRoots
  <2>2. set[live].roots \in [known : BOOLEAN, conn : {0, 1}]
    BY <1>1 DEF SourceSets
  <2>. QED BY <2>1, <2>2
<1>3. r.known => r.conn = c.conn
  <2>1. CASE Inherits(config, c)
    BY <1>0, <1>1, <1>2, <2>1 DEF Inherits, OwnRoots, LiveIsConfigured
  <2>2. CASE ~Inherits(config, c)
    BY <1>2, <2>2 DEF NoRoots
  <2>. QED BY <2>1, <2>2
<1>4. PICK s \in SourceSets : s = [NewSet(c) EXCEPT !.roots = r] /\ s.config = c /\ s.roots = r
  <2>1. NewSet(c) \in SourceSets /\ NewSet(c).config = c
    BY DEF NewSet, NoRoots, SourceSets
  <2>2. [NewSet(c) EXCEPT !.roots = r] \in SourceSets /\ [NewSet(c) EXCEPT !.roots = r].config = c
        /\ [NewSet(c) EXCEPT !.roots = r].roots = r
    BY <2>1 DEF SourceSets
  <2>. QED BY <2>2
<1>5. set' = Append(set, s) /\ config' = c /\ live' = Len(set) + 1 /\ UNCHANGED probe
  BY <1>2, <1>4 DEF Edit
<1>6. /\ set' \in Seq(SourceSets) /\ Len(set') = Len(set) + 1 /\ set'[Len(set) + 1] = s
      /\ \A j \in 1 .. Len(set) : set'[j] = set[j]
  BY <1>0, <1>5 DEF SetsTyped
<1>7. SetsTyped'
  BY <1>0, <1>1, <1>5, <1>6 DEF SetsTyped
<1>8. LiveIsConfigured'
  BY <1>4, <1>5, <1>6 DEF LiveIsConfigured
<1>9. OwnRoots'
  <2>1. SUFFICES ASSUME NEW j \in 1 .. Len(set) + 1, set'[j].roots.known PROVE set'[j].roots.conn = set'[j].config.conn
    BY <1>6 DEF OwnRoots
  <2>2. CASE j = Len(set) + 1
    BY <1>3, <1>4, <1>6, <2>1, <2>2
  <2>3. CASE j \in 1 .. Len(set)
    BY <1>0, <1>6, <2>1, <2>3 DEF OwnRoots
  <2>. QED BY <1>1, <2>2, <2>3
<1>. QED BY <1>7, <1>8, <1>9 DEF SetsInv

LEMMA SetsKeepInv ==
    ASSUME SetsInv, SetsNext
    PROVE  SetsInv'
<1>0. SetsTyped /\ LiveIsConfigured /\ OwnRoots
  BY DEF SetsInv
<1>1. \A i \in 1 .. Len(set) : set[i] \in SourceSets /\ set[i].config.conn \in {0, 1} /\ Owns(set[i])
  <2>1. \A i \in 1 .. Len(set) : set[i] \in SourceSets
    BY <1>0 DEF SetsTyped
  <2>2. \A i \in 1 .. Len(set) : set[i].config \in Config
    BY <2>1 DEF SourceSets
  <2>. QED BY <2>1, <2>2, <1>0, OwnsAll DEF Config
<1>2. ASSUME NEW i \in 1 .. Len(set)
      PROVE  SetRoots(i, set[i].config.conn) = [set EXCEPT ![i] = ReadOver(set[i], set[i].config.conn)]
  <2>1. set \in [1 .. Len(set) -> SourceSets]
    BY <1>0 DEF SetsTyped
  <2>. QED BY <2>1 DEF SetRoots, ReadOver
<1>3. ASSUME NEW i \in 1 .. Len(set)
      PROVE  /\ ReadOver(set[i], set[i].config.conn) \in SourceSets
             /\ ReadOver(set[i], set[i].config.conn).config = set[i].config
             /\ Owns(ReadOver(set[i], set[i].config.conn))
  <2>1. PICK c \in {0, 1} : c = set[i].config.conn
    BY <1>1
  <2>2. ReadOver(set[i], c) \in SourceSets /\ ReadOver(set[i], c).config = set[i].config
        /\ ReadOver(set[i], c).roots.known /\ ReadOver(set[i], c).roots.conn = c
    BY <1>1, SetFields
  <2>. QED BY <2>1, <2>2 DEF Owns
<1>4. ASSUME NEW i \in 1 .. Len(set), NEW f \in {"none", "running", "ended"}, NEW s \in SourceSets,
             s.config = set[i].config, Owns(s)
      PROVE  /\ FilledTo(s, f) \in SourceSets /\ FilledTo(s, f).config = set[i].config
             /\ Owns(FilledTo(s, f))
  <2>1. FilledTo(s, f) \in SourceSets /\ FilledTo(s, f).config = s.config /\ FilledTo(s, f).roots = s.roots
    BY SetFields
  <2>. QED BY <1>4, <2>1 DEF Owns
<1>5. ASSUME NEW conn \in {0, 1}, NEW secret \in {0, 1}, Edit([conn |-> conn, secret |-> secret]) PROVE SetsInv'
  <2>1. [conn |-> conn, secret |-> secret] \in Config
    BY DEF Config
  <2>. QED BY ONLY <1>5, <2>1, SetsInv, EditStep
<1>6. CASE StartProbe
  BY <1>0, <1>6 DEF StartProbe, SetsInv, SetsTyped, LiveIsConfigured, OwnRoots
<1>7. ASSUME NEW ok \in BOOLEAN, EndProbe(ok) PROVE SetsInv'
  <2>1. probe \in 1 .. Len(set) /\ probe' = 0 /\ UNCHANGED <<config, live>> /\ probe' \in 0 .. Len(set)
    BY <1>0, <1>7 DEF EndProbe, SetsTyped
  <2>2. CASE set' = set
    BY <1>0, <2>1, <2>2 DEF SetsInv, SetsTyped, LiveIsConfigured, OwnRoots
  <2>3. CASE set' = SetRoots(probe, set[probe].config.conn)
    <3>1. set' = [set EXCEPT ![probe] = ReadOver(set[probe], set[probe].config.conn)]
      BY <1>2, <2>1, <2>3
    <3>. QED BY <1>3, <2>1, <3>1, OneSetStep
  <2>. QED BY <1>7, <2>2, <2>3 DEF EndProbe
<1>8. ASSUME NEW v \in Viewers, AskRoots(v) PROVE SetsInv'
  <2>1. PICK f \in {"none", "running", "ended"} : f = FillOf(live)
    <3>1. live \in 1 .. Len(set)
      BY <1>0 DEF SetsTyped
    <3>2. set[live].fill \in {"none", "running", "ended"}
      BY <1>1, <3>1 DEF SourceSets
    <3>. QED BY <3>2 DEF FillOf
  <2>2. live \in 1 .. Len(set) /\ set \in [1 .. Len(set) -> SourceSets] /\ UNCHANGED <<config, live>>
        /\ probe' \in 0 .. Len(set)
    BY <1>0, <1>8 DEF SetsTyped, AskRoots
  <2>3. set' = [set EXCEPT ![live] = FilledTo(set[live], f)]
    BY <1>8, <2>1, <2>2 DEF AskRoots, FilledTo
  <2>4. FilledTo(set[live], f) \in SourceSets /\ FilledTo(set[live], f).config = set[live].config
        /\ Owns(FilledTo(set[live], f))
    BY <1>1, <1>4, <2>2
  <2>. QED BY <2>2, <2>3, <2>4, OneSetStep
<1>9. ASSUME NEW i \in 1 .. MaxEntryEdits + 1, NEW ok \in BOOLEAN, EndFill(i, ok) PROVE SetsInv'
  <2>1. i \in 1 .. Len(set) /\ set \in [1 .. Len(set) -> SourceSets] /\ UNCHANGED <<config, live>>
        /\ probe' \in 0 .. Len(set)
    BY <1>0, <1>9 DEF SetsTyped, EndFill
  <2>2. PICK r \in SourceSets : /\ r.config = set[i].config /\ Owns(r)
                                /\ r = IF ok THEN ReadOver(set[i], set[i].config.conn) ELSE set[i]
    BY <1>1, <1>3, <2>1
  <2>3. PICK read \in [1 .. Len(set) -> SourceSets] : /\ read = [set EXCEPT ![i] = r]
                                                      /\ set' = [read EXCEPT ![i].fill = "ended"]
    <3>1. [set EXCEPT ![i] = r] \in [1 .. Len(set) -> SourceSets]
      BY <2>1
    <3>2. CASE ok
      <4>1. set' = [SetRoots(i, set[i].config.conn) EXCEPT ![i].fill = "ended"]
        BY <1>9, <3>2 DEF EndFill
      <4>2. r = ReadOver(set[i], set[i].config.conn)
        BY <2>2, <3>2
      <4>3. SetRoots(i, set[i].config.conn) = [set EXCEPT ![i] = r]
        BY <1>2, <2>1, <4>2
      <4>. QED BY <3>1, <4>1, <4>3
    <3>3. CASE ~ok
      <4>1. set' = [set EXCEPT ![i].fill = "ended"]
        BY <1>9, <3>3 DEF EndFill
      <4>2. r = set[i]
        BY <2>2, <3>3
      <4>3. set = [set EXCEPT ![i] = r]
        BY <2>1, <4>2
      <4>. QED BY <3>1, <4>1, <4>3
    <3>. QED BY <3>2, <3>3
  <2>4. set' = [set EXCEPT ![i] = FilledTo(r, "ended")]
    BY <2>1, <2>3 DEF FilledTo
  <2>5. FilledTo(r, "ended") \in SourceSets /\ FilledTo(r, "ended").config = set[i].config /\ Owns(FilledTo(r, "ended"))
    BY <1>4, <2>1, <2>2
  <2>. QED BY <2>1, <2>4, <2>5, OneSetStep
<1>10. ASSUME NEW v \in Viewers, Answer(v) \/ GiveUp(v) PROVE SetsInv'
  BY <1>10, SetsKept DEF Answer, GiveUp
<1>. QED BY <1>5, <1>6, <1>7, <1>8, <1>9, <1>10 DEF SetsNext, FillEnds

\* A source set answers only for the connection it is configured with
\* (mediasource/roots.go).
THEOREM RootsStayOwn == SInit /\ [][WalkNext \/ SetsNext]_svars => []OwnRoots
<1>1. SInit => SetsInv
  BY SetsInit
<1>2. SetsInv /\ [WalkNext \/ SetsNext]_svars => SetsInv'
  <2>. SUFFICES ASSUME SetsInv, [WalkNext \/ SetsNext]_svars PROVE SetsInv'
    OBVIOUS
  <2>1. CASE SetsNext
    BY <2>1, SetsKeepInv
  <2>2. CASE WalkNext \/ UNCHANGED svars
    <3>1. UNCHANGED <<config, set, live, probe>>
      BY <2>2 DEF WalkNext, List, Finish, svars, sets
    <3>. QED BY <3>1, SetsKept
  <2>. QED BY <2>1, <2>2
<1>3. SetsInv => OwnRoots
  BY DEF SetsInv
<1>. QED BY <1>1, <1>2, <1>3, PTL

(***************************************************************************)
(* Together: a step of Services is one of each service, or leaves it.      *)
(***************************************************************************)

LEMMA StepOfEach ==
    ASSUME [Next]_allVars
    PROVE  /\ [HNext]_hvars
           /\ [DownloadNext \/ SearchNext]_dvars
           /\ [ANext]_avars
           /\ [WalkNext \/ SetsNext]_svars
<1>1. CASE StoreStep \/ FeedStep \/ AccountStep \/ UNCHANGED allVars
  BY <1>1 DEF StoreStep, FeedStep, AccountStep, allVars
<1>2. CASE HistoryStep
  BY <1>2 DEF HistoryStep
<1>3. CASE PacksStep \/ TorrentsStep
  BY <1>3 DEF PacksStep, TorrentsStep
<1>4. CASE LookupsStep
  BY <1>4 DEF LookupsStep
<1>5. CASE WalkStep \/ SetsStep
  BY <1>5 DEF WalkStep, SetsStep
<1>. QED BY <1>1, <1>2, <1>3, <1>4, <1>5 DEF Next

\* What a cache keeps is what a request for it would find: packs, series and
\* root folders (provider/hdbits, provider/anidb, mediasource).
THEOREM CachesStayWhole == Spec => []CachesWhole
<1>1. Init => DInit /\ AInit /\ SInit
  BY DEF Init
<1>2. [Next]_allVars => [DownloadNext \/ SearchNext]_dvars /\ [ANext]_avars /\ [WalkNext \/ SetsNext]_svars
  BY StepOfEach
<1>3. PackSharedOnce /\ (SeriesWhole /\ VerdictNamed) /\ OwnRoots => CachesWhole
  BY DEF CachesWhole
<1>. QED BY <1>1, <1>2, <1>3, PacksStayShared, EpisodesStayWhole, RootsStayOwn, PTL DEF Spec, DSpec

\* An answer with no error is the whole answer: of a search over torrents, and
\* of a walk of a source's items (provider/hdbits, mediasource).
THEOREM AnswersStayWhole == Spec => []AnswersWhole
<1>1. Init => DInit /\ SInit
  BY DEF Init
<1>2. [Next]_allVars => [DownloadNext \/ SearchNext]_dvars /\ [WalkNext \/ SetsNext]_svars
  BY StepOfEach
<1>3. ResultsAreWhole /\ WalkIsWhole => AnswersWhole
  BY DEF AnswersWhole
<1>. QED BY <1>1, <1>2, <1>3, ResultsStayWhole, WalksStayWhole, PTL DEF Spec, DSpec
=============================================================================
