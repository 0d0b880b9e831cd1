---------------------------- MODULE OpenSubtitles ----------------------------
(***************************************************************************)
(* provider/opensubtitles: the calls that share one account's token and    *)
(* one account's request rate, and provider/retry.go's download retries.   *)
(*                                                                         *)
(* A search asks for up to Pages pages.  A download attempt posts for a    *)
(* link, then fetches the file the link names, with no token.              *)
(***************************************************************************)
EXTENDS Integers, FiniteSets

CONSTANTS
    Calls,       \* the calls made, each once
    Downloads,   \* those that are downloads
    Pages,       \* pages of a search, its title fallback's included
    MaxAttempts, \* DownloadRetryAttempts
    MaxTokens    \* bound: tokens the service issues

NoToken == 0
NoLeader == "no leader"

ASSUME CallsAssumption ==
    NoLeader \notin Calls /\ Downloads \subseteq Calls /\ Pages \in Nat \ {0} /\ MaxAttempts \in Nat \ {0}

VARIABLES
    token,    \* the token held, NoToken when invalidated
    fresh,    \* it is younger than tokenExpiry
    revoked,  \* the tokens the service refuses
    issued,   \* how many it issued
    leader,   \* the call whose login the others wait for
    bucket,   \* requests rateCh lets through now
    refills,  \* timers that will refill it
    call      \* call -> where it is

account == <<token, fresh, revoked, issued>>
ovars == <<account, leader, bucket, refills, call>>

OInit ==
    /\ token = NoToken /\ fresh = FALSE /\ revoked = {} /\ issued = 0
    /\ leader = NoLeader
    /\ bucket = 1 /\ refills = 0
    /\ call = [c \in Calls |-> [at |-> "idle", left |-> 0, attempt |-> 0, with |-> NoToken]]

TokenValid == token # NoToken /\ fresh

Where(c, where) == [call EXCEPT ![c].at = where]

\* A request's legs: pages of a search, or the link and then the file
Legs(c) == IF c \in Downloads THEN 2 ELSE Pages
AtFile(c) == c \in Downloads /\ call[c].left = 1

Start(c) ==
    /\ call[c].at = "idle"
    /\ call' = [call EXCEPT ![c].at = "ensure", ![c].attempt = 1]
    /\ UNCHANGED <<account, leader, bucket, refills>>

\* ensureToken, its first look
EnsureToken(c) ==
    /\ call[c].at = "ensure"
    /\ call' = IF TokenValid
               THEN [call EXCEPT ![c].at = "pace", ![c].left = Legs(c)]
               ELSE Where(c, "join")
    /\ UNCHANGED <<account, leader, bucket, refills>>

\* Faulty LeaderStart: the winner does not look again.
LeaderStartUnchecked(c) == Where(c, "loginPace")

\* The second look, as the login's leader
LeaderStart(c) == Where(c, IF TokenValid THEN "loggedIn" ELSE "loginPace")

\* singleflight: the first caller leads, and the others wait for its answer.
JoinLogin(c) ==
    /\ call[c].at = "join"
    /\ IF leader = NoLeader
       THEN leader' = c /\ call' = LeaderStart(c)
       ELSE UNCHANGED leader /\ call' = Where(c, "waiting")
    /\ UNCHANGED <<account, bucket, refills>>

\* retryProvider tries a download again after a transient failure.
Retried(c) == c \in Downloads /\ call[c].attempt < MaxAttempts

\* Where a failed attempt leaves a call: a transient failure is tried again.
AfterFailure(c, transient) == IF transient /\ Retried(c) THEN "backoff" ELSE "failed"

\* What ensureToken answers: a token, or login's error, whose transience its
\* wrapping keeps.
LoginAnswers == {"ok", "transient", "lasting"}

Hears(c, got) ==
    IF got = "ok" THEN [call[c] EXCEPT !.at = "pace", !.left = Legs(c)]
    ELSE Where(c, AfterFailure(c, got = "transient"))[c]

\* Faulty Answered: the waiters are not told of a failure.
AnsweredAlone(c, own, others) ==
    /\ leader' = NoLeader
    /\ call' = [d \in Calls |->
        IF d = c THEN Hears(c, own)
        ELSE IF call[d].at = "waiting" /\ others = "ok" THEN Hears(d, others)
        ELSE call[d]]

\* The leader's answer is every waiter's, its error too, which each takes as
\* its own attempt's.
Answered(c, own, others) ==
    /\ leader' = NoLeader
    /\ call' = [d \in Calls |->
        IF d = c THEN Hears(c, own)
        ELSE IF call[d].at = "waiting" THEN Hears(d, others)
        ELSE call[d]]

LoggedIn(c) ==
    /\ call[c].at = "loggedIn"
    /\ Answered(c, "ok", "ok")
    /\ UNCHANGED <<account, bucket, refills>>

\* Faulty TakeSlot: the refill is not left to a timer.
TakeSlotAtOnce == bucket = 1 /\ bucket' = 1 /\ refills' = refills

\* rateLimit: takes what rateCh holds and starts the refill's timer.
TakeSlot == bucket = 1 /\ bucket' = 0 /\ refills' = refills + 1

\* login sends, unauthenticated.
SendLogin(c) ==
    /\ call[c].at = "loginPace"
    /\ TakeSlot
    /\ call' = Where(c, "loginSent")
    /\ UNCHANGED <<account, leader>>

\* login stores the answer's token, or fails.
LoginAnswer(c, got) ==
    /\ call[c].at = "loginSent"
    /\ IF got = "ok"
       THEN /\ issued < MaxTokens
            /\ issued' = issued + 1 /\ token' = issued + 1 /\ fresh' = TRUE
       ELSE UNCHANGED <<issued, token, fresh>>
    /\ Answered(c, got, got)
    /\ UNCHANGED <<revoked, bucket, refills>>

\* doGet, doPostDownload and fetchSubtitleFile: wait for the rate, then read
\* the token the request carries.
Send(c) ==
    /\ call[c].at = "pace"
    /\ TakeSlot
    /\ call' = [call EXCEPT ![c].at = "sent", ![c].with = IF AtFile(c) THEN NoToken ELSE token]
    /\ UNCHANGED <<account, leader>>

\* A 401 or a 403, of whatever token the request carried: each is an
\* AuthError, for which invalidateTokenOn401 clears the token now held.
Unauthorized(c) ==
    /\ call[c].at = "sent"
    /\ ~AtFile(c)
    /\ token' = NoToken
    /\ call' = Where(c, "refused")
    /\ UNCHANGED <<fresh, revoked, issued, leader, bucket, refills>>

\* The next leg, unless this was the last: a search may run out of pages.
Served(c, more) ==
    /\ call[c].at = "sent"
    /\ AtFile(c) \/ call[c].with \notin revoked \union {NoToken}
    /\ IF c \in Downloads THEN more = (call[c].left = 2) ELSE more => call[c].left > 1
    /\ call' = IF more
               THEN [call EXCEPT ![c].at = "pace", ![c].left = @ - 1]
               ELSE Where(c, "done")
    /\ UNCHANGED <<account, leader, bucket, refills>>

TransientFailure(c) ==
    /\ call[c].at = "sent"
    /\ call' = Where(c, AfterFailure(c, TRUE))
    /\ UNCHANGED <<account, leader, bucket, refills>>

Backoff(c) ==
    /\ call[c].at = "backoff"
    /\ call' = [call EXCEPT ![c].at = "ensure", ![c].attempt = @ + 1]
    /\ UNCHANGED <<account, leader, bucket, refills>>

\* Its context ends, where the call looks at it, and it ends; or an answer
\* nothing retries ends it.  A waiter looks at its leader's context only, whose
\* end may count as transient for it.
Cancel(c) ==
    /\ call[c].at \in {"loginPace", "loginSent", "pace", "sent", "backoff"}
    /\ IF c = leader
       THEN \E got \in LoginAnswers \ {"ok"} : Answered(c, "lasting", got)
       ELSE leader' = leader /\ call' = Where(c, "failed")
    /\ UNCHANGED <<account, bucket, refills>>

\* A refill's timer
Refill ==
    /\ refills > 0
    /\ refills' = refills - 1
    /\ bucket' = 1
    /\ UNCHANGED <<account, leader, call>>

\* The token outlives tokenExpiry, or the service stops taking one.
Expire ==
    /\ fresh /\ fresh' = FALSE
    /\ UNCHANGED <<token, revoked, issued, leader, bucket, refills, call>>

Revoke(t) ==
    /\ t \in (1 .. issued) \ revoked
    /\ revoked' = revoked \union {t}
    /\ UNCHANGED <<token, fresh, issued, leader, bucket, refills, call>>

Step(c) ==
    \/ EnsureToken(c) \/ JoinLogin(c) \/ LoggedIn(c) \/ SendLogin(c)
    \/ \E got \in LoginAnswers : LoginAnswer(c, got)
    \/ Send(c) \/ Unauthorized(c) \/ TransientFailure(c) \/ Backoff(c)
    \/ \E more \in BOOLEAN : Served(c, more)

ONext ==
    \/ \E c \in Calls : Start(c) \/ Step(c) \/ Cancel(c)
    \/ Refill \/ Expire \/ \E t \in 1 .. MaxTokens : Revoke(t)

\* Steps a call takes of itself, a service that answers, and timers that fire
OProgress == Refill \/ \E c \in Calls : Step(c)

OSpec == OInit /\ [][ONext]_ovars /\ WF_ovars(OProgress)

(***************************************************************************)
(* Properties                                                              *)
(***************************************************************************)

\* The account logs in only when it holds no token it could use: callers that
\* found none at once share one login, and a caller that comes late finds the
\* token the login before it brought.
LoginNeeded ==
    \A c \in Calls : call[c].at \in {"loginPace", "loginSent"} => c = leader /\ ~TokenValid

\* Every call ends, though it waits on another's login and on the rate all
\* share.
Ended(c) == call[c].at \in {"done", "failed", "refused"}
CallsEnd == \A c \in Calls : (call[c].at # "idle") ~> Ended(c)

\* "doGet performs a rate-limited, authenticated GET request"
\* The code does not keep it: see the README's disagreements.
Authenticated ==
    \A c \in Calls : call[c].at = "sent" /\ ~AtFile(c) => call[c].with # NoToken
=============================================================================
