------------------------------- MODULE StepUp -------------------------------
(***************************************************************************)
(* What follows a verified passkey: the risk score and the step-up limiter *)
(* of risk.service.ts, the TOTP secret of totp.service.ts, and the routes  *)
(* login/verify, login/step-up, totp/setup and totp/verify of              *)
(* auth.routes.ts that put them together.                                  *)
(*                                                                         *)
(* The clock's unit is a TOTP time step, 30 seconds; an attempt counts for *)
(* WINDOW of them.  A code is the secret and the time step it was computed *)
(* for: two of them never have the same six digits.  A pending token is    *)
(* the claims signed into it; nothing is stored of it.                     *)
(*                                                                         *)
(* A definition that no other one uses and that stands right before the    *)
(* one it resembles is a plausible mistake in that code.                   *)
(***************************************************************************)
EXTENDS Integers, Sequences, FiniteSets

CONSTANTS NULL, Users, Ips, Secrets,
          Agents,        \* user agents; NULL among them is a request without one
          Calls,         \* calls that can be open at one time
          CodeSteps,     \* time steps that codes are computed for
          WINDOW,        \* STEP_UP_WINDOW_MS
          MAX_ATTEMPTS,  \* STEP_UP_MAX_ATTEMPTS
          TTL,           \* STEP_UP_TTL
          HISTORY,       \* login events that count
          MaxTime,       \* bound on the clock
          MaxTries,      \* bound on the step-up attempts of a user
          MaxLogins,     \* bound on verified passkeys
          MaxFailures    \* bound on calls that fail, events lost and restarts

ASSUME StepUpAssumption ==
    /\ CodeSteps \subseteq Nat
    /\ WINDOW \in Nat /\ MAX_ATTEMPTS \in Nat /\ TTL \in Nat /\ HISTORY \in Nat \ {0}
    /\ MaxTime \in Nat /\ MaxTries \in Nat /\ MaxLogins \in Nat /\ MaxFailures \in Nat

VARIABLES
    totp,       \* users.totp_secret and users.totp_enabled
    events,     \* the last HISTORY login_events of each user, newest last
    attempts,   \* stepUpAttempts: user -> times
    pendings,   \* the pending tokens signed so far
    calls,      \* the calls under way; their answers are not kept
    tries,      \* history: every step-up attempt since the process started
    proved,     \* history: secrets a code of which was verified
    raced,      \* history: users whose secret was replaced during a verification
    first,      \* history: how the first session of each user was granted
    now, logins, failures

vars == <<totp, events, attempts, pendings, calls, tries, proved, raced, first,
          now, logins, failures>>

Place   == [ip : Ips, agent : Agents]
Pending == [user : Users, place : Place, expires : Nat]
Code    == [secret : Secrets, step : CodeSteps]
Try     == [at : Nat, blocked : BOOLEAN]

ASSUME NullAssumption == NULL \notin Place \cup Secrets \cup {"low", "step_up"}

\* The statement a call runs next; "record" is the login event, written un-awaited
\* when the tokens have been sent.
Steps  == {"score", "secret", "enable", "issue", "record"}
NoCall == [pc |-> "idle"]
\* via: how a session would be granted, NULL for totp/verify.
Call == [pc : Steps, user : Users, place : Place \cup {NULL},
         code : Code \cup {NULL}, via : {"low", "step_up", NULL}]

Goto(k, pc) == calls' = [calls EXCEPT ![k].pc = pc]
Answer(k)   == calls' = [calls EXCEPT ![k] = NoCall]

Init ==
    /\ totp = [u \in Users |-> [secret |-> NULL, enabled |-> FALSE]]
    /\ events = [u \in Users |-> <<>>]
    /\ attempts = [u \in Users |-> <<>>] /\ tries = [u \in Users |-> <<>>]
    /\ first = [u \in Users |-> NULL]
    /\ pendings = {} /\ proved = {} /\ raced = {}
    /\ calls = [k \in Calls |-> NoCall]
    /\ now = 0 /\ logins = 0 /\ failures = 0

-----------------------------------------------------------------------------
\* A header the request does not carry is NULL and is not held against it.
Seen(value, values) == value = NULL \/ value \in values

SeenIps(history)    == {history[i].ip : i \in DOMAIN history}
SeenAgents(history) == {history[i].agent : i \in DOMAIN history}

\* A mistake: the case of an empty history is not told apart.
ScoreHistoryless(place, history) ==
    CASE Seen(place.ip, SeenIps(history)) -> "low"
      [] ~Seen(place.ip, SeenIps(history)) /\ Seen(place.agent, SeenAgents(history)) -> "medium"
      [] OTHER -> "low"

\* scoreLoginRisk
Score(place, history) ==
    CASE history = <<>> -> "high"
      [] history # <<>> /\ Seen(place.ip, SeenIps(history)) -> "low"
      [] history # <<>> /\ ~Seen(place.ip, SeenIps(history))
            /\ Seen(place.agent, SeenAgents(history)) -> "medium"
      [] OTHER -> "low"

\* POST /login/verify after verifyLogin returned.
LoginVerified(k, u, place) ==
    /\ calls[k] = NoCall
    /\ logins < MaxLogins
    /\ logins' = logins + 1
    /\ calls' = [calls EXCEPT ![k] =
          [pc |-> "score", user |-> u, place |-> place, code |-> NULL, via |-> "low"]]
    /\ UNCHANGED <<totp, events, attempts, pendings, tries, proved, raced, first, now, failures>>

\* A mistake: the lifetime is taken off.
ExpiryBefore == now - TTL

Expiry == now + TTL

ScoreLogin(k) ==
    LET call == calls[k]
    IN  /\ call.pc = "score"
        /\ IF Score(call.place, events[call.user]) \in {"medium", "high"}
           THEN /\ pendings' = pendings \cup
                      {[user |-> call.user, place |-> call.place, expires |-> Expiry]}
                /\ Answer(k)
           ELSE Goto(k, "issue") /\ UNCHANGED pendings
        /\ UNCHANGED <<totp, events, attempts, tries, proved, raced, first, now, logins, failures>>

-----------------------------------------------------------------------------
\* A mistake: the attempts of an earlier window are never dropped.
RecentForever(times) == times

Recent(times) ==
    LET kept[n \in 0..Len(times)] ==
            IF n = 0 THEN <<>>
            ELSE IF now - times[n] < WINDOW THEN Append(kept[n - 1], times[n]) ELSE kept[n - 1]
    IN  kept[Len(times)]

BlockedLate(times) == Len(times) > MAX_ATTEMPTS + 1

Blocked(times) == Len(times) > MAX_ATTEMPTS

Attempted(u) == Append(Recent(attempts[u]), now)

\* recordStepUpAttempt
RecordStepUpAttempt(u) ==
    /\ Len(tries[u]) < MaxTries
    /\ attempts' = [attempts EXCEPT ![u] = Attempted(u)]
    /\ tries' = [tries EXCEPT ![u] = Append(@, [at |-> now, blocked |-> Blocked(Attempted(u))])]

\* POST /login/step-up: the attempt is recorded first, for the user the token names, and
\* then the token is checked.
SubmitStepUp(k, p, code) ==
    /\ calls[k] = NoCall
    /\ RecordStepUpAttempt(p.user)
    /\ calls' = [calls EXCEPT ![k] =
          IF Blocked(Attempted(p.user)) \/ now >= p.expires THEN NoCall
          ELSE [pc |-> "secret", user |-> p.user, place |-> p.place, code |-> code,
                via |-> "step_up"]]
    /\ UNCHANGED <<totp, events, pendings, proved, raced, first, now, logins, failures>>

\* The same with a token that names a user but is no pending token, such as an access
\* token, or one that jwt.verify refuses: 429 or 401, and the attempt counts.
SubmitOtherToken(u) ==
    /\ RecordStepUpAttempt(u)
    /\ UNCHANGED <<totp, events, pendings, calls, proved, raced, first, now, logins, failures>>

\* POST /totp/verify
SubmitVerify(k, u, code) ==
    /\ calls[k] = NoCall
    /\ calls' = [calls EXCEPT ![k] =
          [pc |-> "secret", user |-> u, place |-> NULL, code |-> code, via |-> NULL]]
    /\ UNCHANGED <<totp, events, attempts, pendings, tries, proved, raced, first, now,
                   logins, failures>>

\* verifyTOTP: the time step of the code is the present one or a neighbour.
VerifyTOTP(secret, code) ==
    secret # NULL /\ code.secret = secret /\ code.step - now \in -1..1

\* verifyCode: SELECT totp_secret and the comparison,
SelectSecret(k) ==
    LET call == calls[k]
        good == VerifyTOTP(totp[call.user].secret, call.code)
    IN  /\ call.pc = "secret"
        /\ proved' = IF good THEN proved \cup {call.code.secret} ELSE proved
        /\ IF good THEN Goto(k, "enable") ELSE Answer(k)
        /\ UNCHANGED <<totp, events, attempts, pendings, tries, raced, first, now,
                       logins, failures>>

\* ... then UPDATE ... SET totp_enabled = true, whatever the secret is by now.
Enable(k) ==
    LET call == calls[k]
    IN  /\ call.pc = "enable"
        /\ totp' = [totp EXCEPT ![call.user].enabled = TRUE]
        /\ IF call.via = NULL THEN Answer(k) ELSE Goto(k, "issue")
        /\ UNCHANGED <<events, attempts, pendings, tries, proved, raced, first, now,
                       logins, failures>>

\* A mistake: a new secret inherits the flag of the old one.
NewTotpEnabled(old, secret) == [old EXCEPT !.secret = secret]

NewTotp(old, secret) == [secret |-> secret, enabled |-> FALSE]

\* POST /totp/setup, generateSecretForUser: a random secret, one that no
\* row and no verification knows.
SetupTotp(u, secret) ==
    /\ secret \notin proved /\ \A w \in Users : totp[w].secret # secret
    /\ \A k \in Calls : calls[k].pc = "enable" => calls[k].code.secret # secret
    /\ totp' = [totp EXCEPT ![u] = NewTotp(@, secret)]
    /\ raced' = IF \E k \in Calls : calls[k].pc = "enable" /\ calls[k].user = u
                THEN raced \cup {u} ELSE raced
    /\ UNCHANGED <<events, attempts, pendings, calls, tries, proved, first, now,
                   logins, failures>>

\* issueSession, whose refresh token is of module Sessions.
IssueSession(k) ==
    LET call == calls[k]
    IN  /\ call.pc = "issue"
        /\ first' = [first EXCEPT ![call.user] = IF @ = NULL THEN call.via ELSE @]
        /\ Goto(k, "record")
        /\ UNCHANGED <<totp, events, attempts, pendings, tries, proved, raced, now,
                       logins, failures>>

Newest(history) ==
    SubSeq(history, IF Len(history) > HISTORY THEN Len(history) - HISTORY + 1 ELSE 1,
           Len(history))

RecordLogin(k) ==
    LET call == calls[k]
    IN  /\ call.pc = "record"
        /\ events' = [events EXCEPT ![call.user] = Newest(Append(@, call.place))]
        /\ Answer(k)
        /\ UNCHANGED <<totp, attempts, pendings, tries, proved, raced, first, now,
                       logins, failures>>

\* A statement fails; at "record" the session stands and its event is lost.
Abort(k) ==
    /\ calls[k] # NoCall
    /\ failures < MaxFailures
    /\ failures' = failures + 1
    /\ Answer(k)
    /\ UNCHANGED <<totp, events, attempts, pendings, tries, proved, raced, first, now, logins>>

\* The process restarts: the limiter forgets and open calls are lost.
Restart ==
    /\ failures < MaxFailures
    /\ failures' = failures + 1
    /\ attempts' = [u \in Users |-> <<>>] /\ tries' = [u \in Users |-> <<>>]
    /\ calls' = [k \in Calls |-> NoCall]
    /\ UNCHANGED <<totp, events, pendings, proved, raced, first, now, logins>>

Tick ==
    /\ now < MaxTime
    /\ now' = now + 1
    /\ UNCHANGED <<totp, events, attempts, pendings, calls, tries, proved, raced, first,
                   logins, failures>>

Next ==
    \/ \E k \in Calls, u \in Users, place \in Place : LoginVerified(k, u, place)
    \/ \E k \in Calls, code \in Code :
          \/ \E p \in pendings : SubmitStepUp(k, p, code)
          \/ \E u \in Users : SubmitVerify(k, u, code)
    \/ \E u \in Users : SubmitOtherToken(u)
    \/ \E k \in Calls :
          \/ ScoreLogin(k) \/ SelectSecret(k) \/ Enable(k)
          \/ IssueSession(k) \/ RecordLogin(k) \/ Abort(k)
    \/ \E u \in Users, s \in Secrets : SetupTotp(u, s)
    \/ Restart
    \/ Tick

Spec == Init /\ [][Next]_vars

-----------------------------------------------------------------------------
\* Every variable has its type.
TypeOK ==
    /\ totp \in [Users -> [secret : Secrets \cup {NULL}, enabled : BOOLEAN]]
    /\ events \in [Users -> Seq(Place)]
    /\ attempts \in [Users -> Seq(Nat)] /\ tries \in [Users -> Seq(Try)]
    /\ first \in [Users -> {"low", "step_up", NULL}]
    /\ pendings \subseteq Pending /\ proved \subseteq Secrets /\ raced \subseteq Users
    /\ calls \in [Calls -> Call \cup {NoCall}]
    /\ now \in Nat /\ logins \in Nat /\ failures \in Nat

\* login/verify: whatever events are lost and calls overlap, a user's first session
\* was stepped up: no history is high risk, and only sessions make history.
FirstSessionSteppedUp == \A u \in Users : first[u] # "low"

TriesIn(u, from, to) ==
    {i \in DOMAIN tries[u] : tries[u][i].at >= from /\ tries[u][i].at < to}

\* recordStepUpAttempt: of the attempts in any WINDOW no more than MAX_ATTEMPTS get
\* past the limiter, as long as the process lives.
LimiterCaps ==
    \A u \in Users, t \in 0..now :
        Cardinality({i \in TriesIn(u, t, t + WINDOW) : ~tries[u][i].blocked}) <= MAX_ATTEMPTS

\* An attempt is refused only when there were MAX_ATTEMPTS others shortly before it,
\* refused or not: who waits a WINDOW is served again.
LimiterForgives ==
    \A u \in Users : \A i \in DOMAIN tries[u] :
        tries[u][i].blocked =>
            LET earlier == {j \in 1..(i - 1) : tries[u][i].at - tries[u][j].at < WINDOW}
            IN  Cardinality(earlier) >= MAX_ATTEMPTS

\* 00006_totp_secret.js, totp_enabled is "false until the user completes their first
\* verify": it is true only of a secret that was verified, unless a setup replaced
\* the secret in the middle of a verification.
EnabledWasProved ==
    \A u \in Users : totp[u].enabled /\ u \notin raced => totp[u].secret \in proved
=============================================================================
