------------------------------- MODULE Sessions -------------------------------
(***************************************************************************)
(* Refresh tokens: session.service.ts behind POST /auth/refresh and        *)
(* DELETE /auth/sessions/:familyId of auth.routes.ts.                      *)
(*                                                                         *)
(* The table refresh_tokens is a function from tokens (raw token and row   *)
(* alike) to rows.  A family is named by the token its login issued.       *)
(* rotateRefreshToken opens no transaction: its SELECT, its UPDATE and its *)
(* INSERT are three actions, between which other calls run.                *)
(*                                                                         *)
(* A definition that no other one uses and that stands right before the    *)
(* one it resembles is a plausible mistake in that code.                   *)
(***************************************************************************)
EXTENDS Integers, FiniteSets

CONSTANTS NULL, Users, Tokens,
          Calls,       \* rotations that can be open at one time
          TTL,         \* REFRESH_TOKEN_TTL_MS
          MaxUses,     \* bound on how often one token is presented
          MaxTime,     \* bound on the clock
          MaxAborts    \* bound on rotations that fail or crash midway

ASSUME SessionsAssumption ==
    TTL \in Nat /\ MaxUses \in Nat /\ MaxTime \in Nat /\ MaxAborts \in Nat

VARIABLES
    token,      \* refresh_tokens: token -> row, NULL when there is no row
    known,      \* the tokens some client has received
    uses,       \* how often each token was presented
    parent,     \* the token each token replaced, NULL for a login's
    condemned,  \* families revoked by reuse detection or by DELETE
    calls,      \* the rotations under way, and the last answer of a slot
    now,        \* the clock
    aborts      \* rotations aborted so far

vars == <<token, known, uses, parent, condemned, calls, now, aborts>>

TokenRow == [user : Users, family : Tokens, revoked : BOOLEAN, expires : Nat]

ASSUME NullAssumption == NULL \notin TokenRow \cup Tokens

\* The statement a rotation runs next: UPDATE id, UPDATE family_id, INSERT.
Steps   == {"spend", "condemn", "issue"}
\* HTTP 200, 401 expired, 401 reuse detected, 500.
Answers == {"ok", "expired", "reused", "failed"}

NoCall == [pc |-> "idle", token |-> NULL, first |-> FALSE]
\* first: no call had presented the token before this one.
Call   == [pc : Steps \cup Answers, token : Tokens, first : BOOLEAN]

Ended(c)  == calls[c].pc \notin Steps
Issued    == {t \in Tokens : token[t] # NULL}
Family(f) == {t \in Issued : token[t].family = f}
Live(f)   == {t \in Family(f) : ~token[t].revoked}
Rotating(c, f) == calls[c].pc \in {"spend", "issue"} /\ token[calls[c].token].family = f

Init ==
    /\ token = [t \in Tokens |-> NULL] /\ parent = [t \in Tokens |-> NULL]
    /\ uses = [t \in Tokens |-> 0]
    /\ known = {} /\ condemned = {}
    /\ calls = [c \in Calls |-> NoCall]
    /\ now = 0 /\ aborts = 0

Goto(c, pc) == calls' = [calls EXCEPT ![c].pc = pc]

NewRowUnexpiring(user, family) ==
    [user |-> user, family |-> family, revoked |-> FALSE, expires |-> NULL]

\* issueRefreshToken
NewRow(user, family) ==
    [user |-> user, family |-> family, revoked |-> FALSE, expires |-> now + TTL]

\* An INSERT's answer may be lost on its way to the client.
IssueRefreshToken(t, user, family) ==
    /\ token[t] = NULL
    /\ token' = [token EXCEPT ![t] = NewRow(user, family)]
    /\ known' \in {known, known \cup {t}}

\* issueSession, at the end of a login.  Its other writes are of other components.
IssueSession(u, t) ==
    /\ IssueRefreshToken(t, u, t)
    /\ UNCHANGED <<uses, parent, condemned, calls, now, aborts>>

\* rotateRefreshToken: the SELECT and the branches on the row it returns.
AfterSelectLive(row) ==
    CASE row.expires < now -> "expired"
      [] OTHER -> "spend"

AfterSelect(row) ==
    CASE row.expires < now -> "expired"
      [] row.expires >= now /\ row.revoked -> "condemn"
      [] OTHER -> "spend"

\* An unknown token is answered 401 and changes nothing.
RotateRefreshToken(c, t) ==
    /\ Ended(c)
    /\ t \in known /\ uses[t] < MaxUses
    /\ uses' = [uses EXCEPT ![t] = @ + 1]
    /\ calls' = [calls EXCEPT ![c] =
          [pc |-> AfterSelect(token[t]), token |-> t, first |-> uses[t] = 0]]
    /\ UNCHANGED <<token, known, parent, condemned, now, aborts>>

Revoke(S) == [t \in Tokens |-> IF t \in S THEN [token[t] EXCEPT !.revoked = TRUE] ELSE token[t]]

SpentNothing(t) == {}

SpentUser(t) == {s \in Issued : token[s].user = token[t].user}

\* UPDATE ... SET revoked = true WHERE id, whatever revoked is by now.
Spent(t) == {t}

Spend(c) ==
    /\ calls[c].pc = "spend"
    /\ token' = Revoke(Spent(calls[c].token))
    /\ Goto(c, "issue")
    /\ UNCHANGED <<known, uses, parent, condemned, now, aborts>>

Issue(c, t) ==
    LET old == calls[c].token
    IN  /\ calls[c].pc = "issue"
        /\ IssueRefreshToken(t, token[old].user, token[old].family)
        /\ parent' = [parent EXCEPT ![t] = old]
        /\ Goto(c, "ok")
        /\ UNCHANGED <<uses, condemned, now, aborts>>

\* Reuse detected: the whole family is revoked.
Condemn(c) ==
    LET f == token[calls[c].token].family
    IN  /\ calls[c].pc = "condemn"
        /\ token' = Revoke(Family(f))
        /\ condemned' = condemned \cup {f}
        /\ Goto(c, "reused")
        /\ UNCHANGED <<known, uses, parent, now, aborts>>

\* DELETE /sessions/:familyId by its user; it answers 404 when no row matches.
DeleteSession(u, f) ==
    LET matching == {t \in Live(f) : token[t].user = u}
    IN  /\ matching # {}
        /\ token' = Revoke(matching)
        /\ condemned' = condemned \cup {f}
        /\ UNCHANGED <<known, uses, parent, calls, now, aborts>>

\* A statement fails, or the process dies with the call open.
Abort(c) ==
    /\ ~Ended(c)
    /\ aborts < MaxAborts
    /\ aborts' = aborts + 1
    /\ Goto(c, "failed")
    /\ UNCHANGED <<token, known, uses, parent, condemned, now>>

Tick ==
    /\ now < MaxTime
    /\ now' = now + 1
    /\ UNCHANGED <<token, known, uses, parent, condemned, calls, aborts>>

Next ==
    \/ \E u \in Users, t \in Tokens : IssueSession(u, t)
    \/ \E c \in Calls, t \in Tokens : RotateRefreshToken(c, t) \/ Issue(c, t)
    \/ \E c \in Calls : Spend(c) \/ Condemn(c) \/ Abort(c)
    \/ \E u \in Users, f \in Tokens : DeleteSession(u, f)
    \/ Tick

Spec == Init /\ [][Next]_vars

-----------------------------------------------------------------------------
\* Every variable has its type.
TypeOK ==
    /\ token \in [Tokens -> TokenRow \cup {NULL}]
    /\ known \subseteq Tokens /\ condemned \subseteq Tokens
    /\ uses \in [Tokens -> Nat]
    /\ parent \in [Tokens -> Tokens \cup {NULL}]
    /\ calls \in [Calls -> Call \cup {NoCall}]
    /\ now \in Nat /\ aborts \in Nat

\* rotateRefreshToken: whatever races or crashes, a token that has a successor is
\* itself revoked, and the successor is of its family and its user.
SpentBeforeSuccessor ==
    \A t \in Issued : parent[t] # NULL =>
        /\ parent[t] \in Issued /\ token[parent[t]].revoked
        /\ token[t].family = token[parent[t]].family
        /\ token[t].user = token[parent[t]].user

\* A family each of whose tokens was presented at most once has one live token
\* at most: only presenting a token twice can fork a session.
SingleUseKeepsOneLive ==
    \A f \in Tokens :
        (\A t \in Family(f) : uses[t] <= 1) => Cardinality(Live(f)) <= 1

\* A client that is the first to present its token is told "reuse detected" only
\* when the family had been condemned, by DELETE or by the reuse of another token.
NoFalseReuse ==
    \A c \in Calls :
        calls[c].pc \in {"condemn", "reused"} /\ calls[c].first
            => token[calls[c].token].family \in condemned

\* A family with no live token comes back to life only through a rotation that
\* was already past its SELECT: no call that starts later revives it.
DeadFamilyStaysDead ==
    [][\A f \in Tokens :
          Family(f) # {} /\ Live(f) = {} /\ (\A c \in Calls : ~Rotating(c, f))
          => Live(f)' = {} /\ (\A c \in Calls : ~Rotating(c, f))']_vars

\* 00002_sessions.js: "If a revoked token is presented, the entire family is
\* revoked": once the reuse was answered the family has no live token.
ReuseRevokesFamily ==
    \A c \in Calls :
        calls[c].pc = "reused" => Live(token[calls[c].token].family) = {}
=============================================================================
