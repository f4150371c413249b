-------------------------------- MODULE Tab --------------------------------
(***************************************************************************)
(* One browser tab of the frontend and the server as the tab sees it: the  *)
(* tokens of lib/auth.ts, the calls of lib/apiClient.ts and the routes of  *)
(* App.tsx.  The pages are modules of their own that extend this one.      *)
(*                                                                         *)
(* A handler that awaits a call or a timer goes on in a job.  React keeps  *)
(* no promise of a page that is left: its setState calls do nothing any    *)
(* more, but setTokens and navigate still act, and so does the server.     *)
(*                                                                         *)
(* The server answers a call at one moment and the tab reads the answer at *)
(* a later one; in between other jobs and other clients take their steps.  *)
(* An access token outlives its session, so a call with one may always     *)
(* succeed, and any call may fail before or after the server acted on it.  *)
(*                                                                         *)
(* A definition that no other one uses and that stands right before the    *)
(* one it resembles is a plausible mistake in that code.                   *)
(***************************************************************************)
EXTENDS Naturals, FiniteSets, SequencesExt

CONSTANTS NULL,
          Failed,         \* what a handler catches
          Families,       \* sessions, by their token family
          Requests,       \* approval requests of the user
          Quick,          \* the requests that one vote decides
          Authenticators, \* passkey authenticators of the user
          Scopes,         \* bound: what a behaviour may make use of
          MaxGeneration,  \* bound on the rotations of a refresh token
          MaxSecrets,     \* bound on the TOTP secrets generated
          MaxJobs         \* bound on the jobs open when one more is started

Pages    == {"login", "register", "dashboard", "dispute", "attack", "phishing"}
Sections == {"sessions", "approvals", "activity", "security"}
Demos    == {"judge", "panel", "engine"}
Scope    == [pages : SUBSET Pages, sections : SUBSET Sections,
             families : SUBSET Families, requests : SUBSET Requests, demos : SUBSET Demos]

ASSUME TabAssumption ==
    /\ Quick \subseteq Requests /\ Scopes \subseteq Scope /\ IsFiniteSet(Families)
    /\ MaxGeneration \in Nat \ {0} /\ MaxSecrets \in Nat /\ MaxJobs \in Nat

VARIABLES
    scope,   \* one of Scopes, the same for ever
    page,    \* the page of the route
    entries, \* the pages in the history of this document
    ui,      \* the state of the page's component, NULL until it mounted
    auth,    \* the tokens, in memory and in sessionStorage
    jobs,    \* the handlers under way, oldest first
    server   \* what the routes the tab calls read and write

vars == <<scope, page, entries, ui, auth, jobs, server>>

Token == [family : Families, generation : 1..MaxGeneration]

\* rows: every family, newest token first; voted: requests this user voted on.
Server == [rows : Seq(Families), live : SUBSET Families,
           generation : [Families -> 0..MaxGeneration],
           requests : [Requests -> {"none", "pending", "resolved"}],
           voted : SUBSET Requests, passkeys : SUBSET Authenticators,
           secret : 0..MaxSecrets, enabled : BOOLEAN]

Init ==
    /\ scope \in Scopes
    /\ page = "login" /\ entries = {"login"} /\ ui = NULL
    /\ auth = [memory |-> NULL, storage |-> NULL]
    /\ jobs = <<>>
    /\ server = [rows |-> <<>>, live |-> {}, generation |-> [f \in Families |-> 0],
                 requests |-> [r \in Requests |-> "none"], voted |-> {},
                 passkeys |-> {}, secret |-> 0, enabled |-> FALSE]

-----------------------------------------------------------------------------
\* setTokens
SetTokens(token) == auth' = [memory |-> token, storage |-> token]

\* A mistake: sessionStorage keeps its copy.
ClearTokensInMemory == auth' = [auth EXCEPT !.memory = NULL]

ClearTokens == auth' = [memory |-> NULL, storage |-> NULL]

\* The component of the page is there and handles events.
On(p) == page = p /\ ui # NULL

\* request: the handler is suspended until the answer, reply, is read.
Call(at, what) == [at |-> at, what |-> what, reply |-> NULL, live |-> TRUE]

Room == Len(jobs) < MaxJobs

\* LoadState, and the loading, requests and loadErr of DisputeDemoPage.
Loading == [status |-> "loading", data |-> NULL]
Broken  == [status |-> "error", data |-> NULL]
Loaded(data) == [status |-> "ok", data |-> data]
ListOf(S) == {Loading, Broken} \cup {Loaded(data) : data \in S}

\* The handler reads the answer to its call, or catches an error.
Read(i, at, reply) ==
    /\ jobs[i].at = at
    /\ reply \in {jobs[i].reply, Failed} \ {NULL}

\* Only the component that started the job can still change.
Render(i, new) == IF jobs[i].live THEN new ELSE ui

\* Array.prototype.filter, and WHERE in a query: the entries of s that are in S.
Kept(s, S) ==
    LET kept[n \in 0..Len(s)] ==
            IF n = 0 THEN <<>>
            ELSE IF s[n] \in S THEN Append(kept[n - 1], s[n]) ELSE kept[n - 1]
    IN  kept[Len(s)]

\* Once their page is left these jobs have nothing more to do.
Idle == {"load", "list", "receipt", "wrong number", "banner", "fatigue", "attempt"}

Abandoned(open) ==
    LET left == [i \in DOMAIN open |-> [open[i] EXCEPT !.live = FALSE]]
    IN  Kept(left, {job \in ToSet(left) : job.at \notin Idle})

\* navigate and Link: where the route stays the same its component does too.
Navigate(p, open) ==
    IF p = page
    THEN jobs' = open /\ UNCHANGED <<page, entries, ui>>
    ELSE page' = p /\ entries' = entries \cup {p} /\ ui' = NULL /\ jobs' = Abandoned(open)

\* Back and Forward within the document.
Traverse(p) ==
    /\ p \in entries \ {page}
    /\ Navigate(p, jobs)
    /\ UNCHANGED <<scope, auth, server>>

\* The address bar, a reload, an <a href>: a new document, whose lib/auth.ts reads
\* sessionStorage.  "/" leads to /login.  What the old document awaited is gone.
Open(p) ==
    /\ p \in scope.pages
    /\ page' = p /\ entries' = {p} /\ ui' = NULL /\ jobs' = <<>>
    /\ auth' = [auth EXCEPT !.memory = auth.storage]
    /\ UNCHANGED <<scope, server>>

-----------------------------------------------------------------------------
Waiting(i, at) == jobs[i].at = at /\ jobs[i].reply = NULL

\* A route did its work for the call of job i.
Answer(i, reply, new) ==
    /\ jobs' = [jobs EXCEPT ![i].reply = reply]
    /\ server' = new
    /\ UNCHANGED <<scope, page, entries, ui, auth>>

Fresh(f) == f \in scope.families \ ToSet(server.rows)

\* issueSession
Granted(f) == [server EXCEPT !.rows = <<f>> \o @, !.live = @ \cup {f}, !.generation[f] = 1]

\* GET /auth/sessions: ORDER BY created_at DESC.
SessionList == Kept(server.rows, server.live)

\* DELETE /auth/sessions/:familyId, and what a reused token brings about.
Revoked(f) == [server EXCEPT !.live = @ \ {f}]

\* POST /auth/refresh with a token that is the newest of a live family.
Current(token) ==
    token.family \in server.live /\ server.generation[token.family] = token.generation

\* A mistake: the old row stays.
RotatedBesides(f) ==
    [server EXCEPT !.rows = <<f>> \o @, !.generation[f] = @ + 1]

Rotated(f) ==
    [server EXCEPT !.rows = <<f>> \o Kept(@, Families \ {f}), !.generation[f] = @ + 1]

With(status) == {r \in Requests : server.requests[r] = status}

\* The user's other devices and the approvers.
OtherSignsIn(f) == Fresh(f) /\ server' = Granted(f)
OtherRevokes(f) == f \in server.live /\ server' = Revoked(f)
OtherRequests(r) ==
    /\ r \in scope.requests /\ server.requests[r] = "none"
    /\ server' = [server EXCEPT !.requests[r] = "pending"]
OtherResolves(r) ==
    /\ server.requests[r] = "pending"
    /\ server' = [server EXCEPT !.requests[r] = "resolved"]

Others ==
    /\ \/ \E f \in Families : OtherSignsIn(f) \/ OtherRevokes(f)
       \/ \E r \in Requests : OtherRequests(r) \/ OtherResolves(r)
    /\ UNCHANGED <<scope, page, entries, ui, auth, jobs>>
=============================================================================
