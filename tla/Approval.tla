------------------------------- MODULE Approval -------------------------------
(***************************************************************************)
(* The approval engine: request.service.ts, delegation.service.ts,         *)
(* policy.service.ts and jobs/escalation.job.ts behind approval.routes.ts. *)
(*                                                                         *)
(* The database tables are functions and sets.  An HTTP call is a record   *)
(* in a slot of "calls": its pc is the awaited SQL statement it will run   *)
(* next, its other fields what it read and still relies on.  None of the   *)
(* handlers opens a transaction, so every awaited statement is an action   *)
(* and calls interleave between any two of them.                           *)
(*                                                                         *)
(* A definition that no other one uses and that stands right before the    *)
(* one it resembles (NoUniqueConstraint, ForcedUnflagged...) is a plausible*)
(* mistake in that code, kept to show which property would notice it.      *)
(***************************************************************************)
EXTENDS QuorumEval, FiniteSets

CONSTANTS Users, PolicyIds, RequestIds,
          Calls,           \* HTTP calls that can be open at one time
          PolicyTerms,     \* the policies clients create
          MaxTime,         \* bound on the clock
          MaxDelegations,  \* bound on rows of the delegations table
          MaxAborts        \* bound on calls that fail or crash midway

ASSUME ApprovalAssumption ==
    /\ PolicyTerms \subseteq Terms
    /\ MaxTime \in Nat /\ MaxDelegations \in Nat /\ MaxAborts \in Nat
    /\ NULL \notin Terms

VARIABLES
    policy,       \* approval_policies: id -> terms, NULL when there is no row
    request,      \* approval_requests: id -> row, NULL when there is no row
    votes,        \* approval_votes: a set of rows
    delegations,  \* delegations: a set of rows
    emitted,      \* events handed to the audit writer (audit.service.ts)
    calls,        \* open calls, and the answer of the last call of a slot
    now,          \* the database's clock
    aborts        \* calls aborted so far

vars == <<policy, request, votes, delegations, emitted, calls, now, aborts>>

Status == {"pending"} \cup Terminal
Asks   == Decisions \cup {"break_glass"}
\* HTTP 201/200, 404, 409 and 500.
Answers == {"ok", "not_found", "conflict", "failed"}
Steps  == {"delegation", "active", "insert", "voted", "resolve", "force", "resolved"}

NoCall == [pc |-> "idle", user |-> NULL, request |-> NULL, asks |-> NULL, result |-> NULL]

Row == [policy : PolicyIds, requester : Users, status : Status, createdAt : Nat,
        resolvedAt : Nat \cup {NULL}, escalated : BOOLEAN, breakGlass : BOOLEAN,
        needsReview : BOOLEAN]

ASSUME RowAssumption == NULL \notin Row

Vote  == [request : RequestIds, approver : Users, decision : Decisions]
Event == [type : {"vote", "request_resolved"}, request : RequestIds,
          content : Decisions \cup Terminal]
Call  == [pc : Steps \cup Answers, user : Users, request : RequestIds, asks : Asks,
          result : Verdicts \cup {NULL}]

Ended(c)       == calls[c].pc \in Answers \cup {"idle"}
VotesOn(r)     == {v \in votes : v.request = r}
CountOn(r, d)  == Cardinality({v \in VotesOn(r) : v.decision = d})
TermsOf(r)     == policy[request[r].policy]
VerdictOn(r)   == EvaluateQuorum(TermsOf(r), CountOn(r, "approve"), CountOn(r, "deny"))

Init ==
    /\ policy = [p \in PolicyIds |-> NULL]
    /\ request = [r \in RequestIds |-> NULL]
    /\ votes = {} /\ delegations = {} /\ emitted = {}
    /\ calls = [c \in Calls |-> NoCall]
    /\ now = 0 /\ aborts = 0

-----------------------------------------------------------------------------
\* POST /policies: nothing but the presence of name, type and roles is checked,
\* and no operation updates or deletes a policy afterwards.
CreatePolicy(p) ==
    /\ policy[p] = NULL
    /\ \E t \in PolicyTerms : policy' = [policy EXCEPT ![p] = t]
    /\ UNCHANGED <<request, votes, delegations, emitted, calls, now, aborts>>

\* POST /requests.  The policy SELECT and the INSERT are one step: a policy row
\* never changes once it exists.
CreateRequest(u, p, r) ==
    /\ policy[p] # NULL
    /\ request[r] = NULL
    /\ request' = [request EXCEPT ![r] =
          [policy |-> p, requester |-> u, status |-> "pending", createdAt |-> now,
           resolvedAt |-> NULL, escalated |-> FALSE, breakGlass |-> FALSE,
           needsReview |-> FALSE]]
    /\ UNCHANGED <<policy, votes, delegations, emitted, calls, now, aborts>>

\* POST /delegations
CreateDelegation(delegator, delegate, expires) ==
    /\ delegator # delegate
    /\ expires > now
    /\ Cardinality(delegations) < MaxDelegations
    /\ delegations' = delegations \cup
          {[delegator |-> delegator, delegate |-> delegate, expires |-> expires]}
    /\ UNCHANGED <<policy, request, votes, emitted, calls, now, aborts>>

HasAnyDelegation(u) == \E d \in delegations : d.delegate = u
IsActiveDelegate(u) == \E d \in delegations : d.delegate = u /\ d.expires > now

-----------------------------------------------------------------------------
\* POST /requests/:id/votes, one action per statement of submitVote.

Goto(c, pc) == calls' = [calls EXCEPT ![c].pc = pc]

Begin(c, u, r, asks, pc) ==
    /\ Ended(c)
    /\ request[r] # NULL     \* a client only holds ids it was given
    /\ calls' = [calls EXCEPT ![c] =
          [pc |-> pc, user |-> u, request |-> r, asks |-> asks, result |-> NULL]]
    /\ UNCHANGED <<policy, request, votes, delegations, emitted, now, aborts>>

\* SELECT ... WHERE id AND requester_id: only the requester's own vote finds a row.
SubmitVote(c, u, r, decision) ==
    Begin(c, u, r, decision,
          CASE request[r].requester # u -> "not_found"
            [] request[r].requester = u /\ request[r].status # "pending" -> "conflict"
            [] OTHER -> "delegation")

CheckDelegation(c) ==
    /\ calls[c].pc = "delegation"
    /\ Goto(c, IF HasAnyDelegation(calls[c].user) THEN "active" ELSE "insert")
    /\ UNCHANGED <<policy, request, votes, delegations, emitted, now, aborts>>

CheckActive(c) ==
    /\ calls[c].pc = "active"
    /\ Goto(c, IF IsActiveDelegate(calls[c].user) THEN "insert" ELSE "failed")
    /\ UNCHANGED <<policy, request, votes, delegations, emitted, now, aborts>>

\* sign() changes nothing modelled here; its failure is an Abort at "insert".
\* UNIQUE (request_id, approver_id) turns a second vote away.
NoUniqueConstraint(call) == FALSE

UniqueViolation(call) ==
    \E v \in votes : v.request = call.request /\ v.approver = call.user

InsertVote(c) ==
    LET call == calls[c]
    IN  /\ call.pc = "insert"
        /\ IF UniqueViolation(call)
           THEN Goto(c, "conflict") /\ UNCHANGED votes
           ELSE /\ votes' = votes \cup {[request |-> call.request, approver |-> call.user,
                                         decision |-> call.asks]}
                /\ Goto(c, "voted")
        /\ UNCHANGED <<policy, request, delegations, emitted, now, aborts>>

AsAsked(decision) == IF decision = "approve" THEN "approved" ELSE "denied"

AuditEventsAsAsked(call) ==
    CASE call.pc = "voted" ->
            {[type |-> "vote", request |-> call.request, content |-> call.asks]}
      [] call.pc = "resolved" /\ call.asks # "break_glass" ->
            {[type |-> "request_resolved", request |-> call.request,
              content |-> AsAsked(call.asks)]}
      [] OTHER -> {}

\* What the continuation after a committed write hands to appendAuditEntry, un-awaited.
AuditEvents(call) ==
    CASE call.pc = "voted" ->
            {[type |-> "vote", request |-> call.request, content |-> call.asks]}
      [] call.pc = "resolved" /\ call.asks # "break_glass" ->
            {[type |-> "request_resolved", request |-> call.request, content |-> call.result]}
      [] OTHER -> {}

\* All votes and the policy are read back, the quorum evaluated; an unsupported
\* quorum_type throws here, when the vote is already stored.
AfterTallyApprovedOnly(call, verdict) ==
    CASE verdict = "throws"   -> [call EXCEPT !.pc = "failed"]
      [] verdict = "approved" -> [call EXCEPT !.pc = "resolve", !.result = verdict]
      [] OTHER                -> [call EXCEPT !.pc = "ok", !.result = verdict]

AfterTally(call, verdict) ==
    CASE verdict = "throws"   -> [call EXCEPT !.pc = "failed"]
      [] verdict \in Terminal -> [call EXCEPT !.pc = "resolve", !.result = verdict]
      [] OTHER                -> [call EXCEPT !.pc = "ok", !.result = verdict]

Tally(c) ==
    LET call == calls[c]
    IN  /\ call.pc = "voted"
        /\ emitted' = emitted \cup AuditEvents(call)
        /\ calls' = [calls EXCEPT ![c] = AfterTally(call, VerdictOn(call.request))]
        /\ UNCHANGED <<policy, request, votes, delegations, now, aborts>>

ResolvedAsAsked(row, call) == [row EXCEPT !.status = AsAsked(call.asks), !.resolvedAt = now]

ResolvedUnlessEscalated(row, call) ==
    IF row.escalated THEN row ELSE [row EXCEPT !.status = call.result, !.resolvedAt = now]

\* UPDATE ... SET status, resolved_at WHERE id: the status read at the start is
\* not checked again.
Resolved(row, call) == [row EXCEPT !.status = call.result, !.resolvedAt = now]

Resolve(c) ==
    LET call == calls[c]
    IN  /\ call.pc = "resolve"
        /\ request' = [request EXCEPT ![call.request] = Resolved(@, call)]
        /\ Goto(c, "resolved")
        /\ UNCHANGED <<policy, votes, delegations, emitted, now, aborts>>

\* POST /requests/:id/break-glass: read and guard, then an unconditional UPDATE.
RefusesBreakGlass(row) == row.breakGlass \/ row.status # "pending"

BreakGlass(c, u, r) ==
    Begin(c, u, r, "break_glass",
          CASE request[r].requester # u -> "not_found"
            [] request[r].requester = u /\ RefusesBreakGlass(request[r]) -> "conflict"
            [] OTHER -> "force")

ForcedUnflagged(row) ==
    [row EXCEPT !.status = "approved", !.resolvedAt = now]

ForcedUnreviewed(row) ==
    [row EXCEPT !.status = "approved", !.breakGlass = TRUE, !.resolvedAt = now]

Forced(row) ==
    [row EXCEPT !.status = "approved", !.breakGlass = TRUE, !.needsReview = TRUE,
                !.resolvedAt = now]

ForceApprove(c) ==
    LET r == calls[c].request
    IN  /\ calls[c].pc = "force"
        /\ request' = [request EXCEPT ![r] = Forced(@)]
        /\ Goto(c, "resolved")
        /\ UNCHANGED <<policy, votes, delegations, emitted, now, aborts>>

\* The continuation after either UPDATE: audit (votes only), then the answer.
Finish(c) ==
    /\ calls[c].pc = "resolved"
    /\ emitted' = emitted \cup AuditEvents(calls[c])
    /\ Goto(c, "ok")
    /\ UNCHANGED <<policy, request, votes, delegations, now, aborts>>

\* A statement fails, or the process dies with the call open: what was committed
\* stays, the rest never happens.  The event of the last write may or may not have
\* been handed over.  A restart is every open call aborting.
Abort(c) ==
    /\ ~Ended(c)
    /\ aborts < MaxAborts
    /\ aborts' = aborts + 1
    /\ emitted' \in {emitted, emitted \cup AuditEvents(calls[c])}
    /\ Goto(c, "failed")
    /\ UNCHANGED <<policy, request, votes, delegations, now>>

-----------------------------------------------------------------------------
Due(r) == request[r].createdAt + TermsOf(r).timeout

OverdueAnyStatus(r) ==
    /\ request[r] # NULL
    /\ ~request[r].escalated
    /\ TermsOf(r).timeout # NULL
    /\ Due(r) < now

Overdue(r) ==
    /\ request[r] # NULL
    /\ request[r].status = "pending"
    /\ ~request[r].escalated
    /\ TermsOf(r).timeout # NULL
    /\ Due(r) < now

RunEscalationCheckTruthy ==
    /\ \E r \in RequestIds : Overdue(r)
    /\ request' = [r \in RequestIds |->
          IF Overdue(r) /\ TermsOf(r).timeout # 0
          THEN [request[r] EXCEPT !.escalated = TRUE] ELSE request[r]]
    /\ UNCHANGED <<policy, votes, delegations, emitted, calls, now, aborts>>

\* One UPDATE statement over every overdue request, each 30 seconds.
RunEscalationCheck ==
    /\ \E r \in RequestIds : Overdue(r)
    /\ request' = [r \in RequestIds |->
          IF Overdue(r) THEN [request[r] EXCEPT !.escalated = TRUE] ELSE request[r]]
    /\ UNCHANGED <<policy, votes, delegations, emitted, calls, now, aborts>>

Tick ==
    /\ now < MaxTime
    /\ now' = now + 1
    /\ UNCHANGED <<policy, request, votes, delegations, emitted, calls, aborts>>

-----------------------------------------------------------------------------
Proceed(c) ==
    \/ CheckDelegation(c) \/ CheckActive(c) \/ InsertVote(c) \/ Tally(c)
    \/ Resolve(c) \/ ForceApprove(c) \/ Finish(c)

Next ==
    \/ \E p \in PolicyIds : CreatePolicy(p)
    \/ \E u \in Users, p \in PolicyIds, r \in RequestIds : CreateRequest(u, p, r)
    \/ \E u, w \in Users, t \in 1..(MaxTime + 1) : CreateDelegation(u, w, t)
    \/ \E c \in Calls, u \in Users, r \in RequestIds :
          \/ \E d \in Decisions : SubmitVote(c, u, r, d)
          \/ BreakGlass(c, u, r)
    \/ \E c \in Calls : Proceed(c)
    \/ \E c \in Calls : Abort(c)
    \/ RunEscalationCheck
    \/ Tick

Spec == Init /\ [][Next]_vars

\* The event loop resumes every awaited call, and setInterval runs the job again
\* and again; clients and the clock owe nothing.
FairSpec ==
    /\ Spec
    /\ \A c \in Calls : WF_vars(Proceed(c))
    /\ WF_vars(RunEscalationCheck)
-----------------------------------------------------------------------------
\* Every variable has its type.
TypeOK ==
    /\ policy \in [PolicyIds -> PolicyTerms \cup {NULL}]
    /\ request \in [RequestIds -> Row \cup {NULL}]
    /\ votes \subseteq Vote
    /\ delegations \subseteq [delegator : Users, delegate : Users, expires : Nat]
    /\ emitted \subseteq Event
    /\ calls \in [Calls -> Call \cup {NoCall}]
    /\ now \in Nat /\ aborts \in Nat

\* submitVote: however calls race, the votes of a request are its requester's
\* and there is at most one (the UNIQUE constraint on a single approver).  That is
\* what the code keeps; SecondVoteHeard below states what a test expects instead.
RequesterVotesOnce ==
    \A v \in votes :
        /\ request[v.request] # NULL
        /\ v.approver = request[v.request].requester
        /\ \A w \in votes : w.request = v.request => w = v

\* submitVote step 5: a request that no break-glass touched is resolved exactly
\* when it has a resolution time, and then its status is what its policy says of
\* the votes now stored.
VerdictJustified ==
    \A r \in RequestIds : request[r] # NULL =>
        /\ request[r].status = "pending" <=> request[r].resolvedAt = NULL
        /\ request[r].status # "pending" /\ ~request[r].breakGlass
              => request[r].status = VerdictOn(r)

\* runEscalationCheck: an escalated request was past its policy's timeout while
\* still pending; it cannot have been resolved before the timeout.
EscalatedWasOverdue ==
    \A r \in RequestIds : request[r] # NULL /\ request[r].escalated =>
        /\ TermsOf(r).timeout # NULL
        /\ Due(r) < now
        /\ request[r].resolvedAt # NULL => Due(r) < request[r].resolvedAt

\* What a client was told stays true of the database, other calls
\* notwithstanding: a decided vote is the status unless a break-glass set it to
\* "approved"; a break-glass left its flag, and its "approved" unless the verdict
\* of the stored votes replaced it; and a 409 was given only on a request that is
\* resolved or voted on.
AnswersAreTrue ==
    \A c \in Calls :
        LET call == calls[c]
            row  == request[call.request]
        IN  /\ call.pc = "ok" /\ call.asks = "break_glass" =>
                  /\ row.breakGlass
                  /\ \/ row.status = "approved"
                     \/ /\ VotesOn(call.request) # {}
                        /\ row.status = VerdictOn(call.request)
            /\ call.pc = "ok" /\ call.asks \in Decisions /\ call.result \in Terminal =>
                  \/ row.status = call.result
                  \/ row.breakGlass /\ row.status = "approved"
            /\ call.pc = "conflict"
                  => row.status # "pending" \/ VotesOn(call.request) # {}

\* The audit events of a request agree with its votes and with its policy's
\* verdict, and while no call has aborted a decision that is not a break-glass
\* has its event, unless the deciding call is just about to hand it over.
AuditAgrees ==
    /\ \A e \in emitted :
          IF e.type = "vote"
          THEN \E v \in VotesOn(e.request) : v.decision = e.content
          ELSE e.content = VerdictOn(e.request)
    /\ \A r \in RequestIds :
          aborts = 0 /\ request[r] # NULL /\ request[r].status # "pending"
             /\ ~request[r].breakGlass
          => \/ \E c \in Calls : calls[c].pc = "resolved" /\ calls[c].request = r
             \/ \E e \in emitted : e.type = "request_resolved" /\ e.request = r

\* No step rewrites what a request is about, takes back an escalation or a
\* break-glass, reopens a resolved request, or lets its review flag differ from
\* its break-glass flag.
HistoryKept ==
    [][\A r \in RequestIds : request[r] # NULL =>
          /\ request'[r] # NULL
          /\ \A f \in {"policy", "requester", "createdAt"} : request'[r][f] = request[r][f]
          /\ request[r].escalated => request'[r].escalated
          /\ request[r].breakGlass => request'[r].breakGlass
          /\ request[r].status # "pending" => request'[r].status # "pending"
          /\ request'[r].needsReview = request'[r].breakGlass]_vars

\* The engine implements Decision: a request's outcome is its status column, read
\* as "forced" or "overruled" once its break_glass flag is set, by whether the status
\* is still "approved"; the verdict reached is the one on the stored votes.
outcome == [r \in RequestIds |->
    IF request[r] = NULL THEN "none"
    ELSE IF ~request[r].breakGlass THEN request[r].status
    ELSE IF request[r].status = "approved" THEN "forced" ELSE "overruled"]

reached == [r \in RequestIds |->
    IF VotesOn(r) # {} /\ VerdictOn(r) \in Terminal THEN VerdictOn(r) ELSE "none"]

D == INSTANCE Decision WITH Requests <- RequestIds, outcome <- outcome, reached <- reached

DecisionSpec == D!Spec

\* 00004_approval_requests.js: 'pending' -> 'approved' | 'denied' | 'expired';
\* a status column that has left 'pending' never changes again.
ResolvedIsFinal ==
    [][\A r \in RequestIds : request[r] # NULL /\ request[r].status # "pending"
          => request'[r].status = request[r].status]_vars

\* approval.integration.test.ts:294-302: a second approver completes a quorum of two.
\* A vote is not answered "not found" on a request whose votes so far wait for more.
SecondVoteHeard ==
    \A c \in Calls :
        calls[c].pc = "not_found" /\ calls[c].asks \in Decisions =>
            ~(VotesOn(calls[c].request) # {} /\ VerdictOn(calls[c].request) = "pending")

\* runEscalationCheck: a request past its timeout is in the end escalated or resolved.
OverdueEscalates ==
    \A r \in RequestIds :
        Overdue(r) ~> ~Overdue(r)

\* submitVote: a stored vote that decides its request is in the end applied to it, or a
\* break-glass resolves the request, unless a call fails.
DecisiveVoteApplied ==
    \A r \in RequestIds :
        (request[r] # NULL /\ VotesOn(r) # {} /\ VerdictOn(r) \in Terminal)
            ~> (request[r] # NULL /\ request[r].status # "pending") \/ aborts > 0
=============================================================================
