# TrustLine in TLA+

Formal models of TrustLine: of the backend (`src/backend`), what its services do statement by
statement against PostgreSQL; of the frontend (`src/frontend`), what one browser tab does event by
event while answers are under way. They are model-checked with TLC on small instances and, for the
theorems listed below, proved with TLAPS for every value of the constants.

To repeat: `tlc -config MCApprovalRace.cfg MCApproval` and so on for each configuration;
`tlapm ApprovalProofs.tla` and so on for `ApprovalHistoryProofs`, `AuditChainProofs`,
`SessionsProofs`, `PasskeyProofs`, `StepUpProofs`, `KeysProofs` and `BrowserProofs`, of which the
last takes several minutes.

## 1. The system

TrustLine is an Express API over one PostgreSQL database. A Node process interleaves requests at
every `await`; several processes may share the database. Only `appendAuditEntry` opens a
transaction. Everywhere else a handler is a series of single statements, and any other call may
run between two of them.

| Component | State | Operations | Talks to |
|---|---|---|---|
| Quorum rule (`quorum.service.ts`) | none | `evaluateQuorum` | called by votes |
| Policies (`policy.service.ts`) | `approval_policies` | create, list, get | read by requests, votes, escalation |
| Requests and votes (`request.service.ts`, `approval.routes.ts`) | `approval_requests`, `approval_votes` | create, vote, break-glass, list | delegations, signing, quorum rule, audit log |
| Delegations (`delegation.service.ts`) | `delegations` | create, `hasAnyDelegation`, `isActiveDelegate` | read by votes |
| Escalation job (`escalation.job.ts`) | the `escalated` column | `runEscalationCheck`, every 30 s | writes requests |
| Audit log (`audit.service.ts`) | `audit_log`, pool clients | `appendAuditEntry`, `getReceiptForRequest` | called, un-awaited, by votes, logins, risk scores |
| Chain verifier (`verifyChain.ts`) | none | walk the log once | reads `audit_log` |
| Sessions (`session.service.ts`, `auth.routes.ts`) | `refresh_tokens`, access JWTs | issue, rotate, delete family, list | login events, audit log |
| WebAuthn (`webauthn.service.ts`) | two in-memory challenge maps, `webauthn_credentials` | register and login, options and verify | keys, sessions |
| TOTP (`totp.service.ts`) | `users.totp_secret`, `totp_enabled` | set up, verify | step-up |
| Risk and step-up limiter (`risk.service.ts`) | `login_events`, an in-memory map | score, record an attempt | login route, audit log |
| Keys and signatures (`keys.service.ts`, `signing.service.ts`) | `signing_keys` | generate, sign with lazy re-encryption, verify | votes, receipts |
| Receipts (`ledger.routes.ts`) | none | read a receipt | requests, votes, keys, audit log |
| `requireAuth`, error handler | none | check the access JWT | every route |
| Frontend tab (`lib/auth.ts`, `lib/apiClient.ts`, `App.tsx`) | tokens in memory and `sessionStorage`, history, open calls | set and clear tokens, call, navigate, load a document | the API |
| Pages (`pages/*.tsx`, `PushSimulator.tsx`) | React state of the mounted page | sign in, register, load lists, revoke, vote, reveal a receipt, replay a token | the tab |
| Showcase (`JudgeMode.tsx`, `AttackSimulation.tsx`, `AdaptiveTrustEngine.tsx`) | React state and timers | start, pause, resume, restart, reset, switch | none |
| Scripts | none | seed, smoke test, load test | the API, the database |

What is hard in it:

- *Interleaving without transactions.* A vote reads its request, checks delegations, signs,
  inserts, reads votes and policy, and updates the request: seven awaits, with the status checked
  only at the first. Token rotation has three.
- *Failure between statements.* A committed vote whose verdict was never applied; a spent token
  with no successor; a lost answer and the retry that follows.
- *Fire-and-forget.* Audit entries and login events are written un-awaited, and errors dropped.
- *Isolation.* The audit chain relies on a row lock under READ COMMITTED.
- *Changing secrets.* A private key is re-encrypted by whichever process uses it next, while others
  still run on other secrets.
- *Answers that come late.* A page goes on while a call is open; the answer may find another page,
  another selection, a reloaded list, or a tab that has signed out.
- *Time.* Escalation, delegation and token expiry each compare a stored time with the clock.

What makes each component correct is in section 3; `PROJECT.json` lists each hazard at its line.

## 2. Modules

| Module | What it is |
|---|---|
| `QuorumEval` | `evaluateQuorum` as operators |
| `Decision` | abstract: a request is opened once, its votes reach at most one verdict, a break-glass overrides a verdict, and only a verdict of denied may overrule a break-glass |
| `Approval` | policies, requests, votes, delegations, break-glass, escalation; extends `QuorumEval`, instantiates `Decision` |
| `ApprovalProofs` | theorems about `QuorumEval` and `Approval` |
| `ApprovalHistoryProofs` | theorems on what happens to a row over time: escalation, answers, audit events, the refinement of `Decision`; extends `ApprovalProofs` |
| `HashTree` | abstract: a log that only grows, each entry hashed over one already there |
| `AuditChain` | `appendAuditEntry` with pool, transaction and row lock, and the verifier; instantiates `HashTree` |
| `AuditChainProofs` | theorems about `AuditChain` |
| `Sessions` | refresh tokens: issue, rotate, delete |
| `SessionsProofs` | theorems about `Sessions` |
| `Passkey` | WebAuthn registration and login: challenge maps, credentials, their counters and the key made at registration |
| `PasskeyProofs` | theorems about `Passkey` |
| `StepUp` | what follows a verified passkey: risk score, step-up limiter, TOTP secret, first session |
| `StepUpProofs` | theorems about `StepUp` |
| `Keys` | signing keys under changing secrets, signed votes, and the receipt read part by part |
| `KeysProofs` | theorems about `Keys` |
| `Tab` | one browser tab: tokens, calls, navigation, and the server as the tab sees it |
| `LoginPage`, `RegisterPage` | the two pages before a session; each extends `Tab` |
| `Showcase` | the scripted demos on timers; extends `Tab` |
| `DashboardPage` | the dashboard; extends `Showcase` |
| `DemoPages` | the dispute, attack and phishing pages; extends `Tab` |
| `Browser` | the composition of the pages in one tab, and its properties |
| `BrowserProofs` | theorems about `Browser` |
| `MCApproval`, `MCAuditChain`, `MCSessions`, `MCPasskey`, `MCStepUp`, `MCKeys`, `MCBrowser` | instances for TLC |

Correspondence with the code (`PROJECT.json`, `map`, gives the lines of each definition):

**Approval.** A table is a function from ids to rows or a set of rows. A call under way is a record
in `calls`: `pc` is the SQL statement it runs next, `user`, `request` and `asks` its arguments,
`result` the verdict it computed. `submitVote` is `SubmitVote` (the first SELECT and its two early
returns), `CheckDelegation`, `CheckActive`, `InsertVote` (with the unique constraint), `Tally`
(votes and policy read back, verdict computed), `Resolve` (the UPDATE) and `Finish` (what follows
the UPDATE, up to the answer). `breakGlass` is `BreakGlass` then `ForceApprove` and `Finish`.
Statements merged into one action are those between which nothing can change that they read:
`createRequest` (a policy row never changes), the reads of `Tally` (once the vote is in, only its
approver could add another, and may not). `Abort` is a statement that fails or a process that
dies. `emitted` holds the events handed to the audit writer, not the log itself. The unsigned
payload, roles, geo-fence and `escalation_to` are stored and never read, so they are left out.
`Decision`'s `outcome` is read off the status and the `break_glass` flag together (`forced` is a
flagged request that is still approved, `overruled` one that is not), `reached` is the verdict on
the stored votes.

**AuditChain.** A writer is an append under way. `Connect` takes a pool client, `SelectLast` picks
the row the statement's snapshot shows, `LockLast` waits for its lock, `InsertEntry` draws the id,
`Commit` publishes the row and frees lock and client, `Rollback` does everything the `catch` and
`finally` do. A hash is the sequence of texts hashed into it, so equal hashes mean equal histories;
SHA-256 is taken to be injective. A text is the ordered list of a payload's keys with a value
standing for all others, because key order is what the verifier gets wrong. Three facts about
PostgreSQL are taken from outside the repository: READ COMMITTED snapshots, row locks, and the key
order of `jsonb`.

**Sessions.** A token stands for its row too. `RotateRefreshToken` is the SELECT and its branches,
`Spend` the UPDATE of one row, `Issue` the INSERT and the answer (which may be lost, in `known`),
`Condemn` the UPDATE of the family. `uses`, `parent` and `condemned` are history variables: no
guard of a handler reads them, except that `MaxUses` bounds how often a client presents a token.

**Passkey.** `GenerateOptions` is an options call up to its `Map.set`: the queries before it only
tell whether the user has a credential, and none is ever deleted. `Respond` is the browser, which
may answer any challenge ever issued to its user. `Verify` is the `Map.get`; a login goes on with
`SelectCredential` (user and credential, then the library's checks) and `UpdateCounter`, a
registration with `InsertCredential` and `GenerateKeypair`, whose failure is caught; `Clear` is the
`Map.delete` and the answer. Both maps are of the process: `Restart` empties them and drops the open
calls. What `@simplewebauthn/server` does is external: a response is good for one challenge, and a
counter must grow unless both are zero. `latest`, `issued`, `accepted` and `late` are history.

**StepUp.** A call starts where `verifyLogin` returned. `ScoreLogin` is the SELECT of
`scoreLoginRisk` and the branch of the route, `SubmitStepUp` the limiter and the check of the
token, `SubmitOtherToken` the same route with a token that is no pending one: the limiter counts it
for the user it names before the token is checked. `SelectSecret` and `Enable` are the two statements
of `verifyCode`, which step-up and `totp/verify` share; `IssueSession` is the token row and
`RecordLogin` the un-awaited event. A pending token is the claims signed into it. The unit of time
is the 30-second step of TOTP, so the limiter's minute is `WINDOW = 2` and attempts fall on the
steps; the strict comparison at exactly one window is kept. Codes of different secrets or steps are
taken to differ. `tries`, `proved`, `raced` and `first` are history. Answers are not kept.

**Keys.** A keypair is one value; a row has the public one, the private one and the secret it is
encrypted under. `SubmitVote` is the vote's timestamp and `sign` up to the decryption, `Reencrypt`
the unconditional UPDATE, `InsertVote` the signature and the INSERT, `Resolve` what may follow. A
signature is of its payload, timestamp included; the row keeps `created_at`, the time of the
INSERT, and the signed time is in the call only. The quorum rule and the
delegations are `Approval`'s: here a vote may resolve or not. `Redeploy` restarts a process with
other secrets, of which one is the value it had, as `.env.example` asks; what other processes or keys
not used meanwhile are still encrypted under may be among them or not. `missed` is history: the
secrets a process was not told of, those in use when it was deployed and those that became active
elsewhere since. `AppendAuditEntry` writes an emitted entry some time later or loses it;
how it links is `AuditChain`'s. The receipt's first query reads what never changes and is part of
`SelectVotes`; `at`, the time of that read, is history.

**Tab and the pages.** `ui` is the state of the mounted page's component, `auth` the two copies of
the tokens, `jobs` the handlers and timers under way. A job has the step it is at, what it is about,
the server's reply once the server answered, and whether the component that started it is still
there. So a call takes two steps, the server's (`VerifyLogin`, `CastVote`, `Refresh`...) and the
handler's (`FinishSignIn`, `FinishVote`, `FinishCapture`...), and anything may happen between; a
call may also fail before or after the server acted. When a page is left, its jobs go on where they
still can do something: set tokens, navigate, make a further call. Those that could only
set state are dropped. A new document drops them all; a call in flight then is one the server answered
before, or never gets. `rows` are the token families with the newest token first, which is the
order of `GET /auth/sessions`; `generation` counts a family's rotations. Other devices and
approvers are `Others`. `createDemoRequest`'s policy calls are folded into the one that creates the
request: they only decide whether it fails. Approve and deny differ in nothing the tab keeps.

**Showcase.** Each demo is a state machine with the set of its pending timers. `ref` is what
`timerRef` holds, so that a timer nobody can clear any more would show. `SimulationPanel` has the
scenario as its React key, hence a fresh panel per scenario. The 1200 ms timer of `handleRefresh` is
not cancelled by a change of scenario, and `manual` counts those.

A definition that stands before the one it resembles and that nothing uses (`ForcedUnflagged`,
`SpentNothing`...) is a plausible mistake in that code: put in its place, it breaks the
property named in `PROJECT.json`, which shows that the property depends on the code being right.

## 3. What is checked

| Run | Instance | Properties |
|---|---|---|
| `approval_race` | 2 users, 1 policy, 1 request, 2 concurrent calls, 1 delegation, 1 failure, clock to 1, fair | `TypeOK`, `RequesterVotesOnce`, `VerdictJustified`, `EscalatedWasOverdue`, `AnswersAreTrue`, `AuditAgrees`, `HistoryKept`, `DecisionSpec`, `OverdueEscalates`, `DecisiveVoteApplied` |
| `audit` | 3 writers, 2 pool clients, 4 appends of two types, 1 rollback, fair | `TypeOK`, `LinearWhenSerial`, `ForkIsReported`, `TreeSpec`, `AppendEnds` |
| `sessions` | 3 tokens, 2 concurrent rotations, each token presented twice, 1 failure, clock to 2 with TTL 1 | `TypeOK`, `SpentBeforeSuccessor`, `SingleUseKeepsOneLive`, `NoFalseReuse`, `DeadFamilyStaysDead` |
| `passkey` | 1 user, 3 challenges, 2 credentials of which one counts (to 2), 2 concurrent verify calls, 1 failure or restart | `TypeOK`, `OnlyLatestAndOnce`, `CredentialHasKey`, `CounterFallsOnlyInRace` |
| `stepup` | 1 user, 2 addresses, a user agent or none, 2 secrets with codes of step 0, 2 concurrent calls, 2 verified passkeys, 3 step-up attempts, with pending or other tokens, 1 allowed per window of 2, clock to 2, the last login event counting, 1 failure or restart | `TypeOK`, `FirstSessionSteppedUp`, `LimiterCaps`, `LimiterForgives`, `EnabledWasProved` |
| `keys` | 1 user who may register twice, 1 request, 2 processes, 2 secrets, 3 deployments, 2 concurrent votes, 2 keypairs, 1 receipt, clock to 1 | `TypeOK`, `KeysReadable`, `SignedByApprover`, `ReceiptWhole` |
| `browser` | 1 tab, 2 sessions, 2 requests of which one is decided by one vote, 2 authenticators, 2 TOTP secrets, 3 tokens per family, up to 3 jobs when one is started; eight scopes, see Bounds | `TypeOK`, `SignedOutStaysOut`, `OwnSessionSpared`, `VotedStaysGone`, `EndsTrue`, `TimersTrue` |
| `approval_final` | 2 concurrent calls | violates `ResolvedIsFinal` |
| `approval_second` | 2 users, 1 call at a time | violates `SecondVoteHeard` |
| `audit_fork` | 2 concurrent appends | violates `NoFork` |
| `audit_verify` | 1 writer | violates `HealthyChainVerifies` |
| `session_reuse` | 2 concurrent rotations | violates `ReuseRevokesFamily` |

Each property is stated in words above its definition. What they say together:

- *Approval.* Without transactions, a request still gets at most one vote, its requester's, and its
  votes one verdict, which is its policy's. A verdict gives way only to a break-glass, and a
  break-glass only to a verdict whose vote was already under way, which can turn its "approved"
  into "denied"; the break-glass flag and the review flag survive that and every other race.
  Escalation never marks a request that was resolved in time. What a client was told stays true, but
  for these two overridings. Audit events are only of votes and of verdicts by votes, with which they
  agree; they are complete when nothing fails. A break-glass has none, so the log of a request that
  was broken open need not show its status.
- *Audit log.* Under any concurrency the log is a tree in which nothing committed is lost or
  chained to something rolled back. It is a chain when appends do not overlap; when they do, it
  may fork, and the verifier reports it. Locks and pool clients never block appends for good.
- *Sessions.* A successor exists only when its predecessor is spent. Only presenting a token twice
  can fork a family. A first presentation is never taken for reuse in a family nobody condemned.
  A family that is dead, with no rotation in flight, stays dead.

- *Login.* A response counts once and only for the newest challenge, unless two calls with it
  overlap; a stored counter goes back only in such a race. A credential comes with a signing key
  unless something failed. No lost event, restart or overlap gives a user a first session without
  a step-up. The limiter lets through no more than its number in any window and blocks no one who
  stayed away for one. A TOTP secret counts as enabled only when one of its codes was verified,
  unless a setup replaced the secret in the middle of a verification.
- *Keys and receipts.* Whatever races, a process can decrypt every key but one under a secret that was
  in use when it was deployed without being told of it, or that became active elsewhere later. So
  listing just the replaced value, which is what `.env.example` asks, keeps readable the keys
  under that value; keys not used since an earlier change, and those of other processes, need their
  values listed too. A stored vote carries a signature by its approver's stored key of its request,
  its decision and some time; which time, no reader can know. A receipt shows no entry about a vote
  that is not stored, and leaves out a vote it has an entry of only if the vote was stored at or
  after the time the receipt's votes were read.
- *Frontend.* Only a sign-in or a rotation under way brings tokens into a tab without any. The dashboard offers
  to revoke the tab's own session only after another session got a newer token. A request decided
  by one vote is not offered again if no load of the list was open when the vote was acknowledged. The
  receipt on screen is the selected request's if the selection did not change while it loaded, and
  "Account ready" is true of the secret that was scanned. A scripted demo that says it is running
  has its timer, one and not two, and a stopped one has none.

**Where the code and its documentation disagree.** Five runs are expected to fail, each on what a
comment, a test or a document says: the status lifecycle (`approval_final`), a quorum completed by a
second approver, whom `submitVote` answers 404 (`approval_second`), audit links under concurrency
(`audit_fork`), a healthy chain that verifies (`audit_verify`) and the revocation of a reused family
(`session_reuse`). `PROJECT.json`, `findings`, quotes each line.

Seen while modelling, without a run of their own:

- The signature of a vote covers a timestamp (`request.service.ts:126`) that no row, audit entry or
  receipt holds; `created_at` is a later time, and the database's. So a reviewer cannot verify the
  signatures of a receipt, as `src/README.md:117` and the playbook (line 423) say. The integration test
  for it verifies with a time of its own, over a mocked receipt. `SignedByApprover` says how much is
  true: there is a time for which the signature verifies.
- A sign-in still open when the user signs out sets the tokens again and navigates to the dashboard
  (`LoginPage.tsx:89`). This is the exception that `SignedOutStaysOut` makes.
- "This session" is the first row of the list, not the session of the tab (`DashboardPage.tsx:771`).
  After a login elsewhere the tab offers to revoke its own session, which is the exception in
  `OwnSessionSpared`.
- A receipt asked for before "Back" is shown when it comes, over whatever is selected by then
  (`DisputeDemoPage.tsx:177`).
- A request that needs several votes comes back in the list of pending ones after its vote, since
  the list does not ask who voted; a second vote is refused.
- `AttackDemoPage` reads `statusCode` of the error, and `ApiError` has `status`: every attempt is
  shown with status 0, none as blocked, and the summary says "attempt #0 onwards". The replay demo
  says "Defence confirmed" whatever the second refresh answered.
- If `totp/setup` fails after the passkey was stored, the form's retry is refused by the same
  authenticator (it is excluded), so the account can be completed only with another one.

**Bounds.** Two concurrent calls are enough for any race of two statements on one row, and the
calls of the code relate to each other only through rows they share; slots are reused, so a third
and fourth call can follow. The sessions' clock reaches past expiry. The approval clock has two
instants, at the second of which a timeout of 0 has run out, one of 1 is met exactly and a
delegation has expired. The policies include one of each branch of the rule, null counts, n above m
and an unsupported type.
The audit instance has more writers than pool clients, so that a waiter for a client, a waiter for
a lock and a holder exist at once. Three tokens are a login and two rotations, or two logins and a
rotation. Three challenges are a registration and two logins, or a login between two
registrations. A limit of one attempt meets both edges of the window with two attempts and the block with
a third, and code steps of 0 are in time at clocks 0 and 1 and late at 2. Two processes and
three deployments with two secrets let both processes change theirs, one of them back, while both
re-encrypt, and a process miss what the other still uses. One step of the clock tells a signed time
from a stored one and a vote stored before a receipt from a later one. `SYMMETRY` is used only for calls,
tokens, challenges, processes, keypairs and secrets, which the modules treat alike, and only
in runs without liveness properties.

A tab could use every page and list at once, which is too much for TLC. `Scopes` bounds what one
behaviour may use, and each of the eight scopes puts together what shares state: two devices and the
session list; registration next to a sign-in; approvals and activity; approvals and receipts of
two requests; the attack and phishing pages over two sessions; each scripted demo alone, since
they share nothing with each other or with the server. `MaxJobs` bounds the jobs open when the user
starts one more; the four lists and the banners may exceed it. Two requests, one decided by a
single vote and one not, are what the list and the receipts tell apart. `MaxManual` allows two
overlapping timers of Re-evaluate.

**Deadlock** is checked for `Approval`, where policies, clock and calls always leave a client
something to do. In the other models clients and users may stop, and the bounds end every behaviour, so it
is off there; `AppendEnds` says instead that no append is stuck.

**Fairness.** `Approval!FairSpec`: each open call goes on (the event loop resumes an `await` whose
query was answered), and the job runs again and again (`setInterval`). Nothing is assumed of
clients, the clock or failures; `DecisiveVoteApplied` promises nothing once a call has failed, since a
crash after the INSERT does leave the request pending. `AuditChain!FairSpec`: each append goes on once it
can: the pool serves its queue, PostgreSQL grants a free lock. Weak fairness is enough in the
instance because appends are bounded and a lock or client freed is not taken forever.

## 4. What is proved

Every invariant and every action property of a passing run is a theorem of its module's
specification, for every value of the constants; so is `ResolvedIsFinal`, which concurrent
calls break, for behaviours in which no calls overlap on one request. What is left to TLC alone is
at the end of this section. The assumptions are the `ASSUME`s of the modules: the bounds are
naturals, policies are records of terms, `NULL` is none of the values it stands beside (no page's state, in `Browser`).
Users, requests, calls, tokens and the rest may be infinite; only the tab's `Families` are assumed
finite, so that a list of them has an end.

- `ApprovalProofs`. The counting rule: a verdict stands whatever votes follow
  (`CountVerdictStable`), and it is the right one (`CountVerdictCorrect`), for 1 <= n <= m.
  `TypeCorrect`, `OneVote`, `VerdictsJustified` from one inductive invariant: the three together,
  plus what a call relies on between two statements (`CallInv`). `VerdictJustified` alone is not
  inductive: `Resolve` writes a verdict computed earlier, so the invariant must say that this
  verdict is still the one of the stored votes, which holds because a request with a vote gets no
  other. `SoleResolver` adds, for the next module, that at most one call per request is between its
  INSERT and its UPDATE, and that meanwhile the request is pending or broken open.
- `ApprovalHistoryProofs`. One lemma, `RowChanges`, says in which ways a step may change a row:
  a verdict by votes, a break-glass, or an escalation. `HistoryIsKept` follows from it and from
  `ReviewInv` (the two break-glass flags are equal, and a forced request is resolved);
  `ForcedInv` says that a broken-open request is approved or has the verdict of its votes.
  `EscalatedOverdue` because the job's WHERE clause reads the row it writes. `AnswersStayTrue`
  strengthens the answers by what a call knows before it answers; they survive the steps of others
  because votes stay and, once there is one, so does the verdict (`VotesKept`). `ImplementsDecision`
  takes the steps one by one: an INSERT may reach the verdict, the UPDATE of a vote decides a pending
  request or overrules a broken-open one, the UPDATE of a break-glass forces, all others stutter.
  That the outcome at the UPDATE is one of the two is `SoleResolver`, that it writes the verdict
  reached is `CallInv`. `AuditAlwaysAgrees`
  adds that a decision by votes has its event or a call at `resolved` that will hand it over, which
  only a failure can break. `FinalWhenSerial` is the lifecycle of the schema's comment for behaviours in
  which no two calls overlap on one request: then a call that is yet to write finds its request
  still pending (`PendingInv`). `approval_final` shows that it is lost with the first overlap.
- `AuditChainProofs`. `ImplementsHashTree` rests on ids: those of open transactions are fresh, and
  the hash an append goes on from is that of a committed row with a smaller id. `SerialIsLinear`
  adds that a lone writer's predecessor is the end of the log until it commits.
  `ForksAreReported`: a hash is one text longer than the hash it links to, so in a log that the
  verifier accepts the hashes get longer with every id (`LinksGrow`), and two entries over the same
  hash cannot both be linked to the entry before them. Instead of induction the proof takes a least
  counterexample, by the well-ordering of the naturals.
- `SessionsProofs`. `SuccessorsReplaceSpent` and `ReuseIsReal` come from one invariant on rows and
  open rotations: past its UPDATE a rotation's token is revoked, and a revoked token was presented
  or its family condemned. `DeadStaysDead` is the action property from the same invariant, one
  lemma per action that could add a row or start a rotation. For `SingleUseNeverForks` the bound on
  live tokens is not inductive, since a rotation adds a live token: `OneBranch` says that in such a
  family at most one rotation is open, and that while it is, the token it spends is the only live
  one.
- `PasskeyProofs`. `OnlyLatestOnce` needs to know of the maps that they hold no challenge but the
  latest, and none that was answered with success (`StoreInv`, `AcceptedInv`); so a call that finds
  its challenge in the map is not late. `CredentialsHaveKeys` is an invariant together with what
  the call before `GenerateKeypair` is about. `CounterFallsInRaceOnly` is the action property: an
  UPDATE is reached only with a counter that passed the check against the value read.
- `StepUpProofs`. `LimiterAlwaysCaps` and `LimiterAlwaysForgives` compare the list that the code
  filters at each attempt with the history of all attempts. As attempts are in the order of time, the
  filter keeps a suffix (`RecentIsSuffix`, again from a least counterexample), what it dropped is
  outside every later window, and an attempt is refused exactly when `MAX_ATTEMPTS` earlier ones are
  within its window. The cap then follows from the last attempt of a window that passed.
  `FirstSessionsSteppedUp`: a low score needs a login event, an event is recorded after a session,
  so no call that goes on without a step-up can be about a user without one. `EnabledSecretsProved`
  adds that a call at the UPDATE proved the stored secret, or a setup replaced it since.
- `KeysProofs`. One inductive invariant gives `KeysStayReadable`, `VotesSigned` and
  `ReceiptsWhole`. Readability is not inductive by itself: a vote under way re-encrypts with the
  active secret of its process, so the invariant says that every process was told of each active
  secret or counts it as missed. That a vote is signed with its approver's stored key needs the pair:
  a row's private key is that of its public one, an open vote holds the private key of its user's
  row, and a row's pair never changes. That receipts are whole needs every emitted or logged entry
  to be about a stored vote, and a receipt to show each vote stored before its `at`.
- `BrowserProofs`. One inductive invariant for the tab, in five parts. `PlaceOK`: the attack page
  is reached and left only by a new document, so no job of another page meets it. `AuthOK`: memory and `sessionStorage`
  hold the same token. `ServerInv`: the types of what the API keeps. `JobsInv`:
  a job whose component is still there belongs to the page on screen and agrees with what it shows;
  handlers whose button is disabled meanwhile run one at a time; and what a job carries (a family to
  revoke, a vote's answer, the secret of a setup) is still true of the server. `ScreenInv`: the same
  for what the page shows, and the timers of the scripted demos. What makes it inductive is `Grows`:
  the routes only add to what jobs and pages go by. A family that was overtaken stays so, except by a
  rotation, which is asked for on the attack page alone; a resolved request stays resolved; a newer
  secret never becomes the older one. Each handler then has a lemma, and a lemma on jobs
  (replaced, removed, added or orphaned) carries all others over. `TypeCorrect`,
  `OwnSessionsSpared`, `VotedStayGone`, `EndsStayTrue` and `TimersStayTrue` follow from the
  invariant. `StaysSignedOut` needs `AuthOK` besides: if the two copies differed, a new document
  could bring an old token back.

Only model-checked: the liveness properties `OverdueEscalates`, `DecisiveVoteApplied` and
`AppendEnds`, since fairness and ENABLED are out of the prover's reach here; and that the four
expected violations happen, which are single behaviours.

## 5. Not modelled, and the plan

Not modelled at all: cryptography (hashes, signatures, encryption are taken as perfect), how pages
format what they show, the filter and the unfolding rows of `TrustTimeline.tsx`, the seed, smoke and
load scripts, logging, routing and CORS, input validation that changes no state. Of `requireAuth`
only its outcome is modelled: a call with a token may succeed or fail. `verify` is not called by any route.
Of the hazards in `PROJECT.json`, those with a note say what no property covers: what a failure leaves
behind after a vote was stored, delegations that expire during a vote, the missing event of a
break-glass, the expiry boundary of refresh tokens, access tokens that outlive their session, and the
races that a property exempts because the code has them (two verify calls that overlap, a setup during a
verification, a rotation during a DELETE, loads and receipts that come late).

Done: all the modules of section 2; the proofs of every invariant and action property the runs
check. Left, in order:

1. `Login`, the abstract specification that `Passkey`, `StepUp` and `Sessions` implement together:
   a session is issued only after a verified ceremony, with a step-up when the score asks for one;
   its refinement theorem belongs in `StepUpProofs`.
2. A composition of `Approval` with `AuditChain`, so that `emitted` becomes the log and a lost
   append is a rollback.
3. The unfolding rows and the filter of `TrustTimeline.tsx`, if they ever take part in a property.
