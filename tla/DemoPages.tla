------------------------------ MODULE DemoPages ------------------------------
(***************************************************************************)
(* DisputeDemoPage.tsx, AttackDemoPage.tsx and PhishingCloneDemoPage.tsx.  *)
(***************************************************************************)
EXTENDS Tab

DisputeUi == [list : ListOf(SUBSET Requests),
              selected : Requests \cup {NULL},
              phase : {"pick", "claim", "reveal"},
              receipt : Requests \cup {NULL},   \* by the request it is of
              loading : BOOLEAN,                \* receiptLoading
              failed : BOOLEAN,                 \* receiptErr
              strayed : BOOLEAN]  \* history: the selection changed while a receipt loaded

\* The requests are loaded once, on mount.
MountDispute ==
    /\ page = "dispute" /\ ui = NULL
    /\ ui' = [list |-> IF auth.memory = NULL THEN Broken ELSE Loading,
              selected |-> NULL, phase |-> "pick", receipt |-> NULL,
              loading |-> FALSE, failed |-> FALSE, strayed |-> FALSE]
    /\ jobs' = IF auth.memory = NULL THEN jobs ELSE Append(jobs, Call("list", NULL))
    /\ UNCHANGED <<scope, page, entries, auth, server>>

\* GET /approval/requests: the user's resolved ones.
ListResolved(i) == Waiting(i, "list") /\ Answer(i, With("resolved"), server)

FinishList(i, reply) ==
    /\ Read(i, "list", reply)
    /\ ui' = Render(i, [ui EXCEPT !.list = IF reply = Failed THEN Broken ELSE Loaded(reply)])
    /\ jobs' = RemoveAt(jobs, i)
    /\ UNCHANGED <<scope, page, entries, auth, server>>

\* The resolved requests, each with a button.
Listed(r) == ui.list.status = "ok" /\ r \in ui.list.data

\* pickRequest
PickRequest(r) ==
    /\ On("dispute") /\ ui.phase = "pick" /\ Listed(r)
    /\ ui' = [ui EXCEPT !.selected = r, !.phase = "claim", !.receipt = NULL, !.failed = FALSE,
                        !.strayed = @ \/ ui.loading]
    /\ UNCHANGED <<scope, page, entries, auth, jobs, server>>

\* A mistake: the button stays enabled while a receipt loads.
CanRevealAgain == ui.phase = "claim"

CanReveal == ui.phase = "claim" /\ ~ui.loading

\* revealReceipt
RevealReceipt ==
    /\ On("dispute") /\ CanReveal /\ Room
    /\ IF auth.memory = NULL
       THEN ui' = [ui EXCEPT !.failed = TRUE] /\ UNCHANGED jobs
       ELSE /\ ui' = [ui EXCEPT !.loading = TRUE, !.failed = FALSE, !.strayed = FALSE]
            /\ jobs' = Append(jobs, Call("receipt", ui.selected))
    /\ UNCHANGED <<scope, page, entries, auth, server>>

\* GET /ledger/receipt/:requestId
ServeReceipt(i) == Waiting(i, "receipt") /\ Answer(i, jobs[i].what, server)

\* The receipt is shown whatever is selected by now.
FinishReceipt(i, reply) ==
    /\ Read(i, "receipt", reply)
    /\ ui' = Render(i, IF reply = Failed THEN [ui EXCEPT !.failed = TRUE, !.loading = FALSE]
                       ELSE [ui EXCEPT !.receipt = reply, !.phase = "reveal", !.loading = FALSE])
    /\ jobs' = RemoveAt(jobs, i)
    /\ UNCHANGED <<scope, page, entries, auth, server>>

\* The receipt is on screen.
Revealed == ui.phase = "reveal" /\ ui.receipt # NULL

\* reset, of "Back" and "Start over"
ResetDispute ==
    /\ On("dispute") /\ (ui.phase = "claim" \/ Revealed)
    /\ ui' = [ui EXCEPT !.selected = NULL, !.phase = "pick", !.receipt = NULL, !.failed = FALSE,
                        !.strayed = @ \/ ui.loading]
    /\ UNCHANGED <<scope, page, entries, auth, jobs, server>>

\* <Link to="/dashboard">, shown when nothing is resolved.
FollowToDashboard ==
    /\ On("dispute") /\ ui.phase = "pick" /\ ui.list = Loaded({})
    /\ Navigate("dashboard", jobs)
    /\ UNCHANGED <<scope, auth, server>>

-----------------------------------------------------------------------------
FatigueAttempts == 5

AttackUi == [running : BOOLEAN, results : 0..FatigueAttempts, done : BOOLEAN,
             replay : {"idle", "running", "done", "no-token"},
             replays : UNION {[1..n -> BOOLEAN] : n \in 0..2}]  \* replayResults: success

MountAttack ==
    /\ page = "attack" /\ ui = NULL
    /\ ui' = [running |-> FALSE, results |-> 0, done |-> FALSE, replay |-> "idle", replays |-> <<>>]
    /\ UNCHANGED <<scope, page, entries, auth, jobs, server>>

CanFatigue == ~ui.running

\* simulateMfaFatigue
SimulateFatigue ==
    /\ On("attack") /\ CanFatigue /\ Room
    /\ ui' = [ui EXCEPT !.running = TRUE, !.results = 0, !.done = FALSE]
    /\ jobs' = Append(jobs, Call("fatigue", NULL))
    /\ UNCHANGED <<scope, page, entries, auth, server>>

\* One attempt.  No ApiError has the statusCode the page looks for: each result is
\* shown with status 0, blocked or not.
AttemptFatigue(i) ==
    LET last == ui.results + 1 = FatigueAttempts
    IN  /\ jobs[i].at = "fatigue"
        /\ ui' = [ui EXCEPT !.results = @ + 1, !.done = last, !.running = ~last]
        /\ jobs' = IF last THEN RemoveAt(jobs, i) ELSE jobs
        /\ UNCHANGED <<scope, page, entries, auth, server>>

ResetFatigue ==
    /\ On("attack") /\ ui.done
    /\ ui' = [ui EXCEPT !.results = 0, !.done = FALSE]
    /\ UNCHANGED <<scope, page, entries, auth, jobs, server>>

CanReplay == ui.replay # "running"

\* simulateReplayAttack: refresh, wait 600 ms, refresh with the same token again.
SimulateReplay ==
    /\ On("attack") /\ CanReplay /\ Room
    /\ IF auth.memory = NULL
       THEN ui' = [ui EXCEPT !.replay = "no-token"] /\ UNCHANGED jobs
       ELSE /\ ui' = [ui EXCEPT !.replay = "running", !.replays = <<>>]
            /\ jobs' = Append(jobs, Call("capture", auth.memory))
    /\ UNCHANGED <<scope, page, entries, auth, server>>

\* POST /auth/refresh: a new token, or "reuse detected" and the end of the family.
Refresh(i, at) ==
    LET token == jobs[i].what
    IN  /\ Waiting(i, at)
        /\ IF Current(token)
           THEN /\ token.generation < MaxGeneration
                /\ Answer(i, [token EXCEPT !.generation = @ + 1], Rotated(token.family))
           ELSE Answer(i, Failed, Revoked(token.family))

FinishCapture(i, reply) ==
    /\ Read(i, "capture", reply)
    /\ IF reply = Failed THEN UNCHANGED auth ELSE SetTokens(reply)
    /\ ui' = Render(i, [ui EXCEPT !.replays = <<reply # Failed>>])
    /\ jobs' = [jobs EXCEPT ![i].at = "pause", ![i].reply = NULL]
    /\ UNCHANGED <<scope, page, entries, server>>

ReplayToken(i) ==
    /\ jobs[i].at = "pause"
    /\ jobs' = [jobs EXCEPT ![i].at = "replay"]
    /\ UNCHANGED <<scope, page, entries, ui, auth, server>>

\* The tokens of a replay that is accepted are only shown.
FinishReplay(i, reply) ==
    /\ Read(i, "replay", reply)
    /\ ui' = Render(i, [ui EXCEPT !.replays = Append(@, reply # Failed), !.replay = "done"])
    /\ jobs' = RemoveAt(jobs, i)
    /\ UNCHANGED <<scope, page, entries, auth, server>>

ResetReplay ==
    /\ On("attack") /\ ui.replay = "done"
    /\ ui' = [ui EXCEPT !.replay = "idle", !.replays = <<>>]
    /\ UNCHANGED <<scope, page, entries, auth, jobs, server>>

-----------------------------------------------------------------------------
PhishingUi == [phase : {"idle", "attempting", "failed"}]

MountPhishing ==
    /\ page = "phishing" /\ ui = NULL
    /\ ui' = [phase |-> "idle"]
    /\ UNCHANGED <<scope, page, entries, auth, jobs, server>>

\* handlePhishAttempt
AttemptPhish ==
    /\ On("phishing") /\ ui.phase = "idle" /\ Room
    /\ ui' = [phase |-> "attempting"]
    /\ jobs' = Append(jobs, Call("attempt", NULL))
    /\ UNCHANGED <<scope, page, entries, auth, server>>

\* Refused by the browser or completed, it is told as a failure.
FinishPhish(i) ==
    /\ jobs[i].at = "attempt"
    /\ ui' = Render(i, [phase |-> "failed"])
    /\ jobs' = RemoveAt(jobs, i)
    /\ UNCHANGED <<scope, page, entries, auth, server>>

ResetPhish ==
    /\ On("phishing") /\ ui.phase = "failed"
    /\ ui' = [phase |-> "idle"]
    /\ UNCHANGED <<scope, page, entries, auth, jobs, server>>

DemoNext ==
    \/ MountDispute \/ RevealReceipt \/ ResetDispute \/ FollowToDashboard
    \/ MountAttack \/ SimulateFatigue \/ ResetFatigue \/ SimulateReplay \/ ResetReplay
    \/ MountPhishing \/ AttemptPhish \/ ResetPhish
    \/ \E r \in Requests : PickRequest(r)
    \/ \E i \in DOMAIN jobs :
          \/ ListResolved(i) \/ ServeReceipt(i) \/ AttemptFatigue(i) \/ ReplayToken(i)
          \/ FinishPhish(i) \/ \E at \in {"capture", "replay"} : Refresh(i, at)
          \/ \E reply \in {jobs[i].reply, Failed} :
                \/ FinishList(i, reply) \/ FinishReceipt(i, reply)
                \/ FinishCapture(i, reply) \/ FinishReplay(i, reply)
=============================================================================
