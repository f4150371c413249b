------------------------------- MODULE Browser -------------------------------
(***************************************************************************)
(* The frontend in one tab: the pages of App.tsx over the tokens of Tab.   *)
(* One page is mounted at a time; the jobs of the pages left before it go  *)
(* on.                                                                     *)
(***************************************************************************)
EXTENDS LoginPage, RegisterPage, DashboardPage, DemoPages

Next ==
    \/ LoginNext \/ RegisterNext \/ DashboardNext \/ DemoNext
    \/ \E p \in Pages : Traverse(p) \/ Open(p)
    \/ Others

Spec == Init /\ [][Next]_vars

-----------------------------------------------------------------------------
\* The steps after which a job may be under way.
Steps == Idle \cup {"verify", "step-up", "passkey", "setup", "confirm", "redirect",
                    "revoke", "vote", "create", "capture", "pause", "replay"}

\* The state of each page's component.
UiOf == [login |-> LoginUi, register |-> RegisterUi, dashboard |-> DashboardUi,
         dispute |-> DisputeUi, attack |-> AttackUi, phishing |-> PhishingUi]

ASSUME NullAssumption == \A p \in Pages : NULL \notin UiOf[p]

ServerOK ==
    /\ server.rows \in Rows /\ IsInjective(server.rows)
    /\ server.live \subseteq ToSet(server.rows)
    /\ \A f \in Families : /\ server.generation[f] \in 0..MaxGeneration
                           /\ server.generation[f] = 0 <=> Fresh(f) \/ f \notin scope.families
    /\ server.requests \in [Requests -> {"none", "pending", "resolved"}]
    /\ server.voted \subseteq Requests /\ server.passkeys \subseteq Authenticators
    /\ server.secret \in 0..MaxSecrets /\ server.enabled \in BOOLEAN

\* Every variable has its type, and each page the state of its own component.
TypeOK ==
    /\ scope \in Scopes
    /\ page \in entries /\ entries \subseteq Pages
    /\ ui # NULL => ui \in UiOf[page]
    /\ auth \in [{"memory", "storage"} -> Token \cup {NULL}]
    /\ \A i \in DOMAIN jobs : jobs[i].at \in Steps /\ jobs[i].live \in BOOLEAN
    /\ ServerOK

Signing == \E i \in DOMAIN jobs : jobs[i].at \in {"verify", "step-up", "capture"}

\* handleSignOut, clearTokens: a tab without tokens gets none, whatever it navigates
\* to or reloads, but from a sign-in that is under way; in particular none from
\* sessionStorage, from the phishing page or from a dashboard call left behind.
SignedOutStaysOut ==
    [][auth.memory = NULL /\ ~Signing => auth'.memory = NULL]_vars

\* The dashboard's rule that the first row is this session: the tab is about to revoke
\* its own family only if another one got a token after it did.
OwnSessionSpared ==
    \A i \in DOMAIN jobs :
        jobs[i].at = "revoke" /\ auth.memory # NULL /\ jobs[i].what = auth.memory.family
            => server.rows[1] # auth.memory.family

\* submitVote: a request that one vote decides, and whose vote was acknowledged while
\* no list of approvals was loading, is not offered again on this visit.
VotedStaysGone ==
    page = "dashboard" /\ ui # NULL /\ ui.lists["approvals"].status = "ok" =>
        ui.lists["approvals"].data \cap ui.quiet \cap Quick = {}

\* revealReceipt: the receipt on screen is of the selected request, unless the
\* selection changed while it was loading.
ReceiptOfSelected ==
    page = "dispute" /\ ui # NULL /\ ui.phase = "reveal" /\ ~ui.strayed =>
        ui.receipt = ui.selected

\* RegisterPage, "Your passkey and authenticator are linked": the account has a passkey
\* and the secret that was scanned is enabled, unless a later setup replaced it.
ReadyMeansLinked ==
    page = "register" /\ ui # NULL /\ ui.phase = "done" =>
        /\ server.passkeys # {}
        /\ server.secret = ui.secret => server.enabled

\* What a flow shows at its end is so: revealReceipt's receipt and RegisterPage's
\* "Account ready".
EndsTrue == ReceiptOfSelected /\ ReadyMeansLinked

\* JudgeMode, SimulationPanel, handleRefresh: whatever is paused, reset, restarted or
\* switched and when, a demo that says it is running has its timer - JudgeMode one, not
\* two - and one that is stopped, JudgeMode or the panel, has none; JudgeMode resumes
\* from the step on screen and its summary is that of a run that came to its end.
TimersTrue ==
    page = "dashboard" /\ ui # NULL =>
        LET judge == ui.show.judge
            panel == ui.show.panel
        IN  /\ IF judge.state = "running" THEN judge.timers = {judge.ref} ELSE judge.timers = {}
            /\ judge.step = judge.active
            /\ judge.summary <=> judge.state = "done"
            /\ judge.summary => judge.step = DemoSteps
            /\ panel.state = "running" <=> panel.timers # {}
            /\ ui.show.engine.refreshing => ui.show.engine.auto \/ ui.show.engine.manual > 0
=============================================================================
