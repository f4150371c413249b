------------------------------ MODULE Showcase ------------------------------
(***************************************************************************)
(* The scripted demos on the dashboard: JudgeMode.tsx, AttackSimulation.tsx*)
(* and AdaptiveTrustEngine.tsx.  They call no route; each runs on timers   *)
(* that its own buttons start and stop.  Their state is ui.show and goes   *)
(* with the page.  Timers of one component fire in the order of their      *)
(* delays where these are comparable, in any order otherwise.              *)
(***************************************************************************)
EXTENDS Tab, FiniteSetsExt

DemoSteps == 8     \* DEMO_STEPS, counted from 1; 0 is the -1 of the code

\* ref: the timer that timerRef holds.  A timer is named by the step it goes on to.
Judge == [state : {"idle", "running", "paused", "done"},
          active : 0..DemoSteps, step : 0..DemoSteps, summary : BOOLEAN, paused : BOOLEAN,
          timers : SUBSET (1..DemoSteps + 1), ref : 0..DemoSteps + 1]

\* MOCK_SCENARIOS, by the number of their signals.
Signals == [phishing |-> 4, newDevice |-> 3, sessionHijack |-> 4, replay |-> 3]

\* A timer is named by what it shows: signal k, then the score, then the decision.
PanelOf(s) == [scenario : {s}, state : {"idle", "running", "done"}, revealed : 0..Signals[s],
               score : BOOLEAN, decision : BOOLEAN, timers : SUBSET (1..Signals[s] + 2)]
Panel == UNION {PanelOf(s) : s \in DOMAIN Signals}

TrustScenarios == {"low", "medium", "high"}
MaxManual == 2     \* bound on the timers of Re-evaluate under way

\* auto: the timer of the effect runs; manual: the timers of the button, which
\* nothing stops.
Engine == [scenario : TrustScenarios, refreshing : BOOLEAN,
           auto : BOOLEAN, manual : 0..MaxManual]

Show == [judge : Judge, panel : Panel, engine : Engine]

NewPanel(s) == [scenario |-> s, state |-> "idle", revealed |-> 0, score |-> FALSE,
                decision |-> FALSE, timers |-> {}]

NewShow ==
    [judge  |-> [state |-> "idle", active |-> 0, step |-> 0, summary |-> FALSE,
                 paused |-> FALSE, timers |-> {}, ref |-> 0],
     panel  |-> NewPanel("phishing"),
     engine |-> [scenario |-> "medium", refreshing |-> TRUE, auto |-> TRUE, manual |-> 0]]

Shown(demo) == On("dashboard") /\ demo \in scope.demos

SetJudge(j)  == ui' = [ui EXCEPT !.show.judge = j]
SetPanel(p)  == ui' = [ui EXCEPT !.show.panel = p]
SetEngine(e) == ui' = [ui EXCEPT !.show.engine = e]

-----------------------------------------------------------------------------
\* A mistake: pausing leaves the timer to the flag.
ClearTimerFlagOnly(j) == j

ClearTimer(j) == [j EXCEPT !.timers = @ \ {j.ref}, !.ref = 0]

SetTimer(j, k) == [j EXCEPT !.timers = @ \cup {k}, !.ref = k]

\* advanceStep
AdvanceStep(j, k) ==
    IF k > DemoSteps THEN [j EXCEPT !.summary = TRUE, !.state = "done"]
    ELSE SetTimer([j EXCEPT !.step = k, !.active = k], k + 1)

StartDemo(j) ==
    /\ j.state = "idle"
    /\ SetJudge(SetTimer([ClearTimer(j) EXCEPT !.paused = FALSE, !.state = "running",
                              !.summary = FALSE, !.active = 0], 1))

PauseDemo(j) ==
    /\ j.state = "running"
    /\ SetJudge(ClearTimer([j EXCEPT !.paused = TRUE, !.state = "paused"]))

\* The step that was interrupted is not finished: on to the next one.
ResumeDemo(j) ==
    /\ j.state = "paused"
    /\ SetJudge(AdvanceStep([j EXCEPT !.paused = FALSE, !.state = "running"], j.step + 1))

RestartDemo(j) ==
    /\ j.state # "idle"
    /\ SetJudge([ClearTimer(j) EXCEPT !.paused = FALSE, !.state = "idle", !.active = 0,
                     !.summary = FALSE, !.step = 0])

\* Only the timer of startDemo does not look at the flag.
DemoTimer(j, k) ==
    LET fired == [j EXCEPT !.timers = @ \ {k}]
    IN  /\ k \in j.timers
        /\ SetJudge(IF k = 1 \/ ~j.paused THEN AdvanceStep(fired, k) ELSE fired)

JudgeNext(j) ==
    \/ StartDemo(j) \/ PauseDemo(j) \/ ResumeDemo(j) \/ RestartDemo(j)
    \/ \E k \in j.timers : DemoTimer(j, k)

-----------------------------------------------------------------------------
\* The panel has the scenario as its key: another one is another panel, without the
\* timers of this one.
SelectScenario(p, s) == s # p.scenario /\ SetPanel(NewPanel(s))

\* runSimulation
RunSimulation(p) ==
    /\ p.state = "idle"
    /\ SetPanel([NewPanel(p.scenario) EXCEPT !.state = "running",
                     !.timers = 1..Signals[p.scenario] + 2])

ResetSimulation(p) == p.state # "idle" /\ SetPanel(NewPanel(p.scenario))

SimulationTimer(p) ==
    LET k     == Min(p.timers)
        last  == Signals[p.scenario]
        fired == [p EXCEPT !.timers = @ \ {k}]
    IN  /\ p.timers # {}
        /\ SetPanel(CASE k <= last    -> [fired EXCEPT !.revealed = k]
                      [] k = last + 1 -> [fired EXCEPT !.score = TRUE]
                      [] k = last + 2 -> [fired EXCEPT !.decision = TRUE, !.state = "done"])

PanelNext(p) ==
    \/ \E s \in DOMAIN Signals : SelectScenario(p, s)
    \/ RunSimulation(p) \/ ResetSimulation(p) \/ SimulationTimer(p)

-----------------------------------------------------------------------------
\* handleRefresh
Reevaluate(e) ==
    /\ ~e.refreshing /\ e.manual < MaxManual
    /\ SetEngine([e EXCEPT !.refreshing = TRUE, !.manual = @ + 1])

\* The effect on scenarioIdx stops its own timer and starts another.
SelectTrust(e, s) ==
    /\ s # e.scenario
    /\ SetEngine([e EXCEPT !.scenario = s, !.refreshing = TRUE, !.auto = TRUE])

Evaluated(e) ==
    \/ e.auto /\ SetEngine([e EXCEPT !.refreshing = FALSE, !.auto = FALSE])
    \/ e.manual > 0 /\ SetEngine([e EXCEPT !.refreshing = FALSE, !.manual = @ - 1])

EngineNext(e) ==
    \/ Reevaluate(e) \/ Evaluated(e)
    \/ \E s \in TrustScenarios : SelectTrust(e, s)

ShowcaseNext ==
    /\ \/ Shown("judge") /\ JudgeNext(ui.show.judge)
       \/ Shown("panel") /\ PanelNext(ui.show.panel)
       \/ Shown("engine") /\ EngineNext(ui.show.engine)
    /\ UNCHANGED <<scope, page, entries, auth, jobs, server>>
=============================================================================
