------------------------------ MODULE LoginPage ------------------------------
(***************************************************************************)
(* LoginPage.tsx and PushSimulator.tsx: sign in with a passkey and, where  *)
(* the server asks for it, pick the number and enter a TOTP code.          *)
(***************************************************************************)
EXTENDS Tab

LoginUi == [phase : {"email", "number-match", "totp"},
            status : {"idle", "loading", "error"},
            picked : BOOLEAN]   \* PushSimulator: a number was picked

NewLogin == [phase |-> "email", status |-> "idle", picked |-> FALSE]

MountLogin ==
    /\ page = "login" /\ ui = NULL
    /\ ui' = NewLogin
    /\ UNCHANGED <<scope, page, entries, auth, jobs, server>>

\* The form on screen takes an e-mail address,
EmailForm == On("login") /\ ui.phase = "email" /\ ui.status # "loading"

\* or one of the numbers of PushSimulator, once,
Numbers == On("login") /\ ui.phase = "number-match" /\ ~ui.picked

\* or a code.
CodeForm == On("login") /\ ui.phase = "totp" /\ ui.status # "loading"

\* handleSubmit: the options and the passkey prompt come before login/verify.
SubmitLogin ==
    /\ EmailForm /\ Room
    /\ ui' = [ui EXCEPT !.status = "loading"]
    /\ jobs' = Append(jobs, Call("verify", NULL))
    /\ UNCHANGED <<scope, page, entries, auth, server>>

\* login/verify: a session, or the demand to step up.
VerifyLogin(i) ==
    /\ Waiting(i, "verify")
    /\ \/ \E f \in Families : Fresh(f) /\ Answer(i, f, Granted(f))
       \/ Answer(i, "step-up", server)

\* handleNumberMatch: a wrong number is told for 1800 ms, then the form is back.
PickNumber(correct) ==
    /\ Numbers /\ (correct \/ Room)
    /\ IF correct
       THEN ui' = [NewLogin EXCEPT !.phase = "totp"] /\ UNCHANGED jobs
       ELSE /\ ui' = [ui EXCEPT !.status = "error", !.picked = TRUE]
            /\ jobs' = Append(jobs, Call("wrong number", NULL))
    /\ UNCHANGED <<scope, page, entries, auth, server>>

ForgetWrongNumber(i) ==
    /\ jobs[i].at = "wrong number"
    /\ ui' = Render(i, NewLogin)
    /\ jobs' = RemoveAt(jobs, i)
    /\ UNCHANGED <<scope, page, entries, auth, server>>

\* handleStepUp; an error leaves the page asking for another code.
SubmitStepUp ==
    /\ CodeForm /\ Room
    /\ ui' = [ui EXCEPT !.status = "loading"]
    /\ jobs' = Append(jobs, Call("step-up", NULL))
    /\ UNCHANGED <<scope, page, entries, auth, server>>

\* login/step-up, of a right code and a pending token that is still good.
StepUp(i) ==
    /\ Waiting(i, "step-up")
    /\ \E f \in Families : Fresh(f) /\ Answer(i, f, Granted(f))

\* What both handlers do with the answer.
FinishSignIn(i, reply) ==
    /\ \E at \in {"verify", "step-up"} : Read(i, at, reply)
    /\ IF reply \in Families
       THEN /\ SetTokens([family |-> reply, generation |-> 1])
            /\ Navigate("dashboard", RemoveAt(jobs, i))
       ELSE /\ ui' = Render(i, IF reply = "step-up" THEN [NewLogin EXCEPT !.phase = "number-match"]
                               ELSE [ui EXCEPT !.status = "error"])
            /\ jobs' = RemoveAt(jobs, i)
            /\ UNCHANGED <<page, entries, auth>>
    /\ UNCHANGED <<scope, server>>

LoginNext ==
    \/ MountLogin \/ SubmitLogin \/ SubmitStepUp
    \/ \E correct \in BOOLEAN : PickNumber(correct)
    \/ \E i \in DOMAIN jobs :
          \/ VerifyLogin(i) \/ StepUp(i) \/ ForgetWrongNumber(i)
          \/ \E reply \in {jobs[i].reply, Failed} : FinishSignIn(i, reply)
=============================================================================
