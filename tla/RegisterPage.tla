---------------------------- MODULE RegisterPage ----------------------------
(***************************************************************************)
(* RegisterPage.tsx: register a passkey, show the TOTP secret, confirm it  *)
(* with a code.  Every retry of the form starts over with a new passkey.   *)
(***************************************************************************)
EXTENDS Tab

RegisterUi == [phase : {"form", "totp-qr", "done"},
               status : {"idle", "loading", "error"},   \* status, then totpStatus
               secret : 0..MaxSecrets]                  \* qrDataUrl

NewRegister == [phase |-> "form", status |-> "idle", secret |-> 0]

MountRegister ==
    /\ page = "register" /\ ui = NULL
    /\ ui' = NewRegister
    /\ UNCHANGED <<scope, page, entries, auth, jobs, server>>

\* The form on screen takes an e-mail address,
RegisterForm == On("register") /\ ui.phase = "form" /\ ui.status # "loading"

\* or, under the QR code, a code.
QrForm == On("register") /\ ui.phase = "totp-qr" /\ ui.status # "loading"

\* handleSubmit
SubmitRegistration ==
    /\ RegisterForm /\ Room
    /\ ui' = [ui EXCEPT !.status = "loading"]
    /\ jobs' = Append(jobs, Call("passkey", NULL))
    /\ UNCHANGED <<scope, page, entries, auth, server>>

\* The prompt and register/verify: an authenticator that holds a passkey of the
\* account is excluded.
RegisterPasskey(i) ==
    /\ Waiting(i, "passkey")
    /\ \E a \in Authenticators \ server.passkeys :
          Answer(i, a, [server EXCEPT !.passkeys = @ \cup {a}])

\* ... and on to totp/setup,
AskForSecret(i, reply) ==
    /\ Read(i, "passkey", reply)
    /\ IF reply = Failed
       THEN ui' = Render(i, [ui EXCEPT !.status = "error"]) /\ jobs' = RemoveAt(jobs, i)
       ELSE jobs' = [jobs EXCEPT ![i].at = "setup", ![i].reply = NULL] /\ UNCHANGED ui
    /\ UNCHANGED <<scope, page, entries, auth, server>>

\* which replaces the secret,
SetupTotp(i) ==
    /\ Waiting(i, "setup") /\ server.secret < MaxSecrets
    /\ Answer(i, server.secret + 1,
              [server EXCEPT !.secret = @ + 1, !.enabled = FALSE])

\* and is shown.
ShowSecret(i, reply) ==
    /\ Read(i, "setup", reply)
    /\ ui' = Render(i, IF reply = Failed THEN [ui EXCEPT !.status = "error"]
                       ELSE [phase |-> "totp-qr", status |-> "idle", secret |-> reply])
    /\ jobs' = RemoveAt(jobs, i)
    /\ UNCHANGED <<scope, page, entries, auth, server>>

\* handleTotpVerify, with a code of the secret that was scanned or with a wrong one.
SubmitCode(secret) ==
    /\ QrForm /\ Room
    /\ secret \in {ui.secret, 0}
    /\ ui' = [ui EXCEPT !.status = "loading"]
    /\ jobs' = Append(jobs, Call("confirm", secret))
    /\ UNCHANGED <<scope, page, entries, auth, server>>

ConfirmTotp(i) ==
    /\ Waiting(i, "confirm") /\ jobs[i].what = server.secret
    /\ Answer(i, TRUE, [server EXCEPT !.enabled = TRUE])

\* A mistake: a refused code links the authenticator too.
LinkedAnyway(reply) == TRUE

Linked(reply) == reply # Failed

\* On success "Account ready", and a redirect in 1500 ms that nothing cancels.
FinishRegistration(i, reply) ==
    /\ Read(i, "confirm", reply)
    /\ IF Linked(reply)
       THEN /\ ui' = Render(i, [ui EXCEPT !.phase = "done", !.status = "idle"])
            /\ jobs' = [jobs EXCEPT ![i].at = "redirect"]
       ELSE ui' = Render(i, [ui EXCEPT !.status = "error"]) /\ jobs' = RemoveAt(jobs, i)
    /\ UNCHANGED <<scope, page, entries, auth, server>>

RedirectToLogin(i) ==
    /\ jobs[i].at = "redirect"
    /\ Navigate("login", RemoveAt(jobs, i))
    /\ UNCHANGED <<scope, auth, server>>

RegisterNext ==
    \/ MountRegister \/ SubmitRegistration
    \/ \E secret \in 0..MaxSecrets : SubmitCode(secret)
    \/ \E i \in DOMAIN jobs :
          \/ RegisterPasskey(i) \/ SetupTotp(i) \/ ConfirmTotp(i) \/ RedirectToLogin(i)
          \/ \E reply \in {jobs[i].reply, Failed} :
                AskForSecret(i, reply) \/ ShowSecret(i, reply) \/ FinishRegistration(i, reply)
=============================================================================
