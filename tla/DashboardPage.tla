---------------------------- MODULE DashboardPage ----------------------------
(***************************************************************************)
(* DashboardPage.tsx: the lists of sessions, pending approvals, activity   *)
(* and enrolment; revoking a session, voting, the demo request, sign-out.  *)
(* Of the last two lists nothing depends on what they hold.  The scripted  *)
(* demos further down are Showcase.                                        *)
(***************************************************************************)
EXTENDS Showcase

Rows == SeqOf(Families, Cardinality(Families))

Lists == [sessions : ListOf(Rows), approvals : ListOf(SUBSET Requests),
          activity : ListOf({TRUE}), security : ListOf({TRUE})]

\* token: the one the effect ran with; quiet: history, the requests whose vote was
\* acknowledged while no list of approvals was loading.
DashboardUi == [token : Token, lists : Lists,
                revoking : Families \cup {NULL}, voting : Requests \cup {NULL},
                demo : {"idle", "loading", "success", "error"},
                error : BOOLEAN, quiet : SUBSET Requests, show : Show]

\* loadSessions, loadApprovals, loadActivity, loadSecurityStatus
Load(s) == Call("load", s)
Loads(S) == [k \in 1..Cardinality(S) |-> Load(SetToSeq(S)[k])]
Reloading(S) == [s \in Sections |-> IF S # {} /\ s \in S THEN Loading ELSE ui.lists[s]]

LoadingApprovals(open) == \E i \in DOMAIN open : open[i].at = "load" /\ open[i].what = "approvals"

\* The effect on [token, ...]: without a token, to /login; with another one than
\* last time, everything is loaded again.
RunEffect ==
    /\ page = "dashboard"
    /\ ui # NULL => ui.token # auth.memory
    /\ IF auth.memory = NULL
       THEN Navigate("login", jobs)
       ELSE /\ ui' = IF ui = NULL
                     THEN [token |-> auth.memory, lists |-> [s \in Sections |-> Loading],
                           revoking |-> NULL, voting |-> NULL, demo |-> "idle",
                           error |-> FALSE, quiet |-> {}, show |-> NewShow]
                     ELSE [ui EXCEPT !.token = auth.memory, !.lists = Reloading(scope.sections)]
            /\ jobs' = jobs \o Loads(scope.sections)
            /\ UNCHANGED <<page, entries>>
    /\ UNCHANGED <<scope, auth, server>>

\* The queries behind the four lists.
Content(s) ==
    CASE s = "sessions"  -> SessionList
      [] s = "approvals" -> With("pending")
      [] OTHER           -> TRUE

ServeList(i) ==
    /\ Waiting(i, "load")
    /\ Answer(i, Content(jobs[i].what), server)

\* The answer that arrives last stays, whichever was asked for last.
FinishLoad(i, reply) ==
    /\ Read(i, "load", reply)
    /\ ui' = Render(i, [ui EXCEPT !.lists[jobs[i].what] =
                 IF reply = Failed THEN Broken ELSE Loaded(reply)])
    /\ jobs' = RemoveAt(jobs, i)
    /\ UNCHANGED <<scope, page, entries, auth, server>>

\* ErrorState's button
Retry(s) ==
    /\ On("dashboard") /\ ui.lists[s] = Broken /\ Room
    /\ ui' = [ui EXCEPT !.lists = Reloading({s})]
    /\ jobs' = Append(jobs, Load(s))
    /\ UNCHANGED <<scope, page, entries, auth, server>>

Shows(s) == On("dashboard") /\ ui.lists[s].status = "ok"

-----------------------------------------------------------------------------
\* A mistake: the first row has a button as well.
RevocableAll == ToSet(ui.lists["sessions"].data)

\* The first row is "This session" and has no button.
Revocable ==
    LET rows == ui.lists["sessions"].data
    IN  {rows[k] : k \in DOMAIN rows \ {1}}

\* revokeSession
Revoke(f) ==
    /\ Shows("sessions") /\ f \in Revocable
    /\ ui.revoking = NULL /\ Room
    /\ ui' = [ui EXCEPT !.revoking = f]
    /\ jobs' = Append(jobs, Call("revoke", f))
    /\ UNCHANGED <<scope, page, entries, auth, server>>

DeleteSession(i) ==
    LET f == jobs[i].what
    IN  Waiting(i, "revoke") /\ f \in server.live /\ Answer(i, TRUE, Revoked(f))

\* A mistake: the row stays.
WithoutNothing(s, x) == ui.lists[s]

\* setSessions and setApprovals on success: a list that is being loaded is left alone.
Without(s, x) ==
    LET list == ui.lists[s]
    IN  CASE list.status # "ok" -> list
          [] list.status = "ok" /\ s = "sessions" ->
                Loaded(Kept(list.data, Families \ {x}))
          [] OTHER -> Loaded(list.data \ {x})

\* A banner is shown until 4000 ms later; the timer of an earlier one may end it.
Banner == Call("banner", NULL)

FinishRevoke(i, reply) ==
    /\ Read(i, "revoke", reply)
    /\ IF reply # Failed
       THEN /\ ui' = Render(i, [ui EXCEPT !.revoking = NULL,
                                          !.lists["sessions"] = Without("sessions", jobs[i].what)])
            /\ jobs' = RemoveAt(jobs, i)
       ELSE /\ ui' = Render(i, [ui EXCEPT !.revoking = NULL, !.error = TRUE,
                                          !.lists = Reloading({"sessions"})])
            /\ jobs' = RemoveAt(jobs, i) \o
                  (IF jobs[i].live THEN <<Load("sessions"), Banner>> ELSE <<>>)
    /\ UNCHANGED <<scope, page, entries, auth, server>>

-----------------------------------------------------------------------------
\* The list of pending approvals offers both decisions on each of its requests.
Offered(r) == Shows("approvals") /\ r \in ui.lists["approvals"].data

\* submitVote; approve and deny differ in nothing here.
Vote(r) ==
    /\ Offered(r)
    /\ ui.voting = NULL /\ Room
    /\ ui' = [ui EXCEPT !.voting = r]
    /\ jobs' = Append(jobs, Call("vote", r))
    /\ UNCHANGED <<scope, page, entries, auth, server>>

\* POST /requests/:id/votes: a second vote is refused; where the policy asks for more
\* votes the request stays pending.
CastVote(i) ==
    LET r == jobs[i].what
    IN  /\ Waiting(i, "vote")
        /\ server.requests[r] = "pending" /\ r \notin server.voted
        /\ Answer(i, TRUE, [server EXCEPT !.voted = @ \cup {r},
                               !.requests[r] = IF r \in Quick THEN "resolved" ELSE @])

FinishVote(i, reply) ==
    LET r       == jobs[i].what
        rest    == RemoveAt(jobs, i)
        refresh == scope.sections \cap {"activity"}
    IN  /\ Read(i, "vote", reply)
        /\ IF reply # Failed
           THEN /\ ui' = Render(i, [ui EXCEPT !.voting = NULL,
                            !.lists = [Reloading(refresh) EXCEPT
                                           !["approvals"] = Without("approvals", r)],
                            !.quiet = IF LoadingApprovals(jobs) THEN @ ELSE @ \cup {r}])
                /\ jobs' = rest \o (IF jobs[i].live THEN Loads(refresh) ELSE <<>>)
           ELSE /\ ui' = Render(i, [ui EXCEPT !.voting = NULL, !.error = TRUE])
                /\ jobs' = rest \o (IF jobs[i].live THEN <<Banner>> ELSE <<>>)
        /\ UNCHANGED <<scope, page, entries, auth, server>>

ClearBanner(i) ==
    /\ jobs[i].at = "banner"
    /\ ui' = Render(i, [ui EXCEPT !.error = FALSE])
    /\ jobs' = RemoveAt(jobs, i)
    /\ UNCHANGED <<scope, page, entries, auth, server>>

-----------------------------------------------------------------------------
\* createDemoRequest: the demo policy is found or made on the way.
CreateDemo ==
    /\ On("dashboard") /\ ui.demo # "loading" /\ Room
    /\ ui' = [ui EXCEPT !.demo = "loading"]
    /\ jobs' = Append(jobs, Call("create", NULL))
    /\ UNCHANGED <<scope, page, entries, auth, server>>

CreateRequest(i) ==
    /\ Waiting(i, "create")
    /\ \E r \in Quick \cap scope.requests :
          /\ server.requests[r] = "none"
          /\ Answer(i, r, [server EXCEPT !.requests[r] = "pending"])

FinishDemo(i, reply) ==
    /\ Read(i, "create", reply)
    /\ IF reply # Failed
       THEN /\ ui' = Render(i, [ui EXCEPT !.demo = "success", !.lists = Reloading({"approvals"})])
            /\ jobs' = RemoveAt(jobs, i) \o (IF jobs[i].live THEN <<Load("approvals")>> ELSE <<>>)
       ELSE /\ ui' = Render(i, [ui EXCEPT !.demo = "error"])
            /\ jobs' = RemoveAt(jobs, i)
    /\ UNCHANGED <<scope, page, entries, auth, server>>

\* handleSignOut
SignOut ==
    /\ On("dashboard")
    /\ ClearTokens
    /\ Navigate("login", jobs)
    /\ UNCHANGED <<scope, server>>

\* <Link to="/demo/dispute">
FollowToDispute ==
    /\ On("dashboard") /\ "dispute" \in scope.pages
    /\ Navigate("dispute", jobs)
    /\ UNCHANGED <<scope, auth, server>>

DashboardNext ==
    \/ RunEffect \/ CreateDemo \/ SignOut \/ FollowToDispute \/ ShowcaseNext
    \/ \E s \in scope.sections : Retry(s)
    \/ \E f \in Families : Revoke(f)
    \/ \E r \in Requests : Vote(r)
    \/ \E i \in DOMAIN jobs :
          \/ ServeList(i) \/ DeleteSession(i) \/ CastVote(i) \/ CreateRequest(i) \/ ClearBanner(i)
          \/ \E reply \in {jobs[i].reply, Failed} :
                \/ FinishLoad(i, reply) \/ FinishRevoke(i, reply)
                \/ FinishVote(i, reply) \/ FinishDemo(i, reply)
=============================================================================
