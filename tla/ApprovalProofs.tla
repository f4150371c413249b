--------------------------- MODULE ApprovalProofs ---------------------------
(***************************************************************************)
(* Theorems about Approval for every set of users, requests, policies and  *)
(* concurrent calls.                                                       *)
(***************************************************************************)
EXTENDS Approval, TLAPS

\* What a call may rely on between two of its statements: its request exists and
\* is its user's own; past the INSERT there is a vote on it; and the verdict it is
\* about to write is still the verdict on the stored votes.
CallOK(call) ==
    /\ call # NoCall => request[call.request] # NULL
    /\ call.pc \in Steps => call.user = request[call.request].requester
    /\ call.pc \in Steps \ {"force", "resolved"} => call.asks \in Decisions
    /\ call.pc \in {"voted", "resolve"} => VotesOn(call.request) # {}
    /\ call.pc = "resolve" => /\ call.result \in Terminal
                              /\ call.result = VerdictOn(call.request)
    /\ call.pc = "force" => call.asks = "break_glass"
    /\ call.pc = "resolved" /\ call.asks # "break_glass" => call.result \in Terminal

CallInv == \A c \in Calls : CallOK(calls[c])

\* A request's policy exists, and a status no break-glass forced has votes behind it.
RowInv ==
    \A r \in RequestIds : request[r] # NULL =>
        /\ policy[request[r].policy] # NULL
        /\ request[r].status = "pending" <=> request[r].resolvedAt = NULL
        /\ request[r].status # "pending" /\ ~request[r].breakGlass
              => VotesOn(r) # {} /\ request[r].status = VerdictOn(r)

IInv == TypeOK /\ RequesterVotesOnce /\ RowInv /\ CallInv

-----------------------------------------------------------------------------
\* evaluateQuorum answers with one of its three results, or throws.
LEMMA EvaluateQuorumType ==
    ASSUME NEW terms, NEW a, NEW d
    PROVE  EvaluateQuorum(terms, a, d) \in Verdicts \cup {"throws"}
  BY DEF EvaluateQuorum, CountVerdict, SeniorVerdict, Verdicts

\* With 1 <= n <= m a verdict, once reached, stands whatever votes are still cast
\* among the m approvers: counting n_of_m votes early cannot change the outcome.
THEOREM CountVerdictStable ==
    ASSUME NEW n \in Nat \ {0}, NEW m \in Nat, n <= m,
           NEW a \in Nat, NEW d \in Nat, NEW b \in Nat, NEW e \in Nat,
           a <= b, d <= e, b + e <= m,
           CountVerdict(n, m, a, d) \in Terminal
    PROVE  CountVerdict(n, m, b, e) = CountVerdict(n, m, a, d)
  BY DEF CountVerdict, Terminal

\* And it is the right one: "approved" iff n approves are in, "denied" iff even
\* if every remaining approver approved there would not be n.
THEOREM CountVerdictCorrect ==
    ASSUME NEW n \in Nat \ {0}, NEW m \in Nat, n <= m,
           NEW a \in Nat, NEW d \in Nat, a + d <= m
    PROVE  /\ CountVerdict(n, m, a, d) = "approved" <=> a >= n
           /\ CountVerdict(n, m, a, d) = "denied" <=>
                 \A k \in Nat : a + d + k <= m => a + k < n
  <1>1. CountVerdict(n, m, a, d) = "approved" <=> a >= n
    BY DEF CountVerdict
  <1>2. CountVerdict(n, m, a, d) = "denied" <=> m - d < n
    BY DEF CountVerdict
  <1>3. (\A k \in Nat : a + d + k <= m => a + k < n) <=> m - d < n
    <2>1. ASSUME \A k \in Nat : a + d + k <= m => a + k < n PROVE m - d < n
      <3>1. m - a - d \in Nat /\ a + d + (m - a - d) <= m
        OBVIOUS
      <3>2. a + (m - a - d) < n
        BY <2>1, <3>1
      <3> QED BY <3>2
    <2>2. ASSUME m - d < n, NEW k \in Nat, a + d + k <= m PROVE a + k < n
      BY <2>2
    <2> QED BY <2>1, <2>2
  <1> QED BY <1>1, <1>2, <1>3

-----------------------------------------------------------------------------
\* Nothing is stored and nobody is served at first.
LEMMA InitInv == Init => IInv
  BY NullAssumption, ApprovalAssumption
  DEF Init, IInv, TypeOK, RequesterVotesOnce, RowInv, CallInv, CallOK, NoCall, Steps, Call

\* A call in the middle of a handler has the fields of its handler.
LEMMA OpenCall ==
    ASSUME TypeOK, NEW c \in Calls, calls[c].pc \in Steps
    PROVE  /\ calls[c] \in Call /\ calls[c] # NoCall
           /\ calls[c].request \in RequestIds /\ calls[c].user \in Users
           /\ calls[c].asks \in Asks /\ calls[c].result \in Verdicts \cup {NULL}
  BY DEF TypeOK, NoCall, Call, Steps

\* A step that leaves the tables alone and keeps or replaces one call leaves
\* everything about rows and votes as it was.
LEMMA QuietStep ==
    ASSUME IInv, UNCHANGED <<policy, request, votes>>
    PROVE  /\ RequesterVotesOnce' /\ RowInv'
           /\ \A r \in RequestIds : /\ request'[r] = request[r]
                                    /\ VotesOn(r)' = VotesOn(r)
                                    /\ VerdictOn(r)' = VerdictOn(r)
  <1>1. \A r \in RequestIds : /\ request'[r] = request[r]
                              /\ VotesOn(r)' = VotesOn(r)
                              /\ VerdictOn(r)' = VerdictOn(r)
    BY DEF VotesOn, VerdictOn, CountOn, TermsOf
  <1>2. RequesterVotesOnce'
    BY DEF IInv, RequesterVotesOnce
  <1>3. RowInv'
    BY <1>1 DEF IInv, RowInv
  <1> QED BY <1>1, <1>2, <1>3

\* What is known of a call stays true when nothing it refers to changes.
LEMMA CallKept ==
    ASSUME IInv, UNCHANGED <<policy, request, votes>>,
           NEW call \in Call \cup {NoCall}, CallOK(call)
    PROVE  CallOK(call)'
  <1>1. CASE call = NoCall
    BY <1>1 DEF CallOK, NoCall, Steps
  <1>2. CASE call \in Call
    <2>1. call.request \in RequestIds
      BY <1>2 DEF Call
    <2>2. /\ request'[call.request] = request[call.request]
          /\ VotesOn(call.request)' = VotesOn(call.request)
          /\ VerdictOn(call.request)' = VerdictOn(call.request)
      BY <2>1, QuietStep
    <2> QED BY <2>2 DEF CallOK
  <1> QED BY <1>1, <1>2

\* Changing one slot, to a call of which the invariant is true, keeps it for all.
LEMMA OneCallStep ==
    ASSUME IInv, UNCHANGED <<policy, request, votes>>, NEW c \in Calls, NEW call \in Call,
           calls' = [calls EXCEPT ![c] = call], CallOK(call)
    PROVE  /\ calls' \in [Calls -> Call \cup {NoCall}]
           /\ RequesterVotesOnce' /\ RowInv' /\ CallInv'
  <1>1. calls' \in [Calls -> Call \cup {NoCall}]
    BY DEF IInv, TypeOK
  <1>2. RequesterVotesOnce' /\ RowInv'
    BY QuietStep
  <1>3. ASSUME NEW k \in Calls PROVE CallOK(calls[k])'
    <2>1. CASE k = c
      <3>1. calls'[k] = call
        BY <2>1 DEF IInv, TypeOK
      <3>2. CallOK(call)'
        BY CallKept
      <3> QED BY <3>1, <3>2 DEF CallOK
    <2>2. CASE k # c
      <3>1. calls'[k] = calls[k] /\ calls[k] \in Call \cup {NoCall} /\ CallOK(calls[k])
        BY <2>2 DEF IInv, TypeOK, CallInv
      <3>2. ASSUME NEW x \in Call \cup {NoCall}, x = calls[k] PROVE CallOK(x)'
        BY <3>1, <3>2, CallKept
      <3> QED BY <3>1, <3>2 DEF CallOK
    <2> QED BY <2>1, <2>2
  <1> QED BY <1>1, <1>2, <1>3 DEF CallInv

-----------------------------------------------------------------------------
\* POST /requests/:id/votes and break-glass: the guards on the row just read are
\* what CallOK says of a call that goes on.
LEMMA BeginStep ==
    ASSUME IInv, NEW c \in Calls, NEW u \in Users, NEW r \in RequestIds, NEW asks \in Asks,
           NEW pc \in {"not_found", "conflict", "delegation", "force"}, Begin(c, u, r, asks, pc),
           pc \in Steps => request[r].requester = u,
           pc = "delegation" => asks \in Decisions, pc = "force" => asks = "break_glass"
    PROVE  IInv'
  <1> DEFINE call == [pc |-> pc, user |-> u, request |-> r, asks |-> asks, result |-> NULL]
  <1>1. call \in Call
    BY DEF Call, Steps, Answers
  <1>2. /\ UNCHANGED <<policy, request, votes, delegations, emitted, now, aborts>>
        /\ calls' = [calls EXCEPT ![c] = call]
        /\ request[r] # NULL
    BY DEF Begin
  <1>3. CallOK(call)
    BY <1>2 DEF CallOK, Steps
  <1> HIDE DEF call
  <1>4. /\ calls' \in [Calls -> Call \cup {NoCall}]
        /\ RequesterVotesOnce' /\ RowInv' /\ CallInv'
    BY <1>1, <1>2, <1>3, OneCallStep
  <1>5. TypeOK'
    BY <1>2, <1>4 DEF TypeOK, IInv
  <1> QED BY <1>4, <1>5 DEF IInv

\* Every event a continuation hands over has its type.
LEMMA EventType ==
    ASSUME IInv, NEW c \in Calls, calls[c].pc \in Steps
    PROVE  AuditEvents(calls[c]) \subseteq Event
  <1>1. CallOK(calls[c]) /\ calls[c].request \in RequestIds /\ calls[c].asks \in Asks
    BY OpenCall DEF IInv, CallInv
  <1>2. CASE calls[c].pc = "voted"
    BY <1>1, <1>2 DEF AuditEvents, CallOK, Steps, Event
  <1>3. CASE calls[c].pc = "resolved" /\ calls[c].asks # "break_glass"
    BY <1>1, <1>3 DEF AuditEvents, CallOK, Event
  <1>4. CASE /\ calls[c].pc # "voted"
             /\ ~(calls[c].pc = "resolved" /\ calls[c].asks # "break_glass")
    BY <1>4 DEF AuditEvents
  <1> QED BY <1>2, <1>3, <1>4

\* The steps of a call that only move its pc on and maybe hand over its event.
LEMMA MoveStep ==
    ASSUME IInv, NEW c \in Calls, calls[c].pc \in Steps,
           NEW pc \in Answers \cup {"active", "insert"}, Goto(c, pc),
           calls[c].asks \in Decisions \/ pc \in Answers,
           emitted' = emitted \/ emitted' = emitted \cup AuditEvents(calls[c]),
           aborts' \in Nat, UNCHANGED <<policy, request, votes, delegations, now>>
    PROVE  IInv'
  <1>1. calls[c] \in Call /\ CallOK(calls[c])
    BY OpenCall DEF IInv, CallInv
  <1>2. PICK call \in Call : call = [calls[c] EXCEPT !.pc = pc]
    BY <1>1 DEF Call, Steps, Answers
  <1>3. calls' = [calls EXCEPT ![c] = call]
    BY <1>2 DEF Goto
  <1>4. /\ call.pc = pc /\ call.user = calls[c].user /\ call.request = calls[c].request
        /\ call.asks = calls[c].asks /\ calls[c] # NoCall
    BY <1>1, <1>2, OpenCall DEF IInv, Call
  <1>5. CallOK(call)
    BY <1>1, <1>4 DEF CallOK, Answers, Steps
  <1>6. /\ calls' \in [Calls -> Call \cup {NoCall}]
        /\ RequesterVotesOnce' /\ RowInv' /\ CallInv'
    BY <1>3, <1>5, OneCallStep
  <1>7. emitted' \subseteq Event
    BY EventType DEF IInv, TypeOK
  <1>8. TypeOK'
    BY <1>6, <1>7 DEF TypeOK, IInv
  <1> QED BY <1>6, <1>8 DEF IInv

\* Tally: what the call will write is the verdict on the votes it just read.
LEMMA TallyStep ==
    ASSUME IInv, NEW c \in Calls, Tally(c)
    PROVE  IInv'
  <1> DEFINE r       == calls[c].request
             verdict == VerdictOn(r)
  <1>1. calls[c].pc = "voted" /\ calls[c].pc \in Steps
    BY DEF Tally, Steps
  <1>2. /\ calls[c] \in Call /\ CallOK(calls[c]) /\ calls[c] # NoCall
    BY <1>1, OpenCall DEF IInv, CallInv
  <1>3. verdict \in Verdicts \cup {"throws"}
    BY EvaluateQuorumType DEF VerdictOn
  <1>4. /\ UNCHANGED <<policy, request, votes, delegations, now, aborts>>
        /\ emitted' = emitted \cup AuditEvents(calls[c])
        /\ calls' = [calls EXCEPT ![c] = AfterTally(calls[c], verdict)]
    BY DEF Tally
  <1>5. AfterTally(calls[c], verdict) \in Call /\ CallOK(AfterTally(calls[c], verdict))
    <2>1. CASE verdict = "throws"
      <3>1. AfterTally(calls[c], verdict) = [calls[c] EXCEPT !.pc = "failed"]
        BY <2>1 DEF AfterTally, Terminal
      <3> HIDE DEF verdict
      <3> QED BY <1>1, <1>2, <3>1 DEF Call, CallOK, Steps, Answers
    <2>2. CASE verdict \in Terminal
      <3>1. AfterTally(calls[c], verdict)
              = [calls[c] EXCEPT !.pc = "resolve", !.result = verdict]
        BY <2>2 DEF AfterTally, Terminal
      <3>2. verdict \in Verdicts
        BY <2>2 DEF Terminal, Verdicts
      <3>3. /\ AfterTally(calls[c], verdict) \in Call
            /\ AfterTally(calls[c], verdict).pc = "resolve"
            /\ AfterTally(calls[c], verdict).result = verdict
            /\ \A f \in {"user", "request", "asks"} :
                  AfterTally(calls[c], verdict)[f] = calls[c][f]
        <4> HIDE DEF verdict
        <4> QED BY <1>2, <3>1, <3>2 DEF Call, Steps
      <3> QED BY <1>1, <1>2, <2>2, <3>3 DEF CallOK, Steps
    <2>3. CASE verdict = "pending"
      <3>1. AfterTally(calls[c], verdict) = [calls[c] EXCEPT !.pc = "ok", !.result = verdict]
        BY <2>3 DEF AfterTally, Terminal
      <3> HIDE DEF verdict
      <3> QED BY <1>1, <1>2, <1>3, <2>3, <3>1 DEF Call, CallOK, Steps, Answers, Verdicts
    <2> QED BY <1>3, <2>1, <2>2, <2>3 DEF Verdicts, Terminal
  <1>6. PICK call \in Call : call = AfterTally(calls[c], verdict)
    BY <1>5
  <1>7. CallOK(call)
    BY <1>5, <1>6
  <1>8. /\ calls' \in [Calls -> Call \cup {NoCall}]
        /\ RequesterVotesOnce' /\ RowInv' /\ CallInv'
    BY <1>4, <1>6, <1>7, OneCallStep
  <1>9. emitted' \subseteq Event
    BY <1>1, <1>4, EventType DEF IInv, TypeOK
  <1>10. TypeOK'
    BY <1>4, <1>8, <1>9 DEF TypeOK, IInv
  <1> QED BY <1>8, <1>10 DEF IInv

-----------------------------------------------------------------------------
\* An INSERT that no unique violation stops is the first vote on its request:
\* the only other voter would be the same requester.
LEMMA InsertVoteStep ==
    ASSUME IInv, NEW c \in Calls, InsertVote(c)
    PROVE  IInv'
  <1>1. calls[c].pc = "insert" /\ calls[c].pc \in Steps
    BY DEF InsertVote, Steps
  <1>0. PICK r0 \in RequestIds : r0 = calls[c].request
    BY <1>1, OpenCall DEF IInv
  <1> DEFINE vote == [request |-> r0, approver |-> calls[c].user, decision |-> calls[c].asks]
  <1>2. /\ calls[c] \in Call /\ calls[c] # NoCall /\ r0 = calls[c].request
        /\ request[r0] # NULL /\ calls[c].user = request[r0].requester
        /\ calls[c].user \in Users /\ calls[c].asks \in Decisions
    BY <1>0, <1>1, OpenCall DEF IInv, CallInv, CallOK, Steps
  <1>3. CASE UniqueViolation(calls[c])
    <2>1. /\ Goto(c, "conflict")
          /\ UNCHANGED <<policy, request, votes, delegations, emitted, now, aborts>>
      BY <1>3 DEF InsertVote
    <2>2. aborts' \in Nat
      BY <2>1 DEF IInv, TypeOK
    <2> QED BY <1>1, <1>2, <2>1, <2>2, MoveStep DEF Answers
  <1>4. CASE ~UniqueViolation(calls[c])
    <2>1. /\ votes' = votes \cup {vote} /\ Goto(c, "voted")
          /\ UNCHANGED <<policy, request, delegations, emitted, now, aborts>>
      BY <1>2, <1>4 DEF InsertVote
    <2>2. vote \in Vote /\ vote.request = r0
      BY <1>2 DEF Vote
    <2>3. VotesOn(r0) = {}
      BY <1>2, <1>4 DEF UniqueViolation, VotesOn, IInv, RequesterVotesOnce
    <2>4. VotesOn(r0)' # {}
      BY <2>1, <2>2 DEF VotesOn
    <2>5. ASSUME NEW r \in RequestIds, r # r0
          PROVE  VotesOn(r)' = VotesOn(r) /\ VerdictOn(r)' = VerdictOn(r)
      <3>1. VotesOn(r)' = VotesOn(r)
        BY <2>1, <2>2, <2>5 DEF VotesOn
      <3> QED BY <2>1, <3>1 DEF VerdictOn, CountOn, TermsOf
    <2>6. RequesterVotesOnce'
      <3>1. \A v \in votes : v.request # r0
        BY <2>3 DEF VotesOn
      <3>2. vote.approver = request[r0].requester
        BY <1>2
      <3> HIDE DEF vote
      <3>3. ASSUME NEW v \in votes', NEW w \in votes', w.request = v.request PROVE w = v
        BY <2>1, <2>2, <3>1, <3>3 DEF IInv, RequesterVotesOnce
      <3>4. ASSUME NEW v \in votes'
            PROVE  request'[v.request] # NULL /\ v.approver = request'[v.request].requester
        <4>1. request[r0] # NULL
          BY <1>2
        <4> QED BY <2>1, <2>2, <3>2, <4>1 DEF IInv, RequesterVotesOnce
      <3> QED BY <3>3, <3>4 DEF RequesterVotesOnce
    <2>7. RowInv'
      <3> SUFFICES ASSUME NEW r \in RequestIds, request[r] # NULL
                   PROVE  /\ policy[request[r].policy] # NULL
                          /\ request[r].status = "pending" <=> request[r].resolvedAt = NULL
                          /\ request[r].status # "pending" /\ ~request[r].breakGlass
                                => VotesOn(r)' # {} /\ request[r].status = VerdictOn(r)'
        BY <2>1 DEF RowInv
      <3>1. CASE r = r0
        BY <2>3, <3>1 DEF IInv, RowInv
      <3>2. CASE r # r0
        BY <2>5, <3>2 DEF IInv, RowInv
      <3> QED BY <3>1, <3>2
    <2>8. ASSUME NEW k \in Calls PROVE CallOK(calls[k])'
      <3>1. CASE k = c
        <4>1. calls'[c] = [calls[c] EXCEPT !.pc = "voted"]
          BY <2>1 DEF Goto, IInv, TypeOK
        <4>2. /\ calls'[c].pc = "voted" /\ calls'[c].request = r0
              /\ calls'[c].user = calls[c].user /\ calls'[c].asks = calls[c].asks
          BY <1>2, <4>1 DEF Call
        <4> QED BY <1>2, <2>1, <2>4, <3>1, <4>2 DEF CallOK, Steps
      <3>2. CASE k # c
        <4>1. calls'[k] = calls[k] /\ CallOK(calls[k])
          BY <2>1, <3>2 DEF Goto, IInv, TypeOK, CallInv
        <4>2. CASE calls[k].request = r0
          BY <2>1, <2>3, <2>4, <4>1, <4>2 DEF CallOK
        <4>3. CASE calls[k].request # r0
          <5>1. calls[k].pc \in {"voted", "resolve"} => calls[k].request \in RequestIds
            BY OpenCall DEF IInv, Steps
          <5> QED BY <2>1, <2>5, <4>1, <4>3, <5>1 DEF CallOK
        <4> QED BY <4>2, <4>3
      <3> QED BY <3>1, <3>2
    <2>9. calls' \in [Calls -> Call \cup {NoCall}]
      <3>1. [calls[c] EXCEPT !.pc = "voted"] \in Call
        BY <1>2 DEF Call, Steps
      <3> QED BY <2>1, <3>1 DEF Goto, IInv, TypeOK
    <2>10. TypeOK'
      BY <2>1, <2>2, <2>9 DEF TypeOK, IInv
    <2> QED BY <2>6, <2>7, <2>8, <2>10 DEF IInv, CallInv
  <1> QED BY <1>3, <1>4

\* A step on the requests table that creates no row and rewrites no row's policy
\* or requester keeps every verdict.
LEMMA RowStep ==
    ASSUME IInv, UNCHANGED <<policy, votes>>,
           \A r \in RequestIds : /\ request'[r] = NULL <=> request[r] = NULL
                                 /\ request[r] # NULL =>
                                      /\ request'[r].policy = request[r].policy
                                      /\ request'[r].requester = request[r].requester
    PROVE  /\ RequesterVotesOnce'
           /\ \A r \in RequestIds : request[r] # NULL =>
                /\ VotesOn(r)' = VotesOn(r) /\ VerdictOn(r)' = VerdictOn(r)
           /\ \A call \in Call : CallOK(call) => CallOK(call)'
  <1>1. RequesterVotesOnce'
    BY DEF IInv, TypeOK, Vote, RequesterVotesOnce
  <1>2. ASSUME NEW r \in RequestIds, request[r] # NULL
        PROVE  VotesOn(r)' = VotesOn(r) /\ VerdictOn(r)' = VerdictOn(r)
    BY <1>2 DEF VotesOn, VerdictOn, CountOn, TermsOf
  <1>3. ASSUME NEW call \in Call, CallOK(call) PROVE CallOK(call)'
    <2>1. call # NoCall /\ call.request \in RequestIds
      BY DEF Call, NoCall, Steps, Answers
    <2> QED BY <1>2, <1>3, <2>1 DEF CallOK
  <1> QED BY <1>1, <1>2, <1>3

\* Both UPDATEs by id: the row they write satisfies RowInv, the vote's because the
\* call's verdict is still that of the stored votes, the break-glass's by its flag.
LEMMA UpdateStep ==
    ASSUME IInv, NEW c \in Calls, NEW r0 \in RequestIds, r0 = calls[c].request,
           calls[c].pc \in {"resolve", "force"}, Goto(c, "resolved"), NEW row \in Row,
           calls[c].asks # "break_glass" => calls[c].result \in Terminal,
           request' = [request EXCEPT ![r0] = row],
           row.policy = request[r0].policy, row.requester = request[r0].requester,
           row.status # "pending", row.resolvedAt # NULL,
           ~row.breakGlass => VotesOn(r0) # {} /\ row.status = VerdictOn(r0),
           UNCHANGED <<policy, votes, delegations, emitted, now, aborts>>
    PROVE  IInv'
  <1>1. /\ calls[c] \in Call /\ CallOK(calls[c]) /\ calls[c] # NoCall /\ calls[c].pc \in Steps
        /\ request[r0] # NULL
    BY OpenCall DEF IInv, CallInv, CallOK, Steps
  <1>2. request'[r0] = row /\ row # NULL
    BY RowAssumption DEF IInv, TypeOK
  <1>3. \A r \in RequestIds : r # r0 => request'[r] = request[r]
    BY DEF IInv, TypeOK
  <1>4. \A r \in RequestIds : /\ request'[r] = NULL <=> request[r] = NULL
                              /\ request[r] # NULL =>
                                   /\ request'[r].policy = request[r].policy
                                   /\ request'[r].requester = request[r].requester
    BY <1>1, <1>2, <1>3
  <1>5. /\ RequesterVotesOnce'
        /\ \A r \in RequestIds : request[r] # NULL =>
             /\ VotesOn(r)' = VotesOn(r) /\ VerdictOn(r)' = VerdictOn(r)
        /\ \A call \in Call : CallOK(call) => CallOK(call)'
    BY <1>4, RowStep
  <1>6. RowInv'
    <2> SUFFICES ASSUME NEW r \in RequestIds, request'[r] # NULL
                 PROVE  /\ policy[request'[r].policy] # NULL
                        /\ request'[r].status = "pending" <=> request'[r].resolvedAt = NULL
                        /\ request'[r].status # "pending" /\ ~request'[r].breakGlass
                              => VotesOn(r)' # {} /\ request'[r].status = VerdictOn(r)'
      BY DEF RowInv
    <2>1. CASE r = r0
      BY <1>1, <1>2, <1>5, <2>1 DEF IInv, RowInv
    <2>2. CASE r # r0
      BY <1>3, <1>5, <2>2 DEF IInv, RowInv
    <2> QED BY <2>1, <2>2
  <1>7. PICK call \in Call : call = [calls[c] EXCEPT !.pc = "resolved"]
    BY <1>1 DEF Call, Steps
  <1>8. calls' = [calls EXCEPT ![c] = call]
    BY <1>7 DEF Goto
  <1>9. CallOK(call)
    <2>1. /\ call.pc = "resolved" /\ call.user = calls[c].user /\ call.request = r0
          /\ call.asks = calls[c].asks /\ call.result = calls[c].result
      BY <1>1, <1>7 DEF Call
    <2> QED BY <1>1, <2>1 DEF CallOK, Steps
  <1>10. CallInv'
    <2> SUFFICES ASSUME NEW k \in Calls PROVE CallOK(calls[k])'
      BY DEF CallInv
    <2>1. CASE k = c
      <3>1. calls'[k] = call
        BY <1>8, <2>1 DEF IInv, TypeOK
      <3>2. CallOK(call)'
        BY <1>5, <1>9
      <3> QED BY <3>1, <3>2 DEF CallOK
    <2>2. CASE k # c
      <3>1. PICK x \in Call \cup {NoCall} : x = calls[k]
        BY DEF IInv, TypeOK
      <3>2. calls'[k] = x /\ CallOK(x)
        BY <1>8, <2>2, <3>1 DEF IInv, TypeOK, CallInv
      <3>3. CallOK(x)'
        <4>1. CASE x \in Call
          BY <1>5, <3>2, <4>1
        <4>2. CASE x = NoCall
          BY <4>2 DEF CallOK, NoCall, Steps
        <4> QED BY <4>1, <4>2
      <3> QED BY <3>2, <3>3 DEF CallOK
    <2> QED BY <2>1, <2>2
  <1>11. TypeOK'
    <2>1. calls' \in [Calls -> Call \cup {NoCall}]
      BY <1>8 DEF IInv, TypeOK
    <2>2. request' \in [RequestIds -> Row \cup {NULL}]
      BY DEF IInv, TypeOK
    <2> QED BY <2>1, <2>2 DEF IInv, TypeOK
  <1> QED BY <1>5, <1>6, <1>10, <1>11 DEF IInv

\* submitVote step 5: the status written is the verdict on the votes stored.
LEMMA ResolveStep ==
    ASSUME IInv, NEW c \in Calls, Resolve(c)
    PROVE  IInv'
  <1>1. calls[c].pc = "resolve" /\ calls[c].pc \in Steps
    BY DEF Resolve, Steps
  <1>2. PICK r0 \in RequestIds : r0 = calls[c].request
    BY <1>1, OpenCall DEF IInv
  <1>3. /\ CallOK(calls[c]) /\ request[r0] # NULL /\ request[r0] \in Row
        /\ calls[c].result \in Terminal /\ calls[c].result = VerdictOn(r0)
        /\ VotesOn(r0) # {}
    BY <1>1, <1>2, OpenCall DEF IInv, TypeOK, CallInv, CallOK
  <1>4. now \in Nat /\ now # NULL
    BY NullAssumption DEF IInv, TypeOK
  <1>5. PICK row \in Row : row = Resolved(request[r0], calls[c])
    BY <1>3, <1>4 DEF Resolved, Row, Status
  <1>6. /\ row.policy = request[r0].policy /\ row.requester = request[r0].requester
        /\ row.status = calls[c].result /\ row.resolvedAt = now
    BY <1>3, <1>5 DEF Resolved, Row
  <1>7. row.status # "pending"
    BY <1>3, <1>6 DEF Terminal
  <1>8. request' = [request EXCEPT ![r0] = row] /\ Goto(c, "resolved")
    BY <1>2, <1>5 DEF Resolve
  <1>9. UNCHANGED <<policy, votes, delegations, emitted, now, aborts>>
    BY DEF Resolve
  <1>10. row.status = VerdictOn(r0) /\ row.resolvedAt # NULL
    BY <1>3, <1>4, <1>6
  <1> HIDE DEF VerdictOn, VotesOn
  <1> QED BY <1>1, <1>2, <1>3, <1>6, <1>7, <1>8, <1>9, <1>10, UpdateStep

\* breakGlass: a forced row claims nothing about votes.
LEMMA ForceStep ==
    ASSUME IInv, NEW c \in Calls, ForceApprove(c)
    PROVE  IInv'
  <1>1. calls[c].pc = "force" /\ calls[c].pc \in Steps
    BY DEF ForceApprove, Steps
  <1>2. PICK r0 \in RequestIds : r0 = calls[c].request
    BY <1>1, OpenCall DEF IInv
  <1>3. /\ CallOK(calls[c]) /\ request[r0] # NULL /\ request[r0] \in Row
    BY <1>1, <1>2, OpenCall DEF IInv, TypeOK, CallInv, CallOK
  <1>4. now \in Nat /\ now # NULL
    BY NullAssumption DEF IInv, TypeOK
  <1>5. PICK row \in Row : row = Forced(request[r0])
    BY <1>3, <1>4 DEF Forced, Row, Status, Terminal
  <1>6. /\ row.policy = request[r0].policy /\ row.requester = request[r0].requester
        /\ row.status # "pending" /\ row.resolvedAt = now /\ row.breakGlass
    BY <1>3, <1>5 DEF Forced, Row
  <1>7. request' = [request EXCEPT ![r0] = row] /\ Goto(c, "resolved")
    BY <1>2, <1>5 DEF ForceApprove
  <1>8. calls[c].asks = "break_glass"
    BY <1>1, <1>3 DEF CallOK
  <1> QED BY <1>1, <1>2, <1>4, <1>6, <1>7, <1>8, UpdateStep DEF ForceApprove

\* The escalation job flips one flag of some rows.
LEMMA EscalationStep ==
    ASSUME IInv, RunEscalationCheck
    PROVE  IInv'
  <1>1. /\ UNCHANGED <<policy, votes, delegations, emitted, calls, now, aborts>>
        /\ request' \in [RequestIds -> Row \cup {NULL}]
    BY DEF RunEscalationCheck, Overdue, IInv, TypeOK, Row
  <1>2. ASSUME NEW r \in RequestIds
        PROVE  /\ request'[r] = NULL <=> request[r] = NULL
               /\ request[r] # NULL =>
                    \A f \in {"policy", "requester", "status", "resolvedAt", "breakGlass"} :
                        request'[r][f] = request[r][f]
    <2>1. CASE Overdue(r)
      <3>1. request[r] \in Row /\ request'[r] = [request[r] EXCEPT !.escalated = TRUE]
        BY <2>1 DEF RunEscalationCheck, Overdue, IInv, TypeOK
      <3>2. request'[r] \in Row
        BY <3>1 DEF Row
      <3> QED BY <3>1, <3>2, RowAssumption DEF Row
    <2>2. CASE ~Overdue(r)
      BY <2>2 DEF RunEscalationCheck
    <2> QED BY <2>1, <2>2
  <1>3. /\ RequesterVotesOnce'
        /\ \A r \in RequestIds : request[r] # NULL =>
             /\ VotesOn(r)' = VotesOn(r) /\ VerdictOn(r)' = VerdictOn(r)
        /\ \A call \in Call : CallOK(call) => CallOK(call)'
    BY <1>1, <1>2, RowStep
  <1>4. RowInv'
    BY <1>1, <1>2, <1>3 DEF IInv, RowInv
  <1>5. CallInv'
    <2> SUFFICES ASSUME NEW k \in Calls PROVE CallOK(calls[k])'
      BY DEF CallInv
    <2>1. PICK x \in Call \cup {NoCall} : x = calls[k]
      BY DEF IInv, TypeOK
    <2>2. calls'[k] = x /\ CallOK(x)
      BY <1>1, <2>1 DEF IInv, CallInv
    <2>3. CallOK(x)'
      BY <1>3, <2>2 DEF CallOK, NoCall, Steps
    <2> QED BY <2>2, <2>3 DEF CallOK
  <1>6. TypeOK'
    BY <1>1 DEF IInv, TypeOK
  <1> QED BY <1>3, <1>4, <1>5, <1>6 DEF IInv

\* A new policy governs no request yet.
LEMMA CreatePolicyStep ==
    ASSUME IInv, NEW p \in PolicyIds, CreatePolicy(p)
    PROVE  IInv'
  <1>1. /\ policy[p] = NULL /\ policy' \in [PolicyIds -> PolicyTerms \cup {NULL}]
        /\ \A q \in PolicyIds : policy[q] # NULL => policy'[q] = policy[q]
        /\ UNCHANGED <<request, votes, delegations, emitted, calls, now, aborts>>
    BY DEF CreatePolicy, IInv, TypeOK
  <1>2. ASSUME NEW r \in RequestIds, request[r] # NULL
        PROVE  /\ policy'[request[r].policy] # NULL
               /\ VotesOn(r)' = VotesOn(r) /\ VerdictOn(r)' = VerdictOn(r)
    <2>1. /\ request[r].policy \in PolicyIds /\ policy[request[r].policy] # NULL
      BY <1>2 DEF IInv, TypeOK, RowInv, Row
    <2>2. TermsOf(r)' = TermsOf(r) /\ VotesOn(r)' = VotesOn(r)
      BY <1>1, <2>1 DEF TermsOf, VotesOn
    <2>3. VerdictOn(r)' = VerdictOn(r)
      BY <2>2 DEF VerdictOn, CountOn
    <2> QED BY <1>1, <2>1, <2>2, <2>3
  <1>3. RequesterVotesOnce' /\ TypeOK'
    BY <1>1 DEF IInv, TypeOK, RequesterVotesOnce
  <1>4. RowInv'
    BY <1>1, <1>2 DEF IInv, RowInv
  <1>5. CallInv'
    <2> SUFFICES ASSUME NEW k \in Calls PROVE CallOK(calls[k])'
      BY DEF CallInv
    <2>1. CallOK(calls[k]) /\ calls'[k] = calls[k]
      BY <1>1 DEF IInv, CallInv
    <2>2. calls[k].pc \in Steps => calls[k].request \in RequestIds /\ calls[k] # NoCall
      BY OpenCall DEF IInv
    <2>3. {"voted", "resolve"} \subseteq Steps
      BY DEF Steps
    <2> HIDE DEF VotesOn, VerdictOn
    <2> QED BY <1>1, <1>2, <2>1, <2>2, <2>3 DEF CallOK
  <1> QED BY <1>3, <1>4, <1>5 DEF IInv

\* A new request has no votes and no call on it.
LEMMA CreateRequestStep ==
    ASSUME IInv, NEW u \in Users, NEW p \in PolicyIds, NEW r0 \in RequestIds,
           CreateRequest(u, p, r0)
    PROVE  IInv'
  <1>1. PICK row \in Row :
            row = [policy |-> p, requester |-> u, status |-> "pending", createdAt |-> now,
                   resolvedAt |-> NULL, escalated |-> FALSE, breakGlass |-> FALSE,
                   needsReview |-> FALSE]
    BY DEF Row, Status, IInv, TypeOK
  <1>2. /\ policy[p] # NULL /\ request[r0] = NULL
        /\ request' = [request EXCEPT ![r0] = row]
        /\ UNCHANGED <<policy, votes, delegations, emitted, calls, now, aborts>>
    BY <1>1 DEF CreateRequest
  <1>3. /\ request'[r0] = row /\ row # NULL
        /\ \A r \in RequestIds : request[r] # NULL => request'[r] = request[r] /\ r # r0
    BY <1>2, RowAssumption DEF IInv, TypeOK
  <1>4. ASSUME NEW r \in RequestIds, request[r] # NULL
        PROVE  VotesOn(r)' = VotesOn(r) /\ VerdictOn(r)' = VerdictOn(r)
    BY <1>2, <1>3, <1>4 DEF VotesOn, VerdictOn, CountOn, TermsOf
  <1>5. TypeOK'
    BY <1>2 DEF IInv, TypeOK
  <1>6. RequesterVotesOnce'
    BY <1>2, <1>3 DEF IInv, TypeOK, Vote, RequesterVotesOnce
  <1>7. RowInv'
    <2> SUFFICES ASSUME NEW r \in RequestIds, request'[r] # NULL
                 PROVE  /\ policy[request'[r].policy] # NULL
                        /\ request'[r].status = "pending" <=> request'[r].resolvedAt = NULL
                        /\ request'[r].status # "pending" /\ ~request'[r].breakGlass
                              => VotesOn(r)' # {} /\ request'[r].status = VerdictOn(r)'
      BY <1>2 DEF RowInv
    <2>1. CASE r = r0
      BY <1>1, <1>2, <1>3, <2>1
    <2>2. CASE r # r0
      <3>1. request'[r] = request[r] /\ request[r] # NULL
        BY <1>2, <2>2 DEF IInv, TypeOK
      <3> QED BY <1>4, <3>1 DEF IInv, RowInv
    <2> QED BY <2>1, <2>2
  <1>8. CallInv'
    <2> SUFFICES ASSUME NEW k \in Calls PROVE CallOK(calls[k])'
      BY DEF CallInv
    <2>1. CallOK(calls[k]) /\ calls'[k] = calls[k] /\ calls[k] \in Call \cup {NoCall}
      BY <1>2 DEF IInv, TypeOK, CallInv
    <2>2. CASE calls[k] = NoCall
      BY <1>2, <2>2 DEF CallOK, NoCall, Steps
    <2>3. CASE calls[k] \in Call /\ calls[k] # NoCall
      <3>1. calls[k].request \in RequestIds /\ request[calls[k].request] # NULL
        BY <2>1, <2>3 DEF Call, CallOK
      <3>2. request'[calls[k].request] = request[calls[k].request]
        BY <1>3, <3>1
      <3> HIDE DEF VotesOn, VerdictOn
      <3> QED BY <1>4, <2>1, <3>1, <3>2 DEF CallOK
    <2> QED BY <2>1, <2>2, <2>3
  <1> QED BY <1>5, <1>6, <1>7, <1>8 DEF IInv

-----------------------------------------------------------------------------
\* The steps of an open call.
LEMMA ProceedStep ==
    ASSUME IInv, NEW c \in Calls, Proceed(c)
    PROVE  IInv'
  <1>1. CASE CheckDelegation(c)
    <2>1. PICK pc \in {"active", "insert"} : Goto(c, pc)
      BY <1>1 DEF CheckDelegation
    <2>2. /\ calls[c].pc = "delegation" /\ calls[c].pc \in Steps
          /\ UNCHANGED <<policy, request, votes, delegations, emitted, now, aborts>>
      BY <1>1 DEF CheckDelegation, Steps
    <2>3. calls[c].asks \in Decisions /\ aborts' \in Nat
      BY <2>2 DEF IInv, TypeOK, CallInv, CallOK
    <2> QED BY <2>1, <2>2, <2>3, MoveStep
  <1>2. CASE CheckActive(c)
    <2>1. PICK pc \in {"insert", "failed"} : Goto(c, pc)
      BY <1>2 DEF CheckActive
    <2>2. /\ calls[c].pc = "active" /\ calls[c].pc \in Steps
          /\ UNCHANGED <<policy, request, votes, delegations, emitted, now, aborts>>
      BY <1>2 DEF CheckActive, Steps
    <2>3. calls[c].asks \in Decisions /\ aborts' \in Nat
      BY <2>2 DEF IInv, TypeOK, CallInv, CallOK
    <2> QED BY <2>1, <2>2, <2>3, MoveStep DEF Answers
  <1>3. CASE Finish(c)
    <2>1. /\ calls[c].pc \in Steps /\ Goto(c, "ok")
          /\ emitted' = emitted \cup AuditEvents(calls[c])
          /\ UNCHANGED <<policy, request, votes, delegations, now, aborts>>
      BY <1>3 DEF Finish, Steps
    <2>2. aborts' \in Nat
      BY <2>1 DEF IInv, TypeOK
    <2> QED BY <2>1, <2>2, MoveStep DEF Answers
  <1> QED BY <1>1, <1>2, <1>3, InsertVoteStep, TallyStep, ResolveStep, ForceStep DEF Proceed

\* A call that fails keeps what it committed and claims nothing more.
LEMMA AbortStep ==
    ASSUME IInv, NEW c \in Calls, Abort(c)
    PROVE  IInv'
  <1>1. calls[c].pc \in Steps
    BY DEF Abort, Ended, IInv, TypeOK, Call, NoCall
  <1>2. /\ Goto(c, "failed")
        /\ emitted' = emitted \/ emitted' = emitted \cup AuditEvents(calls[c])
        /\ UNCHANGED <<policy, request, votes, delegations, now>>
    BY DEF Abort
  <1>3. aborts' \in Nat
    BY DEF Abort, IInv, TypeOK
  <1> QED BY <1>1, <1>2, <1>3, MoveStep DEF Answers

\* Neither the clock nor a delegation touches requests, votes or calls.
LEMMA QuietTables ==
    ASSUME IInv, UNCHANGED <<policy, request, votes, emitted, calls, aborts>>,
           now' \in Nat,
           delegations' \subseteq [delegator : Users, delegate : Users, expires : Nat]
    PROVE  IInv'
  <1>1. RequesterVotesOnce' /\ RowInv'
    BY QuietStep
  <1>2. CallInv'
    <2> SUFFICES ASSUME NEW k \in Calls PROVE CallOK(calls[k])'
      BY DEF CallInv
    <2>1. PICK x \in Call \cup {NoCall} : x = calls[k]
      BY DEF IInv, TypeOK
    <2>2. calls'[k] = x /\ CallOK(x)
      BY <2>1 DEF IInv, CallInv
    <2> QED BY <2>2, CallKept DEF CallOK
  <1>3. TypeOK'
    BY DEF IInv, TypeOK
  <1> QED BY <1>1, <1>2, <1>3 DEF IInv

\* Every step of the engine keeps the invariant.
LEMMA NextInv == IInv /\ [Next]_vars => IInv'
  <1> SUFFICES ASSUME IInv, [Next]_vars PROVE IInv'
    OBVIOUS
  <1>1. ASSUME NEW p \in PolicyIds, CreatePolicy(p) PROVE IInv'
    BY <1>1, CreatePolicyStep
  <1>2. ASSUME NEW u \in Users, NEW p \in PolicyIds, NEW r \in RequestIds,
               CreateRequest(u, p, r)
        PROVE  IInv'
    BY <1>2, CreateRequestStep
  <1>3. ASSUME NEW u \in Users, NEW w \in Users, NEW t \in 1..(MaxTime + 1),
               CreateDelegation(u, w, t)
        PROVE  IInv'
    <2>1. t \in Nat
      BY ApprovalAssumption
    <2>2. /\ UNCHANGED <<policy, request, votes, emitted, calls, aborts>> /\ now' \in Nat
          /\ delegations' \subseteq [delegator : Users, delegate : Users, expires : Nat]
      BY <1>3, <2>1 DEF CreateDelegation, IInv, TypeOK
    <2> QED BY <2>2, QuietTables
  <1>4. ASSUME NEW c \in Calls, NEW u \in Users, NEW r \in RequestIds, NEW d \in Decisions,
               SubmitVote(c, u, r, d)
        PROVE  IInv'
    <2>1. PICK pc \in {"not_found", "conflict", "delegation"} :
              /\ Begin(c, u, r, d, pc)
              /\ pc = "delegation" => request[r].requester = u
      BY <1>4 DEF SubmitVote
    <2>2. d \in Asks
      BY DEF Asks
    <2> QED BY <2>1, <2>2, BeginStep DEF Steps
  <1>5. ASSUME NEW c \in Calls, NEW u \in Users, NEW r \in RequestIds, BreakGlass(c, u, r)
        PROVE  IInv'
    <2>1. PICK pc \in {"not_found", "conflict", "force"} :
              /\ Begin(c, u, r, "break_glass", pc)
              /\ pc = "force" => request[r].requester = u
      BY <1>5 DEF BreakGlass
    <2>2. "break_glass" \in Asks
      BY DEF Asks
    <2> QED BY <2>1, <2>2, BeginStep DEF Steps
  <1>6. ASSUME NEW c \in Calls, Proceed(c) PROVE IInv'
    BY <1>6, ProceedStep
  <1>7. ASSUME NEW c \in Calls, Abort(c) PROVE IInv'
    BY <1>7, AbortStep
  <1>8. CASE RunEscalationCheck
    BY <1>8, EscalationStep
  <1>9. CASE Tick
    BY <1>9, QuietTables DEF Tick, IInv, TypeOK
  <1>10. CASE UNCHANGED vars
    BY <1>10, QuietTables DEF vars, IInv, TypeOK
  <1> QED BY <1>1, <1>2, <1>3, <1>4, <1>5, <1>6, <1>7, <1>8, <1>9, <1>10 DEF Next

\* The invariant holds throughout.
LEMMA InvHolds == Spec => []IInv
  BY InitInv, NextInv, PTL DEF Spec

\* Every variable keeps its type.
THEOREM TypeCorrect == Spec => []TypeOK
  <1>1. IInv => TypeOK
    BY DEF IInv
  <1> QED BY <1>1, InvHolds, PTL

\* submitVote: the UNIQUE constraint and the requester filter leave a request with
\* at most one vote, its requester's, whatever calls are open on it.
THEOREM OneVote == Spec => []RequesterVotesOnce
  <1>1. IInv => RequesterVotesOnce
    BY DEF IInv
  <1> QED BY <1>1, InvHolds, PTL

\* submitVote: a request no break-glass touched has the status its policy gives to
\* the votes stored, although the verdict was computed some statements earlier.
THEOREM VerdictsJustified == Spec => []VerdictJustified
  <1>1. IInv => VerdictJustified
    BY DEF IInv, RowInv, VerdictJustified
  <1> QED BY <1>1, InvHolds, PTL

-----------------------------------------------------------------------------
(***************************************************************************)
(* The engine implements Decision.  A vote's UPDATE does not look at the   *)
(* status it overwrites; that it never overwrites another vote's decision  *)
(* holds because only one call per request gets past the INSERT.           *)
(***************************************************************************)

Resolving(call) == call.pc \in {"voted", "resolve"}

\* While a call is between its INSERT and its UPDATE no other call is on the same
\* request, and that request is pending or was forced meanwhile.
SoleResolver ==
    \A c \in Calls : Resolving(calls[c]) =>
        /\ \/ request[calls[c].request].status = "pending"
           \/ request[calls[c].request].breakGlass
        /\ \A k \in Calls : Resolving(calls[k]) /\ calls[k].request = calls[c].request
              => k = c

\* A resolving call is open, on an existing request that has a vote.
LEMMA ResolvingCall ==
    ASSUME IInv, NEW c \in Calls, Resolving(calls[c])
    PROVE  /\ calls[c].request \in RequestIds /\ request[calls[c].request] # NULL
           /\ request[calls[c].request] \in Row
           /\ calls[c].pc \in Steps /\ VotesOn(calls[c].request) # {}
  <1>1. calls[c].pc \in Steps
    BY DEF Resolving, Steps
  <1> QED BY <1>1, OpenCall DEF IInv, TypeOK, CallInv, CallOK, Resolving

\* No step but InsertVote makes a call resolving.
LEMMA NoNewResolver ==
    ASSUME IInv, SoleResolver,
           \A k \in Calls : Resolving(calls'[k]) =>
              Resolving(calls[k]) /\ calls'[k].request = calls[k].request,
           \A r \in RequestIds : request[r] # NULL =>
              \/ request'[r].breakGlass
              \/ /\ request'[r].status = request[r].status
                 /\ request'[r].breakGlass = request[r].breakGlass
              \/ \A k \in Calls : Resolving(calls'[k]) => calls[k].request # r
    PROVE  SoleResolver'
  <1> SUFFICES ASSUME NEW c \in Calls, Resolving(calls'[c])
               PROVE  /\ \/ request'[calls'[c].request].status = "pending"
                         \/ request'[calls'[c].request].breakGlass
                      /\ \A k \in Calls :
                            Resolving(calls'[k]) /\ calls'[k].request = calls'[c].request
                              => k = c
    BY DEF SoleResolver, Resolving
  <1>1. Resolving(calls[c]) /\ calls'[c].request = calls[c].request
    OBVIOUS
  <1>2. calls[c].request \in RequestIds /\ request[calls[c].request] # NULL
    BY <1>1, ResolvingCall
  <1> HIDE DEF Resolving
  <1> QED BY <1>1, <1>2 DEF SoleResolver

\* Nobody resolves anything at first.
LEMMA InitSole == Init => SoleResolver
  BY DEF Init, SoleResolver, Resolving, NoCall

\* The INSERT of a vote makes its call the only one that will resolve the request.
LEMMA InsertSole ==
    ASSUME IInv, SoleResolver, NEW c \in Calls, InsertVote(c)
    PROVE  SoleResolver'
  <1>1. calls[c].pc = "insert" /\ calls[c].pc \in Steps
    BY DEF InsertVote, Steps
  <1>2. /\ calls[c] \in Call /\ calls[c].request \in RequestIds
        /\ request[calls[c].request] # NULL /\ request[calls[c].request] \in Row
        /\ calls[c].user = request[calls[c].request].requester
    BY <1>1, OpenCall DEF IInv, TypeOK, CallInv, CallOK
  <1>3. request' = request
    BY DEF InsertVote
  <1>4. CASE UniqueViolation(calls[c])
    <2>1. calls' = [calls EXCEPT ![c].pc = "conflict"]
      BY <1>4 DEF InsertVote, Goto
    <2>2. \A k \in Calls : Resolving(calls'[k]) =>
              Resolving(calls[k]) /\ calls'[k].request = calls[k].request
      BY <1>2, <2>1 DEF Resolving, IInv, TypeOK, Call
    <2> QED BY <1>3, <2>2, NoNewResolver
  <1>5. CASE ~UniqueViolation(calls[c])
    <2>1. calls' = [calls EXCEPT ![c].pc = "voted"]
      BY <1>5 DEF InsertVote, Goto
    <2>2. VotesOn(calls[c].request) = {}
      BY <1>2, <1>5 DEF UniqueViolation, VotesOn, IInv, RequesterVotesOnce
    <2>3. \/ request[calls[c].request].status = "pending"
          \/ request[calls[c].request].breakGlass
      BY <1>2, <2>2 DEF IInv, RowInv, Row
    <2>4. /\ calls'[c].request = calls[c].request
          /\ \A k \in Calls : k # c => calls'[k] = calls[k]
      BY <1>2, <2>1 DEF IInv, TypeOK, Call
    <2>5. \A k \in Calls : Resolving(calls[k]) => calls[k].request # calls[c].request
      BY <2>2, ResolvingCall
    <2> HIDE DEF Resolving
    <2> QED BY <1>3, <2>3, <2>4, <2>5 DEF SoleResolver
  <1> QED BY <1>4, <1>5

\* Steps that leave the requests alone and do not put their call past the INSERT.
LEMMA CallSole ==
    ASSUME IInv, SoleResolver, NEW c \in Calls, UNCHANGED request, NEW call,
           calls' = [calls EXCEPT ![c] = call],
           Resolving(call) => Resolving(calls[c]) /\ call.request = calls[c].request
    PROVE  SoleResolver'
  <1>1. \A k \in Calls : Resolving(calls'[k]) =>
            Resolving(calls[k]) /\ calls'[k].request = calls[k].request
    BY DEF IInv, TypeOK
  <1> QED BY <1>1, NoNewResolver

\* Moving a call on to a statement before its INSERT, or to its answer.
LEMMA MoveSole ==
    ASSUME IInv, SoleResolver, NEW c \in Calls, UNCHANGED request,
           NEW pc \in Answers \cup {"active", "insert"}, Goto(c, pc), calls[c].pc \in Steps
    PROVE  SoleResolver'
  <1>1. calls[c] \in Call
    BY OpenCall DEF IInv
  <1>2. PICK call : call = [calls[c] EXCEPT !.pc = pc]
    OBVIOUS
  <1>3. call.pc = pc
    BY <1>1, <1>2 DEF Call
  <1>4. ~Resolving(call)
    BY <1>3 DEF Resolving, Answers
  <1>5. calls' = [calls EXCEPT ![c] = call]
    BY <1>2 DEF Goto
  <1> QED BY <1>4, <1>5, CallSole

\* A call that begins has not voted yet.
LEMMA BeginSole ==
    ASSUME IInv, SoleResolver, NEW c \in Calls, NEW u, NEW r, NEW asks,
           NEW pc \in {"not_found", "conflict", "delegation", "force"}, Begin(c, u, r, asks, pc)
    PROVE  SoleResolver'
  <1>1. PICK call : call = [pc |-> pc, user |-> u, request |-> r, asks |-> asks,
                            result |-> NULL]
    OBVIOUS
  <1>2. ~Resolving(call)
    BY <1>1 DEF Resolving
  <1>3. calls' = [calls EXCEPT ![c] = call] /\ UNCHANGED request
    BY <1>1 DEF Begin
  <1> QED BY <1>2, <1>3, CallSole

\* A tally leaves its call the resolving one, or ends it.
LEMMA TallySole ==
    ASSUME IInv, SoleResolver, NEW c \in Calls, Tally(c)
    PROVE  SoleResolver'
  <1>1. calls[c].pc = "voted" /\ calls[c].pc \in Steps
    BY DEF Tally, Steps
  <1>2. calls[c] \in Call
    BY <1>1, OpenCall DEF IInv
  <1>3. PICK call : call = AfterTally(calls[c], VerdictOn(calls[c].request))
    OBVIOUS
  <1>4. PICK verdict : verdict = VerdictOn(calls[c].request)
    OBVIOUS
  <1>5. call.request = calls[c].request
    <2>1. \/ call = [calls[c] EXCEPT !.pc = "failed"]
          \/ call = [calls[c] EXCEPT !.pc = "resolve", !.result = verdict]
          \/ call = [calls[c] EXCEPT !.pc = "ok", !.result = verdict]
      BY <1>3, <1>4 DEF AfterTally
    <2> QED BY <1>2, <2>1 DEF Call
  <1>6. Resolving(calls[c])
    BY <1>1 DEF Resolving
  <1>7. calls' = [calls EXCEPT ![c] = call] /\ UNCHANGED request
    BY <1>3 DEF Tally
  <1> QED BY <1>5, <1>6, <1>7, CallSole

\* Both UPDATEs: the resolving call of the request, if it is not the one that
\* leaves, finds the request forced.
LEMMA UpdateSole ==
    ASSUME IInv, SoleResolver, NEW c \in Calls, Resolve(c) \/ ForceApprove(c)
    PROVE  SoleResolver'
  <1>1. calls[c].pc \in {"resolve", "force"} /\ calls[c].pc \in Steps
    BY DEF Resolve, ForceApprove, Steps
  <1>2. PICK r0 \in RequestIds : r0 = calls[c].request
    BY <1>1, OpenCall DEF IInv
  <1>3. /\ calls[c] \in Call /\ request[r0] # NULL /\ request[r0] \in Row
        /\ calls' = [calls EXCEPT ![c].pc = "resolved"]
    BY <1>1, <1>2, OpenCall DEF IInv, TypeOK, CallInv, CallOK, Resolve, ForceApprove, Goto
  <1>4. /\ ~Resolving(calls'[c])
        /\ \A k \in Calls : k # c => calls'[k] = calls[k]
    BY <1>3 DEF IInv, TypeOK, Resolving, Call
  <1>5. \A r \in RequestIds : r # r0 => request'[r] = request[r]
    BY <1>2 DEF Resolve, ForceApprove, IInv, TypeOK
  <1>6. CASE Resolve(c)
    <2>1. Resolving(calls[c])
      BY <1>6 DEF Resolve, Resolving
    <2>2. \A k \in Calls : Resolving(calls'[k]) => calls[k].request # r0
      BY <1>2, <1>4, <2>1 DEF SoleResolver
    <2> HIDE DEF Resolving
    <2> QED BY <1>4, <1>5, <2>2, NoNewResolver
  <1>7. CASE ForceApprove(c)
    <2>1. request'[r0].breakGlass
      BY <1>2, <1>3, <1>7 DEF ForceApprove, Forced, IInv, TypeOK, Row
    <2> HIDE DEF Resolving
    <2> QED BY <1>4, <1>5, <2>1, NoNewResolver
  <1> QED BY <1>6, <1>7

\* Every step keeps the resolving call of a request the only one.
LEMMA NextSole == IInv /\ SoleResolver /\ [Next]_vars => SoleResolver'
  <1> SUFFICES ASSUME IInv, SoleResolver, [Next]_vars PROVE SoleResolver'
    OBVIOUS
  <1>1. CASE \/ \E p \in PolicyIds : CreatePolicy(p)
             \/ \E u, w \in Users, t \in 1..(MaxTime + 1) : CreateDelegation(u, w, t)
             \/ Tick \/ UNCHANGED vars
    <2>1. UNCHANGED <<request, calls>>
      BY <1>1 DEF CreatePolicy, CreateDelegation, Tick, vars
    <2> QED BY <2>1, NoNewResolver
  <1>2. ASSUME NEW u \in Users, NEW p \in PolicyIds, NEW r \in RequestIds,
               CreateRequest(u, p, r)
        PROVE  SoleResolver'
    <2>1. /\ UNCHANGED calls
          /\ \A q \in RequestIds : request[q] # NULL => request'[q] = request[q]
      BY <1>2 DEF CreateRequest, IInv, TypeOK
    <2> QED BY <2>1, NoNewResolver
  <1>3. ASSUME NEW c \in Calls, NEW u \in Users, NEW r \in RequestIds, NEW d \in Decisions,
               SubmitVote(c, u, r, d)
        PROVE  SoleResolver'
    <2>1. PICK pc \in {"not_found", "conflict", "delegation"} : Begin(c, u, r, d, pc)
      BY <1>3 DEF SubmitVote
    <2> QED BY <2>1, BeginSole
  <1>4. ASSUME NEW c \in Calls, NEW u \in Users, NEW r \in RequestIds, BreakGlass(c, u, r)
        PROVE  SoleResolver'
    <2>1. PICK pc \in {"not_found", "conflict", "force"} : Begin(c, u, r, "break_glass", pc)
      BY <1>4 DEF BreakGlass
    <2> QED BY <2>1, BeginSole
  <1>5. ASSUME NEW c \in Calls,
               CheckDelegation(c) \/ CheckActive(c) \/ Finish(c) \/ Abort(c)
        PROVE  SoleResolver'
    <2>1. calls[c].pc \in Steps /\ UNCHANGED request
      BY <1>5 DEF CheckDelegation, CheckActive, Finish, Abort, Ended, IInv, TypeOK, Call,
                  NoCall, Steps
    <2>2. PICK pc \in Answers \cup {"active", "insert"} : Goto(c, pc)
      BY <1>5 DEF CheckDelegation, CheckActive, Finish, Abort, Answers
    <2> QED BY <2>1, <2>2, MoveSole
  <1>6. CASE RunEscalationCheck
    <2>1. /\ UNCHANGED calls
          /\ \A r \in RequestIds : request[r] # NULL =>
                /\ request'[r].status = request[r].status
                /\ request'[r].breakGlass = request[r].breakGlass
      BY <1>6 DEF RunEscalationCheck, IInv, TypeOK, Row
    <2> QED BY <2>1, NoNewResolver
  <1> QED BY <1>1, <1>2, <1>3, <1>4, <1>5, <1>6, InsertSole, TallySole, UpdateSole
      DEF Next, Proceed

\* Both invariants hold throughout.
LEMMA SoleHolds == Spec => [](IInv /\ SoleResolver)
  BY InitInv, InitSole, NextInv, NextSole, PTL DEF Spec
=============================================================================
