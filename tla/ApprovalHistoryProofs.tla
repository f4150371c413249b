------------------------ MODULE ApprovalHistoryProofs ------------------------
(***************************************************************************)
(* More theorems about Approval: what a step may do to a row, what an      *)
(* escalation, an answer and an audit event say of the tables, that the    *)
(* engine implements Decision, and what is final when calls do not         *)
(* overlap.  They rest on the invariant of ApprovalProofs.                 *)
(***************************************************************************)
EXTENDS ApprovalProofs

-----------------------------------------------------------------------------
\* The only ways a step of the engine changes an existing row: a vote's UPDATE of
\* a row that is pending or forced, a break-glass's UPDATE, the escalation job.
LEMMA RowChanges ==
    ASSUME IInv, SoleResolver, [Next]_vars, NEW r \in RequestIds, request[r] # NULL
    PROVE  /\ request[r] \in Row /\ request'[r] \in Row /\ request'[r] # NULL
           /\ \A f \in {"policy", "requester", "createdAt"} : request'[r][f] = request[r][f]
           /\ \/ request'[r] = request[r]
              \/ /\ request[r].status = "pending" \/ request[r].breakGlass
                 /\ VotesOn(r) # {} /\ request'[r].status = VerdictOn(r)
                 /\ request'[r].status \in Terminal /\ request'[r].resolvedAt = now
                 /\ request'[r].escalated = request[r].escalated
                 /\ request'[r].breakGlass = request[r].breakGlass
                 /\ request'[r].needsReview = request[r].needsReview
                 /\ \E c \in Calls : Resolve(c) /\ calls[c].request = r
              \/ /\ request'[r].status = "approved" /\ request'[r].resolvedAt = now
                 /\ request'[r].escalated = request[r].escalated
                 /\ request'[r].breakGlass /\ request'[r].needsReview
                 /\ \E c \in Calls : ForceApprove(c) /\ calls[c].request = r
              \/ /\ Overdue(r) /\ request'[r].escalated
                 /\ \A f \in {"status", "resolvedAt", "breakGlass", "needsReview"} :
                       request'[r][f] = request[r][f]
  <1>0. request[r] \in Row
    BY DEF IInv, TypeOK
  <1>1. CASE request'[r] = request[r]
    BY <1>0, <1>1
  <1>2. ASSUME NEW c \in Calls, Resolve(c), calls[c].request = r
        PROVE  /\ request[r].status = "pending" \/ request[r].breakGlass
               /\ VotesOn(r) # {} /\ calls[c].result = VerdictOn(r)
               /\ calls[c].result \in Terminal
               /\ request'[r] = Resolved(request[r], calls[c])
    <2>1. calls[c].pc = "resolve" /\ calls[c].pc \in Steps
      BY <1>2 DEF Resolve, Steps
    <2>2. CallOK(calls[c])
      BY DEF IInv, CallInv
    <2> QED BY <1>2, <2>1, <2>2 DEF Resolve, SoleResolver, Resolving, CallOK, IInv, TypeOK
  <1>3. ASSUME NEW c \in Calls, ForceApprove(c), calls[c].request = r
        PROVE  request'[r] = Forced(request[r])
    BY <1>3 DEF ForceApprove, IInv, TypeOK
  <1>4. \/ request'[r] = request[r]
        \/ \E c \in Calls : Resolve(c) /\ calls[c].request = r
        \/ \E c \in Calls : ForceApprove(c) /\ calls[c].request = r
        \/ Overdue(r) /\ request'[r] = [request[r] EXCEPT !.escalated = TRUE]
    <2>1. CASE UNCHANGED request
      BY <2>1
    <2>2. ASSUME NEW u \in Users, NEW p \in PolicyIds, NEW q \in RequestIds,
                 CreateRequest(u, p, q)
          PROVE  request'[r] = request[r]
      BY <2>2 DEF CreateRequest, IInv, TypeOK
    <2>3. ASSUME NEW c \in Calls, Resolve(c) \/ ForceApprove(c), calls[c].request # r
          PROVE  request'[r] = request[r]
      BY <2>3 DEF Resolve, ForceApprove, IInv, TypeOK
    <2>4. CASE RunEscalationCheck
      BY <2>4 DEF RunEscalationCheck
    <2>5. \/ UNCHANGED request
          \/ \E u \in Users, p \in PolicyIds, q \in RequestIds : CreateRequest(u, p, q)
          \/ \E c \in Calls : Resolve(c) \/ ForceApprove(c)
          \/ RunEscalationCheck
      BY DEF Next, Proceed, vars, CreatePolicy, CreateDelegation, SubmitVote, BreakGlass,
             Begin, CheckDelegation, CheckActive, InsertVote, Tally, Finish, Abort, Tick
    <2> QED BY <2>1, <2>2, <2>3, <2>4, <2>5
  <1>5. now \in Nat
    BY DEF IInv, TypeOK
  <1>6. CASE \E c \in Calls : Resolve(c) /\ calls[c].request = r
    <2>1. PICK c \in Calls : Resolve(c) /\ calls[c].request = r
      BY <1>6
    <2>2. /\ request[r].status = "pending" \/ request[r].breakGlass
          /\ VotesOn(r) # {} /\ calls[c].result = VerdictOn(r)
          /\ calls[c].result \in Terminal
          /\ request'[r] = [request[r] EXCEPT !.status = calls[c].result, !.resolvedAt = now]
      BY <1>2, <2>1 DEF Resolved
    <2>3. PICK v \in Terminal : v = calls[c].result
      BY <2>2
    <2>4. /\ request'[r] \in Row /\ request'[r].status = v /\ request'[r].resolvedAt = now
          /\ \A f \in {"policy", "requester", "createdAt", "escalated", "breakGlass",
                       "needsReview"} : request'[r][f] = request[r][f]
      BY <1>0, <1>5, <2>2, <2>3 DEF Row, Status
    <2> QED BY <1>0, <2>1, <2>2, <2>3, <2>4, RowAssumption
  <1>7. CASE \E c \in Calls : ForceApprove(c) /\ calls[c].request = r
    <2>1. request'[r] = [request[r] EXCEPT !.status = "approved", !.breakGlass = TRUE,
                                           !.needsReview = TRUE, !.resolvedAt = now]
      BY <1>3, <1>7 DEF Forced
    <2>2. /\ request'[r] \in Row /\ request'[r].status = "approved"
          /\ request'[r].resolvedAt = now /\ request'[r].breakGlass
          /\ request'[r].needsReview
          /\ \A f \in {"policy", "requester", "createdAt", "escalated"} :
                request'[r][f] = request[r][f]
      BY <1>0, <1>5, <2>1 DEF Row, Status, Terminal
    <2> QED BY <1>0, <1>7, <2>2, RowAssumption
  <1>8. CASE Overdue(r) /\ request'[r] = [request[r] EXCEPT !.escalated = TRUE]
    <2>1. /\ request'[r] \in Row /\ request'[r].escalated
          /\ \A f \in {"policy", "requester", "createdAt", "status", "resolvedAt",
                       "breakGlass", "needsReview"} : request'[r][f] = request[r][f]
      BY <1>0, <1>8 DEF Row
    <2> QED BY <1>0, <1>8, <2>1, RowAssumption
  <1> QED BY <1>1, <1>4, <1>6, <1>7, <1>8

\* A row that a step brings into being is a fresh one.
LEMMA RowBirths ==
    ASSUME IInv, [Next]_vars, NEW r \in RequestIds, request[r] = NULL, request'[r] # NULL
    PROVE  /\ request'[r].status = "pending"
           /\ \A f \in {"escalated", "breakGlass", "needsReview"} : request'[r][f] = FALSE
  <1>1. ~UNCHANGED request
    OBVIOUS
  <1>2. ~RunEscalationCheck
    BY DEF RunEscalationCheck, Overdue
  <1>3. ASSUME NEW c \in Calls, Resolve(c) \/ ForceApprove(c) PROVE FALSE
    <2>1. calls[c].pc \in Steps
      BY <1>3 DEF Resolve, ForceApprove, Steps
    <2>2. request[calls[c].request] # NULL
      BY <2>1, OpenCall DEF IInv, CallInv, CallOK
    <2> QED BY <1>3, <2>2 DEF Resolve, ForceApprove, IInv, TypeOK
  <1>4. \E u \in Users, p \in PolicyIds, q \in RequestIds : CreateRequest(u, p, q)
    BY <1>1, <1>2, <1>3
    DEF Next, Proceed, vars, CreatePolicy, CreateDelegation, SubmitVote, BreakGlass,
        Begin, CheckDelegation, CheckActive, InsertVote, Tally, Finish, Abort, Tick
  <1> QED BY <1>4 DEF CreateRequest, IInv, TypeOK

\* A policy row is never rewritten, and the clock does not run backwards.
LEMMA TermsKept ==
    ASSUME IInv, SoleResolver, [Next]_vars, NEW r \in RequestIds, request[r] # NULL
    PROVE  /\ TermsOf(r) \in Terms /\ TermsOf(r)' = TermsOf(r)
           /\ now \in Nat /\ now' \in Nat /\ now <= now'
  <1>1. /\ request[r].policy \in PolicyIds /\ policy[request[r].policy] # NULL
        /\ request'[r].policy = request[r].policy
    BY RowChanges DEF IInv, RowInv, Row
  <1>2. policy[request[r].policy] \in Terms
    BY <1>1, ApprovalAssumption DEF IInv, TypeOK
  <1>3. policy' = policy \/ \E p \in PolicyIds : CreatePolicy(p)
    BY DEF Next, Proceed, vars, CreateRequest, CreateDelegation, SubmitVote, BreakGlass,
           Begin, CheckDelegation, CheckActive, InsertVote, Tally, Resolve, ForceApprove,
           Finish, Abort, RunEscalationCheck, Tick
  <1>4. policy'[request[r].policy] = policy[request[r].policy]
    BY <1>1, <1>3 DEF CreatePolicy, IInv, TypeOK
  <1>5. now \in Nat /\ (now' = now \/ now' = now + 1)
    BY DEF Next, Proceed, vars, CreatePolicy, CreateRequest, CreateDelegation, SubmitVote,
           BreakGlass, Begin, CheckDelegation, CheckActive, InsertVote, Tally, Resolve,
           ForceApprove, Finish, Abort, RunEscalationCheck, Tick, IInv, TypeOK
  <1> QED BY <1>1, <1>2, <1>4, <1>5 DEF TermsOf

\* Votes are only added, and only to a request without one, so its verdict stands.
LEMMA VotesKept ==
    ASSUME IInv, SoleResolver, [Next]_vars, NEW r \in RequestIds, request[r] # NULL
    PROVE  /\ VotesOn(r) \subseteq VotesOn(r)'
           /\ VotesOn(r) # {} => VotesOn(r)' = VotesOn(r) /\ VerdictOn(r)' = VerdictOn(r)
  <1>1. \/ votes' = votes
        \/ \E c \in Calls : InsertVote(c) /\ ~UniqueViolation(calls[c])
    BY DEF Next, Proceed, vars, CreatePolicy, CreateRequest, CreateDelegation, SubmitVote,
           BreakGlass, Begin, CheckDelegation, CheckActive, InsertVote, Tally, Resolve,
           ForceApprove, Finish, Abort, RunEscalationCheck, Tick
  <1>2. ASSUME NEW c \in Calls, InsertVote(c), ~UniqueViolation(calls[c])
        PROVE  /\ VotesOn(r) \subseteq VotesOn(r)'
               /\ VotesOn(r) # {} => VotesOn(r)' = VotesOn(r)
    <2>1. PICK v : /\ votes' = votes \cup {v}
                   /\ v = [request |-> calls[c].request, approver |-> calls[c].user,
                           decision |-> calls[c].asks]
      BY <1>2 DEF InsertVote
    <2>2. calls[c].pc \in Steps
      BY <1>2 DEF InsertVote, Steps
    <2>3. calls[c].user = request[calls[c].request].requester
      BY <2>2 DEF IInv, CallInv, CallOK
    <2>4. \A w \in votes : w.request # calls[c].request
      BY <1>2, <2>3 DEF UniqueViolation, IInv, RequesterVotesOnce
    <2> QED BY <2>1, <2>4 DEF VotesOn
  <1>3. /\ VotesOn(r) \subseteq VotesOn(r)'
        /\ VotesOn(r) # {} => VotesOn(r)' = VotesOn(r)
    BY <1>1, <1>2 DEF VotesOn
  <1>4. ASSUME VotesOn(r)' = VotesOn(r) PROVE VerdictOn(r)' = VerdictOn(r)
    <2>1. TermsOf(r)' = TermsOf(r)
      BY TermsKept
    <2> QED BY <1>4, <2>1 DEF VerdictOn, CountOn
  <1> QED BY <1>3, <1>4

-----------------------------------------------------------------------------
\* A forced request is resolved and is the only kind that needs a review.
ReviewInv ==
    \A r \in RequestIds : request[r] # NULL =>
        /\ request[r].needsReview = request[r].breakGlass
        /\ request[r].breakGlass => request[r].status # "pending"

\* A forced request is approved, unless the verdict of its votes replaced that.
ForcedInv ==
    \A r \in RequestIds : request[r] # NULL /\ request[r].breakGlass =>
        \/ request[r].status = "approved"
        \/ VotesOn(r) # {} /\ request[r].status = VerdictOn(r)

HistoryInv == ReviewInv /\ ForcedInv /\ EscalatedWasOverdue

LEMMA InitHistory == Init => HistoryInv
  BY DEF Init, HistoryInv, ReviewInv, ForcedInv, EscalatedWasOverdue

\* The flags change together.
LEMMA NextReview ==
    ASSUME IInv, SoleResolver, ReviewInv, [Next]_vars
    PROVE  ReviewInv'
  <1> SUFFICES ASSUME NEW r \in RequestIds, request'[r] # NULL
               PROVE  /\ request'[r].needsReview = request'[r].breakGlass
                      /\ request'[r].breakGlass => request'[r].status # "pending"
    BY DEF ReviewInv
  <1>1. CASE request[r] = NULL
    BY <1>1, RowBirths
  <1>2. CASE request[r] # NULL
    <2>1. /\ request[r].needsReview = request[r].breakGlass
          /\ request[r].breakGlass => request[r].status # "pending"
      BY <1>2 DEF ReviewInv
    <2>2. /\ request[r] \in Row /\ request'[r] \in Row
          /\ \/ request'[r] = request[r]
             \/ /\ request'[r].status \in Terminal
                /\ request'[r].breakGlass = request[r].breakGlass
                /\ request'[r].needsReview = request[r].needsReview
             \/ /\ request'[r].status = "approved"
                /\ request'[r].breakGlass /\ request'[r].needsReview
             \/ \A f \in {"status", "breakGlass", "needsReview"} :
                      request'[r][f] = request[r][f]
      BY <1>2, RowChanges
    <2>3. {request[r].breakGlass, request[r].needsReview, request'[r].breakGlass,
           request'[r].needsReview} \subseteq BOOLEAN
      BY <2>2 DEF Row
    <2> QED BY <2>1, <2>2, <2>3 DEF Terminal
  <1> QED BY <1>1, <1>2

\* A break-glass approves; a vote writes its verdict, which stands.
LEMMA NextForced ==
    ASSUME IInv, SoleResolver, ForcedInv, [Next]_vars
    PROVE  ForcedInv'
  <1> SUFFICES ASSUME NEW r \in RequestIds, request'[r] # NULL, request'[r].breakGlass
               PROVE  \/ request'[r].status = "approved"
                      \/ VotesOn(r)' # {} /\ request'[r].status = VerdictOn(r)'
    BY DEF ForcedInv
  <1>1. request[r] # NULL
    BY RowBirths
  <1>2. VotesOn(r) # {} => VotesOn(r)' # {} /\ VerdictOn(r)' = VerdictOn(r)
    BY <1>1, VotesKept
  <1>3. \/ request'[r].status = "approved"
        \/ VotesOn(r) # {} /\ request'[r].status = VerdictOn(r)
    <2>1. \/ request'[r].status = request[r].status
             /\ request'[r].breakGlass = request[r].breakGlass
          \/ request'[r].status = "approved"
          \/ VotesOn(r) # {} /\ request'[r].status = VerdictOn(r)
      BY <1>1, RowChanges
    <2> QED BY <1>1, <2>1 DEF ForcedInv
  <1> QED BY <1>2, <1>3

\* An overdue request stays overdue, and what resolves it later resolves it now.
LEMMA NextEscalated ==
    ASSUME IInv, SoleResolver, EscalatedWasOverdue, [Next]_vars
    PROVE  EscalatedWasOverdue'
  <1> SUFFICES ASSUME NEW r \in RequestIds, request'[r] # NULL, request'[r].escalated
               PROVE  /\ TermsOf(r)'.timeout # NULL
                      /\ Due(r)' < now'
                      /\ request'[r].resolvedAt # NULL => Due(r)' < request'[r].resolvedAt
    BY DEF EscalatedWasOverdue
  <1>1. request[r] # NULL
    BY RowBirths
  <1>2. /\ request[r] \in Row /\ request'[r] \in Row
        /\ request'[r].createdAt = request[r].createdAt
        /\ \/ request'[r] = request[r]
           \/ /\ request'[r].resolvedAt = now
              /\ request'[r].escalated = request[r].escalated
           \/ /\ Overdue(r) /\ request'[r].resolvedAt = request[r].resolvedAt
    BY <1>1, RowChanges
  <1>3. /\ TermsOf(r) \in Terms /\ TermsOf(r)' = TermsOf(r)
        /\ now \in Nat /\ now' \in Nat /\ now <= now'
    BY <1>1, TermsKept
  <1>4. Due(r)' = Due(r)
    BY <1>2, <1>3 DEF Due
  <1>5. /\ TermsOf(r).timeout # NULL /\ Due(r) < now
        /\ request'[r].resolvedAt # NULL =>
              request'[r].resolvedAt = now \/ Due(r) < request'[r].resolvedAt
    <2>1. CASE request[r].escalated
      <3>1. /\ TermsOf(r).timeout # NULL /\ Due(r) < now
            /\ request[r].resolvedAt # NULL => Due(r) < request[r].resolvedAt
        BY <1>1, <2>1 DEF EscalatedWasOverdue
      <3> QED BY <1>2, <3>1
    <2>2. CASE ~request[r].escalated
      <3>1. Overdue(r) /\ request'[r].resolvedAt = request[r].resolvedAt
        BY <1>2, <2>2
      <3>2. request[r].resolvedAt = NULL
        BY <1>1, <3>1 DEF Overdue, IInv, RowInv
      <3> QED BY <3>1, <3>2 DEF Overdue
    <2> QED BY <2>1, <2>2
  <1>6. Due(r) \in Int
    BY <1>2, <1>3, <1>5 DEF Due, Row, Terms
  <1> QED BY <1>3, <1>4, <1>5, <1>6

LEMMA HistoryHolds == Spec => [](IInv /\ SoleResolver /\ HistoryInv)
  <1>1. IInv /\ SoleResolver /\ HistoryInv /\ [Next]_vars => HistoryInv'
    BY NextReview, NextForced, NextEscalated DEF HistoryInv
  <1> QED BY <1>1, InitInv, InitSole, InitHistory, NextInv, NextSole, PTL DEF Spec

\* runEscalationCheck: only a request that was past its policy's timeout and not
\* resolved by then is ever marked escalated, whatever votes race with the job.
THEOREM EscalatedOverdue == Spec => []EscalatedWasOverdue
  <1>1. HistoryInv => EscalatedWasOverdue
    BY DEF HistoryInv
  <1> QED BY <1>1, HistoryHolds, PTL

\* What a step must keep of a row's history.
LEMMA KeepsHistory ==
    ASSUME IInv, SoleResolver, HistoryInv, [Next]_vars, NEW r \in RequestIds,
           request[r] # NULL
    PROVE  /\ request'[r] # NULL
           /\ \A f \in {"policy", "requester", "createdAt"} : request'[r][f] = request[r][f]
           /\ request[r].escalated => request'[r].escalated
           /\ request[r].breakGlass => request'[r].breakGlass
           /\ request[r].status # "pending" => request'[r].status # "pending"
           /\ request'[r].needsReview = request'[r].breakGlass
  <1>1. /\ request'[r] # NULL
        /\ \A f \in {"policy", "requester", "createdAt"} : request'[r][f] = request[r][f]
    BY RowChanges
  <1>2. request'[r].needsReview = request'[r].breakGlass
    BY <1>1, NextReview DEF HistoryInv, ReviewInv
  <1>3. /\ request[r].escalated => request'[r].escalated
        /\ request[r].breakGlass => request'[r].breakGlass
        /\ request[r].status # "pending" => request'[r].status # "pending"
    BY RowChanges DEF Terminal
  <1> QED BY <1>1, <1>2, <1>3

\* No handler and no run of the job rewrites what a request is about, takes back an
\* escalation or a break-glass, or reopens a resolved request.
THEOREM HistoryIsKept == Spec => HistoryKept
  <1>1. IInv /\ SoleResolver /\ HistoryInv /\ [Next]_vars =>
          [\A r \in RequestIds : request[r] # NULL =>
          /\ request'[r] # NULL
          /\ \A f \in {"policy", "requester", "createdAt"} : request'[r][f] = request[r][f]
          /\ request[r].escalated => request'[r].escalated
          /\ request[r].breakGlass => request'[r].breakGlass
          /\ request[r].status # "pending" => request'[r].status # "pending"
          /\ request'[r].needsReview = request'[r].breakGlass]_vars
    BY KeepsHistory
  <1> QED BY <1>1, HistoryHolds, PTL DEF Spec, HistoryKept

-----------------------------------------------------------------------------
\* What a call knows of the tables once it has written, and what its answer says.
AnswerOK(call) ==
    LET row == request[call.request]
    IN  /\ call.pc = "voted" => \E v \in VotesOn(call.request) : v.decision = call.asks
        /\ call.pc \in {"resolved", "ok"} /\ call.asks = "break_glass" => row.breakGlass
        /\ call.pc \in {"resolved", "ok"} /\ call.result \in Terminal /\ ~row.breakGlass
              => row.status = call.result
        /\ call.pc = "resolved" /\ call.asks # "break_glass"
              => VotesOn(call.request) # {} /\ call.result = VerdictOn(call.request)
        /\ call.pc = "ok" /\ call.asks # "break_glass" /\ call.result \in Terminal
              => VotesOn(call.request) # {} /\ call.result = VerdictOn(call.request)
        /\ call.pc = "conflict" => row.status # "pending" \/ VotesOn(call.request) # {}

AnswerInv == \A c \in Calls : AnswerOK(calls[c])

LEMMA InitAnswers == Init => AnswerInv
  BY DEF Init, AnswerInv, AnswerOK, NoCall

\* No other call's step makes an answer untrue: only a break-glass rewrites a
\* decided row, and votes stay.
LEMMA AnswerKept ==
    ASSUME IInv, SoleResolver, HistoryInv, AnswerInv, [Next]_vars, NEW c \in Calls,
           calls'[c] = calls[c]
    PROVE  AnswerOK(calls[c])'
  <1>0. PICK call \in Call \cup {NoCall} : call = calls[c]
    BY DEF IInv, TypeOK
  <1>1. CASE call = NoCall
    BY <1>0, <1>1 DEF AnswerOK, NoCall
  <1>2. CASE call # NoCall
    <2>1. PICK r \in RequestIds : r = call.request
      BY <1>0, <1>2 DEF Call
    <2>2. request[r] # NULL /\ AnswerOK(call) /\ calls'[c] = call
      BY <1>0, <1>2, <2>1 DEF IInv, CallInv, CallOK, AnswerInv
    <2>3. /\ VotesOn(r) \subseteq VotesOn(r)'
          /\ VotesOn(r) # {} => VotesOn(r)' = VotesOn(r) /\ VerdictOn(r)' = VerdictOn(r)
      BY <2>2, VotesKept
    <2>4. /\ request[r].breakGlass => request'[r].breakGlass
          /\ request[r].status # "pending" => request'[r].status # "pending"
          /\ request[r].status \in Terminal =>
                request'[r].status = request[r].status \/ request'[r].breakGlass
      BY <2>2, RowChanges DEF Terminal
    <2>5. /\ call.pc = "voted" => \E v \in VotesOn(r)' : v.decision = call.asks
          /\ call.pc = "resolved" /\ call.asks # "break_glass"
                => VotesOn(r)' # {} /\ call.result = VerdictOn(r)'
          /\ call.pc = "ok" /\ call.asks # "break_glass" /\ call.result \in Terminal
                => VotesOn(r)' # {} /\ call.result = VerdictOn(r)'
          /\ call.pc = "conflict" => request'[r].status # "pending" \/ VotesOn(r)' # {}
      <3> HIDE DEF VotesOn, VerdictOn
      <3> QED BY <2>1, <2>2, <2>3, <2>4 DEF AnswerOK
    <2>6. /\ call.pc \in {"resolved", "ok"} /\ call.asks = "break_glass"
                => request'[r].breakGlass
          /\ call.pc \in {"resolved", "ok"} /\ call.result \in Terminal
                /\ ~request'[r].breakGlass => request'[r].status = call.result
      BY <2>1, <2>2, <2>4 DEF AnswerOK
    <2> QED BY <2>1, <2>2, <2>5, <2>6 DEF AnswerOK
  <1> QED BY <1>1, <1>2

\* The first statement of a handler: a 409 it answers at once reports what it read.
LEMMA BeginAnswer ==
    ASSUME IInv, HistoryInv, NEW c \in Calls, NEW u, NEW r \in RequestIds, NEW asks, NEW pc,
           pc \in {"not_found", "conflict", "delegation", "force"}, Begin(c, u, r, asks, pc),
           pc = "conflict" => request[r].status # "pending"
    PROVE  AnswerOK(calls[c])' /\ \A k \in Calls : k # c => calls'[k] = calls[k]
  <1>1. /\ calls'[c].pc = pc /\ calls'[c].request = r
        /\ UNCHANGED request
        /\ \A k \in Calls : k # c => calls'[k] = calls[k]
    BY DEF Begin, IInv, TypeOK
  <1> QED BY <1>1 DEF AnswerOK

\* Moving on, or ending without a claim.
LEMMA MoveAnswer ==
    ASSUME IInv, NEW c \in Calls, NEW pc \in {"active", "insert", "failed"}, Goto(c, pc)
    PROVE  AnswerOK(calls[c])' /\ \A k \in Calls : k # c => calls'[k] = calls[k]
  <1>1. calls[c] = NoCall \/ calls[c] \in Call
    BY DEF IInv, TypeOK
  <1>2. calls'[c].pc = pc /\ \A k \in Calls : k # c => calls'[k] = calls[k]
    BY <1>1 DEF Goto, IInv, TypeOK, NoCall, Call
  <1> QED BY <1>2 DEF AnswerOK

\* The INSERT: a vote of the call's own, or a 409 because there is one.
LEMMA InsertAnswer ==
    ASSUME IInv, NEW c \in Calls, InsertVote(c)
    PROVE  AnswerOK(calls[c])' /\ \A k \in Calls : k # c => calls'[k] = calls[k]
  <1>1. calls[c].pc \in Steps
    BY DEF InsertVote, Steps
  <1>2. calls[c] \in Call
    BY <1>1, OpenCall DEF IInv
  <1>3. PICK pc \in {"voted", "conflict"} :
            /\ Goto(c, pc)
            /\ pc = "conflict" => UniqueViolation(calls[c]) /\ UNCHANGED votes
            /\ pc = "voted" =>
                  votes' = votes \cup {[request |-> calls[c].request,
                                        approver |-> calls[c].user,
                                        decision |-> calls[c].asks]}
    BY DEF InsertVote
  <1>4. /\ calls'[c].pc = pc /\ calls'[c].request = calls[c].request
        /\ calls'[c].asks = calls[c].asks
        /\ \A k \in Calls : k # c => calls'[k] = calls[k]
    BY <1>2, <1>3 DEF Goto, IInv, TypeOK, Call
  <1>5. CASE pc = "voted"
    <2>1. \E v \in VotesOn(calls[c].request)' : v.decision = calls'[c].asks
      <3>1. PICK v : /\ v \in votes'
                     /\ v = [request |-> calls[c].request, approver |-> calls[c].user,
                             decision |-> calls[c].asks]
        BY <1>3, <1>5
      <3> QED BY <1>4, <3>1 DEF VotesOn
    <2> QED BY <1>5, <1>4, <2>1 DEF AnswerOK
  <1>6. CASE pc = "conflict"
    <2>1. VotesOn(calls[c].request)' # {}
      BY <1>3, <1>4, <1>6 DEF VotesOn, UniqueViolation
    <2> QED BY <1>4, <1>6, <2>1 DEF AnswerOK
  <1> QED BY <1>3, <1>4, <1>5, <1>6

\* The tally claims nothing yet: "ok" without a decision, or on to the UPDATE.
LEMMA TallyAnswer ==
    ASSUME IInv, NEW c \in Calls, Tally(c)
    PROVE  AnswerOK(calls[c])' /\ \A k \in Calls : k # c => calls'[k] = calls[k]
  <1>1. calls[c].pc = "voted" /\ calls[c].pc \in Steps
    BY DEF Tally, Steps
  <1>2. calls[c] \in Call /\ calls[c].asks \in Decisions
    BY <1>1, OpenCall DEF IInv, CallInv, CallOK
  <1>3. PICK verdict : verdict = VerdictOn(calls[c].request)
    OBVIOUS
  <1>4. /\ calls'[c] = AfterTally(calls[c], verdict)
        /\ \A k \in Calls : k # c => calls'[k] = calls[k]
    BY <1>3 DEF Tally, IInv, TypeOK
  <1>5. \/ calls'[c] = [calls[c] EXCEPT !.pc = "failed"]
        \/ calls'[c] = [calls[c] EXCEPT !.pc = "resolve", !.result = verdict]
        \/ /\ verdict \notin Terminal
           /\ calls'[c] = [calls[c] EXCEPT !.pc = "ok", !.result = verdict]
    BY <1>4 DEF AfterTally
  <1>6. /\ calls'[c].pc \in {"failed", "resolve", "ok"}
        /\ calls'[c].asks = calls[c].asks
        /\ calls'[c].pc = "ok" => calls'[c].result \notin Terminal
    BY <1>2, <1>5 DEF Call
  <1> QED BY <1>2, <1>4, <1>6 DEF AnswerOK, Decisions

\* The UPDATEs make true what the answer will say.
LEMMA UpdateAnswer ==
    ASSUME IInv, SoleResolver, [Next]_vars, NEW c \in Calls, Resolve(c) \/ ForceApprove(c)
    PROVE  AnswerOK(calls[c])' /\ \A k \in Calls : k # c => calls'[k] = calls[k]
  <1>1. calls[c].pc \in {"resolve", "force"} /\ calls[c].pc \in Steps
    BY DEF Resolve, ForceApprove, Steps
  <1>2. PICK r \in RequestIds : r = calls[c].request
    BY <1>1, OpenCall DEF IInv
  <1>3. calls[c] \in Call /\ CallOK(calls[c]) /\ request[r] \in Row /\ request[r] # NULL
    BY <1>1, <1>2, OpenCall DEF IInv, TypeOK, CallInv, CallOK
  <1>4. /\ calls'[c].pc = "resolved" /\ calls'[c].request = r
        /\ calls'[c].asks = calls[c].asks /\ calls'[c].result = calls[c].result
        /\ \A k \in Calls : k # c => calls'[k] = calls[k]
    BY <1>2, <1>3 DEF Resolve, ForceApprove, Goto, IInv, TypeOK, Call
  <1>5. CASE Resolve(c)
    <2>1. /\ calls[c].pc = "resolve" /\ calls[c].asks \in Decisions
          /\ VotesOn(r) # {} /\ calls[c].result = VerdictOn(r)
      BY <1>2, <1>3, <1>5 DEF Resolve, CallOK, Steps
    <2>2. VotesOn(r)' # {} /\ calls[c].result = VerdictOn(r)'
      BY <1>3, <2>1, VotesKept
    <2>3. request'[r].status = calls[c].result
      BY <1>2, <1>3, <1>5 DEF Resolve, Resolved, IInv, TypeOK, Row
    <2> HIDE DEF VotesOn, VerdictOn
    <2> QED BY <1>4, <2>1, <2>2, <2>3 DEF AnswerOK, Decisions
  <1>6. CASE ForceApprove(c)
    <2>1. calls[c].asks = "break_glass"
      BY <1>3, <1>6 DEF ForceApprove, CallOK
    <2>2. request'[r].breakGlass
      BY <1>2, <1>3, <1>6 DEF ForceApprove, Forced, IInv, TypeOK, Row
    <2> QED BY <1>4, <2>1, <2>2 DEF AnswerOK
  <1> QED BY <1>5, <1>6

\* The answer repeats what the UPDATE made true.
LEMMA FinishAnswer ==
    ASSUME IInv, AnswerInv, NEW c \in Calls, Finish(c)
    PROVE  AnswerOK(calls[c])' /\ \A k \in Calls : k # c => calls'[k] = calls[k]
  <1>1. calls[c].pc = "resolved" /\ calls[c].pc \in Steps /\ AnswerOK(calls[c])
    BY DEF Finish, Steps, AnswerInv
  <1>2. calls[c] \in Call
    BY <1>1, OpenCall DEF IInv
  <1>3. /\ calls'[c].pc = "ok" /\ calls'[c].request = calls[c].request
        /\ calls'[c].asks = calls[c].asks /\ calls'[c].result = calls[c].result
        /\ \A k \in Calls : k # c => calls'[k] = calls[k]
        /\ UNCHANGED <<policy, request, votes>>
    BY <1>2 DEF Finish, Goto, IInv, TypeOK, Call
  <1>4. PICK r \in RequestIds : r = calls[c].request
    BY <1>1, OpenCall DEF IInv
  <1>5. VotesOn(r)' = VotesOn(r) /\ VerdictOn(r)' = VerdictOn(r)
    BY <1>3, QuietStep
  <1> HIDE DEF VotesOn, VerdictOn
  <1> QED BY <1>1, <1>3, <1>4, <1>5 DEF AnswerOK

LEMMA NextAnswers ==
    ASSUME IInv, SoleResolver, HistoryInv, AnswerInv, [Next]_vars
    PROVE  AnswerInv'
  <1>1. ASSUME NEW c \in Calls, AnswerOK(calls[c])',
               \A k \in Calls : k # c => calls'[k] = calls[k]
        PROVE  AnswerInv'
    <2>1. \A k \in Calls : k # c => AnswerOK(calls[k])'
      BY <1>1, AnswerKept
    <2> QED BY <1>1, <2>1 DEF AnswerInv
  <1>2. CASE UNCHANGED calls
    <2>1. \A k \in Calls : AnswerOK(calls[k])'
      BY <1>2, AnswerKept
    <2> QED BY <2>1 DEF AnswerInv
  <1>3. ASSUME NEW c \in Calls, NEW u \in Users, NEW r \in RequestIds, NEW d \in Decisions,
               SubmitVote(c, u, r, d)
        PROVE  AnswerInv'
    <2>1. PICK pc \in {"not_found", "conflict", "delegation"} :
              /\ Begin(c, u, r, d, pc)
              /\ pc = "conflict" => request[r].status # "pending"
      BY <1>3 DEF SubmitVote
    <2> QED BY <1>1, <2>1, BeginAnswer
  <1>4. ASSUME NEW c \in Calls, NEW u \in Users, NEW r \in RequestIds, BreakGlass(c, u, r)
        PROVE  AnswerInv'
    <2>1. PICK pc \in {"not_found", "conflict", "force"} :
              /\ Begin(c, u, r, "break_glass", pc)
              /\ pc = "conflict" => RefusesBreakGlass(request[r])
      BY <1>4 DEF BreakGlass
    <2>2. request[r] # NULL
      BY <2>1 DEF Begin
    <2>3. pc = "conflict" => request[r].status # "pending"
      BY <2>1, <2>2 DEF RefusesBreakGlass, HistoryInv, ReviewInv
    <2> QED BY <1>1, <2>1, <2>3, BeginAnswer
  <1>5. ASSUME NEW c \in Calls, CheckDelegation(c) \/ CheckActive(c) \/ Abort(c)
        PROVE  AnswerInv'
    <2>1. PICK pc \in {"active", "insert", "failed"} : Goto(c, pc)
      BY <1>5 DEF CheckDelegation, CheckActive, Abort
    <2> QED BY <1>1, <2>1, MoveAnswer
  <1>6. ASSUME NEW c \in Calls,
               InsertVote(c) \/ Tally(c) \/ Resolve(c) \/ ForceApprove(c) \/ Finish(c)
        PROVE  AnswerInv'
    BY <1>1, <1>6, InsertAnswer, TallyAnswer, UpdateAnswer, FinishAnswer
  <1>7. CASE \/ \E p \in PolicyIds : CreatePolicy(p)
             \/ \E u \in Users, p \in PolicyIds, r \in RequestIds : CreateRequest(u, p, r)
             \/ \E u, w \in Users, t \in 1..(MaxTime + 1) : CreateDelegation(u, w, t)
             \/ RunEscalationCheck \/ Tick \/ UNCHANGED vars
    <2>1. UNCHANGED calls
      BY <1>7 DEF CreatePolicy, CreateRequest, CreateDelegation, RunEscalationCheck, Tick, vars
    <2> QED BY <1>2, <2>1
  <1> QED BY <1>3, <1>4, <1>5, <1>6, <1>7 DEF Next, Proceed

LEMMA AnswersHold == Spec => [](IInv /\ SoleResolver /\ HistoryInv /\ AnswerInv)
  <1>1. IInv /\ SoleResolver /\ HistoryInv /\ AnswerInv /\ [Next]_vars => AnswerInv'
    BY NextAnswers
  <1> QED BY <1>1, InitAnswers, HistoryHolds, PTL DEF Spec

\* submitVote and breakGlass: what a client was answered stays true of the tables,
\* however many calls run on the same request afterwards: the verdict it was told is the
\* status unless a break-glass approved it, and a break-glass's "approved" is the status
\* unless the verdict of the stored votes replaced it.
THEOREM AnswersStayTrue == Spec => []AnswersAreTrue
  <1>1. ASSUME IInv, HistoryInv, AnswerInv PROVE AnswersAreTrue
    <2> SUFFICES ASSUME NEW c \in Calls
                 PROVE  LET call == calls[c]
                            row  == request[call.request]
                        IN  /\ call.pc = "ok" /\ call.asks = "break_glass" =>
                                  /\ row.breakGlass
                                  /\ \/ row.status = "approved"
                                     \/ /\ VotesOn(call.request) # {}
                                        /\ row.status = VerdictOn(call.request)
                            /\ /\ call.pc = "ok" /\ call.asks \in Decisions
                               /\ call.result \in Terminal
                               => \/ row.status = call.result
                                  \/ row.breakGlass /\ row.status = "approved"
                            /\ call.pc = "conflict"
                                  => row.status # "pending" \/ VotesOn(call.request) # {}
      BY DEF AnswersAreTrue
    <2>1. AnswerOK(calls[c])
      BY <1>1 DEF AnswerInv
    <2>2. CASE calls[c].pc # "ok"
      BY <2>1, <2>2 DEF AnswerOK
    <2>3. CASE calls[c].pc = "ok"
      <3>1. /\ calls[c].request \in RequestIds /\ request[calls[c].request] # NULL
        BY <1>1, <2>3 DEF IInv, TypeOK, CallInv, CallOK, Call, NoCall
      <3>2. request[calls[c].request].breakGlass =>
               \/ request[calls[c].request].status = "approved"
               \/ /\ VotesOn(calls[c].request) # {}
                  /\ request[calls[c].request].status = VerdictOn(calls[c].request)
        BY <1>1, <3>1 DEF HistoryInv, ForcedInv
      <3> QED BY <2>1, <2>3, <3>2 DEF AnswerOK, Decisions
    <2> QED BY <2>2, <2>3
  <1> QED BY <1>1, AnswersHold, PTL

-----------------------------------------------------------------------------
\* An event is of a request that has votes, and says what they say.
EventOK(e) ==
    /\ request[e.request] # NULL
    /\ e.type = "vote" => \E v \in VotesOn(e.request) : v.decision = e.content
    /\ e.type # "vote" => VotesOn(e.request) # {} /\ e.content = VerdictOn(e.request)

EventsInv == \A e \in emitted : EventOK(e)

\* A decision by votes has its event, or the call that made it is about to hand it over.
DecidedInv ==
    \A r \in RequestIds :
        aborts = 0 /\ request[r] # NULL /\ request[r].status # "pending"
           /\ ~request[r].breakGlass
        => \/ \E c \in Calls : calls[c].pc = "resolved" /\ calls[c].request = r
           \/ \E e \in emitted : e.type = "request_resolved" /\ e.request = r

AuditInv == EventsInv /\ DecidedInv

LEMMA InitAudit == Init => AuditInv
  BY DEF Init, AuditInv, EventsInv, DecidedInv

\* What a continuation hands over is true of the tables at that moment.
LEMMA EventsHandedOver ==
    ASSUME IInv, AnswerInv, NEW c \in Calls, calls[c].pc \in Steps
    PROVE  \A e \in AuditEvents(calls[c]) : EventOK(e)
  <1>1. /\ CallOK(calls[c]) /\ AnswerOK(calls[c])
        /\ request[calls[c].request] # NULL
    BY OpenCall DEF IInv, CallInv, AnswerInv, CallOK
  <1>2. CASE calls[c].pc = "voted"
    <2>1. AuditEvents(calls[c])
            = {[type |-> "vote", request |-> calls[c].request, content |-> calls[c].asks]}
      BY <1>2 DEF AuditEvents
    <2>2. \E v \in VotesOn(calls[c].request) : v.decision = calls[c].asks
      BY <1>1, <1>2 DEF AnswerOK
    <2> QED BY <1>1, <2>1, <2>2 DEF EventOK
  <1>3. CASE calls[c].pc = "resolved" /\ calls[c].asks # "break_glass"
    <2>1. AuditEvents(calls[c])
            = {[type |-> "request_resolved", request |-> calls[c].request,
                content |-> calls[c].result]}
      BY <1>3 DEF AuditEvents
    <2>2. VotesOn(calls[c].request) # {} /\ calls[c].result = VerdictOn(calls[c].request)
      BY <1>1, <1>3 DEF AnswerOK
    <2> HIDE DEF VotesOn, VerdictOn
    <2> QED BY <1>1, <2>1, <2>2 DEF EventOK
  <1>4. CASE /\ calls[c].pc # "voted"
             /\ ~(calls[c].pc = "resolved" /\ calls[c].asks # "break_glass")
    BY <1>4 DEF AuditEvents
  <1> QED BY <1>2, <1>3, <1>4

\* The audit writer is handed nothing but the events of one open call.
LEMMA EmittedGrows ==
    ASSUME IInv, [Next]_vars
    PROVE  \/ emitted' = emitted
           \/ \E c \in Calls : /\ calls[c].pc \in Steps
                               /\ emitted' = emitted \cup AuditEvents(calls[c])
  <1>1. \/ emitted' = emitted
        \/ \E c \in Calls : (Tally(c) \/ Finish(c) \/ Abort(c))
                            /\ emitted' = emitted \cup AuditEvents(calls[c])
    BY DEF Next, Proceed, vars, CreatePolicy, CreateRequest, CreateDelegation, SubmitVote,
           BreakGlass, Begin, CheckDelegation, CheckActive, InsertVote, Tally, Resolve,
           ForceApprove, Finish, Abort, RunEscalationCheck, Tick
  <1>2. \A c \in Calls : Tally(c) \/ Finish(c) \/ Abort(c) => calls[c].pc \in Steps
    BY DEF Tally, Finish, Abort, Ended, IInv, TypeOK, Call, NoCall, Steps
  <1> QED BY <1>1, <1>2

LEMMA NextEvents ==
    ASSUME IInv, SoleResolver, AnswerInv, EventsInv, [Next]_vars
    PROVE  EventsInv'
  <1>1. ASSUME NEW e \in Event, EventOK(e) PROVE EventOK(e)'
    <2>1. PICK r \in RequestIds : r = e.request
      BY DEF Event
    <2>2. request[r] # NULL
      BY <1>1, <2>1 DEF EventOK
    <2>3. /\ request'[r] # NULL /\ VotesOn(r) \subseteq VotesOn(r)'
          /\ VotesOn(r) # {} => VotesOn(r)' = VotesOn(r) /\ VerdictOn(r)' = VerdictOn(r)
      BY <2>2, RowChanges, VotesKept
    <2> HIDE DEF VotesOn, VerdictOn
    <2> QED BY <1>1, <2>1, <2>3 DEF EventOK
  <1>2. ASSUME NEW e \in emitted' PROVE e \in Event /\ EventOK(e)
    <2>1. CASE e \in emitted
      BY <2>1 DEF EventsInv, IInv, TypeOK
    <2>2. ASSUME NEW c \in Calls, calls[c].pc \in Steps, e \in AuditEvents(calls[c])
          PROVE  e \in Event /\ EventOK(e)
      BY <2>2, EventType, EventsHandedOver
    <2> QED BY <2>1, <2>2, EmittedGrows
  <1> QED BY <1>1, <1>2 DEF EventsInv

\* The resolving call's own step hands the event over; until then nobody moves it.
LEMMA NextDecided ==
    ASSUME IInv, SoleResolver, HistoryInv, AnswerInv, DecidedInv, [Next]_vars
    PROVE  DecidedInv'
  <1> SUFFICES ASSUME NEW r \in RequestIds, aborts' = 0, request'[r] # NULL,
                      request'[r].status # "pending", ~request'[r].breakGlass
               PROVE  \/ \E c \in Calls : calls'[c].pc = "resolved" /\ calls'[c].request = r
                      \/ \E e \in emitted' : e.type = "request_resolved" /\ e.request = r
    BY DEF DecidedInv
  <1>1. request[r] # NULL
    BY RowBirths
  <1>2. aborts = 0 /\ \A c \in Calls : ~Abort(c)
    <2>1. aborts \in Nat /\ (aborts' = aborts \/ \E c \in Calls : Abort(c))
      BY DEF Next, Proceed, vars, CreatePolicy, CreateRequest, CreateDelegation, SubmitVote,
             BreakGlass, Begin, CheckDelegation, CheckActive, InsertVote, Tally, Resolve,
             ForceApprove, Finish, RunEscalationCheck, Tick, IInv, TypeOK
    <2> QED BY <2>1 DEF Abort
  <1>3. CASE \E c \in Calls : Resolve(c) /\ calls[c].request = r
    <2>1. PICK c \in Calls : Resolve(c) /\ calls[c].request = r
      BY <1>3
    <2>2. calls[c] \in Call
      BY <2>1, OpenCall DEF Resolve, Steps, IInv
    <2>3. calls'[c].pc = "resolved" /\ calls'[c].request = r
      BY <2>1, <2>2 DEF Resolve, Goto, IInv, TypeOK, Call
    <2> QED BY <2>3
  <1>4. CASE ~\E c \in Calls : Resolve(c) /\ calls[c].request = r
    <2>1. request[r].status # "pending" /\ ~request[r].breakGlass
      BY <1>1, <1>4, RowChanges, KeepsHistory
    <2>2. emitted \subseteq emitted'
      BY EmittedGrows
    <2>3. ASSUME NEW c \in Calls, calls[c].pc = "resolved", calls[c].request = r
          PROVE  \/ calls'[c] = calls[c]
                 \/ \E e \in emitted' : e.type = "request_resolved" /\ e.request = r
      <3>1. calls[c].asks # "break_glass"
        BY <2>1, <2>3 DEF AnswerInv, AnswerOK
      <3>2. \/ calls'[c] = calls[c]
            \/ Finish(c)
        <4>1. CASE UNCHANGED calls
          BY <4>1
        <4>2. ASSUME NEW k \in Calls, NEW u \in Users, NEW q \in RequestIds,
                     \/ \E d \in Decisions : SubmitVote(k, u, q, d)
                     \/ BreakGlass(k, u, q)
              PROVE  calls'[c] = calls[c]
          <5>1. Ended(k) /\ \E x : calls' = [calls EXCEPT ![k] = x]
            BY <4>2 DEF SubmitVote, BreakGlass, Begin
          <5>2. k # c
            BY <2>3, <5>1 DEF Ended, Answers
          <5> QED BY <5>1, <5>2 DEF IInv, TypeOK
        <4>3. ASSUME NEW k \in Calls, Proceed(k) PROVE calls'[c] = calls[c] \/ Finish(c)
          <5>1. CASE k = c
            BY <2>3, <4>3, <5>1 DEF Proceed, CheckDelegation, CheckActive, InsertVote,
               Tally, Resolve, ForceApprove
          <5>2. CASE k # c
            <6>1. \E x : calls' = [calls EXCEPT ![k] = x]
              BY <4>3 DEF Proceed, CheckDelegation, CheckActive, InsertVote, Tally,
                 Resolve, ForceApprove, Finish, Goto
            <6> QED BY <5>2, <6>1 DEF IInv, TypeOK
          <5> QED BY <5>1, <5>2
        <4>4. \/ UNCHANGED calls
              \/ \E k \in Calls, u \in Users, q \in RequestIds :
                    \/ \E d \in Decisions : SubmitVote(k, u, q, d)
                    \/ BreakGlass(k, u, q)
              \/ \E k \in Calls : Proceed(k)
          BY <1>2 DEF Next, vars, CreatePolicy, CreateRequest, CreateDelegation,
             RunEscalationCheck, Tick
        <4> QED BY <4>1, <4>2, <4>3, <4>4
      <3>3. CASE Finish(c)
        <4>1. AuditEvents(calls[c]) = {[type |-> "request_resolved", request |-> r,
                                        content |-> calls[c].result]}
          BY <2>3, <3>1 DEF AuditEvents
        <4>2. [type |-> "request_resolved", request |-> r, content |-> calls[c].result]
                 \in emitted'
          BY <3>3, <4>1 DEF Finish
        <4> QED BY <4>2
      <3> QED BY <3>2, <3>3
    <2> QED BY <1>1, <1>2, <2>1, <2>2, <2>3 DEF DecidedInv
  <1> QED BY <1>3, <1>4

LEMMA AuditHolds ==
    Spec => [](IInv /\ SoleResolver /\ HistoryInv /\ AnswerInv /\ AuditInv)
  <1>1. IInv /\ SoleResolver /\ HistoryInv /\ AnswerInv /\ AuditInv /\ [Next]_vars
           => AuditInv'
    BY NextEvents, NextDecided DEF AuditInv
  <1> QED BY <1>1, InitAudit, AnswersHold, PTL DEF Spec

\* submitVote: the log agrees with the votes and the verdict, and until a call fails
\* it misses no decision for longer than the deciding call takes to hand it over.
THEOREM AuditAlwaysAgrees == Spec => []AuditAgrees
  <1>1. IInv /\ AuditInv => AuditAgrees
    BY DEF AuditInv, EventsInv, EventOK, DecidedInv, AuditAgrees
  <1> QED BY <1>1, AuditHolds, PTL

(***************************************************************************)
(* The engine implements Decision.                                         *)
(***************************************************************************)

\* A request whose votes are left alone keeps its verdict, or its lack of one.
LEMMA SameReached ==
    ASSUME IInv, SoleResolver, [Next]_vars, votes' = votes
    PROVE  reached' = reached
  <1> SUFFICES ASSUME NEW r \in RequestIds
               PROVE  /\ VotesOn(r)' = VotesOn(r)
                      /\ VotesOn(r) # {} => VerdictOn(r)' = VerdictOn(r)
    <2> HIDE DEF VotesOn, VerdictOn
    <2> QED BY DEF reached
  <1>1. VotesOn(r)' = VotesOn(r)
    BY DEF VotesOn
  <1>2. VotesOn(r) # {} => request[r] # NULL
    BY DEF VotesOn, IInv, RequesterVotesOnce
  <1> QED BY <1>1, <1>2, VotesKept

\* How a row reads as an outcome.
Outcome(row) ==
    IF row = NULL THEN "none"
    ELSE IF ~row.breakGlass THEN row.status
    ELSE IF row.status = "approved" THEN "forced" ELSE "overruled"

LEMMA OutcomeRead == outcome = [r \in RequestIds |-> Outcome(request[r])]
  BY DEF outcome, Outcome

\* A step that rewrites one row changes one outcome.
LEMMA OneOutcome ==
    ASSUME NEW r0 \in RequestIds, \A r \in RequestIds : r # r0 => request'[r] = request[r]
    PROVE  outcome' = [outcome EXCEPT ![r0] = Outcome(request'[r0])]
  <1>1. outcome' = [r \in RequestIds |-> Outcome(request'[r])]
    BY DEF outcome, Outcome
  <1> QED BY <1>1, OutcomeRead

\* The INSERT of a vote reaches the verdict, if one vote is enough, on a request that is
\* pending or forced.
LEMMA InsertRefines ==
    ASSUME IInv, SoleResolver, HistoryInv, [Next]_vars, NEW c \in Calls, InsertVote(c)
    PROVE  [D!Next]_(D!vars)
  <1>1. outcome' = outcome
    BY DEF InsertVote, outcome
  <1>2. CASE UniqueViolation(calls[c])
    <2>1. reached' = reached
      BY <1>2, SameReached DEF InsertVote
    <2> QED BY <1>1, <2>1 DEF D!vars
  <1>3. CASE ~UniqueViolation(calls[c])
    <2>1. calls[c].pc \in Steps
      BY DEF InsertVote, Steps
    <2>2. PICK r0 \in RequestIds : r0 = calls[c].request
      BY <2>1, OpenCall DEF IInv
    <2>3. /\ request[r0] # NULL /\ request[r0] \in Row
          /\ calls[c].user = request[r0].requester
      BY <2>1, <2>2, OpenCall DEF IInv, TypeOK, CallInv, CallOK
    <2>4. VotesOn(r0) = {}
      BY <1>3, <2>2, <2>3 DEF UniqueViolation, IInv, RequesterVotesOnce, VotesOn
    <2>5. /\ UNCHANGED <<policy, request>>
          /\ votes' = votes \cup {[request |-> r0, approver |-> calls[c].user,
                                   decision |-> calls[c].asks]}
      BY <1>3, <2>2 DEF InsertVote
    <2>6. \A r \in RequestIds : r # r0 => /\ VotesOn(r)' = VotesOn(r)
                                          /\ VerdictOn(r)' = VerdictOn(r)
      <3> SUFFICES ASSUME NEW r \in RequestIds, r # r0
                   PROVE  VotesOn(r)' = VotesOn(r) /\ VerdictOn(r)' = VerdictOn(r)
        OBVIOUS
      <3>1. VotesOn(r)' = VotesOn(r)
        BY <2>5 DEF VotesOn
      <3> QED BY <2>5, <3>1 DEF VerdictOn, CountOn, TermsOf
    <2>7. PICK v \in Terminal \cup {"none"} : reached' = [reached EXCEPT ![r0] = v]
      <3> DEFINE v == IF VotesOn(r0)' # {} /\ VerdictOn(r0)' \in Terminal
                      THEN VerdictOn(r0)' ELSE "none"
      <3>1. v \in Terminal \cup {"none"}
        OBVIOUS
      <3>2. reached' = [r \in RequestIds |-> IF r = r0 THEN v ELSE reached[r]]
        <4> HIDE DEF VotesOn, VerdictOn
        <4> QED BY <2>6 DEF reached
      <3>3. reached = [r \in RequestIds |-> reached[r]]
        BY DEF reached
      <3> HIDE DEF v
      <3>4. reached' = [reached EXCEPT ![r0] = v]
        BY <3>2, <3>3
      <3> QED BY <3>1, <3>4
    <2>8. reached[r0] = "none"
      BY <2>4 DEF reached
    <2>9. outcome[r0] \in {"pending", "forced"}
      BY <2>3, <2>4 DEF outcome, IInv, RowInv, HistoryInv, ForcedInv
    <2>10. CASE v = "none"
      <3>1. reached' = reached
        BY <2>7, <2>8, <2>10 DEF reached
      <3> QED BY <1>1, <3>1 DEF D!vars
    <2>11. CASE v \in {"approved", "denied"}
      BY <1>1, <2>7, <2>8, <2>9, <2>11 DEF D!Next, D!Reach
    <2> QED BY <2>7, <2>10, <2>11 DEF Terminal
  <1> QED BY <1>2, <1>3

\* A vote's UPDATE decides a pending request with its verdict, or overrules a break-glass
\* with "denied"; on a forced request "approved" changes nothing.
LEMMA ResolveRefines ==
    ASSUME IInv, SoleResolver, HistoryInv, [Next]_vars, NEW c \in Calls, Resolve(c)
    PROVE  [D!Next]_(D!vars)
  <1>1. calls[c].pc = "resolve" /\ calls[c].pc \in Steps
    BY DEF Resolve, Steps
  <1>2. PICK r0 \in RequestIds : r0 = calls[c].request
    BY <1>1, OpenCall DEF IInv
  <1>3. /\ request[r0] # NULL /\ request[r0] \in Row
        /\ VotesOn(r0) # {} /\ VerdictOn(r0) \in Terminal /\ calls[c].result = VerdictOn(r0)
    BY <1>1, <1>2, OpenCall DEF IInv, TypeOK, CallInv, CallOK
  <1>4. reached' = reached /\ reached[r0] = VerdictOn(r0)
    BY <1>3, SameReached DEF Resolve, reached
  <1>5. /\ \A r \in RequestIds : r # r0 => request'[r] = request[r]
        /\ request'[r0].status = VerdictOn(r0)
        /\ request'[r0].breakGlass = request[r0].breakGlass
    BY <1>2, <1>3 DEF Resolve, Resolved, IInv, TypeOK, Row
  <1>6. request'[r0] # NULL
    BY <1>3, RowChanges
  <1>7. PICK v \in Terminal : v = VerdictOn(r0)
    BY <1>3
  <1>8. /\ outcome' = [outcome EXCEPT ![r0] = Outcome(request'[r0])]
        /\ outcome[r0] = Outcome(request[r0])
        /\ outcome = [r \in RequestIds |-> outcome[r]]
    BY <1>5, OneOutcome, OutcomeRead
  <1>9. CASE ~request[r0].breakGlass
    <2>1. request[r0].status = "pending"
      BY <1>1, <1>2, <1>9 DEF SoleResolver, Resolving
    <2>2. outcome[r0] = "pending" /\ Outcome(request'[r0]) = v
      BY <1>3, <1>5, <1>6, <1>7, <1>8, <1>9, <2>1 DEF Outcome
    <2> QED BY <1>4, <1>7, <1>8, <2>2 DEF D!Next, D!Decide, Terminal
  <1>10. CASE request[r0].breakGlass
    <2>1. request[r0].status = "approved" \/ request[r0].status = v
      BY <1>3, <1>7, <1>10 DEF HistoryInv, ForcedInv
    <2>2. CASE v = "denied" /\ request[r0].status = "approved"
      <3>1. outcome[r0] = "forced" /\ Outcome(request'[r0]) = "overruled"
        BY <1>3, <1>5, <1>6, <1>7, <1>8, <1>10, <2>2 DEF Outcome
      <3> QED BY <1>4, <1>7, <1>8, <2>2, <3>1 DEF D!Next, D!Overrule
    <2>3. CASE v = request[r0].status
      <3>1. Outcome(request'[r0]) = Outcome(request[r0])
        BY <1>3, <1>5, <1>6, <1>7, <1>10, <2>3 DEF Outcome
      <3>2. outcome' = outcome
        BY <1>8, <3>1
      <3> QED BY <1>4, <3>2 DEF D!vars
    <2> QED BY <1>7, <2>1, <2>2, <2>3 DEF Terminal
  <1> QED BY <1>3, <1>9, <1>10 DEF Row

\* A break-glass's UPDATE forces the request, whatever it is by now.
LEMMA ForceRefines ==
    ASSUME IInv, SoleResolver, HistoryInv, [Next]_vars, NEW c \in Calls, ForceApprove(c)
    PROVE  [D!Next]_(D!vars)
  <1>1. calls[c].pc = "force" /\ calls[c].pc \in Steps
    BY DEF ForceApprove, Steps
  <1>2. PICK r0 \in RequestIds : r0 = calls[c].request
    BY <1>1, OpenCall DEF IInv
  <1>3. request[r0] # NULL /\ request[r0] \in Row
    BY <1>1, <1>2, OpenCall DEF IInv, TypeOK, CallInv, CallOK
  <1>4. /\ \A r \in RequestIds : r # r0 => request'[r] = request[r]
        /\ request'[r0].breakGlass /\ request'[r0].status = "approved"
    BY <1>2, <1>3 DEF ForceApprove, Forced, IInv, TypeOK, Row
  <1>5. request'[r0] # NULL
    BY <1>3, RowChanges
  <1>6. outcome' = [outcome EXCEPT ![r0] = "forced"]
    BY <1>4, <1>5, OneOutcome DEF Outcome
  <1>7. outcome[r0] # "none"
    BY <1>3 DEF outcome, Row, Status, Terminal
  <1>8. reached' = reached
    BY SameReached DEF ForceApprove
  <1> QED BY <1>6, <1>7, <1>8 DEF D!Next, D!Force

\* A new row opens the request.
LEMMA CreateRefines ==
    ASSUME IInv, SoleResolver, [Next]_vars, NEW u \in Users, NEW p \in PolicyIds,
           NEW r0 \in RequestIds, CreateRequest(u, p, r0)
    PROVE  [D!Next]_(D!vars)
  <1>1. PICK row \in Row :
          row = [policy |-> p, requester |-> u, status |-> "pending", createdAt |-> now,
                 resolvedAt |-> NULL, escalated |-> FALSE, breakGlass |-> FALSE,
                 needsReview |-> FALSE]
    BY DEF Row, Status, IInv, TypeOK
  <1>2. request[r0] = NULL /\ request' = [request EXCEPT ![r0] = row]
    BY <1>1 DEF CreateRequest
  <1>3. /\ request'[r0] = row /\ row # NULL
        /\ \A r \in RequestIds : r # r0 => request'[r] = request[r]
    BY <1>2, RowAssumption DEF IInv, TypeOK
  <1>4. outcome' = [outcome EXCEPT ![r0] = "pending"]
    BY <1>1, <1>3, OneOutcome DEF Outcome
  <1>5. outcome[r0] = "none"
    BY <1>2 DEF outcome
  <1>6. reached' = reached
    BY SameReached DEF CreateRequest
  <1> QED BY <1>4, <1>5, <1>6 DEF D!Next, D!Open

\* The escalation job changes no outcome.
LEMMA EscalationRefines ==
    ASSUME IInv, SoleResolver, [Next]_vars, RunEscalationCheck
    PROVE  [D!Next]_(D!vars)
  <1>1. ASSUME NEW r \in RequestIds PROVE Outcome(request'[r]) = Outcome(request[r])
    <2>1. CASE Overdue(r)
      <3>1. request[r] \in Row /\ request'[r] = [request[r] EXCEPT !.escalated = TRUE]
        BY <2>1 DEF RunEscalationCheck, Overdue, IInv, TypeOK
      <3>2. request'[r] \in Row
        BY <3>1 DEF Row
      <3> QED BY <3>1, <3>2, RowAssumption DEF Row, Outcome
    <2>2. CASE ~Overdue(r)
      BY <2>2 DEF RunEscalationCheck
    <2> QED BY <2>1, <2>2
  <1>2. outcome' = [r \in RequestIds |-> Outcome(request'[r])]
    BY DEF outcome, Outcome
  <1>3. reached' = reached
    BY SameReached DEF RunEscalationCheck
  <1> QED BY <1>1, <1>2, <1>3, OutcomeRead DEF D!vars

\* Every step is a step of Decision or a stutter.
LEMMA NextRefines ==
    IInv /\ SoleResolver /\ HistoryInv /\ [Next]_vars => [D!Next]_(D!vars)
  <1> SUFFICES ASSUME IInv, SoleResolver, HistoryInv, [Next]_vars
               PROVE  [D!Next]_(D!vars)
    OBVIOUS
  <1>1. CASE UNCHANGED <<request, votes>>
    <2>1. outcome' = outcome
      BY <1>1 DEF outcome
    <2> QED BY <1>1, <2>1, SameReached DEF D!vars
  <1>2. \/ UNCHANGED <<request, votes>>
        \/ \E u \in Users, p \in PolicyIds, r \in RequestIds : CreateRequest(u, p, r)
        \/ \E c \in Calls : InsertVote(c) \/ Resolve(c) \/ ForceApprove(c)
        \/ RunEscalationCheck
    BY DEF Next, Proceed, vars, CreatePolicy, CreateDelegation, SubmitVote, BreakGlass, Begin,
           CheckDelegation, CheckActive, Tally, Finish, Abort, Tick
  <1> QED BY <1>1, <1>2, CreateRefines, InsertRefines, ResolveRefines, ForceRefines,
             EscalationRefines

\* submitVote and breakGlass together keep Decision's promise: what resolves a request is
\* the one verdict its votes reach or a break-glass, a verdict gives way to a break-glass
\* only, and a break-glass to a verdict of "denied" only.
THEOREM ImplementsDecision == Spec => DecisionSpec
  <1>1. Init => D!Init
    BY DEF Init, D!Init, outcome, reached, VotesOn
  <1> QED BY <1>1, HistoryHolds, NextRefines, PTL DEF Spec, DecisionSpec, D!Spec

(***************************************************************************)
(* The status lifecycle of the schema's comment, for calls that do not     *)
(* overlap on one request.                                                 *)
(***************************************************************************)

\* No two open calls are on the same request.
OneAtATime ==
    \A c, k \in Calls :
        ~Ended(c) /\ ~Ended(k) /\ calls[c].request = calls[k].request => c = k

\* A call that is yet to write is on a request that is still pending.
PendingInv ==
    \A c \in Calls : calls[c].pc \in Steps \ {"resolved"} =>
        request[calls[c].request].status = "pending"

\* Whatever changes a status is the UPDATE of an open call on that request.
LEMMA StatusChanges ==
    ASSUME IInv, SoleResolver, [Next]_vars, NEW r \in RequestIds, request[r] # NULL,
           request'[r].status # request[r].status
    PROVE  \E c \in Calls : /\ calls[c].pc \in {"resolve", "force"}
                            /\ calls[c].request = r
                            /\ calls'[c].pc = "resolved"
  <1>1. PICK c \in Calls : (Resolve(c) \/ ForceApprove(c)) /\ calls[c].request = r
    BY RowChanges
  <1>2. calls \in [Calls -> Call \cup {NoCall}] /\ "pc" \in DOMAIN calls[c]
    BY DEF IInv, TypeOK, Call, NoCall
  <1> QED BY <1>1, <1>2 DEF Resolve, ForceApprove, Goto

\* A call comes to a statement from the one before it, or begins on a pending request.
LEMMA CallComes ==
    ASSUME IInv, [Next]_vars, NEW c \in Calls, calls'[c] # calls[c],
           calls'[c].pc \in Steps \ {"resolved"}
    PROVE  /\ request' = request
           /\ \/ request[calls'[c].request].status = "pending"
              \/ /\ calls[c].pc \in Steps \ {"resolved"}
                 /\ calls'[c].request = calls[c].request
  <1>1. calls \in [Calls -> Call \cup {NoCall}] /\ "pc" \in DOMAIN calls[c]
    BY DEF IInv, TypeOK, Call, NoCall
  <1>2. CASE \E k \in Calls, u \in Users, r \in RequestIds :
                (\E d \in Decisions : SubmitVote(k, u, r, d)) \/ BreakGlass(k, u, r)
    BY <1>1, <1>2 DEF SubmitVote, BreakGlass, Begin, RefusesBreakGlass, Steps
  <1>3. ASSUME NEW k \in Calls, Proceed(k) \/ Abort(k)
        PROVE  /\ k = c /\ request' = request
               /\ calls[c].pc \in Steps \ {"resolved"}
               /\ calls'[c].request = calls[c].request
    <2>1. Tally(k) \/ \E pc \in {"active", "insert", "failed", "conflict", "voted",
                                 "resolved", "ok"} : Goto(k, pc)
      BY <1>3 DEF Proceed, CheckDelegation, CheckActive, InsertVote, Resolve, ForceApprove,
             Finish, Abort
    <2>2. k = c
      <3>1. CASE Tally(k)
        BY <1>1, <3>1 DEF Tally
      <3>2. ASSUME NEW pc, Goto(k, pc) PROVE k = c
        BY <1>1, <3>2 DEF Goto
      <3> QED BY <2>1, <3>1, <3>2
    <2>3. PICK call \in Call \cup {NoCall} : call = calls[c]
      BY <1>1
    <2>4. calls'[c].request = calls[c].request
      <3>1. CASE Tally(k)
        <4>1. calls'[c] = AfterTally(call, VerdictOn(call.request))
          BY <1>1, <2>2, <2>3, <3>1 DEF Tally
        <4> QED BY <2>3, <4>1 DEF AfterTally, Call, NoCall
      <3>2. ASSUME NEW pc, Goto(k, pc) PROVE calls'[c].request = calls[c].request
        <4>1. calls'[c] = [call EXCEPT !.pc = pc]
          BY <1>1, <2>2, <2>3, <3>2 DEF Goto
        <4> QED BY <2>3, <4>1 DEF Call, NoCall
      <3> QED BY <2>1, <3>1, <3>2
    <2>5. ASSUME NEW pc, Goto(c, pc) PROVE calls'[c].pc = pc
      <3>1. calls'[c] = [call EXCEPT !.pc = pc]
        BY <1>1, <2>3, <2>5 DEF Goto
      <3> QED BY <2>3, <3>1 DEF Call, NoCall
    <2>6. request' = request /\ calls[c].pc \in Steps \ {"resolved"}
      <3>1. CASE Resolve(c) \/ ForceApprove(c) \/ Finish(c) \/ Abort(c)
        BY <2>5, <3>1 DEF Resolve, ForceApprove, Finish, Abort, Steps
      <3>2. CASE CheckDelegation(c) \/ CheckActive(c) \/ InsertVote(c) \/ Tally(c)
        BY <3>2 DEF CheckDelegation, CheckActive, InsertVote, Tally, Steps
      <3> QED BY <1>3, <2>2, <3>1, <3>2 DEF Proceed
    <2> QED BY <2>2, <2>4, <2>6
  <1>4. \/ UNCHANGED calls
        \/ \E k \in Calls, u \in Users, r \in RequestIds :
              (\E d \in Decisions : SubmitVote(k, u, r, d)) \/ BreakGlass(k, u, r)
        \/ \E k \in Calls : Proceed(k) \/ Abort(k)
    BY DEF Next, vars, CreatePolicy, CreateRequest, CreateDelegation, RunEscalationCheck, Tick
  <1> QED BY <1>2, <1>3, <1>4

LEMMA NextPending ==
    ASSUME IInv, SoleResolver, PendingInv, OneAtATime, [Next]_vars
    PROVE  PendingInv'
  <1> SUFFICES ASSUME NEW c \in Calls, calls'[c].pc \in Steps \ {"resolved"}
               PROVE  request'[calls'[c].request].status = "pending"
    BY DEF PendingInv
  <1>1. CASE calls'[c] # calls[c]
    BY <1>1, CallComes DEF PendingInv
  <1>2. CASE calls'[c] = calls[c]
    <2>1. /\ calls[c].request \in RequestIds /\ request[calls[c].request] # NULL
          /\ request[calls[c].request].status = "pending"
      BY <1>2, OpenCall DEF IInv, CallInv, CallOK, PendingInv
    <2>2. ASSUME request'[calls[c].request].status # "pending" PROVE FALSE
      <3>1. PICK k \in Calls : /\ calls[k].pc \in {"resolve", "force"}
                               /\ calls[k].request = calls[c].request
                               /\ calls'[k].pc = "resolved"
        BY <2>1, <2>2, StatusChanges
      <3>2. ~Ended(c) /\ ~Ended(k)
        BY <1>2, <3>1 DEF Ended, Steps, Answers
      <3> QED BY <1>2, <3>1, <3>2 DEF OneAtATime
    <2> QED BY <1>2, <2>2
  <1> QED BY <1>1, <1>2

\* 00004_approval_requests.js: while no two calls overlap on one request, a status that
\* has left "pending" never changes again, whatever calls on other requests and failures
\* come between.
THEOREM FinalWhenSerial == Spec /\ []OneAtATime => ResolvedIsFinal
  <1>1. Init => PendingInv
    BY DEF Init, PendingInv, NoCall, Steps
  <1>2. IInv /\ SoleResolver /\ PendingInv /\ OneAtATime /\ [Next]_vars => PendingInv'
    BY NextPending
  <1>3. IInv /\ SoleResolver /\ PendingInv /\ [Next]_vars =>
          [\A r \in RequestIds : request[r] # NULL /\ request[r].status # "pending"
             => request'[r].status = request[r].status]_vars
    BY StatusChanges DEF PendingInv, Steps
  <1> QED BY <1>1, <1>2, <1>3, HistoryHolds, PTL DEF Spec, ResolvedIsFinal
=============================================================================
