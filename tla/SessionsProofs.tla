--------------------------- MODULE SessionsProofs ---------------------------
(***************************************************************************)
(* Theorems about Sessions for every set of users, tokens and concurrent   *)
(* rotations.                                                              *)
(***************************************************************************)
EXTENDS Sessions, FiniteSetTheorems, TLAPS

\* A family's login token has a row, and a token without a row replaced none.
RowInv ==
    /\ \A t \in Issued : token[t].family \in Issued
    /\ \A t \in Tokens : token[t] = NULL => parent[t] = NULL
    /\ known \subseteq Issued

\* What a rotation may rely on between two statements, and NoFalseReuse of it.
CallOK(call) ==
    call # NoCall =>
        /\ call.token \in Issued
        /\ call.pc \in Steps => uses[call.token] > 0
        /\ call.pc = "issue" => token[call.token].revoked
        /\ call.pc \in {"condemn", "reused"} /\ call.first
              => token[call.token].family \in condemned

CallInv == \A c \in Calls : CallOK(calls[c])

\* A token is revoked because it was presented or because its family was condemned.
RevokedForCause ==
    \A t \in Issued : token[t].revoked => uses[t] > 0 \/ token[t].family \in condemned

IInv == TypeOK /\ RowInv /\ CallInv /\ SpentBeforeSuccessor /\ RevokedForCause

-----------------------------------------------------------------------------
\* There is no token and no rotation at first.
LEMMA InitInv == Init => IInv
  BY NullAssumption, SessionsAssumption
  DEF Init, IInv, TypeOK, RowInv, CallInv, SpentBeforeSuccessor, RevokedForCause,
      CallOK, Issued, NoCall

\* The rows there are keep their user and family, and once revoked stay revoked.
RowsKept ==
    \A t \in Issued :
        /\ t \in Issued'
        /\ token'[t].family = token[t].family /\ token'[t].user = token[t].user
        /\ token[t].revoked => token'[t].revoked

\* UPDATE ... SET revoked = true touches nothing else, and adds no row.
LEMMA RevokeStep ==
    ASSUME TypeOK, NEW S \in SUBSET Issued, token' = Revoke(S)
    PROVE  /\ token' \in [Tokens -> TokenRow \cup {NULL}]
           /\ Issued' = Issued /\ RowsKept
           /\ \A t \in Issued : token'[t].revoked => token[t].revoked \/ t \in S
           /\ \A t \in S : token'[t].revoked
  <1>1. ASSUME NEW t \in S
        PROVE  /\ token[t] \in TokenRow /\ token'[t] \in TokenRow
               /\ token'[t] = [token[t] EXCEPT !.revoked = TRUE]
    <2>1. t \in Tokens /\ token[t] \in TokenRow
      BY DEF Issued, TypeOK
    <2>2. token'[t] = [token[t] EXCEPT !.revoked = TRUE]
      BY <2>1 DEF Revoke
    <2> QED BY <2>1, <2>2 DEF TokenRow
  <1>2. ASSUME NEW t \in Tokens, t \notin S PROVE token'[t] = token[t]
    BY <1>2 DEF Revoke
  <1>3. \A t \in S : token'[t] # NULL
    BY <1>1, NullAssumption
  <1>4. token' \in [Tokens -> TokenRow \cup {NULL}]
    <2>1. \A t \in Tokens : token'[t] \in TokenRow \cup {NULL}
      BY <1>1, <1>2 DEF TypeOK
    <2> QED BY <2>1 DEF Revoke
  <1>5. Issued' = Issued
    BY <1>2, <1>3 DEF Issued
  <1>6. \A t \in S : /\ token'[t].family = token[t].family
                     /\ token'[t].user = token[t].user /\ token'[t].revoked
    BY <1>1 DEF TokenRow
  <1>7. Issued \subseteq Tokens
    BY DEF Issued
  <1>8. RowsKept
    BY <1>2, <1>5, <1>6, <1>7 DEF RowsKept
  <1> QED BY <1>2, <1>4, <1>5, <1>6, <1>7, <1>8

\* INSERT adds one live row and leaves the others alone.
LEMMA InsertStep ==
    ASSUME TypeOK, NEW t \in Tokens, NEW u \in Users, NEW f \in Tokens,
           IssueRefreshToken(t, u, f)
    PROVE  /\ token' \in [Tokens -> TokenRow \cup {NULL}]
           /\ t \notin Issued /\ Issued' = Issued \cup {t} /\ RowsKept
           /\ \A s \in Issued : token'[s] = token[s]
           /\ token'[t].user = u /\ token'[t].family = f /\ ~token'[t].revoked
           /\ known' \subseteq known \cup {t}
  <1>1. NewRow(u, f) \in TokenRow
    BY SessionsAssumption DEF NewRow, TokenRow, TypeOK
  <1>2. /\ token[t] = NULL /\ token'[t] = NewRow(u, f)
        /\ \A s \in Tokens : s # t => token'[s] = token[s]
    BY DEF IssueRefreshToken, TypeOK
  <1>3. token' \in [Tokens -> TokenRow \cup {NULL}]
    BY <1>1 DEF IssueRefreshToken, TypeOK
  <1>4. token'[t] # NULL
    BY <1>1, <1>2, NullAssumption
  <1>5. t \notin Issued /\ Issued' = Issued \cup {t}
    BY <1>2, <1>4 DEF Issued
  <1>6. \A s \in Issued : token'[s] = token[s]
    BY <1>2, <1>5 DEF Issued
  <1>7. RowsKept
    BY <1>5, <1>6 DEF RowsKept
  <1>8. token'[t].user = u /\ token'[t].family = f /\ ~token'[t].revoked
    BY <1>2 DEF NewRow
  <1>9. known' \subseteq known \cup {t}
    BY DEF IssueRefreshToken
  <1> QED BY <1>3, <1>5, <1>6, <1>7, <1>8, <1>9

-----------------------------------------------------------------------------
\* No step takes back a use or a condemnation, or changes what a row is about.
OnlyGrows ==
    /\ RowsKept
    /\ condemned \subseteq condemned'
    /\ \A t \in Tokens : uses[t] > 0 => uses'[t] > 0

\* A call keeps what it relies on while the tables only grow.
LEMMA CallKept ==
    ASSUME IInv, OnlyGrows, NEW call \in Call \cup {NoCall}, CallOK(call)
    PROVE  CallOK(call)'
  <1>1. CASE call = NoCall
    BY <1>1 DEF CallOK
  <1>2. CASE call # NoCall
    <2>1. call.token \in Issued /\ call.token \in Tokens
      BY <1>2 DEF CallOK, Issued
    <2>2. /\ call.token \in Issued'
          /\ token'[call.token].family = token[call.token].family
          /\ token[call.token].revoked => token'[call.token].revoked
          /\ uses[call.token] > 0 => uses'[call.token] > 0
      BY <2>1 DEF OnlyGrows, RowsKept, IInv, TypeOK
    <2> QED BY <1>2, <2>2 DEF CallOK, OnlyGrows
  <1> QED BY <1>1, <1>2

\* A step that leaves the rotations alone.
LEMMA SameCalls ==
    ASSUME IInv, OnlyGrows, UNCHANGED calls
    PROVE  CallInv'
  <1>1. ASSUME NEW c \in Calls PROVE CallOK(calls[c])'
    <2>1. PICK call \in Call \cup {NoCall} : call = calls[c]
      BY DEF IInv, TypeOK
    <2>2. CallOK(call)'
      BY <2>1, CallKept DEF IInv, CallInv
    <2> QED BY <2>1, <2>2 DEF CallOK
  <1> QED BY <1>1 DEF CallInv

\* A step that replaces one rotation.
LEMMA OneCall ==
    ASSUME IInv, OnlyGrows, NEW c \in Calls, NEW call \in Call,
           calls' = [calls EXCEPT ![c] = call], CallOK(call)'
    PROVE  calls' \in [Calls -> Call \cup {NoCall}] /\ CallInv'
  <1>1. calls' \in [Calls -> Call \cup {NoCall}]
    BY DEF IInv, TypeOK
  <1>2. ASSUME NEW k \in Calls PROVE CallOK(calls[k])'
    <2>1. CASE k = c
      <3>1. calls'[k] = call
        BY <2>1 DEF IInv, TypeOK
      <3> QED BY <3>1 DEF CallOK
    <2>2. CASE k # c
      <3>1. PICK other \in Call \cup {NoCall} : other = calls[k]
        BY DEF IInv, TypeOK
      <3>2. CallOK(other)'
        BY <3>1, CallKept DEF IInv, CallInv
      <3>3. calls'[k] = other
        BY <2>2, <3>1 DEF IInv, TypeOK
      <3> QED BY <3>2, <3>3 DEF CallOK
    <2> QED BY <2>1, <2>2
  <1> QED BY <1>1, <1>2 DEF CallInv

\* A call between two statements has its fields.
LEMMA OpenCall ==
    ASSUME IInv, NEW c \in Calls, calls[c].pc \in Steps \cup Answers
    PROVE  /\ calls[c] \in Call /\ calls[c] # NoCall /\ CallOK(calls[c])
           /\ calls[c].token \in Issued /\ calls[c].token \in Tokens
           /\ token[calls[c].token] \in TokenRow
  <1>1. calls[c] \in Call /\ calls[c] # NoCall /\ CallOK(calls[c])
    BY DEF IInv, TypeOK, CallInv, NoCall, Steps, Answers
  <1>2. calls[c].token \in Issued
    BY <1>1 DEF CallOK
  <1> QED BY <1>1, <1>2 DEF IInv, TypeOK, Issued

\* Moving a rotation on to a statement or an answer that claims nothing new.
LEMMA MoveCall ==
    ASSUME IInv, OnlyGrows, NEW c \in Calls, calls[c].pc \in Steps,
           NEW pc \in Steps \cup Answers, Goto(c, pc),
           pc = "issue" => token'[calls[c].token].revoked,
           pc \in {"condemn", "reused"} => calls[c].pc = "condemn"
    PROVE  calls' \in [Calls -> Call \cup {NoCall}] /\ CallInv'
  <1>1. /\ calls[c] \in Call /\ calls[c] # NoCall /\ CallOK(calls[c])
        /\ calls[c].token \in Issued /\ calls[c].token \in Tokens
    BY OpenCall
  <1>2. PICK call \in Call : call = [calls[c] EXCEPT !.pc = pc]
    BY <1>1 DEF Call
  <1>3. call.pc = pc /\ call.token = calls[c].token /\ call.first = calls[c].first
    BY <1>1, <1>2 DEF Call
  <1>4. /\ call.token \in Issued'
        /\ token'[call.token].family = token[call.token].family
        /\ uses[call.token] > 0 => uses'[call.token] > 0
    BY <1>1, <1>3 DEF OnlyGrows, RowsKept, IInv, TypeOK
  <1>5. CallOK(call)'
    <2>1. uses'[call.token] > 0
      BY <1>1, <1>3, <1>4 DEF CallOK
    <2>2. call.pc \in {"condemn", "reused"} /\ call.first
            => token'[call.token].family \in condemned'
      BY <1>1, <1>3, <1>4 DEF CallOK, OnlyGrows
    <2> QED BY <1>3, <1>4, <2>1, <2>2 DEF CallOK
  <1>6. calls' = [calls EXCEPT ![c] = call]
    BY <1>2 DEF Goto
  <1> QED BY <1>5, <1>6, OneCall

\* Revoking rows of a cause keeps the invariants of rows.
LEMMA RevokeRows ==
    ASSUME IInv, NEW S \in SUBSET Issued, token' = Revoke(S),
           UNCHANGED <<known, parent, uses>>, condemned \subseteq condemned',
           \A t \in S : uses[t] > 0 \/ token[t].family \in condemned'
    PROVE  /\ token' \in [Tokens -> TokenRow \cup {NULL}] /\ OnlyGrows
           /\ RowInv' /\ SpentBeforeSuccessor' /\ RevokedForCause'
  <1>1. /\ token' \in [Tokens -> TokenRow \cup {NULL}]
        /\ Issued' = Issued /\ RowsKept
        /\ \A t \in Issued : token'[t].revoked => token[t].revoked \/ t \in S
    BY RevokeStep DEF IInv
  <1>2. OnlyGrows
    BY <1>1 DEF OnlyGrows, IInv, TypeOK
  <1>3. RowInv'
    <2>1. \A t \in Tokens : token'[t] = NULL => parent'[t] = NULL
      BY <1>1 DEF Issued, IInv, RowInv
    <2>2. \A t \in Issued' : token'[t].family \in Issued'
      BY <1>1 DEF RowsKept, IInv, RowInv
    <2> QED BY <1>1, <2>1, <2>2 DEF RowInv, IInv
  <1>4. SpentBeforeSuccessor'
    BY <1>1 DEF RowsKept, IInv, SpentBeforeSuccessor
  <1>5. RevokedForCause'
    BY <1>1 DEF RowsKept, IInv, RevokedForCause
  <1> QED BY <1>1, <1>2, <1>3, <1>4, <1>5

-----------------------------------------------------------------------------
\* issueSession: a login starts a family of its own.
LEMMA IssueSessionStep ==
    ASSUME IInv, NEW u \in Users, NEW t \in Tokens, IssueSession(u, t)
    PROVE  IInv'
  <1>1. /\ IssueRefreshToken(t, u, t)
        /\ UNCHANGED <<uses, parent, condemned, calls, now, aborts>>
    BY DEF IssueSession
  <1>2. /\ token' \in [Tokens -> TokenRow \cup {NULL}]
        /\ t \notin Issued /\ Issued' = Issued \cup {t} /\ RowsKept
        /\ \A s \in Issued : token'[s] = token[s]
        /\ token'[t].family = t /\ ~token'[t].revoked
        /\ known' \subseteq known \cup {t}
    BY <1>1, InsertStep DEF IInv
  <1>3. OnlyGrows
    BY <1>1, <1>2 DEF OnlyGrows
  <1>4. CallInv'
    BY <1>1, <1>3, SameCalls
  <1>5. parent[t] = NULL /\ NULL \notin Tokens
    BY <1>2, NullAssumption DEF IInv, RowInv, Issued
  <1>6. RowInv'
    BY <1>1, <1>2 DEF IInv, RowInv, Issued
  <1>7. SpentBeforeSuccessor'
    BY <1>1, <1>2, <1>5 DEF IInv, SpentBeforeSuccessor
  <1>8. RevokedForCause'
    BY <1>1, <1>2 DEF IInv, RevokedForCause
  <1>9. TypeOK'
    BY <1>1, <1>2 DEF IInv, TypeOK, Issued
  <1> QED BY <1>4, <1>6, <1>7, <1>8, <1>9 DEF IInv

\* rotateRefreshToken's SELECT: a token that no call presented is revoked only in a
\* condemned family.
LEMMA RotateStep ==
    ASSUME IInv, NEW c \in Calls, NEW t \in Tokens, RotateRefreshToken(c, t)
    PROVE  IInv'
  <1>1. /\ uses' = [uses EXCEPT ![t] = @ + 1] /\ uses[t] \in Nat
        /\ UNCHANGED <<token, known, parent, condemned, now, aborts>>
        /\ t \in Issued
    BY DEF RotateRefreshToken, IInv, TypeOK, RowInv
  <1>2. PICK call : call = [pc |-> AfterSelect(token[t]), token |-> t, first |-> uses[t] = 0]
    OBVIOUS
  <1>3. PICK pc \in {"expired", "condemn", "spend"} :
            pc = AfterSelect(token[t]) /\ (pc = "condemn" => token[t].revoked)
    BY DEF AfterSelect
  <1>4. PICK first \in BOOLEAN : first <=> uses[t] = 0
    OBVIOUS
  <1>5. call = [pc |-> pc, token |-> t, first |-> first]
    <2>1. first = (uses[t] = 0)
      BY <1>4
    <2> QED BY <1>2, <1>3, <2>1
  <1>6. call \in Call
    BY <1>5 DEF Call, Steps, Answers
  <1>7. uses'[t] > 0 /\ \A s \in Tokens : uses[s] > 0 => uses'[s] > 0
    BY <1>1 DEF IInv, TypeOK
  <1>8. Issued' = Issued /\ OnlyGrows
    BY <1>1, <1>7 DEF Issued, OnlyGrows, RowsKept
  <1>9. CallOK(call)'
    <2>1. call.pc = "condemn" /\ call.first => token[t].family \in condemned
      BY <1>1, <1>3, <1>4, <1>5 DEF IInv, RevokedForCause, TypeOK
    <2> QED BY <1>1, <1>5, <1>7, <1>8, <2>1 DEF CallOK
  <1>10. calls' = [calls EXCEPT ![c] = call]
    BY <1>2 DEF RotateRefreshToken
  <1>11. calls' \in [Calls -> Call \cup {NoCall}] /\ CallInv'
    BY <1>6, <1>8, <1>9, <1>10, OneCall
  <1>12. TypeOK'
    BY <1>1, <1>11 DEF IInv, TypeOK
  <1>13. RowInv' /\ SpentBeforeSuccessor'
    BY <1>1, <1>8 DEF IInv, RowInv, SpentBeforeSuccessor
  <1>14. RevokedForCause'
    BY <1>1, <1>7, <1>8 DEF IInv, RevokedForCause, Issued
  <1> QED BY <1>11, <1>12, <1>13, <1>14 DEF IInv

\* The three UPDATEs.
LEMMA SpendStep ==
    ASSUME IInv, NEW c \in Calls, Spend(c)
    PROVE  IInv'
  <1>1. calls[c].pc = "spend" /\ calls[c].pc \in Steps
    BY DEF Spend, Steps
  <1>2. PICK t \in Issued : t = calls[c].token
    BY <1>1, OpenCall
  <1>3. uses[t] > 0
    BY <1>1, <1>2, OpenCall DEF CallOK
  <1>4. /\ token' = Revoke({t}) /\ Goto(c, "issue")
        /\ UNCHANGED <<known, uses, parent, condemned, now, aborts>>
    BY <1>2 DEF Spend, Spent
  <1>5. /\ token' \in [Tokens -> TokenRow \cup {NULL}] /\ OnlyGrows
        /\ RowInv' /\ SpentBeforeSuccessor' /\ RevokedForCause'
    BY <1>3, <1>4, RevokeRows
  <1>6. token'[t].revoked
    BY <1>4, RevokeStep DEF IInv
  <1>7. calls' \in [Calls -> Call \cup {NoCall}] /\ CallInv'
    BY <1>1, <1>2, <1>4, <1>5, <1>6, MoveCall DEF Steps
  <1>8. TypeOK'
    BY <1>4, <1>5, <1>7 DEF IInv, TypeOK
  <1> QED BY <1>5, <1>7, <1>8 DEF IInv

\* The family of a reused token is revoked as a whole.
LEMMA CondemnStep ==
    ASSUME IInv, NEW c \in Calls, Condemn(c)
    PROVE  IInv'
  <1>1. calls[c].pc = "condemn" /\ calls[c].pc \in Steps
    BY DEF Condemn, Steps
  <1>2. /\ calls[c].token \in Issued /\ token[calls[c].token].family \in Issued
    BY <1>1, OpenCall DEF IInv, RowInv
  <1>3. PICK f \in Tokens : f = token[calls[c].token].family
    BY <1>2 DEF Issued
  <1>4. /\ token' = Revoke(Family(f)) /\ Goto(c, "reused")
        /\ condemned' = condemned \cup {f}
        /\ UNCHANGED <<known, uses, parent, now, aborts>>
    BY <1>3 DEF Condemn
  <1>5. Family(f) \subseteq Issued /\ \A t \in Family(f) : token[t].family = f
    BY DEF Family
  <1>6. /\ token' \in [Tokens -> TokenRow \cup {NULL}] /\ OnlyGrows
        /\ RowInv' /\ SpentBeforeSuccessor' /\ RevokedForCause'
    BY <1>4, <1>5, RevokeRows
  <1>7. calls' \in [Calls -> Call \cup {NoCall}] /\ CallInv'
    BY <1>1, <1>4, <1>6, MoveCall DEF Answers
  <1>8. TypeOK'
    BY <1>4, <1>6, <1>7 DEF IInv, TypeOK
  <1> QED BY <1>6, <1>7, <1>8 DEF IInv

\* DELETE /sessions/:familyId
LEMMA DeleteStep ==
    ASSUME IInv, NEW u \in Users, NEW f \in Tokens, DeleteSession(u, f)
    PROVE  IInv'
  <1>1. PICK S : S = {t \in Live(f) : token[t].user = u}
    OBVIOUS
  <1>2. /\ S \subseteq Issued /\ \A t \in S : token[t].family = f
    BY <1>1 DEF Live, Family
  <1>3. /\ token' = Revoke(S) /\ condemned' = condemned \cup {f}
        /\ UNCHANGED <<known, uses, parent, calls, now, aborts>>
    BY <1>1 DEF DeleteSession
  <1>4. /\ token' \in [Tokens -> TokenRow \cup {NULL}] /\ OnlyGrows
        /\ RowInv' /\ SpentBeforeSuccessor' /\ RevokedForCause'
    BY <1>2, <1>3, RevokeRows
  <1>5. CallInv'
    BY <1>3, <1>4, SameCalls
  <1>6. TypeOK'
    BY <1>3, <1>4 DEF IInv, TypeOK
  <1> QED BY <1>4, <1>5, <1>6 DEF IInv

\* The INSERT of a rotation: its old token is revoked, and has been since its UPDATE.
LEMMA IssueStep ==
    ASSUME IInv, NEW c \in Calls, NEW t \in Tokens, Issue(c, t)
    PROVE  IInv'
  <1>1. calls[c].pc = "issue" /\ calls[c].pc \in Steps
    BY DEF Issue, Steps
  <1>2. PICK old \in Issued : old = calls[c].token
    BY <1>1, OpenCall
  <1>3. /\ old \in Tokens /\ token[old] \in TokenRow /\ token[old].revoked
        /\ token[old].family \in Issued
    BY <1>1, <1>2, OpenCall DEF CallOK, IInv, RowInv
  <1>4. PICK u \in Users, f \in Tokens : u = token[old].user /\ f = token[old].family
    BY <1>3 DEF TokenRow
  <1>5. /\ IssueRefreshToken(t, u, f) /\ parent' = [parent EXCEPT ![t] = old]
        /\ Goto(c, "ok") /\ UNCHANGED <<uses, condemned, now, aborts>>
    BY <1>2, <1>4 DEF Issue
  <1>6. /\ token' \in [Tokens -> TokenRow \cup {NULL}]
        /\ t \notin Issued /\ Issued' = Issued \cup {t} /\ RowsKept
        /\ \A s \in Issued : token'[s] = token[s]
        /\ token'[t].user = u /\ token'[t].family = f /\ ~token'[t].revoked
        /\ known' \subseteq known \cup {t}
    BY <1>5, InsertStep DEF IInv
  <1>7. OnlyGrows
    BY <1>5, <1>6 DEF OnlyGrows
  <1>8. calls' \in [Calls -> Call \cup {NoCall}] /\ CallInv'
    BY <1>1, <1>5, <1>7, MoveCall DEF Answers
  <1>9. parent'[t] = old /\ \A s \in Tokens : s # t => parent'[s] = parent[s]
    BY <1>5 DEF IInv, TypeOK
  <1>10. RowInv'
    BY <1>3, <1>4, <1>6, <1>9 DEF IInv, RowInv, Issued
  <1>11. SpentBeforeSuccessor'
    <2>1. ASSUME NEW s \in Issued
          PROVE  /\ s # t /\ token'[s] = token[s] /\ parent'[s] = parent[s]
      BY <1>6, <1>9 DEF Issued
    <2>2. /\ old \in Issued' /\ token'[old] = token[old]
      BY <1>6
    <2> QED BY <1>3, <1>4, <1>6, <1>9, <2>1, <2>2 DEF IInv, SpentBeforeSuccessor
  <1>12. RevokedForCause'
    BY <1>5, <1>6 DEF IInv, RevokedForCause
  <1>13. TypeOK'
    BY <1>3, <1>5, <1>6, <1>8 DEF IInv, TypeOK, Issued
  <1> QED BY <1>8, <1>10, <1>11, <1>12, <1>13 DEF IInv

\* A failure or a tick of the clock.
LEMMA AbortStep ==
    ASSUME IInv, NEW c \in Calls, Abort(c)
    PROVE  IInv'
  <1>1. /\ calls[c].pc \in Steps /\ Goto(c, "failed") /\ aborts' = aborts + 1
        /\ UNCHANGED <<token, known, uses, parent, condemned, now>>
    BY DEF Abort, Ended
  <1>2. Issued' = Issued /\ OnlyGrows
    BY <1>1 DEF Issued, OnlyGrows, RowsKept
  <1>3. calls' \in [Calls -> Call \cup {NoCall}] /\ CallInv'
    BY <1>1, <1>2, MoveCall DEF Answers
  <1>4. TypeOK'
    BY <1>1, <1>3 DEF IInv, TypeOK
  <1>5. RowInv' /\ SpentBeforeSuccessor' /\ RevokedForCause'
    BY <1>1, <1>2 DEF IInv, RowInv, SpentBeforeSuccessor, RevokedForCause
  <1> QED BY <1>3, <1>4, <1>5 DEF IInv

\* The invariant is inductive.
LEMMA NextInv == IInv /\ [Next]_vars => IInv'
  <1> SUFFICES ASSUME IInv, [Next]_vars PROVE IInv'
    OBVIOUS
  <1>1. CASE Tick \/ UNCHANGED vars
    <2>1. /\ UNCHANGED <<token, known, uses, parent, condemned, calls, aborts>> /\ now' \in Nat
      BY <1>1 DEF Tick, vars, IInv, TypeOK
    <2>2. Issued' = Issued /\ OnlyGrows
      BY <2>1 DEF Issued, OnlyGrows, RowsKept
    <2>3. CallInv'
      BY <2>1, <2>2, SameCalls
    <2> QED BY <2>1, <2>2, <2>3
            DEF IInv, TypeOK, RowInv, SpentBeforeSuccessor, RevokedForCause
  <1> QED BY <1>1, IssueSessionStep, RotateStep, SpendStep, CondemnStep, DeleteStep, IssueStep,
             AbortStep DEF Next

\* The invariant holds throughout.
LEMMA InvHolds == Spec => []IInv
  BY InitInv, NextInv, PTL DEF Spec

\* Every variable keeps its type.
THEOREM TypeCorrect == Spec => []TypeOK
  <1>1. IInv => TypeOK
    BY DEF IInv
  <1> QED BY <1>1, InvHolds, PTL

\* rotateRefreshToken: a token that was replaced is revoked, although its UPDATE and
\* the INSERT of its successor are not one transaction.
THEOREM SuccessorsReplaceSpent == Spec => []SpentBeforeSuccessor
  <1>1. IInv => SpentBeforeSuccessor
    BY DEF IInv
  <1> QED BY <1>1, InvHolds, PTL

\* rotateRefreshToken: "reuse detected" is never the answer to the first use of a
\* token of a family that nobody condemned.
THEOREM ReuseIsReal == Spec => []NoFalseReuse
  <1>1. IInv => NoFalseReuse
    BY DEF IInv, CallInv, CallOK, NoFalseReuse, NoCall
  <1> QED BY <1>1, InvHolds, PTL

-----------------------------------------------------------------------------
\* A family all of whose tokens are revoked, with no rotation past its SELECT.
Dead(f) == Family(f) # {} /\ Live(f) = {} /\ \A c \in Calls : ~Rotating(c, f)

\* What a step must not do to a dead family: add a token, or start a rotation that
\* goes on.
LEMMA StaysDead ==
    ASSUME IInv, NEW f \in Tokens, Dead(f), RowsKept,
           \A t \in Issued' : token'[t].family = f => t \in Issued,
           \A c \in Calls : /\ calls'[c].pc \in {"spend", "issue"}
                             /\ token'[calls'[c].token].family = f
                             => Rotating(c, f)
    PROVE  Live(f)' = {} /\ (\A c \in Calls : ~Rotating(c, f))'
  <1>1. ASSUME NEW t \in Issued', token'[t].family = f PROVE token'[t].revoked
    <2>1. t \in Issued /\ token[t].family = f
      BY <1>1 DEF RowsKept
    <2>2. token[t].revoked
      BY <2>1 DEF Dead, Live, Family
    <2> QED BY <2>1, <2>2 DEF RowsKept
  <1>2. Live(f)' = {}
    BY <1>1 DEF Live, Family
  <1>3. \A c \in Calls : ~Rotating(c, f)
    BY DEF Dead
  <1>4. (\A c \in Calls : ~Rotating(c, f))'
    BY <1>3 DEF Rotating
  <1> QED BY <1>2, <1>4

\* The steps that change the revoked column, or no row at all, and let at most one
\* rotation go on to another statement.
LEMMA NoNewRow ==
    ASSUME IInv, NEW f \in Tokens, Dead(f), RowsKept, Issued' = Issued,
           \/ UNCHANGED calls
           \/ \E c \in Calls, pc \in Steps \cup Answers :
                 /\ Goto(c, pc) /\ calls[c].pc \in Steps
                 /\ pc \in {"spend", "issue"} => calls[c].pc \in {"spend", "issue"}
    PROVE  Live(f)' = {} /\ (\A c \in Calls : ~Rotating(c, f))'
  <1>1. ASSUME NEW k \in Calls, calls'[k].pc \in {"spend", "issue"},
               token'[calls'[k].token].family = f
        PROVE  Rotating(k, f)
    <2>1. calls'[k].token = calls[k].token /\ calls[k].pc \in {"spend", "issue"}
      <3>1. CASE UNCHANGED calls
        BY <1>1, <3>1
      <3>2. ASSUME NEW c \in Calls, NEW pc \in Steps \cup Answers,
                   Goto(c, pc), calls[c].pc \in Steps,
                   pc \in {"spend", "issue"} => calls[c].pc \in {"spend", "issue"}
            PROVE  calls'[k].token = calls[k].token /\ calls[k].pc \in {"spend", "issue"}
        <4>1. calls[c] \in Call
          BY <3>2, OpenCall
        <4>2. CASE k = c
          <5>1. calls'[k] = [calls[k] EXCEPT !.pc = pc]
            BY <3>2, <4>2 DEF Goto, IInv, TypeOK
          <5>2. calls'[k].pc = pc /\ calls'[k].token = calls[k].token
            BY <4>1, <4>2, <5>1 DEF Call
          <5> QED BY <1>1, <3>2, <4>2, <5>2
        <4>3. CASE k # c
          <5>1. calls'[k] = calls[k]
            BY <3>2, <4>3 DEF Goto, IInv, TypeOK
          <5> QED BY <1>1, <5>1
        <4> QED BY <4>2, <4>3
      <3> QED BY <3>1, <3>2
    <2>2. calls[k].token \in Issued
      BY <2>1, OpenCall DEF Steps
    <2> QED BY <1>1, <2>1, <2>2 DEF Rotating, RowsKept
  <1> QED BY <1>1, StaysDead

\* POST /auth/refresh: every token of a dead family is revoked, so that the SELECT of
\* a new rotation leads to reuse detection.
LEMMA RotateDead ==
    ASSUME IInv, NEW f \in Tokens, Dead(f),
           NEW c \in Calls, NEW t \in Tokens, RotateRefreshToken(c, t)
    PROVE  Live(f)' = {} /\ (\A k \in Calls : ~Rotating(k, f))'
  <1>1. /\ UNCHANGED token /\ Issued' = Issued /\ RowsKept /\ t \in Issued
    BY DEF RotateRefreshToken, Issued, RowsKept, IInv, RowInv
  <1>2. PICK call : call = [pc |-> AfterSelect(token[t]), token |-> t, first |-> uses[t] = 0]
    OBVIOUS
  <1>3. calls' = [calls EXCEPT ![c] = call]
    BY <1>2 DEF RotateRefreshToken
  <1>4. ASSUME NEW k \in Calls, calls'[k].pc \in {"spend", "issue"},
               token'[calls'[k].token].family = f
        PROVE  Rotating(k, f)
    <2>1. CASE k = c
      <3>1. calls'[k] = call /\ call.pc = AfterSelect(token[t]) /\ call.token = t
        BY <1>2, <1>3, <2>1 DEF IInv, TypeOK
      <3>2. token[t].family = f
        BY <1>1, <1>4, <3>1
      <3>3. token[t].revoked
        BY <1>1, <3>2 DEF Dead, Live, Family
      <3>4. token[t] \in TokenRow
        BY <1>1 DEF Issued, IInv, TypeOK
      <3>5. AfterSelect(token[t]) \in {"expired", "condemn"}
        BY <3>3, <3>4 DEF AfterSelect, TokenRow, IInv, TypeOK
      <3> QED BY <1>4, <3>1, <3>5
    <2>2. CASE k # c
      <3>1. calls'[k] = calls[k]
        BY <1>3, <2>2 DEF IInv, TypeOK
      <3> QED BY <1>1, <1>4, <3>1 DEF Rotating
    <2> QED BY <2>1, <2>2
  <1> QED BY <1>1, <1>4, StaysDead

\* issueSession: the family of a login is a new one.
LEMMA LoginDead ==
    ASSUME IInv, NEW f \in Tokens, Dead(f),
           NEW u \in Users, NEW t \in Tokens, IssueSession(u, t)
    PROVE  Live(f)' = {} /\ (\A k \in Calls : ~Rotating(k, f))'
  <1>1. IssueRefreshToken(t, u, t) /\ UNCHANGED calls
    BY DEF IssueSession
  <1>2. /\ t \notin Issued /\ Issued' = Issued \cup {t} /\ RowsKept
        /\ token'[t].family = t
    BY <1>1, InsertStep DEF IInv
  <1>3. f \in Issued
    BY DEF Dead, Family, IInv, RowInv
  <1>4. \A s \in Issued' : token'[s].family = f => s \in Issued
    BY <1>2, <1>3
  <1>5. ASSUME NEW k \in Calls, calls'[k].pc \in {"spend", "issue"},
               token'[calls'[k].token].family = f
        PROVE  Rotating(k, f)
    <2>1. calls'[k] = calls[k]
      BY <1>1
    <2>2. calls[k].token \in Issued
      BY <1>5, <2>1, OpenCall DEF Steps
    <2> QED BY <1>2, <1>5, <2>1, <2>2 DEF Rotating, RowsKept
  <1> QED BY <1>2, <1>4, <1>5, StaysDead

\* The INSERT of a rotation adds to the family of that rotation, which is not dead.
LEMMA IssueDead ==
    ASSUME IInv, NEW f \in Tokens, Dead(f),
           NEW c \in Calls, NEW t \in Tokens, Issue(c, t)
    PROVE  Live(f)' = {} /\ (\A k \in Calls : ~Rotating(k, f))'
  <1>1. calls[c].pc = "issue" /\ calls[c].pc \in Steps /\ Goto(c, "ok")
    BY DEF Issue, Steps
  <1>2. calls[c] \in Call /\ token[calls[c].token] \in TokenRow
    BY <1>1, OpenCall
  <1>3. PICK u \in Users, g \in Tokens :
            u = token[calls[c].token].user /\ g = token[calls[c].token].family
    BY <1>2 DEF TokenRow
  <1>4. IssueRefreshToken(t, u, g)
    BY <1>3 DEF Issue
  <1>5. /\ t \notin Issued /\ Issued' = Issued \cup {t} /\ RowsKept
        /\ token'[t].family = g
    BY <1>4, InsertStep DEF IInv
  <1>6. g # f
    BY <1>1, <1>3 DEF Dead, Rotating
  <1>7. \A s \in Issued' : token'[s].family = f => s \in Issued
    BY <1>5, <1>6
  <1>8. ASSUME NEW k \in Calls, calls'[k].pc \in {"spend", "issue"},
               token'[calls'[k].token].family = f
        PROVE  Rotating(k, f)
    <2>1. k # c
      <3>1. calls'[c].pc = "ok"
        BY <1>1, <1>2 DEF Goto, IInv, TypeOK, Call
      <3> QED BY <1>8, <3>1
    <2>2. calls'[k] = calls[k]
      BY <1>1, <2>1 DEF Goto, IInv, TypeOK
    <2>3. calls[k].token \in Issued
      BY <1>8, <2>2, OpenCall DEF Steps
    <2> QED BY <1>5, <1>8, <2>2, <2>3 DEF Rotating, RowsKept
  <1> QED BY <1>5, <1>7, <1>8, StaysDead

\* No step brings a dead family back to life.
LEMMA NextDead ==
    ASSUME IInv, [Next]_vars, NEW f \in Tokens, Dead(f)
    PROVE  Live(f)' = {} /\ (\A c \in Calls : ~Rotating(c, f))'
  <1>1. CASE Tick \/ UNCHANGED vars
    <2>1. Issued' = Issued /\ RowsKept /\ UNCHANGED calls
      BY <1>1 DEF Tick, vars, Issued, RowsKept
    <2> QED BY <2>1, NoNewRow
  <1>2. ASSUME NEW c \in Calls, Abort(c)
        PROVE  Live(f)' = {} /\ (\A k \in Calls : ~Rotating(k, f))'
    <2>1. /\ Issued' = Issued /\ RowsKept /\ Goto(c, "failed") /\ calls[c].pc \in Steps
      BY <1>2 DEF Abort, Ended, Issued, RowsKept
    <2> QED BY <2>1, NoNewRow DEF Answers
  <1>3. ASSUME NEW c \in Calls, Spend(c)
        PROVE  Live(f)' = {} /\ (\A k \in Calls : ~Rotating(k, f))'
    <2>1. calls[c].pc = "spend" /\ calls[c].pc \in Steps /\ Goto(c, "issue")
      BY <1>3 DEF Spend, Steps
    <2>2. PICK t \in Issued : t = calls[c].token
      BY <2>1, OpenCall
    <2>3. token' = Revoke({t})
      BY <1>3, <2>2 DEF Spend, Spent
    <2>4. Issued' = Issued /\ RowsKept
      BY <2>3, RevokeStep DEF IInv
    <2> QED BY <2>1, <2>4, NoNewRow DEF Steps
  <1>4. ASSUME NEW c \in Calls, Condemn(c)
        PROVE  Live(f)' = {} /\ (\A k \in Calls : ~Rotating(k, f))'
    <2>1. calls[c].pc \in Steps /\ Goto(c, "reused")
      BY <1>4 DEF Condemn, Steps
    <2>2. PICK S \in SUBSET Issued : token' = Revoke(S)
      BY <1>4 DEF Condemn, Family
    <2>3. Issued' = Issued /\ RowsKept
      BY <2>2, RevokeStep DEF IInv
    <2> QED BY <2>1, <2>3, NoNewRow DEF Answers
  <1>5. ASSUME NEW u \in Users, NEW g \in Tokens, DeleteSession(u, g)
        PROVE  Live(f)' = {} /\ (\A k \in Calls : ~Rotating(k, f))'
    <2>1. UNCHANGED calls
      BY <1>5 DEF DeleteSession
    <2>2. PICK S \in SUBSET Issued : token' = Revoke(S)
      BY <1>5 DEF DeleteSession, Live, Family
    <2>3. Issued' = Issued /\ RowsKept
      BY <2>2, RevokeStep DEF IInv
    <2> QED BY <2>1, <2>3, NoNewRow
  <1> QED BY <1>1, <1>2, <1>3, <1>4, <1>5, LoginDead, RotateDead, IssueDead DEF Next

\* rotateRefreshToken and DELETE /sessions: a dead family comes back only through a
\* rotation that had read its token before the family died.
THEOREM DeadStaysDead == Spec => DeadFamilyStaysDead
  <1>1. IInv /\ [Next]_vars =>
          [\A f \in Tokens :
              Family(f) # {} /\ Live(f) = {} /\ (\A c \in Calls : ~Rotating(c, f))
              => Live(f)' = {} /\ (\A c \in Calls : ~Rotating(c, f))']_vars
    BY NextDead DEF Dead
  <1> QED BY <1>1, InvHolds, PTL DEF Spec, DeadFamilyStaysDead

-----------------------------------------------------------------------------
(***************************************************************************)
(* A family none of whose tokens was presented twice does not fork.  Its   *)
(* one live token is the only one a rotation can start from, and from then *)
(* until its INSERT the rotation is the family's only one.                 *)
(***************************************************************************)

SingleUse(f) == \A t \in Family(f) : uses[t] <= 1

OneBranch(f) ==
    SingleUse(f) =>
        /\ \A s, t \in Live(f) : s = t
        /\ \A c, k \in Calls : Rotating(c, f) /\ Rotating(k, f) => c = k
        /\ \A c \in Calls : Rotating(c, f) =>
              \A t \in Live(f) : calls[c].pc = "spend" /\ calls[c].token = t

BranchInv == \A f \in Tokens : OneBranch(f)

LEMMA InitBranch == Init => BranchInv
  BY DEF Init, BranchInv, OneBranch, Live, Family, Issued, Rotating, NoCall

\* A call that moves keeps its token, and the others do not move.
LEMMA Moved ==
    ASSUME IInv, NEW c \in Calls, NEW pc, Goto(c, pc), calls[c].pc \in Steps
    PROVE  /\ calls'[c].pc = pc /\ calls'[c].token = calls[c].token
           /\ \A k \in Calls : k # c => calls'[k] = calls[k]
  <1>1. calls[c] \in Call
    BY OpenCall
  <1>2. calls'[c] = [calls[c] EXCEPT !.pc = pc]
    BY DEF Goto, IInv, TypeOK
  <1>3. calls'[c].pc = pc /\ calls'[c].token = calls[c].token
    BY <1>1, <1>2 DEF Call
  <1>4. \A k \in Calls : k # c => calls'[k] = calls[k]
    BY DEF Goto, IInv, TypeOK
  <1> QED BY <1>3, <1>4

\* A step that adds no row and starts no rotation.  One that goes on to its INSERT has
\* revoked its token.
LEMMA NoNewBranch ==
    ASSUME IInv, NEW f \in Tokens, OneBranch(f), RowsKept, Issued' = Issued, UNCHANGED uses,
           \A k \in Calls : calls'[k].pc \in {"spend", "issue"} =>
              /\ calls[k].pc \in {"spend", "issue"} /\ calls'[k].token = calls[k].token
              /\ calls'[k].pc = "spend" => calls[k].pc = "spend"
              /\ calls'[k].pc = "issue" =>
                    calls[k].pc = "issue" \/ token'[calls[k].token].revoked
    PROVE  OneBranch(f)'
  <1> SUFFICES ASSUME SingleUse(f)'
               PROVE  /\ (\A s, t \in Live(f) : s = t)'
                      /\ (\A c, k \in Calls : Rotating(c, f) /\ Rotating(k, f) => c = k)'
                      /\ (\A c \in Calls : Rotating(c, f) =>
                             \A t \in Live(f) : calls[c].pc = "spend" /\ calls[c].token = t)'
    BY DEF OneBranch
  <1>1. Family(f)' = Family(f)
    BY DEF RowsKept, Family
  <1>2. \A t \in Live(f)' : t \in Live(f) /\ ~token'[t].revoked
    BY <1>1 DEF RowsKept, Live, Family
  <1>3. SingleUse(f)
    BY <1>1 DEF SingleUse
  <1>4. ASSUME NEW c \in Calls, Rotating(c, f)'
        PROVE  /\ Rotating(c, f) /\ calls'[c].token = calls[c].token
               /\ calls'[c].pc = "spend" => calls[c].pc = "spend"
               /\ calls'[c].pc = "issue" =>
                     calls[c].pc = "issue" \/ token'[calls[c].token].revoked
    <2>1. /\ calls[c].pc \in {"spend", "issue"} /\ calls'[c].token = calls[c].token
          /\ token'[calls'[c].token].family = f
      BY <1>4 DEF Rotating
    <2>2. calls[c].token \in Issued
      BY <2>1, OpenCall DEF Steps
    <2>3. Rotating(c, f)
      BY <2>1, <2>2 DEF Rotating, RowsKept
    <2> QED BY <1>4, <2>1, <2>3 DEF Rotating
  <1>5. (\A s, t \in Live(f) : s = t)'
    BY <1>2, <1>3 DEF OneBranch
  <1>6. (\A c, k \in Calls : Rotating(c, f) /\ Rotating(k, f) => c = k)'
    BY <1>3, <1>4 DEF OneBranch
  <1>7. ASSUME NEW c \in Calls, Rotating(c, f)', NEW t \in Live(f)'
        PROVE  calls'[c].pc = "spend" /\ calls'[c].token = t
    <2>1. calls[c].pc = "spend" /\ calls[c].token = t /\ ~token'[t].revoked
      BY <1>2, <1>3, <1>4, <1>7 DEF OneBranch
    <2>2. calls'[c].pc \in {"spend", "issue"}
      BY <1>7 DEF Rotating
    <2> QED BY <1>4, <1>7, <2>1, <2>2
  <1> QED BY <1>5, <1>6, <1>7

\* rotateRefreshToken's SELECT: the first use of a live token finds no rotation of its
\* family under way, for that would be of the same token.
LEMMA RotateBranch ==
    ASSUME IInv, NEW f \in Tokens, OneBranch(f),
           NEW c \in Calls, NEW t \in Tokens, RotateRefreshToken(c, t)
    PROVE  OneBranch(f)'
  <1> SUFFICES ASSUME SingleUse(f)'
               PROVE  /\ (\A r, s \in Live(f) : r = s)'
                      /\ (\A j, k \in Calls : Rotating(j, f) /\ Rotating(k, f) => j = k)'
                      /\ (\A k \in Calls : Rotating(k, f) =>
                             \A s \in Live(f) : calls[k].pc = "spend" /\ calls[k].token = s)'
    BY DEF OneBranch
  <1>1. /\ UNCHANGED token /\ Issued' = Issued /\ t \in Issued /\ Ended(c)
        /\ uses' = [uses EXCEPT ![t] = @ + 1] /\ uses \in [Tokens -> Nat]
    BY DEF RotateRefreshToken, Issued, IInv, TypeOK, RowInv
  <1>2. Family(f)' = Family(f) /\ Live(f)' = Live(f) /\ Family(f) \subseteq Tokens
    BY <1>1 DEF Family, Live, Issued
  <1>3. SingleUse(f)
    BY <1>1, <1>2 DEF SingleUse
  <1>4. PICK call : call = [pc |-> AfterSelect(token[t]), token |-> t, first |-> uses[t] = 0]
    OBVIOUS
  <1>5. /\ calls'[c] = call /\ call.pc = AfterSelect(token[t]) /\ call.token = t
        /\ \A k \in Calls : k # c => calls'[k] = calls[k]
    BY <1>4 DEF RotateRefreshToken, IInv, TypeOK
  <1>6. \A k \in Calls : k # c => (Rotating(k, f)' <=> Rotating(k, f))
    BY <1>1, <1>5 DEF Rotating
  <1>7. (\A r, s \in Live(f) : r = s)'
    BY <1>2, <1>3 DEF OneBranch
  <1>8. CASE ~Rotating(c, f)'
    BY <1>2, <1>3, <1>5, <1>6, <1>7, <1>8 DEF OneBranch
  <1>9. CASE Rotating(c, f)'
    <2>1. token[t] \in TokenRow /\ now \in Nat
      BY <1>1 DEF Issued, IInv, TypeOK
    <2>2. call.pc \in {"expired", "condemn", "spend"} /\ (call.pc = "spend" => ~token[t].revoked)
      BY <1>5, <2>1 DEF AfterSelect, TokenRow
    <2>3. call.pc = "spend" /\ token[t].family = f
      BY <1>1, <1>5, <1>9, <2>2 DEF Rotating
    <2>4. t \in Live(f)
      BY <1>1, <2>2, <2>3 DEF Live, Family
    <2>5. uses[t] = 0
      <3>1. uses'[t] <= 1
        BY <1>2, <2>4 DEF SingleUse, Live
      <3> QED BY <1>1, <3>1
    <2>6. ASSUME NEW k \in Calls, k # c PROVE ~Rotating(k, f)
      <3> SUFFICES ASSUME Rotating(k, f) PROVE FALSE
        OBVIOUS
      <3>1. calls[k].token = t /\ calls[k].pc \in Steps
        BY <1>3, <2>4 DEF OneBranch, Rotating, Steps
      <3>2. uses[t] > 0
        BY <3>1, OpenCall DEF CallOK
      <3> QED BY <2>5, <3>2
    <2>7. (\A j, k \in Calls : Rotating(j, f) /\ Rotating(k, f) => j = k)'
      BY <1>6, <2>6
    <2>8. (\A k \in Calls : Rotating(k, f) =>
              \A s \in Live(f) : calls[k].pc = "spend" /\ calls[k].token = s)'
      <3>1. \A s \in Live(f)' : s = t
        BY <1>2, <1>3, <2>4 DEF OneBranch
      <3> QED BY <1>5, <1>6, <2>3, <2>6, <3>1
    <2> QED BY <1>7, <2>7, <2>8
  <1> QED BY <1>8, <1>9

\* issueSession: a login's family is new, with one live token and no rotation.
LEMMA LoginBranch ==
    ASSUME IInv, NEW f \in Tokens, OneBranch(f),
           NEW u \in Users, NEW t \in Tokens, IssueSession(u, t)
    PROVE  OneBranch(f)'
  <1>1. IssueRefreshToken(t, u, t) /\ UNCHANGED <<calls, uses>>
    BY DEF IssueSession
  <1>2. /\ t \notin Issued /\ Issued' = Issued \cup {t} /\ RowsKept
        /\ \A s \in Issued : token'[s] = token[s]
        /\ token'[t].family = t
    BY <1>1, InsertStep DEF IInv
  <1>3. \A k \in Calls : Rotating(k, f)' <=> Rotating(k, f)
    <2>1. \A k \in Calls : calls[k].pc \in {"spend", "issue"} => calls[k].token \in Issued
      BY OpenCall DEF Steps
    <2> QED BY <1>1, <1>2, <2>1 DEF Rotating
  <1>4. CASE f = t
    <2>1. Family(f) = {}
      BY <1>2, <1>4 DEF Family, IInv, RowInv
    <2>2. \A s \in Live(f)' : s = t
      BY <1>2, <1>4, <2>1 DEF Live, Family
    <2>3. \A k \in Calls : ~Rotating(k, f)
      <3>1. \A k \in Calls : calls[k].pc \in {"spend", "issue"} => calls[k].token \in Issued
        BY OpenCall DEF Steps
      <3> QED BY <2>1, <3>1 DEF Rotating, Family
    <2> QED BY <1>3, <2>2, <2>3 DEF OneBranch
  <1>5. CASE f # t
    <2>1. Family(f)' = Family(f) /\ Live(f)' = Live(f)
      BY <1>2, <1>5 DEF Live, Family
    <2> QED BY <1>1, <1>3, <2>1 DEF OneBranch, SingleUse
  <1> QED BY <1>4, <1>5

\* The INSERT of the family's only rotation, when none of its tokens is live.
LEMMA IssueBranch ==
    ASSUME IInv, NEW f \in Tokens, OneBranch(f),
           NEW c \in Calls, NEW t \in Tokens, Issue(c, t)
    PROVE  OneBranch(f)'
  <1>1. calls[c].pc = "issue" /\ calls[c].pc \in Steps /\ Goto(c, "ok") /\ UNCHANGED uses
    BY DEF Issue, Steps
  <1>2. token[calls[c].token] \in TokenRow
    BY <1>1, OpenCall
  <1>3. PICK u \in Users, g \in Tokens :
            u = token[calls[c].token].user /\ g = token[calls[c].token].family
    BY <1>2 DEF TokenRow
  <1>4. IssueRefreshToken(t, u, g)
    BY <1>3 DEF Issue
  <1>5. /\ t \notin Issued /\ Issued' = Issued \cup {t} /\ RowsKept
        /\ \A s \in Issued : token'[s] = token[s]
        /\ token'[t].family = g
    BY <1>4, InsertStep DEF IInv
  <1>6. /\ calls'[c].pc = "ok"
        /\ \A k \in Calls : k # c => calls'[k] = calls[k]
    BY <1>1, Moved
  <1>7. /\ ~Rotating(c, f)'
        /\ \A k \in Calls : k # c => (Rotating(k, f)' <=> Rotating(k, f))
    <2>1. \A k \in Calls : calls[k].pc \in {"spend", "issue"} => calls[k].token \in Issued
      BY OpenCall DEF Steps
    <2> QED BY <1>5, <1>6, <2>1 DEF Rotating
  <1>8. CASE f = g
    <2>1. Rotating(c, f)
      BY <1>1, <1>3, <1>8 DEF Rotating
    <2>2. Family(f) \subseteq Family(f)' /\ Live(f)' \subseteq Live(f) \cup {t}
      BY <1>5 DEF Family, Live
    <2>3. SingleUse(f)' => SingleUse(f)
      BY <1>1, <2>2 DEF SingleUse
    <2>4. SingleUse(f) => Live(f) = {} /\ \A k \in Calls : k # c => ~Rotating(k, f)
      BY <1>1, <2>1 DEF OneBranch
    <2> QED BY <1>7, <2>2, <2>3, <2>4 DEF OneBranch
  <1>9. CASE f # g
    <2>1. Family(f)' = Family(f) /\ Live(f)' = Live(f)
      BY <1>5, <1>9 DEF Live, Family
    <2> QED BY <1>1, <1>6, <1>7, <2>1 DEF OneBranch, SingleUse
  <1> QED BY <1>8, <1>9

\* No step forks a family of single-use tokens.
LEMMA NextBranch == IInv /\ BranchInv /\ [Next]_vars => BranchInv'
  <1> SUFFICES ASSUME IInv, BranchInv, [Next]_vars, NEW f \in Tokens PROVE OneBranch(f)'
    BY DEF BranchInv
  <1>0. OneBranch(f)
    BY DEF BranchInv
  <1>1. CASE Tick \/ UNCHANGED vars
    <2>1. Issued' = Issued /\ RowsKept /\ UNCHANGED <<calls, uses>>
      BY <1>1 DEF Tick, vars, Issued, RowsKept
    <2> QED BY <1>0, <2>1, NoNewBranch
  <1>2. ASSUME NEW c \in Calls, Abort(c) PROVE OneBranch(f)'
    <2>1. /\ Issued' = Issued /\ RowsKept /\ UNCHANGED uses
          /\ Goto(c, "failed") /\ calls[c].pc \in Steps
      BY <1>2 DEF Abort, Ended, Issued, RowsKept
    <2>2. calls'[c].pc = "failed" /\ \A k \in Calls : k # c => calls'[k] = calls[k]
      BY <2>1, Moved
    <2> QED BY <1>0, <2>1, <2>2, NoNewBranch
  <1>3. ASSUME NEW c \in Calls, Spend(c) PROVE OneBranch(f)'
    <2>1. /\ calls[c].pc = "spend" /\ calls[c].pc \in Steps /\ Goto(c, "issue")
          /\ UNCHANGED uses
      BY <1>3 DEF Spend, Steps
    <2>2. PICK t \in Issued : t = calls[c].token
      BY <2>1, OpenCall
    <2>3. token' = Revoke({t})
      BY <1>3, <2>2 DEF Spend, Spent
    <2>4. Issued' = Issued /\ RowsKept /\ token'[t].revoked
      BY <2>3, RevokeStep DEF IInv
    <2>5. /\ calls'[c].pc = "issue" /\ calls'[c].token = t
          /\ \A k \in Calls : k # c => calls'[k] = calls[k]
      BY <2>1, <2>2, Moved
    <2> QED BY <1>0, <2>1, <2>2, <2>4, <2>5, NoNewBranch
  <1>4. ASSUME NEW c \in Calls, Condemn(c) PROVE OneBranch(f)'
    <2>1. calls[c].pc \in Steps /\ Goto(c, "reused") /\ UNCHANGED uses
      BY <1>4 DEF Condemn, Steps
    <2>2. PICK S \in SUBSET Issued : token' = Revoke(S)
      BY <1>4 DEF Condemn, Family
    <2>3. Issued' = Issued /\ RowsKept
      BY <2>2, RevokeStep DEF IInv
    <2>4. calls'[c].pc = "reused" /\ \A k \in Calls : k # c => calls'[k] = calls[k]
      BY <2>1, Moved
    <2> QED BY <1>0, <2>1, <2>3, <2>4, NoNewBranch
  <1>5. ASSUME NEW u \in Users, NEW g \in Tokens, DeleteSession(u, g) PROVE OneBranch(f)'
    <2>1. UNCHANGED <<calls, uses>>
      BY <1>5 DEF DeleteSession
    <2>2. PICK S \in SUBSET Issued : token' = Revoke(S)
      BY <1>5 DEF DeleteSession, Live, Family
    <2>3. Issued' = Issued /\ RowsKept
      BY <2>2, RevokeStep DEF IInv
    <2> QED BY <1>0, <2>1, <2>3, NoNewBranch
  <1> QED BY <1>0, <1>1, <1>2, <1>3, <1>4, <1>5, LoginBranch, RotateBranch, IssueBranch
      DEF Next

\* rotateRefreshToken, without a transaction around its three statements: a family
\* whose tokens were each presented at most once has at most one live token, however
\* many rotations are open, fail or race with a revocation.
THEOREM SingleUseNeverForks == Spec => []SingleUseKeepsOneLive
  <1>1. Spec => []BranchInv
    BY InitBranch, NextBranch, InitInv, NextInv, PTL DEF Spec
  <1>2. BranchInv => SingleUseKeepsOneLive
    <2> SUFFICES ASSUME BranchInv, NEW f \in Tokens, SingleUse(f)
                 PROVE  Cardinality(Live(f)) <= 1
      BY DEF SingleUseKeepsOneLive, SingleUse
    <2>1. \A s, t \in Live(f) : s = t
      BY DEF BranchInv, OneBranch
    <2>2. CASE Live(f) = {}
      <3>1. Cardinality(Live(f)) = 0
        BY <2>2, FS_EmptySet
      <3> QED BY <3>1
    <2>3. CASE Live(f) # {}
      <3>1. PICK t : Live(f) = {t}
        BY <2>1, <2>3
      <3>2. Cardinality(Live(f)) = 1
        BY <3>1, FS_Singleton
      <3> QED BY <3>2
    <2> QED BY <2>2, <2>3
  <1> QED BY <1>1, <1>2, PTL
=============================================================================
