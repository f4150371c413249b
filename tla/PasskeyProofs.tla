---------------------------- MODULE PasskeyProofs ----------------------------
(***************************************************************************)
(* Theorems about Passkey for every set of users, challenges, credentials  *)
(* and concurrent verify calls, and every number of failures and restarts. *)
(***************************************************************************)
EXTENDS Passkey, TLAPS

\* The challenge a map holds is the last one issued to its user.
StoreInv ==
    \A x \in Kinds, u \in Users :
        challenge[x][u] # NULL =>
            /\ challenge[x][u] = latest[x][u]
            /\ issued[challenge[x][u]] # NULL

\* A response is to a challenge that was issued, and an assertion is of a credential
\* that is stored.
ResponseOK(r) ==
    /\ issued[r.challenge] # NULL
    /\ r.kind = "login" => credential[r.credential] # NULL

ResponseInv == \A r \in responses : ResponseOK(r)

\* No map holds a challenge that was answered with success.
AcceptedInv ==
    /\ accepted \subseteq responses
    /\ \A r \in accepted : challenge[r.kind][r.user] # r.challenge

\* What a verify call relies on between two statements.
CallOK(call) ==
    call # NoCall =>
        /\ call.response \in responses
        /\ call.pc \in Steps \cup {"accepted"} => ~call.late
        /\ call.pc \in {"insert", "keygen"} => call.response.kind = "registration"
        /\ call.pc \in {"select", "update"} => call.response.kind = "login"
        /\ call.pc = "update" => ~RefusesCounter(call.response.counter, call.read)

CallInv == \A k \in Calls : CallOK(calls[k])

IInv == TypeOK /\ StoreInv /\ ResponseInv /\ AcceptedInv /\ CallInv /\ CredentialHasKey

-----------------------------------------------------------------------------
\* NULL is no challenge, no row and no purpose.
LEMMA NullApart == NULL \notin Challenges /\ NULL \notin CredentialRow /\ NULL \notin Purpose
  BY NullAssumption

LEMMA InitInv == Init => IInv
  <1> SUFFICES ASSUME Init PROVE IInv
    OBVIOUS
  <1>1. TypeOK
    BY DEF Init, TypeOK
  <1>2. StoreInv /\ ResponseInv /\ AcceptedInv /\ CredentialHasKey
    BY DEF Init, StoreInv, ResponseInv, AcceptedInv, CredentialHasKey
  <1>3. CallInv
    BY DEF Init, CallInv, CallOK
  <1> QED BY <1>1, <1>2, <1>3 DEF IInv

\* Credentials and issued challenges are only ever added, and so are responses: what was
\* said of a response or a call stays true.
Grows ==
    /\ responses \subseteq responses'
    /\ \A h \in Challenges : issued[h] # NULL => issued'[h] # NULL
    /\ \A c \in Credentials : credential[c] # NULL => credential'[c] # NULL

LEMMA ResponseKept ==
    ASSUME Grows, NEW r \in Response, ResponseOK(r)
    PROVE  ResponseOK(r)'
  BY DEF Grows, ResponseOK, Response

LEMMA CallKept ==
    ASSUME Grows, NEW call, CallOK(call)
    PROVE  CallOK(call)'
  BY DEF Grows, CallOK

-----------------------------------------------------------------------------
\* A challenge that is fresh replaces the pending one; nobody has answered it.
LEMMA GenerateOptionsStep ==
    ASSUME IInv, NEW x \in Kinds, NEW u \in Users, NEW h \in Challenges,
           GenerateOptions(x, u, h)
    PROVE  IInv'
  <1> USE DEF IInv
  <1>1. /\ issued[h] = NULL /\ issued' = [issued EXCEPT ![h] = [kind |-> x, user |-> u]]
        /\ latest' = [latest EXCEPT ![x][u] = h] /\ challenge' = [challenge EXCEPT ![x][u] = h]
        /\ UNCHANGED <<credential, keys, device, responses, accepted, calls, failures>>
    BY DEF GenerateOptions, Stored
  <1>2. [kind |-> x, user |-> u] \in Purpose /\ [kind |-> x, user |-> u] # NULL
    BY NullApart DEF Purpose
  <1>3. Grows
    BY <1>1, <1>2 DEF Grows, TypeOK
  <1>4. TypeOK'
    BY <1>1, <1>2 DEF TypeOK
  <1>5. StoreInv'
    BY <1>1, <1>2, NullApart DEF StoreInv, TypeOK
  <1>6. ResponseInv'
    BY <1>1, <1>3, ResponseKept DEF ResponseInv, TypeOK
  <1>7. AcceptedInv'
    <2>1. \A r \in accepted : r.challenge # h /\ r.kind \in Kinds /\ r.user \in Users
      BY <1>1 DEF AcceptedInv, ResponseInv, ResponseOK, TypeOK, Response
    <2> QED BY <1>1, <2>1 DEF AcceptedInv, TypeOK
  <1>8. CallInv'
    BY <1>1, <1>3, CallKept DEF CallInv
  <1>9. CredentialHasKey'
    BY <1>1 DEF CredentialHasKey
  <1> QED BY <1>4, <1>5, <1>6, <1>7, <1>8, <1>9

LEMMA RespondStep ==
    ASSUME IInv, NEW h \in Challenges, NEW c \in Credentials, Respond(h, c)
    PROVE  IInv'
  <1> USE DEF IInv
  <1> DEFINE counter == IF issued[h].kind = "login" /\ c \in Counting THEN device[c] + 1 ELSE 0
             r == [kind |-> issued[h].kind, user |-> issued[h].user, credential |-> c,
                   challenge |-> h, counter |-> counter]
  <1>1. /\ issued[h] # NULL /\ issued[h] \in Purpose
        /\ issued[h].kind = "login" => credential[c] # NULL
        /\ device' = [device EXCEPT ![c] = IF counter > 0 THEN counter ELSE @]
        /\ responses' = responses \cup {r}
        /\ UNCHANGED <<challenge, credential, keys, latest, issued, accepted, calls, failures>>
    BY DEF Respond, Registered, TypeOK, Purpose, Kinds
  <1>2. counter \in Nat /\ r \in Response
    BY <1>1 DEF Purpose, Response, TypeOK
  <1>3. Grows
    BY <1>1 DEF Grows
  <1>4. TypeOK'
    BY <1>1, <1>2 DEF TypeOK
  <1>5. issued'[r.challenge] # NULL /\ (r.kind = "login" => credential'[r.credential] # NULL)
    BY <1>1
  <1>6. ResponseInv'
    <2>1. \A q \in responses : ResponseOK(q)'
      BY <1>3, ResponseKept DEF ResponseInv, TypeOK
    <2> HIDE DEF r
    <2> QED BY <1>1, <1>5, <2>1 DEF ResponseInv, ResponseOK
  <1>7. StoreInv' /\ AcceptedInv' /\ CredentialHasKey'
    BY <1>1 DEF StoreInv, AcceptedInv, CredentialHasKey
  <1>8. CallInv'
    BY <1>1, <1>3, CallKept DEF CallInv
  <1> QED BY <1>4, <1>6, <1>7, <1>8

-----------------------------------------------------------------------------
\* A call passes the lookup only with the last challenge issued, unanswered so far.
LEMMA VerifyStep ==
    ASSUME IInv, NEW k \in Calls, NEW r \in responses, Verify(k, r)
    PROVE  IInv'
  <1> USE DEF IInv
  <1> DEFINE found == challenge[r.kind][r.user] = r.challenge
             late  == r \in accepted \/ r.challenge # latest[r.kind][r.user]
             call  == [pc |-> IF found THEN FirstStep(r.kind) ELSE "rejected",
                       response |-> r, read |-> 0, late |-> late]
  <1>1. /\ calls[k].pc \notin Steps /\ calls' = [calls EXCEPT ![k] = call]
        /\ UNCHANGED <<challenge, credential, keys, latest, issued, device, responses,
                       accepted, failures>>
    BY DEF Verify, Ended
  <1>2. r \in Response /\ r.kind \in Kinds /\ r.user \in Users /\ r.challenge \in Challenges
    BY DEF TypeOK, Response
  <1>3. late \in BOOLEAN /\ call.pc \in Steps \cup Answers
    BY DEF FirstStep, Steps, Answers
  <1>4. call \in Call
    BY <1>2, <1>3 DEF Call
  <1>5. TypeOK'
    BY <1>1, <1>4 DEF TypeOK
  <1>6. found => ~late
    BY <1>2, NullApart DEF StoreInv, AcceptedInv
  <1>7. CallOK(call)
    <2>1. call.response = r /\ call.late = late /\ call.read = 0
          /\ call.pc = IF found THEN FirstStep(r.kind) ELSE "rejected"
      OBVIOUS
    <2>2. call.pc \in Steps \cup {"accepted"} => ~call.late
      BY <1>6, <2>1 DEF Steps
    <2>3. /\ call.pc \in {"insert", "keygen"} => r.kind = "registration"
          /\ call.pc \in {"select", "update"} => r.kind = "login"
          /\ call.pc # "update"
      BY <1>2, <2>1 DEF FirstStep, Kinds
    <2> QED BY <2>1, <2>2, <2>3 DEF CallOK
  <1>8. CallInv'
    <2>1. Grows
      BY <1>1 DEF Grows
    <2> QED BY <1>1, <1>7, <2>1, CallKept DEF CallInv, TypeOK
  <1>9. CredentialHasKey'
    <2>1. \A j \in Calls : calls[j].pc = "keygen" => calls'[j] = calls[j]
      BY <1>1 DEF TypeOK, Steps
    <2> QED BY <1>1, <2>1 DEF CredentialHasKey
  <1>10. StoreInv' /\ ResponseInv' /\ AcceptedInv'
    BY <1>1 DEF StoreInv, ResponseInv, ResponseOK, AcceptedInv
  <1> QED BY <1>5, <1>8, <1>9, <1>10

\* An open call is a record of a response.
LEMMA Open ==
    ASSUME TypeOK, NEW k \in Calls, calls[k].pc \in Steps
    PROVE  /\ calls[k] \in Call /\ calls[k] # NoCall
           /\ calls[k].response \in Response
  BY DEF TypeOK, NoCall, Steps, Call

\* What a Goto leaves of a call.
LEMMA Going ==
    ASSUME TypeOK, NEW k \in Calls, calls[k].pc \in Steps, NEW pc \in Steps \cup Answers, Goto(k, pc)
    PROVE  /\ calls' \in [Calls -> Call \cup {NoCall}]
           /\ calls'[k] \in Call /\ calls'[k].pc = pc
           /\ calls'[k].response = calls[k].response /\ calls'[k].read = calls[k].read
           /\ calls'[k].late = calls[k].late
           /\ \A j \in Calls : j # k => calls'[j] = calls[j]
  BY Open DEF Goto, TypeOK, Call

LEMMA InsertCredentialStep ==
    ASSUME IInv, NEW k \in Calls, InsertCredential(k)
    PROVE  IInv'
  <1> USE DEF IInv
  <1> DEFINE r == calls[k].response
             row == [user |-> r.user, counter |-> r.counter]
  <1>1. /\ calls[k].pc = "insert" /\ calls[k].pc \in Steps
        /\ UNCHANGED <<challenge, keys, latest, issued, device, responses, accepted, failures>>
    BY DEF InsertCredential, Steps
  <1>2. /\ calls[k] \in Call /\ calls[k] # NoCall /\ r \in Response
        /\ CallOK(calls[k])
    BY <1>1, Open DEF CallInv
  <1>3. CASE credential[r.credential] # NULL
    <2>1. Goto(k, "rejected") /\ credential' = credential
      BY <1>3 DEF InsertCredential
    <2>2. /\ calls' \in [Calls -> Call \cup {NoCall}]
          /\ calls'[k].pc = "rejected" /\ calls'[k].response = r
          /\ \A j \in Calls : j # k => calls'[j] = calls[j]
      BY <1>1, <2>1, Going DEF Answers
    <2>3. TypeOK' /\ StoreInv' /\ ResponseInv' /\ AcceptedInv' /\ Grows
      BY <1>1, <2>1, <2>2 DEF TypeOK, StoreInv, ResponseInv, ResponseOK, AcceptedInv, Grows
    <2>4. CallInv'
      BY <1>1, <1>2, <2>2, <2>3, CallKept DEF CallInv, CallOK, Steps
    <2>5. CredentialHasKey'
      BY <1>1, <2>1, <2>2 DEF CredentialHasKey
    <2> QED BY <2>3, <2>4, <2>5
  <1>4. CASE credential[r.credential] = NULL
    <2>1. Goto(k, "keygen") /\ credential' = [credential EXCEPT ![r.credential] = row]
      BY <1>4 DEF InsertCredential, AfterInsert, NewCounter
    <2>2. /\ calls' \in [Calls -> Call \cup {NoCall}]
          /\ calls'[k].pc = "keygen" /\ calls'[k].response = r /\ calls'[k].late = calls[k].late
          /\ \A j \in Calls : j # k => calls'[j] = calls[j]
      BY <1>1, <2>1, Going DEF Steps
    <2>3. row \in CredentialRow /\ row # NULL /\ r.credential \in Credentials /\ row.user = r.user
      BY <1>2, NullApart DEF Response, CredentialRow
    <2>4. TypeOK' /\ Grows
      BY <1>1, <2>1, <2>2, <2>3 DEF TypeOK, Grows
    <2>5. StoreInv' /\ AcceptedInv'
      BY <1>1 DEF StoreInv, AcceptedInv
    <2>6. ResponseInv'
      BY <1>1, <2>4, ResponseKept DEF ResponseInv, TypeOK
    <2>7. CallInv'
      BY <1>1, <1>2, <2>2, <2>4, CallKept DEF CallInv, CallOK, Steps
    <2>8. CredentialHasKey'
      BY <1>1, <2>1, <2>2, <2>3 DEF CredentialHasKey, TypeOK
    <2> QED BY <2>4, <2>5, <2>6, <2>7, <2>8
  <1> QED BY <1>3, <1>4

\* The key is stored, or its failure is counted.
LEMMA GenerateKeypairStep ==
    ASSUME IInv, NEW k \in Calls, GenerateKeypair(k)
    PROVE  IInv'
  <1> USE DEF IInv
  <1> DEFINE r == calls[k].response
  <1>1. /\ calls[k].pc = "keygen" /\ calls[k].pc \in Steps /\ Goto(k, "clear")
        /\ \/ keys' = keys \cup {r.user} /\ failures' = failures
           \/ keys' = keys /\ failures' = failures + 1
        /\ UNCHANGED <<challenge, credential, latest, issued, device, responses, accepted>>
    BY DEF GenerateKeypair, Steps
  <1>2. calls[k] \in Call /\ calls[k] # NoCall /\ r \in Response /\ CallOK(calls[k])
    BY <1>1, Open DEF CallInv
  <1>3. /\ calls' \in [Calls -> Call \cup {NoCall}]
        /\ calls'[k].pc = "clear" /\ calls'[k].response = r /\ calls'[k].late = calls[k].late
        /\ \A j \in Calls : j # k => calls'[j] = calls[j]
    BY <1>1, Going DEF Steps
  <1>4. keys' \subseteq Users /\ failures' \in Nat
    BY <1>1, <1>2 DEF TypeOK, Response
  <1>5. TypeOK' /\ StoreInv' /\ ResponseInv' /\ AcceptedInv' /\ Grows
    BY <1>1, <1>3, <1>4 DEF TypeOK, StoreInv, ResponseInv, ResponseOK, AcceptedInv, Grows
  <1>6. CallInv'
    BY <1>1, <1>2, <1>3, <1>5, CallKept DEF CallInv, CallOK, Steps
  <1>7. CredentialHasKey'
    BY <1>1, <1>3 DEF CredentialHasKey, TypeOK
  <1> QED BY <1>5, <1>6, <1>7

\* The update follows only a counter that the check let through.
LEMMA SelectCredentialStep ==
    ASSUME IInv, NEW k \in Calls, SelectCredential(k)
    PROVE  IInv'
  <1> USE DEF IInv
  <1> DEFINE r == calls[k].response
             row == credential[r.credential]
             pc == IF RefusesCounter(r.counter, row.counter) THEN "rejected" ELSE "update"
  <1>1. /\ calls[k].pc = "select" /\ calls[k].pc \in Steps
        /\ calls' = [calls EXCEPT ![k].pc = pc, ![k].read = row.counter]
        /\ UNCHANGED <<challenge, credential, keys, latest, issued, device, responses,
                       accepted, failures>>
    BY DEF SelectCredential, Steps
  <1>2. calls[k] \in Call /\ calls[k] # NoCall /\ r \in Response /\ CallOK(calls[k])
    BY <1>1, Open DEF CallInv
  <1>3. row \in CredentialRow /\ row.counter \in Nat
    BY <1>1, <1>2 DEF CallOK, ResponseInv, ResponseOK, TypeOK, Response, CredentialRow
  <1>4. /\ calls' \in [Calls -> Call \cup {NoCall}] /\ calls'[k] \in Call
        /\ calls'[k].pc = pc /\ calls'[k].response = r /\ calls'[k].late = calls[k].late
        /\ calls'[k].read = row.counter
        /\ \A j \in Calls : j # k => calls'[j] = calls[j]
    BY <1>1, <1>2, <1>3 DEF TypeOK, Call, Steps, Answers
  <1>5. TypeOK' /\ StoreInv' /\ ResponseInv' /\ AcceptedInv' /\ Grows
    BY <1>1, <1>4 DEF TypeOK, StoreInv, ResponseInv, ResponseOK, AcceptedInv, Grows
  <1>6. CallOK(calls[k])'
    BY <1>1, <1>2, <1>4, <1>5 DEF CallOK, Steps, Grows
  <1>7. CallInv'
    BY <1>4, <1>5, <1>6, CallKept DEF CallInv
  <1>8. CredentialHasKey'
    BY <1>1, <1>4 DEF CredentialHasKey
  <1> QED BY <1>5, <1>7, <1>8

LEMMA UpdateCounterStep ==
    ASSUME IInv, NEW k \in Calls, UpdateCounter(k)
    PROVE  IInv'
  <1> USE DEF IInv
  <1> DEFINE r == calls[k].response
  <1>1. /\ calls[k].pc = "update" /\ calls[k].pc \in Steps /\ Goto(k, "clear")
        /\ credential' = [credential EXCEPT ![r.credential].counter = r.counter]
        /\ UNCHANGED <<challenge, keys, latest, issued, device, responses, accepted, failures>>
    BY DEF UpdateCounter, NewCounter, Steps
  <1>2. calls[k] \in Call /\ calls[k] # NoCall /\ r \in Response /\ CallOK(calls[k])
    BY <1>1, Open DEF CallInv
  <1>3. /\ r.credential \in Credentials /\ r.counter \in Nat
        /\ credential[r.credential] \in CredentialRow
    BY <1>1, <1>2 DEF CallOK, ResponseInv, ResponseOK, TypeOK, Response
  <1>4. /\ credential' \in [Credentials -> CredentialRow \cup {NULL}]
        /\ credential'[r.credential] \in CredentialRow
        /\ credential'[r.credential].user = credential[r.credential].user
        /\ \A c \in Credentials : c # r.credential => credential'[c] = credential[c]
    BY <1>1, <1>3 DEF TypeOK, CredentialRow
  <1>5. /\ calls' \in [Calls -> Call \cup {NoCall}]
        /\ calls'[k].pc = "clear" /\ calls'[k].response = r /\ calls'[k].late = calls[k].late
        /\ \A j \in Calls : j # k => calls'[j] = calls[j]
    BY <1>1, Going DEF Steps
  <1>6. TypeOK' /\ StoreInv' /\ AcceptedInv' /\ Grows
    BY <1>1, <1>4, <1>5, NullApart DEF TypeOK, StoreInv, AcceptedInv, Grows
  <1>7. ResponseInv'
    BY <1>1, <1>6, ResponseKept DEF ResponseInv, TypeOK
  <1>8. CallInv'
    BY <1>1, <1>2, <1>5, <1>6, CallKept DEF CallInv, CallOK, Steps
  <1>9. CredentialHasKey'
    BY <1>1, <1>3, <1>4, <1>5, NullApart DEF CredentialHasKey
  <1> QED BY <1>6, <1>7, <1>8, <1>9

\* The delete is of the accepted challenge or of one that replaced it meanwhile.
LEMMA ClearStep ==
    ASSUME IInv, NEW k \in Calls, Clear(k)
    PROVE  IInv'
  <1> USE DEF IInv
  <1> DEFINE r == calls[k].response
  <1>1. /\ calls[k].pc = "clear" /\ calls[k].pc \in Steps /\ Goto(k, "accepted")
        /\ challenge' = [challenge EXCEPT ![r.kind][r.user] = NULL]
        /\ accepted' = accepted \cup {r}
        /\ UNCHANGED <<credential, keys, latest, issued, device, responses, failures>>
    BY DEF Clear, Cleared, Steps
  <1>2. calls[k] \in Call /\ calls[k] # NoCall /\ r \in Response /\ CallOK(calls[k])
    BY <1>1, Open DEF CallInv
  <1>3. r \in responses /\ r.kind \in Kinds /\ r.user \in Users /\ r.challenge \in Challenges
    BY <1>2 DEF CallOK, Response
  <1>4. /\ calls' \in [Calls -> Call \cup {NoCall}]
        /\ calls'[k].pc = "accepted" /\ calls'[k].response = r /\ calls'[k].late = calls[k].late
        /\ \A j \in Calls : j # k => calls'[j] = calls[j]
    BY <1>1, Going DEF Answers
  <1>5. /\ challenge' \in [Kinds -> [Users -> Challenges \cup {NULL}]]
        /\ challenge'[r.kind][r.user] = NULL
        /\ \A x \in Kinds, u \in Users : challenge'[x][u] \in {challenge[x][u], NULL}
    BY <1>1, <1>3 DEF TypeOK
  <1>6. TypeOK' /\ ResponseInv' /\ Grows
    BY <1>1, <1>2, <1>4, <1>5 DEF TypeOK, ResponseInv, ResponseOK, Grows
  <1>7. StoreInv'
    BY <1>1, <1>5 DEF StoreInv
  <1>8. AcceptedInv'
    <2>1. \A s \in accepted : s.challenge # NULL /\ s.kind \in Kinds /\ s.user \in Users
      BY NullApart DEF TypeOK, Response
    <2> QED BY <1>1, <1>3, <1>5, <2>1, NullApart DEF AcceptedInv
  <1>9. CallInv'
    BY <1>1, <1>2, <1>4, <1>6, CallKept DEF CallInv, CallOK, Steps
  <1>10. CredentialHasKey'
    BY <1>1, <1>4 DEF CredentialHasKey
  <1> QED BY <1>6, <1>7, <1>8, <1>9, <1>10

LEMMA AbortStep ==
    ASSUME IInv, NEW k \in Calls, Abort(k)
    PROVE  IInv'
  <1> USE DEF IInv
  <1>1. /\ calls[k].pc \in Steps /\ Goto(k, "failed") /\ failures' = failures + 1
        /\ UNCHANGED <<challenge, credential, keys, latest, issued, device, responses, accepted>>
    BY DEF Abort
  <1>2. calls[k] # NoCall /\ CallOK(calls[k])
    BY <1>1, Open DEF CallInv
  <1>3. /\ calls' \in [Calls -> Call \cup {NoCall}]
        /\ calls'[k].pc = "failed" /\ calls'[k].response = calls[k].response
        /\ \A j \in Calls : j # k => calls'[j] = calls[j]
    BY <1>1, Going DEF Answers
  <1>4. TypeOK' /\ StoreInv' /\ ResponseInv' /\ AcceptedInv' /\ Grows
    BY <1>1, <1>3 DEF TypeOK, StoreInv, ResponseInv, ResponseOK, AcceptedInv, Grows
  <1>5. CallInv'
    BY <1>2, <1>3, <1>4, CallKept DEF CallInv, CallOK, Steps
  <1>6. CredentialHasKey'
    BY <1>1 DEF CredentialHasKey, TypeOK
  <1> QED BY <1>4, <1>5, <1>6

\* What a restart loses, the maps and the open calls, the invariant does not need.
LEMMA RestartStep ==
    ASSUME IInv, Restart
    PROVE  IInv'
  <1> USE DEF IInv
  <1>1. /\ challenge' = [x \in Kinds |-> [u \in Users |-> NULL]] /\ failures' = failures + 1
        /\ calls' = [k \in Calls |-> IF Ended(k) THEN calls[k] ELSE [calls[k] EXCEPT !.pc = "failed"]]
        /\ UNCHANGED <<credential, keys, latest, issued, device, responses, accepted>>
    BY DEF Restart
  <1>2. \A k \in Calls :
           \/ calls'[k] = calls[k]
           \/ /\ calls[k] # NoCall /\ calls'[k] \in Call
              /\ calls'[k].pc = "failed" /\ calls'[k].response = calls[k].response
    <2> SUFFICES ASSUME NEW k \in Calls, calls[k].pc \in Steps
                 PROVE  /\ calls[k] # NoCall /\ calls'[k] \in Call
                        /\ calls'[k].pc = "failed" /\ calls'[k].response = calls[k].response
      BY <1>1 DEF Ended
    <2>1. calls[k] # NoCall /\ calls[k] \in Call /\ calls'[k] = [calls[k] EXCEPT !.pc = "failed"]
      BY <1>1, Open DEF Ended
    <2> QED BY <2>1 DEF Call, Answers
  <1>3. TypeOK'
    BY <1>1, <1>2 DEF TypeOK
  <1>4. StoreInv' /\ ResponseInv' /\ Grows
    BY <1>1 DEF StoreInv, ResponseInv, ResponseOK, Grows
  <1>5. AcceptedInv'
    <2>1. \A r \in accepted : r.challenge # NULL /\ r.kind \in Kinds /\ r.user \in Users
      BY NullApart DEF TypeOK, Response
    <2> QED BY <1>1, <2>1 DEF AcceptedInv
  <1>6. CallInv'
    <2> SUFFICES ASSUME NEW k \in Calls PROVE CallOK(calls[k])'
      BY DEF CallInv
    <2>1. CASE calls'[k] = calls[k]
      BY <2>1, <1>4, CallKept DEF CallInv
    <2>2. CASE calls'[k] # calls[k]
      BY <2>2, <1>1, <1>2 DEF CallInv, CallOK, Steps
    <2> QED BY <2>1, <2>2
  <1>7. CredentialHasKey'
    BY <1>1 DEF CredentialHasKey, TypeOK
  <1> QED BY <1>3, <1>4, <1>5, <1>6, <1>7

-----------------------------------------------------------------------------
\* The invariant is inductive.
LEMMA StepInv == IInv /\ [Next]_vars => IInv'
  <1> SUFFICES ASSUME IInv, [Next]_vars PROVE IInv'
    OBVIOUS
  <1>1. CASE UNCHANGED vars
    BY <1>1 DEF vars, IInv, TypeOK, StoreInv, ResponseInv, ResponseOK, AcceptedInv, CallInv,
       CallOK, CredentialHasKey
  <1>2. CASE Next
    BY <1>2, GenerateOptionsStep, RespondStep, VerifyStep, InsertCredentialStep,
       GenerateKeypairStep, SelectCredentialStep, UpdateCounterStep, ClearStep, AbortStep,
       RestartStep DEF Next
  <1> QED BY <1>1, <1>2

LEMMA Invariance == Spec => []IInv
  <1>1. Init => IInv
    BY InitInv
  <1>2. IInv /\ [Next]_vars => IInv'
    BY StepInv
  <1> QED BY <1>1, <1>2, PTL DEF Spec

\* Every variable of Passkey keeps its type; in particular a login never reads or
\* updates a credential that is not stored.
THEOREM TypeCorrect == Spec => []TypeOK
  <1>1. IInv => TypeOK
    BY DEF IInv
  <1> QED BY <1>1, Invariance, PTL

\* challengeStore and loginChallengeStore: a response is accepted only for the newest
\* challenge of its user and only by calls that overlap.
THEOREM OnlyLatestOnce == Spec => []OnlyLatestAndOnce
  <1>1. IInv => OnlyLatestAndOnce
    BY DEF IInv, OnlyLatestAndOnce, CallInv, CallOK, NoCall
  <1> QED BY <1>1, Invariance, PTL

\* verifyRegistration: a stored credential comes with a signing key or a call that is
\* about to make it, unless something failed.
THEOREM CredentialsHaveKeys == Spec => []CredentialHasKey
  <1>1. IInv => CredentialHasKey
    BY DEF IInv
  <1> QED BY <1>1, Invariance, PTL

-----------------------------------------------------------------------------
\* A step lowers a stored counter only by an UPDATE whose SELECT saw another one: what
\* it writes passed the check against what was read.
LEMMA CounterStep ==
    ASSUME IInv, [Next]_vars, NEW c \in Credentials, credential[c] # NULL,
           credential'[c].counter < credential[c].counter
    PROVE  \E k \in Calls : /\ calls[k].pc = "update"
                            /\ calls[k].response.credential = c
                            /\ calls[k].read # credential[c].counter
  <1> USE DEF IInv
  <1>1. credential[c] \in CredentialRow /\ credential[c].counter \in Nat
    BY DEF TypeOK, CredentialRow
  <1>2. credential'[c] # credential[c]
    BY <1>1
  <1>3. PICK k \in Calls : InsertCredential(k) \/ UpdateCounter(k)
    BY <1>2 DEF Next, vars, GenerateOptions, Respond, Verify, GenerateKeypair, SelectCredential,
       Clear, Abort, Restart
  <1> DEFINE r == calls[k].response
  <1>4. ~InsertCredential(k)
    <2> SUFFICES ASSUME InsertCredential(k) PROVE FALSE
      OBVIOUS
    <2>1. r.credential \in Credentials
      BY Open DEF InsertCredential, Steps, Response
    <2> QED BY <1>2, <2>1 DEF InsertCredential, TypeOK
  <1>5. /\ calls[k].pc = "update"
        /\ credential' = [credential EXCEPT ![r.credential].counter = r.counter]
    BY <1>3, <1>4 DEF UpdateCounter, NewCounter
  <1>6. calls[k] \in Call /\ calls[k] # NoCall /\ r \in Response /\ calls[k].read \in Nat
    BY <1>5, Open DEF Steps, Call
  <1>7. c = r.credential /\ credential'[c].counter = r.counter
    BY <1>1, <1>2, <1>5 DEF TypeOK, CredentialRow
  <1>8. r.counter \in Nat /\ ~RefusesCounter(r.counter, calls[k].read)
    BY <1>5, <1>6 DEF CallInv, CallOK, Response
  <1>9. calls[k].read # credential[c].counter
    BY <1>1, <1>6, <1>7, <1>8 DEF RefusesCounter
  <1> QED BY <1>5, <1>7, <1>9

\* verifyLogin: whatever calls overlap, a counter goes back only in the race of two
\* logins that read the same row.
THEOREM CounterFallsInRaceOnly == Spec => CounterFallsOnlyInRace
  <1>1. IInv /\ [Next]_vars =>
           [\A c \in Credentials :
               credential[c] # NULL /\ credential'[c].counter < credential[c].counter =>
                   \E k \in Calls : /\ calls[k].pc = "update"
                                    /\ calls[k].response.credential = c
                                    /\ calls[k].read # credential[c].counter]_vars
    BY CounterStep
  <1> QED BY <1>1, Invariance, PTL DEF Spec, CounterFallsOnlyInRace
=============================================================================
