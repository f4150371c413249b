----------------------------- MODULE StepUpProofs -----------------------------
(***************************************************************************)
(* Theorems about StepUp for every set of users, addresses, secrets and    *)
(* concurrent calls, every window and limit of the step-up limiter, and    *)
(* every number of failures and restarts.                                  *)
(***************************************************************************)
EXTENDS StepUp, FiniteSetTheorems, SequenceTheorems, WellFoundedInduction, TLAPS

\* The natural numbers are well ordered.
LEMMA LeastNatural ==
    ASSUME NEW S \in SUBSET Nat, S # {}
    PROVE  \E n \in S : \A m \in S : n <= m
  <1> DEFINE R == {p \in Nat \X Nat : p[1] < p[2]}
  <1>1. IsWellFoundedOn(R, Nat)
    BY NatLessThanWellFounded DEF OpToRel
  <1>2. \E x \in S : \A y \in S : <<y, x>> \notin R
    <2> HIDE DEF R
    <2> QED BY <1>1, WFMin
  <1>3. \A x, y \in Nat : <<y, x>> \in R <=> y < x
    OBVIOUS
  <1> HIDE DEF R
  <1>4. PICK n \in S : \A y \in S : <<y, n>> \notin R
    BY <1>2
  <1>5. ASSUME NEW m \in S PROVE n <= m
    <2>1. n \in Nat /\ m \in Nat /\ <<m, n>> \notin R
      BY <1>4
    <2>2. ~(m < n)
      BY <2>1, <1>3
    <2> QED BY <2>1, <2>2
  <1> QED BY <1>5

LEMMA GreatestBelow ==
    ASSUME NEW n \in Nat, NEW S \in SUBSET (1..n), S # {}
    PROVE  \E i \in S : \A j \in S : j <= i
  <1> DEFINE T == {n - i : i \in S}
  <1>1. T \in SUBSET Nat /\ T # {}
    <2>1. ASSUME NEW i \in S PROVE n - i \in Nat
      <3>1. i \in 1..n
        OBVIOUS
      <3> QED BY <3>1
    <2> QED BY <2>1
  <1>2. PICK t \in T : \A m \in T : t <= m
    BY <1>1, LeastNatural
  <1>3. PICK i \in S : t = n - i
    BY <1>2
  <1>4. ASSUME NEW j \in S PROVE j <= i
    <2>1. t <= n - j
      BY <1>2
    <2> QED BY <2>1, <1>3
  <1> QED BY <1>4

-----------------------------------------------------------------------------
\* Of times in order, Recent drops the first m, those at least a WINDOW old.
LEMMA RecentIsSuffix ==
    ASSUME now \in Nat, WINDOW \in Nat, NEW times \in Seq(Nat),
           \A i, j \in DOMAIN times : i <= j => times[i] <= times[j]
    PROVE  \E m \in 0..Len(times) :
              /\ Recent(times) = SubSeq(times, m + 1, Len(times))
              /\ \A i \in 1..m : now - times[i] >= WINDOW
              /\ \A i \in (m + 1)..Len(times) : now - times[i] < WINDOW
  <1> DEFINE len == Len(times)
             young == {i \in 1..len : now - times[i] < WINDOW} \cup {len + 1}
  <1>0. len \in Nat /\ DOMAIN times = 1..len /\ \A i \in 1..len : times[i] \in Nat
    OBVIOUS
  <1>0a. young \in SUBSET Nat /\ young # {}
    BY <1>0
  <1>1. PICK y \in young : \A i \in young : y <= i
    <2> HIDE DEF young
    <2> QED BY <1>0a, LeastNatural
  <1> DEFINE m == y - 1
  <1>2. m \in 0..len
    BY <1>0, <1>1
  <1>3. \A i \in 1..m : now - times[i] >= WINDOW
    <2> SUFFICES ASSUME NEW i \in 1..m, ~(now - times[i] >= WINDOW) PROVE FALSE
      OBVIOUS
    <2>1. i \in 1..len /\ times[i] \in Nat
      BY <1>0, <1>2
    <2>2. i \in young
      BY <2>1
    <2> QED BY <2>2, <1>1, <1>2
  <1>4. \A i \in (m + 1)..len : now - times[i] < WINDOW
    <2> SUFFICES ASSUME NEW i \in (m + 1)..len PROVE now - times[i] < WINDOW
      OBVIOUS
    <2>1. y \in 1..len /\ i \in 1..len /\ y <= i
      BY <1>0, <1>1, <1>2
    <2>2. now - times[y] < WINDOW
      BY <1>1, <2>1
    <2>3. times[y] <= times[i] /\ times[y] \in Nat /\ times[i] \in Nat
      BY <1>0, <2>1
    <2>4. ASSUME NEW a \in Nat, NEW b \in Nat, a <= b, now - a < WINDOW
          PROVE  now - b < WINDOW
      BY <2>4
    <2> QED BY <2>2, <2>3, <2>4
  <1> HIDE DEF m, young
  \* The function that Recent is defined by is this one.
  <1> DEFINE Keeps(f, n) == IF n = 0 THEN <<>>
                            ELSE IF now - times[n] < WINDOW THEN Append(f[n - 1], times[n])
                                 ELSE f[n - 1]
             prefix == [n \in 0..len |-> SubSeq(times, m + 1, n)]
  <1>5. prefix = [n \in 0..len |-> Keeps(prefix, n)]
    <2> SUFFICES ASSUME NEW n \in 0..len PROVE SubSeq(times, m + 1, n) = Keeps(prefix, n)
      OBVIOUS
    <2>1. CASE n = 0
      BY <2>1, <1>0, <1>2, SubSeqEmpty
    <2>2. CASE n # 0 /\ n <= m
      <3>1. n \in 1..m /\ n - 1 \in 0..len /\ n < m + 1 /\ n - 1 < m + 1
        BY <2>2, <1>0, <1>2
      <3>2. ~(now - times[n] < WINDOW)
        BY <3>1, <1>0, <1>2, <1>3
      <3>3. SubSeq(times, m + 1, n) = <<>> /\ SubSeq(times, m + 1, n - 1) = <<>>
        BY <3>1, <1>0, <1>2, SubSeqEmpty
      <3> QED BY <2>2, <3>1, <3>2, <3>3
    <2>3. CASE n > m
      <3>1. n \in (m + 1)..len /\ n - 1 \in 0..len /\ n # 0
        BY <2>3, <1>0, <1>2
      <3>2. now - times[n] < WINDOW
        BY <3>1, <1>4
      <3>3. SubSeq(times, m + 1, n) = Append(SubSeq(times, m + 1, n - 1), times[n])
        <4>1. SubSeq(times, m + 1, n) = SubSeq(times, m + 1, n - 1) \o <<times[n]>>
          <5>1. m + 1 \in 1..Len(times) /\ n \in (m + 1)..Len(times)
            BY <3>1, <1>0, <1>2
          <5> QED BY <5>1, SubSeqRecursiveSecond
        <4>2. SubSeq(times, m + 1, n - 1) \in Seq(Nat)
          <5>1. m + 1 \in Int /\ n - 1 \in Int /\ \A i \in (m + 1)..(n - 1) : times[i] \in Nat
            BY <3>1, <1>0, <1>2
          <5> QED BY <5>1, SubSeqProperties
        <4>3. times[n] \in Nat
          BY <3>1, <1>0, <1>2
        <4> QED BY <4>1, <4>2, <4>3, AppendIsConcat
      <3>4. prefix[n - 1] = SubSeq(times, m + 1, n - 1)
        BY <3>1
      <3> HIDE DEF prefix
      <3> QED BY <3>1, <3>2, <3>3, <3>4
    <2>4. n = 0 \/ (n # 0 /\ n <= m) \/ n > m
      BY <1>0, <1>2
    <2> QED BY <2>1, <2>2, <2>3, <2>4
  <1> DEFINE kept == CHOOSE f : f = [n \in 0..len |-> Keeps(f, n)]
  <1>6. kept = [n \in 0..len |-> Keeps(kept, n)]
    BY <1>5
  <1>7. Recent(times) = kept[len]
    BY DEF Recent
  <1> HIDE DEF kept, prefix
  <1>8. \A n \in 0..len : kept[n] = prefix[n]
    <2> DEFINE differ == {n \in 0..len : kept[n] # prefix[n]}
    <2> SUFFICES ASSUME differ # {} PROVE FALSE
      OBVIOUS
    <2>0. differ \in SUBSET Nat
      BY <1>0
    <2>1. PICK n \in differ : \A i \in differ : n <= i
      BY <2>0, LeastNatural
    <2>2. kept[n] = Keeps(kept, n) /\ prefix[n] = Keeps(prefix, n)
      BY <1>5, <1>6
    <2>3. n # 0
      BY <2>1, <2>2
    <2>4. n - 1 \in 0..len /\ n - 1 \notin differ
      BY <1>0, <2>1, <2>3
    <2>5. kept[n - 1] = prefix[n - 1]
      BY <2>4
    <2> QED BY <2>1, <2>2, <2>5
  <1>9. Recent(times) = SubSeq(times, m + 1, len)
    BY <1>0, <1>7, <1>8 DEF prefix
  <1> QED BY <1>2, <1>3, <1>4, <1>9

-----------------------------------------------------------------------------
\* The attempts of h before the i-th that count against it.
Before(h, i) == {j \in 1..(i - 1) : h[i].at - h[j].at < WINDOW}

\* The limiter's times are those of all attempts but the first m, which are too old to
\* count again.
Forgot(u, m) ==
    /\ Len(attempts[u]) = Len(tries[u]) - m
    /\ \A i \in DOMAIN attempts[u] : attempts[u][i] = tries[u][m + i].at
    /\ \A i \in 1..m : now - tries[u][i].at >= WINDOW

\* Attempts are in order, and one was refused exactly when too many came shortly before.
OrderOK(u) ==
    /\ \A i, j \in DOMAIN tries[u] : i <= j => tries[u][i].at <= tries[u][j].at
    /\ \A i \in DOMAIN tries[u] : tries[u][i].at <= now

VerdictOK(u) ==
    \A i \in DOMAIN tries[u] :
        tries[u][i].blocked <=> Cardinality(Before(tries[u], i)) >= MAX_ATTEMPTS

LimiterInv ==
    \A u \in Users : /\ OrderOK(u) /\ VerdictOK(u)
                     /\ \E m \in 0..Len(tries[u]) : Forgot(u, m)

\* Only a session makes history, and a first one is not granted on a low score.
SessionInv ==
    \A u \in Users : /\ events[u] # <<>> => first[u] # NULL
                     /\ first[u] # "low"

\* What a call relies on between two statements.
CallOK(call) ==
    call # NoCall =>
        /\ call.via # NULL => call.place \in Place
        /\ call.pc \in {"score", "issue", "record"} => call.via # NULL
        /\ call.pc \in {"secret", "enable"} => call.via # "low" /\ call.code \in Code
        /\ call.pc = "issue" /\ call.via = "low" => events[call.user] # <<>>
        /\ call.pc = "record" => first[call.user] # NULL
        /\ call.pc = "enable" => /\ call.code.secret \in proved
                                 /\ \/ totp[call.user].secret = call.code.secret
                                    \/ call.user \in raced

CallInv == \A k \in Calls : CallOK(calls[k])

IInv == TypeOK /\ LimiterInv /\ SessionInv /\ CallInv /\ EnabledWasProved

-----------------------------------------------------------------------------
LEMMA InitInv == Init => IInv
  <1> SUFFICES ASSUME Init PROVE IInv
    OBVIOUS
  <1>1. TypeOK
    BY StepUpAssumption DEF Init, TypeOK
  <1>2. LimiterInv
    <2> SUFFICES ASSUME NEW u \in Users
                 PROVE OrderOK(u) /\ VerdictOK(u) /\ \E m \in 0..Len(tries[u]) : Forgot(u, m)
      BY DEF LimiterInv
    <2>1. tries[u] = <<>> /\ attempts[u] = <<>> /\ Len(tries[u]) = 0 /\ DOMAIN tries[u] = {}
      BY DEF Init
    <2>2. Forgot(u, 0)
      BY <2>1 DEF Forgot
    <2> QED BY <2>1, <2>2 DEF OrderOK, VerdictOK
  <1>3. SessionInv /\ CallInv /\ EnabledWasProved
    BY NullAssumption DEF Init, SessionInv, CallInv, CallOK, EnabledWasProved
  <1> QED BY <1>1, <1>2, <1>3 DEF IInv

LEMMA LimiterKept ==
    ASSUME LimiterInv, UNCHANGED <<attempts, tries, now>>
    PROVE  LimiterInv'
  BY DEF LimiterInv, OrderOK, VerdictOK, Forgot, Before

\* Histories, sessions and proofs are only added to, and a secret that is replaced under
\* a verification is noted: what was said of a call stays true.
Grows ==
    /\ proved \subseteq proved' /\ raced \subseteq raced'
    /\ \A u \in Users : /\ events[u] # <<>> => events'[u] # <<>>
                        /\ first[u] # NULL => first'[u] # NULL
                        /\ totp'[u].secret = totp[u].secret

LEMMA CallKept ==
    ASSUME Grows, NEW call \in Call \cup {NoCall}, CallOK(call)
    PROVE  CallOK(call)'
  BY DEF Grows, CallOK, Call

LEMMA AllCallsKept ==
    ASSUME TypeOK, CallInv, Grows, NEW k \in Calls, CallOK(calls[k])',
           \A j \in Calls : j # k => calls'[j] = calls[j]
    PROVE  CallInv'
  BY CallKept DEF CallInv, TypeOK

\* An open call is a record; what a Goto leaves of it; an Answer ends it.
LEMMA Open ==
    ASSUME TypeOK, NEW k \in Calls, calls[k].pc \in Steps
    PROVE  calls[k] \in Call /\ calls[k] # NoCall /\ calls[k].user \in Users
  BY DEF TypeOK, NoCall, Steps, Call

LEMMA Going ==
    ASSUME TypeOK, NEW k \in Calls, calls[k].pc \in Steps, NEW pc \in Steps, Goto(k, pc)
    PROVE  /\ calls' \in [Calls -> Call \cup {NoCall}]
           /\ calls'[k] = [calls[k] EXCEPT !.pc = pc] /\ calls'[k] \in Call
           /\ calls'[k].pc = pc /\ calls'[k].user = calls[k].user
           /\ calls'[k].place = calls[k].place /\ calls'[k].code = calls[k].code
           /\ calls'[k].via = calls[k].via
           /\ \A j \in Calls : j # k => calls'[j] = calls[j]
  BY Open DEF Goto, TypeOK, Call

LEMMA Answering ==
    ASSUME TypeOK, NEW k \in Calls, Answer(k)
    PROVE  /\ calls' \in [Calls -> Call \cup {NoCall}]
           /\ calls'[k] = NoCall /\ CallOK(calls[k])'
           /\ \A j \in Calls : j # k => calls'[j] = calls[j]
  BY DEF Answer, TypeOK, CallOK
-----------------------------------------------------------------------------
LEMMA LoginVerifiedStep ==
    ASSUME IInv, NEW k \in Calls, NEW u \in Users, NEW place \in Place, LoginVerified(k, u, place)
    PROVE  IInv'
  <1> USE DEF IInv
  <1> DEFINE call == [pc |-> "score", user |-> u, place |-> place, code |-> NULL, via |-> "low"]
  <1>1. /\ calls' = [calls EXCEPT ![k] = call] /\ logins' = logins + 1
        /\ UNCHANGED <<totp, events, attempts, pendings, tries, proved, raced, first, now, failures>>
    BY DEF LoginVerified
  <1>2. call \in Call
    BY DEF Call, Steps
  <1>3. TypeOK' /\ Grows
    BY <1>1, <1>2 DEF TypeOK, Grows
  <1>4. CallOK(calls[k])'
    BY <1>1, NullAssumption DEF TypeOK, CallOK
  <1>5. CallInv'
    BY <1>1, <1>3, <1>4, AllCallsKept DEF TypeOK
  <1>6. LimiterInv' /\ SessionInv' /\ EnabledWasProved'
    BY <1>1, LimiterKept DEF SessionInv, EnabledWasProved
  <1> QED BY <1>3, <1>5, <1>6

\* A user without history is of high risk.
LEMMA ScoreOfNone ==
    ASSUME NEW place, NEW history, history = <<>>
    PROVE  Score(place, history) = "high"
  BY DEF Score

LEMMA ScoreLoginStep ==
    ASSUME IInv, NEW k \in Calls, ScoreLogin(k)
    PROVE  IInv'
  <1> USE DEF IInv
  <1> DEFINE call == calls[k]
             pending == [user |-> call.user, place |-> call.place, expires |-> now + TTL]
  <1>1. /\ call.pc = "score" /\ call.pc \in Steps
        /\ UNCHANGED <<totp, events, attempts, tries, proved, raced, first, now, logins, failures>>
    BY DEF ScoreLogin, Steps
  <1>2. call \in Call /\ call # NoCall /\ call.user \in Users /\ CallOK(call)
    BY <1>1, Open DEF CallInv
  <1>3. LimiterInv' /\ SessionInv' /\ EnabledWasProved' /\ Grows
    BY <1>1, LimiterKept DEF SessionInv, EnabledWasProved, Grows
  <1>4. CASE Score(call.place, events[call.user]) \in {"medium", "high"}
    <2>1. Answer(k) /\ pendings' = pendings \cup {pending}
      BY <1>4 DEF ScoreLogin, Expiry
    <2>2. pending \in Pending
      BY <1>1, <1>2, StepUpAssumption DEF Pending, CallOK, TypeOK
    <2>3. TypeOK' /\ CallInv'
      BY <1>1, <1>3, <2>1, <2>2, Answering, AllCallsKept DEF TypeOK
    <2> QED BY <1>3, <2>3
  <1>5. CASE Score(call.place, events[call.user]) \notin {"medium", "high"}
    <2>1. Goto(k, "issue") /\ pendings' = pendings
      BY <1>5 DEF ScoreLogin
    <2>2. events[call.user] # <<>>
      BY <1>5, ScoreOfNone
    <2>3. /\ calls' \in [Calls -> Call \cup {NoCall}]
          /\ calls'[k].pc = "issue" /\ calls'[k].user = call.user /\ calls'[k].via = call.via
          /\ calls'[k].place = call.place
          /\ \A j \in Calls : j # k => calls'[j] = calls[j]
      BY <1>1, <2>1, Going DEF Steps
    <2>4. CallOK(calls[k])'
      BY <1>1, <1>2, <2>2, <2>3 DEF CallOK
    <2>5. TypeOK' /\ CallInv'
      BY <1>1, <1>3, <2>1, <2>3, <2>4, AllCallsKept DEF TypeOK
    <2> QED BY <1>3, <2>5
  <1> QED BY <1>4, <1>5

-----------------------------------------------------------------------------
\* What is recent at an attempt is a suffix of all attempts, so the limiter's count is
\* that of the attempts shortly before.
LEMMA LimiterCounts ==
    ASSUME TypeOK, LimiterInv, NEW u \in Users,
           NEW times, times = Append(Recent(attempts[u]), now),
           attempts' = [attempts EXCEPT ![u] = times],
           tries' = [tries EXCEPT ![u] = Append(@, [at |-> now, blocked |-> Blocked(times)])],
           now' = now
    PROVE  LimiterInv' /\ times \in Seq(Nat)
  <1> DEFINE h == tries[u]
             a == attempts[u]
             try == [at |-> now, blocked |-> Blocked(times)]
             new == Append(h, try)
  <1>1. h \in Seq(Try) /\ a \in Seq(Nat)
    BY DEF TypeOK
  <1>2. now \in Nat /\ WINDOW \in Nat /\ MAX_ATTEMPTS \in Nat
    BY StepUpAssumption DEF TypeOK
  <1>3. OrderOK(u) /\ VerdictOK(u) /\ \E m \in 0..Len(h) : Forgot(u, m)
    BY DEF LimiterInv
  <1>4. /\ tries'[u] = new /\ attempts'[u] = times
        /\ \A w \in Users : w # u => tries'[w] = tries[w] /\ attempts'[w] = attempts[w]
    BY DEF TypeOK
  <1> HIDE DEF h, a, new, try
  <1>5. PICK n \in Nat : n = Len(h) /\ DOMAIN h = 1..n
    BY <1>1
  <1>6. PICK la \in Nat : la = Len(a) /\ DOMAIN a = 1..la
    BY <1>1
  <1>7. \A i \in 1..n : h[i].at \in Nat /\ h[i].at <= now
    <2>1. \A i \in 1..n : h[i] \in Try
      BY <1>1, <1>5
    <2> QED BY <2>1, <1>3, <1>5 DEF Try, OrderOK, h
  <1>8. \A i, j \in 1..n : i <= j => h[i].at <= h[j].at
    BY <1>3, <1>5 DEF OrderOK, h
  <1>9. PICK m \in 0..n : /\ la = n - m
                          /\ \A i \in 1..la : a[i] = h[m + i].at
                          /\ \A i \in 1..m : now - h[i].at >= WINDOW
    BY <1>3, <1>5, <1>6 DEF Forgot, h, a
  <1>10. \A i, j \in DOMAIN a : i <= j => a[i] <= a[j]
    <2> SUFFICES ASSUME NEW i \in 1..la, NEW j \in 1..la, i <= j PROVE a[i] <= a[j]
      BY <1>6
    <2>1. m + i \in 1..n /\ m + j \in 1..n /\ m + i <= m + j
      BY <1>9
    <2> QED BY <1>8, <1>9, <2>1
  <1>11. PICK d \in 0..la : /\ Recent(a) = SubSeq(a, d + 1, la)
                            /\ \A i \in 1..d : now - a[i] >= WINDOW
                            /\ \A i \in (d + 1)..la : now - a[i] < WINDOW
    BY <1>1, <1>2, <1>6, <1>10, RecentIsSuffix
  <1>12. PICK g \in 0..n : g = m + d
    BY <1>9
  <1>13. \A i \in 1..g : now - h[i].at >= WINDOW
    <2> SUFFICES ASSUME NEW i \in 1..g PROVE now - h[i].at >= WINDOW
      OBVIOUS
    <2>1. CASE i <= m
      BY <2>1, <1>9
    <2>2. CASE i > m
      <3>1. i - m \in 1..d /\ i - m \in 1..la /\ m + (i - m) = i
        BY <2>2, <1>12
      <3>2. a[i - m] = h[i].at
        BY <1>9, <3>1
      <3> QED BY <1>11, <3>1, <3>2
    <2> QED BY <2>1, <2>2
  <1>14. \A i \in (g + 1)..n : now - h[i].at < WINDOW
    <2> SUFFICES ASSUME NEW i \in (g + 1)..n PROVE now - h[i].at < WINDOW
      OBVIOUS
    <2>1. i - m \in (d + 1)..la /\ i - m \in 1..la /\ m + (i - m) = i
      BY <1>9, <1>12
    <2>2. a[i - m] = h[i].at
      BY <1>9, <2>1
    <2>3. now - a[i - m] < WINDOW
      BY <1>11, <2>1
    <2> QED BY <2>2, <2>3
  <1>15. /\ Recent(a) \in Seq(Nat) /\ Len(Recent(a)) = n - g
         /\ \A i \in 1..(n - g) : Recent(a)[i] = h[g + i].at
    <2>1. /\ Recent(a) \in Seq(Nat)
          /\ Len(Recent(a)) = IF d + 1 <= la THEN la - (d + 1) + 1 ELSE 0
          /\ \A i \in 1..(la - (d + 1) + 1) : Recent(a)[i] = a[(d + 1) + i - 1]
      <3>1. d + 1 \in Int /\ la \in Int
        OBVIOUS
      <3>2. \A i \in (d + 1)..la : a[i] \in Nat
        BY <1>1, <1>6
      <3> QED BY <1>11, <3>1, <3>2, SubSeqProperties
    <2>2. Len(Recent(a)) = n - g
      BY <1>9, <1>12, <2>1
    <2>3. ASSUME NEW i \in 1..(n - g) PROVE Recent(a)[i] = h[g + i].at
      <3>1. /\ d + i \in 1..la /\ (d + 1) + i - 1 = d + i /\ m + (d + i) = g + i
            /\ i \in 1..(la - (d + 1) + 1)
        <4>1. i \in Nat /\ i >= 1 /\ i <= n - g /\ n - g = la - d
          BY <1>9, <1>12
        <4> QED BY <4>1, <1>12
      <3>2. Recent(a)[i] = a[d + i]
        BY <2>1, <3>1
      <3> QED BY <1>9, <3>1, <3>2
    <2> QED BY <2>1, <2>2, <2>3
  <1>16. /\ times \in Seq(Nat) /\ Len(times) = n - g + 1 /\ DOMAIN times = 1..(n - g + 1)
         /\ \A i \in 1..(n - g) : times[i] = h[g + i].at
         /\ times[n - g + 1] = now
    <2>1. times = Append(Recent(a), now)
      BY DEF a
    <2> QED BY <1>2, <1>15, <2>1, AppendProperties
  <1>17. /\ Len(new) = n + 1 /\ DOMAIN new = 1..(n + 1)
         /\ \A i \in 1..n : new[i] = h[i]
         /\ new[n + 1] = try
    BY <1>1, <1>5, AppendProperties DEF new
  <1>18. try.at = now /\ try.blocked = Blocked(times)
    BY DEF try
  <1>19. \A i \in 1..(n + 1) : i \in 1..n \/ i = n + 1
    OBVIOUS
  <1>20. OrderOK(u)'
    <2>1. ASSUME NEW i \in 1..(n + 1) PROVE new[i].at <= now
      BY <1>2, <1>7, <1>17, <1>18, <1>19
    <2>2. ASSUME NEW i \in 1..(n + 1), NEW j \in 1..(n + 1), i <= j
          PROVE  new[i].at <= new[j].at
      <3>1. CASE j = n + 1
        BY <3>1, <1>17, <1>18, <2>1
      <3>2. CASE j # n + 1
        <4>1. j \in 1..n /\ i \in 1..n
          BY <3>2, <2>2
        <4> QED BY <2>2, <4>1, <1>8, <1>17
      <3> QED BY <3>1, <3>2
    <2> QED BY <1>4, <1>17, <2>1, <2>2 DEF OrderOK
  <1>21. Before(new, n + 1) = (g + 1)..n
    <2>1. ASSUME NEW j \in 1..n
          PROVE  now - h[j].at < WINDOW <=> j \in (g + 1)..n
      <3>1. j \in 1..g \/ j \in (g + 1)..n
        OBVIOUS
      <3>2. PICK age \in Int : age = now - h[j].at
        BY <1>2, <1>7
      <3>3. CASE j \in 1..g
        <4>1. age >= WINDOW /\ j \notin (g + 1)..n
          BY <3>2, <3>3, <1>13
        <4> QED BY <1>2, <3>2, <4>1
      <3>4. CASE j \in (g + 1)..n
        BY <1>14, <3>4
      <3> QED BY <3>1, <3>3, <3>4
    <2>2. 1..(n + 1 - 1) = 1..n /\ (g + 1)..n \subseteq 1..n
      OBVIOUS
    <2>3. Before(new, n + 1) = {j \in 1..n : now - h[j].at < WINDOW}
      BY <1>17, <1>18, <2>2 DEF Before
    <2> QED BY <2>1, <2>2, <2>3
  <1>22. Cardinality(Before(new, n + 1)) = n - g
    <2>1. g + 1 \in Int /\ n \in Int
      OBVIOUS
    <2>2. Cardinality((g + 1)..n) = IF g + 1 > n THEN 0 ELSE n - (g + 1) + 1
      BY <2>1, FS_Interval
    <2> QED BY <1>21, <2>2
  <1>23. VerdictOK(u)'
    <2>1. ASSUME NEW i \in 1..n
          PROVE  new[i].blocked <=> Cardinality(Before(new, i)) >= MAX_ATTEMPTS
      <3>1. Before(new, i) = Before(h, i)
        <4>1. \A j \in 1..(i - 1) : j \in 1..n
          OBVIOUS
        <4> QED BY <4>1, <1>17 DEF Before
      <3>2. h[i].blocked <=> Cardinality(Before(h, i)) >= MAX_ATTEMPTS
        BY <1>3, <1>5 DEF VerdictOK, h
      <3> QED BY <1>17, <3>1, <3>2
    <2>2. Blocked(times) <=> n - g >= MAX_ATTEMPTS
      BY <1>2, <1>16 DEF Blocked
    <2>3. new[n + 1].blocked <=> Cardinality(Before(new, n + 1)) >= MAX_ATTEMPTS
      BY <1>17, <1>18, <1>22, <2>2
    <2> QED BY <1>4, <1>17, <1>19, <2>1, <2>3 DEF VerdictOK
  <1>24. Forgot(u, g)'
    <2>1. ASSUME NEW i \in 1..(n - g + 1) PROVE times[i] = new[g + i].at
      <3>1. CASE i = n - g + 1
        <4>1. g + i = n + 1
          BY <3>1
        <4> QED BY <3>1, <4>1, <1>16, <1>17, <1>18
      <3>2. CASE i # n - g + 1
        <4>1. i \in 1..(n - g) /\ g + i \in 1..n
          BY <3>2
        <4> QED BY <4>1, <1>16, <1>17
      <3> QED BY <3>1, <3>2
    <2>2. ASSUME NEW i \in 1..g PROVE now - new[i].at >= WINDOW
      <3>1. i \in 1..n
        OBVIOUS
      <3> QED BY <3>1, <1>13, <1>17
    <2>3. Len(times) = Len(new) - g
      BY <1>16, <1>17
    <2> QED BY <1>4, <1>16, <2>1, <2>2, <2>3 DEF Forgot
  <1>25. ASSUME NEW w \in Users, w # u
         PROVE  OrderOK(w)' /\ VerdictOK(w)' /\ \E k \in 0..Len(tries'[w]) : Forgot(w, k)'
    <2>1. tries'[w] = tries[w] /\ attempts'[w] = attempts[w]
      BY <1>4, <1>25
    <2>2. OrderOK(w) /\ VerdictOK(w) /\ \E k \in 0..Len(tries[w]) : Forgot(w, k)
      BY DEF LimiterInv
    <2> QED BY <2>1, <2>2 DEF OrderOK, VerdictOK, Forgot
  <1>26. g \in 0..Len(tries'[u])
    BY <1>4, <1>17
  <1> QED BY <1>16, <1>20, <1>23, <1>24, <1>25, <1>26 DEF LimiterInv

LEMMA SubmitStepUpStep ==
    ASSUME IInv, NEW k \in Calls, NEW p \in pendings, NEW code \in Code, SubmitStepUp(k, p, code)
    PROVE  IInv'
  <1> USE DEF IInv
  <1> DEFINE times == Append(Recent(attempts[p.user]), now)
             try == [at |-> now, blocked |-> Blocked(times)]
             call == [pc |-> "secret", user |-> p.user, place |-> p.place, code |-> code,
                      via |-> "step_up"]
             next == IF Blocked(times) \/ now >= p.expires THEN NoCall ELSE call
  <1>1. /\ attempts' = [attempts EXCEPT ![p.user] = times]
        /\ tries' = [tries EXCEPT ![p.user] = Append(@, try)]
        /\ calls' = [calls EXCEPT ![k] = next]
        /\ UNCHANGED <<totp, events, pendings, proved, raced, first, now, logins, failures>>
    BY DEF SubmitStepUp, RecordStepUpAttempt, Attempted
  <1>2. p.user \in Users /\ p.place \in Place
    BY DEF TypeOK, Pending
  <1>3. LimiterInv' /\ times \in Seq(Nat)
    <2> HIDE DEF times
    <2>1. times = Append(Recent(attempts[p.user]), now)
      BY DEF times
    <2>2. now' = now
      BY <1>1
    <2> QED BY <1>1, <1>2, <2>1, <2>2, LimiterCounts
  <1>4. call \in Call /\ call # NoCall
    BY <1>2 DEF Call, Steps, NoCall
  <1>5. try \in Try
    BY DEF Try, TypeOK, Blocked
  <1> HIDE DEF times, call, try
  <1>6. /\ attempts' \in [Users -> Seq(Nat)] /\ tries' \in [Users -> Seq(Try)]
        /\ calls' \in [Calls -> Call \cup {NoCall}] /\ calls'[k] = next
        /\ \A j \in Calls : j # k => calls'[j] = calls[j]
    BY <1>1, <1>2, <1>3, <1>4, <1>5 DEF TypeOK
  <1>7. TypeOK' /\ Grows
    BY <1>1, <1>6 DEF TypeOK, Grows
  <1>8. CallOK(calls[k])'
    <2>1. CASE next = NoCall
      BY <1>6, <2>1 DEF CallOK
    <2>2. CASE next = call
      BY <1>2, <1>6, <2>2 DEF CallOK, call
    <2> QED BY <2>1, <2>2
  <1>9. CallInv'
    BY <1>6, <1>7, <1>8, AllCallsKept
  <1>10. SessionInv' /\ EnabledWasProved'
    BY <1>1 DEF SessionInv, EnabledWasProved
  <1> QED BY <1>3, <1>7, <1>9, <1>10

\* An attempt with any other token only counts.
LEMMA SubmitOtherTokenStep ==
    ASSUME IInv, NEW u \in Users, SubmitOtherToken(u)
    PROVE  IInv'
  <1> USE DEF IInv
  <1> DEFINE times == Append(Recent(attempts[u]), now)
             try == [at |-> now, blocked |-> Blocked(times)]
  <1>1. /\ attempts' = [attempts EXCEPT ![u] = times]
        /\ tries' = [tries EXCEPT ![u] = Append(@, try)]
        /\ UNCHANGED <<totp, events, pendings, calls, proved, raced, first, now, logins, failures>>
    BY DEF SubmitOtherToken, RecordStepUpAttempt, Attempted
  <1>2. LimiterInv' /\ times \in Seq(Nat)
    <2> HIDE DEF times
    <2>1. times = Append(Recent(attempts[u]), now)
      BY DEF times
    <2>2. now' = now
      BY <1>1
    <2> QED BY <1>1, <2>1, <2>2, LimiterCounts
  <1>3. try \in Try
    BY DEF Try, TypeOK, Blocked
  <1> HIDE DEF times, try
  <1>4. attempts' \in [Users -> Seq(Nat)] /\ tries' \in [Users -> Seq(Try)]
    BY <1>1, <1>2, <1>3 DEF TypeOK
  <1>5. TypeOK' /\ SessionInv' /\ EnabledWasProved'
    BY <1>1, <1>4 DEF TypeOK, SessionInv, EnabledWasProved
  <1>6. CallInv'
    BY <1>1 DEF CallInv, CallOK
  <1> QED BY <1>2, <1>5, <1>6

-----------------------------------------------------------------------------
LEMMA SubmitVerifyStep ==
    ASSUME IInv, NEW k \in Calls, NEW u \in Users, NEW code \in Code, SubmitVerify(k, u, code)
    PROVE  IInv'
  <1> USE DEF IInv
  <1> DEFINE call == [pc |-> "secret", user |-> u, place |-> NULL, code |-> code, via |-> NULL]
  <1>1. /\ calls' = [calls EXCEPT ![k] = call]
        /\ UNCHANGED <<totp, events, attempts, pendings, tries, proved, raced, first, now,
                       logins, failures>>
    BY DEF SubmitVerify
  <1>2. call \in Call
    BY DEF Call, Steps
  <1>3. TypeOK' /\ Grows
    BY <1>1, <1>2 DEF TypeOK, Grows
  <1>4. CallOK(calls[k])'
    BY <1>1, NullAssumption DEF TypeOK, CallOK
  <1>5. CallInv'
    BY <1>1, <1>3, <1>4, AllCallsKept DEF TypeOK
  <1>6. LimiterInv' /\ SessionInv' /\ EnabledWasProved'
    BY <1>1, LimiterKept DEF SessionInv, EnabledWasProved
  <1> QED BY <1>3, <1>5, <1>6

\* A code that is good is one of the secret stored at that moment.
LEMMA SelectSecretStep ==
    ASSUME IInv, NEW k \in Calls, SelectSecret(k)
    PROVE  IInv'
  <1> USE DEF IInv
  <1> DEFINE call == calls[k]
             good == VerifyTOTP(totp[call.user].secret, call.code)
  <1>1. /\ call.pc = "secret" /\ call.pc \in Steps
        /\ proved' = IF good THEN proved \cup {call.code.secret} ELSE proved
        /\ IF good THEN Goto(k, "enable") ELSE Answer(k)
        /\ UNCHANGED <<totp, events, attempts, pendings, tries, raced, first, now,
                       logins, failures>>
    BY DEF SelectSecret, Steps
  <1>2. call \in Call /\ call # NoCall /\ call.user \in Users /\ CallOK(call)
    BY <1>1, Open DEF CallInv
  <1>3. call.code \in Code /\ call.code.secret \in Secrets /\ call.via # "low"
    BY <1>1, <1>2 DEF CallOK, Code
  <1>4. proved \subseteq proved' /\ proved' \subseteq Secrets
    BY <1>1, <1>3 DEF TypeOK
  <1>5. LimiterInv' /\ SessionInv' /\ EnabledWasProved' /\ Grows
    BY <1>1, <1>4, LimiterKept DEF SessionInv, EnabledWasProved, Grows
  <1>6. CASE good
    <2>1. /\ calls' \in [Calls -> Call \cup {NoCall}]
          /\ calls'[k].pc = "enable" /\ calls'[k].user = call.user /\ calls'[k].via = call.via
          /\ calls'[k].place = call.place /\ calls'[k].code = call.code
          /\ \A j \in Calls : j # k => calls'[j] = calls[j]
      BY <1>1, <1>6, Going DEF Steps
    <2>2. totp[call.user].secret = call.code.secret /\ call.code.secret \in proved'
      BY <1>1, <1>6 DEF VerifyTOTP
    <2>3. CallOK(calls[k])'
      BY <1>1, <1>2, <1>3, <2>1, <2>2 DEF CallOK
    <2>4. TypeOK' /\ CallInv'
      BY <1>1, <1>4, <1>5, <2>1, <2>3, AllCallsKept DEF TypeOK
    <2> QED BY <1>5, <2>4
  <1>7. CASE ~good
    <2>1. TypeOK' /\ CallInv'
      BY <1>1, <1>4, <1>5, <1>7, Answering, AllCallsKept DEF TypeOK
    <2> QED BY <1>5, <2>1
  <1> QED BY <1>6, <1>7

\* The flag is set for a secret that was verified, or that replaced one meanwhile.
LEMMA EnableStep ==
    ASSUME IInv, NEW k \in Calls, Enable(k)
    PROVE  IInv'
  <1> USE DEF IInv
  <1> DEFINE call == calls[k]
  <1>1. /\ call.pc = "enable" /\ call.pc \in Steps
        /\ totp' = [totp EXCEPT ![call.user].enabled = TRUE]
        /\ IF call.via = NULL THEN Answer(k) ELSE Goto(k, "issue")
        /\ UNCHANGED <<events, attempts, pendings, tries, proved, raced, first, now,
                       logins, failures>>
    BY DEF Enable, Steps
  <1>2. call \in Call /\ call # NoCall /\ call.user \in Users /\ CallOK(call)
    BY <1>1, Open DEF CallInv
  <1>3. /\ totp' \in [Users -> [secret : Secrets \cup {NULL}, enabled : BOOLEAN]]
        /\ \A u \in Users : /\ totp'[u].secret = totp[u].secret
                            /\ u # call.user => totp'[u] = totp[u]
    BY <1>1, <1>2 DEF TypeOK
  <1>4. EnabledWasProved'
    BY <1>1, <1>2, <1>3 DEF EnabledWasProved, CallOK
  <1>5. LimiterInv' /\ SessionInv' /\ Grows
    BY <1>1, <1>3, LimiterKept DEF SessionInv, Grows
  <1>6. CASE call.via = NULL
    <2>1. TypeOK' /\ CallInv'
      BY <1>1, <1>3, <1>5, <1>6, Answering, AllCallsKept DEF TypeOK
    <2> QED BY <1>4, <1>5, <2>1
  <1>7. CASE call.via # NULL
    <2>1. /\ calls' \in [Calls -> Call \cup {NoCall}]
          /\ calls'[k].pc = "issue" /\ calls'[k].user = call.user /\ calls'[k].via = call.via
          /\ calls'[k].place = call.place
          /\ \A j \in Calls : j # k => calls'[j] = calls[j]
      BY <1>1, <1>7, Going DEF Steps
    <2>2. CallOK(calls[k])'
      BY <1>1, <1>2, <1>7, <2>1 DEF CallOK
    <2>3. TypeOK' /\ CallInv'
      BY <1>1, <1>3, <1>5, <2>1, <2>2, AllCallsKept DEF TypeOK
    <2> QED BY <1>4, <1>5, <2>3
  <1> QED BY <1>6, <1>7

\* A setup notes every verification of its user that it runs into.
LEMMA SetupTotpStep ==
    ASSUME IInv, NEW u \in Users, NEW secret \in Secrets, SetupTotp(u, secret)
    PROVE  IInv'
  <1> USE DEF IInv
  <1>1. /\ totp' = [totp EXCEPT ![u] = [secret |-> secret, enabled |-> FALSE]]
        /\ raced' = IF \E k \in Calls : calls[k].pc = "enable" /\ calls[k].user = u
                    THEN raced \cup {u} ELSE raced
        /\ UNCHANGED <<events, attempts, pendings, calls, tries, proved, first, now,
                       logins, failures>>
    BY DEF SetupTotp, NewTotp
  <1>2. raced \subseteq raced' /\ raced' \subseteq Users
    BY <1>1 DEF TypeOK
  <1>3. TypeOK' /\ LimiterInv' /\ SessionInv'
    BY <1>1, <1>2, LimiterKept DEF TypeOK, SessionInv
  <1>4. /\ totp'[u].enabled = FALSE
        /\ \A w \in Users : w # u => totp'[w] = totp[w]
    BY <1>1 DEF TypeOK
  <1>5. EnabledWasProved'
    BY <1>1, <1>2, <1>4 DEF EnabledWasProved
  <1>6. CallInv'
    <2> SUFFICES ASSUME NEW k \in Calls, calls[k] # NoCall PROVE CallOK(calls[k])'
      BY <1>1 DEF CallInv, CallOK
    <2>1. CallOK(calls[k]) /\ calls[k] \in Call /\ calls[k].user \in Users
      BY DEF CallInv, TypeOK, Call
    <2>2. calls[k].pc = "enable" => \/ totp'[calls[k].user].secret = calls[k].code.secret
                                    \/ calls[k].user \in raced'
      BY <1>1, <1>2, <1>4, <2>1 DEF CallOK
    <2> QED BY <1>1, <2>1, <2>2 DEF CallOK
  <1> QED BY <1>3, <1>5, <1>6

-----------------------------------------------------------------------------
\* A session granted on a low score is not the first, since only a session makes history.
LEMMA IssueSessionStep ==
    ASSUME IInv, NEW k \in Calls, IssueSession(k)
    PROVE  IInv'
  <1> USE DEF IInv
  <1> DEFINE call == calls[k]
  <1>1. /\ call.pc = "issue" /\ call.pc \in Steps /\ Goto(k, "record")
        /\ first' = [first EXCEPT ![call.user] = IF @ = NULL THEN call.via ELSE @]
        /\ UNCHANGED <<totp, events, attempts, pendings, tries, proved, raced, now,
                       logins, failures>>
    BY DEF IssueSession, Steps
  <1>2. call \in Call /\ call # NoCall /\ call.user \in Users /\ CallOK(call)
    BY <1>1, Open DEF CallInv
  <1>3. call.via \in {"low", "step_up"}
    BY <1>1, <1>2 DEF CallOK, Call
  <1>4. call.via = "low" => first[call.user] # NULL
    BY <1>1, <1>2 DEF CallOK, SessionInv
  <1>5. /\ first' \in [Users -> {"low", "step_up", NULL}]
        /\ first'[call.user] # NULL
        /\ \A u \in Users : first[u] # NULL => first'[u] = first[u]
        /\ \A u \in Users : first'[u] # "low"
    BY <1>1, <1>2, <1>3, <1>4, NullAssumption DEF TypeOK, SessionInv
  <1>6. LimiterInv' /\ SessionInv' /\ EnabledWasProved' /\ Grows
    BY <1>1, <1>5, LimiterKept DEF SessionInv, EnabledWasProved, Grows
  <1>7. /\ calls' \in [Calls -> Call \cup {NoCall}]
        /\ calls'[k].pc = "record" /\ calls'[k].user = call.user /\ calls'[k].via = call.via
        /\ calls'[k].place = call.place
        /\ \A j \in Calls : j # k => calls'[j] = calls[j]
    BY <1>1, Going DEF Steps
  <1>8. CallOK(calls[k])'
    BY <1>1, <1>2, <1>5, <1>7 DEF CallOK
  <1>9. TypeOK' /\ CallInv'
    BY <1>1, <1>5, <1>6, <1>7, <1>8, AllCallsKept DEF TypeOK
  <1> QED BY <1>6, <1>9

\* The last HISTORY events are at least the newest.
LEMMA NewestNonempty ==
    ASSUME NEW history \in Seq(Place), NEW place \in Place
    PROVE  /\ Newest(Append(history, place)) \in Seq(Place)
           /\ Newest(Append(history, place)) # <<>>
  <1> DEFINE s == Append(history, place)
  <1>1. PICK n \in Nat : n = Len(history)
    OBVIOUS
  <1>2. s \in Seq(Place) /\ Len(s) = n + 1 /\ \A i \in 1..(n + 1) : s[i] \in Place
    BY <1>1, AppendProperties, ElementOfSeq
  <1> HIDE DEF s
  <1>3. PICK m \in 1..(n + 1) : Newest(s) = SubSeq(s, m, n + 1)
    BY <1>2, StepUpAssumption DEF Newest
  <1>4. m \in Int /\ n + 1 \in Int /\ \A i \in m..(n + 1) : s[i] \in Place
    BY <1>2
  <1>5. Newest(s) \in Seq(Place) /\ Len(Newest(s)) = n + 1 - m + 1
    BY <1>3, <1>4, SubSeqProperties
  <1>6. Newest(s) # <<>>
    BY <1>5, EmptySeq
  <1> QED BY <1>5, <1>6 DEF s

LEMMA RecordLoginStep ==
    ASSUME IInv, NEW k \in Calls, RecordLogin(k)
    PROVE  IInv'
  <1> USE DEF IInv
  <1> DEFINE call == calls[k]
             history == Newest(Append(events[call.user], call.place))
  <1>1. /\ call.pc = "record" /\ call.pc \in Steps /\ Answer(k)
        /\ events' = [events EXCEPT ![call.user] = history]
        /\ UNCHANGED <<totp, attempts, pendings, tries, proved, raced, first, now,
                       logins, failures>>
    BY DEF RecordLogin, Steps
  <1>2. call \in Call /\ call # NoCall /\ call.user \in Users /\ CallOK(call)
    BY <1>1, Open DEF CallInv
  <1>3. call.place \in Place /\ first[call.user] # NULL
    BY <1>1, <1>2 DEF CallOK
  <1>4. history \in Seq(Place) /\ history # <<>>
    BY <1>2, <1>3, NewestNonempty DEF TypeOK
  <1> HIDE DEF history
  <1>5. /\ events' \in [Users -> Seq(Place)] /\ events'[call.user] # <<>>
        /\ \A u \in Users : u # call.user => events'[u] = events[u]
    BY <1>1, <1>2, <1>4 DEF TypeOK
  <1>6. LimiterInv' /\ SessionInv' /\ EnabledWasProved' /\ Grows
    BY <1>1, <1>3, <1>5, LimiterKept DEF SessionInv, EnabledWasProved, Grows
  <1>7. TypeOK' /\ CallInv'
    BY <1>1, <1>5, <1>6, Answering, AllCallsKept DEF TypeOK
  <1> QED BY <1>6, <1>7

LEMMA AbortStep ==
    ASSUME IInv, NEW k \in Calls, Abort(k)
    PROVE  IInv'
  <1> USE DEF IInv
  <1>1. /\ Answer(k) /\ failures' = failures + 1
        /\ UNCHANGED <<totp, events, attempts, pendings, tries, proved, raced, first, now, logins>>
    BY DEF Abort
  <1>2. LimiterInv' /\ SessionInv' /\ EnabledWasProved' /\ Grows
    BY <1>1, LimiterKept DEF SessionInv, EnabledWasProved, Grows
  <1>3. TypeOK' /\ CallInv'
    BY <1>1, <1>2, Answering, AllCallsKept DEF TypeOK
  <1> QED BY <1>2, <1>3

\* A restart empties the limiter, and what it said of its attempts is lost with them.
LEMMA RestartStep ==
    ASSUME IInv, Restart
    PROVE  IInv'
  <1> USE DEF IInv
  <1>1. /\ attempts' = [u \in Users |-> <<>>] /\ tries' = [u \in Users |-> <<>>]
        /\ calls' = [k \in Calls |-> NoCall] /\ failures' = failures + 1
        /\ UNCHANGED <<totp, events, pendings, proved, raced, first, now, logins>>
    BY DEF Restart
  <1>2. TypeOK'
    BY <1>1 DEF TypeOK
  <1>3. LimiterInv'
    <2> SUFFICES ASSUME NEW u \in Users
                 PROVE  /\ OrderOK(u)' /\ VerdictOK(u)'
                        /\ \E m \in 0..Len(tries'[u]) : Forgot(u, m)'
      BY DEF LimiterInv
    <2>1. tries'[u] = <<>> /\ attempts'[u] = <<>>
      BY <1>1
    <2>2. Forgot(u, 0)'
      BY <2>1 DEF Forgot
    <2> QED BY <2>1, <2>2 DEF OrderOK, VerdictOK
  <1>4. CallInv' /\ SessionInv' /\ EnabledWasProved'
    BY <1>1 DEF CallInv, CallOK, SessionInv, EnabledWasProved
  <1> QED BY <1>2, <1>3, <1>4

\* What is forgotten stays too old.
LEMMA TickStep ==
    ASSUME IInv, Tick
    PROVE  IInv'
  <1> USE DEF IInv
  <1>1. /\ now' = now + 1 /\ now \in Nat
        /\ UNCHANGED <<totp, events, attempts, pendings, calls, tries, proved, raced, first,
                       logins, failures>>
    BY DEF Tick, TypeOK
  <1>2. TypeOK' /\ CallInv' /\ SessionInv' /\ EnabledWasProved'
    BY <1>1 DEF TypeOK, CallInv, CallOK, SessionInv, EnabledWasProved
  <1>3. LimiterInv'
    <2> SUFFICES ASSUME NEW u \in Users
                 PROVE  /\ OrderOK(u)' /\ VerdictOK(u)'
                        /\ \E m \in 0..Len(tries[u]) : Forgot(u, m)'
      BY <1>1 DEF LimiterInv
    <2>1. PICK n \in Nat : n = Len(tries[u]) /\ DOMAIN tries[u] = 1..n
      BY DEF TypeOK
    <2>2. \A i \in 1..n : tries[u][i].at \in Nat
      <3>1. tries[u] \in Seq(Try)
        BY DEF TypeOK
      <3>2. \A i \in 1..n : tries[u][i] \in Try
        BY <3>1, <2>1
      <3> QED BY <3>2 DEF Try
    <2>3. OrderOK(u) /\ VerdictOK(u)
      BY DEF LimiterInv
    <2>4. OrderOK(u)'
      BY <1>1, <2>1, <2>2, <2>3 DEF OrderOK
    <2>5. VerdictOK(u)'
      BY <1>1, <2>3 DEF VerdictOK
    <2>6. PICK m \in 0..n : Forgot(u, m)
      BY <2>1 DEF LimiterInv
    <2>7. \A i \in 1..m : now + 1 - tries[u][i].at >= WINDOW
      <3> SUFFICES ASSUME NEW i \in 1..m PROVE now + 1 - tries[u][i].at >= WINDOW
        OBVIOUS
      <3>1. i \in 1..n /\ now - tries[u][i].at >= WINDOW
        BY <2>6 DEF Forgot
      <3>2. WINDOW \in Nat
        BY StepUpAssumption
      <3> QED BY <1>1, <2>2, <3>1, <3>2
    <2>8. Forgot(u, m)'
      <3>1. attempts'[u] = attempts[u] /\ tries'[u] = tries[u] /\ now' = now + 1
        BY <1>1
      <3>2. /\ Len(attempts'[u]) = Len(tries'[u]) - m
            /\ \A i \in DOMAIN attempts'[u] : attempts'[u][i] = tries'[u][m + i].at
        BY <2>6, <3>1 DEF Forgot
      <3>3. \A i \in 1..m : now' - tries'[u][i].at >= WINDOW
        BY <1>1, <2>2, <2>6, <2>7, <3>1
      <3> QED BY <3>2, <3>3 DEF Forgot
    <2> QED BY <2>1, <2>4, <2>5, <2>8
  <1> QED BY <1>2, <1>3

-----------------------------------------------------------------------------
\* The invariant is inductive.
LEMMA StepInv == IInv /\ [Next]_vars => IInv'
  <1> SUFFICES ASSUME IInv, [Next]_vars PROVE IInv'
    OBVIOUS
  <1>1. CASE UNCHANGED vars
    BY <1>1, LimiterKept DEF vars, IInv, TypeOK, SessionInv, CallInv, CallOK, EnabledWasProved
  <1>2. CASE Next
    BY <1>2, LoginVerifiedStep, SubmitStepUpStep, SubmitOtherTokenStep, SubmitVerifyStep,
       ScoreLoginStep, SelectSecretStep, EnableStep, IssueSessionStep, RecordLoginStep, AbortStep,
       SetupTotpStep, RestartStep, TickStep DEF Next
  <1> QED BY <1>1, <1>2

LEMMA Invariance == Spec => []IInv
  <1>1. Init => IInv
    BY InitInv
  <1>2. IInv /\ [Next]_vars => IInv'
    BY StepInv
  <1> QED BY <1>1, <1>2, PTL DEF Spec

\* Every variable of StepUp keeps its type; in particular a history holds only places.
THEOREM TypeCorrect == Spec => []TypeOK
  <1>1. IInv => TypeOK
    BY DEF IInv
  <1> QED BY <1>1, Invariance, PTL

\* login/verify and login/step-up: the first session of a user was stepped up, whatever
\* events are lost and calls overlap.
THEOREM FirstSessionsSteppedUp == Spec => []FirstSessionSteppedUp
  <1>1. IInv => FirstSessionSteppedUp
    BY DEF IInv, SessionInv, FirstSessionSteppedUp
  <1> QED BY <1>1, Invariance, PTL

\* totp_enabled: it is true only of a secret that was verified, or of one that replaced
\* it during the verification.
THEOREM EnabledSecretsProved == Spec => []EnabledWasProved
  <1>1. IInv => EnabledWasProved
    BY DEF IInv
  <1> QED BY <1>1, Invariance, PTL

\* recordStepUpAttempt: an attempt is refused only after MAX_ATTEMPTS others within a
\* WINDOW.
THEOREM LimiterAlwaysForgives == Spec => []LimiterForgives
  <1>1. IInv => LimiterForgives
    BY DEF IInv, LimiterInv, VerdictOK, Before, LimiterForgives
  <1> QED BY <1>1, Invariance, PTL

\* The newest of the attempts let through within a WINDOW has all others shortly before it.
LEMMA Caps ==
    ASSUME IInv, NEW u \in Users, NEW t \in 0..now
    PROVE  Cardinality({i \in TriesIn(u, t, t + WINDOW) : ~tries[u][i].blocked}) <= MAX_ATTEMPTS
  <1> DEFINE h == tries[u]
             passed == {i \in TriesIn(u, t, t + WINDOW) : ~h[i].blocked}
  <1>1. h \in Seq(Try) /\ MAX_ATTEMPTS \in Nat /\ WINDOW \in Nat /\ t \in Int
    BY StepUpAssumption DEF IInv, TypeOK
  <1>2. VerdictOK(u)
    BY DEF IInv, LimiterInv
  <1>3. PICK n \in Nat : n = Len(h) /\ DOMAIN h = 1..n
    BY <1>1
  <1>4. \A i \in 1..n : h[i].at \in Nat
    <2>1. \A i \in 1..n : h[i] \in Try
      BY <1>1, <1>3
    <2> QED BY <2>1 DEF Try
  <1>5. \A i \in passed : i \in 1..n /\ h[i].at >= t /\ h[i].at < t + WINDOW /\ ~h[i].blocked
    BY <1>3 DEF TriesIn
  <1> HIDE DEF h, passed
  <1>6. CASE passed = {}
    <2>1. Cardinality(passed) = 0
      BY <1>6, FS_EmptySet
    <2>2. Cardinality(passed) <= MAX_ATTEMPTS
      BY <1>1, <2>1
    <2> QED BY <2>2 DEF passed, h
  <1>7. CASE passed # {}
    <2>1. PICK i \in passed : \A j \in passed : j <= i
      <3>1. passed \in SUBSET (1..n)
        BY <1>5
      <3> QED BY <1>7, <3>1, GreatestBelow
    <2>2. passed \ {i} \subseteq Before(h, i)
      <3> SUFFICES ASSUME NEW j \in passed, j # i PROVE j \in Before(h, i)
        OBVIOUS
      <3>1. j \in 1..(i - 1)
        BY <1>5, <2>1
      <3>2. h[i].at - h[j].at < WINDOW
        <4>1. /\ h[i].at \in Nat /\ h[i].at < t + WINDOW
              /\ h[j].at \in Nat /\ h[j].at >= t
          BY <1>4, <1>5
        <4>2. ASSUME NEW a \in Nat, NEW b \in Nat, a < t + WINDOW, b >= t
              PROVE  a - b < WINDOW
          BY <1>1, <4>2
        <4> QED BY <4>1, <4>2
      <3> QED BY <3>1, <3>2 DEF Before
    <2>3. IsFiniteSet(Before(h, i)) /\ Cardinality(Before(h, i)) \in Nat
      <3>1. i - 1 \in Int /\ Before(h, i) \in SUBSET (1..(i - 1))
        BY <1>5, <2>1 DEF Before
      <3>2. IsFiniteSet(1..(i - 1))
        BY <3>1, FS_Interval
      <3>3. IsFiniteSet(Before(h, i))
        BY <3>1, <3>2, FS_Subset
      <3> QED BY <3>3, FS_CardinalityType
    <2>4. ~(Cardinality(Before(h, i)) >= MAX_ATTEMPTS)
      BY <1>2, <1>3, <1>5, <2>1 DEF VerdictOK, h
    <2>5. /\ IsFiniteSet(passed \ {i}) /\ Cardinality(passed \ {i}) \in Nat
          /\ Cardinality(passed \ {i}) <= Cardinality(Before(h, i))
      BY <2>2, <2>3, FS_Subset, FS_CardinalityType
    <2>6. Cardinality((passed \ {i}) \cup {i}) = Cardinality(passed \ {i}) + 1
      BY <2>5, FS_AddElement
    <2>7. (passed \ {i}) \cup {i} = passed
      BY <2>1
    <2>8. Cardinality(passed) = Cardinality(passed \ {i}) + 1
      BY <2>6, <2>7
    <2>9. Cardinality(passed) <= MAX_ATTEMPTS
      <3> DEFINE c == Cardinality(passed \ {i})
                 b == Cardinality(Before(h, i))
      <3>1. c \in Nat /\ b \in Nat /\ c <= b /\ ~(b >= MAX_ATTEMPTS)
        BY <2>3, <2>4, <2>5
      <3> HIDE DEF c, b
      <3>2. c + 1 <= MAX_ATTEMPTS
        BY <1>1, <3>1
      <3> QED BY <2>8, <3>2 DEF c
    <2> QED BY <2>9 DEF passed, h
  <1> QED BY <1>6, <1>7

\* recordStepUpAttempt: of the attempts within a WINDOW at most MAX_ATTEMPTS pass.
THEOREM LimiterAlwaysCaps == Spec => []LimiterCaps
  <1>1. IInv => LimiterCaps
    BY Caps DEF LimiterCaps
  <1> QED BY <1>1, Invariance, PTL
=============================================================================
