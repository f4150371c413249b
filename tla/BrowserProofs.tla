---------------------------- MODULE BrowserProofs ----------------------------
(***************************************************************************)
(* Theorems about Browser for every set of families, requests and scopes   *)
(* and every bound on generations, secrets and open jobs.                  *)
(***************************************************************************)
EXTENDS Browser, FiniteSetTheorems, WellFoundedInduction, TLAPS

\* The natural numbers are well ordered.
LEMMA LeastNatural ==
    ASSUME NEW S \in SUBSET Nat, S # {}
    PROVE  \E n \in S : \A m \in S : n <= m
  <1> DEFINE R == {p \in Nat \X Nat : p[1] < p[2]}
  <1>1. IsWellFoundedOn(R, Nat)
    BY NatLessThanWellFounded DEF OpToRel
  <1>2. \E x \in S : \A y \in S : <<y, x>> \notin R
    <2> HIDE DEF R
    <2> QED BY <1>1, WFMin
  <1>3. \A x, y \in Nat : <<y, x>> \in R <=> y < x
    OBVIOUS
  <1> HIDE DEF R
  <1>4. PICK n \in S : \A y \in S : <<y, n>> \notin R
    BY <1>2
  <1>5. ASSUME NEW m \in S PROVE n <= m
    <2>1. n \in Nat /\ m \in Nat /\ <<m, n>> \notin R
      BY <1>4
    <2>2. ~(m < n)
      BY <2>1, <1>3
    <2> QED BY <2>1, <2>2
  <1> QED BY <1>5

\* Every list is a sequence of its own entries.
LEMMA OwnEntries ==
    ASSUME NEW T, NEW s \in Seq(T)
    PROVE  s \in Seq(ToSet(s))
  <1>1. DOMAIN s = 1..Len(s) /\ Len(s) \in Nat /\ s = [i \in 1..Len(s) |-> s[i]]
    OBVIOUS
  <1>2. s \in [1..Len(s) -> ToSet(s)]
    BY <1>1 DEF ToSet
  <1> QED BY <1>1, <1>2

-----------------------------------------------------------------------------
\* Where the k-th entry of a list without its i-th one stood.
Before(i, k) == IF k < i THEN k ELSE k + 1

LEMMA Removed ==
    ASSUME NEW T, NEW s \in Seq(T), NEW i \in DOMAIN s
    PROVE  /\ RemoveAt(s, i) \in Seq(T)
           /\ DOMAIN RemoveAt(s, i) = 1..(Len(s) - 1)
           /\ \A k \in 1..(Len(s) - 1) : /\ Before(i, k) \in DOMAIN s \ {i}
                                         /\ RemoveAt(s, i)[k] = s[Before(i, k)]
           /\ \A k, l \in 1..(Len(s) - 1) : Before(i, k) = Before(i, l) => k = l
  <1> DEFINE a == SubSeq(s, 1, i - 1)
             b == SubSeq(s, i + 1, Len(s))
  <1>0. PICK n \in Nat : n = Len(s) /\ DOMAIN s = 1..n /\ i \in 1..n
    OBVIOUS
  <1>1. a \in Seq(T) /\ Len(a) = i - 1 /\ \A k \in 1..(i - 1) : a[k] = s[k]
    BY <1>0
  <1>2. b \in Seq(T) /\ Len(b) = n - i /\ \A k \in 1..(n - i) : b[k] = s[i + k]
    <2>1. b \in Seq(T)
      BY <1>0
    <2>2. Len(b) = n - i
      BY <1>0
    <2>3. \A k \in 1..(n - i) : b[k] = s[i + k]
      BY <1>0
    <2> QED BY <2>1, <2>2, <2>3
  <1>3. RemoveAt(s, i) = a \o b
    BY DEF RemoveAt
  <1> HIDE DEF a, b
  <1>4. a \o b \in Seq(T)
    BY <1>1, <1>2
  <1>5. Len(a \o b) = Len(a) + Len(b)
    <2>1. a \in Seq(T) /\ b \in Seq(T)
      BY <1>1, <1>2
    <2> QED BY <2>1
  <1>6. Len(a \o b) = n - 1 /\ DOMAIN (a \o b) = 1..(n - 1)
    BY <1>0, <1>1, <1>2, <1>4, <1>5
  <1>7. \A k \in 1..(n - 1) : (a \o b)[k] = IF k <= i - 1 THEN a[k] ELSE b[k - (i - 1)]
    <2>1. \A k \in 1..(Len(a) + Len(b)) :
             (a \o b)[k] = IF k <= Len(a) THEN a[k] ELSE b[k - Len(a)]
      <3>1. a \in Seq(T) /\ b \in Seq(T)
        BY <1>1, <1>2
      <3> QED BY <3>1
    <2>2. Len(a) + Len(b) = n - 1 /\ Len(a) = i - 1
      BY <1>1, <1>5, <1>6
    <2> QED BY <2>1, <2>2
  <1>8. ASSUME NEW k \in 1..(n - 1) PROVE (a \o b)[k] = s[Before(i, k)]
    <2>1. CASE k < i
      BY <2>1, <1>0, <1>1, <1>7 DEF Before
    <2>2. CASE ~(k < i)
      <3>1. k - (i - 1) \in 1..(n - i) /\ i + (k - (i - 1)) = k + 1 /\ ~(k <= i - 1)
        BY <2>2, <1>0
      <3>2. (a \o b)[k] = b[k - (i - 1)]
        BY <3>1, <1>7
      <3>3. b[k - (i - 1)] = s[k + 1]
        BY <3>1, <1>2
      <3> QED BY <2>2, <3>2, <3>3 DEF Before
    <2> QED BY <2>1, <2>2
  <1>9. \A k \in 1..(n - 1) : Before(i, k) \in 1..n /\ Before(i, k) # i
    BY <1>0 DEF Before
  <1>10. \A k, l \in 1..(n - 1) : Before(i, k) = Before(i, l) => k = l
    BY <1>0 DEF Before
  <1> QED BY <1>0, <1>3, <1>4, <1>6, <1>8, <1>9, <1>10

-----------------------------------------------------------------------------
\* t is what a filter by S leaves of the first n entries of s: its k-th entry is the
\* one that stood at from[k].
Filters(t, s, n, S, from) ==
    /\ from \in [1..Len(t) -> 1..n]
    /\ \A k \in 1..Len(t) : t[k] = s[from[k]] /\ t[k] \in S
    /\ \A k, l \in 1..Len(t) : k < l => from[k] < from[l]
    /\ \A i \in 1..n : s[i] \in S => \E k \in 1..Len(t) : from[k] = i

LEMMA KeptFilters ==
    ASSUME NEW T, NEW s \in Seq(T), NEW S
    PROVE  /\ Kept(s, S) \in Seq(T)
           /\ \E from : Filters(Kept(s, S), s, Len(s), S, from)
  <1> DEFINE Keeps(f, n) == IF n = 0 THEN <<>>
                            ELSE IF s[n] \in S THEN Append(f[n - 1], s[n]) ELSE f[n - 1]
             IsKept(f, m) == f = [n \in 0..m |-> Keeps(f, n)]
  <1>0. PICK len \in Nat : len = Len(s) /\ \A i \in 1..len : s[i] \in T
    OBVIOUS
  \* The recursion defines a function, up to every length,
  <1>1. ASSUME NEW m \in Nat PROVE \E f : IsKept(f, m)
    <2> DEFINE undefined == {k \in Nat : ~\E f : IsKept(f, k)}
    <2> SUFFICES ASSUME undefined # {} PROVE FALSE
      OBVIOUS
    <2>1. PICK k \in undefined : \A l \in undefined : k <= l
      <3>1. undefined \in SUBSET Nat
        OBVIOUS
      <3> HIDE DEF undefined
      <3> QED BY <3>1, LeastNatural
    <2>2. k \in Nat /\ ~\E f : IsKept(f, k)
      BY <2>1
    <2>3. CASE k = 0
      <3>1. IsKept([n \in 0..k |-> <<>>], k)
        BY <2>3
      <3> HIDE DEF IsKept
      <3> QED BY <3>1, <2>2
    <2>4. CASE k # 0
      <3>1. k - 1 \in Nat /\ k - 1 \notin undefined
        <4> HIDE DEF undefined
        <4>1. k \in Nat /\ k # 0 /\ k - 1 \in Nat /\ ~(k <= k - 1)
          BY <2>2, <2>4
        <4> QED BY <4>1, <2>1
      <3>2. PICK f : IsKept(f, k - 1)
        BY <3>1
      <3> DEFINE g == [n \in 0..k |-> IF n = k THEN Keeps(f, k) ELSE f[n]]
      <3>3. \A n \in 0..k : g[n] = Keeps(g, n)
        <4> SUFFICES ASSUME NEW n \in 0..k PROVE g[n] = Keeps(g, n)
          OBVIOUS
        <4>1. CASE n = 0
          BY <4>1, <3>1, <3>2, <2>4
        <4>2. CASE n # 0 /\ n # k
          <5>1. n \in 0..(k - 1) /\ n - 1 \in 0..(k - 1) /\ n - 1 \in 0..k /\ n - 1 # k
            BY <4>2, <3>1
          <5>2. g[n] = f[n] /\ g[n - 1] = f[n - 1] /\ f[n] = Keeps(f, n)
            BY <5>1, <4>2, <3>2
          <5> QED BY <5>2
        <4>3. CASE n # 0 /\ n = k
          <5>1. n - 1 \in 0..k /\ n - 1 # k
            BY <4>3, <3>1
          <5>2. g[n] = Keeps(f, n) /\ g[n - 1] = f[n - 1]
            BY <5>1, <4>3
          <5> QED BY <5>2
        <4> QED BY <4>1, <4>2, <4>3
      <3>4. IsKept(g, k)
        BY <3>3
      <3> HIDE DEF IsKept, g
      <3> QED BY <3>4, <2>2
    <2> QED BY <2>3, <2>4
  <1> DEFINE kept == CHOOSE f : IsKept(f, len)
  <1>2. IsKept(kept, len)
    <2> HIDE DEF IsKept
    <2> QED BY <1>1
  <1>3. Kept(s, S) = kept[len]
    BY <1>0 DEF Kept
  <1>4. \A n \in 0..len : kept[n] = Keeps(kept, n)
    <2> HIDE DEF kept
    <2> QED BY <1>2
  <1> HIDE DEF kept, IsKept
  \* and what it keeps of the first n entries is as claimed.
  <1> DEFINE Right(n) == kept[n] \in Seq(T) /\ \E from : Filters(kept[n], s, n, S, from)
             wrong == {n \in 0..len : ~Right(n)}
  <1>5. wrong = {}
    <2> SUFFICES ASSUME wrong # {} PROVE FALSE
      OBVIOUS
    <2>1. PICK n \in wrong : \A l \in wrong : n <= l
      <3>1. wrong \in SUBSET Nat
        BY <1>0
      <3> HIDE DEF wrong
      <3> QED BY <3>1, LeastNatural
    <2>2. n \in 0..len /\ ~Right(n)
      BY <2>1
    <2>3. CASE n = 0
      <3>1. kept[n] = <<>>
        BY <2>3, <1>4, <2>2
      <3>2. Filters(<<>>, s, 0, S, <<>>)
        BY DEF Filters
      <3> QED BY <3>1, <3>2, <2>2, <2>3
    <2>4. CASE n # 0
      <3>1. n - 1 \in 0..len /\ n \in 1..len /\ n - 1 \notin wrong
        BY <2>1, <2>2, <2>4, <1>0
      <3> DEFINE t == kept[n - 1]
      <3>2. Right(n - 1)
        BY <3>1
      <3>3. PICK from : t \in Seq(T) /\ Filters(t, s, n - 1, S, from)
        BY <3>2
      <3>4. kept[n] = IF s[n] \in S THEN Append(t, s[n]) ELSE t
        BY <1>4, <2>2, <2>4
      <3> HIDE DEF t
      <3>5. PICK m \in Nat : m = Len(t)
        BY <3>3
      <3>6. CASE s[n] \in S
        <4> DEFINE u    == Append(t, s[n])
                   more == [k \in 1..(m + 1) |-> IF k = m + 1 THEN n ELSE from[k]]
        <4>1. s[n] \in T
          BY <1>0, <3>1
        <4>2. u \in Seq(T) /\ Len(u) = m + 1 /\ u[m + 1] = s[n] /\ \A k \in 1..m : u[k] = t[k]
          BY <4>1, <3>3, <3>5
        <4> HIDE DEF u
        <4>3. \A k \in 1..m : from[k] \in 1..(n - 1) /\ t[k] = s[from[k]] /\ t[k] \in S
          BY <3>3, <3>5 DEF Filters
        <4>4. /\ more \in [1..(m + 1) -> 1..n] /\ more[m + 1] = n
              /\ \A k \in 1..m : more[k] = from[k]
          BY <4>3, <3>1, <3>5
        <4> HIDE DEF more
        <4>5. \A k \in 1..(m + 1) : u[k] = s[more[k]] /\ u[k] \in S
          <5> SUFFICES ASSUME NEW k \in 1..(m + 1) PROVE u[k] = s[more[k]] /\ u[k] \in S
            OBVIOUS
          <5>1. k \in 1..m \/ k = m + 1
            BY <3>5
          <5> QED BY <5>1, <4>2, <4>3, <4>4, <3>6
        <4>6. \A k, l \in 1..(m + 1) : k < l => more[k] < more[l]
          <5> SUFFICES ASSUME NEW k \in 1..(m + 1), NEW l \in 1..(m + 1), k < l
                       PROVE more[k] < more[l]
            OBVIOUS
          <5>1. k \in 1..m /\ (l \in 1..m \/ l = m + 1)
            <6>1. m \in Nat /\ k \in Nat /\ l \in Nat /\ k >= 1 /\ k < l /\ l <= m + 1
              BY <3>5
            <6> QED BY <6>1
          <5>2. CASE l \in 1..m
            <6>1. from[k] < from[l]
              BY <5>1, <5>2, <3>3, <3>5 DEF Filters
            <6> QED BY <5>1, <5>2, <6>1, <4>4
          <5>3. CASE l = m + 1
            <6>1. from[k] \in 1..(n - 1) /\ n \in Nat
              BY <5>1, <4>3, <3>1, <1>0
            <6>2. more[k] = from[k] /\ more[l] = n
              BY <5>1, <5>3, <4>4
            <6> QED BY <6>1, <6>2
          <5> QED BY <5>1, <5>2, <5>3
        <4>7. \A i \in 1..n : s[i] \in S => \E k \in 1..(m + 1) : more[k] = i
          <5> SUFFICES ASSUME NEW i \in 1..n, s[i] \in S PROVE \E k \in 1..(m + 1) : more[k] = i
            OBVIOUS
          <5>1. CASE i = n
            BY <5>1, <4>4, <3>5
          <5>2. CASE i # n
            <6>1. i \in 1..(n - 1)
              BY <5>2, <3>1
            <6>2. PICK k \in 1..m : from[k] = i
              BY <6>1, <3>3, <3>5 DEF Filters
            <6> QED BY <6>2, <4>4, <3>5
          <5> QED BY <5>1, <5>2
        <4>8. Filters(u, s, n, S, more)
          BY <4>2, <4>4, <4>5, <4>6, <4>7 DEF Filters
        <4>9. kept[n] = u
          BY <3>4, <3>6 DEF u
        <4> QED BY <2>2, <4>2, <4>8, <4>9
      <3>7. CASE s[n] \notin S
        <4>1. kept[n] = t
          BY <3>4, <3>7
        <4>2. from \in [1..Len(t) -> 1..n]
          <5>1. from \in [1..m -> 1..(n - 1)]
            BY <3>3, <3>5 DEF Filters
          <5>2. \A k \in 1..(n - 1) : k \in 1..n
            BY <3>1
          <5> QED BY <5>1, <5>2, <3>5
        <4>3. \A i \in 1..n : s[i] \in S => \E k \in 1..Len(t) : from[k] = i
          <5> SUFFICES ASSUME NEW i \in 1..n, s[i] \in S PROVE \E k \in 1..Len(t) : from[k] = i
            OBVIOUS
          <5>1. i # n
            BY <3>7
          <5>2. i \in 1..(n - 1)
            BY <5>1, <3>1
          <5> QED BY <5>2, <3>3 DEF Filters
        <4>4. Filters(t, s, n, S, from)
          BY <4>2, <4>3, <3>3 DEF Filters
        <4> QED BY <2>2, <3>3, <4>1, <4>4
      <3> QED BY <3>6, <3>7
    <2> QED BY <2>3, <2>4
  <1>6. Right(len)
    <2>1. len \in 0..len
      BY <1>0
    <2> QED BY <2>1, <1>5
  <1> QED BY <1>0, <1>3, <1>6

-----------------------------------------------------------------------------
LEMMA KeptList ==
    ASSUME NEW T, NEW s \in Seq(T), NEW S
    PROVE  /\ Kept(s, S) \in Seq(T)
           /\ ToSet(Kept(s, S)) = ToSet(s) \cap S
           /\ IsInjective(s) => IsInjective(Kept(s, S))
           /\ \A k \in DOMAIN Kept(s, S) : k # 1 => \E j \in DOMAIN s : j # 1 /\ Kept(s, S)[k] = s[j]
  <1> DEFINE t == Kept(s, S)
  <1>1. t \in Seq(T)
    BY KeptFilters
  <1>2. PICK from : Filters(t, s, Len(s), S, from)
    BY KeptFilters
  <1> HIDE DEF t
  <1>3. PICK n \in Nat : n = Len(s) /\ DOMAIN s = 1..n
    OBVIOUS
  <1>4. PICK m \in Nat : m = Len(t) /\ DOMAIN t = 1..m
    BY <1>1
  <1>5. /\ \A k \in 1..m : from[k] \in 1..n /\ t[k] = s[from[k]] /\ t[k] \in S
        /\ \A k, l \in 1..m : k < l => from[k] < from[l]
        /\ \A i \in 1..n : s[i] \in S => \E k \in 1..m : from[k] = i
    BY <1>2, <1>3, <1>4 DEF Filters
  <1>6. ToSet(t) = ToSet(s) \cap S
    <2>1. ASSUME NEW x \in ToSet(t) PROVE x \in ToSet(s) \cap S
      BY <1>3, <1>4, <1>5 DEF ToSet
    <2>2. ASSUME NEW x \in ToSet(s) \cap S PROVE x \in ToSet(t)
      <3>1. PICK i \in 1..n : x = s[i]
        BY <1>3 DEF ToSet
      <3>2. PICK k \in 1..m : from[k] = i
        BY <3>1, <1>5
      <3>3. t[k] = x
        BY <3>1, <3>2, <1>5
      <3> QED BY <3>3, <1>4 DEF ToSet
    <2> QED BY <2>1, <2>2
  <1>7. ASSUME IsInjective(s) PROVE IsInjective(t)
    <2> SUFFICES ASSUME NEW k \in 1..m, NEW l \in 1..m, t[k] = t[l], k < l PROVE FALSE
      <3>1. \A k, l \in 1..m : t[k] = t[l] => ~(k < l)
        OBVIOUS
      <3>2. \A k, l \in 1..m : t[k] = t[l] => k = l
        BY <3>1, <1>4
      <3> QED BY <3>2, <1>4 DEF IsInjective
    <2>1. from[k] \in 1..n /\ from[l] \in 1..n /\ s[from[k]] = s[from[l]]
      BY <1>5
    <2>2. from[k] = from[l]
      BY <2>1, <1>3, <1>7 DEF IsInjective
    <2>3. from[k] < from[l]
      BY <1>5
    <2> QED BY <2>1, <2>2, <2>3
  <1>8. ASSUME NEW k \in 1..m, k # 1 PROVE from[k] \in DOMAIN s /\ from[k] # 1 /\ t[k] = s[from[k]]
    <2>1. 1 \in 1..m /\ 1 < k
      BY <1>4, <1>8
    <2>2. from[1] \in 1..n /\ from[k] \in 1..n /\ from[1] < from[k]
      BY <2>1, <1>5
    <2> QED BY <2>2, <1>3, <1>5
  <1>9. \A k \in DOMAIN t : k # 1 => \E j \in DOMAIN s : j # 1 /\ t[k] = s[j]
    BY <1>4, <1>8
  <1> QED BY <1>1, <1>6, <1>7, <1>9 DEF t

\* A list of families without repetition is no longer than there are families.
LEMMA DistinctRows ==
    ASSUME NEW rows \in Seq(Families), IsInjective(rows)
    PROVE  rows \in Rows
  <1>1. PICK n \in Nat : n = Len(rows) /\ rows \in [1..n -> Families]
    OBVIOUS
  <1>2. IsFiniteSet(Families) /\ Cardinality(Families) \in Nat
    BY TabAssumption, FS_CardinalityType
  <1>3. rows \in Injection(1..n, Families)
    BY <1>1 DEF Injection
  <1>4. Cardinality(1..n) <= Cardinality(Families)
    BY <1>2, <1>3, FS_Injection
  <1>5. Cardinality(1..n) = n
    <2>1. 1 \in Int /\ n \in Int /\ (IF 1 > n THEN 0 ELSE n - 1 + 1) = n
      BY <1>1
    <2> QED BY <2>1, FS_Interval
  <1>6. n \in 0..Cardinality(Families)
    BY <1>1, <1>2, <1>4, <1>5
  <1> QED BY <1>1, <1>6 DEF Rows, SeqOf

LEMMA RowsAreSeq ==
    ASSUME NEW rows \in Rows
    PROVE  rows \in Seq(Families)
  <1>1. PICK n \in 0..Cardinality(Families) : rows \in [1..n -> Families]
    BY DEF Rows, SeqOf
  <1>2. Cardinality(Families) \in Nat
    BY TabAssumption, FS_CardinalityType
  <1> QED BY <1>1, <1>2

\* Loads asks for each of the sections, and for nothing else.
LEMMA LoadsAsk ==
    ASSUME NEW S, IsFiniteSet(S)
    PROVE  /\ Loads(S) \in Seq(ToSet(Loads(S)))
           /\ \A k \in DOMAIN Loads(S) : \E s \in S : Loads(S)[k] = Load(s)
  <1>1. PICK n \in Nat : n = Cardinality(S)
    BY FS_CardinalityType
  <1>2. \E f \in [1..n -> S] : IsInjective(f)
    BY <1>1, FS_CardinalityType DEF ExistsBijection, Bijection, Injection
  <1>3. SetToSeq(S) \in [1..n -> S]
    BY <1>1, <1>2 DEF SetToSeq
  <1>4. Loads(S) = [k \in 1..n |-> Load(SetToSeq(S)[k])]
    BY <1>1 DEF Loads
  <1>5. Loads(S) \in [1..n -> ToSet(Loads(S))]
    BY <1>4 DEF ToSet
  <1>6. Loads(S) \in Seq(ToSet(Loads(S)))
    BY <1>5
  <1>7. ASSUME NEW k \in DOMAIN Loads(S) PROVE \E s \in S : Loads(S)[k] = Load(s)
    BY <1>3, <1>4
  <1> QED BY <1>6, <1>7

-----------------------------------------------------------------------------
\* The steps that a page's own handlers take.
StepsOf ==
    [login     |-> {"verify", "step-up", "wrong number"},
     register  |-> {"passkey", "setup", "confirm", "redirect"},
     dashboard |-> {"load", "revoke", "vote", "create", "banner"},
     dispute   |-> {"list", "receipt"},
     attack    |-> {"fatigue", "capture", "pause", "replay"},
     phishing  |-> {"attempt"}]

\* The attack page is reached by a new document only, and left by one.
PlaceOK ==
    /\ scope \in Scopes
    /\ page \in entries /\ entries \subseteq Pages
    /\ "attack" \in entries => entries = {"attack"}

AuthOK == auth = [memory |-> auth.memory, storage |-> auth.memory]
          /\ auth.memory \in Token \cup {NULL}

ServerInv ==
    /\ server \in Server
    /\ ServerOK
    /\ ToSet(server.rows) \subseteq scope.families

-----------------------------------------------------------------------------
\* Another family got a token after f did.
Overtaken(f) == f \in ToSet(server.rows) /\ server.rows[1] # f

\* Each row but the first of a list of sessions is overtaken.
Behind(rows) == \A k \in DOMAIN rows : k # 1 => Overtaken(rows[k])

Listing(s, data) ==
    /\ s = "sessions"  => data \in Rows /\ IsInjective(data) /\ Behind(data)
    /\ s = "approvals" => data \subseteq Requests
    /\ s \in {"activity", "security"} => data = TRUE

IsJob(job) ==
    /\ job = [at |-> job.at, what |-> job.what, reply |-> job.reply, live |-> job.live]
    /\ job.at \in Steps /\ job.live \in BOOLEAN

\* What each step of a handler goes by, read from the route or kept from its start.
LoadOK(job)   == job.at = "load" => /\ job.what \in Sections
                                    /\ (job.reply # NULL => Listing(job.what, job.reply))
ListOK(job)   == job.at = "list" /\ job.reply # NULL => job.reply \subseteq Requests
ReceiptOK(job) == job.at = "receipt" => /\ job.what \in Requests \cup {NULL}
                                        /\ job.reply # NULL => job.reply = job.what
LinkOK(job) ==
    /\ job.at = "passkey" /\ job.reply # NULL => server.passkeys # {}
    /\ job.at = "setup" => /\ server.passkeys # {}
                           /\ job.reply # NULL => job.reply \in 1..server.secret
    /\ job.at = "confirm" => /\ server.secret >= 1 /\ job.what \in 0..MaxSecrets
                             /\ job.reply # NULL => /\ job.what \in 1..server.secret
                                                    /\ (job.what = server.secret => server.enabled)
RevokeOK(job) == job.at = "revoke" => job.what \in Families /\ Overtaken(job.what)
VoteOK(job)   == job.at = "vote" =>
                    /\ job.what \in Requests
                    /\ job.reply # NULL /\ job.what \in Quick => server.requests[job.what] = "resolved"
ReplayOK(job) == /\ job.at \in {"capture", "pause", "replay"} => job.what \in Token
                 /\ job.at = "capture" => job.reply \in Token \cup {NULL, Failed}

JobOK(job) ==
    /\ IsJob(job)
    /\ job.at \in Idle => job.live
    /\ job.at \in StepsOf["attack"] <=> page = "attack"
    /\ LoadOK(job) /\ ListOK(job) /\ ReceiptOK(job) /\ LinkOK(job)
    /\ RevokeOK(job) /\ VoteOK(job) /\ ReplayOK(job)

\* A job whose page is on screen agrees with what the page shows.
Agrees(job) ==
    /\ job.at \in {"passkey", "setup"} => ui.phase = "form" /\ ui.status = "loading"
    /\ job.at = "confirm" => /\ ui.phase = "totp-qr" /\ ui.status = "loading"
                             /\ job.what \in {ui.secret, 0}
    /\ job.at = "redirect" => ui.phase = "done"
    /\ job.at = "receipt" => ui.loading /\ (~ui.strayed => job.what = ui.selected)
    /\ job.at = "fatigue" => ui.running /\ ui.results < FatigueAttempts
    /\ job.at \in {"capture", "pause", "replay"} => ui.replay = "running"
    /\ job.at \in {"pause", "replay"} => Len(ui.replays) = 1
    /\ job.at = "load" /\ job.what = "approvals" /\ job.reply # NULL =>
          job.reply \cap ui.quiet \cap Quick = {}

LiveOK(job) == job.live => ui # NULL /\ job.at \in StepsOf[page] /\ Agrees(job)

\* Handlers that a page runs one at a time.
Alone == {{"passkey", "setup", "confirm", "redirect"}, {"receipt"}, {"fatigue"},
          {"capture", "pause", "replay"}}

Rivals(job, other) ==
    job.live /\ other.live /\ \E group \in Alone : job.at \in group /\ other.at \in group

JobsInv ==
    /\ jobs \in Seq(ToSet(jobs))
    /\ \A i \in DOMAIN jobs : JobOK(jobs[i]) /\ LiveOK(jobs[i])
    /\ \A i, k \in DOMAIN jobs : Rivals(jobs[i], jobs[k]) => i = k

-----------------------------------------------------------------------------
\* What the page on screen has to be true to.
RegisterTrue ==
    /\ ui.phase # "form" => server.passkeys # {} /\ ui.secret \in 1..server.secret
    /\ ui.phase = "done" => (server.secret = ui.secret => server.enabled)

ListsTrue ==
    /\ ui.lists["sessions"].status = "ok" =>
          IsInjective(ui.lists["sessions"].data) /\ Behind(ui.lists["sessions"].data)
    /\ ui.lists["approvals"].status = "ok" =>
          ui.lists["approvals"].data \cap ui.quiet \cap Quick = {}
    /\ \A r \in ui.quiet \cap Quick : server.requests[r] = "resolved"

DisputeTrue == ui.phase = "reveal" /\ ~ui.strayed => ui.receipt = ui.selected

\* A timer of JudgeMode goes on to the step after the one on screen.
JudgeInv(judge) ==
    /\ judge.state = "running" => /\ judge.timers = {judge.ref} /\ judge.ref = judge.step + 1
                                  /\ ~judge.paused
    /\ judge.state # "running" => judge.timers = {}
    /\ judge.state = "idle" => judge.step = 0
    /\ judge.step = judge.active
    /\ judge.summary <=> judge.state = "done"
    /\ judge.summary => judge.step = DemoSteps

\* The panel's timers that are left are the last ones.
PanelInv(panel) ==
    LET last == Signals[panel.scenario] + 2
    IN  /\ panel.state = "running" <=> panel.timers # {}
        /\ \A k \in panel.timers : k..last \subseteq panel.timers

EngineInv(engine) == engine.refreshing => engine.auto \/ engine.manual > 0

ShowInv(show) == JudgeInv(show.judge) /\ PanelInv(show.panel) /\ EngineInv(show.engine)

ScreenInv ==
    ui # NULL =>
        /\ ui \in UiOf[page]
        /\ page = "register"  => RegisterTrue
        /\ page = "dashboard" => ListsTrue /\ ShowInv(ui.show)
        /\ page = "dispute"   => DisputeTrue

IInv == PlaceOK /\ AuthOK /\ ServerInv /\ JobsInv /\ ScreenInv

-----------------------------------------------------------------------------
\* Routes only add to what the jobs and the pages go by; a rotation, which brings the
\* rotated family back to the front, is asked for on the attack page only.
Grows ==
    /\ \A r \in Requests : server.requests[r] = "resolved" => server'.requests[r] = "resolved"
    /\ server.passkeys # {} => server'.passkeys # {}
    /\ server'.secret >= server.secret
    /\ server'.secret = server.secret /\ server.enabled => server'.enabled
    /\ page # "attack" => \A f \in Families : Overtaken(f) => Overtaken(f)'

\* What ServerInv says of the sessions, and of the rest.
SessionsOK ==
    /\ server.rows \in Seq(Families) /\ IsInjective(server.rows)
    /\ server.live \subseteq ToSet(server.rows)
    /\ server.generation \in [Families -> 0..MaxGeneration]
    /\ \A f \in Families : server.generation[f] = 0 <=> f \notin ToSet(server.rows)
    /\ ToSet(server.rows) \subseteq scope.families

AccountOK ==
    /\ server.requests \in [Requests -> {"none", "pending", "resolved"}]
    /\ server.voted \subseteq Requests /\ server.passkeys \subseteq Authenticators
    /\ server.secret \in 0..MaxSecrets /\ server.enabled \in BOOLEAN

IsServer == server = [rows |-> server.rows, live |-> server.live,
                      generation |-> server.generation, requests |-> server.requests,
                      voted |-> server.voted, passkeys |-> server.passkeys,
                      secret |-> server.secret, enabled |-> server.enabled]

LEMMA ScopeTypes ==
    ASSUME scope \in Scopes
    PROVE  /\ scope.families \subseteq Families /\ scope.requests \subseteq Requests
           /\ scope.sections \subseteq Sections /\ scope.pages \subseteq Pages
  BY TabAssumption DEF Scope

LEMMA ServerParts ==
    scope \in Scopes => (ServerInv <=> IsServer /\ SessionsOK /\ AccountOK)
  <1> SUFFICES ASSUME scope \in Scopes PROVE ServerInv <=> IsServer /\ SessionsOK /\ AccountOK
    OBVIOUS
  <1>1. ASSUME ServerInv PROVE IsServer /\ SessionsOK /\ AccountOK
    <2>1. IsServer
      BY <1>1 DEF ServerInv, Server, IsServer
    <2>2. server.rows \in Seq(Families) /\ server.generation \in [Families -> 0..MaxGeneration]
      BY <1>1 DEF ServerInv, Server
    <2>3. SessionsOK
      BY <1>1, <2>2 DEF ServerInv, ServerOK, SessionsOK, Fresh
    <2>4. AccountOK
      BY <1>1 DEF ServerInv, ServerOK, AccountOK
    <2> QED BY <2>1, <2>3, <2>4
  <1>2. ASSUME IsServer, SessionsOK, AccountOK PROVE ServerInv
    <2>1. server.live \subseteq Families
      <3>1. \A f \in ToSet(server.rows) : f \in Families
        BY <1>2, ScopeTypes DEF SessionsOK
      <3> QED BY <3>1, <1>2 DEF SessionsOK
    <2>2. server \in Server
      BY <1>2, <2>1 DEF IsServer, SessionsOK, AccountOK, Server
    <2>3. server.rows \in Rows
      BY <1>2, DistinctRows DEF SessionsOK
    <2>4. ServerOK
      BY <1>2, <2>3 DEF ServerOK, SessionsOK, AccountOK, Fresh
    <2> QED BY <1>2, <2>2, <2>4 DEF ServerInv, SessionsOK
  <1> QED BY <1>1, <1>2

\* A family in front of a list it is not in.
LEMMA InFront ==
    ASSUME NEW rows \in Seq(Families), IsInjective(rows), NEW f \in Families \ ToSet(rows)
    PROVE  /\ <<f>> \o rows \in Seq(Families) /\ IsInjective(<<f>> \o rows)
           /\ ToSet(<<f>> \o rows) = ToSet(rows) \cup {f}
           /\ (<<f>> \o rows)[1] = f
  <1>1. PICK n \in Nat : n = Len(rows) /\ DOMAIN rows = 1..n
    OBVIOUS
  <1> DEFINE t == <<f>> \o rows
  <1>2. t \in Seq(Families) /\ Len(t) = n + 1
    BY <1>1
  <1>3. t[1] = f /\ \A k \in 2..(n + 1) : t[k] = rows[k - 1]
    BY <1>1
  <1>4. DOMAIN t = 1..(n + 1)
    BY <1>2
  <1> HIDE DEF t
  <1>5. \A k \in 1..n : rows[k] \in ToSet(rows)
    BY <1>1 DEF ToSet
  <1>6. IsInjective(t)
    <2> SUFFICES ASSUME NEW k \in 1..(n + 1), NEW l \in 1..(n + 1), t[k] = t[l] PROVE k = l
      BY <1>4 DEF IsInjective
    <2>1. \A m \in 2..(n + 1) : t[m] = rows[m - 1] /\ m - 1 \in 1..n /\ t[m] # f
      <3> SUFFICES ASSUME NEW m \in 2..(n + 1)
                   PROVE t[m] = rows[m - 1] /\ m - 1 \in 1..n /\ t[m] # f
        OBVIOUS
      <3>1. m - 1 \in 1..n
        BY <1>1
      <3> QED BY <3>1, <1>3, <1>5
    <2>2. k = 1 \/ k \in 2..(n + 1)
      BY <1>1
    <2>3. l = 1 \/ l \in 2..(n + 1)
      BY <1>1
    <2>4. CASE k \in 2..(n + 1) /\ l \in 2..(n + 1)
      <3>1. k - 1 = l - 1
        BY <2>1, <2>4, <1>1 DEF IsInjective
      <3> QED BY <3>1, <2>4
    <2> QED BY <2>1, <2>2, <2>3, <2>4, <1>3
  <1>7. ToSet(t) = ToSet(rows) \cup {f}
    <2>1. ASSUME NEW x \in ToSet(t) PROVE x \in ToSet(rows) \cup {f}
      <3>1. PICK k \in 1..(n + 1) : x = t[k]
        BY <1>4 DEF ToSet
      <3>2. k = 1 \/ (k \in 2..(n + 1) /\ k - 1 \in 1..n)
        BY <1>1
      <3> QED BY <3>1, <3>2, <1>3, <1>5
    <2>2. f \in ToSet(t)
      <3>1. 1 \in 1..(n + 1)
        BY <1>1
      <3> QED BY <3>1, <1>3, <1>4 DEF ToSet
    <2>3. ASSUME NEW x \in ToSet(rows) PROVE x \in ToSet(t)
      <3>1. PICK k \in 1..n : x = rows[k]
        BY <1>1 DEF ToSet
      <3>2. k + 1 \in 2..(n + 1) /\ k + 1 \in 1..(n + 1) /\ k + 1 - 1 = k
        BY <1>1
      <3> QED BY <3>1, <3>2, <1>3, <1>4 DEF ToSet
    <2> QED BY <2>1, <2>2, <2>3
  <1> QED BY <1>2, <1>3, <1>6, <1>7 DEF t

\* issueSession
LEMMA GrantedStep ==
    ASSUME scope \in Scopes, ServerInv, UNCHANGED scope, NEW f \in Families, Fresh(f),
           server' = Granted(f)
    PROVE  ServerInv' /\ Grows
  <1>1. IsServer /\ SessionsOK /\ AccountOK
    BY ServerParts
  <1>2. f \in scope.families /\ f \notin ToSet(server.rows)
    BY DEF Fresh
  <1>3. server' = [rows |-> <<f>> \o server.rows, live |-> server.live \cup {f},
                   generation |-> [server.generation EXCEPT ![f] = 1],
                   requests |-> server.requests, voted |-> server.voted,
                   passkeys |-> server.passkeys, secret |-> server.secret,
                   enabled |-> server.enabled]
    BY <1>1 DEF Granted, IsServer
  <1>4. PICK rows : rows = <<f>> \o server.rows
    OBVIOUS
  <1>5. /\ rows \in Seq(Families) /\ IsInjective(rows)
        /\ ToSet(rows) = ToSet(server.rows) \cup {f} /\ rows[1] = f
    BY <1>1, <1>2, <1>4, InFront DEF SessionsOK
  <1>6. /\ server'.rows = rows /\ server'.live = server.live \cup {f}
        /\ server'.generation = [server.generation EXCEPT ![f] = 1]
    BY <1>3, <1>4
  <1>7. /\ server'.requests = server.requests /\ server'.voted = server.voted
        /\ server'.passkeys = server.passkeys /\ server'.secret = server.secret
        /\ server'.enabled = server.enabled
    BY <1>3
  <1>8. 1 \in 0..MaxGeneration
    BY TabAssumption
  <1>9. server'.generation \in [Families -> 0..MaxGeneration]
    BY <1>1, <1>6, <1>8 DEF SessionsOK
  <1>10. \A g \in Families : server'.generation[g] = 0 <=> g \notin ToSet(server'.rows)
    BY <1>1, <1>5, <1>6 DEF SessionsOK
  <1>11. SessionsOK'
    BY <1>1, <1>2, <1>5, <1>6, <1>9, <1>10 DEF SessionsOK
  <1>12. AccountOK' /\ IsServer'
    BY <1>1, <1>3, <1>7 DEF AccountOK, IsServer
  <1>13. (scope \in Scopes => (ServerInv <=> IsServer /\ SessionsOK /\ AccountOK))'
    BY ServerParts, PTL
  <1>14. \A g \in Families : Overtaken(g) => Overtaken(g)'
    BY <1>2, <1>5, <1>6 DEF Overtaken
  <1>15. server'.secret >= server.secret
    BY <1>1, <1>7 DEF AccountOK
  <1> QED BY <1>7, <1>11, <1>12, <1>13, <1>14, <1>15 DEF Grows

\* DELETE /auth/sessions/:familyId
LEMMA RevokedStep ==
    ASSUME scope \in Scopes, ServerInv, UNCHANGED scope, NEW f, server' = Revoked(f)
    PROVE  ServerInv' /\ Grows
  <1>1. IsServer /\ SessionsOK /\ AccountOK
    BY ServerParts
  <1>2. server' = [server EXCEPT !.live = server.live \ {f}]
    BY DEF Revoked
  <1>3. /\ server'.rows = server.rows /\ server'.live = server.live \ {f}
        /\ server'.generation = server.generation /\ server'.requests = server.requests
        /\ server'.voted = server.voted /\ server'.passkeys = server.passkeys
        /\ server'.secret = server.secret /\ server'.enabled = server.enabled
    BY <1>1, <1>2 DEF IsServer
  <1>4. SessionsOK' /\ AccountOK'
    BY <1>1, <1>3 DEF SessionsOK, AccountOK
  <1>5. IsServer'
    BY <1>1, <1>2, <1>3 DEF IsServer
  <1>6. (scope \in Scopes => (ServerInv <=> IsServer /\ SessionsOK /\ AccountOK))'
    BY ServerParts, PTL
  <1>7. server'.secret >= server.secret
    BY <1>1, <1>3 DEF AccountOK
  <1> QED BY <1>3, <1>4, <1>5, <1>6, <1>7 DEF Grows, Overtaken

\* POST /auth/refresh with the newest token of a live family, as the attack page does.
LEMMA RotatedStep ==
    ASSUME scope \in Scopes, ServerInv, UNCHANGED scope, page = "attack", NEW f \in server.live,
           server.generation[f] < MaxGeneration, server' = Rotated(f)
    PROVE  ServerInv' /\ Grows
  <1>1. IsServer /\ SessionsOK /\ AccountOK
    BY ServerParts
  <1>2. f \in ToSet(server.rows) /\ f \in Families
    BY <1>1, ScopeTypes DEF SessionsOK
  <1>3. PICK rest : rest = Kept(server.rows, Families \ {f})
    OBVIOUS
  <1>4. /\ rest \in Seq(Families) /\ IsInjective(rest)
        /\ ToSet(rest) = ToSet(server.rows) \cap (Families \ {f})
    BY <1>1, <1>3, KeptList DEF SessionsOK
  <1>5. PICK rows : rows = <<f>> \o rest
    OBVIOUS
  <1>6. /\ rows \in Seq(Families) /\ IsInjective(rows)
        /\ ToSet(rows) = ToSet(rest) \cup {f}
    <2>1. f \in Families \ ToSet(rest)
      BY <1>2, <1>4
    <2> QED BY <2>1, <1>4, <1>5, InFront
  <1>7. ToSet(rows) = ToSet(server.rows)
    <2>1. ToSet(server.rows) \subseteq Families
      BY <1>1, ScopeTypes DEF SessionsOK
    <2> QED BY <2>1, <1>2, <1>4, <1>6
  <1>8. PICK gen \in Nat : gen = server.generation[f] /\ gen \in 0..MaxGeneration /\ gen # 0
    BY <1>1, <1>2, TabAssumption DEF SessionsOK
  <1>9. server' = [server EXCEPT !.rows = rows, !.generation[f] = gen + 1]
    BY <1>3, <1>5, <1>8 DEF Rotated
  <1>10. /\ server'.rows = rows /\ server'.live = server.live
         /\ server'.generation = [server.generation EXCEPT ![f] = gen + 1]
         /\ server'.requests = server.requests
         /\ server'.voted = server.voted /\ server'.passkeys = server.passkeys
         /\ server'.secret = server.secret /\ server'.enabled = server.enabled
    BY <1>1, <1>9 DEF IsServer
  <1>11. gen + 1 \in 0..MaxGeneration /\ gen + 1 # 0
    BY <1>8, TabAssumption
  <1>12. server'.generation \in [Families -> 0..MaxGeneration]
    BY <1>1, <1>10, <1>11 DEF SessionsOK
  <1>13. \A g \in Families : server'.generation[g] = 0 <=> g \notin ToSet(server'.rows)
    BY <1>1, <1>2, <1>7, <1>10, <1>11 DEF SessionsOK
  <1>14. SessionsOK'
    BY <1>1, <1>6, <1>7, <1>10, <1>12, <1>13 DEF SessionsOK
  <1>15. AccountOK'
    BY <1>1, <1>10 DEF AccountOK
  <1>16. IsServer'
    BY <1>1, <1>9, <1>10 DEF IsServer
  <1>17. (scope \in Scopes => (ServerInv <=> IsServer /\ SessionsOK /\ AccountOK))'
    BY ServerParts, PTL
  <1>18. server'.secret >= server.secret
    BY <1>1, <1>10 DEF AccountOK
  <1> QED BY <1>10, <1>14, <1>15, <1>16, <1>17, <1>18 DEF Grows

\* What a request, a vote, a passkey and a secret change.
LEMMA AccountStep ==
    ASSUME scope \in Scopes, ServerInv, UNCHANGED scope, IsServer', AccountOK',
           server'.rows = server.rows, server'.live = server.live,
           server'.generation = server.generation,
           \A r \in Requests : server.requests[r] = "resolved" => server'.requests[r] = "resolved",
           server.passkeys \subseteq server'.passkeys, server'.secret >= server.secret,
           server'.secret = server.secret /\ server.enabled => server'.enabled
    PROVE  ServerInv' /\ Grows
  <1>1. IsServer /\ SessionsOK /\ AccountOK
    BY ServerParts
  <1>2. SessionsOK'
    BY <1>1 DEF SessionsOK
  <1>3. (scope \in Scopes => (ServerInv <=> IsServer /\ SessionsOK /\ AccountOK))'
    BY ServerParts, PTL
  <1>4. Grows
    BY DEF Grows, Overtaken
  <1> QED BY <1>2, <1>3, <1>4

-----------------------------------------------------------------------------
\* Lists of jobs: each is in order by itself and no two are rivals.
Fine(job) == JobOK(job) /\ LiveOK(job)

Good(list) ==
    /\ list \in Seq(ToSet(list))
    /\ \A i \in DOMAIN list : Fine(list[i])
    /\ \A i, k \in DOMAIN list : Rivals(list[i], list[k]) => i = k

LEMMA JobsAreGood == JobsInv <=> Good(jobs)
  BY DEF JobsInv, Good, Fine

LEMMA GoodNow ==
    ASSUME NEW list, jobs' = list, Good(list)'
    PROVE  JobsInv'
  BY DEF JobsInv, Good, Fine

\* The jobs of a list without its i-th one are as good as they were in it,
LEMMA GoodRemoved ==
    ASSUME NEW list, list \in Seq(ToSet(list)), NEW i \in DOMAIN list,
           \A k \in DOMAIN list : k # i => Fine(list[k])',
           \A k, l \in DOMAIN list : Rivals(list[k], list[l]) => k = l
    PROVE  Good(RemoveAt(list, i))'
  <1>1. PICK t : t = RemoveAt(list, i)
    OBVIOUS
  <1>2. PICK n : n = Len(list) - 1
    OBVIOUS
  <1>3. /\ t \in Seq(ToSet(list)) /\ DOMAIN t = 1..n
        /\ \A k \in 1..n : Before(i, k) \in DOMAIN list \ {i} /\ t[k] = list[Before(i, k)]
        /\ \A k, l \in 1..n : Before(i, k) = Before(i, l) => k = l
    BY <1>1, <1>2, Removed
  <1>4. t \in Seq(ToSet(t))
    BY <1>3, OwnEntries
  <1>5. \A k \in DOMAIN t : Fine(t[k])'
    BY <1>3
  <1>6. \A k, l \in DOMAIN t : Rivals(t[k], t[l]) => k = l
    BY <1>3
  <1>7. Good(t)'
    BY <1>4, <1>5, <1>6 DEF Good
  <1> QED BY <1>1, <1>7

\* and so are those of a list with one more job that is no rival of them.
LEMMA GoodAppended ==
    ASSUME NEW list, Good(list)', NEW job, Fine(job)',
           \A k \in DOMAIN list : ~Rivals(list[k], job) /\ ~Rivals(job, list[k])
    PROVE  Good(Append(list, job))'
  <1>1. PICK t : t = Append(list, job)
    OBVIOUS
  <1>2. /\ list \in Seq(ToSet(list)) /\ \A k \in DOMAIN list : Fine(list[k])'
        /\ \A k, l \in DOMAIN list : Rivals(list[k], list[l]) => k = l
    BY DEF Good
  <1>3. PICK n \in Nat : n = Len(list) /\ DOMAIN list = 1..n
    BY <1>2
  <1>4. list \in Seq(ToSet(list) \cup {job})
    <2>1. list \in [1..n -> ToSet(list) \cup {job}]
      BY <1>2, <1>3
    <2> QED BY <2>1
  <1>5. /\ t \in Seq(ToSet(list) \cup {job}) /\ DOMAIN t = 1..(n + 1)
        /\ t[n + 1] = job /\ \A k \in 1..n : t[k] = list[k]
    BY <1>1, <1>3, <1>4
  <1>6. t \in Seq(ToSet(t))
    BY <1>5, OwnEntries
  <1>7. \A k \in 1..(n + 1) : k \in 1..n \/ k = n + 1
    BY <1>3
  <1>8. \A k \in DOMAIN t : Fine(t[k])'
    BY <1>2, <1>3, <1>5, <1>7
  <1>9. \A k, l \in DOMAIN t : Rivals(t[k], t[l]) => k = l
    BY <1>2, <1>3, <1>5, <1>7
  <1>10. Good(t)'
    BY <1>6, <1>8, <1>9 DEF Good
  <1> QED BY <1>1, <1>10

\* Jobs that are nobody's rivals may follow any list.
LEMMA GoodJoined ==
    ASSUME NEW list, Good(list)', NEW more, more \in Seq(ToSet(more)),
           \A k \in DOMAIN more : Fine(more[k])',
           \A k \in DOMAIN more : \A group \in Alone : more[k].at \notin group
    PROVE  Good(list \o more)'
  <1>1. PICK t : t = list \o more
    OBVIOUS
  <1>2. /\ list \in Seq(ToSet(list)) /\ \A k \in DOMAIN list : Fine(list[k])'
        /\ \A k, l \in DOMAIN list : Rivals(list[k], list[l]) => k = l
    BY DEF Good
  <1>3. PICK n \in Nat : n = Len(list) /\ DOMAIN list = 1..n
    BY <1>2
  <1>4. PICK m \in Nat : m = Len(more) /\ DOMAIN more = 1..m
    OBVIOUS
  <1> DEFINE T == ToSet(list) \cup ToSet(more)
  <1>5. list \in Seq(T) /\ more \in Seq(T)
    <2>1. list \in [1..n -> T] /\ more \in [1..m -> T]
      BY <1>2, <1>3, <1>4
    <2> QED BY <2>1
  <1> HIDE DEF T
  <1>6. /\ t \in Seq(T) /\ DOMAIN t = 1..(n + m)
        /\ \A k \in 1..n : t[k] = list[k]
        /\ \A k \in (n + 1)..(n + m) : t[k] = more[k - n]
    BY <1>1, <1>3, <1>4, <1>5
  <1>7. t \in Seq(ToSet(t))
    BY <1>6, OwnEntries
  <1>8. ASSUME NEW k \in 1..(n + m)
        PROVE k \in 1..n \/ (k \in (n + 1)..(n + m) /\ k - n \in 1..m)
    BY <1>3, <1>4
  <1>9. \A k \in DOMAIN t : Fine(t[k])'
    BY <1>2, <1>3, <1>4, <1>6, <1>8
  <1>10. ASSUME NEW k \in DOMAIN t, NEW l \in DOMAIN t, Rivals(t[k], t[l]) PROVE k = l
    <2>1. ~(k \in (n + 1)..(n + m) /\ k - n \in 1..m)
      BY <1>4, <1>6, <1>10 DEF Rivals
    <2>2. ~(l \in (n + 1)..(n + m) /\ l - n \in 1..m)
      BY <1>4, <1>6, <1>10 DEF Rivals
    <2>3. k \in 1..n /\ l \in 1..n
      BY <2>1, <2>2, <1>6, <1>8
    <2> QED BY <2>3, <1>2, <1>3, <1>6, <1>10
  <1>11. Good(t)'
    BY <1>7, <1>9, <1>10 DEF Good
  <1> QED BY <1>1, <1>11

\* A job that goes on in its place, with no other rivals than before.
LEMMA GoodReplaced ==
    ASSUME NEW list, list \in Seq(ToSet(list)), NEW i \in DOMAIN list,
           \A k \in DOMAIN list : k # i => Fine(list[k])',
           \A k, l \in DOMAIN list : Rivals(list[k], list[l]) => k = l,
           NEW job, Fine(job)',
           \A other : /\ Rivals(job, other) => Rivals(list[i], other)
                      /\ Rivals(other, job) => Rivals(other, list[i])
    PROVE  Good([list EXCEPT ![i] = job])'
  <1>1. PICK t : t = [list EXCEPT ![i] = job]
    OBVIOUS
  <1>2. PICK n \in Nat : n = Len(list) /\ DOMAIN list = 1..n
    OBVIOUS
  <1>3. DOMAIN t = 1..n /\ t[i] = job /\ \A k \in 1..n : k # i => t[k] = list[k]
    BY <1>1, <1>2
  <1>4. t \in Seq(ToSet(t))
    <2>1. t = [k \in 1..n |-> t[k]]
      BY <1>1, <1>2
    <2>2. t \in [1..n -> ToSet(t)]
      BY <2>1, <1>3 DEF ToSet
    <2> QED BY <2>2
  <1>5. \A k \in DOMAIN t : Fine(t[k])'
    BY <1>2, <1>3
  <1>6. ASSUME NEW k \in DOMAIN t, NEW l \in DOMAIN t, Rivals(t[k], t[l]) PROVE k = l
    BY <1>2, <1>3, <1>6
  <1>7. Good(t)'
    BY <1>4, <1>5, <1>6 DEF Good
  <1> QED BY <1>1, <1>7

-----------------------------------------------------------------------------
\* What was said of a job stays true when the server moves on,
LEMMA JobGrows ==
    ASSUME UNCHANGED <<scope, page>>, Grows, ServerInv, ServerInv', NEW job, JobOK(job)
    PROVE  JobOK(job)'
  <1>1. /\ IsJob(job)' /\ job.at \in Idle => job.live
        /\ (job.at \in StepsOf["attack"] <=> page = "attack")'
        /\ ListOK(job)' /\ ReceiptOK(job)' /\ ReplayOK(job)'
    BY DEF JobOK, IsJob, ListOK, ReceiptOK, ReplayOK
  <1>2. server.secret \in Nat /\ server'.secret \in Nat
    BY TabAssumption DEF ServerInv, ServerOK
  <1>3. LinkOK(job)'
    <2>1. /\ server.passkeys # {} => server'.passkeys # {}
          /\ server'.secret >= server.secret
          /\ server'.secret = server.secret /\ server.enabled => server'.enabled
      BY DEF Grows
    <2>2. LinkOK(job)
      BY DEF JobOK
    <2>3. job.at = "setup" => server'.passkeys # {} /\ (job.reply # NULL => job.reply \in 1..server'.secret)
      BY <1>2, <2>1, <2>2 DEF LinkOK
    <2>4. job.at = "confirm" => server'.secret >= 1 /\ job.what \in 0..MaxSecrets
      BY <1>2, <2>1, <2>2 DEF LinkOK
    <2>5. ASSUME job.at = "confirm", job.reply # NULL
          PROVE  job.what \in 1..server'.secret /\ (job.what = server'.secret => server'.enabled)
      <3>1. job.what \in 1..server.secret /\ (job.what = server.secret => server.enabled)
        BY <2>2, <2>5 DEF LinkOK
      <3>2. job.what \in 1..server'.secret
        BY <1>2, <2>1, <3>1
      <3>3. job.what = server'.secret => server'.secret = server.secret /\ job.what = server.secret
        BY <1>2, <2>1, <3>1
      <3> QED BY <2>1, <3>1, <3>2, <3>3
    <2> QED BY <2>1, <2>2, <2>3, <2>4, <2>5 DEF LinkOK
  <1>4. VoteOK(job)'
    BY DEF JobOK, VoteOK, Grows
  <1>5. CASE page = "attack"
    <2>1. job.at # "load" /\ job.at # "revoke"
      BY <1>5 DEF JobOK, StepsOf
    <2> QED BY <1>1, <1>3, <1>4, <2>1 DEF JobOK, LoadOK, RevokeOK
  <1>6. CASE page # "attack"
    <2>1. \A f \in Families : Overtaken(f) => Overtaken(f)'
      BY <1>6 DEF Grows
    <2>2. RevokeOK(job)'
      BY <2>1 DEF JobOK, RevokeOK
    <2>3. ASSUME NEW data, Listing("sessions", data) PROVE Listing("sessions", data)'
      <3>1. data \in Rows /\ IsInjective(data) /\ Behind(data)
        BY <2>3 DEF Listing
      <3>2. \A k \in DOMAIN data : data[k] \in Families
        BY <3>1, RowsAreSeq
      <3>3. Behind(data)'
        BY <2>1, <3>1, <3>2 DEF Behind
      <3> QED BY <3>1, <3>3 DEF Listing
    <2>4. LoadOK(job)'
      <3>1. LoadOK(job)
        BY DEF JobOK
      <3>2. job.what = "sessions" /\ Listing(job.what, job.reply) => Listing(job.what, job.reply)'
        BY <2>3
      <3>3. job.what # "sessions" /\ Listing(job.what, job.reply) => Listing(job.what, job.reply)'
        BY DEF Listing
      <3> QED BY <3>1, <3>2, <3>3 DEF LoadOK
    <2> QED BY <1>1, <1>3, <1>4, <2>2, <2>4 DEF JobOK
  <1> QED BY <1>5, <1>6

\* and when it does not, even if another page comes to the screen.
LEMMA JobStays ==
    ASSUME UNCHANGED <<scope, server>>, page' = page \/ (page # "attack" /\ page' # "attack"),
           NEW job, JobOK(job)
    PROVE  JobOK(job)'
  <1>1. (page = "attack") <=> (page' = "attack")
    OBVIOUS
  <1>2. LoadOK(job)'
    BY DEF JobOK, LoadOK, Listing, Behind, Overtaken
  <1>3. /\ IsJob(job)' /\ ListOK(job)' /\ ReceiptOK(job)' /\ LinkOK(job)'
        /\ RevokeOK(job)' /\ VoteOK(job)' /\ ReplayOK(job)'
    BY DEF JobOK, IsJob, ListOK, ReceiptOK, LinkOK, RevokeOK, VoteOK, ReplayOK, Overtaken
  <1> QED BY <1>1, <1>2, <1>3 DEF JobOK

LEMMA LiveStays ==
    ASSUME UNCHANGED <<ui, page>>, NEW job, LiveOK(job)
    PROVE  LiveOK(job)'
  BY DEF LiveOK, Agrees

\* A page that is left has no live jobs any more and drops the idle ones.
LEMMA AbandonedJob ==
    ASSUME UNCHANGED <<scope, server>>, page # "attack", page' # "attack",
           NEW job, JobOK(job), NEW left, left = [job EXCEPT !.live = FALSE], left.at \notin Idle
    PROVE  Fine(left)'
  <1>1. JobOK(job)'
    BY JobStays
  <1>2. /\ job = [at |-> job.at, what |-> job.what, reply |-> job.reply, live |-> job.live]
        /\ job.at \in Steps
    BY DEF JobOK, IsJob
  <1>3. left.at = job.at /\ left.what = job.what /\ left.reply = job.reply /\ left.live = FALSE
    BY <1>2
  <1>4. left = [at |-> left.at, what |-> left.what, reply |-> left.reply, live |-> left.live]
    BY <1>2, <1>3
  <1>5. JobOK(left)'
    BY <1>1, <1>2, <1>3, <1>4
       DEF JobOK, IsJob, LoadOK, ListOK, ReceiptOK, LinkOK, RevokeOK, VoteOK, ReplayOK
  <1>6. LiveOK(left)'
    BY <1>3 DEF LiveOK
  <1> QED BY <1>5, <1>6 DEF Fine

LEMMA GoodAbandoned ==
    ASSUME UNCHANGED <<scope, server>>, page # "attack", page' # "attack",
           NEW list, list \in Seq(ToSet(list)), \A k \in DOMAIN list : JobOK(list[k])
    PROVE  Good(Abandoned(list))'
  <1> DEFINE left == [k \in DOMAIN list |-> [list[k] EXCEPT !.live = FALSE]]
             busy == {job \in ToSet(left) : job.at \notin Idle}
  <1>1. PICK t : t = Abandoned(list)
    OBVIOUS
  <1>2. t = Kept(left, busy)
    BY <1>1 DEF Abandoned
  <1>3. left \in Seq(ToSet(left))
    <2>1. PICK n \in Nat : DOMAIN list = 1..n
      OBVIOUS
    <2>2. left \in [1..n -> ToSet(left)]
      BY <2>1 DEF ToSet
    <2> QED BY <2>2
  <1>4. \A job \in busy : \E k \in DOMAIN list : job = [list[k] EXCEPT !.live = FALSE]
    BY DEF ToSet
  <1>5. \A job \in busy : job.at \notin Idle
    OBVIOUS
  <1> HIDE DEF left, busy
  <1>6. t \in Seq(ToSet(left)) /\ ToSet(t) = ToSet(left) \cap busy
    BY <1>2, <1>3, KeptList
  <1>7. ASSUME NEW k \in DOMAIN t PROVE Fine(t[k])' /\ t[k].live = FALSE
    <2>1. t[k] \in busy
      BY <1>6 DEF ToSet
    <2>2. PICK j \in DOMAIN list : t[k] = [list[j] EXCEPT !.live = FALSE]
      BY <2>1, <1>4
    <2>3. Fine(t[k])'
      <3>1. PICK job, gone : job = list[j] /\ gone = t[k]
        OBVIOUS
      <3>2. JobOK(job) /\ gone = [job EXCEPT !.live = FALSE] /\ gone.at \notin Idle
        BY <2>1, <2>2, <3>1, <1>5
      <3>3. Fine(gone)'
        BY <3>2, AbandonedJob
      <3> QED BY <3>1, <3>3
    <2>4. t[k].live = FALSE
      BY <2>2 DEF JobOK, IsJob
    <2> QED BY <2>3, <2>4
  <1>8. t \in Seq(ToSet(t))
    BY <1>6, OwnEntries
  <1>9. \A k, l \in DOMAIN t : ~Rivals(t[k], t[l])
    BY <1>7 DEF Rivals
  <1>10. Good(t)'
    BY <1>7, <1>8, <1>9 DEF Good
  <1> QED BY <1>1, <1>10

-----------------------------------------------------------------------------
\* The steps that stay on the page and ask nothing of the server, by what becomes of
\* the jobs: they stay,
LEMMA GoodSame ==
    ASSUME JobsInv, UNCHANGED <<scope, page, server>>, NEW list, list = jobs,
           \A k \in DOMAIN list : LiveOK(list[k])'
    PROVE  Good(list)'
  <1>1. Good(list)
    BY DEF JobsInv, Good, Fine
  <1>2. ASSUME NEW k \in DOMAIN list PROVE Fine(list[k])'
    <2>1. PICK job : job = list[k]
      OBVIOUS
    <2>2. JobOK(job)
      BY <1>1, <2>1 DEF Good, Fine
    <2>3. JobOK(job)'
      BY <2>2, JobStays
    <2> QED BY <2>1, <2>3 DEF Fine
  <1> QED BY <1>1, <1>2 DEF Good

LEMMA TalkStep ==
    ASSUME IInv, UNCHANGED <<scope, page, entries, auth, server, jobs>>, ScreenInv',
           NEW list, list = jobs, \A k \in DOMAIN list : LiveOK(list[k])'
    PROVE  IInv'
  <1>1. Good(list)' /\ jobs' = list
    BY GoodSame DEF IInv
  <1>2. JobsInv'
    BY <1>1, GoodNow
  <1>3. PlaceOK' /\ AuthOK' /\ ServerInv'
    BY DEF IInv, PlaceOK, AuthOK, ServerInv, ServerOK, Fresh
  <1> QED BY <1>2, <1>3 DEF IInv

\* one is added,
LEMMA CallStep ==
    ASSUME IInv, UNCHANGED <<scope, page, entries, auth, server>>, ScreenInv',
           NEW list, list = jobs, \A k \in DOMAIN list : LiveOK(list[k])',
           NEW job, Fine(job)', jobs' = Append(list, job),
           \A k \in DOMAIN list : ~Rivals(list[k], job) /\ ~Rivals(job, list[k])
    PROVE  IInv'
  <1>1. Good(list)'
    BY GoodSame DEF IInv
  <1>2. Good(Append(list, job))'
    BY <1>1, GoodAppended
  <1>3. PICK t : t = Append(list, job)
    OBVIOUS
  <1>4. JobsInv'
    BY <1>2, <1>3, GoodNow
  <1>5. PlaceOK' /\ AuthOK' /\ ServerInv'
    BY DEF IInv, PlaceOK, AuthOK, ServerInv, ServerOK, Fresh
  <1> QED BY <1>4, <1>5 DEF IInv

\* one is done, perhaps for others to follow,
LEMMA GoodDone ==
    ASSUME JobsInv, UNCHANGED <<scope, page, server>>, NEW list, list = jobs,
           NEW i \in DOMAIN list, \A k \in DOMAIN list : k # i => LiveOK(list[k])'
    PROVE  Good(RemoveAt(list, i))'
  <1>1. Good(list)
    BY DEF JobsInv, Good, Fine
  <1>2. ASSUME NEW k \in DOMAIN list, k # i PROVE Fine(list[k])'
    <2>1. PICK job : job = list[k]
      OBVIOUS
    <2>2. JobOK(job)
      BY <1>1, <2>1 DEF Good, Fine
    <2>3. JobOK(job)'
      BY <2>2, JobStays
    <2> QED BY <1>2, <2>1, <2>3 DEF Fine
  <1>3. /\ list \in Seq(ToSet(list))
        /\ \A k, l \in DOMAIN list : Rivals(list[k], list[l]) => k = l
    BY <1>1 DEF Good
  <1> QED BY <1>2, <1>3, GoodRemoved

LEMMA DoneStep ==
    ASSUME IInv, UNCHANGED <<scope, page, entries, auth, server>>, ScreenInv',
           NEW list, list = jobs, NEW i \in DOMAIN list,
           \A k \in DOMAIN list : k # i => LiveOK(list[k])', jobs' = RemoveAt(list, i)
    PROVE  IInv'
  <1>1. Good(RemoveAt(list, i))'
    BY GoodDone DEF IInv
  <1>2. PICK t : t = RemoveAt(list, i)
    OBVIOUS
  <1>3. JobsInv'
    BY <1>1, <1>2, GoodNow
  <1>4. PlaceOK' /\ AuthOK' /\ ServerInv'
    BY DEF IInv, PlaceOK, AuthOK, ServerInv, ServerOK, Fresh
  <1> QED BY <1>3, <1>4 DEF IInv

LEMMA DoneMoreStep ==
    ASSUME IInv, UNCHANGED <<scope, page, entries, auth, server>>, ScreenInv',
           NEW list, list = jobs, NEW i \in DOMAIN list,
           \A k \in DOMAIN list : k # i => LiveOK(list[k])',
           NEW more, more \in Seq(ToSet(more)), \A k \in DOMAIN more : Fine(more[k])',
           \A k \in DOMAIN more : \A group \in Alone : more[k].at \notin group,
           jobs' = RemoveAt(list, i) \o more
    PROVE  IInv'
  <1>1. PICK t : t = RemoveAt(list, i)
    OBVIOUS
  <1>2. Good(RemoveAt(list, i))'
    BY GoodDone DEF IInv
  <1>3. Good(t)'
    BY <1>1, <1>2
  <1>4. Good(t \o more)'
    BY <1>3, GoodJoined
  <1>5. PICK u : u = t \o more
    OBVIOUS
  <1>6. JobsInv'
    BY <1>1, <1>4, <1>5, GoodNow
  <1>7. PlaceOK' /\ AuthOK' /\ ServerInv'
    BY DEF IInv, PlaceOK, AuthOK, ServerInv, ServerOK, Fresh
  <1> QED BY <1>6, <1>7 DEF IInv

\* one goes on.
LEMMA GoOnStep ==
    ASSUME IInv, UNCHANGED <<scope, page, entries, server>>, AuthOK', ScreenInv',
           NEW list, list = jobs, NEW i \in DOMAIN list,
           \A k \in DOMAIN list : k # i => LiveOK(list[k])',
           NEW job, Fine(job)', jobs' = [list EXCEPT ![i] = job],
           \A other : /\ Rivals(job, other) => Rivals(list[i], other)
                      /\ Rivals(other, job) => Rivals(other, list[i])
    PROVE  IInv'
  <1>1. Good(list)
    BY DEF IInv, JobsInv, Good, Fine
  <1>2. ASSUME NEW k \in DOMAIN list, k # i PROVE Fine(list[k])'
    <2>1. PICK old : old = list[k]
      OBVIOUS
    <2>2. JobOK(old)
      BY <1>1, <2>1 DEF Good, Fine
    <2>3. JobOK(old)'
      BY <2>2, JobStays
    <2> QED BY <1>2, <2>1, <2>3 DEF Fine
  <1>3. /\ list \in Seq(ToSet(list))
        /\ \A k, l \in DOMAIN list : Rivals(list[k], list[l]) => k = l
    BY <1>1 DEF Good
  <1>4. Good([list EXCEPT ![i] = job])'
    BY <1>2, <1>3, GoodReplaced
  <1>5. PICK t : t = [list EXCEPT ![i] = job]
    OBVIOUS
  <1>6. JobsInv'
    BY <1>4, <1>5, GoodNow
  <1>7. PlaceOK' /\ ServerInv'
    BY DEF IInv, PlaceOK, ServerInv, ServerOK, Fresh
  <1> QED BY <1>6, <1>7 DEF IInv

\* What the page shows stays true when the server moves on.
LEMMA ScreenGrows ==
    ASSUME PlaceOK, ServerInv, ServerInv', ScreenInv, UNCHANGED <<ui, page>>, Grows
    PROVE  ScreenInv'
  <1> SUFFICES ASSUME ui # NULL PROVE ScreenInv'
    BY DEF ScreenInv
  <1>1. ui \in UiOf[page]
    BY DEF ScreenInv
  <1>2. server.secret \in Nat /\ server'.secret \in Nat
    BY TabAssumption DEF ServerInv, ServerOK
  <1>3. CASE page = "register"
    <2>1. RegisterTrue /\ ui \in RegisterUi
      BY <1>1, <1>3 DEF ScreenInv, UiOf
    <2>2. server'.secret >= server.secret /\ (server.passkeys # {} => server'.passkeys # {})
      BY DEF Grows
    <2>3. ui.phase # "form" => ui.secret \in 1..server'.secret
      BY <1>2, <2>1, <2>2 DEF RegisterTrue
    <2>4. ASSUME ui.phase = "done", server'.secret = ui.secret PROVE server'.enabled
      <3>1. ui.secret \in 1..server.secret
        BY <2>1, <2>4 DEF RegisterTrue
      <3>2. server.secret = ui.secret /\ server'.secret = server.secret
        BY <1>2, <2>2, <2>4, <3>1
      <3> QED BY <2>1, <2>4, <3>2 DEF RegisterTrue, Grows
    <2>5. RegisterTrue'
      BY <2>1, <2>2, <2>3, <2>4 DEF RegisterTrue
    <2> QED BY <1>1, <1>3, <2>5 DEF ScreenInv, UiOf
  <1>4. CASE page = "dashboard"
    <2>1. ListsTrue /\ ShowInv(ui.show) /\ ui \in DashboardUi
      BY <1>1, <1>4 DEF ScreenInv, UiOf
    <2>2. \A f \in Families : Overtaken(f) => Overtaken(f)'
      BY <1>4 DEF Grows
    <2>3. ASSUME ui.lists["sessions"].status = "ok" PROVE Behind(ui.lists["sessions"].data)'
      <3>1. PICK data : data = ui.lists["sessions"].data
        OBVIOUS
      <3>2. data \in Rows
        <4>1. ui.lists["sessions"] \in ListOf(Rows)
          BY <2>1 DEF DashboardUi, Lists
        <4> QED BY <2>3, <3>1, <4>1 DEF ListOf, Loading, Broken, Loaded
      <3>3. \A k \in DOMAIN data : data[k] \in Families
        BY <3>2, RowsAreSeq
      <3>4. Behind(data)
        BY <2>1, <2>3, <3>1 DEF ListsTrue
      <3>5. Behind(data)'
        BY <2>2, <3>3, <3>4 DEF Behind
      <3> QED BY <3>1, <3>5
    <2>4. \A r \in ui.quiet \cap Quick : server'.requests[r] = "resolved"
      <3>1. ui.quiet \subseteq Requests
        BY <2>1 DEF DashboardUi
      <3> QED BY <2>1, <3>1 DEF ListsTrue, Grows
    <2>5. ListsTrue'
      BY <2>1, <2>3, <2>4 DEF ListsTrue
    <2> QED BY <1>1, <1>4, <2>1, <2>5
          DEF ScreenInv, UiOf, ShowInv, JudgeInv, PanelInv, EngineInv
  <1>5. CASE page \notin {"register", "dashboard"}
    BY <1>1, <1>5 DEF ScreenInv, DisputeTrue, UiOf
  <1> QED BY <1>3, <1>4, <1>5

\* A route answers the call of a job: the page stays as it is, the job has its reply.
LEMMA AnswerStep ==
    ASSUME IInv, NEW i \in DOMAIN jobs, NEW reply, NEW new, Answer(i, reply, new),
           ServerInv', Grows, NEW job, job = [jobs[i] EXCEPT !.reply = reply],
           JobOK(job)', job.live => Agrees(job)
    PROVE  IInv'
  <1>1. PICK list : list = jobs
    OBVIOUS
  <1>2. jobs' = [list EXCEPT ![i] = job] /\ UNCHANGED <<scope, page, entries, ui, auth>>
    BY <1>1 DEF Answer
  <1>3. Good(list) /\ ServerInv
    BY <1>1 DEF IInv, JobsInv, Good, Fine
  <1>4. ASSUME NEW k \in DOMAIN list PROVE Fine(list[k])'
    <2>1. PICK old : old = list[k]
      OBVIOUS
    <2>2. JobOK(old) /\ LiveOK(old)
      BY <1>3, <2>1 DEF Good, Fine
    <2>3. JobOK(old)' /\ LiveOK(old)'
      BY <1>2, <1>3, <2>2, JobGrows, LiveStays
    <2> QED BY <2>1, <2>3 DEF Fine
  <1>5. /\ list \in Seq(ToSet(list))
        /\ \A k, l \in DOMAIN list : Rivals(list[k], list[l]) => k = l
    BY <1>3 DEF Good
  <1>6. PICK old : old = list[i]
    OBVIOUS
  <1>7. JobOK(old) /\ LiveOK(old)
    BY <1>1, <1>3, <1>6 DEF Good, Fine
  <1>8. job.at = old.at /\ job.live = old.live
    BY <1>1, <1>6, <1>7 DEF JobOK, IsJob
  <1>9. Fine(job)'
    <2>1. LiveOK(job)
      BY <1>7, <1>8 DEF LiveOK
    <2> QED BY <1>2, <2>1, LiveStays DEF Fine
  <1>10. Good([list EXCEPT ![i] = job])'
    <2>1. \A other : /\ Rivals(job, other) => Rivals(list[i], other)
                     /\ Rivals(other, job) => Rivals(other, list[i])
      BY <1>6, <1>8 DEF Rivals
    <2> QED BY <1>1, <1>4, <1>5, <1>9, <2>1, GoodReplaced
  <1>11. PICK t : t = [list EXCEPT ![i] = job]
    OBVIOUS
  <1>12. JobsInv'
    BY <1>2, <1>10, <1>11, GoodNow
  <1>13. PlaceOK' /\ AuthOK'
    BY <1>2 DEF IInv, PlaceOK, AuthOK
  <1>14. ScreenInv'
    BY <1>2, <1>3, ScreenGrows DEF IInv
  <1> QED BY <1>12, <1>13, <1>14 DEF IInv

\* The jobs of a list without one of them, before the step.
LEMMA GoodLess ==
    ASSUME NEW list, Good(list), NEW i \in DOMAIN list
    PROVE  Good(RemoveAt(list, i))
  <1>1. PICK t : t = RemoveAt(list, i)
    OBVIOUS
  <1>2. PICK n : n = Len(list) - 1
    OBVIOUS
  <1>3. /\ t \in Seq(ToSet(list)) /\ DOMAIN t = 1..n
        /\ \A k \in 1..n : Before(i, k) \in DOMAIN list \ {i} /\ t[k] = list[Before(i, k)]
        /\ \A k, l \in 1..n : Before(i, k) = Before(i, l) => k = l
    BY <1>1, <1>2, Removed DEF Good
  <1>4. t \in Seq(ToSet(t))
    BY <1>3, OwnEntries
  <1>5. \A k \in DOMAIN t : Fine(t[k])
    BY <1>3 DEF Good
  <1>6. \A k, l \in DOMAIN t : Rivals(t[k], t[l]) => k = l
    BY <1>3 DEF Good
  <1>7. Good(t)
    BY <1>4, <1>5, <1>6 DEF Good
  <1> QED BY <1>1, <1>7

\* navigate and Link, of whoever is not on the attack page and does not go there.
LEMMA LeaveStep ==
    ASSUME IInv, page # "attack", NEW p \in Pages \ {"attack"}, NEW list, Good(list),
           Navigate(p, list), UNCHANGED <<scope, server>>, AuthOK'
    PROVE  IInv'
  <1>0. PlaceOK /\ ServerInv /\ ScreenInv
    BY DEF IInv
  <1>1. ServerInv'
    BY <1>0 DEF ServerInv, ServerOK, Fresh
  <1>2. CASE p = page
    <2>1. jobs' = list /\ UNCHANGED <<page, entries, ui>>
      BY <1>2 DEF Navigate
    <2>2. ASSUME NEW k \in DOMAIN list PROVE Fine(list[k])'
      <3>1. PICK job : job = list[k]
        OBVIOUS
      <3>2. JobOK(job) /\ LiveOK(job)
        BY <3>1 DEF Good, Fine
      <3>3. JobOK(job)' /\ LiveOK(job)'
        BY <2>1, <3>2, JobStays, LiveStays
      <3> QED BY <3>1, <3>3 DEF Fine
    <2>3. Good(list)'
      BY <2>2 DEF Good
    <2>4. JobsInv'
      BY <2>1, <2>3, GoodNow
    <2>5. PlaceOK'
      BY <1>0, <2>1 DEF PlaceOK
    <2>6. Grows
      BY <1>0, TabAssumption DEF Grows, Overtaken, ServerInv, ServerOK
    <2>7. ScreenInv'
      BY <1>0, <1>1, <2>1, <2>6, ScreenGrows
    <2> QED BY <1>1, <2>4, <2>5, <2>7 DEF IInv
  <1>3. CASE p # page
    <2>1. page' = p /\ entries' = entries \cup {p} /\ ui' = NULL /\ jobs' = Abandoned(list)
      BY <1>3 DEF Navigate
    <2>2. \A k \in DOMAIN list : JobOK(list[k])
      BY DEF Good, Fine
    <2>3. Good(Abandoned(list))'
      <3>1. page' # "attack" /\ list \in Seq(ToSet(list))
        BY <2>1 DEF Good
      <3> QED BY <2>2, <3>1, GoodAbandoned
    <2>4. PICK t : t = Abandoned(list)
      OBVIOUS
    <2>5. JobsInv'
      BY <2>1, <2>3, <2>4, GoodNow
    <2>6. PlaceOK'
      BY <1>0, <2>1 DEF PlaceOK
    <2>7. ScreenInv'
      BY <2>1 DEF ScreenInv
    <2> QED BY <1>1, <2>5, <2>6, <2>7 DEF IInv
  <1> QED BY <1>2, <1>3

\* Before a page has mounted no job is live.
LEMMA Unmounted ==
    ASSUME IInv, ui = NULL, UNCHANGED page, NEW list, list = jobs
    PROVE  \A k \in DOMAIN list : LiveOK(list[k])' /\ list[k].live = FALSE
  <1>1. ASSUME NEW k \in DOMAIN list PROVE LiveOK(list[k])' /\ list[k].live = FALSE
    <2>1. PICK job : job = list[k]
      OBVIOUS
    <2>2. LiveOK(job) /\ IsJob(job)
      BY <2>1 DEF IInv, JobsInv, JobOK
    <2>3. job.live = FALSE
      BY <2>2 DEF LiveOK, IsJob
    <2>4. LiveOK(job)'
      BY <2>3 DEF LiveOK
    <2> QED BY <2>1, <2>3, <2>4
  <1> QED BY <1>1

\* The steps of the pages are known, and no two pages have one in common.
LEMMA StepsKnown ==
    ASSUME NEW p \in Pages, NEW at \in StepsOf[p]
    PROVE  at \in Steps /\ (at \in StepsOf["attack"] <=> p = "attack")
  <1>1. CASE p = "login"
    <2>1. at \in {"verify", "step-up", "wrong number"}
      BY <1>1 DEF StepsOf
    <2> QED BY <1>1, <2>1 DEF StepsOf, Steps, Idle
  <1>2. CASE p = "register"
    <2>1. at \in {"passkey", "setup", "confirm", "redirect"}
      BY <1>2 DEF StepsOf
    <2> QED BY <1>2, <2>1 DEF StepsOf, Steps, Idle
  <1>3. CASE p = "dashboard"
    <2>1. at \in {"load", "revoke", "vote", "create", "banner"}
      BY <1>3 DEF StepsOf
    <2> QED BY <1>3, <2>1 DEF StepsOf, Steps, Idle
  <1>4. CASE p = "dispute"
    <2>1. at \in {"list", "receipt"}
      BY <1>4 DEF StepsOf
    <2> QED BY <1>4, <2>1 DEF StepsOf, Steps, Idle
  <1>5. CASE p = "attack"
    <2>1. at \in {"fatigue", "capture", "pause", "replay"}
      BY <1>5 DEF StepsOf
    <2> QED BY <1>5, <2>1 DEF StepsOf, Steps, Idle
  <1>6. CASE p = "phishing"
    <2>1. at \in {"attempt"}
      BY <1>6 DEF StepsOf
    <2> QED BY <1>6, <2>1 DEF StepsOf, Steps, Idle
  <1> QED BY <1>1, <1>2, <1>3, <1>4, <1>5, <1>6 DEF Pages

LEMMA WhoseStep ==
    ASSUME NEW p \in Pages, NEW q \in Pages, NEW at \in StepsOf[p], at \in StepsOf[q]
    PROVE  p = q
  <1> DEFINE home == [login |-> 1, register |-> 2, dashboard |-> 3, dispute |-> 4, attack |-> 5,
                      phishing |-> 6]
             owner == IF at \in StepsOf["login"] THEN 1 ELSE IF at \in StepsOf["register"] THEN 2
                      ELSE IF at \in StepsOf["dashboard"] THEN 3
                      ELSE IF at \in StepsOf["dispute"] THEN 4
                      ELSE IF at \in StepsOf["attack"] THEN 5 ELSE 6
  <1>1. ASSUME NEW r \in Pages, at \in StepsOf[r] PROVE home[r] = owner
    <2>1. CASE r = "login"
      BY <1>1, <2>1
    <2>2. CASE r = "register"
      BY <1>1, <2>2 DEF StepsOf
    <2>3. CASE r = "dashboard"
      BY <1>1, <2>3 DEF StepsOf
    <2>4. CASE r = "dispute"
      BY <1>1, <2>4 DEF StepsOf
    <2>5. CASE r = "attack"
      BY <1>1, <2>5 DEF StepsOf
    <2>6. CASE r = "phishing"
      BY <1>1, <2>6 DEF StepsOf
    <2> QED BY <2>1, <2>2, <2>3, <2>4, <2>5, <2>6 DEF Pages
  <1>2. home[p] = home[q]
    <2> HIDE DEF home, owner
    <2> QED BY <1>1
  <1> HIDE DEF owner
  <1> QED BY <1>2 DEF Pages

\* A call that its page may make: what is left to say depends on the call.
LEMMA NewCall ==
    ASSUME PlaceOK, UNCHANGED page, ui' # NULL, NEW at \in StepsOf[page], NEW what,
           NEW job, job = Call(at, what), Agrees(job)',
           LoadOK(job)', ReceiptOK(job)', LinkOK(job)', RevokeOK(job)', VoteOK(job)',
           ReplayOK(job)'
    PROVE  Fine(job)'
  <1>1. job.at = at /\ job.what = what /\ job.reply = NULL /\ job.live = TRUE
    BY DEF Call
  <1>2. page \in Pages
    BY DEF PlaceOK
  <1>3. at \in Steps
    BY <1>2, StepsKnown
  <1>4. at \in StepsOf["attack"] <=> page = "attack"
    BY <1>2, StepsKnown
  <1>5. IsJob(job)
    BY <1>1, <1>3 DEF IsJob, Call
  <1>6. ListOK(job)'
    BY <1>1 DEF ListOK
  <1>7. JobOK(job)'
    BY <1>1, <1>4, <1>5, <1>6 DEF JobOK, IsJob
  <1>8. LiveOK(job)'
    BY <1>1 DEF LiveOK
  <1> QED BY <1>7, <1>8 DEF Fine

\* What there is to know about job i.
LEMMA JobAt ==
    ASSUME IInv, NEW i \in DOMAIN jobs
    PROVE  /\ JobOK(jobs[i]) /\ LiveOK(jobs[i]) /\ page \in Pages
           /\ jobs[i].live \in BOOLEAN /\ jobs[i].at \in Steps
           /\ jobs[i] = [at |-> jobs[i].at, what |-> jobs[i].what, reply |-> jobs[i].reply,
                         live |-> jobs[i].live]
           /\ Good(jobs)
  BY DEF IInv, JobsInv, Good, Fine, JobOK, IsJob, PlaceOK

-----------------------------------------------------------------------------
\* Most jobs do not depend on what the page shows.
LEMMA Indifferent ==
    ASSUME NEW job, job.at \in StepsOf["login"] \cup StepsOf["phishing"]
                                 \cup {"revoke", "vote", "create", "banner", "list"}
    PROVE  Agrees(job)'
  BY DEF Agrees, StepsOf

LEMMA QuietLive ==
    ASSUME NEW job, LiveOK(job), page \in {"login", "phishing"}, UNCHANGED page, ui' # NULL
    PROVE  LiveOK(job)'
  <1> SUFFICES ASSUME job.live PROVE LiveOK(job)'
    BY DEF LiveOK
  <1>1. job.at \in StepsOf[page]
    BY DEF LiveOK
  <1>2. job.at \in StepsOf["login"] \cup StepsOf["phishing"]
    BY <1>1
  <1> QED BY <1>1, <1>2, Indifferent DEF LiveOK

LEMMA LoginScreen ==
    ASSUME page = "login", UNCHANGED page, ui' \in LoginUi
    PROVE  ScreenInv' /\ ui' # NULL
  BY NullAssumption DEF ScreenInv, UiOf, Pages

LEMMA LoginShown ==
    ASSUME IInv, On("login")
    PROVE  ui \in LoginUi
  BY DEF IInv, ScreenInv, On, UiOf

LEMMA MountLoginStep ==
    ASSUME IInv, MountLogin
    PROVE  IInv'
  <1>1. NewLogin \in LoginUi
    BY DEF NewLogin, LoginUi
  <1>2. ScreenInv'
    BY <1>1, LoginScreen DEF MountLogin
  <1>3. PICK list : list = jobs
    OBVIOUS
  <1>4. \A k \in DOMAIN list : LiveOK(list[k])'
    BY <1>3, Unmounted DEF MountLogin
  <1> QED BY <1>2, <1>3, <1>4, TalkStep DEF MountLogin

\* A handler of the login page starts, or only the page changes.
LEMMA LoginHandler ==
    ASSUME IInv, page = "login", ui # NULL, ui' \in LoginUi,
           UNCHANGED <<scope, page, entries, auth, server>>,
           \/ UNCHANGED jobs
           \/ \E at \in StepsOf["login"] : jobs' = Append(jobs, Call(at, NULL))
    PROVE  IInv'
  <1>1. ScreenInv' /\ ui' # NULL
    BY LoginScreen
  <1>2. PICK list : list = jobs
    OBVIOUS
  <1>3. \A k \in DOMAIN list : LiveOK(list[k])'
    <2> SUFFICES ASSUME NEW k \in DOMAIN list PROVE LiveOK(list[k])'
      OBVIOUS
    <2>1. PICK job : job = list[k]
      OBVIOUS
    <2>2. LiveOK(job)
      BY <1>2, <2>1, JobAt
    <2>3. LiveOK(job)'
      BY <1>1, <2>2, QuietLive
    <2> QED BY <2>1, <2>3
  <1>4. CASE UNCHANGED jobs
    BY <1>1, <1>2, <1>3, <1>4, TalkStep
  <1>5. ASSUME NEW at \in StepsOf["login"], jobs' = Append(jobs, Call(at, NULL))
        PROVE  IInv'
    <2>1. PICK job : job = Call(at, NULL)
      OBVIOUS
    <2>2. job.at = at
      BY <2>1 DEF Call
    <2>3. Agrees(job)'
      BY <2>2, Indifferent
    <2>4. /\ LoadOK(job)' /\ ReceiptOK(job)' /\ LinkOK(job)' /\ RevokeOK(job)' /\ VoteOK(job)'
          /\ ReplayOK(job)'
      BY <2>2 DEF LoadOK, ReceiptOK, LinkOK, RevokeOK, VoteOK, ReplayOK, StepsOf
    <2>5. Fine(job)'
      BY <1>1, <2>1, <2>3, <2>4, NewCall DEF IInv
    <2>6. \A k \in DOMAIN list : ~Rivals(list[k], job) /\ ~Rivals(job, list[k])
      BY <2>2 DEF Rivals, Alone, StepsOf
    <2> QED BY <1>1, <1>2, <1>3, <1>5, <2>1, <2>5, <2>6, CallStep
  <1> QED BY <1>4, <1>5

LEMMA SubmitLoginStep ==
    ASSUME IInv, SubmitLogin
    PROVE  IInv'
  <1>1. ui \in LoginUi /\ page = "login" /\ ui # NULL
    BY LoginShown DEF SubmitLogin, EmailForm, On
  <1>2. [ui EXCEPT !.status = "loading"] \in LoginUi
    BY <1>1 DEF LoginUi
  <1>3. "verify" \in StepsOf["login"]
    BY DEF StepsOf
  <1> QED BY <1>1, <1>2, <1>3, LoginHandler DEF SubmitLogin

LEMMA SubmitTotpStep ==
    ASSUME IInv, SubmitStepUp
    PROVE  IInv'
  <1>1. ui \in LoginUi /\ page = "login" /\ ui # NULL
    BY LoginShown DEF SubmitStepUp, CodeForm, On
  <1>2. [ui EXCEPT !.status = "loading"] \in LoginUi
    BY <1>1 DEF LoginUi
  <1>3. "step-up" \in StepsOf["login"]
    BY DEF StepsOf
  <1> QED BY <1>1, <1>2, <1>3, LoginHandler DEF SubmitStepUp

LEMMA PickNumberStep ==
    ASSUME IInv, NEW correct \in BOOLEAN, PickNumber(correct)
    PROVE  IInv'
  <1>1. ui \in LoginUi /\ page = "login" /\ ui # NULL
    BY LoginShown DEF PickNumber, Numbers, On
  <1>2. /\ [ui EXCEPT !.status = "error", !.picked = TRUE] \in LoginUi
        /\ [NewLogin EXCEPT !.phase = "totp"] \in LoginUi
    BY <1>1 DEF LoginUi, NewLogin
  <1>3. "wrong number" \in StepsOf["login"]
    BY DEF StepsOf
  <1> QED BY <1>1, <1>2, <1>3, LoginHandler DEF PickNumber

LEMMA AllLive ==
    ASSUME IInv, NEW list, list = jobs, UNCHANGED <<ui, page>>
    PROVE  \A k \in DOMAIN list : LiveOK(list[k])'
  <1> SUFFICES ASSUME NEW k \in DOMAIN list PROVE LiveOK(list[k])'
    OBVIOUS
  <1>1. PICK job : job = list[k]
    OBVIOUS
  <1>2. LiveOK(job)
    BY <1>1, JobAt
  <1>3. LiveOK(job)'
    BY <1>2, LiveStays
  <1> QED BY <1>1, <1>3

-----------------------------------------------------------------------------
\* What a reply leaves to be said of a job.
LEMMA Replied ==
    ASSUME NEW old, JobOK(old)', NEW reply, NEW job, job = [old EXCEPT !.reply = reply],
           LoadOK(job)', ListOK(job)', ReceiptOK(job)', LinkOK(job)', VoteOK(job)', ReplayOK(job)'
    PROVE  JobOK(job)'
  <1>1. /\ old = [at |-> old.at, what |-> old.what, reply |-> old.reply, live |-> old.live]
        /\ old.at \in Steps /\ old.live \in BOOLEAN
    BY DEF JobOK, IsJob
  <1>2. job.at = old.at /\ job.what = old.what /\ job.live = old.live
    BY <1>1
  <1>3. job = [at |-> job.at, what |-> job.what, reply |-> job.reply, live |-> job.live]
    BY <1>1, <1>2
  <1>4. IsJob(job)' /\ RevokeOK(job)'
    BY <1>1, <1>2, <1>3 DEF JobOK, IsJob, RevokeOK
  <1> QED BY <1>2, <1>4 DEF JobOK

\* A route's answer: what is left to say depends on the call.
LEMMA ServedStep ==
    ASSUME IInv, NEW i \in DOMAIN jobs, NEW reply, NEW new, Answer(i, reply, new),
           ServerInv', Grows, NEW job, job = [jobs[i] EXCEPT !.reply = reply],
           job.at # "load" \/ (job.live => Agrees(job)),
           LoadOK(job)', ListOK(job)', ReceiptOK(job)', LinkOK(job)', VoteOK(job)', ReplayOK(job)'
    PROVE  IInv'
  <1>1. PICK old : old = jobs[i]
    OBVIOUS
  <1>2. JobOK(old) /\ LiveOK(old)
    BY <1>1, JobAt
  <1>3. JobOK(old)'
    <2>1. ServerInv /\ UNCHANGED <<scope, page>>
      BY DEF Answer, IInv
    <2> QED BY <1>2, <2>1, JobGrows
  <1>4. JobOK(job)'
    BY <1>1, <1>3, Replied
  <1>5. job.at = old.at /\ job.what = old.what /\ job.live = old.live
    BY <1>1, <1>2 DEF JobOK, IsJob
  <1>6. job.live => Agrees(job)
    BY <1>2, <1>5 DEF LiveOK, Agrees
  <1> QED BY <1>4, <1>6, AnswerStep

\* The answer of a route whose reply nothing depends on but the next step.
LEMMA PlainAnswer ==
    ASSUME IInv, NEW i \in DOMAIN jobs, jobs[i].at \in {"verify", "step-up", "revoke", "create"},
           NEW reply, NEW new, Answer(i, reply, new), ServerInv', Grows
    PROVE  IInv'
  <1>1. PICK job : job = [jobs[i] EXCEPT !.reply = reply]
    OBVIOUS
  <1>2. job.at = jobs[i].at
    BY <1>1, JobAt
  <1>3. /\ LoadOK(job)' /\ ListOK(job)' /\ ReceiptOK(job)' /\ LinkOK(job)' /\ VoteOK(job)'
        /\ ReplayOK(job)' /\ job.at # "load"
    BY <1>2 DEF LoadOK, ListOK, ReceiptOK, LinkOK, VoteOK, ReplayOK
  <1> QED BY <1>1, <1>3, ServedStep

LEMMA ServerSame ==
    ASSUME IInv, UNCHANGED <<scope, server>>
    PROVE  ServerInv' /\ Grows
  <1>1. ServerInv
    BY DEF IInv
  <1>2. server.secret \in Nat
    BY <1>1, TabAssumption DEF ServerInv, ServerOK
  <1> QED BY <1>1, <1>2 DEF ServerInv, ServerOK, Fresh, Grows, Overtaken

LEMMA GrantStep ==
    ASSUME IInv, NEW i \in DOMAIN jobs, jobs[i].at \in {"verify", "step-up"},
           NEW f \in Families, Fresh(f), Answer(i, f, Granted(f))
    PROVE  IInv'
  <1>1. ServerInv' /\ Grows
    <2>1. UNCHANGED scope /\ server' = Granted(f)
      BY DEF Answer
    <2> QED BY <2>1, GrantedStep DEF IInv, PlaceOK
  <1> QED BY <1>1, PlainAnswer

LEMMA VerifyLoginStep ==
    ASSUME IInv, NEW i \in DOMAIN jobs, VerifyLogin(i)
    PROVE  IInv'
  <1>1. jobs[i].at = "verify"
    BY DEF VerifyLogin, Waiting
  <1>2. ASSUME Answer(i, "step-up", server) PROVE IInv'
    <2>1. ServerInv' /\ Grows
      BY <1>2, ServerSame DEF Answer
    <2> QED BY <1>1, <1>2, <2>1, PlainAnswer
  <1> QED BY <1>1, <1>2, GrantStep DEF VerifyLogin

LEMMA StepUpStep ==
    ASSUME IInv, NEW i \in DOMAIN jobs, StepUp(i)
    PROVE  IInv'
  BY GrantStep DEF StepUp, Waiting

\* A job of the login page ends on the page, or after it was left.
LEMMA LoginDone ==
    ASSUME IInv, NEW i \in DOMAIN jobs, jobs[i].at \in StepsOf["login"],
           NEW new, ui \in LoginUi => new \in LoginUi, ui' = Render(i, new),
           jobs' = RemoveAt(jobs, i), UNCHANGED <<scope, page, entries, auth, server>>
    PROVE  IInv'
  <1>1. PICK list : list = jobs
    OBVIOUS
  <1>2. CASE jobs[i].live = FALSE
    <2>1. UNCHANGED ui
      BY <1>2 DEF Render
    <2>2. \A k \in DOMAIN list : LiveOK(list[k])'
      BY <1>1, <2>1, AllLive
    <2>3. ScreenInv'
      BY <2>1, ServerSame, ScreenGrows DEF IInv
    <2> QED BY <1>1, <2>2, <2>3, DoneStep
  <1>3. CASE jobs[i].live # FALSE
    <2>1. ui' = new /\ ui # NULL /\ jobs[i].at \in StepsOf[page] /\ page \in Pages
      BY <1>3, JobAt DEF Render, LiveOK
    <2>2. page = "login"
      BY <2>1, WhoseStep DEF Pages
    <2>3. ui' \in LoginUi
      <3>1. ui \in LoginUi
        BY <2>1, <2>2, LoginShown DEF On
      <3> QED BY <2>1, <3>1
    <2>4. ScreenInv' /\ ui' # NULL
      BY <2>2, <2>3, LoginScreen
    <2>5. \A k \in DOMAIN list : LiveOK(list[k])'
      <3> SUFFICES ASSUME NEW k \in DOMAIN list PROVE LiveOK(list[k])'
        OBVIOUS
      <3>1. PICK job : job = list[k]
        OBVIOUS
      <3>2. LiveOK(job)
        BY <1>1, <3>1, JobAt
      <3>3. LiveOK(job)'
        BY <2>2, <2>4, <3>2, QuietLive
      <3> QED BY <3>1, <3>3
    <2> QED BY <1>1, <2>4, <2>5, DoneStep
  <1>4. jobs[i].live = FALSE \/ jobs[i].live # FALSE
    OBVIOUS
  <1> QED BY <1>2, <1>3, <1>4

LEMMA ForgetWrongNumberStep ==
    ASSUME IInv, NEW i \in DOMAIN jobs, ForgetWrongNumber(i)
    PROVE  IInv'
  <1>1. jobs[i].at \in StepsOf["login"]
    BY DEF ForgetWrongNumber, StepsOf
  <1>2. NewLogin \in LoginUi
    BY DEF NewLogin, LoginUi
  <1> QED BY <1>1, <1>2, LoginDone DEF ForgetWrongNumber

\* The jobs that go on once their page is left are not those of the attack page.
LEMMA NotAttacking ==
    ASSUME IInv, NEW i \in DOMAIN jobs, jobs[i].at \notin StepsOf["attack"]
    PROVE  page # "attack"
  BY JobAt DEF JobOK

LEMMA FinishSignInStep ==
    ASSUME IInv, NEW i \in DOMAIN jobs, NEW reply, FinishSignIn(i, reply)
    PROVE  IInv'
  <1>1. jobs[i].at \in {"verify", "step-up"}
    BY DEF FinishSignIn, Read
  <1>2. CASE reply \in Families
    <2>1. /\ SetTokens([family |-> reply, generation |-> 1])
          /\ Navigate("dashboard", RemoveAt(jobs, i)) /\ UNCHANGED <<scope, server>>
      BY <1>2 DEF FinishSignIn
    <2>2. AuthOK'
      <3>1. [family |-> reply, generation |-> 1] \in Token
        BY <1>2, TabAssumption DEF Token
      <3> QED BY <2>1, <3>1 DEF SetTokens, AuthOK
    <2>3. page # "attack"
      BY <1>1, NotAttacking DEF StepsOf
    <2>4. Good(RemoveAt(jobs, i))
      BY JobAt, GoodLess
    <2>5. "dashboard" \in Pages \ {"attack"}
      BY DEF Pages
    <2> QED BY <2>1, <2>2, <2>3, <2>4, <2>5, LeaveStep
  <1>3. CASE reply \notin Families
    <2>1. PICK new : new = IF reply = "step-up" THEN [NewLogin EXCEPT !.phase = "number-match"]
                           ELSE [ui EXCEPT !.status = "error"]
      OBVIOUS
    <2>2. ui \in LoginUi => new \in LoginUi
      BY <2>1 DEF LoginUi, NewLogin
    <2>3. ui' = Render(i, new) /\ jobs' = RemoveAt(jobs, i)
          /\ UNCHANGED <<scope, page, entries, auth, server>>
      BY <1>3, <2>1 DEF FinishSignIn
    <2>4. jobs[i].at \in StepsOf["login"]
      BY <1>1 DEF StepsOf
    <2> QED BY <2>2, <2>3, <2>4, LoginDone
  <1> QED BY <1>2, <1>3

LEMMA LoginNextStep ==
    ASSUME IInv, LoginNext
    PROVE  IInv'
  BY MountLoginStep, SubmitLoginStep, SubmitTotpStep, PickNumberStep, VerifyLoginStep,
     StepUpStep, ForgetWrongNumberStep, FinishSignInStep DEF LoginNext

-----------------------------------------------------------------------------
LEMMA RegisterShown ==
    ASSUME IInv, On("register")
    PROVE  ui \in RegisterUi /\ RegisterTrue
  BY DEF IInv, ScreenInv, On, UiOf

LEMMA RegisterScreen ==
    ASSUME page = "register", UNCHANGED page, ui' \in RegisterUi, RegisterTrue'
    PROVE  ScreenInv' /\ ui' # NULL
  BY NullAssumption DEF ScreenInv, UiOf, Pages

\* A live handler of the register page is the only one.
LEMMA LinkAt ==
    ASSUME IInv, NEW i \in DOMAIN jobs, jobs[i].live, jobs[i].at \in StepsOf["register"]
    PROVE  /\ page = "register" /\ ui # NULL /\ ui \in RegisterUi /\ RegisterTrue
           /\ Agrees(jobs[i])
           /\ \A k \in DOMAIN jobs : k # i => jobs[k].live = FALSE
  <1>1. ui # NULL /\ jobs[i].at \in StepsOf[page] /\ page \in Pages /\ Agrees(jobs[i])
    BY JobAt DEF LiveOK
  <1>2. page = "register"
    BY <1>1, WhoseStep DEF Pages
  <1>3. ui \in RegisterUi /\ RegisterTrue
    BY <1>1, <1>2, RegisterShown DEF On
  <1>4. ASSUME NEW k \in DOMAIN jobs, jobs[k].live # FALSE PROVE k = i
    <2>1. jobs[k].live
      BY <1>4, JobAt
    <2>2. jobs[k].at \in StepsOf["register"]
      BY <2>1, <1>2, JobAt DEF LiveOK
    <2>3. Rivals(jobs[k], jobs[i])
      BY <2>1, <2>2 DEF Rivals, Alone, StepsOf
    <2> QED BY <2>3 DEF IInv, JobsInv
  <1> QED BY <1>1, <1>2, <1>3, <1>4

\* While a form is on screen no handler of the page is live.
LEMMA LinkFree ==
    ASSUME IInv, RegisterForm \/ QrForm
    PROVE  \A k \in DOMAIN jobs : jobs[k].live = FALSE
  <1> SUFFICES ASSUME NEW k \in DOMAIN jobs, jobs[k].live # FALSE PROVE FALSE
    OBVIOUS
  <1>1. page = "register"
    BY DEF RegisterForm, QrForm, On
  <1>2. jobs[k].live
    BY JobAt
  <1>3. jobs[k].at \in StepsOf["register"] /\ Agrees(jobs[k])
    BY <1>1, <1>2, JobAt DEF LiveOK
  <1> QED BY <1>3 DEF StepsOf, Agrees, RegisterForm, QrForm

LEMMA IdleLive ==
    ASSUME NEW job, job.live = FALSE
    PROVE  LiveOK(job)'
  BY DEF LiveOK

LEMMA MountRegisterStep ==
    ASSUME IInv, MountRegister
    PROVE  IInv'
  <1>1. NewRegister \in RegisterUi /\ NewRegister.phase = "form"
    BY TabAssumption DEF NewRegister, RegisterUi
  <1>2. ScreenInv'
    BY <1>1, RegisterScreen DEF MountRegister, RegisterTrue
  <1>3. PICK list : list = jobs
    OBVIOUS
  <1>4. \A k \in DOMAIN list : LiveOK(list[k])'
    BY <1>3, Unmounted DEF MountRegister
  <1> QED BY <1>2, <1>3, <1>4, TalkStep DEF MountRegister

LEMMA SubmitRegistrationStep ==
    ASSUME IInv, SubmitRegistration
    PROVE  IInv'
  <1>1. /\ page = "register" /\ ui # NULL /\ ui.phase = "form"
        /\ ui' = [ui EXCEPT !.status = "loading"]
        /\ UNCHANGED <<scope, page, entries, auth, server>>
    BY DEF SubmitRegistration, RegisterForm, On
  <1>2. ui \in RegisterUi
    BY <1>1, RegisterShown DEF On
  <1>3. ui' \in RegisterUi /\ ui'.phase = "form" /\ ui'.status = "loading"
    BY <1>1, <1>2 DEF RegisterUi
  <1>4. ScreenInv' /\ ui' # NULL
    BY <1>1, <1>3, RegisterScreen DEF RegisterTrue
  <1>5. PICK list : list = jobs
    OBVIOUS
  <1>6. \A k \in DOMAIN list : list[k].live = FALSE
    BY <1>5, LinkFree DEF SubmitRegistration
  <1>7. \A k \in DOMAIN list : LiveOK(list[k])'
    BY <1>6, IdleLive
  <1>8. PICK job : job = Call("passkey", NULL)
    OBVIOUS
  <1>9. job.at = "passkey" /\ job.reply = NULL
    BY <1>8 DEF Call
  <1>10. Agrees(job)'
    BY <1>3, <1>9 DEF Agrees
  <1>11. /\ LoadOK(job)' /\ ReceiptOK(job)' /\ LinkOK(job)' /\ RevokeOK(job)' /\ VoteOK(job)'
         /\ ReplayOK(job)'
    BY <1>9 DEF LoadOK, ReceiptOK, LinkOK, RevokeOK, VoteOK, ReplayOK
  <1>12. "passkey" \in StepsOf[page]
    BY <1>1 DEF StepsOf
  <1>13. Fine(job)'
    BY <1>1, <1>4, <1>8, <1>10, <1>11, <1>12, NewCall DEF IInv
  <1>14. \A k \in DOMAIN list : ~Rivals(list[k], job) /\ ~Rivals(job, list[k])
    BY <1>6 DEF Rivals
  <1> QED BY <1>1, <1>4, <1>5, <1>7, <1>8, <1>13, <1>14, CallStep DEF SubmitRegistration

LEMMA SubmitCodeStep ==
    ASSUME IInv, NEW secret \in 0..MaxSecrets, SubmitCode(secret)
    PROVE  IInv'
  <1>1. /\ page = "register" /\ ui # NULL /\ ui.phase = "totp-qr"
        /\ ui' = [ui EXCEPT !.status = "loading"] /\ secret \in {ui.secret, 0}
        /\ UNCHANGED <<scope, page, entries, auth, server>>
    BY DEF SubmitCode, QrForm, On
  <1>2. ui \in RegisterUi /\ RegisterTrue
    BY <1>1, RegisterShown DEF On
  <1>3. /\ ui' \in RegisterUi /\ ui'.phase = "totp-qr" /\ ui'.status = "loading"
        /\ ui'.secret = ui.secret
    BY <1>1, <1>2 DEF RegisterUi
  <1>4. RegisterTrue'
    BY <1>1, <1>2, <1>3 DEF RegisterTrue
  <1>5. ScreenInv' /\ ui' # NULL
    BY <1>1, <1>3, <1>4, RegisterScreen
  <1>6. PICK list : list = jobs
    OBVIOUS
  <1>7. \A k \in DOMAIN list : list[k].live = FALSE
    BY <1>6, LinkFree DEF SubmitCode
  <1>8. \A k \in DOMAIN list : LiveOK(list[k])'
    BY <1>7, IdleLive
  <1>9. PICK job : job = Call("confirm", secret)
    OBVIOUS
  <1>10. job.at = "confirm" /\ job.reply = NULL /\ job.what = secret
    BY <1>9 DEF Call
  <1>11. Agrees(job)'
    BY <1>1, <1>3, <1>10 DEF Agrees
  <1>12. server.secret >= 1
    BY <1>1, <1>2, TabAssumption DEF RegisterTrue, IInv, ServerInv, ServerOK
  <1>13. /\ LoadOK(job)' /\ ReceiptOK(job)' /\ LinkOK(job)' /\ RevokeOK(job)' /\ VoteOK(job)'
         /\ ReplayOK(job)'
    BY <1>1, <1>10, <1>12 DEF LoadOK, ReceiptOK, LinkOK, RevokeOK, VoteOK, ReplayOK
  <1>14. "confirm" \in StepsOf[page]
    BY <1>1 DEF StepsOf
  <1>15. Fine(job)'
    BY <1>1, <1>5, <1>9, <1>11, <1>13, <1>14, NewCall DEF IInv
  <1>16. \A k \in DOMAIN list : ~Rivals(list[k], job) /\ ~Rivals(job, list[k])
    BY <1>7 DEF Rivals
  <1> QED BY <1>1, <1>5, <1>6, <1>8, <1>9, <1>15, <1>16, CallStep DEF SubmitCode

\* The server's part in linking.
LEMMA AccountNow ==
    ASSUME IInv
    PROVE  /\ IsServer /\ AccountOK /\ scope \in Scopes /\ ServerInv
           /\ server.secret \in Nat
  <1>1. scope \in Scopes /\ ServerInv
    BY DEF IInv, PlaceOK
  <1>2. IsServer /\ AccountOK
    BY <1>1, ServerParts
  <1> QED BY <1>1, <1>2, TabAssumption DEF AccountOK

LEMMA RegisterPasskeyStep ==
    ASSUME IInv, NEW i \in DOMAIN jobs, RegisterPasskey(i)
    PROVE  IInv'
  <1>1. jobs[i].at = "passkey"
    BY DEF RegisterPasskey, Waiting
  <1>2. PICK a \in Authenticators :
            Answer(i, a, [server EXCEPT !.passkeys = server.passkeys \cup {a}])
    BY DEF RegisterPasskey
  <1>3. ServerInv' /\ Grows /\ server'.passkeys # {}
    <2>1. /\ server' = [rows |-> server.rows, live |-> server.live,
                        generation |-> server.generation, requests |-> server.requests,
                        voted |-> server.voted, passkeys |-> server.passkeys \cup {a},
                        secret |-> server.secret, enabled |-> server.enabled]
          /\ UNCHANGED scope
      BY <1>2, AccountNow DEF Answer, IsServer
    <2>2. AccountOK' /\ IsServer'
      BY <2>1, AccountNow DEF AccountOK, IsServer
    <2>3. server.secret >= server.secret
      BY AccountNow
    <2> QED BY <2>1, <2>2, <2>3, AccountNow, AccountStep
  <1>4. PICK job : job = [jobs[i] EXCEPT !.reply = a]
    OBVIOUS
  <1>5. job.at = "passkey"
    BY <1>1, <1>4, JobAt
  <1>6. /\ LoadOK(job)' /\ ListOK(job)' /\ ReceiptOK(job)' /\ LinkOK(job)' /\ VoteOK(job)'
        /\ ReplayOK(job)' /\ job.at # "load"
    BY <1>3, <1>5 DEF LoadOK, ListOK, ReceiptOK, LinkOK, VoteOK, ReplayOK
  <1> QED BY <1>2, <1>3, <1>4, <1>6, ServedStep

LEMMA RegisterSetupStep ==
    ASSUME IInv, NEW i \in DOMAIN jobs, SetupTotp(i)
    PROVE  IInv'
  <1>1. jobs[i].at = "setup" /\ server.secret < MaxSecrets
    BY DEF SetupTotp, Waiting
  <1>2. PICK next \in 1..MaxSecrets : next = server.secret + 1
    BY <1>1, AccountNow, TabAssumption
  <1>3. Answer(i, next, [server EXCEPT !.secret = next, !.enabled = FALSE])
    BY <1>2 DEF SetupTotp
  <1>4. ServerInv' /\ Grows /\ server'.secret = next
    <2>1. /\ server' = [rows |-> server.rows, live |-> server.live,
                        generation |-> server.generation, requests |-> server.requests,
                        voted |-> server.voted, passkeys |-> server.passkeys,
                        secret |-> next, enabled |-> FALSE]
          /\ UNCHANGED scope
      BY <1>3, AccountNow DEF Answer, IsServer
    <2>2. AccountOK' /\ IsServer'
      BY <2>1, AccountNow DEF AccountOK, IsServer
    <2>3. next >= server.secret /\ next # server.secret
      BY <1>2, AccountNow
    <2> QED BY <2>1, <2>2, <2>3, AccountNow, AccountStep
  <1>5. PICK old, job : old = jobs[i] /\ job = [old EXCEPT !.reply = next]
    OBVIOUS
  <1>6. job.at = "setup" /\ job.reply = next
    BY <1>1, <1>5, JobAt
  <1>7. server'.passkeys # {}
    <2>1. server.passkeys # {}
      BY <1>1, JobAt DEF JobOK, LinkOK
    <2> QED BY <2>1, <1>4 DEF Grows
  <1>8. /\ LoadOK(job)' /\ ListOK(job)' /\ ReceiptOK(job)' /\ LinkOK(job)' /\ VoteOK(job)'
        /\ ReplayOK(job)' /\ job.at # "load"
    BY <1>2, <1>4, <1>6, <1>7 DEF LoadOK, ListOK, ReceiptOK, LinkOK, VoteOK, ReplayOK
  <1> QED BY <1>3, <1>4, <1>5, <1>8, ServedStep

LEMMA ConfirmTotpStep ==
    ASSUME IInv, NEW i \in DOMAIN jobs, ConfirmTotp(i)
    PROVE  IInv'
  <1>1. /\ jobs[i].at = "confirm" /\ jobs[i].what = server.secret
        /\ Answer(i, TRUE, [server EXCEPT !.enabled = TRUE])
    BY DEF ConfirmTotp, Waiting
  <1>2. ServerInv' /\ Grows /\ server'.secret = server.secret /\ server'.enabled = TRUE
    <2>1. /\ server' = [rows |-> server.rows, live |-> server.live,
                        generation |-> server.generation, requests |-> server.requests,
                        voted |-> server.voted, passkeys |-> server.passkeys,
                        secret |-> server.secret, enabled |-> TRUE]
          /\ UNCHANGED scope
      BY <1>1, AccountNow DEF Answer, IsServer
    <2>2. AccountOK' /\ IsServer'
      BY <2>1, AccountNow DEF AccountOK, IsServer
    <2>3. server.secret >= server.secret
      BY AccountNow
    <2> QED BY <2>1, <2>2, <2>3, AccountNow, AccountStep
  <1>3. PICK job : job = [jobs[i] EXCEPT !.reply = TRUE]
    OBVIOUS
  <1>4. job.at = "confirm" /\ job.what = server.secret
    BY <1>1, <1>3, JobAt
  <1>5. server.secret >= 1 /\ server.secret \in 0..MaxSecrets
    BY <1>1, JobAt, AccountNow DEF JobOK, LinkOK, AccountOK
  <1>6. /\ LoadOK(job)' /\ ListOK(job)' /\ ReceiptOK(job)' /\ LinkOK(job)' /\ VoteOK(job)'
        /\ ReplayOK(job)' /\ job.at # "load"
    BY <1>2, <1>4, <1>5, AccountNow DEF LoadOK, ListOK, ReceiptOK, LinkOK, VoteOK, ReplayOK
  <1> QED BY <1>1, <1>2, <1>3, <1>6, ServedStep

\* A handler of the register page ends on the page, or after it was left.
LEMMA LinkDone ==
    ASSUME IInv, NEW i \in DOMAIN jobs, jobs[i].at \in StepsOf["register"],
           NEW new, ui' = Render(i, new), jobs[i].live => ui' \in RegisterUi /\ RegisterTrue',
           jobs' = RemoveAt(jobs, i), UNCHANGED <<scope, page, entries, auth, server>>
    PROVE  IInv'
  <1>1. PICK list : list = jobs
    OBVIOUS
  <1>2. CASE ~jobs[i].live
    <2>1. UNCHANGED ui
      BY <1>2 DEF Render
    <2>2. \A k \in DOMAIN list : LiveOK(list[k])'
      BY <1>1, <2>1, AllLive
    <2>3. ScreenInv'
      BY <2>1, ServerSame, ScreenGrows DEF IInv
    <2> QED BY <1>1, <2>2, <2>3, DoneStep
  <1>3. CASE jobs[i].live
    <2>1. page = "register" /\ \A k \in DOMAIN list : k # i => list[k].live = FALSE
      BY <1>1, <1>3, LinkAt
    <2>2. \A k \in DOMAIN list : k # i => LiveOK(list[k])'
      BY <2>1, IdleLive
    <2>3. ScreenInv'
      BY <1>3, <2>1, RegisterScreen
    <2> QED BY <1>1, <2>2, <2>3, DoneStep
  <1> QED BY <1>2, <1>3

\* A handler of the register page goes on with its next step.
LEMMA LinkGoesOn ==
    ASSUME IInv, NEW i \in DOMAIN jobs, jobs[i].at \in StepsOf["register"],
           NEW new, ui' = Render(i, new), jobs[i].live => ui' \in RegisterUi /\ RegisterTrue',
           NEW job, job.at \in StepsOf["register"], job.live = jobs[i].live, JobOK(job)',
           jobs[i].live => Agrees(job)',
           jobs' = [jobs EXCEPT ![i] = job], UNCHANGED <<scope, page, entries, auth, server>>
    PROVE  IInv'
  <1>1. PICK list : list = jobs
    OBVIOUS
  <1>2. AuthOK'
    BY DEF IInv, AuthOK
  <1>3. \A other : /\ Rivals(job, other) => Rivals(list[i], other)
                   /\ Rivals(other, job) => Rivals(other, list[i])
    <2>1. StepsOf["register"] \in Alone
          /\ \A group \in Alone : group # StepsOf["register"] => group \cap StepsOf["register"] = {}
      BY DEF StepsOf, Alone
    <2> QED BY <1>1, <2>1 DEF Rivals
  <1>4. CASE ~jobs[i].live
    <2>1. UNCHANGED ui
      BY <1>4 DEF Render
    <2>2. \A k \in DOMAIN list : LiveOK(list[k])'
      BY <1>1, <2>1, AllLive
    <2>3. ScreenInv'
      BY <2>1, ServerSame, ScreenGrows DEF IInv
    <2>4. Fine(job)'
      BY <1>4 DEF Fine, LiveOK
    <2> QED BY <1>1, <1>2, <1>3, <2>2, <2>3, <2>4, GoOnStep
  <1>5. CASE jobs[i].live
    <2>1. page = "register" /\ \A k \in DOMAIN list : k # i => list[k].live = FALSE
      BY <1>1, <1>5, LinkAt
    <2>2. \A k \in DOMAIN list : k # i => LiveOK(list[k])'
      BY <2>1, IdleLive
    <2>3. ScreenInv' /\ ui' # NULL
      BY <1>5, <2>1, RegisterScreen
    <2>4. Fine(job)'
      BY <1>5, <2>1, <2>3 DEF Fine, LiveOK
    <2> QED BY <1>1, <1>2, <1>3, <2>2, <2>3, <2>4, GoOnStep
  <1> QED BY <1>4, <1>5

LEMMA AskForSecretStep ==
    ASSUME IInv, NEW i \in DOMAIN jobs, NEW reply, AskForSecret(i, reply)
    PROVE  IInv'
  <1>1. /\ jobs[i].at = "passkey" /\ reply \in {jobs[i].reply, Failed} /\ reply # NULL
        /\ UNCHANGED <<scope, page, entries, auth, server>>
    BY DEF AskForSecret, Read
  <1>2. jobs[i].at \in StepsOf["register"]
    BY <1>1 DEF StepsOf
  <1>3. CASE reply = Failed
    <2>1. PICK new : new = [ui EXCEPT !.status = "error"]
      OBVIOUS
    <2>2. ui' = Render(i, new) /\ jobs' = RemoveAt(jobs, i)
      BY <1>3, <2>1 DEF AskForSecret
    <2>3. ASSUME jobs[i].live PROVE ui' \in RegisterUi /\ RegisterTrue'
      <3>1. ui \in RegisterUi /\ RegisterTrue
        BY <1>2, <2>3, LinkAt
      <3>2. ui' \in RegisterUi /\ ui'.phase = ui.phase /\ ui'.secret = ui.secret
        BY <2>1, <2>2, <2>3, <3>1 DEF Render, RegisterUi
      <3> QED BY <1>1, <3>1, <3>2 DEF RegisterTrue
    <2> QED BY <1>1, <1>2, <2>2, <2>3, LinkDone
  <1>4. CASE reply # Failed
    <2>1. PICK old, job : old = jobs[i] /\ job = [old EXCEPT !.at = "setup", !.reply = NULL]
      OBVIOUS
    <2>2. UNCHANGED ui
      BY <1>4 DEF AskForSecret
    <2>3. jobs' = [jobs EXCEPT ![i] = job]
      <3>1. jobs' = [jobs EXCEPT ![i].at = "setup", ![i].reply = NULL]
        BY <1>4 DEF AskForSecret
      <3>2. jobs \in Seq(ToSet(jobs))
        BY JobAt DEF Good
      <3> QED BY <2>1, <3>1, <3>2
    <2>4. /\ job.at = "setup" /\ job.reply = NULL /\ job.what = old.what /\ job.live = old.live
          /\ job = [at |-> job.at, what |-> job.what, reply |-> job.reply, live |-> job.live]
      <3>1. old = [at |-> old.at, what |-> old.what, reply |-> old.reply, live |-> old.live]
        BY <2>1, JobAt
      <3>2. job = [at |-> "setup", what |-> old.what, reply |-> NULL, live |-> old.live]
        BY <2>1, <3>1
      <3> QED BY <3>2
    <2>5. server.passkeys # {}
      BY <1>1, <1>4, JobAt DEF JobOK, LinkOK
    <2>6. JobOK(job)'
      <3>1. page # "attack" /\ old.live \in BOOLEAN
        BY <1>1, <2>1, NotAttacking, JobAt DEF StepsOf
      <3>2. IsJob(job)
        BY <2>4, <3>1 DEF IsJob, Steps
      <3>3. /\ LoadOK(job)' /\ ListOK(job)' /\ ReceiptOK(job)' /\ LinkOK(job)' /\ RevokeOK(job)'
            /\ VoteOK(job)' /\ ReplayOK(job)'
        BY <1>1, <2>4, <2>5 DEF LoadOK, ListOK, ReceiptOK, LinkOK, RevokeOK, VoteOK, ReplayOK
      <3> QED BY <1>1, <2>4, <3>1, <3>2, <3>3 DEF JobOK, IsJob, Idle, StepsOf
    <2>7. ASSUME jobs[i].live PROVE Agrees(job)' /\ ui' \in RegisterUi /\ RegisterTrue'
      <3>1. Agrees(old) /\ ui \in RegisterUi /\ RegisterTrue
        BY <1>2, <2>1, <2>7, LinkAt
      <3>2. ui.phase = "form" /\ ui.status = "loading"
        BY <1>1, <2>1, <3>1 DEF Agrees
      <3> QED BY <1>1, <2>2, <2>4, <3>1, <3>2 DEF Agrees, RegisterTrue
    <2>8. ui' = Render(i, ui)
      BY <2>2 DEF Render
    <2>9. PICK new : new = ui
      OBVIOUS
    <2>10. job.at \in StepsOf["register"] /\ job.live = jobs[i].live
      BY <2>1, <2>4 DEF StepsOf
    <2> QED BY <1>1, <1>2, <2>3, <2>6, <2>7, <2>8, <2>9, <2>10, LinkGoesOn
  <1> QED BY <1>3, <1>4

LEMMA ShowSecretStep ==
    ASSUME IInv, NEW i \in DOMAIN jobs, NEW reply, ShowSecret(i, reply)
    PROVE  IInv'
  <1>1. /\ jobs[i].at = "setup" /\ reply \in {jobs[i].reply, Failed} /\ reply # NULL
        /\ UNCHANGED <<scope, page, entries, auth, server>>
    BY DEF ShowSecret, Read
  <1>2. jobs[i].at \in StepsOf["register"]
    BY <1>1 DEF StepsOf
  <1>3. PICK new : new = IF reply = Failed THEN [ui EXCEPT !.status = "error"]
                         ELSE [phase |-> "totp-qr", status |-> "idle", secret |-> reply]
    OBVIOUS
  <1>4. ui' = Render(i, new) /\ jobs' = RemoveAt(jobs, i)
    BY <1>3 DEF ShowSecret
  <1>5. ASSUME jobs[i].live PROVE ui' \in RegisterUi /\ RegisterTrue'
    <2>1. ui \in RegisterUi /\ RegisterTrue /\ ui' = new
      BY <1>2, <1>4, <1>5, LinkAt DEF Render
    <2>2. CASE reply = Failed
      <3>1. ui' \in RegisterUi /\ ui'.phase = ui.phase /\ ui'.secret = ui.secret
        BY <1>3, <2>1, <2>2 DEF RegisterUi
      <3> QED BY <1>1, <2>1, <3>1 DEF RegisterTrue
    <2>3. CASE reply # Failed
      <3>1. server.passkeys # {} /\ reply \in 1..server.secret
        BY <1>1, <2>3, JobAt DEF JobOK, LinkOK
      <3>2. reply \in 0..MaxSecrets
        BY <3>1, AccountNow, TabAssumption DEF AccountOK
      <3>3. ui' = [phase |-> "totp-qr", status |-> "idle", secret |-> reply]
        BY <1>3, <2>1, <2>3
      <3> QED BY <1>1, <3>1, <3>2, <3>3 DEF RegisterUi, RegisterTrue
    <2> QED BY <2>2, <2>3
  <1> QED BY <1>1, <1>2, <1>4, <1>5, LinkDone

LEMMA FinishRegistrationStep ==
    ASSUME IInv, NEW i \in DOMAIN jobs, NEW reply, FinishRegistration(i, reply)
    PROVE  IInv'
  <1>1. /\ jobs[i].at = "confirm" /\ reply \in {jobs[i].reply, Failed} /\ reply # NULL
        /\ UNCHANGED <<scope, page, entries, auth, server>>
    BY DEF FinishRegistration, Read
  <1>2. jobs[i].at \in StepsOf["register"]
    BY <1>1 DEF StepsOf
  <1>3. CASE reply = Failed
    <2>1. PICK new : new = [ui EXCEPT !.status = "error"]
      OBVIOUS
    <2>2. ui' = Render(i, new) /\ jobs' = RemoveAt(jobs, i)
      BY <1>3, <2>1 DEF FinishRegistration, Linked
    <2>3. ASSUME jobs[i].live PROVE ui' \in RegisterUi /\ RegisterTrue'
      <3>1. ui \in RegisterUi /\ RegisterTrue
        BY <1>2, <2>3, LinkAt
      <3>2. ui' \in RegisterUi /\ ui'.phase = ui.phase /\ ui'.secret = ui.secret
        BY <2>1, <2>2, <2>3, <3>1 DEF Render, RegisterUi
      <3> QED BY <1>1, <3>1, <3>2 DEF RegisterTrue
    <2> QED BY <1>1, <1>2, <2>2, <2>3, LinkDone
  <1>4. CASE reply # Failed
    <2>1. PICK old, job : old = jobs[i] /\ job = [old EXCEPT !.at = "redirect"]
      OBVIOUS
    <2>2. PICK new : new = [ui EXCEPT !.phase = "done", !.status = "idle"]
      OBVIOUS
    <2>3. ui' = Render(i, new)
      BY <1>4, <2>2 DEF FinishRegistration, Linked
    <2>4. jobs' = [jobs EXCEPT ![i] = job]
      <3>1. jobs' = [jobs EXCEPT ![i].at = "redirect"]
        BY <1>4 DEF FinishRegistration, Linked
      <3>2. jobs \in Seq(ToSet(jobs))
        BY JobAt DEF Good
      <3> QED BY <2>1, <3>1, <3>2
    <2>5. /\ job.at = "redirect" /\ job.live = old.live
          /\ job = [at |-> job.at, what |-> job.what, reply |-> job.reply, live |-> job.live]
      BY <2>1, JobAt
    <2>6. /\ server.secret >= 1 /\ jobs[i].what \in 1..server.secret
          /\ (jobs[i].what = server.secret => server.enabled)
      BY <1>1, <1>4, JobAt DEF JobOK, LinkOK
    <2>7. JobOK(job)'
      <3>1. page # "attack" /\ old.live \in BOOLEAN
        BY <1>1, <2>1, NotAttacking, JobAt DEF StepsOf
      <3>2. IsJob(job)
        BY <2>5, <3>1 DEF IsJob, Steps
      <3>3. /\ LoadOK(job)' /\ ListOK(job)' /\ ReceiptOK(job)' /\ LinkOK(job)' /\ RevokeOK(job)'
            /\ VoteOK(job)' /\ ReplayOK(job)'
        BY <2>5 DEF LoadOK, ListOK, ReceiptOK, LinkOK, RevokeOK, VoteOK, ReplayOK
      <3> QED BY <1>1, <2>5, <3>1, <3>2, <3>3 DEF JobOK, IsJob, Idle, StepsOf
    <2>8. ASSUME jobs[i].live PROVE Agrees(job)' /\ ui' \in RegisterUi /\ RegisterTrue'
      <3>1. Agrees(old) /\ ui \in RegisterUi /\ RegisterTrue
        BY <1>2, <2>1, <2>8, LinkAt
      <3>2. ui.phase = "totp-qr" /\ old.what \in {ui.secret, 0}
        BY <1>1, <2>1, <3>1 DEF Agrees
      <3>3. ui' \in RegisterUi /\ ui'.phase = "done" /\ ui'.secret = ui.secret
        BY <2>2, <2>3, <2>8, <3>1 DEF Render, RegisterUi
      <3>4. old.what = ui.secret
        BY <2>1, <2>6, <3>2, AccountNow
      <3>5. RegisterTrue'
        BY <1>1, <2>1, <2>6, <3>1, <3>2, <3>3, <3>4 DEF RegisterTrue
      <3>6. Agrees(job)'
        BY <2>5, <3>3 DEF Agrees
      <3> QED BY <3>3, <3>5, <3>6
    <2>9. job.at \in StepsOf["register"] /\ job.live = jobs[i].live
      BY <2>1, <2>5 DEF StepsOf
    <2> QED BY <1>1, <1>2, <2>3, <2>4, <2>7, <2>8, <2>9, LinkGoesOn
  <1> QED BY <1>3, <1>4

LEMMA RedirectToLoginStep ==
    ASSUME IInv, NEW i \in DOMAIN jobs, RedirectToLogin(i)
    PROVE  IInv'
  <1>1. /\ jobs[i].at = "redirect" /\ Navigate("login", RemoveAt(jobs, i))
        /\ UNCHANGED <<scope, auth, server>>
    BY DEF RedirectToLogin
  <1>2. page # "attack"
    BY <1>1, NotAttacking DEF StepsOf
  <1>3. Good(RemoveAt(jobs, i))
    BY JobAt, GoodLess
  <1>4. "login" \in Pages \ {"attack"} /\ AuthOK'
    BY <1>1 DEF Pages, IInv, AuthOK
  <1> QED BY <1>1, <1>2, <1>3, <1>4, LeaveStep

LEMMA RegisterNextStep ==
    ASSUME IInv, RegisterNext
    PROVE  IInv'
  BY MountRegisterStep, SubmitRegistrationStep, SubmitCodeStep, RegisterPasskeyStep,
     RegisterSetupStep, ConfirmTotpStep, RedirectToLoginStep, AskForSecretStep,
     ShowSecretStep, FinishRegistrationStep DEF RegisterNext

-----------------------------------------------------------------------------
\* A handler of page p ends, on the page or after it was left.
LEMMA HandlerDone ==
    ASSUME IInv, NEW list, list = jobs, NEW i \in DOMAIN list,
           NEW p \in Pages, list[i].at \in StepsOf[p],
           NEW new, ui' = Render(i, new), jobs' = RemoveAt(list, i),
           UNCHANGED <<scope, page, entries, auth, server>>,
           list[i].live = TRUE /\ page = p /\ ui # NULL /\ Agrees(list[i]) =>
               ScreenInv' /\ \A k \in DOMAIN list : k # i => LiveOK(list[k])'
    PROVE  IInv'
  <1>1. list[i].live \in BOOLEAN /\ LiveOK(list[i]) /\ page \in Pages
    BY JobAt
  <1>2. CASE list[i].live = FALSE
    <2>1. UNCHANGED ui
      BY <1>2 DEF Render
    <2>2. \A k \in DOMAIN list : LiveOK(list[k])'
      BY <2>1, AllLive
    <2>3. ScreenInv'
      BY <2>1, ServerSame, ScreenGrows DEF IInv
    <2> QED BY <2>2, <2>3, DoneStep
  <1>3. CASE list[i].live = TRUE
    <2>1. ui # NULL /\ list[i].at \in StepsOf[page] /\ Agrees(list[i])
      BY <1>1, <1>3 DEF LiveOK
    <2>2. page = p
      BY <1>1, <2>1, WhoseStep
    <2> QED BY <1>3, <2>1, <2>2, DoneStep
  <1> QED BY <1>1, <1>2, <1>3

\* The live jobs of the page on screen that still agree with it.
LEMMA LiveJobs ==
    ASSUME IInv, NEW list, list = jobs, UNCHANGED page, ui' # NULL, NEW i,
           \A job : job.live = TRUE /\ job.at \in StepsOf[page] /\ Agrees(job)
                        /\ (\E k \in DOMAIN list : k # i /\ job = list[k]) => Agrees(job)'
    PROVE  \A k \in DOMAIN list : k # i => LiveOK(list[k])'
  <1> SUFFICES ASSUME NEW k \in DOMAIN list, k # i PROVE LiveOK(list[k])'
    OBVIOUS
  <1>1. PICK job : job = list[k]
    OBVIOUS
  <1>2. LiveOK(job) /\ job.live \in BOOLEAN
    BY <1>1, JobAt
  <1>3. CASE job.live = FALSE
    BY <1>1, <1>3 DEF LiveOK
  <1>4. CASE job.live = TRUE
    <2>1. job.at \in StepsOf[page] /\ Agrees(job)
      BY <1>2, <1>4 DEF LiveOK
    <2>2. Agrees(job)'
      BY <1>1, <1>4, <2>1
    <2>3. LiveOK(job)'
      BY <2>1, <2>2 DEF LiveOK
    <2> QED BY <1>1, <2>3
  <1> QED BY <1>2, <1>3, <1>4

-----------------------------------------------------------------------------
LEMMA PhishingScreen ==
    ASSUME page = "phishing", UNCHANGED page, ui' \in PhishingUi
    PROVE  ScreenInv' /\ ui' # NULL
  BY NullAssumption DEF ScreenInv, UiOf, Pages

LEMMA PhishingLive ==
    ASSUME IInv, page = "phishing", UNCHANGED page, ui' # NULL, NEW list, list = jobs
    PROVE  \A k \in DOMAIN list : LiveOK(list[k])'
  <1> SUFFICES ASSUME NEW k \in DOMAIN list PROVE LiveOK(list[k])'
    OBVIOUS
  <1>1. PICK job : job = list[k]
    OBVIOUS
  <1>2. LiveOK(job)
    BY <1>1, JobAt
  <1>3. LiveOK(job)'
    BY <1>2, QuietLive
  <1> QED BY <1>1, <1>3

LEMMA MountPhishingStep ==
    ASSUME IInv, MountPhishing
    PROVE  IInv'
  <1>1. ScreenInv'
    BY PhishingScreen DEF MountPhishing, PhishingUi
  <1>2. PICK list : list = jobs
    OBVIOUS
  <1>3. \A k \in DOMAIN list : LiveOK(list[k])'
    BY <1>2, Unmounted DEF MountPhishing
  <1> QED BY <1>1, <1>2, <1>3, TalkStep DEF MountPhishing

LEMMA AttemptPhishStep ==
    ASSUME IInv, AttemptPhish
    PROVE  IInv'
  <1>1. page = "phishing" /\ UNCHANGED <<scope, page, entries, auth, server>>
    BY DEF AttemptPhish, On
  <1>2. ScreenInv' /\ ui' # NULL
    BY <1>1, PhishingScreen DEF AttemptPhish, PhishingUi
  <1>3. PICK list : list = jobs
    OBVIOUS
  <1>4. \A k \in DOMAIN list : LiveOK(list[k])'
    BY <1>1, <1>2, <1>3, PhishingLive
  <1>5. PICK job : job = Call("attempt", NULL)
    OBVIOUS
  <1>6. job.at = "attempt" /\ "attempt" \in StepsOf[page]
    BY <1>1, <1>5 DEF Call, StepsOf
  <1>7. Agrees(job)'
    BY <1>6 DEF Agrees
  <1>8. /\ LoadOK(job)' /\ ReceiptOK(job)' /\ LinkOK(job)' /\ RevokeOK(job)' /\ VoteOK(job)'
        /\ ReplayOK(job)'
    BY <1>6 DEF LoadOK, ReceiptOK, LinkOK, RevokeOK, VoteOK, ReplayOK
  <1>9. Fine(job)'
    BY <1>1, <1>2, <1>5, <1>6, <1>7, <1>8, NewCall DEF IInv
  <1>10. \A k \in DOMAIN list : ~Rivals(list[k], job) /\ ~Rivals(job, list[k])
    BY <1>6 DEF Rivals, Alone
  <1>11. jobs' = Append(list, job)
    BY <1>3, <1>5 DEF AttemptPhish
  <1> QED BY <1>1, <1>2, <1>3, <1>4, <1>9, <1>10, <1>11, CallStep

LEMMA FinishPhishStep ==
    ASSUME IInv, NEW i \in DOMAIN jobs, FinishPhish(i)
    PROVE  IInv'
  <1>1. PICK list, new : list = jobs /\ new = [phase |-> "failed"]
    OBVIOUS
  <1>2. /\ list[i].at \in StepsOf["phishing"] /\ "phishing" \in Pages
        /\ ui' = Render(i, new) /\ jobs' = RemoveAt(list, i)
        /\ UNCHANGED <<scope, page, entries, auth, server>>
    BY <1>1 DEF FinishPhish, StepsOf, Pages
  <1>3. ASSUME list[i].live = TRUE, page = "phishing"
        PROVE  ScreenInv' /\ \A k \in DOMAIN list : k # i => LiveOK(list[k])'
    <2>1. ui' = new /\ new \in PhishingUi
      BY <1>1, <1>2, <1>3 DEF Render, PhishingUi
    <2>2. ScreenInv' /\ ui' # NULL
      BY <1>2, <1>3, <2>1, PhishingScreen
    <2> QED BY <1>1, <1>2, <1>3, <2>2, PhishingLive
  <1> QED BY <1>1, <1>2, <1>3, HandlerDone

LEMMA ResetPhishStep ==
    ASSUME IInv, ResetPhish
    PROVE  IInv'
  <1>1. page = "phishing" /\ UNCHANGED <<scope, page, entries, auth, jobs, server>>
    BY DEF ResetPhish, On
  <1>2. ScreenInv' /\ ui' # NULL
    BY <1>1, PhishingScreen DEF ResetPhish, PhishingUi
  <1>3. PICK list : list = jobs
    OBVIOUS
  <1>4. \A k \in DOMAIN list : LiveOK(list[k])'
    BY <1>1, <1>2, <1>3, PhishingLive
  <1> QED BY <1>1, <1>2, <1>3, <1>4, TalkStep

-----------------------------------------------------------------------------
LEMMA DisputeShown ==
    ASSUME IInv, page = "dispute", ui # NULL
    PROVE  ui \in DisputeUi /\ DisputeTrue
  BY DEF IInv, ScreenInv, UiOf

LEMMA DisputeScreen ==
    ASSUME page = "dispute", UNCHANGED page, ui' \in DisputeUi, DisputeTrue'
    PROVE  ScreenInv' /\ ui' # NULL
  BY NullAssumption DEF ScreenInv, UiOf, Pages

\* While a receipt is loading the selection stays, or is said to have changed.
LEMMA DisputeLive ==
    ASSUME IInv, page = "dispute", UNCHANGED page, ui' # NULL, NEW list, list = jobs,
           ui.loading => ui'.loading /\ (~ui'.strayed => ~ui.strayed /\ ui'.selected = ui.selected)
    PROVE  \A k \in DOMAIN list : LiveOK(list[k])'
  <1>1. ASSUME NEW job, job.at \in StepsOf[page], Agrees(job) PROVE Agrees(job)'
    <2>1. job.at \in {"list", "receipt"}
      BY <1>1 DEF StepsOf
    <2> QED BY <1>1, <2>1 DEF Agrees
  <1>2. DOMAIN list = 1..Len(list) /\ 0 \notin DOMAIN list
    <2>1. list \in Seq(ToSet(list))
      BY DEF IInv, JobsInv
    <2> QED BY <2>1
  <1>3. \A k \in DOMAIN list : k # 0 => LiveOK(list[k])'
    BY <1>1, LiveJobs
  <1> QED BY <1>2, <1>3

LEMMA MountDisputeStep ==
    ASSUME IInv, MountDispute
    PROVE  IInv'
  <1>1. page = "dispute" /\ ui = NULL /\ UNCHANGED <<scope, page, entries, auth, server>>
    BY DEF MountDispute
  <1>2. ui' \in DisputeUi /\ ui'.phase = "pick"
    BY DEF MountDispute, DisputeUi, ListOf
  <1>3. ScreenInv' /\ ui' # NULL
    BY <1>1, <1>2, DisputeScreen DEF DisputeTrue
  <1>4. PICK list : list = jobs
    OBVIOUS
  <1>5. \A k \in DOMAIN list : LiveOK(list[k])' /\ list[k].live = FALSE
    BY <1>1, <1>4, Unmounted
  <1>6. CASE auth.memory = NULL
    BY <1>1, <1>3, <1>4, <1>5, <1>6, TalkStep DEF MountDispute
  <1>7. CASE auth.memory # NULL
    <2>1. PICK job : job = Call("list", NULL)
      OBVIOUS
    <2>2. job.at = "list" /\ "list" \in StepsOf[page]
      BY <1>1, <2>1 DEF Call, StepsOf
    <2>3. Agrees(job)'
      BY <2>2 DEF Agrees
    <2>4. /\ LoadOK(job)' /\ ReceiptOK(job)' /\ LinkOK(job)' /\ RevokeOK(job)' /\ VoteOK(job)'
          /\ ReplayOK(job)'
      BY <2>2 DEF LoadOK, ReceiptOK, LinkOK, RevokeOK, VoteOK, ReplayOK
    <2>5. Fine(job)'
      BY <1>1, <1>3, <2>1, <2>2, <2>3, <2>4, NewCall DEF IInv
    <2>6. \A k \in DOMAIN list : ~Rivals(list[k], job) /\ ~Rivals(job, list[k])
      BY <1>5 DEF Rivals
    <2>7. jobs' = Append(list, job)
      BY <1>4, <1>7, <2>1 DEF MountDispute
    <2> QED BY <1>1, <1>3, <1>4, <1>5, <2>5, <2>6, <2>7, CallStep
  <1> QED BY <1>6, <1>7

LEMMA ListResolvedStep ==
    ASSUME IInv, NEW i \in DOMAIN jobs, ListResolved(i)
    PROVE  IInv'
  <1>1. PICK reply : reply = With("resolved")
    OBVIOUS
  <1>2. jobs[i].at = "list" /\ Answer(i, reply, server) /\ reply \subseteq Requests
    BY <1>1 DEF ListResolved, Waiting, With
  <1>3. ServerInv' /\ Grows
    BY <1>2, ServerSame DEF Answer
  <1>4. PICK job : job = [jobs[i] EXCEPT !.reply = reply]
    OBVIOUS
  <1>5. job.at = "list" /\ job.reply = reply
    BY <1>2, <1>4, JobAt
  <1>6. /\ LoadOK(job)' /\ ListOK(job)' /\ ReceiptOK(job)' /\ LinkOK(job)' /\ VoteOK(job)'
        /\ ReplayOK(job)' /\ job.at # "load"
    BY <1>2, <1>5 DEF LoadOK, ListOK, ReceiptOK, LinkOK, VoteOK, ReplayOK
  <1> QED BY <1>2, <1>3, <1>4, <1>6, ServedStep

LEMMA FinishListStep ==
    ASSUME IInv, NEW i \in DOMAIN jobs, NEW reply, FinishList(i, reply)
    PROVE  IInv'
  <1>1. PICK list, new : /\ list = jobs
                         /\ new = [ui EXCEPT !.list = IF reply = Failed THEN Broken ELSE Loaded(reply)]
    OBVIOUS
  <1>2. /\ list[i].at = "list" /\ reply \in {list[i].reply, Failed} /\ reply # NULL
        /\ ui' = Render(i, new) /\ jobs' = RemoveAt(list, i)
        /\ UNCHANGED <<scope, page, entries, auth, server>>
    BY <1>1 DEF FinishList, Read
  <1>3. reply = Failed \/ reply \subseteq Requests
    BY <1>1, <1>2, JobAt DEF JobOK, ListOK
  <1>4. ASSUME list[i].live = TRUE, page = "dispute", ui # NULL
        PROVE  ScreenInv' /\ \A k \in DOMAIN list : k # i => LiveOK(list[k])'
    <2>1. ui \in DisputeUi /\ DisputeTrue
      BY <1>4, DisputeShown
    <2>2. ui' = [ui EXCEPT !.list = IF reply = Failed THEN Broken ELSE Loaded(reply)]
      BY <1>1, <1>2, <1>4 DEF Render
    <2>3. (IF reply = Failed THEN Broken ELSE Loaded(reply)) \in ListOf(SUBSET Requests)
      BY <1>3 DEF ListOf
    <2>4. /\ ui' \in DisputeUi /\ ui'.phase = ui.phase /\ ui'.strayed = ui.strayed
          /\ ui'.receipt = ui.receipt /\ ui'.selected = ui.selected /\ ui'.loading = ui.loading
      BY <2>1, <2>2, <2>3 DEF DisputeUi
    <2>5. ScreenInv' /\ ui' # NULL
      BY <1>2, <1>4, <2>1, <2>4, DisputeScreen DEF DisputeTrue
    <2> QED BY <1>1, <1>2, <1>4, <2>4, <2>5, DisputeLive
  <1>5. list[i].at \in StepsOf["dispute"] /\ "dispute" \in Pages
    BY <1>2 DEF StepsOf, Pages
  <1> QED BY <1>1, <1>2, <1>4, <1>5, HandlerDone

LEMMA PickRequestStep ==
    ASSUME IInv, NEW r \in Requests, PickRequest(r)
    PROVE  IInv'
  <1>1. /\ page = "dispute" /\ ui # NULL /\ UNCHANGED <<scope, page, entries, auth, jobs, server>>
        /\ ui' = [ui EXCEPT !.selected = r, !.phase = "claim", !.receipt = NULL, !.failed = FALSE,
                            !.strayed = @ \/ ui.loading]
    BY DEF PickRequest, On
  <1>2. ui \in DisputeUi
    BY <1>1, DisputeShown
  <1>3. /\ ui' \in DisputeUi /\ ui'.phase = "claim" /\ ui'.loading = ui.loading
        /\ (ui.loading => ui'.strayed)
    BY <1>1, <1>2 DEF DisputeUi
  <1>4. ScreenInv' /\ ui' # NULL
    BY <1>1, <1>3, DisputeScreen DEF DisputeTrue
  <1>5. PICK list : list = jobs
    OBVIOUS
  <1>6. \A k \in DOMAIN list : LiveOK(list[k])'
    BY <1>1, <1>3, <1>4, <1>5, DisputeLive
  <1> QED BY <1>1, <1>4, <1>5, <1>6, TalkStep

LEMMA ResetDisputeStep ==
    ASSUME IInv, ResetDispute
    PROVE  IInv'
  <1>1. /\ page = "dispute" /\ ui # NULL /\ UNCHANGED <<scope, page, entries, auth, jobs, server>>
        /\ ui' = [ui EXCEPT !.selected = NULL, !.phase = "pick", !.receipt = NULL, !.failed = FALSE,
                            !.strayed = @ \/ ui.loading]
    BY DEF ResetDispute, On
  <1>2. ui \in DisputeUi
    BY <1>1, DisputeShown
  <1>3. /\ ui' \in DisputeUi /\ ui'.phase = "pick" /\ ui'.loading = ui.loading
        /\ (ui.loading => ui'.strayed)
    BY <1>1, <1>2 DEF DisputeUi
  <1>4. ScreenInv' /\ ui' # NULL
    BY <1>1, <1>3, DisputeScreen DEF DisputeTrue
  <1>5. PICK list : list = jobs
    OBVIOUS
  <1>6. \A k \in DOMAIN list : LiveOK(list[k])'
    BY <1>1, <1>3, <1>4, <1>5, DisputeLive
  <1> QED BY <1>1, <1>4, <1>5, <1>6, TalkStep

LEMMA RevealReceiptStep ==
    ASSUME IInv, RevealReceipt
    PROVE  IInv'
  <1>1. /\ page = "dispute" /\ ui # NULL /\ ui.phase = "claim" /\ ~ui.loading
        /\ UNCHANGED <<scope, page, entries, auth, server>>
    BY DEF RevealReceipt, CanReveal, On
  <1>2. ui \in DisputeUi
    BY <1>1, DisputeShown
  <1>3. PICK list : list = jobs
    OBVIOUS
  <1>4. ui' \in DisputeUi /\ ui'.phase = "claim" /\ ui'.selected = ui.selected
    BY <1>1, <1>2 DEF RevealReceipt, DisputeUi
  <1>5. ScreenInv' /\ ui' # NULL
    BY <1>1, <1>4, DisputeScreen DEF DisputeTrue
  <1>6. \A k \in DOMAIN list : LiveOK(list[k])'
    BY <1>1, <1>3, <1>5, DisputeLive
  <1>7. CASE auth.memory = NULL
    BY <1>1, <1>3, <1>5, <1>6, <1>7, TalkStep DEF RevealReceipt
  <1>8. CASE auth.memory # NULL
    <2>1. PICK job : job = Call("receipt", ui.selected)
      OBVIOUS
    <2>2. /\ job.at = "receipt" /\ job.what = ui.selected /\ job.reply = NULL
          /\ "receipt" \in StepsOf[page]
      BY <1>1, <2>1 DEF Call, StepsOf
    <2>3. Agrees(job)'
      <3>1. ui'.loading
        BY <1>2, <1>8 DEF RevealReceipt, DisputeUi
      <3> QED BY <1>4, <2>2, <3>1 DEF Agrees
    <2>4. /\ LoadOK(job)' /\ ReceiptOK(job)' /\ LinkOK(job)' /\ RevokeOK(job)' /\ VoteOK(job)'
          /\ ReplayOK(job)'
      BY <1>2, <2>2 DEF LoadOK, ReceiptOK, LinkOK, RevokeOK, VoteOK, ReplayOK, DisputeUi
    <2>5. Fine(job)'
      <3>1. PICK what : what = ui.selected
        OBVIOUS
      <3>2. job = Call("receipt", what)
        BY <2>1, <3>1
      <3> QED BY <1>1, <1>5, <2>2, <2>3, <2>4, <3>2, NewCall DEF IInv
    <2>6. ASSUME NEW k \in DOMAIN list, Rivals(list[k], job) \/ Rivals(job, list[k]) PROVE FALSE
      <3>1. list[k].live /\ list[k].at = "receipt"
        BY <2>2, <2>6 DEF Rivals, Alone
      <3>2. Agrees(list[k])
        BY <1>3, <3>1, JobAt DEF LiveOK
      <3> QED BY <1>1, <3>1, <3>2 DEF Agrees
    <2>7. jobs' = Append(list, job)
      BY <1>3, <1>8, <2>1 DEF RevealReceipt
    <2> QED BY <1>1, <1>3, <1>5, <1>6, <2>5, <2>6, <2>7, CallStep
  <1> QED BY <1>7, <1>8

LEMMA ServeReceiptStep ==
    ASSUME IInv, NEW i \in DOMAIN jobs, ServeReceipt(i)
    PROVE  IInv'
  <1>1. PICK reply : reply = jobs[i].what
    OBVIOUS
  <1>2. jobs[i].at = "receipt" /\ Answer(i, reply, server)
    BY <1>1 DEF ServeReceipt, Waiting
  <1>3. ServerInv' /\ Grows
    BY <1>2, ServerSame DEF Answer
  <1>4. PICK job : job = [jobs[i] EXCEPT !.reply = reply]
    OBVIOUS
  <1>5. job.at = "receipt" /\ job.reply = reply /\ job.what = reply
    BY <1>1, <1>2, <1>4, JobAt
  <1>6. reply \in Requests \cup {NULL}
    BY <1>1, <1>2, JobAt DEF JobOK, ReceiptOK
  <1>7. /\ LoadOK(job)' /\ ListOK(job)' /\ ReceiptOK(job)' /\ LinkOK(job)' /\ VoteOK(job)'
        /\ ReplayOK(job)' /\ job.at # "load"
    BY <1>5, <1>6 DEF LoadOK, ListOK, ReceiptOK, LinkOK, VoteOK, ReplayOK
  <1> QED BY <1>2, <1>3, <1>4, <1>7, ServedStep

LEMMA FinishReceiptStep ==
    ASSUME IInv, NEW i \in DOMAIN jobs, NEW reply, FinishReceipt(i, reply)
    PROVE  IInv'
  <1>1. PICK list, new :
            /\ list = jobs
            /\ new = IF reply = Failed THEN [ui EXCEPT !.failed = TRUE, !.loading = FALSE]
                     ELSE [ui EXCEPT !.receipt = reply, !.phase = "reveal", !.loading = FALSE]
    OBVIOUS
  <1>2. /\ list[i].at = "receipt" /\ reply \in {list[i].reply, Failed} /\ reply # NULL
        /\ ui' = Render(i, new) /\ jobs' = RemoveAt(list, i)
        /\ UNCHANGED <<scope, page, entries, auth, server>>
    BY <1>1 DEF FinishReceipt, Read
  <1>3. reply = Failed \/ (reply = list[i].what /\ reply \in Requests)
    BY <1>1, <1>2, JobAt DEF JobOK, ReceiptOK
  <1>4. ASSUME list[i].live = TRUE, page = "dispute", ui # NULL, Agrees(list[i])
        PROVE  ScreenInv' /\ \A k \in DOMAIN list : k # i => LiveOK(list[k])'
    <2>1. ui \in DisputeUi /\ DisputeTrue
      BY <1>4, DisputeShown
    <2>2. ui' = new
      BY <1>1, <1>2, <1>4 DEF Render
    <2>3. ui' \in DisputeUi
      BY <1>1, <1>3, <2>1, <2>2 DEF DisputeUi
    <2>4. DisputeTrue'
      <3>1. CASE reply = Failed
        <4>1. /\ ui'.phase = ui.phase /\ ui'.strayed = ui.strayed
              /\ ui'.receipt = ui.receipt /\ ui'.selected = ui.selected
          BY <1>1, <2>1, <2>2, <3>1 DEF DisputeUi
        <4> QED BY <2>1, <4>1 DEF DisputeTrue
      <3>2. CASE reply # Failed
        <4>1. /\ ui'.strayed = ui.strayed /\ ui'.receipt = reply /\ ui'.selected = ui.selected
          BY <1>1, <2>1, <2>2, <3>2 DEF DisputeUi
        <4>2. ~ui.strayed => list[i].what = ui.selected
          BY <1>2, <1>4 DEF Agrees
        <4> QED BY <1>3, <3>2, <4>1, <4>2 DEF DisputeTrue
      <3> QED BY <3>1, <3>2
    <2>5. ScreenInv' /\ ui' # NULL
      BY <1>2, <1>4, <2>3, <2>4, DisputeScreen
    <2>6. ASSUME NEW job, job.live = TRUE, job.at \in StepsOf[page],
                 NEW k \in DOMAIN list, k # i, job = list[k]
          PROVE  Agrees(job)'
      <3>1. job.at # "receipt"
        <4>1. job.at = "receipt" => Rivals(list[k], list[i])
          BY <1>2, <1>4, <2>6 DEF Rivals, Alone
        <4> QED BY <1>1, <2>6, <4>1 DEF IInv, JobsInv
      <3>2. job.at = "list"
        BY <1>4, <2>6, <3>1 DEF StepsOf
      <3> QED BY <3>2 DEF Agrees
    <2> QED BY <1>1, <1>2, <2>5, <2>6, LiveJobs
  <1>5. list[i].at \in StepsOf["dispute"] /\ "dispute" \in Pages
    BY <1>2 DEF StepsOf, Pages
  <1> QED BY <1>1, <1>2, <1>4, <1>5, HandlerDone

LEMMA FollowToDashboardStep ==
    ASSUME IInv, FollowToDashboard
    PROVE  IInv'
  <1>1. /\ page = "dispute" /\ Navigate("dashboard", jobs) /\ UNCHANGED <<scope, auth, server>>
    BY DEF FollowToDashboard, On
  <1>2. Good(jobs)
    BY JobsAreGood DEF IInv
  <1>3. "dashboard" \in Pages \ {"attack"} /\ AuthOK'
    BY <1>1 DEF Pages, IInv, AuthOK
  <1>4. PICK list : list = jobs
    OBVIOUS
  <1> QED BY <1>1, <1>2, <1>3, <1>4, LeaveStep

-----------------------------------------------------------------------------
\* A handler of page p goes on with its next step, on the page or after it was left.
LEMMA HandlerGoesOn ==
    ASSUME IInv, NEW list, list = jobs, NEW i \in DOMAIN list,
           NEW p \in Pages, list[i].at \in StepsOf[p],
           NEW new, ui' = Render(i, new), AuthOK', UNCHANGED <<scope, page, entries, server>>,
           NEW job, job.at \in StepsOf[p], job.live = list[i].live, JobOK(job)',
           jobs' = [list EXCEPT ![i] = job],
           \A other : /\ Rivals(job, other) => Rivals(list[i], other)
                      /\ Rivals(other, job) => Rivals(other, list[i]),
           list[i].live = TRUE /\ page = p /\ ui # NULL /\ Agrees(list[i]) =>
               /\ ScreenInv' /\ ui' # NULL /\ Agrees(job)'
               /\ \A k \in DOMAIN list : k # i => LiveOK(list[k])'
    PROVE  IInv'
  <1>1. list[i].live \in BOOLEAN /\ LiveOK(list[i]) /\ page \in Pages
    BY JobAt
  <1>2. CASE list[i].live = FALSE
    <2>1. UNCHANGED ui
      BY <1>2 DEF Render
    <2>2. \A k \in DOMAIN list : LiveOK(list[k])'
      BY <2>1, AllLive
    <2>3. ScreenInv'
      BY <2>1, ServerSame, ScreenGrows DEF IInv
    <2>4. Fine(job)'
      BY <1>2 DEF Fine, LiveOK
    <2> QED BY <2>2, <2>3, <2>4, GoOnStep
  <1>3. CASE list[i].live = TRUE
    <2>1. ui # NULL /\ list[i].at \in StepsOf[page] /\ Agrees(list[i])
      BY <1>1, <1>3 DEF LiveOK
    <2>2. page = p
      BY <1>1, <2>1, WhoseStep
    <2>3. /\ ScreenInv' /\ ui' # NULL /\ Agrees(job)'
          /\ \A k \in DOMAIN list : k # i => LiveOK(list[k])'
      BY <1>3, <2>1, <2>2
    <2>4. Fine(job)'
      BY <2>2, <2>3 DEF Fine, LiveOK
    <2> QED BY <2>3, <2>4, GoOnStep
  <1> QED BY <1>1, <1>2, <1>3

-----------------------------------------------------------------------------
LEMMA AttackShown ==
    ASSUME IInv, page = "attack", ui # NULL
    PROVE  ui \in AttackUi
  BY DEF IInv, ScreenInv, UiOf

LEMMA AttackScreen ==
    ASSUME page = "attack", UNCHANGED page, ui' \in AttackUi
    PROVE  ScreenInv' /\ ui' # NULL
  BY NullAssumption DEF ScreenInv, UiOf, Pages

\* What the page shows of either simulation only has to stay while that one runs, in a
\* job other than the one that changes it.
LEMMA AttackLive ==
    ASSUME IInv, page = "attack", UNCHANGED page, ui' # NULL, NEW list, list = jobs, NEW i,
           \/ \A k \in DOMAIN list : k # i => ~(list[k].live /\ list[k].at = "fatigue")
           \/ ui.running /\ ui.results < FatigueAttempts
                  => ui'.running /\ ui'.results < FatigueAttempts,
           \/ \A k \in DOMAIN list : k # i =>
                  ~(list[k].live /\ list[k].at \in {"capture", "pause", "replay"})
           \/ ui.replay = "running"
                  => ui'.replay = "running" /\ (Len(ui.replays) = 1 => Len(ui'.replays) = 1)
    PROVE  \A k \in DOMAIN list : k # i => LiveOK(list[k])'
  <1>1. ASSUME NEW job, job.live = TRUE, job.at \in StepsOf[page], Agrees(job),
               NEW k \in DOMAIN list, k # i, job = list[k]
        PROVE  Agrees(job)'
    <2>1. CASE job.at = "fatigue"
      <3>1. ui.running /\ ui.results < FatigueAttempts
        BY <1>1, <2>1 DEF Agrees
      <3>2. ui'.running /\ ui'.results < FatigueAttempts
        BY <1>1, <2>1, <3>1
      <3> QED BY <2>1, <3>2 DEF Agrees
    <2>2. CASE job.at \in {"capture", "pause", "replay"}
      <3>1. ui.replay = "running" /\ (job.at \in {"pause", "replay"} => Len(ui.replays) = 1)
        BY <1>1, <2>2 DEF Agrees
      <3>2. ui'.replay = "running" /\ (Len(ui.replays) = 1 => Len(ui'.replays) = 1)
        BY <1>1, <2>2, <3>1
      <3> QED BY <2>2, <3>1, <3>2 DEF Agrees
    <2>3. job.at \in {"fatigue", "capture", "pause", "replay"}
      BY <1>1 DEF StepsOf
    <2> QED BY <2>1, <2>2, <2>3
  <1> QED BY <1>1, LiveJobs

\* The same when no job is an exception.
LEMMA AttackAllLive ==
    ASSUME IInv, page = "attack", UNCHANGED page, ui' # NULL, NEW list, list = jobs,
           ui.running /\ ui.results < FatigueAttempts
               => ui'.running /\ ui'.results < FatigueAttempts,
           ui.replay = "running"
               => ui'.replay = "running" /\ (Len(ui.replays) = 1 => Len(ui'.replays) = 1)
    PROVE  \A k \in DOMAIN list : LiveOK(list[k])'
  <1>1. DOMAIN list = 1..Len(list) /\ 0 \notin DOMAIN list
    <2>1. list \in Seq(ToSet(list))
      BY DEF IInv, JobsInv
    <2> QED BY <2>1
  <1>2. \A k \in DOMAIN list : k # 0 => LiveOK(list[k])'
    BY AttackLive
  <1> QED BY <1>1, <1>2

\* Either simulation has one job.
LEMMA AttackAlone ==
    ASSUME IInv, NEW i \in DOMAIN jobs, jobs[i].live,
           NEW group \in Alone, jobs[i].at \in group
    PROVE  \A k \in DOMAIN jobs : k # i => ~(jobs[k].live /\ jobs[k].at \in group)
  BY DEF IInv, JobsInv, Rivals

LEMMA MountAttackStep ==
    ASSUME IInv, MountAttack
    PROVE  IInv'
  <1>1. ui' \in AttackUi
    <2>1. <<>> \in [1..0 -> BOOLEAN]
      OBVIOUS
    <2>2. <<>> \in UNION {[1..n -> BOOLEAN] : n \in 0..2}
      BY <2>1
    <2> QED BY <2>2 DEF MountAttack, AttackUi, FatigueAttempts
  <1>2. ScreenInv'
    BY <1>1, AttackScreen DEF MountAttack
  <1>3. PICK list : list = jobs
    OBVIOUS
  <1>4. \A k \in DOMAIN list : LiveOK(list[k])'
    BY <1>3, Unmounted DEF MountAttack
  <1> QED BY <1>2, <1>3, <1>4, TalkStep DEF MountAttack

LEMMA SimulateFatigueStep ==
    ASSUME IInv, SimulateFatigue
    PROVE  IInv'
  <1>1. /\ page = "attack" /\ ui # NULL /\ ~ui.running
        /\ ui' = [ui EXCEPT !.running = TRUE, !.results = 0, !.done = FALSE]
        /\ UNCHANGED <<scope, page, entries, auth, server>>
    BY DEF SimulateFatigue, CanFatigue, On
  <1>2. ui \in AttackUi
    BY <1>1, AttackShown
  <1>3. /\ ui' \in AttackUi /\ ui'.running = TRUE /\ ui'.results = 0
        /\ ui'.replay = ui.replay /\ ui'.replays = ui.replays
    <2>1. 0 \in 0..FatigueAttempts
      BY DEF FatigueAttempts
    <2>2. ui' \in AttackUi
      BY <1>1, <1>2, <2>1 DEF AttackUi
    <2> QED BY <1>1, <1>2, <2>2 DEF AttackUi
  <1>4. ScreenInv' /\ ui' # NULL
    BY <1>1, <1>3, AttackScreen
  <1>5. PICK list : list = jobs
    OBVIOUS
  <1>6. \A k \in DOMAIN list : LiveOK(list[k])'
    BY <1>1, <1>3, <1>4, <1>5, AttackAllLive
  <1>7. PICK job : job = Call("fatigue", NULL)
    OBVIOUS
  <1>8. job.at = "fatigue" /\ "fatigue" \in StepsOf[page]
    BY <1>1, <1>7 DEF Call, StepsOf
  <1>9. Agrees(job)'
    BY <1>3, <1>8 DEF Agrees, FatigueAttempts
  <1>10. /\ LoadOK(job)' /\ ReceiptOK(job)' /\ LinkOK(job)' /\ RevokeOK(job)' /\ VoteOK(job)'
         /\ ReplayOK(job)'
    BY <1>8 DEF LoadOK, ReceiptOK, LinkOK, RevokeOK, VoteOK, ReplayOK
  <1>11. Fine(job)'
    BY <1>1, <1>4, <1>7, <1>8, <1>9, <1>10, NewCall DEF IInv
  <1>12. ASSUME NEW k \in DOMAIN list, Rivals(list[k], job) \/ Rivals(job, list[k]) PROVE FALSE
    <2>1. list[k].live /\ list[k].at = "fatigue"
      BY <1>8, <1>12 DEF Rivals, Alone
    <2>2. Agrees(list[k])
      BY <1>5, <2>1, JobAt DEF LiveOK
    <2> QED BY <1>1, <2>1, <2>2 DEF Agrees
  <1>13. jobs' = Append(list, job)
    BY <1>5, <1>7 DEF SimulateFatigue
  <1> QED BY <1>1, <1>4, <1>5, <1>6, <1>11, <1>12, <1>13, CallStep

LEMMA AttemptFatigueStep ==
    ASSUME IInv, NEW i \in DOMAIN jobs, AttemptFatigue(i)
    PROVE  IInv'
  <1>1. PICK list : list = jobs
    OBVIOUS
  <1>2. list[i].at = "fatigue" /\ UNCHANGED <<scope, page, entries, auth, server>>
    BY <1>1 DEF AttemptFatigue
  <1>3. list[i].live /\ LiveOK(list[i])
    BY <1>1, <1>2, JobAt DEF JobOK, Idle
  <1>4. page = "attack" /\ ui # NULL /\ Agrees(list[i])
    <2>1. JobOK(list[i])
      BY <1>1, JobAt
    <2> QED BY <1>2, <1>3, <2>1 DEF LiveOK, JobOK, StepsOf
  <1>5. ui \in AttackUi /\ ui.running /\ ui.results < FatigueAttempts
    BY <1>2, <1>4, AttackShown DEF Agrees
  <1>6. PICK n \in 0..4 : n = ui.results
    BY <1>5 DEF AttackUi, FatigueAttempts
  <1>7. {"fatigue"} \in Alone
    BY DEF Alone
  <1>8. \A k \in DOMAIN list : k # i => ~(list[k].live /\ list[k].at = "fatigue")
    BY <1>1, <1>2, <1>3, <1>7, AttackAlone
  <1>9. n + 1 \in 0..FatigueAttempts
    BY DEF FatigueAttempts
  <1>10. CASE n + 1 = FatigueAttempts
    <2>1. /\ ui' = [ui EXCEPT !.results = n + 1, !.done = TRUE, !.running = FALSE]
          /\ jobs' = RemoveAt(list, i)
      BY <1>1, <1>6, <1>10 DEF AttemptFatigue
    <2>2. ui' \in AttackUi /\ ui'.replay = ui.replay /\ ui'.replays = ui.replays
      BY <1>5, <1>9, <2>1 DEF AttackUi
    <2>3. ScreenInv' /\ ui' # NULL
      BY <1>2, <1>4, <2>2, AttackScreen
    <2>4. \A k \in DOMAIN list : k # i => LiveOK(list[k])'
      BY <1>1, <1>2, <1>4, <1>8, <2>2, <2>3, AttackLive
    <2> QED BY <1>1, <1>2, <2>1, <2>3, <2>4, DoneStep
  <1>11. CASE n + 1 # FatigueAttempts
    <2>1. /\ ui' = [ui EXCEPT !.results = n + 1, !.done = FALSE, !.running = TRUE]
          /\ UNCHANGED jobs
      BY <1>1, <1>6, <1>11 DEF AttemptFatigue
    <2>2. n + 1 < FatigueAttempts
      BY <1>11 DEF FatigueAttempts
    <2>3. /\ ui' \in AttackUi /\ ui'.replay = ui.replay /\ ui'.replays = ui.replays
          /\ ui'.running = TRUE /\ ui'.results = n + 1
      BY <1>5, <1>9, <2>1 DEF AttackUi
    <2>4. ScreenInv' /\ ui' # NULL
      BY <1>2, <1>4, <2>3, AttackScreen
    <2>5. \A k \in DOMAIN list : LiveOK(list[k])'
      BY <1>1, <1>2, <1>4, <2>2, <2>3, <2>4, AttackAllLive
    <2> QED BY <1>1, <1>2, <2>1, <2>4, <2>5, TalkStep
  <1> QED BY <1>10, <1>11

LEMMA ResetFatigueStep ==
    ASSUME IInv, ResetFatigue
    PROVE  IInv'
  <1>1. /\ page = "attack" /\ ui # NULL /\ ui' = [ui EXCEPT !.results = 0, !.done = FALSE]
        /\ UNCHANGED <<scope, page, entries, auth, jobs, server>>
    BY DEF ResetFatigue, On
  <1>2. ui \in AttackUi
    BY <1>1, AttackShown
  <1>3. /\ ui' \in AttackUi /\ ui'.running = ui.running /\ ui'.results < FatigueAttempts
        /\ ui'.replay = ui.replay /\ ui'.replays = ui.replays
    <2>1. 0 \in 0..FatigueAttempts /\ 0 < FatigueAttempts
      BY DEF FatigueAttempts
    <2>2. ui' \in AttackUi
      BY <1>1, <1>2, <2>1 DEF AttackUi
    <2>3. /\ ui'.running = ui.running /\ ui'.results = 0
          /\ ui'.replay = ui.replay /\ ui'.replays = ui.replays
      BY <1>1, <1>2 DEF AttackUi
    <2> QED BY <2>1, <2>2, <2>3
  <1>4. ScreenInv' /\ ui' # NULL
    BY <1>1, <1>3, AttackScreen
  <1>5. PICK list : list = jobs
    OBVIOUS
  <1>6. \A k \in DOMAIN list : LiveOK(list[k])'
    BY <1>1, <1>3, <1>4, <1>5, AttackAllLive
  <1> QED BY <1>1, <1>4, <1>5, <1>6, TalkStep

LEMMA SimulateReplayStep ==
    ASSUME IInv, SimulateReplay
    PROVE  IInv'
  <1>1. /\ page = "attack" /\ ui # NULL /\ ui.replay # "running"
        /\ UNCHANGED <<scope, page, entries, auth, server>>
    BY DEF SimulateReplay, CanReplay, On
  <1>2. ui \in AttackUi
    BY <1>1, AttackShown
  <1>3. PICK list : list = jobs
    OBVIOUS
  <1>4. CASE auth.memory = NULL
    <2>1. ui' = [ui EXCEPT !.replay = "no-token"] /\ UNCHANGED jobs
      BY <1>4 DEF SimulateReplay
    <2>2. ui' \in AttackUi /\ ui'.running = ui.running /\ ui'.results = ui.results
      BY <1>2, <2>1 DEF AttackUi
    <2>3. ScreenInv' /\ ui' # NULL
      BY <1>1, <2>2, AttackScreen
    <2>4. \A k \in DOMAIN list : LiveOK(list[k])'
      BY <1>1, <1>3, <2>2, <2>3, AttackAllLive
    <2> QED BY <1>1, <1>3, <2>1, <2>3, <2>4, TalkStep
  <1>5. CASE auth.memory # NULL
    <2>1. PICK token \in Token : token = auth.memory
      BY <1>5 DEF IInv, AuthOK
    <2>2. ui' = [ui EXCEPT !.replay = "running", !.replays = <<>>]
      BY <1>5 DEF SimulateReplay
    <2>3. /\ ui' \in AttackUi /\ ui'.running = ui.running /\ ui'.results = ui.results
          /\ ui'.replay = "running"
      <3>1. <<>> \in [1..0 -> BOOLEAN]
        OBVIOUS
      <3>2. <<>> \in UNION {[1..n -> BOOLEAN] : n \in 0..2}
        BY <3>1
      <3> QED BY <1>2, <2>2, <3>2 DEF AttackUi
    <2>4. ScreenInv' /\ ui' # NULL
      BY <1>1, <2>3, AttackScreen
    <2>5. \A k \in DOMAIN list : LiveOK(list[k])'
      BY <1>1, <1>3, <2>3, <2>4, AttackAllLive
    <2>6. PICK job : job = Call("capture", token)
      OBVIOUS
    <2>7. /\ job.at = "capture" /\ job.what = token /\ job.reply = NULL
          /\ "capture" \in StepsOf[page]
      BY <1>1, <2>6 DEF Call, StepsOf
    <2>8. Agrees(job)'
      BY <2>3, <2>7 DEF Agrees
    <2>9. /\ LoadOK(job)' /\ ReceiptOK(job)' /\ LinkOK(job)' /\ RevokeOK(job)' /\ VoteOK(job)'
          /\ ReplayOK(job)'
      BY <2>7 DEF LoadOK, ReceiptOK, LinkOK, RevokeOK, VoteOK, ReplayOK
    <2>10. Fine(job)'
      BY <1>1, <2>4, <2>6, <2>7, <2>8, <2>9, NewCall DEF IInv
    <2>11. ASSUME NEW k \in DOMAIN list, Rivals(list[k], job) \/ Rivals(job, list[k]) PROVE FALSE
      <3>1. list[k].live /\ list[k].at \in {"capture", "pause", "replay"}
        BY <2>7, <2>11 DEF Rivals, Alone
      <3>2. Agrees(list[k])
        BY <1>3, <3>1, JobAt DEF LiveOK
      <3> QED BY <1>1, <3>1, <3>2 DEF Agrees
    <2>12. jobs' = Append(list, job)
      BY <1>3, <1>5, <2>1, <2>6 DEF SimulateReplay
    <2> QED BY <1>1, <1>3, <2>4, <2>5, <2>10, <2>11, <2>12, CallStep
  <1> QED BY <1>4, <1>5

LEMMA RefreshStep ==
    ASSUME IInv, NEW i \in DOMAIN jobs, NEW at \in {"capture", "replay"}, Refresh(i, at)
    PROVE  IInv'
  <1>1. PICK token : token = jobs[i].what
    OBVIOUS
  <1>2. /\ jobs[i].at = at
        /\ IF Current(token)
           THEN /\ token.generation < MaxGeneration
                /\ Answer(i, [token EXCEPT !.generation = @ + 1], Rotated(token.family))
           ELSE Answer(i, Failed, Revoked(token.family))
    BY <1>1 DEF Refresh, Waiting
  <1>3. token \in Token /\ page = "attack"
    BY <1>1, <1>2, JobAt DEF JobOK, ReplayOK, StepsOf
  <1>4. PICK reply : reply = IF Current(token) THEN [token EXCEPT !.generation = @ + 1] ELSE Failed
    OBVIOUS
  <1>5. PICK new : new = IF Current(token) THEN Rotated(token.family) ELSE Revoked(token.family)
    OBVIOUS
  <1>6. Answer(i, reply, new)
    BY <1>2, <1>4, <1>5
  <1>7. reply \in Token \cup {Failed}
    <2>1. CASE Current(token)
      <3>1. PICK n \in Nat : n = token.generation /\ n + 1 \in 1..MaxGeneration
        BY <1>2, <1>3, <2>1, TabAssumption DEF Token
      <3>2. [token EXCEPT !.generation = n + 1] \in Token
        BY <1>3, <3>1 DEF Token
      <3> QED BY <1>4, <2>1, <3>1, <3>2
    <2>2. CASE ~Current(token)
      BY <1>4, <2>2
    <2> QED BY <2>1, <2>2
  <1>8. ServerInv' /\ Grows
    <2>1. scope \in Scopes /\ ServerInv /\ UNCHANGED scope /\ server' = new
      BY <1>6 DEF Answer, IInv, PlaceOK
    <2>2. CASE Current(token)
      <3>1. PICK f : f = token.family
        OBVIOUS
      <3>2. f \in server.live /\ server.generation[f] < MaxGeneration
        BY <1>2, <2>2, <3>1 DEF Current
      <3>3. server' = Rotated(f)
        BY <1>5, <2>1, <2>2, <3>1
      <3> QED BY <1>3, <2>1, <3>2, <3>3, RotatedStep
    <2>3. CASE ~Current(token)
      <3>1. PICK f : f = token.family
        OBVIOUS
      <3>2. server' = Revoked(f)
        BY <1>5, <2>1, <2>3, <3>1
      <3> QED BY <2>1, <3>2, RevokedStep
    <2> QED BY <2>2, <2>3
  <1>9. PICK job : job = [jobs[i] EXCEPT !.reply = reply]
    OBVIOUS
  <1>10. job.at = at /\ job.reply = reply /\ job.what = token
    BY <1>1, <1>2, <1>9, JobAt
  <1>11. /\ LoadOK(job)' /\ ListOK(job)' /\ ReceiptOK(job)' /\ LinkOK(job)' /\ VoteOK(job)'
         /\ ReplayOK(job)' /\ job.at # "load"
    BY <1>3, <1>7, <1>10 DEF LoadOK, ListOK, ReceiptOK, LinkOK, VoteOK, ReplayOK
  <1> QED BY <1>6, <1>8, <1>9, <1>11, ServedStep

\* The steps of a replay have the same rivals.
LEMMA ReplayRivals ==
    ASSUME NEW old, NEW job, job.live = old.live,
           old.at \in {"capture", "pause", "replay"}, job.at \in {"capture", "pause", "replay"}
    PROVE  \A other : /\ Rivals(job, other) => Rivals(old, other)
                      /\ Rivals(other, job) => Rivals(other, old)
  <1>1. \A group \in Alone : job.at \in group => group = {"capture", "pause", "replay"}
    BY DEF Alone
  <1> QED BY <1>1 DEF Rivals

\* A step of a replay leaves the next one with a job in order.
LEMMA ReplayNext ==
    ASSUME IInv, UNCHANGED <<scope, page, server>>, NEW old, JobOK(old),
           old.at \in {"capture", "pause", "replay"}, NEW job, NEW at \in {"pause", "replay"},
           NEW reply, job = [old EXCEPT !.at = at, !.reply = reply]
    PROVE  JobOK(job)' /\ job.at = at /\ job.live = old.live
  <1>1. /\ old = [at |-> old.at, what |-> old.what, reply |-> old.reply, live |-> old.live]
        /\ old.live \in BOOLEAN /\ old.what \in Token /\ page = "attack"
    BY DEF JobOK, IsJob, ReplayOK, StepsOf
  <1>2. job = [at |-> at, what |-> old.what, reply |-> reply, live |-> old.live]
    BY <1>1
  <1>3. /\ job.at = at /\ job.live = old.live /\ job.what = old.what
        /\ job = [at |-> job.at, what |-> job.what, reply |-> job.reply, live |-> job.live]
    BY <1>2
  <1>4. IsJob(job)'
    BY <1>1, <1>3 DEF IsJob, Steps
  <1>5. /\ LoadOK(job)' /\ ListOK(job)' /\ ReceiptOK(job)' /\ LinkOK(job)' /\ RevokeOK(job)'
        /\ VoteOK(job)' /\ ReplayOK(job)'
    BY <1>1, <1>3 DEF LoadOK, ListOK, ReceiptOK, LinkOK, RevokeOK, VoteOK, ReplayOK
  <1> QED BY <1>1, <1>3, <1>4, <1>5 DEF JobOK, Idle, StepsOf

LEMMA FinishCaptureStep ==
    ASSUME IInv, NEW i \in DOMAIN jobs, NEW reply, FinishCapture(i, reply)
    PROVE  IInv'
  <1>1. PICK list, old, new, job :
            /\ list = jobs /\ old = list[i] /\ new = [ui EXCEPT !.replays = <<reply # Failed>>]
            /\ job = [old EXCEPT !.at = "pause", !.reply = NULL]
    OBVIOUS
  <1>2. /\ old.at = "capture" /\ reply \in {old.reply, Failed} /\ reply # NULL
        /\ ui' = Render(i, new) /\ UNCHANGED <<scope, page, entries, server>>
    BY <1>1 DEF FinishCapture, Read
  <1>3. JobOK(old) /\ old.live \in BOOLEAN /\ list \in Seq(ToSet(list))
    BY <1>1, JobAt DEF Good
  <1>4. jobs' = [list EXCEPT ![i] = job]
    <2>1. jobs' = [list EXCEPT ![i].at = "pause", ![i].reply = NULL]
      BY <1>1 DEF FinishCapture
    <2> QED BY <1>1, <1>3, <2>1
  <1>5. AuthOK'
    <2>1. CASE reply = Failed
      BY <2>1 DEF FinishCapture, IInv, AuthOK
    <2>2. CASE reply # Failed
      <3>1. reply \in Token
        BY <1>2, <1>3, <2>2 DEF JobOK, ReplayOK
      <3>2. SetTokens(reply)
        BY <2>2 DEF FinishCapture
      <3> QED BY <3>1, <3>2 DEF SetTokens, AuthOK
    <2> QED BY <2>1, <2>2
  <1>6. JobOK(job)' /\ job.at = "pause" /\ job.live = old.live
    <2>1. old.at \in {"capture", "pause", "replay"} /\ "pause" \in {"pause", "replay"}
      BY <1>2
    <2>2. PICK nothing : nothing = NULL
      OBVIOUS
    <2>3. job = [old EXCEPT !.at = "pause", !.reply = nothing]
      BY <1>1, <2>2
    <2>4. UNCHANGED <<scope, page, server>>
      BY <1>2
    <2> QED BY <1>3, <2>1, <2>3, <2>4, ReplayNext
  <1>7. \A other : /\ Rivals(job, other) => Rivals(list[i], other)
                   /\ Rivals(other, job) => Rivals(other, list[i])
    BY <1>1, <1>2, <1>6, ReplayRivals
  <1>8. ASSUME old.live = TRUE, page = "attack", ui # NULL, Agrees(old)
        PROVE  /\ ScreenInv' /\ ui' # NULL /\ Agrees(job)'
               /\ \A k \in DOMAIN list : k # i => LiveOK(list[k])'
    <2>1. ui \in AttackUi /\ ui' = new /\ ui.replay = "running"
      BY <1>1, <1>2, <1>8, AttackShown DEF Render, Agrees
    <2>2. PICK replays : replays = <<reply # Failed>>
      OBVIOUS
    <2>3. replays \in UNION {[1..n -> BOOLEAN] : n \in 0..2} /\ Len(replays) = 1
      <3>1. PICK ok \in BOOLEAN : ok = (reply # Failed)
        OBVIOUS
      <3>2. <<ok>> \in [1..1 -> BOOLEAN] /\ Len(<<ok>>) = 1
        OBVIOUS
      <3>3. replays = <<ok>> /\ 1 \in 0..2
        BY <2>2, <3>1
      <3> QED BY <3>2, <3>3
    <2>4. /\ ui' \in AttackUi /\ ui'.running = ui.running /\ ui'.results = ui.results
          /\ ui'.replay = "running" /\ Len(ui'.replays) = 1
      BY <1>1, <2>1, <2>2, <2>3 DEF AttackUi
    <2>5. ScreenInv' /\ ui' # NULL
      BY <1>2, <1>8, <2>4, AttackScreen
    <2>6. \A k \in DOMAIN list : k # i => LiveOK(list[k])'
      BY <1>1, <1>2, <1>8, <2>4, <2>5, AttackLive
    <2>7. Agrees(job)'
      BY <1>6, <2>4 DEF Agrees
    <2> QED BY <2>5, <2>6, <2>7
  <1>9. /\ old.at \in StepsOf["attack"] /\ job.at \in StepsOf["attack"] /\ "attack" \in Pages
    BY <1>2, <1>6 DEF StepsOf, Pages
  <1> QED BY <1>1, <1>2, <1>4, <1>5, <1>6, <1>7, <1>8, <1>9, HandlerGoesOn

LEMMA ReplayTokenStep ==
    ASSUME IInv, NEW i \in DOMAIN jobs, ReplayToken(i)
    PROVE  IInv'
  <1>1. PICK list, old : list = jobs /\ old = list[i]
    OBVIOUS
  <1>2. PICK job : job = [old EXCEPT !.at = "replay", !.reply = old.reply]
    OBVIOUS
  <1>3. old.at = "pause" /\ UNCHANGED <<scope, page, entries, ui, auth, server>>
    BY <1>1 DEF ReplayToken
  <1>4. /\ JobOK(old) /\ LiveOK(old) /\ list \in Seq(ToSet(list))
        /\ old = [at |-> old.at, what |-> old.what, reply |-> old.reply, live |-> old.live]
    BY <1>1, JobAt DEF Good
  <1>5. jobs' = [list EXCEPT ![i] = job]
    <2>1. jobs' = [list EXCEPT ![i] = [old EXCEPT !.at = "replay"]]
      BY <1>1, <1>4 DEF ReplayToken
    <2>2. [old EXCEPT !.at = "replay"] = job
      BY <1>2, <1>4
    <2> QED BY <2>1, <2>2
  <1>6. JobOK(job)' /\ job.at = "replay" /\ job.live = old.live
    BY <1>2, <1>3, <1>4, ReplayNext
  <1>7. \A other : /\ Rivals(job, other) => Rivals(list[i], other)
                   /\ Rivals(other, job) => Rivals(other, list[i])
    BY <1>1, <1>3, <1>6, ReplayRivals
  <1>8. \A k \in DOMAIN list : LiveOK(list[k])'
    BY <1>1, <1>3, AllLive
  <1>9. Fine(job)'
    <2>1. job.live => ui # NULL /\ old.at \in StepsOf[page] /\ Agrees(old)
      BY <1>4, <1>6 DEF LiveOK
    <2>2. page = "attack"
      BY <1>3, <1>4 DEF JobOK, StepsOf
    <2>3. job.live => LiveOK(job)'
      BY <1>3, <1>6, <2>1, <2>2 DEF LiveOK, Agrees, StepsOf
    <2>4. LiveOK(job)'
      BY <2>3 DEF LiveOK
    <2> QED BY <1>6, <2>4 DEF Fine
  <1>10. ScreenInv' /\ AuthOK'
    BY <1>3, ServerSame, ScreenGrows DEF IInv, AuthOK
  <1> QED BY <1>1, <1>3, <1>5, <1>7, <1>8, <1>9, <1>10, GoOnStep

\* One entry appended to a list of one.
LEMMA SecondAppended ==
    ASSUME NEW T, NEW s \in Seq(T), NEW len, Len(s) = len, NEW x \in T
    PROVE  len = 1 => Append(s, x) \in [1..2 -> T]
  <1>1. len \in Nat
    OBVIOUS
  <1>2. PICK t : t = Append(s, x)
    OBVIOUS
  <1>3. t \in Seq(T)
    BY <1>2
  <1>4. Len(t) = len + 1
    BY <1>1, <1>2
  <1>5. t \in [1..(len + 1) -> T]
    BY <1>3, <1>4
  <1>6. len = 1 => len + 1 = 2
    BY <1>1
  <1> QED BY <1>2, <1>5, <1>6

LEMMA FinishReplayStep ==
    ASSUME IInv, NEW i \in DOMAIN jobs, NEW reply, FinishReplay(i, reply)
    PROVE  IInv'
  <1>1. PICK list, new :
            /\ list = jobs
            /\ new = [ui EXCEPT !.replays = Append(ui.replays, reply # Failed), !.replay = "done"]
    OBVIOUS
  <1>2. /\ list[i].at = "replay" /\ ui' = Render(i, new) /\ jobs' = RemoveAt(list, i)
        /\ UNCHANGED <<scope, page, entries, auth, server>>
    BY <1>1 DEF FinishReplay, Read
  <1>3. ASSUME list[i].live = TRUE, page = "attack", ui # NULL, Agrees(list[i])
        PROVE  ScreenInv' /\ \A k \in DOMAIN list : k # i => LiveOK(list[k])'
    <2>1. ui \in AttackUi /\ ui' = new /\ Len(ui.replays) = 1
      BY <1>1, <1>2, <1>3, AttackShown DEF Render, Agrees
    <2>2. PICK replays : replays = Append(ui.replays, reply # Failed)
      OBVIOUS
    <2>3. replays \in UNION {[1..n -> BOOLEAN] : n \in 0..2}
      <3>1. PICK n \in 0..2 : \E s \in [1..n -> BOOLEAN] : s = ui.replays
        BY <2>1 DEF AttackUi
      <3> PICK s \in [1..n -> BOOLEAN] : s = ui.replays
        BY <3>1
      <3>2. PICK ok \in BOOLEAN : ok = (reply # Failed)
        OBVIOUS
      <3>3. s \in Seq(BOOLEAN) /\ Len(s) = 1
        BY <2>1
      <3>4. Append(s, ok) \in [1..2 -> BOOLEAN]
        BY <3>3, SecondAppended
      <3>5. replays = Append(s, ok) /\ 2 \in 0..2
        BY <2>2, <3>2
      <3> QED BY <3>4, <3>5
    <2>4. ui' \in AttackUi /\ ui'.running = ui.running /\ ui'.results = ui.results
      BY <1>1, <2>1, <2>2, <2>3 DEF AttackUi
    <2>5. ScreenInv' /\ ui' # NULL
      BY <1>2, <1>3, <2>4, AttackScreen
    <2>6. \A k \in DOMAIN list : k # i =>
              ~(list[k].live /\ list[k].at \in {"capture", "pause", "replay"})
      <3>1. {"capture", "pause", "replay"} \in Alone
        BY DEF Alone
      <3>2. PICK group \in Alone : group = {"capture", "pause", "replay"}
        BY <3>1
      <3> QED BY <1>1, <1>2, <1>3, <3>2, AttackAlone
    <2> QED BY <1>1, <1>2, <1>3, <2>4, <2>5, <2>6, AttackLive
  <1>4. list[i].at \in StepsOf["attack"] /\ "attack" \in Pages
    BY <1>2 DEF StepsOf, Pages
  <1> QED BY <1>1, <1>2, <1>3, <1>4, HandlerDone

LEMMA ResetReplayStep ==
    ASSUME IInv, ResetReplay
    PROVE  IInv'
  <1>1. /\ page = "attack" /\ ui # NULL /\ ui.replay = "done"
        /\ ui' = [ui EXCEPT !.replay = "idle", !.replays = <<>>]
        /\ UNCHANGED <<scope, page, entries, auth, jobs, server>>
    BY DEF ResetReplay, On
  <1>2. ui \in AttackUi
    BY <1>1, AttackShown
  <1>3. ui' \in AttackUi /\ ui'.running = ui.running /\ ui'.results = ui.results
    <2>1. <<>> \in [1..0 -> BOOLEAN]
      OBVIOUS
    <2>2. <<>> \in UNION {[1..n -> BOOLEAN] : n \in 0..2}
      BY <2>1
    <2> QED BY <1>1, <1>2, <2>2 DEF AttackUi
  <1>4. ScreenInv' /\ ui' # NULL
    BY <1>1, <1>3, AttackScreen
  <1>5. PICK list : list = jobs
    OBVIOUS
  <1>6. \A k \in DOMAIN list : LiveOK(list[k])'
    BY <1>1, <1>3, <1>4, <1>5, AttackAllLive
  <1> QED BY <1>1, <1>4, <1>5, <1>6, TalkStep

LEMMA DemoNextStep ==
    ASSUME IInv, DemoNext
    PROVE  IInv'
  BY MountDisputeStep, RevealReceiptStep, ResetDisputeStep, FollowToDashboardStep,
     MountAttackStep, SimulateFatigueStep, ResetFatigueStep, SimulateReplayStep,
     ResetReplayStep, MountPhishingStep, AttemptPhishStep, ResetPhishStep, PickRequestStep,
     ListResolvedStep, ServeReceiptStep, AttemptFatigueStep, ReplayTokenStep, FinishPhishStep,
     RefreshStep, FinishListStep, FinishReceiptStep, FinishCaptureStep, FinishReplayStep
     DEF DemoNext

-----------------------------------------------------------------------------
LEMMA DashboardShown ==
    ASSUME IInv, page = "dashboard", ui # NULL
    PROVE  ui \in DashboardUi /\ ListsTrue /\ ShowInv(ui.show)
  BY DEF IInv, ScreenInv, UiOf

LEMMA DashboardScreen ==
    ASSUME page = "dashboard", UNCHANGED page, ui' \in DashboardUi, ListsTrue', ShowInv(ui.show)'
    PROVE  ScreenInv' /\ ui' # NULL
  BY NullAssumption DEF ScreenInv, UiOf, Pages

\* The jobs of the dashboard look only at the votes that were acknowledged.
LEMMA DashboardLive ==
    ASSUME IInv, page = "dashboard", UNCHANGED page, ui' # NULL, ui'.quiet = ui.quiet,
           NEW list, list = jobs
    PROVE  \A k \in DOMAIN list : LiveOK(list[k])'
  <1>1. ASSUME NEW job, job.at \in StepsOf[page], Agrees(job) PROVE Agrees(job)'
    <2>1. job.at \in {"load", "revoke", "vote", "create", "banner"}
      BY <1>1 DEF StepsOf
    <2> QED BY <1>1, <2>1 DEF Agrees
  <1>2. DOMAIN list = 1..Len(list) /\ 0 \notin DOMAIN list
    <2>1. list \in Seq(ToSet(list))
      BY DEF IInv, JobsInv
    <2> QED BY <2>1
  <1>3. \A k \in DOMAIN list : k # 0 => LiveOK(list[k])'
    BY <1>1, LiveJobs
  <1> QED BY <1>2, <1>3

-----------------------------------------------------------------------------
\* JudgeMode's buttons and timers.
JudgeFields(j) ==
    j = [state |-> j.state, active |-> j.active, step |-> j.step, summary |-> j.summary,
         paused |-> j.paused, timers |-> j.timers, ref |-> j.ref]

LEMMA AdvanceKeeps ==
    ASSUME NEW j \in Judge, NEW k, j.timers = {}, j.state = "running", j.paused = FALSE,
           j.step = j.active, j.summary = FALSE, k = j.step + 1
    PROVE  AdvanceStep(j, k) \in Judge /\ JudgeInv(AdvanceStep(j, k))
  <1>0. JudgeFields(j) /\ j.step \in 0..8 /\ k \in 1..9
    BY DEF Judge, JudgeFields, DemoSteps
  <1>1. PICK new : new = AdvanceStep(j, k)
    OBVIOUS
  <1>2. CASE k > DemoSteps
    <2>1. new = [j EXCEPT !.summary = TRUE, !.state = "done"] /\ j.step = DemoSteps
      BY <1>0, <1>1, <1>2 DEF AdvanceStep, DemoSteps
    <2>2. /\ new.state = "done" /\ new.summary = TRUE /\ new.timers = {}
          /\ new.step = j.step /\ new.active = j.step
      BY <1>0, <2>1 DEF JudgeFields
    <2>3. new \in Judge
      BY <2>1 DEF Judge
    <2> QED BY <1>1, <2>1, <2>2, <2>3 DEF JudgeInv
  <1>3. CASE ~(k > DemoSteps)
    <2>1. new = [j EXCEPT !.step = k, !.active = k, !.timers = {k + 1}, !.ref = k + 1]
      BY <1>0, <1>1, <1>3 DEF AdvanceStep, SetTimer, JudgeFields
    <2>2. k \in 0..DemoSteps /\ k + 1 \in 0..DemoSteps + 1 /\ k + 1 \in 1..DemoSteps + 1
      BY <1>0, <1>3 DEF DemoSteps
    <2>3. /\ new.state = "running" /\ new.summary = FALSE /\ new.timers = {k + 1}
          /\ new.ref = k + 1 /\ new.step = k /\ new.active = k /\ new.paused = FALSE
      BY <1>0, <2>1 DEF JudgeFields
    <2>4. new \in Judge
      BY <2>1, <2>2 DEF Judge
    <2> QED BY <1>1, <2>3, <2>4 DEF JudgeInv
  <1> QED BY <1>2, <1>3

LEMMA JudgeKeeps ==
    ASSUME NEW j \in Judge, JudgeInv(j), JudgeNext(j)
    PROVE  \E new \in Judge : SetJudge(new) /\ JudgeInv(new)
  <1>0. JudgeFields(j) /\ j.step \in 0..DemoSteps
    BY DEF Judge, JudgeFields
  <1>1. ASSUME StartDemo(j) PROVE \E new \in Judge : SetJudge(new) /\ JudgeInv(new)
    <2>1. PICK new : new = [j EXCEPT !.timers = {1}, !.ref = 1, !.paused = FALSE,
                               !.state = "running", !.summary = FALSE, !.active = 0]
      OBVIOUS
    <2>2. j.timers = {} /\ j.step = 0
      BY <1>1 DEF StartDemo, JudgeInv
    <2>3. SetJudge(new)
      <3>1. SetTimer([ClearTimer(j) EXCEPT !.paused = FALSE, !.state = "running",
                          !.summary = FALSE, !.active = 0], 1) = new
        BY <1>0, <2>1, <2>2 DEF SetTimer, ClearTimer, JudgeFields
      <3> QED BY <1>1, <3>1 DEF StartDemo
    <2>4. new \in Judge
      <3>1. 0 \in 0..DemoSteps /\ 0 \in 0..DemoSteps + 1 /\ 1 \in 0..DemoSteps + 1
        BY DEF DemoSteps
      <3>2. 1 \in 1..DemoSteps + 1
        BY DEF DemoSteps
      <3> QED BY <2>1, <3>1, <3>2 DEF Judge
    <2>5. /\ new.state = "running" /\ new.summary = FALSE /\ new.timers = {1}
          /\ new.ref = 1 /\ new.step = 0 /\ new.active = 0 /\ new.paused = FALSE
      BY <1>0, <2>1, <2>2 DEF JudgeFields
    <2> QED BY <2>3, <2>4, <2>5 DEF JudgeInv
  <1>2. ASSUME PauseDemo(j) PROVE \E new \in Judge : SetJudge(new) /\ JudgeInv(new)
    <2>1. PICK new : new = [j EXCEPT !.timers = {}, !.ref = 0, !.paused = TRUE, !.state = "paused"]
      OBVIOUS
    <2>2. j.timers = {j.ref} /\ j.summary = FALSE /\ j.step = j.active
      BY <1>2 DEF PauseDemo, JudgeInv, Judge
    <2>3. SetJudge(new)
      <3>1. ClearTimer([j EXCEPT !.paused = TRUE, !.state = "paused"]) = new
        BY <1>0, <2>1, <2>2 DEF ClearTimer, JudgeFields
      <3> QED BY <1>2, <3>1 DEF PauseDemo
    <2>4. new \in Judge
      <3>1. 0 \in 0..DemoSteps /\ 0 \in 0..DemoSteps + 1 /\ 1 \in 0..DemoSteps + 1
        BY DEF DemoSteps
      <3>2. 1 \in 1..DemoSteps + 1
        BY DEF DemoSteps
      <3> QED BY <2>1, <3>1, <3>2 DEF Judge
    <2>5. /\ new.state = "paused" /\ new.summary = FALSE /\ new.timers = {}
          /\ new.step = j.step /\ new.active = j.active
      BY <1>0, <2>1, <2>2 DEF JudgeFields
    <2> QED BY <2>2, <2>3, <2>4, <2>5 DEF JudgeInv
  <1>3. ASSUME ResumeDemo(j) PROVE \E new \in Judge : SetJudge(new) /\ JudgeInv(new)
    <2>1. PICK back : back = [j EXCEPT !.paused = FALSE, !.state = "running"]
      OBVIOUS
    <2>2. j.timers = {} /\ j.summary = FALSE /\ j.step = j.active
      BY <1>3 DEF ResumeDemo, JudgeInv, Judge
    <2>3. /\ back \in Judge /\ back.timers = {} /\ back.state = "running" /\ back.paused = FALSE
          /\ back.step = j.step /\ back.active = j.step /\ back.summary = FALSE
      BY <1>0, <2>1, <2>2 DEF Judge, JudgeFields
    <2>4. PICK k : k = j.step + 1
      OBVIOUS
    <2>5. AdvanceStep(back, k) \in Judge /\ JudgeInv(AdvanceStep(back, k))
      BY <2>3, <2>4, AdvanceKeeps
    <2>6. SetJudge(AdvanceStep(back, k))
      BY <1>3, <2>1, <2>4 DEF ResumeDemo
    <2> QED BY <2>5, <2>6
  <1>4. ASSUME RestartDemo(j) PROVE \E new \in Judge : SetJudge(new) /\ JudgeInv(new)
    <2>1. PICK new : new = [j EXCEPT !.timers = {}, !.ref = 0, !.paused = FALSE, !.state = "idle",
                               !.active = 0, !.summary = FALSE, !.step = 0]
      OBVIOUS
    <2>2. j.timers \ {j.ref} = {}
      BY DEF JudgeInv
    <2>3. SetJudge(new)
      <3>1. [ClearTimer(j) EXCEPT !.paused = FALSE, !.state = "idle", !.active = 0,
                 !.summary = FALSE, !.step = 0] = new
        BY <1>0, <2>1, <2>2 DEF ClearTimer, JudgeFields
      <3> QED BY <1>4, <3>1 DEF RestartDemo
    <2>4. new \in Judge
      <3>1. 0 \in 0..DemoSteps /\ 0 \in 0..DemoSteps + 1 /\ 1 \in 0..DemoSteps + 1
        BY DEF DemoSteps
      <3>2. 1 \in 1..DemoSteps + 1
        BY DEF DemoSteps
      <3> QED BY <2>1, <3>1, <3>2 DEF Judge
    <2>5. /\ new.state = "idle" /\ new.summary = FALSE /\ new.timers = {}
          /\ new.step = 0 /\ new.active = 0
      BY <1>0, <2>1 DEF JudgeFields
    <2> QED BY <2>3, <2>4, <2>5 DEF JudgeInv
  <1>5. ASSUME NEW k \in j.timers, DemoTimer(j, k)
        PROVE  \E new \in Judge : SetJudge(new) /\ JudgeInv(new)
    <2>1. PICK fired : fired = [j EXCEPT !.timers = {}]
      OBVIOUS
    <2>2. /\ j.state = "running" /\ j.timers = {k} /\ k = j.step + 1 /\ j.paused = FALSE
          /\ j.step = j.active /\ j.summary = FALSE
      BY <1>5 DEF JudgeInv, Judge
    <2>3. /\ fired \in Judge /\ fired.timers = {} /\ fired.state = "running"
          /\ fired.paused = FALSE /\ fired.step = j.step /\ fired.active = j.step
          /\ fired.summary = FALSE
      BY <1>0, <2>1, <2>2 DEF Judge, JudgeFields
    <2>4. AdvanceStep(fired, k) \in Judge /\ JudgeInv(AdvanceStep(fired, k))
      BY <2>2, <2>3, AdvanceKeeps
    <2>5. SetJudge(AdvanceStep(fired, k))
      <3>1. [j EXCEPT !.timers = j.timers \ {k}] = fired
        BY <2>1, <2>2
      <3> QED BY <1>5, <2>2, <3>1 DEF DemoTimer
    <2> QED BY <2>4, <2>5
  <1> QED BY <1>1, <1>2, <1>3, <1>4, <1>5 DEF JudgeNext

-----------------------------------------------------------------------------
\* SimulationPanel's.
PanelFields(p) ==
    p = [scenario |-> p.scenario, state |-> p.state, revealed |-> p.revealed,
         score |-> p.score, decision |-> p.decision, timers |-> p.timers]

LEMMA SignalsKnown ==
    \A s \in DOMAIN Signals : Signals[s] \in Nat
  BY DEF Signals

LEMMA PanelParts ==
    ASSUME NEW p \in Panel
    PROVE  /\ PanelFields(p) /\ p.scenario \in DOMAIN Signals /\ p \in PanelOf(p.scenario)
           /\ p.timers \subseteq 1..Signals[p.scenario] + 2
  <1>1. PICK s \in DOMAIN Signals : p \in PanelOf(s)
    BY DEF Panel
  <1>2. p.scenario = s
    BY <1>1 DEF PanelOf
  <1> QED BY <1>1, <1>2 DEF PanelOf, PanelFields

LEMMA NewPanelOK ==
    ASSUME NEW s \in DOMAIN Signals
    PROVE  NewPanel(s) \in Panel /\ PanelInv(NewPanel(s)) /\ NewPanel(s) \in PanelOf(s)
  <1>1. Signals[s] \in Nat
    BY SignalsKnown
  <1>2. NewPanel(s) \in PanelOf(s)
    BY <1>1 DEF NewPanel, PanelOf
  <1> QED BY <1>2 DEF Panel, PanelInv, NewPanel

LEMMA PanelKeeps ==
    ASSUME NEW p \in Panel, PanelInv(p), PanelNext(p)
    PROVE  \E new \in Panel : SetPanel(new) /\ PanelInv(new)
  <1>0. PICK s \in DOMAIN Signals, n \in Nat : s = p.scenario /\ n = Signals[s]
    BY PanelParts, SignalsKnown
  <1>1. PanelFields(p) /\ p \in PanelOf(s) /\ p.timers \subseteq 1..(n + 2)
    BY <1>0, PanelParts
  <1>2. ASSUME NEW t \in DOMAIN Signals, SelectScenario(p, t)
        PROVE  \E new \in Panel : SetPanel(new) /\ PanelInv(new)
    BY <1>2, NewPanelOK DEF SelectScenario
  <1>3. ASSUME ResetSimulation(p) PROVE \E new \in Panel : SetPanel(new) /\ PanelInv(new)
    BY <1>0, <1>3, NewPanelOK DEF ResetSimulation
  <1>4. ASSUME RunSimulation(p) PROVE \E new \in Panel : SetPanel(new) /\ PanelInv(new)
    <2>1. PICK new : new = [NewPanel(s) EXCEPT !.state = "running", !.timers = 1..(n + 2)]
      OBVIOUS
    <2>2. SetPanel(new)
      BY <1>0, <1>4, <2>1 DEF RunSimulation
    <2>3. new = [scenario |-> s, state |-> "running", revealed |-> 0, score |-> FALSE,
                 decision |-> FALSE, timers |-> 1..(n + 2)]
      BY <2>1 DEF NewPanel
    <2>4. new \in PanelOf(s)
      BY <1>0, <2>3 DEF PanelOf
    <2>5. PanelInv(new)
      <3>1. /\ new.state = "running" /\ new.timers = 1..(n + 2)
            /\ Signals[new.scenario] = n
        BY <1>0, <2>3
      <3>2. 1 \in 1..(n + 2) /\ \A k \in 1..(n + 2) : k..(n + 2) \subseteq 1..(n + 2)
        BY <1>0
      <3> QED BY <3>1, <3>2 DEF PanelInv
    <2> QED BY <2>2, <2>4, <2>5 DEF Panel
  <1>5. ASSUME SimulationTimer(p) PROVE \E new \in Panel : SetPanel(new) /\ PanelInv(new)
    <2>1. p.timers # {} /\ p.state = "running"
      BY <1>5 DEF SimulationTimer, PanelInv
    <2>2. PICK least \in p.timers : \A m \in p.timers : least <= m
      <3>1. p.timers \in SUBSET Nat
        BY <1>0, <1>1
      <3> QED BY <2>1, <3>1, LeastNatural
    <2>3. PICK k : k = Min(p.timers)
      OBVIOUS
    <2>4. k \in p.timers /\ \A m \in p.timers : k <= m
      BY <2>2, <2>3 DEF Min
    <2>5. k \in 1..(n + 2) /\ k..(n + 2) \subseteq p.timers
      BY <1>0, <1>1, <2>4 DEF PanelInv
    <2>6. \A m \in p.timers \ {k} : m \in 1..(n + 2) /\ k < m /\ m..(n + 2) \subseteq p.timers \ {k}
      <3> SUFFICES ASSUME NEW m \in p.timers \ {k}
                   PROVE  m \in 1..(n + 2) /\ k < m /\ m..(n + 2) \subseteq p.timers \ {k}
        OBVIOUS
      <3>1. m \in 1..(n + 2) /\ k < m
        BY <1>0, <1>1, <2>4, <2>5
      <3>2. m..(n + 2) \subseteq p.timers
        BY <1>0 DEF PanelInv
      <3>3. k \notin m..(n + 2)
        BY <1>0, <2>5, <3>1
      <3> QED BY <3>1, <3>2, <3>3
    <2>7. PICK left : left = p.timers \ {k}
      OBVIOUS
    <2>8. left \in SUBSET (1..(n + 2))
      BY <1>1, <2>7
    <2>9. CASE k = n + 2
      <3>1. PICK new : new = [p EXCEPT !.timers = left, !.decision = TRUE, !.state = "done"]
        OBVIOUS
      <3>2. ~(k <= n) /\ k # n + 1
        BY <1>0, <2>9
      <3>3. SetPanel(new)
        BY <1>0, <1>1, <1>5, <2>3, <2>7, <2>9, <3>1, <3>2 DEF SimulationTimer, PanelFields
      <3>4. left = {}
        <4>1. \A m \in left : m \in 1..(n + 2) /\ n + 2 < m
          BY <2>6, <2>7, <2>9
        <4>2. \A m \in 1..(n + 2) : ~(n + 2 < m)
          BY <1>0
        <4> QED BY <4>1, <4>2
      <3>5. new \in PanelOf(s) /\ new.state = "done" /\ new.timers = {}
        BY <1>0, <1>1, <2>8, <3>1, <3>4 DEF PanelOf
      <3> QED BY <3>3, <3>5 DEF Panel, PanelInv
    <2>10. CASE k # n + 2
      <3>1. PICK new : new = IF k <= n THEN [p EXCEPT !.timers = left, !.revealed = k]
                             ELSE [p EXCEPT !.timers = left, !.score = TRUE]
        OBVIOUS
      <3>2. k <= n \/ (k = n + 1 /\ ~(k <= n))
        BY <1>0, <2>5, <2>10
      <3>3. SetPanel(new)
        <4>1. CASE k <= n
          BY <1>0, <1>1, <1>5, <2>3, <2>7, <3>1, <4>1 DEF SimulationTimer, PanelFields
        <4>2. CASE k = n + 1 /\ ~(k <= n)
          BY <1>0, <1>1, <1>5, <2>3, <2>7, <3>1, <4>2 DEF SimulationTimer, PanelFields
        <4> QED BY <3>2, <4>1, <4>2
      <3>4. new \in PanelOf(s)
        <4>1. k <= n => k \in 0..n
          BY <1>0, <2>5
        <4> QED BY <1>0, <1>1, <2>8, <3>1, <4>1 DEF PanelOf
      <3>5. new.state = "running" /\ new.timers = left /\ Signals[new.scenario] = n
        BY <1>0, <1>1, <2>1, <3>1 DEF PanelFields
      <3>6. n + 2 \in left
        <4>1. n + 2 \in k..(n + 2)
          BY <1>0, <2>5
        <4> QED BY <2>5, <2>7, <2>10, <4>1
      <3>7. PanelInv(new)
        BY <2>6, <2>7, <3>5, <3>6 DEF PanelInv
      <3> QED BY <3>3, <3>4, <3>7 DEF Panel
    <2> QED BY <2>9, <2>10
  <1> QED BY <1>2, <1>3, <1>4, <1>5 DEF PanelNext

-----------------------------------------------------------------------------
\* AdaptiveTrustEngine's.
LEMMA EngineKeeps ==
    ASSUME NEW e \in Engine, EngineInv(e), EngineNext(e)
    PROVE  \E new \in Engine : SetEngine(new) /\ EngineInv(new)
  <1>0. PICK n \in 0..2 : n = e.manual
    BY DEF Engine, MaxManual
  <1>1. ASSUME Reevaluate(e) PROVE \E new \in Engine : SetEngine(new) /\ EngineInv(new)
    <2>1. n + 1 \in 0..2 /\ n + 1 > 0
      BY <1>0, <1>1 DEF Reevaluate, MaxManual
    <2>2. PICK new : new = [e EXCEPT !.refreshing = TRUE, !.manual = n + 1]
      OBVIOUS
    <2>3. SetEngine(new)
      BY <1>0, <1>1, <2>2 DEF Reevaluate
    <2>4. new \in Engine /\ new.manual = n + 1
      BY <2>1, <2>2 DEF Engine, MaxManual
    <2> QED BY <2>1, <2>3, <2>4 DEF EngineInv
  <1>2. ASSUME NEW s \in TrustScenarios, SelectTrust(e, s)
        PROVE  \E new \in Engine : SetEngine(new) /\ EngineInv(new)
    <2>1. PICK new : new = [e EXCEPT !.scenario = s, !.refreshing = TRUE, !.auto = TRUE]
      OBVIOUS
    <2>2. SetEngine(new) /\ new \in Engine /\ new.auto = TRUE
      BY <1>2, <2>1 DEF SelectTrust, Engine
    <2> QED BY <2>2 DEF EngineInv
  <1>3. ASSUME Evaluated(e) PROVE \E new \in Engine : SetEngine(new) /\ EngineInv(new)
    <2>1. CASE e.auto /\ SetEngine([e EXCEPT !.refreshing = FALSE, !.auto = FALSE])
      <3>1. PICK new : new = [e EXCEPT !.refreshing = FALSE, !.auto = FALSE]
        OBVIOUS
      <3>2. new \in Engine /\ new.refreshing = FALSE
        BY <3>1 DEF Engine
      <3> QED BY <2>1, <3>1, <3>2 DEF EngineInv
    <2>2. CASE e.manual > 0 /\ SetEngine([e EXCEPT !.refreshing = FALSE, !.manual = @ - 1])
      <3>1. PICK new : new = [e EXCEPT !.refreshing = FALSE, !.manual = n - 1]
        OBVIOUS
      <3>2. n - 1 \in 0..2
        BY <1>0, <2>2
      <3>3. new \in Engine /\ new.refreshing = FALSE
        BY <3>1, <3>2 DEF Engine, MaxManual
      <3> QED BY <1>0, <2>2, <3>1, <3>3 DEF EngineInv
    <2> QED BY <1>3, <2>1, <2>2 DEF Evaluated
  <1> QED BY <1>1, <1>2, <1>3 DEF EngineNext

LEMMA ShowcaseStep ==
    ASSUME IInv, ShowcaseNext
    PROVE  IInv'
  <1>1. page = "dashboard" /\ ui # NULL /\ UNCHANGED <<scope, page, entries, auth, jobs, server>>
    BY DEF ShowcaseNext, Shown, On
  <1>2. ui \in DashboardUi /\ ListsTrue /\ ShowInv(ui.show)
    BY <1>1, DashboardShown
  <1>3. PICK show \in Show : show = ui.show
    BY <1>2 DEF DashboardUi
  <1>4. /\ show.judge \in Judge /\ show.panel \in Panel /\ show.engine \in Engine
        /\ show = [judge |-> show.judge, panel |-> show.panel, engine |-> show.engine]
    BY <1>3 DEF Show
  <1>5. JudgeInv(show.judge) /\ PanelInv(show.panel) /\ EngineInv(show.engine)
    BY <1>2, <1>3 DEF ShowInv
  <1>6. \E new \in Show : ui' = [ui EXCEPT !.show = new] /\ ShowInv(new)
    <2>1. CASE JudgeNext(show.judge)
      <3>1. PICK j \in Judge : SetJudge(j) /\ JudgeInv(j)
        BY <1>4, <1>5, <2>1, JudgeKeeps
      <3>2. PICK new : new = [show EXCEPT !.judge = j]
        OBVIOUS
      <3>3. new = [judge |-> j, panel |-> show.panel, engine |-> show.engine]
        BY <1>4, <3>2
      <3>4. ui' = [ui EXCEPT !.show = new]
        BY <1>2, <1>3, <3>1, <3>2 DEF SetJudge, DashboardUi
      <3>5. new \in Show
        BY <1>4, <3>1, <3>3 DEF Show
      <3>6. ShowInv(new)
        BY <1>5, <3>1, <3>3 DEF ShowInv
      <3> QED BY <3>4, <3>5, <3>6
    <2>2. CASE PanelNext(show.panel)
      <3>1. PICK p \in Panel : SetPanel(p) /\ PanelInv(p)
        BY <1>4, <1>5, <2>2, PanelKeeps
      <3>2. PICK new : new = [show EXCEPT !.panel = p]
        OBVIOUS
      <3>3. new = [judge |-> show.judge, panel |-> p, engine |-> show.engine]
        BY <1>4, <3>2
      <3>4. ui' = [ui EXCEPT !.show = new]
        BY <1>2, <1>3, <3>1, <3>2 DEF SetPanel, DashboardUi
      <3>5. new \in Show
        BY <1>4, <3>1, <3>3 DEF Show
      <3>6. ShowInv(new)
        BY <1>5, <3>1, <3>3 DEF ShowInv
      <3> QED BY <3>4, <3>5, <3>6
    <2>3. CASE EngineNext(show.engine)
      <3>1. PICK e \in Engine : SetEngine(e) /\ EngineInv(e)
        BY <1>4, <1>5, <2>3, EngineKeeps
      <3>2. PICK new : new = [show EXCEPT !.engine = e]
        OBVIOUS
      <3>3. new = [judge |-> show.judge, panel |-> show.panel, engine |-> e]
        BY <1>4, <3>2
      <3>4. ui' = [ui EXCEPT !.show = new]
        BY <1>2, <1>3, <3>1, <3>2 DEF SetEngine, DashboardUi
      <3>5. new \in Show
        BY <1>4, <3>1, <3>3 DEF Show
      <3>6. ShowInv(new)
        BY <1>5, <3>1, <3>3 DEF ShowInv
      <3> QED BY <3>4, <3>5, <3>6
    <2> QED BY <1>3, <2>1, <2>2, <2>3 DEF ShowcaseNext
  <1>7. PICK new \in Show : ui' = [ui EXCEPT !.show = new] /\ ShowInv(new)
    BY <1>6
  <1>8. /\ ui' \in DashboardUi /\ ui'.lists = ui.lists /\ ui'.quiet = ui.quiet
        /\ ui'.show = new
    BY <1>2, <1>7 DEF DashboardUi
  <1>9. ShowInv(ui.show)'
    BY <1>7, <1>8 DEF ShowInv, JudgeInv, PanelInv, EngineInv
  <1>10. ListsTrue'
    BY <1>1, <1>2, <1>8 DEF ListsTrue, Behind, Overtaken
  <1>11. ScreenInv' /\ ui' # NULL
    BY <1>1, <1>8, <1>9, <1>10, DashboardScreen
  <1>12. PICK list : list = jobs
    OBVIOUS
  <1>13. \A k \in DOMAIN list : LiveOK(list[k])'
    BY <1>1, <1>8, <1>11, <1>12, DashboardLive
  <1> QED BY <1>1, <1>11, <1>12, <1>13, TalkStep

-----------------------------------------------------------------------------
\* A handler of the dashboard ends; if the dashboard is still there, calls and banners
\* that are nobody's rivals follow.
LEMMA HandlerFollowed ==
    ASSUME IInv, NEW list, list = jobs, NEW i \in DOMAIN list, list[i].at \in StepsOf["dashboard"],
           NEW new, ui' = Render(i, new), UNCHANGED <<scope, page, entries, auth, server>>,
           NEW more, more \in Seq(ToSet(more)),
           \A k \in DOMAIN more : \A group \in Alone : more[k].at \notin group,
           jobs' = RemoveAt(list, i) \o (IF list[i].live THEN more ELSE <<>>),
           list[i].live = TRUE /\ page = "dashboard" /\ ui # NULL =>
               /\ ScreenInv' /\ \A k \in DOMAIN more : Fine(more[k])'
               /\ \A k \in DOMAIN list : k # i => LiveOK(list[k])'
    PROVE  IInv'
  <1>1. list[i].live \in BOOLEAN /\ LiveOK(list[i]) /\ page \in Pages /\ "dashboard" \in Pages
    BY JobAt DEF Pages
  <1>2. CASE list[i].live = FALSE
    <2>1. UNCHANGED ui
      BY <1>2 DEF Render
    <2>2. \A k \in DOMAIN list : LiveOK(list[k])'
      BY <2>1, AllLive
    <2>3. ScreenInv'
      BY <2>1, ServerSame, ScreenGrows DEF IInv
    <2>4. PICK none : none = <<>>
      OBVIOUS
    <2>5. none \in Seq(ToSet(none)) /\ DOMAIN none = {}
      BY <2>4
    <2>6. jobs' = RemoveAt(list, i) \o none
      BY <1>2, <2>4
    <2> QED BY <2>2, <2>3, <2>5, <2>6, DoneMoreStep
  <1>3. CASE list[i].live = TRUE
    <2>1. ui # NULL /\ list[i].at \in StepsOf[page]
      BY <1>1, <1>3 DEF LiveOK
    <2>2. page = "dashboard"
      BY <1>1, <2>1, WhoseStep
    <2>3. jobs' = RemoveAt(list, i) \o more
      BY <1>3
    <2> QED BY <1>3, <2>1, <2>2, <2>3, DoneMoreStep
  <1> QED BY <1>1, <1>2, <1>3

\* Calls that are nobody's rivals are added.
LEMMA CallsStep ==
    ASSUME IInv, UNCHANGED <<scope, page, entries, auth, server>>, ScreenInv',
           NEW list, list = jobs, \A k \in DOMAIN list : LiveOK(list[k])',
           NEW more, more \in Seq(ToSet(more)), \A k \in DOMAIN more : Fine(more[k])',
           \A k \in DOMAIN more : \A group \in Alone : more[k].at \notin group,
           jobs' = list \o more
    PROVE  IInv'
  <1>1. Good(list)'
    BY GoodSame DEF IInv
  <1>2. Good(list \o more)'
    BY <1>1, GoodJoined
  <1>3. PICK t : t = list \o more
    OBVIOUS
  <1>4. JobsInv'
    BY <1>2, <1>3, GoodNow
  <1>5. PlaceOK' /\ AuthOK' /\ ServerInv'
    BY DEF IInv, PlaceOK, AuthOK, ServerInv, ServerOK, Fresh
  <1> QED BY <1>4, <1>5 DEF IInv

\* What the dashboard calls, and the banner it takes down.
LEMMA LoadFine ==
    ASSUME PlaceOK, page = "dashboard", UNCHANGED page, ui' # NULL, NEW s \in Sections,
           NEW job, job = Load(s)
    PROVE  Fine(job)' /\ \A group \in Alone : job.at \notin group
  <1>1. /\ job = Call("load", s) /\ job.at = "load" /\ job.what = s /\ job.reply = NULL
        /\ "load" \in StepsOf[page]
    BY DEF Load, Call, StepsOf
  <1>2. Agrees(job)'
    BY <1>1 DEF Agrees
  <1>3. /\ LoadOK(job)' /\ ReceiptOK(job)' /\ LinkOK(job)' /\ RevokeOK(job)' /\ VoteOK(job)'
        /\ ReplayOK(job)'
    BY <1>1 DEF LoadOK, ReceiptOK, LinkOK, RevokeOK, VoteOK, ReplayOK
  <1>4. Fine(job)'
    BY <1>1, <1>2, <1>3, NewCall
  <1> QED BY <1>1, <1>4 DEF Alone

LEMMA BannerFine ==
    ASSUME PlaceOK, page = "dashboard", UNCHANGED page, ui' # NULL, NEW job, job = Banner
    PROVE  Fine(job)' /\ \A group \in Alone : job.at \notin group
  <1>1. /\ job = Call("banner", NULL) /\ job.at = "banner" /\ "banner" \in StepsOf[page]
    BY DEF Banner, Call, StepsOf
  <1>2. Agrees(job)'
    BY <1>1 DEF Agrees
  <1>3. /\ LoadOK(job)' /\ ReceiptOK(job)' /\ LinkOK(job)' /\ RevokeOK(job)' /\ VoteOK(job)'
        /\ ReplayOK(job)'
    BY <1>1 DEF LoadOK, ReceiptOK, LinkOK, RevokeOK, VoteOK, ReplayOK
  <1>4. Fine(job)'
    BY <1>1, <1>2, <1>3, NewCall
  <1> QED BY <1>1, <1>4 DEF Alone

LEMMA LoadsFine ==
    ASSUME PlaceOK, page = "dashboard", UNCHANGED page, ui' # NULL, NEW S \in SUBSET Sections,
           NEW more, more = Loads(S)
    PROVE  /\ more \in Seq(ToSet(more)) /\ \A k \in DOMAIN more : Fine(more[k])'
           /\ \A k \in DOMAIN more : \A group \in Alone : more[k].at \notin group
  <1>1. IsFiniteSet(S)
    <2>1. IsFiniteSet({} \cup {"sessions"})
      BY FS_EmptySet, FS_AddElement
    <2>2. IsFiniteSet(({} \cup {"sessions"}) \cup {"approvals"})
      BY <2>1, FS_AddElement
    <2>3. IsFiniteSet((({} \cup {"sessions"}) \cup {"approvals"}) \cup {"activity"})
      BY <2>2, FS_AddElement
    <2>4. IsFiniteSet(((({} \cup {"sessions"}) \cup {"approvals"}) \cup {"activity"})
                          \cup {"security"})
      BY <2>3, FS_AddElement
    <2>5. Sections = (({} \cup {"sessions"} \cup {"approvals"}) \cup {"activity"})
                          \cup {"security"}
      BY DEF Sections
    <2>6. IsFiniteSet(Sections)
      BY <2>4, <2>5
    <2> QED BY <2>6, FS_Subset
  <1>2. more \in Seq(ToSet(more)) /\ \A k \in DOMAIN more : \E s \in S : more[k] = Load(s)
    BY <1>1, LoadsAsk
  <1>3. ASSUME NEW k \in DOMAIN more
        PROVE  Fine(more[k])' /\ \A group \in Alone : more[k].at \notin group
    <2>1. PICK job : job = more[k]
      OBVIOUS
    <2>2. PICK s \in Sections : job = Load(s)
      BY <1>2, <2>1
    <2>3. Fine(job)' /\ \A group \in Alone : job.at \notin group
      BY <2>2, LoadFine
    <2> QED BY <2>1, <2>3
  <1> QED BY <1>2, <1>3

-----------------------------------------------------------------------------
\* The four lists.
LEMMA ListData ==
    ASSUME NEW S, NEW list \in ListOf(S)
    PROVE  list.status = "ok" => list.data \in S
  BY DEF ListOf, Loading, Broken, Loaded

LEMMA ListKinds ==
    ASSUME NEW lists \in Lists
    PROVE  /\ lists["sessions"] \in ListOf(Rows) /\ lists["approvals"] \in ListOf(SUBSET Requests)
           /\ lists["activity"] \in ListOf({TRUE}) /\ lists["security"] \in ListOf({TRUE})
           /\ lists = [sessions |-> lists["sessions"], approvals |-> lists["approvals"],
                       activity |-> lists["activity"], security |-> lists["security"]]
  BY DEF Lists

\* list can be the list of section s.
Fits(s, list) ==
    /\ s = "sessions"  => list \in ListOf(Rows)
    /\ s = "approvals" => list \in ListOf(SUBSET Requests)
    /\ s \in {"activity", "security"} => list \in ListOf({TRUE})

Put(lists, s, list) == [lists EXCEPT ![s] = list]

LEMMA ListPut ==
    ASSUME NEW lists \in Lists, NEW s \in Sections, NEW list, Fits(s, list)
    PROVE  /\ Put(lists, s, list) \in Lists /\ Put(lists, s, list)[s] = list
           /\ \A t \in Sections : t # s => Put(lists, s, list)[t] = lists[t]
  <1>0. PICK new : new = [lists EXCEPT ![s] = list] /\ new = Put(lists, s, list)
    BY DEF Put
  <1> SUFFICES new \in Lists /\ new[s] = list /\ \A t \in Sections : t # s => new[t] = lists[t]
    BY <1>0
  <1>1. CASE s = "sessions"
    <2>1. new = [lists EXCEPT !["sessions"] = list]
      BY <1>0, <1>1
    <2> QED BY <1>1, <2>1, ListKinds DEF Fits, Lists, Sections
  <1>2. CASE s = "approvals"
    <2>1. new = [lists EXCEPT !["approvals"] = list]
      BY <1>0, <1>2
    <2> QED BY <1>2, <2>1, ListKinds DEF Fits, Lists, Sections
  <1>3. CASE s = "activity"
    <2>1. new = [lists EXCEPT !["activity"] = list]
      BY <1>0, <1>3
    <2> QED BY <1>3, <2>1, ListKinds DEF Fits, Lists, Sections
  <1>4. CASE s = "security"
    <2>1. new = [lists EXCEPT !["security"] = list]
      BY <1>0, <1>4
    <2> QED BY <1>4, <2>1, ListKinds DEF Fits, Lists, Sections
  <1> QED BY <1>0, <1>1, <1>2, <1>3, <1>4 DEF Sections

LEMMA ReloadingLists ==
    ASSUME ui.lists \in Lists, NEW S
    PROVE  /\ Reloading(S) \in Lists
           /\ \A s \in Sections : Reloading(S)[s] = IF s \in S THEN Loading ELSE ui.lists[s]
  <1>1. \A s \in Sections : Reloading(S)[s] = IF s \in S THEN Loading ELSE ui.lists[s]
    BY DEF Reloading
  <1>2. PICK new : new = Reloading(S)
    OBVIOUS
  <1>3. new = [sessions |-> new["sessions"], approvals |-> new["approvals"],
               activity |-> new["activity"], security |-> new["security"]]
    BY <1>2 DEF Reloading, Sections
  <1>4. /\ new["sessions"] \in ListOf(Rows) /\ new["approvals"] \in ListOf(SUBSET Requests)
        /\ new["activity"] \in ListOf({TRUE}) /\ new["security"] \in ListOf({TRUE})
    BY <1>1, <1>2, ListKinds DEF Sections, ListOf
  <1>5. new \in Lists
    BY <1>3, <1>4 DEF Lists
  <1> QED BY <1>1, <1>2, <1>5

\* A list that is loading or broken claims nothing.
LEMMA ListsStay ==
    ASSUME ListsTrue, UNCHANGED server, ui'.quiet = ui.quiet,
           ui'.lists["sessions"] \in {Loading, Broken, ui.lists["sessions"]},
           ui'.lists["approvals"] \in {Loading, Broken, ui.lists["approvals"]}
    PROVE  ListsTrue'
  <1>1. Loading.status # "ok" /\ Broken.status # "ok"
    BY DEF Loading, Broken
  <1>2. \A r \in ui'.quiet \cap Quick : server'.requests[r] = "resolved"
    BY DEF ListsTrue
  <1>3. ASSUME ui'.lists["sessions"].status = "ok"
        PROVE  IsInjective(ui'.lists["sessions"].data) /\ Behind(ui.lists["sessions"].data)'
    <2>1. PICK data : data = ui'.lists["sessions"].data
      OBVIOUS
    <2>2. IsInjective(data) /\ Behind(data)
      <3>1. ui'.lists["sessions"] = ui.lists["sessions"]
        BY <1>1, <1>3
      <3> QED BY <1>3, <2>1, <3>1 DEF ListsTrue
    <2>3. Behind(data)'
      BY <2>2 DEF Behind, Overtaken
    <2> QED BY <2>1, <2>2, <2>3
  <1>4. ui'.lists["approvals"].status = "ok" =>
            ui'.lists["approvals"].data \cap ui'.quiet \cap Quick = {}
    BY <1>1 DEF ListsTrue
  <1> QED BY <1>2, <1>3, <1>4 DEF ListsTrue

\* The page is as it was but for its lists.
LEMMA DashboardChanged ==
    ASSUME IInv, page = "dashboard", ui # NULL, UNCHANGED page, ui' \in DashboardUi,
           ui'.show = ui.show, ListsTrue'
    PROVE  ScreenInv' /\ ui' # NULL
  <1>1. ShowInv(ui.show)'
    <2>1. PICK show : show = ui.show
      OBVIOUS
    <2>2. ShowInv(show)
      BY <2>1, DashboardShown
    <2> QED BY <2>1, <2>2
  <1> QED BY <1>1, DashboardScreen

-----------------------------------------------------------------------------
\* The lists the server gives.
LEMMA SessionListing ==
    ASSUME ServerInv, scope \in Scopes
    PROVE  SessionList \in Rows /\ IsInjective(SessionList) /\ Behind(SessionList)
  <1>1. SessionsOK
    BY ServerParts
  <1>2. PICK rows \in Seq(Families) : rows = server.rows /\ IsInjective(rows)
    BY <1>1 DEF SessionsOK
  <1>3. PICK list : list = Kept(rows, server.live)
    OBVIOUS
  <1>4. /\ list \in Seq(Families) /\ IsInjective(list)
        /\ \A k \in DOMAIN list : k # 1 => \E j \in DOMAIN rows : j # 1 /\ list[k] = rows[j]
    BY <1>2, <1>3, KeptList
  <1>5. list \in Rows
    BY <1>4, DistinctRows
  <1>6. Behind(list)
    <2>1. ASSUME NEW j \in DOMAIN rows, j # 1 PROVE Overtaken(rows[j])
      <3>1. 1 \in DOMAIN rows
        BY <2>1, <1>2
      <3>2. rows[1] # rows[j]
        BY <2>1, <3>1, <1>2 DEF IsInjective
      <3> QED BY <1>2, <3>2 DEF Overtaken, ToSet
    <2> QED BY <1>4, <2>1 DEF Behind
  <1>7. SessionList = list
    BY <1>2, <1>3 DEF SessionList
  <1> QED BY <1>4, <1>5, <1>6, <1>7

LEMMA ServeListStep ==
    ASSUME IInv, NEW i \in DOMAIN jobs, ServeList(i)
    PROVE  IInv'
  <1>1. PICK s, reply : s = jobs[i].what /\ reply = Content(s)
    OBVIOUS
  <1>2. jobs[i].at = "load" /\ Answer(i, reply, server)
    BY <1>1 DEF ServeList, Waiting
  <1>3. s \in Sections /\ ServerInv /\ scope \in Scopes
    BY <1>1, <1>2, JobAt DEF JobOK, LoadOK, IInv, PlaceOK
  <1>4. UNCHANGED <<scope, server>>
    BY <1>2 DEF Answer
  <1>5. ServerInv' /\ Grows
    BY <1>4, ServerSame
  <1>6. PICK job : job = [jobs[i] EXCEPT !.reply = reply]
    OBVIOUS
  <1>7. job.at = "load" /\ job.reply = reply /\ job.what = s /\ job.live = jobs[i].live
    BY <1>1, <1>2, <1>6, JobAt
  <1>8. Listing(s, reply)'
    <2>1. CASE s = "sessions"
      <3>1. reply = SessionList
        BY <1>1, <2>1 DEF Content
      <3>2. reply \in Rows /\ IsInjective(reply) /\ Behind(reply)
        BY <1>3, <3>1, SessionListing
      <3> QED BY <1>4, <2>1, <3>2 DEF Listing, Behind, Overtaken
    <2>2. CASE s = "approvals"
      BY <1>1, <2>2 DEF Content, Listing, With
    <2>3. CASE s \in {"activity", "security"}
      BY <1>1, <2>3 DEF Content, Listing
    <2> QED BY <1>3, <2>1, <2>2, <2>3 DEF Sections
  <1>9. ASSUME job.live PROVE Agrees(job)
    <2>1. jobs[i].live /\ LiveOK(jobs[i]) /\ page \in Pages
      BY <1>7, <1>9, JobAt
    <2>2. ui # NULL /\ jobs[i].at \in StepsOf[page]
      BY <2>1 DEF LiveOK
    <2>3. page = "dashboard"
      <3>1. jobs[i].at \in StepsOf["dashboard"] /\ "dashboard" \in Pages
        BY <1>2 DEF StepsOf, Pages
      <3> QED BY <2>1, <2>2, <3>1, WhoseStep
    <2>4. ListsTrue
      BY <2>2, <2>3, DashboardShown
    <2>5. s = "approvals" => reply \cap ui.quiet \cap Quick = {}
      <3>1. s = "approvals" => reply = With("pending")
        BY <1>1 DEF Content
      <3>2. \A r \in ui.quiet \cap Quick : r \notin With("pending")
        BY <2>4 DEF ListsTrue, With
      <3> QED BY <3>1, <3>2
    <2> QED BY <1>7, <2>5 DEF Agrees
  <1>10. /\ LoadOK(job)' /\ ListOK(job)' /\ ReceiptOK(job)' /\ LinkOK(job)' /\ VoteOK(job)'
         /\ ReplayOK(job)'
    BY <1>3, <1>7, <1>8 DEF LoadOK, ListOK, ReceiptOK, LinkOK, VoteOK, ReplayOK
  <1> QED BY <1>2, <1>5, <1>6, <1>9, <1>10, ServedStep

-----------------------------------------------------------------------------
\* The dashboard goes on, with one call more.
LEMMA DashboardCall ==
    ASSUME IInv, page = "dashboard", ui # NULL, UNCHANGED <<scope, page, entries, auth, server>>,
           ui' \in DashboardUi, ui'.show = ui.show, ui'.quiet = ui.quiet, ListsTrue',
           NEW at \in {"load", "revoke", "vote", "create"}, NEW what,
           at = "load" => what \in Sections,
           at = "revoke" => what \in Families /\ Overtaken(what),
           at = "vote" => what \in Requests,
           jobs' = Append(jobs, Call(at, what))
    PROVE  IInv'
  <1>1. ScreenInv' /\ ui' # NULL
    BY DashboardChanged
  <1>2. PICK list : list = jobs
    OBVIOUS
  <1>3. \A k \in DOMAIN list : LiveOK(list[k])'
    BY <1>1, <1>2, DashboardLive
  <1>4. PICK job : job = Call(at, what)
    OBVIOUS
  <1>5. job.at = at /\ job.what = what /\ job.reply = NULL /\ at \in StepsOf[page]
    BY <1>4 DEF Call, StepsOf
  <1>6. Agrees(job)'
    BY <1>5 DEF Agrees
  <1>7. RevokeOK(job)'
    BY <1>5 DEF RevokeOK, Overtaken
  <1>8. LoadOK(job)' /\ ReceiptOK(job)' /\ LinkOK(job)' /\ VoteOK(job)' /\ ReplayOK(job)'
    BY <1>5 DEF LoadOK, ReceiptOK, LinkOK, VoteOK, ReplayOK
  <1>9. Fine(job)'
    BY <1>1, <1>4, <1>5, <1>6, <1>7, <1>8, NewCall DEF IInv
  <1>10. \A k \in DOMAIN list : ~Rivals(list[k], job) /\ ~Rivals(job, list[k])
    BY <1>5 DEF Rivals, Alone
  <1>11. jobs' = Append(list, job)
    BY <1>2, <1>4
  <1> QED BY <1>1, <1>2, <1>3, <1>9, <1>10, <1>11, CallStep

LEMMA RetryStep ==
    ASSUME IInv, NEW s \in scope.sections, Retry(s)
    PROVE  IInv'
  <1>1. /\ page = "dashboard" /\ ui # NULL /\ UNCHANGED <<scope, page, entries, auth, server>>
        /\ jobs' = Append(jobs, Call("load", s))
    BY DEF Retry, On, Load
  <1>2. ui \in DashboardUi /\ ListsTrue
    BY <1>1, DashboardShown
  <1>3. PICK lists : lists = Reloading({s})
    OBVIOUS
  <1>4. ui' = [ui EXCEPT !.lists = lists]
    BY <1>3 DEF Retry
  <1>5. /\ lists \in Lists
        /\ \A t \in Sections : lists[t] = IF t \in {s} THEN Loading ELSE ui.lists[t]
    BY <1>2, <1>3, ReloadingLists DEF DashboardUi
  <1>6. /\ ui' \in DashboardUi /\ ui'.show = ui.show /\ ui'.quiet = ui.quiet
        /\ ui'.lists = lists
    BY <1>2, <1>4, <1>5 DEF DashboardUi
  <1>7. ListsTrue'
    <2>1. /\ lists["sessions"] \in {Loading, Broken, ui.lists["sessions"]}
          /\ lists["approvals"] \in {Loading, Broken, ui.lists["approvals"]}
      BY <1>5 DEF Sections
    <2> QED BY <1>1, <1>2, <1>6, <2>1, ListsStay
  <1>8. s \in Sections
    BY ScopeTypes DEF IInv, PlaceOK
  <1> QED BY <1>1, <1>6, <1>7, <1>8, DashboardCall

LEMMA RevokeStep ==
    ASSUME IInv, NEW f \in Families, Revoke(f)
    PROVE  IInv'
  <1>1. /\ page = "dashboard" /\ ui # NULL /\ UNCHANGED <<scope, page, entries, auth, server>>
        /\ jobs' = Append(jobs, Call("revoke", f))
    BY DEF Revoke, Shows, On
  <1>2. ui \in DashboardUi /\ ListsTrue
    BY <1>1, DashboardShown
  <1>3. /\ ui' \in DashboardUi /\ ui'.show = ui.show /\ ui'.quiet = ui.quiet
        /\ ui'.lists = ui.lists
    BY <1>2 DEF Revoke, DashboardUi
  <1>4. ListsTrue'
    BY <1>1, <1>2, <1>3, ListsStay
  <1>5. Overtaken(f)
    BY <1>2 DEF Revoke, Shows, Revocable, ListsTrue, Behind
  <1> QED BY <1>1, <1>3, <1>4, <1>5, DashboardCall

LEMMA VoteStep ==
    ASSUME IInv, NEW r \in Requests, Vote(r)
    PROVE  IInv'
  <1>1. /\ page = "dashboard" /\ ui # NULL /\ UNCHANGED <<scope, page, entries, auth, server>>
        /\ jobs' = Append(jobs, Call("vote", r))
    BY DEF Vote, Offered, Shows, On
  <1>2. ui \in DashboardUi /\ ListsTrue
    BY <1>1, DashboardShown
  <1>3. /\ ui' \in DashboardUi /\ ui'.show = ui.show /\ ui'.quiet = ui.quiet
        /\ ui'.lists = ui.lists
    BY <1>2 DEF Vote, DashboardUi
  <1>4. ListsTrue'
    BY <1>1, <1>2, <1>3, ListsStay
  <1> QED BY <1>1, <1>3, <1>4, DashboardCall

LEMMA CreateDemoStep ==
    ASSUME IInv, CreateDemo
    PROVE  IInv'
  <1>1. /\ page = "dashboard" /\ ui # NULL /\ UNCHANGED <<scope, page, entries, auth, server>>
        /\ \E what : jobs' = Append(jobs, Call("create", what))
    BY DEF CreateDemo, On
  <1>2. ui \in DashboardUi /\ ListsTrue
    BY <1>1, DashboardShown
  <1>3. /\ ui' \in DashboardUi /\ ui'.show = ui.show /\ ui'.quiet = ui.quiet
        /\ ui'.lists = ui.lists
    BY <1>2 DEF CreateDemo, DashboardUi
  <1>4. ListsTrue'
    BY <1>1, <1>2, <1>3, ListsStay
  <1> QED BY <1>1, <1>3, <1>4, DashboardCall

LEMMA SignOutStep ==
    ASSUME IInv, SignOut
    PROVE  IInv'
  <1>1. /\ page = "dashboard" /\ Navigate("login", jobs) /\ UNCHANGED <<scope, server>>
        /\ auth' = [memory |-> NULL, storage |-> NULL]
    BY DEF SignOut, On, ClearTokens
  <1>2. Good(jobs)
    BY JobsAreGood DEF IInv
  <1>3. "login" \in Pages \ {"attack"} /\ AuthOK'
    BY <1>1 DEF Pages, AuthOK
  <1>4. PICK list : list = jobs
    OBVIOUS
  <1> QED BY <1>1, <1>2, <1>3, <1>4, LeaveStep

LEMMA FollowToDisputeStep ==
    ASSUME IInv, FollowToDispute
    PROVE  IInv'
  <1>1. /\ page = "dashboard" /\ Navigate("dispute", jobs) /\ UNCHANGED <<scope, auth, server>>
    BY DEF FollowToDispute, On
  <1>2. Good(jobs)
    BY JobsAreGood DEF IInv
  <1>3. "dispute" \in Pages \ {"attack"} /\ AuthOK'
    BY <1>1 DEF Pages, IInv, AuthOK
  <1>4. PICK list : list = jobs
    OBVIOUS
  <1> QED BY <1>1, <1>2, <1>3, <1>4, LeaveStep

\* The component mounts, or finds another token.
LEMMA RunEffectStep ==
    ASSUME IInv, RunEffect
    PROVE  IInv'
  <1>1. page = "dashboard" /\ UNCHANGED <<scope, auth, server>> /\ PlaceOK
    BY DEF RunEffect, IInv
  <1>2. PICK list, more : list = jobs /\ more = Loads(scope.sections)
    OBVIOUS
  <1>3. CASE auth.memory = NULL
    <2>1. Navigate("login", list)
      BY <1>2, <1>3 DEF RunEffect
    <2>2. Good(list)
      BY <1>2, JobsAreGood DEF IInv
    <2>3. "login" \in Pages \ {"attack"} /\ AuthOK'
      BY <1>1 DEF Pages, IInv, AuthOK
    <2> QED BY <1>1, <2>1, <2>2, <2>3, LeaveStep
  <1>4. CASE auth.memory # NULL
    <2>1. UNCHANGED <<page, entries>> /\ jobs' = list \o more
      BY <1>2, <1>4 DEF RunEffect
    <2>2. auth.memory \in Token
      BY <1>4 DEF IInv, AuthOK
    <2>3. scope.sections \in SUBSET Sections
      BY ScopeTypes DEF IInv, PlaceOK
    <2>4. ScreenInv' /\ ui' # NULL /\ \A k \in DOMAIN list : LiveOK(list[k])'
      <3>1. CASE ui = NULL
        <4>1. PICK lists : lists = [s \in Sections |-> Loading]
          OBVIOUS
        <4>2. ui' = [token |-> auth.memory, lists |-> lists, revoking |-> NULL, voting |-> NULL,
                     demo |-> "idle", error |-> FALSE, quiet |-> {}, show |-> NewShow]
          BY <1>4, <3>1, <4>1 DEF RunEffect
        <4>3. lists \in Lists /\ lists["sessions"] = Loading /\ lists["approvals"] = Loading
          BY <4>1 DEF Lists, Sections, ListOf
        <4>4. NewShow \in Show /\ ShowInv(NewShow)
          <5>1. "phishing" \in DOMAIN Signals
            BY DEF Signals
          <5>2. PICK panel \in Panel : panel = NewPanel("phishing") /\ PanelInv(panel)
            BY <5>1, NewPanelOK
          <5>3. NewShow.panel = panel
            BY <5>2 DEF NewShow
          <5>4. NewShow.judge \in Judge /\ JudgeInv(NewShow.judge)
            <6>1. 0 \in 0..DemoSteps /\ 0 \in 0..DemoSteps + 1
              BY DEF DemoSteps
            <6> QED BY <6>1 DEF NewShow, Judge, JudgeInv
          <5>5. NewShow.engine \in Engine /\ EngineInv(NewShow.engine)
            BY DEF NewShow, Engine, EngineInv, TrustScenarios, MaxManual
          <5>6. NewShow = [judge |-> NewShow.judge, panel |-> NewShow.panel,
                           engine |-> NewShow.engine]
            BY DEF NewShow
          <5> QED BY <5>2, <5>3, <5>4, <5>5, <5>6 DEF Show, ShowInv
        <4>5. ui' \in DashboardUi
          BY <2>2, <4>2, <4>3, <4>4 DEF DashboardUi
        <4>6. ListsTrue'
          BY <4>2, <4>3 DEF ListsTrue, Loading
        <4>7. ShowInv(ui.show)'
          BY <4>2, <4>4
        <4>8. ScreenInv' /\ ui' # NULL
          BY <1>1, <2>1, <4>5, <4>6, <4>7, DashboardScreen
        <4> QED BY <1>2, <2>1, <3>1, <4>8, Unmounted
      <3>2. CASE ui # NULL
        <4>1. ui \in DashboardUi /\ ListsTrue
          BY <1>1, <3>2, DashboardShown
        <4>2. PICK lists : lists = Reloading(scope.sections)
          OBVIOUS
        <4>3. ui' = [ui EXCEPT !.token = auth.memory, !.lists = lists]
          BY <1>4, <3>2, <4>2 DEF RunEffect
        <4>4. /\ lists \in Lists
              /\ \A t \in Sections : lists[t] = IF t \in scope.sections THEN Loading ELSE ui.lists[t]
          BY <4>1, <4>2, ReloadingLists DEF DashboardUi
        <4>5. /\ ui' \in DashboardUi /\ ui'.show = ui.show /\ ui'.quiet = ui.quiet
              /\ ui'.lists = lists
          BY <2>2, <4>1, <4>3, <4>4 DEF DashboardUi
        <4>6. /\ lists["sessions"] \in {Loading, Broken, ui.lists["sessions"]}
              /\ lists["approvals"] \in {Loading, Broken, ui.lists["approvals"]}
          BY <4>4 DEF Sections
        <4>7. ListsTrue'
          BY <1>1, <4>1, <4>5, <4>6, ListsStay
        <4>8. ScreenInv' /\ ui' # NULL
          BY <1>1, <2>1, <3>2, <4>5, <4>7, DashboardChanged
        <4> QED BY <1>1, <1>2, <2>1, <4>5, <4>8, DashboardLive
      <3> QED BY <3>1, <3>2
    <2>5. /\ more \in Seq(ToSet(more)) /\ \A k \in DOMAIN more : Fine(more[k])'
          /\ \A k \in DOMAIN more : \A group \in Alone : more[k].at \notin group
      BY <1>1, <1>2, <2>1, <2>3, <2>4, LoadsFine
    <2> QED BY <1>1, <1>2, <2>1, <2>4, <2>5, CallsStep
  <1> QED BY <1>3, <1>4

-----------------------------------------------------------------------------
\* What the lists have to be true to, once one of them was put.
LEMMA ListsHold ==
    ASSUME UNCHANGED server, NEW lists, ui'.lists = lists, NEW quiet, ui'.quiet = quiet,
           lists["sessions"].status = "ok" =>
               IsInjective(lists["sessions"].data) /\ Behind(lists["sessions"].data),
           lists["approvals"].status = "ok" => lists["approvals"].data \cap quiet \cap Quick = {},
           \A r \in quiet \cap Quick : server.requests[r] = "resolved"
    PROVE  ListsTrue'
  <1>1. ASSUME lists["sessions"].status = "ok" PROVE Behind(ui.lists["sessions"].data)'
    <2>1. PICK data : data = lists["sessions"].data
      OBVIOUS
    <2>2. Behind(data)'
      BY <1>1, <2>1 DEF Behind, Overtaken
    <2> QED BY <2>1, <2>2
  <1> QED BY <1>1 DEF ListsTrue

\* A list without one of its entries.
LEMMA SessionsWithout ==
    ASSUME ui.lists \in Lists, ListsTrue, NEW f, NEW list, list = Without("sessions", f)
    PROVE  /\ list \in ListOf(Rows)
           /\ list.status = "ok" => IsInjective(list.data) /\ Behind(list.data)
  <1>1. PICK old \in ListOf(Rows) : old = ui.lists["sessions"]
    BY ListKinds
  <1>2. CASE old.status # "ok"
    BY <1>1, <1>2 DEF Without
  <1>3. CASE old.status = "ok"
    <2>1. old.data \in Seq(Families)
      BY <1>3, ListData, RowsAreSeq
    <2>2. PICK rows \in Seq(Families) : rows = old.data /\ IsInjective(rows) /\ Behind(rows)
      BY <1>1, <1>3, <2>1 DEF ListsTrue
    <2>3. PICK others, rest : others = Families \ {f} /\ rest = Kept(rows, others)
      OBVIOUS
    <2>4. /\ rest \in Seq(Families) /\ IsInjective(rest)
          /\ \A k \in DOMAIN rest : k # 1 => \E j \in DOMAIN rows : j # 1 /\ rest[k] = rows[j]
      <3>1. IsInjective(rows) /\ rest = Kept(rows, others)
        BY <2>2, <2>3
      <3> QED BY <3>1, KeptList
    <2>5. rest \in Rows /\ Behind(rest)
      BY <2>2, <2>4, DistinctRows DEF Behind
    <2>6. list = Loaded(rest)
      BY <1>1, <1>3, <2>2, <2>3 DEF Without
    <2> QED BY <2>4, <2>5, <2>6 DEF Loaded, ListOf
  <1> QED BY <1>2, <1>3

LEMMA ApprovalsWithout ==
    ASSUME ui.lists \in Lists, ListsTrue, NEW r, NEW list, list = Without("approvals", r)
    PROVE  /\ list \in ListOf(SUBSET Requests)
           /\ list.status = "ok" => list.data \cap (ui.quiet \cup {r}) \cap Quick = {}
  <1>1. PICK old \in ListOf(SUBSET Requests) : old = ui.lists["approvals"]
    BY ListKinds
  <1>2. CASE old.status # "ok"
    BY <1>1, <1>2 DEF Without
  <1>3. CASE old.status = "ok"
    <2>1. PICK open \in SUBSET Requests : open = old.data
      BY <1>3, ListData
    <2>2. open \cap ui.quiet \cap Quick = {}
      BY <1>1, <1>3, <2>1 DEF ListsTrue
    <2>3. list = Loaded(open \ {r})
      BY <1>1, <1>3, <2>1 DEF Without
    <2> QED BY <2>1, <2>2, <2>3 DEF Loaded, ListOf
  <1> QED BY <1>2, <1>3

LEMMA FinishLoadStep ==
    ASSUME IInv, NEW i \in DOMAIN jobs, NEW reply, FinishLoad(i, reply)
    PROVE  IInv'
  <1>1. PICK list, s, got, new :
            /\ list = jobs /\ s = list[i].what
            /\ got = IF reply = Failed THEN Broken ELSE Loaded(reply)
            /\ new = [ui EXCEPT !.lists[s] = got]
    OBVIOUS
  <1>2. /\ list[i].at = "load" /\ reply \in {list[i].reply, Failed} /\ reply # NULL
        /\ ui' = Render(i, new) /\ jobs' = RemoveAt(list, i)
        /\ UNCHANGED <<scope, page, entries, auth, server>>
    BY <1>1 DEF FinishLoad, Read
  <1>3. s \in Sections /\ (reply = Failed \/ (reply = list[i].reply /\ Listing(s, reply)))
    BY <1>1, <1>2, JobAt DEF JobOK, LoadOK
  <1>4. Fits(s, got)
    BY <1>1, <1>3 DEF Fits, ListOf, Listing
  <1>5. got.status = "ok" => reply = list[i].reply /\ got.data = reply /\ Listing(s, reply)
    BY <1>1, <1>3 DEF Loaded, Broken
  <1>6. ASSUME list[i].live = TRUE, page = "dashboard", ui # NULL, Agrees(list[i])
        PROVE  ScreenInv' /\ \A k \in DOMAIN list : k # i => LiveOK(list[k])'
    <2>1. ui \in DashboardUi /\ ListsTrue
      BY <1>6, DashboardShown
    <2>2. PICK lists : lists = [ui.lists EXCEPT ![s] = got]
      OBVIOUS
    <2>3. lists \in Lists /\ lists[s] = got /\ \A t \in Sections : t # s => lists[t] = ui.lists[t]
      <3>1. PICK held \in Lists : held = ui.lists
        BY <2>1 DEF DashboardUi
      <3>2. lists = Put(held, s, got) /\ s \in Sections
        BY <1>3, <2>2, <3>1 DEF Put
      <3>3. lists \in Lists /\ lists[s] = got /\ \A t \in Sections : t # s => lists[t] = held[t]
        BY <1>4, <3>2, ListPut
      <3> QED BY <3>1, <3>3
    <2>4. ui' = [ui EXCEPT !.lists = lists]
      BY <1>1, <1>2, <1>6, <2>1, <2>2 DEF Render, DashboardUi
    <2>5. /\ ui' \in DashboardUi /\ ui'.show = ui.show /\ ui'.quiet = ui.quiet
          /\ ui'.lists = lists
      BY <2>1, <2>3, <2>4 DEF DashboardUi
    <2>6. lists["sessions"].status = "ok" =>
              IsInjective(lists["sessions"].data) /\ Behind(lists["sessions"].data)
      BY <1>5, <2>1, <2>3 DEF Listing, ListsTrue, Sections
    <2>7. lists["approvals"].status = "ok" =>
              lists["approvals"].data \cap ui.quiet \cap Quick = {}
      <3>1. CASE s = "approvals"
        BY <1>1, <1>2, <1>5, <1>6, <2>3, <3>1 DEF Agrees
      <3>2. CASE s # "approvals"
        BY <2>1, <2>3, <3>2 DEF ListsTrue, Sections
      <3> QED BY <3>1, <3>2
    <2>8. \A r \in ui.quiet \cap Quick : server.requests[r] = "resolved"
      BY <2>1 DEF ListsTrue
    <2>9. ListsTrue'
      <3>1. PICK quiet : quiet = ui.quiet
        OBVIOUS
      <3> QED BY <1>2, <2>5, <2>6, <2>7, <2>8, <3>1, ListsHold
    <2>10. ScreenInv' /\ ui' # NULL
      BY <1>2, <1>6, <2>5, <2>9, DashboardChanged
    <2> QED BY <1>1, <1>2, <1>6, <2>5, <2>10, DashboardLive
  <1>7. list[i].at \in StepsOf["dashboard"] /\ "dashboard" \in Pages
    BY <1>2 DEF StepsOf, Pages
  <1> QED BY <1>1, <1>2, <1>6, <1>7, HandlerDone

LEMMA DeleteSessionStep ==
    ASSUME IInv, NEW i \in DOMAIN jobs, DeleteSession(i)
    PROVE  IInv'
  <1>1. PICK f : f = jobs[i].what
    OBVIOUS
  <1>2. jobs[i].at = "revoke" /\ Answer(i, TRUE, Revoked(f))
    BY <1>1 DEF DeleteSession, Waiting
  <1>3. UNCHANGED scope /\ server' = Revoked(f) /\ scope \in Scopes /\ ServerInv
    BY <1>2, AccountNow DEF Answer
  <1>4. ServerInv' /\ Grows
    BY <1>3, RevokedStep
  <1>5. PICK now : now = Revoked(f)
    OBVIOUS
  <1> QED BY <1>2, <1>4, <1>5, PlainAnswer

LEMMA CastVoteStep ==
    ASSUME IInv, NEW i \in DOMAIN jobs, CastVote(i)
    PROVE  IInv'
  <1>1. PICK r : r = jobs[i].what
    OBVIOUS
  <1>2. jobs[i].at = "vote" /\ r \in Requests
    BY <1>1, JobAt DEF CastVote, Waiting, JobOK, VoteOK
  <1>3. PICK state, requests :
            /\ state = IF r \in Quick THEN "resolved" ELSE server.requests[r]
            /\ requests = [server.requests EXCEPT ![r] = state]
    OBVIOUS
  <1>4. Answer(i, TRUE, [server EXCEPT !.voted = server.voted \cup {r}, !.requests = requests])
    <2>1. server.requests \in [Requests -> {"none", "pending", "resolved"}] /\ IsServer
      BY AccountNow DEF AccountOK
    <2>2. [server EXCEPT !.voted = @ \cup {r},
                         !.requests[r] = IF r \in Quick THEN "resolved" ELSE @]
              = [server EXCEPT !.voted = server.voted \cup {r}, !.requests = requests]
      BY <1>3, <2>1 DEF IsServer
    <2> QED BY <1>1, <2>2 DEF CastVote
  <1>5. /\ requests \in [Requests -> {"none", "pending", "resolved"}] /\ requests[r] = state
        /\ \A q \in Requests : server.requests[q] = "resolved" => requests[q] = "resolved"
    BY <1>2, <1>3, AccountNow DEF AccountOK
  <1>6. ServerInv' /\ Grows /\ server'.requests = requests
    <2>1. /\ server' = [rows |-> server.rows, live |-> server.live,
                        generation |-> server.generation, requests |-> requests,
                        voted |-> server.voted \cup {r}, passkeys |-> server.passkeys,
                        secret |-> server.secret, enabled |-> server.enabled]
          /\ UNCHANGED scope
      BY <1>4, AccountNow DEF Answer, IsServer
    <2>2. AccountOK' /\ IsServer'
      BY <1>2, <1>5, <2>1, AccountNow DEF AccountOK, IsServer
    <2>3. server.secret >= server.secret
      BY AccountNow
    <2> QED BY <1>5, <2>1, <2>2, <2>3, AccountNow, AccountStep
  <1>7. PICK job : job = [jobs[i] EXCEPT !.reply = TRUE]
    OBVIOUS
  <1>8. job.at = "vote" /\ job.what = r
    BY <1>1, <1>2, <1>7, JobAt
  <1>9. VoteOK(job)'
    BY <1>2, <1>3, <1>5, <1>6, <1>8 DEF VoteOK
  <1>10. /\ LoadOK(job)' /\ ListOK(job)' /\ ReceiptOK(job)' /\ LinkOK(job)'
         /\ ReplayOK(job)' /\ job.at # "load"
    BY <1>8 DEF LoadOK, ListOK, ReceiptOK, LinkOK, ReplayOK
  <1> QED BY <1>4, <1>6, <1>7, <1>9, <1>10, ServedStep

\* A request is made or resolved.
LEMMA RequestMoves ==
    ASSUME IInv, UNCHANGED scope, NEW r \in Requests, NEW state \in {"pending", "resolved"},
           server.requests[r] = "resolved" => state = "resolved",
           server' = [server EXCEPT !.requests[r] = state]
    PROVE  ServerInv' /\ Grows
  <1>1. PICK requests : requests = [server.requests EXCEPT ![r] = state]
    OBVIOUS
  <1>2. /\ requests \in [Requests -> {"none", "pending", "resolved"}]
        /\ \A q \in Requests : server.requests[q] = "resolved" => requests[q] = "resolved"
    BY <1>1, AccountNow DEF AccountOK
  <1>3. server' = [rows |-> server.rows, live |-> server.live,
                   generation |-> server.generation, requests |-> requests,
                   voted |-> server.voted, passkeys |-> server.passkeys,
                   secret |-> server.secret, enabled |-> server.enabled]
    BY <1>1, AccountNow DEF IsServer
  <1>4. AccountOK' /\ IsServer'
    BY <1>2, <1>3, AccountNow DEF AccountOK, IsServer
  <1>5. server.secret >= server.secret
    BY AccountNow
  <1> QED BY <1>2, <1>3, <1>4, <1>5, AccountNow, AccountStep

LEMMA CreateRequestStep ==
    ASSUME IInv, NEW i \in DOMAIN jobs, CreateRequest(i)
    PROVE  IInv'
  <1>1. PICK r \in Quick \cap scope.requests :
            /\ server.requests[r] = "none"
            /\ Answer(i, r, [server EXCEPT !.requests[r] = "pending"])
    BY DEF CreateRequest
  <1>2. jobs[i].at = "create" /\ r \in Requests
    BY TabAssumption DEF CreateRequest, Waiting
  <1>3. PICK now : now = [server EXCEPT !.requests[r] = "pending"]
    OBVIOUS
  <1>4. UNCHANGED scope /\ server' = [server EXCEPT !.requests[r] = "pending"]
    BY <1>1 DEF Answer
  <1>5. ServerInv' /\ Grows
    BY <1>1, <1>2, <1>4, RequestMoves
  <1> QED BY <1>1, <1>2, <1>3, <1>5, PlainAnswer

LEMMA ClearBannerStep ==
    ASSUME IInv, NEW i \in DOMAIN jobs, ClearBanner(i)
    PROVE  IInv'
  <1>1. PICK list, new : list = jobs /\ new = [ui EXCEPT !.error = FALSE]
    OBVIOUS
  <1>2. /\ list[i].at = "banner" /\ ui' = Render(i, new) /\ jobs' = RemoveAt(list, i)
        /\ UNCHANGED <<scope, page, entries, auth, server>>
    BY <1>1 DEF ClearBanner
  <1>3. ASSUME list[i].live = TRUE, page = "dashboard", ui # NULL
        PROVE  ScreenInv' /\ \A k \in DOMAIN list : k # i => LiveOK(list[k])'
    <2>1. ui \in DashboardUi /\ ListsTrue
      BY <1>3, DashboardShown
    <2>2. ui' = new
      BY <1>1, <1>2, <1>3 DEF Render
    <2>3. /\ ui' \in DashboardUi /\ ui'.show = ui.show /\ ui'.quiet = ui.quiet
          /\ ui'.lists = ui.lists
      BY <1>1, <2>1, <2>2 DEF DashboardUi
    <2>4. ListsTrue'
      BY <1>2, <2>1, <2>3, ListsStay
    <2>5. ScreenInv' /\ ui' # NULL
      BY <1>2, <1>3, <2>3, <2>4, DashboardChanged
    <2> QED BY <1>1, <1>2, <1>3, <2>3, <2>5, DashboardLive
  <1>4. list[i].at \in StepsOf["dashboard"] /\ "dashboard" \in Pages
    BY <1>2 DEF StepsOf, Pages
  <1> QED BY <1>1, <1>2, <1>3, <1>4, HandlerDone

-----------------------------------------------------------------------------
\* The dashboard with some of its lists loading again.
LEMMA DashboardReloads ==
    ASSUME IInv, page = "dashboard", ui # NULL, UNCHANGED <<page, server>>, NEW S,
           ui' \in DashboardUi, ui'.lists = Reloading(S), ui'.show = ui.show, ui'.quiet = ui.quiet
    PROVE  ScreenInv' /\ ui' # NULL
  <1>1. ui \in DashboardUi /\ ListsTrue
    BY DashboardShown
  <1>2. PICK lists : lists = Reloading(S)
    OBVIOUS
  <1>3. /\ lists["sessions"] \in {Loading, Broken, ui.lists["sessions"]}
        /\ lists["approvals"] \in {Loading, Broken, ui.lists["approvals"]}
    BY <1>1, <1>2, ReloadingLists DEF DashboardUi, Sections
  <1>4. ListsTrue'
    BY <1>1, <1>2, <1>3, ListsStay
  <1> QED BY <1>4, DashboardChanged

LEMMA FinishRevokeStep ==
    ASSUME IInv, NEW i \in DOMAIN jobs, NEW reply, FinishRevoke(i, reply)
    PROVE  IInv'
  <1>1. PICK list, f, got, lists : /\ list = jobs /\ f = list[i].what
                                   /\ got = Without("sessions", f)
                                   /\ lists = Reloading({"sessions"})
    OBVIOUS
  <1>2. list[i].at = "revoke" /\ UNCHANGED <<scope, page, entries, auth, server>> /\ PlaceOK
    BY <1>1 DEF FinishRevoke, Read, IInv
  <1>3. list[i].at \in StepsOf["dashboard"] /\ "dashboard" \in Pages
    BY <1>2 DEF StepsOf, Pages
  <1>4. CASE reply # Failed
    <2>1. PICK new : new = [ui EXCEPT !.revoking = NULL, !.lists["sessions"] = got]
      OBVIOUS
    <2>2. ui' = Render(i, new) /\ jobs' = RemoveAt(list, i)
      BY <1>1, <1>4, <2>1 DEF FinishRevoke
    <2>3. ASSUME list[i].live = TRUE, page = "dashboard", ui # NULL
          PROVE  ScreenInv' /\ \A k \in DOMAIN list : k # i => LiveOK(list[k])'
      <3>1. ui \in DashboardUi /\ ListsTrue
        BY <2>3, DashboardShown
      <3>2. got \in ListOf(Rows) /\ (got.status = "ok" => IsInjective(got.data) /\ Behind(got.data))
        BY <1>1, <3>1, SessionsWithout DEF DashboardUi
      <3>3. PICK held \in Lists : held = ui.lists
        BY <3>1 DEF DashboardUi
      <3>4. PICK put : put = Put(held, "sessions", got)
        OBVIOUS
      <3>5. put \in Lists /\ put["sessions"] = got /\ put["approvals"] = held["approvals"]
        <4>1. Fits("sessions", got) /\ "sessions" \in Sections /\ "approvals" \in Sections
          BY <3>2 DEF Fits, Sections
        <4> QED BY <3>4, <4>1, ListPut
      <3>6. ui' = [ui EXCEPT !.revoking = NULL, !.lists = put]
        BY <1>1, <2>1, <2>2, <2>3, <3>1, <3>3, <3>4 DEF Render, Put, DashboardUi
      <3>7. /\ ui' \in DashboardUi /\ ui'.show = ui.show /\ ui'.quiet = ui.quiet
            /\ ui'.lists = put
        BY <3>1, <3>5, <3>6 DEF DashboardUi
      <3>8. PICK quiet : quiet = ui.quiet
        OBVIOUS
      <3>9. /\ put["approvals"].status = "ok" => put["approvals"].data \cap quiet \cap Quick = {}
            /\ \A r \in quiet \cap Quick : server.requests[r] = "resolved"
        BY <3>1, <3>3, <3>5, <3>8 DEF ListsTrue
      <3>10. ListsTrue'
        BY <1>2, <3>2, <3>5, <3>7, <3>8, <3>9, ListsHold
      <3>11. ScreenInv' /\ ui' # NULL
        BY <1>2, <2>3, <3>7, <3>10, DashboardChanged
      <3> QED BY <1>1, <1>2, <2>3, <3>7, <3>11, DashboardLive
    <2> QED BY <1>1, <1>2, <1>3, <2>2, <2>3, HandlerDone
  <1>5. CASE reply = Failed
    <2>1. PICK new, more :
              /\ new = [ui EXCEPT !.revoking = NULL, !.error = TRUE, !.lists = lists]
              /\ more = <<Load("sessions"), Banner>>
      OBVIOUS
    <2>2. /\ ui' = Render(i, new)
          /\ jobs' = RemoveAt(list, i) \o (IF list[i].live THEN more ELSE <<>>)
      BY <1>1, <1>5, <2>1 DEF FinishRevoke
    <2>3. /\ more \in Seq(ToSet(more)) /\ DOMAIN more = {1, 2}
          /\ more[1] = Load("sessions") /\ more[2] = Banner
      BY <2>1 DEF ToSet
    <2>4. \A k \in DOMAIN more : \A group \in Alone : more[k].at \notin group
      BY <2>3 DEF Load, Banner, Call, Alone
    <2>5. ASSUME list[i].live = TRUE, page = "dashboard", ui # NULL
          PROVE  /\ ScreenInv' /\ \A k \in DOMAIN more : Fine(more[k])'
                 /\ \A k \in DOMAIN list : k # i => LiveOK(list[k])'
      <3>1. ui \in DashboardUi
        BY <2>5, DashboardShown
      <3>2. ui' = new
        BY <1>1, <2>2, <2>5 DEF Render
      <3>3. lists \in Lists
        BY <1>1, <3>1, ReloadingLists DEF DashboardUi
      <3>4. /\ ui' \in DashboardUi /\ ui'.show = ui.show /\ ui'.quiet = ui.quiet
            /\ ui'.lists = lists
        BY <2>1, <3>1, <3>2, <3>3 DEF DashboardUi
      <3>5. ScreenInv' /\ ui' # NULL
        BY <1>1, <1>2, <2>5, <3>4, DashboardReloads
      <3>6. Fine(more[1])' /\ Fine(more[2])'
        <4>1. PICK load, banner : load = more[1] /\ banner = more[2]
          OBVIOUS
        <4>2. Fine(load)'
          BY <1>2, <2>3, <2>5, <3>5, <4>1, LoadFine DEF Sections
        <4>3. Fine(banner)'
          BY <1>2, <2>3, <2>5, <3>5, <4>1, BannerFine
        <4> QED BY <4>1, <4>2, <4>3
      <3> QED BY <1>1, <1>2, <2>3, <2>5, <3>4, <3>5, <3>6, DashboardLive
    <2> QED BY <1>1, <1>2, <1>3, <2>2, <2>3, <2>4, <2>5, HandlerFollowed
  <1> QED BY <1>4, <1>5

LEMMA FinishVoteStep ==
    ASSUME IInv, NEW i \in DOMAIN jobs, NEW reply, FinishVote(i, reply)
    PROVE  IInv'
  <1>1. PICK list, r, S : /\ list = jobs /\ r = list[i].what
                          /\ S = scope.sections \cap {"activity"}
    OBVIOUS
  <1>2. /\ list[i].at = "vote" /\ UNCHANGED <<scope, page, entries, auth, server>> /\ PlaceOK
        /\ reply \in {list[i].reply, Failed} \ {NULL}
    BY <1>1 DEF FinishVote, Read, IInv
  <1>3. list[i].at \in StepsOf["dashboard"]
    BY <1>2 DEF StepsOf
  <1>4. r \in Requests /\ (reply # Failed /\ r \in Quick => server.requests[r] = "resolved")
    BY <1>1, <1>2, JobAt DEF JobOK, VoteOK
  <1>5. CASE reply # Failed
    <2>1. PICK reloading, got, quiet :
              /\ reloading = Reloading(S) /\ got = Without("approvals", r)
              /\ quiet = IF LoadingApprovals(list) THEN ui.quiet ELSE ui.quiet \cup {r}
      OBVIOUS
    <2>2. PICK new, more :
              /\ new = [ui EXCEPT !.voting = NULL, !.quiet = quiet,
                                  !.lists = Put(reloading, "approvals", got)]
              /\ more = Loads(S)
      OBVIOUS
    <2>3. jobs' = RemoveAt(list, i) \o (IF list[i].live THEN more ELSE <<>>)
      BY <1>1, <1>5, <2>2 DEF FinishVote
    <2>4. S \in SUBSET Sections
      BY <1>1 DEF Sections
    <2>5. more \in Seq(ToSet(more)) /\ \A k \in DOMAIN more : more[k].at = "load"
      <3>1. IsFiniteSet(S)
        <4>1. IsFiniteSet({} \cup {"activity"})
          BY FS_EmptySet, FS_AddElement
        <4>2. S \subseteq {} \cup {"activity"}
          BY <1>1
        <4> QED BY <4>1, <4>2, FS_Subset
      <3>2. more \in Seq(ToSet(more)) /\ \A k \in DOMAIN more : \E s \in S : more[k] = Load(s)
        BY <2>2, <3>1, LoadsAsk
      <3> QED BY <3>2 DEF Load, Call
    <2>6. \A k \in DOMAIN more : \A group \in Alone : more[k].at \notin group
      BY <2>5 DEF Alone
    <2>7. ui' = Render(i, new)
      <3>1. list[i].live = TRUE \/ list[i].live = FALSE
        BY <1>1, JobAt
      <3>2. CASE list[i].live = FALSE
        BY <1>1, <1>5, <3>2 DEF FinishVote, Render
      <3>3. CASE list[i].live = TRUE
        <4>1. ui \in DashboardUi
          <5>1. page = "dashboard" /\ ui # NULL
            <6>1. ui # NULL /\ list[i].at \in StepsOf[page] /\ page \in Pages
              BY <1>1, <3>3, JobAt DEF LiveOK
            <6>2. "dashboard" \in Pages
              BY DEF Pages
            <6> QED BY <1>3, <6>1, <6>2, WhoseStep
          <5> QED BY <5>1, DashboardShown
        <4>2. ui' = [ui EXCEPT !.voting = NULL,
                        !.lists = [Reloading(S) EXCEPT !["approvals"] = Without("approvals", r)],
                        !.quiet = IF LoadingApprovals(jobs) THEN @ ELSE @ \cup {r}]
          BY <1>1, <1>5, <3>3 DEF FinishVote, Render
        <4>3. ui' = new
          BY <1>1, <2>1, <2>2, <4>1, <4>2 DEF Put, DashboardUi
        <4> QED BY <1>1, <3>3, <4>3 DEF Render
      <3> QED BY <3>1, <3>2, <3>3
    <2>8. ASSUME list[i].live = TRUE, page = "dashboard", ui # NULL
          PROVE  /\ ScreenInv' /\ \A k \in DOMAIN more : Fine(more[k])'
                 /\ \A k \in DOMAIN list : k # i => LiveOK(list[k])'
      <3>1. ui \in DashboardUi /\ ListsTrue /\ ui.lists \in Lists
        BY <2>8, DashboardShown DEF DashboardUi
      <3>2. /\ got \in ListOf(SUBSET Requests)
            /\ got.status = "ok" => got.data \cap (ui.quiet \cup {r}) \cap Quick = {}
        BY <2>1, <3>1, ApprovalsWithout
      <3>3. /\ reloading \in Lists /\ reloading["sessions"] = ui.lists["sessions"]
        <4>1. "sessions" \in Sections /\ "sessions" \notin S
          BY <1>1 DEF Sections
        <4> QED BY <2>1, <3>1, <4>1, ReloadingLists
      <3>4. PICK lists : lists = Put(reloading, "approvals", got)
        OBVIOUS
      <3>5. lists \in Lists /\ lists["approvals"] = got /\ lists["sessions"] = ui.lists["sessions"]
        <4>1. Fits("approvals", got) /\ "approvals" \in Sections /\ "sessions" \in Sections
          BY <3>2 DEF Fits, Sections
        <4>2. /\ lists \in Lists /\ lists["approvals"] = got
              /\ \A t \in Sections : t # "approvals" => lists[t] = reloading[t]
          BY <3>3, <3>4, <4>1, ListPut
        <4> QED BY <3>3, <4>1, <4>2
      <3>6. ui' = [ui EXCEPT !.voting = NULL, !.quiet = quiet, !.lists = lists]
        BY <1>1, <2>2, <2>7, <2>8, <3>4 DEF Render
      <3>7. quiet \subseteq ui.quiet \cup {r} /\ quiet \in SUBSET Requests
        BY <1>4, <2>1, <3>1 DEF DashboardUi
      <3>8. /\ ui' \in DashboardUi /\ ui'.show = ui.show /\ ui'.quiet = quiet
            /\ ui'.lists = lists
        BY <3>1, <3>5, <3>6, <3>7 DEF DashboardUi
      <3>9. ListsTrue'
        <4>1. lists["sessions"].status = "ok" =>
                  IsInjective(lists["sessions"].data) /\ Behind(lists["sessions"].data)
          BY <3>1, <3>5 DEF ListsTrue
        <4>2. lists["approvals"].status = "ok" =>
                  lists["approvals"].data \cap quiet \cap Quick = {}
          BY <3>2, <3>5, <3>7
        <4>3. \A q \in quiet \cap Quick : server.requests[q] = "resolved"
          BY <1>4, <1>5, <3>1, <3>7 DEF ListsTrue
        <4> QED BY <1>2, <3>8, <4>1, <4>2, <4>3, ListsHold
      <3>10. ScreenInv' /\ ui' # NULL
        BY <1>2, <2>8, <3>8, <3>9, DashboardChanged
      <3>11. ASSUME NEW job, job.live = TRUE, job.at \in StepsOf[page], Agrees(job),
                    NEW k \in DOMAIN list, k # i, job = list[k]
             PROVE  Agrees(job)'
        <4>1. job.at \in {"load", "revoke", "vote", "create", "banner"}
          BY <2>8, <3>11 DEF StepsOf
        <4>2. job.at = "load" /\ job.what = "approvals" => ui'.quiet = ui.quiet
          BY <2>1, <3>8, <3>11 DEF LoadingApprovals
        <4> QED BY <3>11, <4>1, <4>2 DEF Agrees
      <3>12. \A k \in DOMAIN list : k # i => LiveOK(list[k])'
        BY <1>1, <1>2, <3>10, <3>11, LiveJobs
      <3>13. \A k \in DOMAIN more : Fine(more[k])'
        BY <1>2, <2>2, <2>4, <2>8, <3>10, LoadsFine
      <3> QED BY <3>10, <3>12, <3>13
    <2> QED BY <1>1, <1>2, <1>3, <2>3, <2>5, <2>6, <2>7, <2>8, HandlerFollowed
  <1>6. CASE reply = Failed
    <2>1. PICK new, more : /\ new = [ui EXCEPT !.voting = NULL, !.error = TRUE]
                           /\ more = <<Banner>>
      OBVIOUS
    <2>2. /\ ui' = Render(i, new)
          /\ jobs' = RemoveAt(list, i) \o (IF list[i].live THEN more ELSE <<>>)
      BY <1>1, <1>6, <2>1 DEF FinishVote
    <2>3. more \in Seq(ToSet(more)) /\ DOMAIN more = {1} /\ more[1] = Banner
      BY <2>1 DEF ToSet
    <2>4. \A k \in DOMAIN more : \A group \in Alone : more[k].at \notin group
      BY <2>3 DEF Banner, Call, Alone
    <2>5. ASSUME list[i].live = TRUE, page = "dashboard", ui # NULL
          PROVE  /\ ScreenInv' /\ \A k \in DOMAIN more : Fine(more[k])'
                 /\ \A k \in DOMAIN list : k # i => LiveOK(list[k])'
      <3>1. ui \in DashboardUi /\ ListsTrue
        BY <2>5, DashboardShown
      <3>2. ui' = new
        BY <1>1, <2>2, <2>5 DEF Render
      <3>3. /\ ui' \in DashboardUi /\ ui'.show = ui.show /\ ui'.quiet = ui.quiet
            /\ ui'.lists = ui.lists
        BY <2>1, <3>1, <3>2 DEF DashboardUi
      <3>4. ListsTrue'
        BY <1>2, <3>1, <3>3, ListsStay
      <3>5. ScreenInv' /\ ui' # NULL
        BY <1>2, <2>5, <3>3, <3>4, DashboardChanged
      <3>6. Fine(more[1])'
        <4>1. PICK banner : banner = more[1]
          OBVIOUS
        <4>2. Fine(banner)'
          BY <1>2, <2>3, <2>5, <3>5, <4>1, BannerFine
        <4> QED BY <4>1, <4>2
      <3> QED BY <1>1, <1>2, <2>3, <2>5, <3>3, <3>5, <3>6, DashboardLive
    <2> QED BY <1>1, <1>2, <1>3, <2>2, <2>3, <2>4, <2>5, HandlerFollowed
  <1> QED BY <1>5, <1>6

LEMMA FinishDemoStep ==
    ASSUME IInv, NEW i \in DOMAIN jobs, NEW reply, FinishDemo(i, reply)
    PROVE  IInv'
  <1>1. PICK list, lists : list = jobs /\ lists = Reloading({"approvals"})
    OBVIOUS
  <1>2. list[i].at = "create" /\ UNCHANGED <<scope, page, entries, auth, server>> /\ PlaceOK
    BY <1>1 DEF FinishDemo, Read, IInv
  <1>3. list[i].at \in StepsOf["dashboard"] /\ "dashboard" \in Pages
    BY <1>2 DEF StepsOf, Pages
  <1>4. CASE reply # Failed
    <2>1. PICK new, more : /\ new = [ui EXCEPT !.demo = "success", !.lists = lists]
                           /\ more = <<Load("approvals")>>
      OBVIOUS
    <2>2. /\ ui' = Render(i, new)
          /\ jobs' = RemoveAt(list, i) \o (IF list[i].live THEN more ELSE <<>>)
      BY <1>1, <1>4, <2>1 DEF FinishDemo
    <2>3. more \in Seq(ToSet(more)) /\ DOMAIN more = {1} /\ more[1] = Load("approvals")
      BY <2>1 DEF ToSet
    <2>4. \A k \in DOMAIN more : \A group \in Alone : more[k].at \notin group
      BY <2>3 DEF Load, Call, Alone
    <2>5. ASSUME list[i].live = TRUE, page = "dashboard", ui # NULL
          PROVE  /\ ScreenInv' /\ \A k \in DOMAIN more : Fine(more[k])'
                 /\ \A k \in DOMAIN list : k # i => LiveOK(list[k])'
      <3>1. ui \in DashboardUi
        BY <2>5, DashboardShown
      <3>2. ui' = new
        BY <1>1, <2>2, <2>5 DEF Render
      <3>3. lists \in Lists
        BY <1>1, <3>1, ReloadingLists DEF DashboardUi
      <3>4. /\ ui' \in DashboardUi /\ ui'.show = ui.show /\ ui'.quiet = ui.quiet
            /\ ui'.lists = lists
        BY <2>1, <3>1, <3>2, <3>3 DEF DashboardUi
      <3>5. ScreenInv' /\ ui' # NULL
        BY <1>1, <1>2, <2>5, <3>4, DashboardReloads
      <3>6. Fine(more[1])'
        <4>1. PICK load : load = more[1]
          OBVIOUS
        <4>2. Fine(load)'
          BY <1>2, <2>3, <2>5, <3>5, <4>1, LoadFine DEF Sections
        <4> QED BY <4>1, <4>2
      <3> QED BY <1>1, <1>2, <2>3, <2>5, <3>4, <3>5, <3>6, DashboardLive
    <2> QED BY <1>1, <1>2, <1>3, <2>2, <2>3, <2>4, <2>5, HandlerFollowed
  <1>5. CASE reply = Failed
    <2>1. PICK new : new = [ui EXCEPT !.demo = "error"]
      OBVIOUS
    <2>2. ui' = Render(i, new) /\ jobs' = RemoveAt(list, i)
      BY <1>1, <1>5, <2>1 DEF FinishDemo
    <2>3. ASSUME list[i].live = TRUE, page = "dashboard", ui # NULL
          PROVE  ScreenInv' /\ \A k \in DOMAIN list : k # i => LiveOK(list[k])'
      <3>1. ui \in DashboardUi /\ ListsTrue
        BY <2>3, DashboardShown
      <3>2. ui' = new
        BY <1>1, <2>2, <2>3 DEF Render
      <3>3. /\ ui' \in DashboardUi /\ ui'.show = ui.show /\ ui'.quiet = ui.quiet
            /\ ui'.lists = ui.lists
        BY <2>1, <3>1, <3>2 DEF DashboardUi
      <3>4. ListsTrue'
        BY <1>2, <3>1, <3>3, ListsStay
      <3>5. ScreenInv' /\ ui' # NULL
        BY <1>2, <2>3, <3>3, <3>4, DashboardChanged
      <3> QED BY <1>1, <1>2, <2>3, <3>3, <3>5, DashboardLive
    <2> QED BY <1>1, <1>2, <1>3, <2>2, <2>3, HandlerDone
  <1> QED BY <1>4, <1>5

LEMMA DashboardNextStep ==
    ASSUME IInv, DashboardNext
    PROVE  IInv'
  <1>1. CASE \E i \in DOMAIN jobs : \E reply \in {jobs[i].reply, Failed} :
                \/ FinishLoad(i, reply) \/ FinishRevoke(i, reply)
                \/ FinishVote(i, reply) \/ FinishDemo(i, reply)
    BY <1>1, FinishLoadStep, FinishRevokeStep, FinishVoteStep, FinishDemoStep
  <1>2. CASE \E i \in DOMAIN jobs :
                \/ ServeList(i) \/ DeleteSession(i) \/ CastVote(i) \/ CreateRequest(i)
                \/ ClearBanner(i)
    BY <1>2, ServeListStep, DeleteSessionStep, CastVoteStep, CreateRequestStep, ClearBannerStep
  <1>3. CASE RunEffect \/ CreateDemo \/ SignOut \/ FollowToDispute \/ ShowcaseNext
    BY <1>3, RunEffectStep, CreateDemoStep, SignOutStep, FollowToDisputeStep, ShowcaseStep
  <1>4. CASE \/ \E s \in scope.sections : Retry(s)
             \/ \E f \in Families : Revoke(f)
             \/ \E r \in Requests : Vote(r)
    BY <1>4, RetryStep, RevokeStep, VoteStep
  <1> QED BY <1>1, <1>2, <1>3, <1>4 DEF DashboardNext

-----------------------------------------------------------------------------
\* Only the server moves.
LEMMA ServerMoves ==
    ASSUME IInv, UNCHANGED <<scope, page, entries, ui, auth, jobs>>, ServerInv', Grows
    PROVE  IInv'
  <1>1. PICK list : list = jobs /\ jobs' = list
    OBVIOUS
  <1>2. ServerInv /\ Good(list) /\ ScreenInv /\ PlaceOK
    BY <1>1, JobsAreGood DEF IInv
  <1>3. ASSUME NEW k \in DOMAIN list PROVE Fine(list[k])'
    <2>1. PICK job : job = list[k] /\ JobOK(job) /\ LiveOK(job)
      BY <1>2, <1>3 DEF Good, Fine
    <2>2. JobOK(job)' /\ LiveOK(job)'
      BY <1>2, <2>1, JobGrows, LiveStays
    <2> QED BY <2>1, <2>2 DEF Fine
  <1>4. Good(list)'
    BY <1>2, <1>3 DEF Good
  <1>5. JobsInv'
    BY <1>1, <1>4, GoodNow
  <1>6. ScreenInv'
    BY <1>2, ScreenGrows
  <1> QED BY <1>5, <1>6 DEF IInv, PlaceOK, AuthOK

LEMMA OthersStep ==
    ASSUME IInv, Others
    PROVE  IInv'
  <1>1. UNCHANGED <<scope, page, entries, ui, auth, jobs>> /\ scope \in Scopes /\ ServerInv
    BY AccountNow DEF Others
  <1>2. CASE \E f \in Families : OtherSignsIn(f) \/ OtherRevokes(f)
    BY <1>1, <1>2, GrantedStep, RevokedStep, ServerMoves DEF OtherSignsIn, OtherRevokes
  <1>3. CASE \E r \in Requests : OtherRequests(r) \/ OtherResolves(r)
    BY <1>1, <1>3, RequestMoves, ServerMoves DEF OtherRequests, OtherResolves
  <1> QED BY <1>2, <1>3 DEF Others

LEMMA TraverseStep ==
    ASSUME IInv, NEW p \in Pages, Traverse(p)
    PROVE  IInv'
  <1>1. p \in entries \ {page} /\ Navigate(p, jobs) /\ UNCHANGED <<scope, auth, server>>
    BY DEF Traverse
  <1>2. page # "attack" /\ p # "attack"
    BY <1>1 DEF IInv, PlaceOK
  <1>3. Good(jobs) /\ AuthOK'
    BY <1>1, JobsAreGood DEF IInv, AuthOK
  <1>4. PICK list : list = jobs
    OBVIOUS
  <1> QED BY <1>1, <1>2, <1>3, <1>4, LeaveStep

LEMMA OpenStep ==
    ASSUME IInv, NEW p \in Pages, Open(p)
    PROVE  IInv'
  <1>1. /\ page' = p /\ entries' = {p} /\ ui' = NULL /\ jobs' = <<>>
        /\ auth' = [auth EXCEPT !.memory = auth.storage] /\ UNCHANGED <<scope, server>>
    BY DEF Open
  <1>2. PlaceOK'
    BY <1>1 DEF IInv, PlaceOK
  <1>3. AuthOK'
    BY <1>1 DEF IInv, AuthOK
  <1>4. ServerInv'
    BY <1>1, ServerSame
  <1>5. JobsInv'
    BY <1>1 DEF JobsInv
  <1>6. ScreenInv'
    BY <1>1 DEF ScreenInv
  <1> QED BY <1>2, <1>3, <1>4, <1>5, <1>6 DEF IInv

LEMMA StutterStep ==
    ASSUME IInv, UNCHANGED vars
    PROVE  IInv'
  <1>1. UNCHANGED <<scope, page, entries, ui, auth, jobs>> /\ UNCHANGED <<scope, server>>
    BY DEF vars
  <1>2. ServerInv' /\ Grows
    BY <1>1, ServerSame
  <1> QED BY <1>1, <1>2, ServerMoves

LEMMA InitInv ==
    ASSUME Init
    PROVE  IInv
  <1>1. /\ scope \in Scopes /\ page = "login" /\ entries = {"login"} /\ ui = NULL
        /\ auth = [memory |-> NULL, storage |-> NULL] /\ jobs = <<>>
        /\ server = [rows |-> <<>>, live |-> {}, generation |-> [f \in Families |-> 0],
                     requests |-> [r \in Requests |-> "none"], voted |-> {},
                     passkeys |-> {}, secret |-> 0, enabled |-> FALSE]
    BY DEF Init
  <1>2. IsServer
    BY <1>1 DEF IsServer
  <1>3. 0 \in 0..MaxGeneration /\ 0 \in 0..MaxSecrets
    BY TabAssumption
  <1>4. AccountOK
    BY <1>1, <1>3 DEF AccountOK
  <1>5. SessionsOK
    <2>1. ToSet(<<>>) = {} /\ IsInjective(<<>>)
      BY DEF ToSet, IsInjective
    <2> QED BY <1>1, <1>3, <2>1 DEF SessionsOK
  <1>6. ServerInv
    BY <1>1, <1>2, <1>4, <1>5, ServerParts
  <1>7. PlaceOK /\ AuthOK
    BY <1>1 DEF PlaceOK, AuthOK, Pages
  <1>8. JobsInv /\ ScreenInv
    BY <1>1 DEF JobsInv, ScreenInv
  <1> QED BY <1>6, <1>7, <1>8 DEF IInv

LEMMA StepInv == IInv /\ [Next]_vars => IInv'
  <1> SUFFICES ASSUME IInv, [Next]_vars PROVE IInv'
    OBVIOUS
  <1>1. CASE LoginNext \/ RegisterNext \/ DashboardNext \/ DemoNext
    BY <1>1, LoginNextStep, RegisterNextStep, DashboardNextStep, DemoNextStep
  <1>2. CASE \E p \in Pages : Traverse(p) \/ Open(p)
    BY <1>2, TraverseStep, OpenStep
  <1>3. CASE Others
    BY <1>3, OthersStep
  <1>4. CASE UNCHANGED vars
    BY <1>4, StutterStep
  <1> QED BY <1>1, <1>2, <1>3, <1>4 DEF Next

LEMMA Invariance == Spec => []IInv
  BY InitInv, StepInv, PTL DEF Spec

-----------------------------------------------------------------------------
\* Every variable keeps its type, and each page shows the state of its own component,
\* whatever jobs of the pages left before it come back.
THEOREM TypeCorrect == Spec => []TypeOK
  <1>1. ASSUME IInv PROVE TypeOK
    <2>1. auth \in [{"memory", "storage"} -> Token \cup {NULL}]
      BY <1>1 DEF IInv, AuthOK
    <2>2. \A i \in DOMAIN jobs : jobs[i].at \in Steps /\ jobs[i].live \in BOOLEAN
      BY <1>1, JobAt
    <2> QED BY <1>1, <2>1, <2>2 DEF IInv, PlaceOK, ServerInv, ScreenInv, TypeOK
  <1> QED BY <1>1, Invariance, PTL

\* revokeSession: whoever signs in, refreshes or revokes while the list of sessions, the
\* click and the call are under way, the family a tab is about to revoke is its own only
\* if another one got a token later.
THEOREM OwnSessionsSpared == Spec => []OwnSessionSpared
  <1>1. ASSUME IInv PROVE OwnSessionSpared
    <2> SUFFICES ASSUME NEW i \in DOMAIN jobs, jobs[i].at = "revoke",
                        jobs[i].what = auth.memory.family
                 PROVE  server.rows[1] # auth.memory.family
      BY DEF OwnSessionSpared
    <2>1. RevokeOK(jobs[i])
      BY <1>1, JobAt DEF JobOK
    <2> QED BY <2>1 DEF RevokeOK, Overtaken
  <1> QED BY <1>1, Invariance, PTL

\* submitVote: a request that one vote decides is not offered again once its vote was
\* acknowledged while no list of approvals was loading, however late other lists arrive.
THEOREM VotedStayGone == Spec => []VotedStaysGone
  <1>1. ASSUME IInv PROVE VotedStaysGone
    BY <1>1, DashboardShown DEF VotedStaysGone, ListsTrue
  <1> QED BY <1>1, Invariance, PTL

\* revealReceipt and RegisterPage: the receipt shown is the selected request's unless the
\* selection changed under way, and "Account ready" is true.
THEOREM EndsStayTrue == Spec => []EndsTrue
  <1>1. ASSUME IInv PROVE EndsTrue
    <2>1. ReceiptOfSelected
      BY <1>1, DisputeShown DEF ReceiptOfSelected, DisputeTrue
    <2>2. ReadyMeansLinked
      BY <1>1, RegisterShown DEF ReadyMeansLinked, RegisterTrue, On
    <2> QED BY <2>1, <2>2 DEF EndsTrue
  <1> QED BY <1>1, Invariance, PTL

\* JudgeMode, SimulationPanel and AdaptiveTrustEngine: what runs has its timers, what
\* stopped has none, and a summary is that of a complete run.
THEOREM TimersStayTrue == Spec => []TimersTrue
  <1>1. ASSUME IInv PROVE TimersTrue
    <2> SUFFICES ASSUME page = "dashboard", ui # NULL PROVE TimersTrue
      BY DEF TimersTrue
    <2>1. ShowInv(ui.show)
      BY <1>1, DashboardShown
    <2> QED BY <2>1 DEF ShowInv, JudgeInv, PanelInv, EngineInv, TimersTrue
  <1> QED BY <1>1, Invariance, PTL

-----------------------------------------------------------------------------
\* Tokens come from a sign-in or from the rotation on the attack page, and a new
\* document reads sessionStorage.
LEMMA TokensCome ==
    ASSUME Next, auth' # auth
    PROVE  \/ \E i \in DOMAIN jobs : jobs[i].at \in {"verify", "step-up", "capture"}
           \/ auth' = [auth EXCEPT !.memory = auth.storage]
           \/ auth'.memory = NULL
  <1> USE DEF Answer
  <1>1. CASE LoginNext
    <2>1. PICK i \in DOMAIN jobs : \E reply : FinishSignIn(i, reply)
      BY <1>1 DEF LoginNext, MountLogin, SubmitLogin, SubmitStepUp, PickNumber, VerifyLogin,
         StepUp, ForgetWrongNumber
    <2> QED BY <2>1 DEF FinishSignIn, Read
  <1>2. CASE RegisterNext
    BY <1>2 DEF RegisterNext, MountRegister, SubmitRegistration, SubmitCode, RegisterPasskey,
       SetupTotp, ConfirmTotp, RedirectToLogin, AskForSecret, ShowSecret, FinishRegistration
  <1>3. CASE DashboardNext
    <2>1. SignOut
      BY <1>3 DEF DashboardNext, RunEffect, CreateDemo, FollowToDispute, ShowcaseNext, Retry,
         Revoke, Vote, ServeList, DeleteSession, CastVote, CreateRequest, ClearBanner,
         FinishLoad, FinishRevoke, FinishVote, FinishDemo
    <2> QED BY <2>1 DEF SignOut, ClearTokens
  <1>4. CASE DemoNext
    <2>1. PICK i \in DOMAIN jobs : \E reply : FinishCapture(i, reply)
      BY <1>4 DEF DemoNext, MountDispute, RevealReceipt, ResetDispute, FollowToDashboard,
         MountAttack, SimulateFatigue, ResetFatigue, SimulateReplay, ResetReplay,
         MountPhishing, AttemptPhish, ResetPhish, PickRequest, ListResolved, ServeReceipt,
         AttemptFatigue, ReplayToken, FinishPhish, Refresh, FinishList, FinishReceipt,
         FinishReplay
    <2> QED BY <2>1 DEF FinishCapture, Read
  <1>5. CASE \E p \in Pages : Traverse(p) \/ Open(p)
    BY <1>5 DEF Traverse, Open
  <1>6. CASE Others
    BY <1>6 DEF Others
  <1> QED BY <1>1, <1>2, <1>3, <1>4, <1>5, <1>6 DEF Next

\* clearTokens and lib/auth.ts: memory and sessionStorage hold the same token, so that a
\* tab that is signed out stays so, whatever it opens or left under way, until a sign-in
\* that is under way ends.
THEOREM StaysSignedOut == Spec => SignedOutStaysOut
  <1>1. ASSUME IInv, [Next]_vars, auth.memory = NULL, ~Signing PROVE auth'.memory = NULL
    <2>1. CASE auth' = auth
      BY <1>1, <2>1
    <2>2. CASE auth' # auth
      <3>1. Next
        BY <1>1, <2>2 DEF vars
      <3>2. auth' = [auth EXCEPT !.memory = auth.storage] \/ auth'.memory = NULL
        BY <1>1, <2>2, <3>1, TokensCome DEF Signing
      <3>3. auth = [memory |-> NULL, storage |-> NULL]
        BY <1>1 DEF IInv, AuthOK
      <3> QED BY <3>2, <3>3
    <2> QED BY <2>1, <2>2
  <1>2. IInv /\ [Next]_vars =>
            [auth.memory = NULL /\ ~Signing => auth'.memory = NULL]_vars
    BY <1>1
  <1> QED BY <1>2, Invariance, PTL DEF Spec, SignedOutStaysOut
=============================================================================
