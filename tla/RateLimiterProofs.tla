-------------------------- MODULE RateLimiterProofs ---------------------------
(***************************************************************************)
(* Theorems about RateLimiter, for any gateways, keys, organizations and   *)
(* headers, any limit, and any lengths of window and second: its types,    *)
(* what a fixed window lets through of a tenant in any stretch of time,    *)
(* whose requests a refusal can be due to, and that waiting as long as     *)
(* Retry-After says is enough.                                             *)
(***************************************************************************)
EXTENDS RateLimiter, FiniteSetTheorems, TLAPS

(* A 429 names an instant after the end of the window it is for.           *)
PromisesOutlastWindows ==
  \A g \in Gateways : \A p \in promised[g] : p.back > p.resetAt

(* The bucket that a request was counted in.                               *)
CountedFor(a) == IF a.org # NoOrg THEN <<"org", a.org>> ELSE a.of

Counted(g, b) == {a \in admitted[g] : CountedFor(a) = b}

(* Requests of one instant, tenant and header are told apart by number,    *)
(* and an organization's are all counted in its bucket.                    *)
Alike(A, a) == {c \in A : c.at = a.at /\ c.of = a.of /\ c.org = a.org}

RequestsFit(A) ==
  /\ IsFiniteSet(A)
  /\ \A a \in A :
       /\ a.nth < Cardinality(Alike(A, a))
       /\ a.of[1] = "org" => CountedFor(a) = a.of

(* Requests let through from first on, and from first until before end.    *)
Since(A, first) == {a \in A : first <= a.at}
Between(A, first, end) == {a \in A : first <= a.at /\ a.at < end}

(* A: what a process counted in the bucket w.  The bucket counts what came *)
(* since its window started; in a window's length before that no more than *)
(* the limit came; nothing came after the window's end.                    *)
CountFits(A, w) ==
  LET start == w.resetAt - Window
  IN  /\ start <= now
      /\ \A a \in A : a.at <= w.resetAt
      /\ Cardinality(Since(A, start)) = w.count
      /\ Cardinality(Between(A, start - Window, start)) <= Limit

Fits(A, w) ==
  /\ IsFiniteSet(A)
  /\ \A a \in A : a.at <= now
  /\ IF w = NoBucket THEN A = {} ELSE CountFits(A, w)

BucketsFit ==
  \A g \in Gateways, b \in Tenants : Fits(Counted(g, b), buckets[g][b])

(* SlidingBound, of all that a bucket counts.                              *)
BucketsAreBounded ==
  \A g \in Gateways, b \in Tenants, i \in Times :
    Cardinality(During(Counted(g, b), i, i + Window)) <= 2 * Limit

Inductive ==
  /\ TypeOK
  /\ PromisesOutlastWindows
  /\ \A g \in Gateways : RequestsFit(admitted[g])
  /\ BucketsFit
  /\ BucketsAreBounded

-----------------------------------------------------------------------------
(* Operators                                                               *)

LEMMA DivisionBounds ==
  ASSUME NEW n \in Nat, NEW d \in Nat \ {0}
  PROVE  /\ n \div d \in Nat
         /\ (n \div d) * d <= n
         /\ n < (n \div d) * d + d
OBVIOUS

(* The seconds of Retry-After, from any instant on, end after the window.  *)
LEMMA RetryAfterOutlasts ==
  ASSUME NEW left \in Int
  PROVE  /\ RetryAfter(left) \in Int
         /\ RetryAfter(left) * Second > left
<1> Second \in Nat \ {0}
  BY TimeAssumption
<1>1. CASE left >= 0
  <2> DEFINE q == left \div Second
  <2>1. q \in Nat /\ left < q * Second + Second
    BY <1>1, DivisionBounds
  <2>2. RetryAfter(left) = q + 1
    BY <1>1 DEF RetryAfter
  <2> HIDE DEF q
  <2>3. (q + 1) * Second = q * Second + Second
    BY <2>1
  <2> QED
    BY <2>1, <2>2, <2>3
<1>2. CASE left < 0
  <2> DEFINE q == (-left) \div Second
  <2>1. q \in Nat /\ q * Second <= -left
    BY <1>2, DivisionBounds
  <2>2. RetryAfter(left) = 1 - q
    BY <1>2 DEF RetryAfter
  <2> HIDE DEF q
  <2>3. (1 - q) * Second = Second - q * Second
    BY <2>1
  <2> QED
    BY <2>1, <2>2, <2>3
<1> QED
  BY <1>1, <1>2

(* The window a request meets is one that a bucket can hold, it has not    *)
(* ended, and it is the stored one unless that is absent or over.          *)
LEMMA CurrentWindow ==
  ASSUME TypeOK, NEW g \in Gateways, NEW b \in Tenants
  PROVE  /\ Current(g, b) \in Bucket
         /\ now <= Current(g, b).resetAt
<1>1. /\ buckets[g][b] \in Bucket /\ now \in Nat
      /\ Window \in Nat \ {0} /\ Limit \in Nat \ {0}
  BY TimeAssumption, LimitAssumption DEF TypeOK, Times
<1> QED
  BY <1>1 DEF Current, Bucket, NoBucket

(* Where a request is counted.  RequireAPIKey overwrites what was sent     *)
(* with a key of an organization, so its requests are counted there; what  *)
(* is counted for an owner went on without a header.                       *)
LEMMA Routing ==
  ASSUME NEW k \in Keys, NEW sent \in Headers, NEW org, org = XOrgId(k, sent)
  PROVE  /\ org \in Headers
         /\ TenantOf(k) \in Tenants /\ TenantKey(k, org) \in Tenants
         /\ TenantKey(k, org) = IF org # NoOrg THEN <<"org", org>> ELSE TenantOf(k)
         /\ TenantOf(k)[1] = "org" => TenantKey(k, org) = TenantOf(k)
<1>1. OrgOf[k] \in Headers
  BY OrgAssumption DEF Headers
<1>2. org \in Headers
  BY <1>1 DEF XOrgId
<1>3. TenantOf(k) = TenantKey(k, OrgOf[k])
  BY DEF TenantOf, TenantKey
<1>4. TenantOf(k) \in Tenants /\ TenantKey(k, org) \in Tenants
  BY <1>1, <1>2, <1>3 DEF Tenants
<1>5. CASE OrgOf[k] # NoOrg
  BY <1>2, <1>4, <1>5 DEF XOrgId, TenantKey, TenantOf
<1>6. CASE OrgOf[k] = NoOrg
  BY <1>2, <1>4, <1>6 DEF XOrgId, TenantKey, TenantOf
<1> QED
  BY <1>5, <1>6

(* A bucket is named by an organization's id, or by an owner.              *)
LEMMA BucketNames ==
  ASSUME NEW b \in Tenants
  PROVE  b[1] \in {"org", "owner"}
BY DEF Tenants, TenantKey

-----------------------------------------------------------------------------
(* Counting what was let through                                           *)

LEMMA PartsAreSmaller ==
  ASSUME NEW A, IsFiniteSet(A), NEW B \in SUBSET A
  PROVE  /\ IsFiniteSet(B)
         /\ Cardinality(B) \in Nat
         /\ Cardinality(B) <= Cardinality(A)
BY FS_Subset, FS_CardinalityType

(* A bucket that fits allows twice the limit in any stretch as long as a   *)
(* window that is not over.                                                *)
LEMMA TwoWindows ==
  ASSUME NEW A \in SUBSET Requests, NEW w \in Bucket, Fits(A, w), now \in Times,
         NEW i \in Times, now <= i + Window
  PROVE  Cardinality(During(A, i, i + Window)) <= 2 * Limit
<1> DEFINE S == During(A, i, i + Window)
           start == w.resetAt - Window
<1>1. /\ Window \in Nat /\ Limit \in Nat /\ now \in Nat /\ i \in Nat
      /\ w.resetAt \in Int /\ w.count \in Nat /\ w.count <= Limit
      /\ \A a \in A : a.at \in Nat
  BY TimeAssumption, LimitAssumption DEF Times, Bucket, Requests
<1>2. CASE w = NoBucket
  <2>1. S = {}
    BY <1>2 DEF Fits, During
  <2>2. Cardinality(S) = 0
    BY <2>1, FS_EmptySet
  <2> HIDE DEF S
  <2> QED
    BY <1>1, <2>2 DEF S
<1>3. CASE w # NoBucket
  <2>1. /\ IsFiniteSet(A) /\ start <= now
        /\ Cardinality(Since(A, start)) = w.count
        /\ Cardinality(Between(A, start - Window, start)) <= Limit
    BY <1>3 DEF Fits, CountFits
  <2>2. S \subseteq Since(A, start) \cup Between(A, start - Window, start)
    BY <1>1, <2>1 DEF Since, Between, During
  <2>3. /\ IsFiniteSet(Since(A, start)) /\ IsFiniteSet(Between(A, start - Window, start))
        /\ Cardinality(Between(A, start - Window, start)) \in Nat
    BY <2>1, PartsAreSmaller DEF Since, Between
  <2> HIDE DEF S, start
  <2> DEFINE P == Since(A, start)
             Q == Between(A, start - Window, start)
  <2>4. IsFiniteSet(P \cup Q) /\ Cardinality(P \cup Q) <= Cardinality(P) + Cardinality(Q)
    <3>1. /\ IsFiniteSet(P \cup Q)
          /\ Cardinality(P \cup Q) = Cardinality(P) + Cardinality(Q) - Cardinality(P \cap Q)
      BY <2>3, FS_Union
    <3>2. Cardinality(P \cap Q) \in Nat
      BY <2>3, PartsAreSmaller
    <3>3. Cardinality(P) \in Nat
      BY <2>3, FS_CardinalityType
    <3> QED
      BY <2>3, <3>1, <3>2, <3>3
  <2>5. Cardinality(S) \in Nat /\ Cardinality(S) <= Cardinality(P \cup Q)
    BY <2>2, <2>4, PartsAreSmaller
  <2>6. Cardinality(P \cup Q) \in Nat
    BY <2>4, FS_CardinalityType
  <2> QED
    BY <1>1, <2>1, <2>3, <2>4, <2>5, <2>6 DEF S
<1> QED
  BY <1>2, <1>3

(* The window a request meets counts what came since it started, and what  *)
(* came before that still fits.                                            *)
LEMMA CurrentFits ==
  ASSUME TypeOK, NEW g \in Gateways, NEW t \in Tenants, NEW A \in SUBSET Requests,
         Fits(A, buckets[g][t])
  PROVE  CountFits(A, Current(g, t))
<1> DEFINE b == buckets[g][t]
           w == Current(g, t)
<1>1. /\ b \in Bucket /\ now \in Nat /\ b.resetAt \in Int /\ b.count \in Nat
      /\ b.count <= Limit
      /\ Window \in Nat \ {0} /\ Limit \in Nat \ {0}
      /\ \A a \in A : a.at \in Nat
  BY TimeAssumption, LimitAssumption DEF TypeOK, Times, Bucket, Requests
<1>2. CASE b # NoBucket /\ now <= b.resetAt
  <2>1. w = b
    BY <1>1, <1>2 DEF Current
  <2> QED
    BY <1>2, <2>1 DEF Fits
<1>3. CASE b = NoBucket \/ now > b.resetAt
  <2>1. w.count = 0 /\ w.resetAt = now + Window
    BY <1>3 DEF Current
  <2>2. w.resetAt - Window = now
    BY <1>1, <2>1
  <2>3. \A a \in A : a.at <= now
    BY DEF Fits
  <2>4. Since(A, now) = {}
    BY <1>1, <1>3 DEF Since, Fits, CountFits
  <2>5. Cardinality(Between(A, now - Window, now)) <= Limit
    <3>1. CASE b = NoBucket
      <4>1. Between(A, now - Window, now) = {}
        BY <3>1 DEF Fits, Between
      <4> QED
        BY <1>1, <4>1, FS_EmptySet
    <3>2. CASE b # NoBucket
      <4> DEFINE P == Since(A, b.resetAt - Window)
      <4>1. IsFiniteSet(A) /\ Cardinality(P) = b.count
        BY <3>2 DEF Fits, CountFits
      <4>2. Between(A, now - Window, now) \subseteq P
        BY <1>1, <1>3, <3>2 DEF Since, Between
      <4>3. IsFiniteSet(P)
        BY <4>1, PartsAreSmaller DEF Since
      <4> HIDE DEF P
      <4>4. /\ Cardinality(Between(A, now - Window, now)) \in Nat
            /\ Cardinality(Between(A, now - Window, now)) <= Cardinality(P)
        BY <4>2, <4>3, PartsAreSmaller
      <4> QED
        BY <1>1, <4>1, <4>4
    <3> QED
      BY <3>1, <3>2
  <2>6. \A a \in A : a.at <= w.resetAt
    BY <1>1, <2>1, <2>3
  <2>7. Cardinality(Since(A, now)) = 0
    BY <2>4, FS_EmptySet
  <2> QED
    BY <1>1, <2>1, <2>2, <2>5, <2>6, <2>7 DEF CountFits
<1> QED
  BY <1>1, <1>2, <1>3

(* One more request is not among those before.                             *)
LEMMA NextNumber ==
  ASSUME NEW A \in SUBSET Requests, RequestsFit(A),
         NEW at \in Times, NEW of \in Tenants, NEW org \in Headers,
         NEW new,
         new = [at |-> at, nth |-> Cardinality({a \in A : a.at = at /\ a.of = of /\ a.org = org}),
                of |-> of, org |-> org],
         of[1] = "org" => CountedFor(new) = of
  PROVE  /\ new \in Requests /\ new \notin A
         /\ RequestsFit(A \cup {new})
<1> DEFINE B == A \cup {new}
           alike == {a \in A : a.at = at /\ a.of = of /\ a.org = org}
<1>1. /\ new.at = at /\ new.of = of /\ new.org = org /\ new.nth = Cardinality(alike)
      /\ IsFiniteSet(A) /\ IsFiniteSet(alike)
  BY PartsAreSmaller DEF RequestsFit
<1>2. Cardinality(alike) \in Nat
  BY <1>1, FS_CardinalityType
<1>3. new \in Requests
  BY <1>1, <1>2 DEF Requests
<1>4. new \notin A
  <2> SUFFICES ASSUME new \in A PROVE FALSE
    OBVIOUS
  <2>1. Alike(A, new) = alike
    BY <1>1 DEF Alike
  <2>2. new.nth < Cardinality(alike)
    BY <2>1 DEF RequestsFit
  <2> QED
    BY <1>1, <1>2, <2>2
<1>5. IsFiniteSet(B)
  BY <1>1, FS_AddElement
<1>6. ASSUME NEW a \in B PROVE a.nth < Cardinality(Alike(B, a))
  <2>1. CASE a = new
    <3>1. Alike(B, a) = alike \cup {new}
      BY <1>1, <2>1 DEF Alike
    <3>2. new \notin alike
      BY <1>4
    <3>3. Cardinality(Alike(B, a)) = Cardinality(alike) + 1
      BY <1>1, <3>1, <3>2, FS_AddElement
    <3> QED
      BY <1>1, <1>2, <2>1, <3>3
  <2>2. CASE a # new
    <3>1. a \in A /\ a.nth < Cardinality(Alike(A, a)) /\ a.nth \in Nat
      BY <2>2 DEF RequestsFit, Requests
    <3>2. Alike(A, a) \subseteq Alike(B, a) /\ IsFiniteSet(Alike(B, a))
      BY <1>5, PartsAreSmaller DEF Alike
    <3>3. /\ Cardinality(Alike(A, a)) \in Nat /\ Cardinality(Alike(B, a)) \in Nat
          /\ Cardinality(Alike(A, a)) <= Cardinality(Alike(B, a))
      BY <3>2, PartsAreSmaller, FS_CardinalityType
    <3> QED
      BY <3>1, <3>3
  <2> QED
    BY <2>1, <2>2
<1>7. \A a \in B : a.of[1] = "org" => CountedFor(a) = a.of
  BY <1>1 DEF RequestsFit
<1> QED
  BY <1>3, <1>4, <1>5, <1>6, <1>7 DEF RequestsFit

(* One more request in the window.                                         *)
LEMMA OneMoreFits ==
  ASSUME now \in Nat, NEW A \in SUBSET Requests, NEW w \in Bucket, now <= w.resetAt,
         IsFiniteSet(A), \A a \in A : a.at <= now, CountFits(A, w),
         NEW new \in Requests, new \notin A, new.at = now
  PROVE  Fits(A \cup {new}, [w EXCEPT !.count = @ + 1])
<1> DEFINE B == A \cup {new}
           start == w.resetAt - Window
           v == [w EXCEPT !.count = @ + 1]
<1>1. /\ Window \in Nat /\ Limit \in Nat /\ w.resetAt \in Int /\ w.count \in Nat
      /\ \A a \in A : a.at \in Nat
      /\ v.count = w.count + 1 /\ v.resetAt = w.resetAt
  BY TimeAssumption, LimitAssumption DEF Times, Bucket, Requests
<1>3. IsFiniteSet(B)
  BY FS_AddElement
<1>4. v # NoBucket
  BY <1>1 DEF NoBucket
<1> HIDE DEF v
<1>5. CountFits(B, v)
  <2>1. start <= now /\ Cardinality(Since(A, start)) = w.count
    BY DEF CountFits
  <2>2. Since(B, start) = Since(A, start) \cup {new}
    BY <2>1 DEF Since
  <2>3. IsFiniteSet(Since(A, start)) /\ new \notin Since(A, start)
    BY PartsAreSmaller DEF Since
  <2>4. Cardinality(Since(B, start)) = w.count + 1
    BY <2>1, <2>2, <2>3, FS_AddElement
  <2>5. Between(B, start - Window, start) = Between(A, start - Window, start)
    BY <1>1, <2>1 DEF Between
  <2>6. \A a \in B : a.at <= w.resetAt
    BY DEF CountFits
  <2>7. Cardinality(Between(A, start - Window, start)) <= Limit
    BY DEF CountFits
  <2> QED
    BY <1>1, <2>1, <2>4, <2>5, <2>6, <2>7 DEF CountFits
<1>6. \A a \in B : a.at <= now
  BY <1>1
<1> QED
  BY <1>3, <1>4, <1>5, <1>6 DEF Fits, v

-----------------------------------------------------------------------------
(* Steps                                                                   *)

LEMMA HistoriesAreTyped ==
  ASSUME TypeOK, NEW g \in Gateways, NEW b \in Tenants
  PROVE  /\ admitted[g] \in SUBSET Requests
         /\ Counted(g, b) \in SUBSET Requests
         /\ buckets[g][b] \in Bucket
BY DEF TypeOK, Counted

LEMMA InitHolds == Init => Inductive
<1> SUFFICES ASSUME Init PROVE Inductive
  OBVIOUS
<1>1. TypeOK /\ PromisesOutlastWindows
  BY TimeAssumption, LimitAssumption
     DEF Init, TypeOK, PromisesOutlastWindows, Times, Bucket, NoBucket
<1>2. \A g \in Gateways : admitted[g] = {} /\ RequestsFit(admitted[g])
  BY FS_EmptySet DEF Init, RequestsFit
<1>3. \A g \in Gateways, b \in Tenants : Counted(g, b) = {}
  BY <1>2 DEF Counted
<1>4. BucketsFit
  BY <1>3, FS_EmptySet DEF Init, BucketsFit, Fits
<1>5. BucketsAreBounded
  <2>1. \A g \in Gateways, b \in Tenants, i \in Times :
          During(Counted(g, b), i, i + Window) = {}
    BY <1>3 DEF During
  <2> QED
    BY <2>1, FS_EmptySet, LimitAssumption DEF BucketsAreBounded
<1> QED
  BY <1>1, <1>2, <1>4, <1>5 DEF Inductive

LEMMA AdmitKeeps ==
  ASSUME Inductive, NEW g \in Gateways, NEW k \in Keys, NEW sent \in Headers,
         Admit(g, k, XOrgId(k, sent))
  PROVE  Inductive'
<1> DEFINE org == XOrgId(k, sent)
           b == TenantKey(k, org)
           w == Current(g, b)
           A == admitted[g]
           new == [at |-> now,
                   nth |-> Cardinality({a \in A : a.at = now /\ a.of = TenantOf(k)
                                                 /\ a.org = org}),
                   of |-> TenantOf(k), org |-> org]
           B == Counted(g, b)
           v == [w EXCEPT !.count = @ + 1]
<1>1. /\ org \in Headers /\ b \in Tenants /\ TenantOf(k) \in Tenants
      /\ b = IF org # NoOrg THEN <<"org", org>> ELSE TenantOf(k)
      /\ TenantOf(k)[1] = "org" => b = TenantOf(k)
  BY Routing
<1>2. /\ TypeOK /\ A \in SUBSET Requests /\ B \in SUBSET Requests
      /\ RequestsFit(A) /\ Fits(B, buckets[g][b])
      /\ now \in Nat /\ now \in Times
  BY <1>1, HistoriesAreTyped DEF Inductive, BucketsFit, TypeOK, Times
<1>3. w \in Bucket /\ w.count < Limit /\ now <= w.resetAt
  BY <1>1, <1>2, CurrentWindow DEF Admit
<1>4. v \in Bucket
  BY <1>3, LimitAssumption DEF Bucket
<1>5. /\ buckets' = [buckets EXCEPT ![g][b] = v]
      /\ admitted' = [admitted EXCEPT ![g] = A \cup {new}]
      /\ UNCHANGED <<now, promised>>
  BY <1>2 DEF Admit, LetThrough, TypeOK
<1>6. CountedFor(new) = b
  BY <1>1 DEF CountedFor
<1>7. new \in Requests /\ new \notin A /\ RequestsFit(A \cup {new})
  <2> DEFINE t == TenantOf(k)
  <2>1. new = [at |-> now,
               nth |-> Cardinality({a \in A : a.at = now /\ a.of = t /\ a.org = org}),
               of |-> t, org |-> org]
    OBVIOUS
  <2>2. t[1] = "org" => CountedFor(new) = t
    BY <1>1, <1>6
  <2>3. t \in Tenants
    BY <1>1
  <2> HIDE DEF new, t, org, A
  <2> QED
    BY <1>1, <1>2, <2>1, <2>2, <2>3, NextNumber
<1>8. Fits(B \cup {new}, v)
  <2>1. CountFits(B, w)
    BY <1>1, <1>2, CurrentFits
  <2>2. IsFiniteSet(B) /\ \A a \in B : a.at <= now
    BY <1>2 DEF Fits
  <2>3. new \notin B /\ new.at = now
    BY <1>7 DEF Counted
  <2> HIDE DEF w, B, new
  <2> QED
    BY <1>2, <1>3, <1>7, <2>1, <2>2, <2>3, OneMoreFits
<1> HIDE DEF w, v, new
<1>9. ASSUME NEW h \in Gateways, NEW c \in Tenants
      PROVE  /\ h = g /\ c = b => Counted(h, c)' = B \cup {new} /\ buckets'[h][c] = v
             /\ ~(h = g /\ c = b) =>
                  Counted(h, c)' = Counted(h, c) /\ buckets'[h][c] = buckets[h][c]
  <2>1. admitted'[h] = IF h = g THEN A \cup {new} ELSE admitted[h]
    BY <1>2, <1>5 DEF TypeOK
  <2>2. buckets'[h][c] = IF h = g /\ c = b THEN v ELSE buckets[h][c]
    BY <1>1, <1>2, <1>5 DEF TypeOK
  <2>3. Counted(h, c)' = {a \in admitted'[h] : CountedFor(a) = c}
    BY DEF Counted, CountedFor
  <2> HIDE DEF b
  <2> QED
    BY <1>6, <2>1, <2>2, <2>3 DEF Counted
<1>10. TypeOK'
  <2>1. buckets' \in [Gateways -> [Tenants -> Bucket]]
    BY <1>1, <1>2, <1>4, <1>5 DEF TypeOK
  <2>2. admitted' \in [Gateways -> SUBSET Requests]
    BY <1>2, <1>5, <1>7 DEF TypeOK
  <2> QED
    BY <1>2, <1>5, <2>1, <2>2 DEF TypeOK
<1>11. PromisesOutlastWindows'
  BY <1>5 DEF Inductive, PromisesOutlastWindows
<1>12. ASSUME NEW h \in Gateways PROVE RequestsFit(admitted[h])'
  <2>1. admitted'[h] = IF h = g THEN A \cup {new} ELSE admitted[h]
    BY <1>2, <1>5 DEF TypeOK
  <2>2. RequestsFit(admitted'[h])
    BY <1>7, <2>1 DEF Inductive
  <2> QED
    BY <2>2 DEF RequestsFit, Alike, CountedFor
<1>13. BucketsFit'
  <2> SUFFICES ASSUME NEW h \in Gateways, NEW c \in Tenants
               PROVE  Fits(Counted(h, c), buckets[h][c])'
    BY DEF BucketsFit
  <2>1. Fits(Counted(h, c)', buckets'[h][c])
    <3>1. CASE h = g /\ c = b
      BY <1>8, <1>9, <3>1
    <3>2. CASE ~(h = g /\ c = b)
      BY <1>9, <3>2 DEF Inductive, BucketsFit
    <3> QED
      BY <3>1, <3>2
  <2> QED
    BY <1>5, <2>1 DEF Fits, CountFits
<1>14. BucketsAreBounded'
  <2> SUFFICES ASSUME NEW h \in Gateways, NEW c \in Tenants, NEW i \in Times
               PROVE  Cardinality(During(Counted(h, c)', i, i + Window)) <= 2 * Limit
    BY DEF BucketsAreBounded, During
  <2>1. CASE h = g /\ c = b /\ now <= i + Window
    <3>1. Counted(h, c)' = B \cup {new}
      BY <1>9, <2>1
    <3>2. B \cup {new} \in SUBSET Requests
      BY <1>2, <1>7
    <3> HIDE DEF B
    <3> QED
      BY <1>2, <1>4, <1>8, <2>1, <3>1, <3>2, TwoWindows
  <2>2. CASE h = g /\ c = b /\ ~(now <= i + Window)
    <3>1. Counted(h, c)' = B \cup {new}
      BY <1>9, <2>2
    <3>2. During(B \cup {new}, i, i + Window) = During(B, i, i + Window)
      BY <2>2 DEF During, new
    <3>3. Cardinality(During(B, i, i + Window)) <= 2 * Limit
      BY <1>1 DEF Inductive, BucketsAreBounded
    <3> QED
      BY <3>1, <3>2, <3>3
  <2>3. CASE ~(h = g /\ c = b)
    BY <1>9, <2>3 DEF Inductive, BucketsAreBounded
  <2> QED
    BY <2>1, <2>2, <2>3
<1> QED
  BY <1>10, <1>11, <1>12, <1>13, <1>14 DEF Inductive

(* A refusal finds the bucket as it is stored: a new one has room.         *)
LEMMA RefusalKeepsBucket ==
  ASSUME TypeOK, NEW g \in Gateways, NEW k \in Keys, NEW sent \in Headers,
         Refuse(g, k, XOrgId(k, sent))
  PROVE  LET b == TenantKey(k, XOrgId(k, sent))
         IN  /\ b \in Tenants
             /\ Current(g, b) = buckets[g][b]
             /\ buckets[g][b] # NoBucket
             /\ buckets' = buckets
<1> DEFINE b == TenantKey(k, XOrgId(k, sent))
<1>1. Current(g, b).count >= Limit /\ Limit \in Nat \ {0}
  BY LimitAssumption DEF Refuse
<1>2. Current(g, b) = buckets[g][b] /\ buckets[g][b] # NoBucket
  BY <1>1 DEF Current
<1>3. b \in Tenants
  BY Routing
<1>4. buckets' = [buckets EXCEPT ![g][b] = Current(g, b)]
  BY DEF Refuse
<1> QED
  BY <1>2, <1>3, <1>4 DEF TypeOK

(* As the clock goes on, what was let through still fits.                  *)
LEMMA TimePasses ==
  ASSUME Inductive, now' \in Times, now <= now', UNCHANGED <<buckets, admitted>>
  PROVE  /\ \A g \in Gateways : RequestsFit(admitted[g])'
         /\ BucketsFit' /\ BucketsAreBounded'
<1>1. now \in Nat /\ now' \in Nat /\ Window \in Nat
  BY TimeAssumption DEF Inductive, TypeOK, Times
<1>2. ASSUME NEW g \in Gateways, NEW b \in Tenants
      PROVE  Counted(g, b)' = Counted(g, b)
  BY DEF Counted, CountedFor
<1>3. ASSUME NEW g \in Gateways, NEW b \in Tenants
      PROVE  Fits(Counted(g, b), buckets[g][b])'
  <2>1. Fits(Counted(g, b), buckets[g][b])
    BY DEF Inductive, BucketsFit
  <2>2. Counted(g, b) \in SUBSET Requests /\ buckets[g][b] \in Bucket
    BY HistoriesAreTyped DEF Inductive
  <2>3. buckets'[g][b] = buckets[g][b]
    OBVIOUS
  <2> DEFINE A == Counted(g, b)
             w == buckets[g][b]
  <2>4. w.resetAt \in Int /\ \A a \in A : a.at \in Nat
    BY <2>2 DEF Bucket, Requests, Times
  <2>5. A' = A /\ w' = w
    BY <1>2, <2>3
  <2> HIDE DEF A, w
  <2> QED
    BY <1>1, <2>1, <2>4, <2>5 DEF Fits, CountFits, A, w
<1>4. BucketsFit'
  BY <1>3 DEF BucketsFit
<1>5. BucketsAreBounded'
  BY <1>2 DEF Inductive, BucketsAreBounded, During
<1>6. \A g \in Gateways : RequestsFit(admitted[g])'
  BY DEF Inductive, RequestsFit, Alike, CountedFor
<1> QED
  BY <1>4, <1>5, <1>6

LEMMA RefuseKeeps ==
  ASSUME Inductive, NEW g \in Gateways, NEW k \in Keys, NEW sent \in Headers,
         Refuse(g, k, XOrgId(k, sent))
  PROVE  Inductive'
<1> DEFINE b == TenantKey(k, XOrgId(k, sent))
           w == Current(g, b)
           p == [to |-> TenantOf(k), bucket |-> b,
                 back |-> now' + RetryAfter(w.resetAt - now') * Second,
                 resetAt |-> w.resetAt]
<1>1. b \in Tenants /\ TenantOf(k) \in Tenants
  BY Routing
<1>2. w \in Bucket /\ w.resetAt \in Int
  BY <1>1, CurrentWindow DEF Inductive, Bucket
<1>3. /\ now' \in Times /\ now' \in Int /\ now <= now'
      /\ promised' = [promised EXCEPT ![g] = {p}]
      /\ UNCHANGED admitted
  BY TimeAssumption DEF Refuse, Inductive, TypeOK, Times
<1>4. p \in Promise /\ p.back > p.resetAt
  <2> DEFINE r == RetryAfter(w.resetAt - now')
  <2>1. r \in Int /\ r * Second > w.resetAt - now'
    BY <1>2, <1>3, RetryAfterOutlasts
  <2>2. r * Second \in Int
    BY <2>1, TimeAssumption
  <2>3. /\ p.back = now' + r * Second /\ p.resetAt = w.resetAt
        /\ p = [to |-> TenantOf(k), bucket |-> b, back |-> now' + r * Second,
                resetAt |-> w.resetAt]
    OBVIOUS
  <2> HIDE DEF w, r, b, p
  <2> QED
    BY <1>1, <1>2, <1>3, <2>1, <2>2, <2>3 DEF Promise
<1>5. UNCHANGED buckets
  BY RefusalKeepsBucket DEF Inductive
<1> HIDE DEF p, b
<1>6. promised' \in [Gateways -> SUBSET Promise]
  BY <1>3, <1>4 DEF Inductive, TypeOK
<1>7. PromisesOutlastWindows'
  BY <1>3, <1>4 DEF Inductive, TypeOK, PromisesOutlastWindows
<1>8. (\A h \in Gateways : RequestsFit(admitted[h])') /\ BucketsFit' /\ BucketsAreBounded'
  BY <1>3, <1>5, TimePasses
<1> QED
  BY <1>3, <1>5, <1>6, <1>7, <1>8 DEF Inductive, TypeOK

LEMMA RestartKeeps ==
  ASSUME Inductive, NEW g \in Gateways, Restart(g)
  PROVE  Inductive'
<1>1. TypeOK' /\ PromisesOutlastWindows'
  BY LimitAssumption
     DEF Restart, Inductive, TypeOK, PromisesOutlastWindows, Bucket, NoBucket
<1>2. ASSUME NEW h \in Gateways, NEW b \in Tenants
      PROVE  \/ Counted(h, b)' = {} /\ buckets'[h][b] = NoBucket
             \/ Counted(h, b)' = Counted(h, b) /\ buckets'[h][b] = buckets[h][b]
  <2>1. admitted'[h] = IF h = g THEN {} ELSE admitted[h]
    BY DEF Restart, Inductive, TypeOK
  <2>2. buckets'[h][b] = IF h = g THEN NoBucket ELSE buckets[h][b]
    BY DEF Restart, Inductive, TypeOK
  <2> QED
    BY <2>1, <2>2 DEF Counted, CountedFor
<1>3. BucketsAreBounded'
  <2> SUFFICES ASSUME NEW h \in Gateways, NEW b \in Tenants, NEW i \in Times
               PROVE  Cardinality(During(Counted(h, b)', i, i + Window)) <= 2 * Limit
    BY DEF BucketsAreBounded, During
  <2>1. CASE Counted(h, b)' = {}
    <3>1. During(Counted(h, b)', i, i + Window) = {}
      BY <2>1 DEF During
    <3> QED
      BY <3>1, FS_EmptySet, LimitAssumption
  <2>2. CASE Counted(h, b)' = Counted(h, b)
    BY <2>2 DEF Inductive, BucketsAreBounded
  <2> QED
    BY <1>2, <2>1, <2>2
<1>4. BucketsFit'
  <2> SUFFICES ASSUME NEW h \in Gateways, NEW b \in Tenants
               PROVE  Fits(Counted(h, b), buckets[h][b])'
    BY DEF BucketsFit
  <2>1. now' = now
    BY DEF Restart
  <2>2. Fits(Counted(h, b)', buckets'[h][b])
    BY <1>2, FS_EmptySet DEF Fits, Inductive, BucketsFit
  <2> QED
    BY <2>1, <2>2 DEF Fits, CountFits
<1>5. ASSUME NEW h \in Gateways PROVE RequestsFit(admitted[h])'
  <2>1. admitted'[h] = IF h = g THEN {} ELSE admitted[h]
    BY DEF Restart, Inductive, TypeOK
  <2>2. RequestsFit(admitted'[h])
    BY <2>1, FS_EmptySet DEF RequestsFit, Inductive
  <2> QED
    BY <2>2 DEF RequestsFit, Alike, CountedFor
<1> QED
  BY <1>1, <1>3, <1>4, <1>5 DEF Inductive

LEMMA TickKeeps ==
  ASSUME Inductive, Tick PROVE Inductive'
<1>1. now' \in Times /\ now <= now' /\ UNCHANGED <<buckets, admitted, promised>>
  BY TimeAssumption DEF Tick, Inductive, TypeOK, Times
<1> QED
  BY <1>1, TimePasses DEF Inductive, TypeOK, PromisesOutlastWindows

-----------------------------------------------------------------------------
(* The theorems                                                            *)

(* The inductive invariant.                                                *)
THEOREM Invariance == Spec => []Inductive
<1>1. Inductive /\ [Next]_vars => Inductive'
  <2> SUFFICES ASSUME Inductive, [Next]_vars PROVE Inductive'
    OBVIOUS
  <2>1. CASE Tick
    BY <2>1, TickKeeps
  <2>2. CASE \E g \in Gateways : Restart(g)
    BY <2>2, RestartKeeps
  <2>3. CASE \E g \in Gateways, k \in Keys, sent \in Headers : Admit(g, k, XOrgId(k, sent))
    BY <2>3, AdmitKeeps
  <2>4. CASE \E g \in Gateways, k \in Keys, sent \in Headers : Refuse(g, k, XOrgId(k, sent))
    BY <2>4, RefuseKeeps
  <2>5. CASE UNCHANGED vars
    <3>1. now' \in Times /\ now <= now' /\ UNCHANGED <<buckets, admitted, promised>>
      BY <2>5 DEF vars, Inductive, TypeOK, Times
    <3> QED
      BY <3>1, TimePasses DEF Inductive, TypeOK, PromisesOutlastWindows
  <2> QED
    BY <2>1, <2>2, <2>3, <2>4, <2>5 DEF Next
<1> QED
  BY <1>1, InitHolds, PTL DEF Spec

(* A bucket never counts more than the limit, nor does any variable of the *)
(* limiter leave its type (ratelimit.go:67-84).                            *)
THEOREM TypeCorrect == Spec => []TypeOK
<1>1. Inductive => TypeOK
  BY DEF Inductive
<1> QED
  BY <1>1, Invariance, PTL

(* A client that waits as long as Retry-After says is not refused by the   *)
(* window that refused it, for any window and second, also when allow is   *)
(* slow between its two readings of the clock (ratelimit.go:46, :79).      *)
THEOREM WaitingIsEnough == Spec => []RetryAfterSuffices
<1>1. Inductive => RetryAfterSuffices
  <2> SUFFICES ASSUME Inductive, NEW g \in Gateways, NEW p \in promised[g], now >= p.back
               PROVE  Current(g, p.bucket).resetAt # p.resetAt
    BY DEF RetryAfterSuffices
  <2>1. p \in Promise /\ p.bucket \in Tenants /\ p.back \in Int /\ p.resetAt \in Int
    BY DEF Inductive, TypeOK, Promise
  <2>2. now > p.resetAt
    BY <2>1, TimeAssumption DEF Inductive, TypeOK, Times, PromisesOutlastWindows
  <2>3. now <= Current(g, p.bucket).resetAt
    BY <2>1, CurrentWindow DEF Inductive
  <2>4. now \in Int /\ Current(g, p.bucket).resetAt \in Int
    BY <2>1, CurrentWindow, TimeAssumption DEF Inductive, TypeOK, Times, Bucket
  <2> QED
    BY <2>1, <2>2, <2>3, <2>4
<1> QED
  BY <1>1, Invariance, PTL

(* In any stretch as long as a window, wherever it starts, a process lets  *)
(* through at most twice the limit of an organization's requests, whatever *)
(* X-Org-Id anyone sends, and of an owner's that send none (auth.go:34-36, *)
(* ratelimit.go:57-84).                                                    *)
THEOREM AtMostTwiceTheLimit == Spec => []SlidingBound
<1>1. Inductive => SlidingBound
  <2> SUFFICES ASSUME Inductive, NEW g \in Gateways, NEW t \in Tenants, NEW i \in Times
               PROVE  Cardinality(During(OwnRequests(g, t), i, i + Window)) <= 2 * Limit
    BY DEF SlidingBound
  <2> DEFINE S == During(OwnRequests(g, t), i, i + Window)
             C == During(Counted(g, t), i, i + Window)
  <2>1. OwnRequests(g, t) \subseteq Counted(g, t)
    <3> SUFFICES ASSUME NEW a \in OwnRequests(g, t) PROVE CountedFor(a) = t
      BY DEF OwnRequests, Counted
    <3>1. CASE t[1] = "org"
      BY <3>1 DEF OwnRequests, Inductive, RequestsFit
    <3>2. CASE t[1] = "owner"
      BY <3>2 DEF OwnRequests, CountedFor
    <3> QED
      BY <3>1, <3>2, BucketNames
  <2>2. S \subseteq C
    BY <2>1 DEF During
  <2>3. IsFiniteSet(C)
    BY PartsAreSmaller DEF Inductive, BucketsFit, Fits, During
  <2>4. Cardinality(C) <= 2 * Limit
    BY DEF Inductive, BucketsAreBounded
  <2> HIDE DEF S, C
  <2>5. Cardinality(S) \in Nat /\ Cardinality(S) <= Cardinality(C) /\ Cardinality(C) \in Nat
    BY <2>2, <2>3, PartsAreSmaller, FS_CardinalityType
  <2> QED
    BY <2>4, <2>5, LimitAssumption DEF S
<1> QED
  BY <1>1, Invariance, PTL

(* Whoever is refused, Limit requests were let through in the last window, *)
(* by this process and from keys of the same tenant or, when that is an    *)
(* organization, from keys that have none; never from the keys of another  *)
(* organization (auth.go:34-36, ratelimit.go:57-84).                       *)
THEOREM RefusalsAreEarned == Spec => RefusedOnlyWhenSpent
<1>1. ASSUME Inductive, [Next]_vars, NEW g \in Gateways, NEW p \in promised'[g] \ promised[g]
      PROVE  Cardinality(During({a \in admitted[g] : MaySpend(a, p.bucket)},
                                now - Window, now)) >= Limit
  <2>1. PICK h \in Gateways, k \in Keys, sent \in Headers : Refuse(h, k, XOrgId(k, sent))
    <3>1. CASE \E h \in Gateways : Restart(h)
      BY <1>1, <3>1 DEF Restart, Inductive, TypeOK
    <3>2. CASE \/ Tick \/ UNCHANGED vars
               \/ \E h \in Gateways, k \in Keys, sent \in Headers :
                    Admit(h, k, XOrgId(k, sent))
      BY <1>1, <3>2 DEF Tick, Admit, vars
    <3> QED
      BY <1>1, <3>1, <3>2 DEF Next
  <2> DEFINE b == TenantKey(k, XOrgId(k, sent))
             w == buckets[g][b]
             start == w.resetAt - Window
             A == Counted(g, b)
             S == During({a \in admitted[g] : MaySpend(a, b)}, now - Window, now)
  <2>2. h = g /\ p.bucket = b
    BY <1>1, <2>1 DEF Refuse, Inductive, TypeOK
  <2>3. b \in Tenants /\ w # NoBucket /\ w.count >= Limit /\ now <= w.resetAt
    <3>1. b \in Tenants /\ Current(g, b) = w /\ w # NoBucket
      BY <1>1, <2>1, <2>2, RefusalKeepsBucket DEF Inductive
    <3>2. Current(g, b).count >= Limit
      BY <2>1, <2>2 DEF Refuse
    <3> QED
      BY <1>1, <3>1, <3>2, CurrentWindow DEF Inductive
  <2>4. IsFiniteSet(A) /\ CountFits(A, w) /\ \A a \in A : a.at <= now
    BY <1>1, <2>3 DEF Inductive, BucketsFit, Fits
  <2>5. /\ now \in Nat /\ Window \in Nat /\ Limit \in Nat
        /\ w.resetAt \in Int /\ w.count \in Nat /\ \A a \in A : a.at \in Nat
    BY <1>1, <2>3, HistoriesAreTyped, TimeAssumption, LimitAssumption
       DEF Inductive, TypeOK, Times, Bucket, Requests
  <2>6. \A a \in A : a \in admitted[g] /\ MaySpend(a, b)
    <3> SUFFICES ASSUME NEW a \in A PROVE MaySpend(a, b)
      BY DEF Counted
    <3>1. a \in admitted[g] /\ CountedFor(a) = b /\ a.of \in Tenants
      BY <1>1 DEF Counted, Inductive, TypeOK, Requests
    <3>2. CASE a.of[1] = "org"
      BY <1>1, <3>1, <3>2 DEF Inductive, RequestsFit, MaySpend
    <3>3. CASE a.of[1] = "owner" /\ a.org = NoOrg
      BY <3>1, <3>3 DEF CountedFor, MaySpend
    <3>4. CASE a.of[1] = "owner" /\ a.org # NoOrg
      <4>1. b = <<"org", a.org>>
        BY <3>1, <3>4 DEF CountedFor
      <4>2. b[1] = "org"
        BY <4>1
      <4> QED
        BY <3>4, <4>2 DEF MaySpend
    <3> QED
      BY <3>1, <3>2, <3>3, <3>4, BucketNames
  <2>7. Since(A, start) \subseteq S
    BY <2>3, <2>4, <2>5, <2>6 DEF Since, During
  <2>8. IsFiniteSet(S)
    BY <1>1, PartsAreSmaller DEF Inductive, RequestsFit, During
  <2>9. Cardinality(Since(A, start)) = w.count
    BY <2>4 DEF CountFits
  <2> HIDE DEF S, A, w, start
  <2>10. /\ Cardinality(S) \in Nat
         /\ Cardinality(Since(A, start)) <= Cardinality(S)
    BY <2>7, <2>8, PartsAreSmaller, FS_CardinalityType
  <2>11. Cardinality(S) >= Limit
    BY <2>3, <2>5, <2>9, <2>10
  <2> QED
    BY <2>2, <2>11 DEF S
<1>2. Inductive /\ [Next]_vars =>
        [\A g \in Gateways : \A p \in promised'[g] \ promised[g] :
           LET spent == {a \in admitted[g] : MaySpend(a, p.bucket)}
           IN  Cardinality(During(spent, now - Window, now)) >= Limit]_vars
  BY <1>1
<1> QED
  BY <1>2, Invariance, PTL DEF RefusedOnlyWhenSpent, Spec

=============================================================================
