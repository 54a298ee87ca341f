------------------------ MODULE EventMatching_proofs ------------------------
(***************************************************************************)
(* Proofs about what an event is taken for (TransactionParser) and what it *)
(* is matched with (ConditionEngine), for any transactions, conditions,    *)
(* events and times.  The first two parts are about functions that are     *)
(* defined step by step, which the windows, their totals and the balances  *)
(* are computed with.                                                      *)
(***************************************************************************)
EXTENDS ConditionEngine, TransactionParser, SequenceTheorems, FiniteSetTheorems, TLAPS

-----------------------------------------------------------------------------
(* Induction                                                               *)
(*                                                                         *)
(* A set of numbers has a least one, because < is well founded.  That is   *)
(* induction without a predicate as a parameter, and enough to show that   *)
(* the functions the model defines step by step are what they say.         *)

LEMMA LeastNumber ==
  ASSUME NEW A \in SUBSET Nat, A # {}
  PROVE  \E m \in A : \A k \in A : m <= k
<1> DEFINE R == OpToRel(<, Nat)
<1>1. IsWellFoundedOn(R, Nat)
  BY NatLessThanWellFounded
<1>2. \A i, j \in Nat : i < j => <<i, j>> \in R
  BY DEF OpToRel
<1> HIDE DEF R
<1>3. PICK m \in A : \A k \in A : ~(<<k, m>> \in R)
  BY <1>1, WFMin
<1>4. ASSUME NEW k \in A PROVE m <= k
  <2>1. m \in Nat /\ k \in Nat /\ ~(k < m)
    BY <1>2, <1>3
  <2> QED
    BY <2>1
<1> QED
  BY <1>4

\* Induction up to a number.
LEMMA UpTo ==
  ASSUME NEW n \in Nat, NEW A, 0 \in A, \A i \in 1 .. n : i - 1 \in A => i \in A
  PROVE  0 .. n \subseteq A
<1> DEFINE B == {i \in 0 .. n : i \notin A}
<1>1. SUFFICES ASSUME B # {} PROVE FALSE
  OBVIOUS
<1>2. B \in SUBSET Nat
  OBVIOUS
<1>3. PICK m \in B : \A k \in B : m <= k
  <2> HIDE DEF B
  <2> QED
    BY <1>1, <1>2, LeastNumber
<1>4. m \in 1 .. n /\ m - 1 \in 0 .. n /\ m \notin A
  BY <1>3
<1>5. m - 1 \in A
  BY <1>3, <1>4
<1> QED
  BY <1>4, <1>5

Follows(f, n, base, step) == f[0] = base /\ \A i \in 1 .. n : f[i] = step[i][f[i - 1]]

\* A function that is defined step by step exists.
LEMMA Stepwise ==
  ASSUME NEW n \in Nat, NEW S, NEW base \in S, NEW step \in [1 .. n -> [S -> S]]
  PROVE  \E f \in [0 .. n -> S] : Follows(f, n, base, step)
<1> DEFINE Good(k, f) == f[0] = base /\ \A i \in 1 .. k : f[i] = step[i][f[i - 1]]
           Reached(k) == \E f \in [0 .. n -> S] : Good(k, f)
           A == {k \in 0 .. n : Reached(k)}
<1>1. Reached(0)
  <2>1. [i \in 0 .. n |-> base] \in [0 .. n -> S] /\ Good(0, [i \in 0 .. n |-> base])
    OBVIOUS
  <2> QED
    BY <2>1
<1>2. ASSUME NEW k \in 1 .. n, Reached(k - 1) PROVE Reached(k)
  <2>1. PICK f \in [0 .. n -> S] : Good(k - 1, f)
    BY <1>2
  <2> DEFINE g == [f EXCEPT ![k] = step[k][f[k - 1]]]
  <2>2. k - 1 \in 0 .. n /\ step[k][f[k - 1]] \in S
    BY <2>1
  <2>3. g \in [0 .. n -> S] /\ g[k] = step[k][f[k - 1]] /\ \A i \in 0 .. n : i # k => g[i] = f[i]
    BY <2>1, <2>2
  <2>4. Good(k, g)
    <3> HIDE DEF g
    <3>1. g[0] = base
      BY <2>1, <2>3
    <3>2. ASSUME NEW i \in 1 .. k PROVE g[i] = step[i][g[i - 1]]
      <4>1. CASE i = k
        BY <2>2, <2>3, <4>1
      <4>2. CASE i < k
        <5>1. i \in 1 .. k - 1 /\ i \in 0 .. n /\ i - 1 \in 0 .. n /\ i # k /\ i - 1 # k
          BY <4>2
        <5> QED
          BY <2>1, <2>3, <5>1
      <4> QED
        BY <4>1, <4>2
    <3> QED
      BY <3>1, <3>2
  <2> HIDE DEF g, Good
  <2> QED
    BY <2>3, <2>4
<1> HIDE DEF Reached
<1>3. 0 .. n \subseteq A
  <2>1. 0 \in A
    BY <1>1
  <2>2. \A k \in 1 .. n : k - 1 \in A => k \in A
    BY <1>2
  <2> HIDE DEF A
  <2> QED
    BY <2>1, <2>2, UpTo
<1>4. Reached(n)
  BY <1>3
<1> QED
  BY <1>4 DEF Reached, Follows

-----------------------------------------------------------------------------
(* Totals                                                                  *)

\* The total of a sequence is the last of its partial sums.
LEMMA TotalSteps ==
  ASSUME NEW s, NEW n \in Nat, Len(s) = n, \A i \in 1 .. n : s[i].amount \in Nat
  PROVE  \E f \in [0 .. n -> Nat] : /\ f[0] = 0 /\ \A i \in 1 .. n : f[i] = f[i - 1] + s[i].amount
                                    /\ Total(s) = f[n]
<1> DEFINE step == [i \in 1 .. n |-> [t \in Nat |-> t + s[i].amount]]
           Sums(f) == f = [i \in 0 .. n |-> IF i = 0 THEN 0 ELSE f[i - 1] + s[i].amount]
           sum == CHOOSE f : Sums(f)
<1>1. \E f \in [0 .. n -> Nat] : Follows(f, n, 0, step)
  <2>1. step \in [1 .. n -> [Nat -> Nat]] /\ 0 \in Nat
    OBVIOUS
  <2> HIDE DEF step
  <2> QED
    BY <2>1, Stepwise
<1>2. PICK f \in [0 .. n -> Nat] : f[0] = 0 /\ \A i \in 1 .. n : f[i] = step[i][f[i - 1]]
  BY <1>1 DEF Follows
<1>3. ASSUME NEW i \in 0 .. n PROVE f[i] = IF i = 0 THEN 0 ELSE f[i - 1] + s[i].amount
  <2>1. CASE i = 0
    BY <1>2, <2>1
  <2>2. CASE i # 0
    <3>1. i \in 1 .. n /\ f[i - 1] \in Nat
      BY <1>2, <2>2
    <3> QED
      BY <1>2, <2>2, <3>1
  <2> QED
    BY <2>1, <2>2
<1>4. Sums(f)
  BY <1>2, <1>3
<1>5. Sums(sum)
  <2> HIDE DEF Sums
  <2> QED
    BY <1>4
<1>6. Total(s) = sum[n]
  BY DEF Total
<1> HIDE DEF sum
<1>7. \A i \in 0 .. n : sum[i] = IF i = 0 THEN 0 ELSE sum[i - 1] + s[i].amount
  BY <1>5
<1>8. sum[0] = 0 /\ \A i \in 1 .. n : sum[i] = sum[i - 1] + s[i].amount
  BY <1>7
<1>9. 0 .. n \subseteq {i \in 0 .. n : sum[i] \in Nat}
  <2> DEFINE B == {i \in 0 .. n : sum[i] \in Nat}
  <2>1. 0 \in B
    BY <1>8
  <2>2. ASSUME NEW i \in 1 .. n, i - 1 \in B PROVE i \in B
    <3>1. sum[i - 1] \in Nat /\ s[i].amount \in Nat /\ i \in 0 .. n
      BY <2>2
    <3> QED
      BY <1>8, <3>1
  <2> HIDE DEF B
  <2>3. 0 .. n \subseteq B
    BY <2>1, <2>2, UpTo
  <2> QED
    BY <2>3 DEF B
<1>10. sum \in [0 .. n -> Nat]
  BY <1>5, <1>9
<1> QED
  BY <1>6, <1>8, <1>10

LEMMA Products ==
  ASSUME NEW x \in Nat, NEW y \in Nat, NEW k \in Nat
  PROVE  /\ x * k \in Nat /\ (x + y) * k = x * k + y * k
         /\ x <= y => x * k <= y * k
OBVIOUS

\* What k times an earlier total and an amount r times come to.
LEMMA WithinTimes ==
  ASSUME NEW x \in Nat, NEW a \in Nat, NEW r \in Nat, NEW k \in Nat, r <= k
  PROVE  x * k + a * r <= (x + a) * k
<1>1. (x + a) * k = x * k + a * k
  BY Products
<1>2. a * r = r * a /\ a * k = k * a /\ r * a <= k * a
  BY Products
<1>3. x * k \in Nat /\ r * a \in Nat /\ k * a \in Nat
  BY Products
<1> QED
  BY <1>1, <1>2, <1>3

LEMMA OneMoreTime ==
  ASSUME NEW a \in Nat, NEW q \in Nat, NEW r \in Nat, q < r
  PROVE  a * q + a <= a * r
<1>1. (q + 1) * a = q * a + a /\ (q + 1) * a <= r * a
  BY Products
<1>2. a * q = q * a /\ a * r = r * a
  OBVIOUS
<1> QED
  BY <1>1, <1>2

\* The arithmetic of one more entry, of a later event or of the same one.
LEMMA OneMoreEntry ==
  ASSUME NEW k \in Nat, NEW x \in Nat, NEW u \in Nat, NEW r \in Nat, NEW y \in Nat,
         NEW x1 \in Nat, NEW u1 \in Nat, NEW q \in Nat, 1 <= r, r <= k, q <= k,
         y <= x1 * k + u1 * q, x1 + u1 <= x \/ (x1 = x /\ u1 = u /\ q < r)
  PROVE  y + u <= x * k + u * r /\ y + u <= (x + u) * k
<1>1. x + u \in Nat /\ x1 + u1 \in Nat
  OBVIOUS
<1>2. PICK xk \in Nat, ur \in Nat, all \in Nat, x1k \in Nat, u1q \in Nat, all1 \in Nat :
        /\ xk = x * k /\ ur = u * r /\ all = (x + u) * k
        /\ x1k = x1 * k /\ u1q = u1 * q /\ all1 = (x1 + u1) * k
  BY <1>1, Products
<1>3. y + u <= xk + ur
  <2>1. CASE x1 + u1 <= x
    <3>1. x1k + u1q <= all1
      BY <1>2, WithinTimes
    <3>2. all1 <= xk
      BY <1>1, <1>2, <2>1, Products
    <3>3. u <= ur
      <4>1. u * 0 + u <= u * r /\ u * 0 = 0
        BY OneMoreTime
      <4> QED
        BY <1>2, <4>1
    <3>4. y <= x1k + u1q
      BY <1>2
    <3> QED
      BY <3>1, <3>2, <3>3, <3>4
  <2>2. CASE x1 = x /\ u1 = u /\ q < r
    <3>1. u1q + u <= ur
      BY <1>2, <2>2, OneMoreTime
    <3>2. y <= xk + u1q
      BY <1>2, <2>2
    <3> QED
      BY <3>1, <3>2
  <2> QED
    BY <2>1, <2>2
<1>4. xk + ur <= all
  BY <1>2, WithinTimes
<1>5. y + u <= all
  BY <1>3, <1>4
<1> QED
  BY <1>2, <1>3, <1>5

\* Partial sums of natural numbers do not fall.
IsSums(T, a, m) == T[0] = 0 /\ \A i \in 1 .. m : T[i] = T[i - 1] + a[i]

LEMMA SumsGrow ==
  ASSUME NEW m \in Nat, NEW T \in [0 .. m -> Nat], NEW a \in [1 .. m -> Nat], IsSums(T, a, m),
         NEW i \in 0 .. m, NEW j \in i .. m
  PROVE  T[i] <= T[j]
<1> DEFINE A == {d \in 0 .. m : d >= i => T[i] <= T[d]}
<1>1. 0 \in A
  <2>1. 0 >= i => i = 0
    OBVIOUS
  <2> QED
    BY <2>1
<1>2. ASSUME NEW d \in 1 .. m, d - 1 \in A PROVE d \in A
  <2>1. T[d] = T[d - 1] + a[d] /\ a[d] \in Nat /\ T[d - 1] \in Nat /\ T[i] \in Nat
    BY DEF IsSums
  <2>2. CASE d > i
    <3>1. T[i] <= T[d - 1]
      BY <1>2, <2>2
    <3> QED
      BY <2>1, <3>1
  <2>3. CASE d <= i
    <3>1. d >= i => d = i
      BY <2>3
    <3> QED
      BY <2>1, <3>1
  <2> QED
    BY <2>2, <2>3
<1>3. 0 .. m \subseteq A
  <2> HIDE DEF A
  <2> QED
    BY <1>1, <1>2, UpTo
<1> QED
  BY <1>3

\* One entry comes after another: it is of a later event, or of the same one and
\* of a condition that was checked later.
Later(src, rank, i, j) == src[i] < src[j] \/ (src[i] = src[j] /\ rank[i] < rank[j])

\* What entries add up to: k times all earlier events, and the event of the last
\* one once for each entry of it.
RunBound(S, T, a, src, rank, k, i) == S[i] <= T[src[i] - 1] * k + a[src[i]] * rank[i]

RunBefore(S, T, a, src, rank, k, i) ==
  i > 1 => RunBound(S, T, a, src, rank, k, i - 1) /\ Later(src, rank, i - 1, i)

LEMMA InRange ==
  ASSUME NEW m \in Nat, NEW v \in 1 .. m
  PROVE  v \in Nat /\ v \in 0 .. m /\ v - 1 \in 0 .. m /\ 1 <= v /\ v <= m
OBVIOUS

LEMMA EarlierRange ==
  ASSUME NEW m \in Nat, NEW v \in 1 .. m, NEW u \in 1 .. m, u < v
  PROVE  u \in 0 .. m /\ v - 1 \in u .. m
OBVIOUS

LEMMA RunStep ==
  ASSUME NEW n \in Nat, NEW m \in Nat, NEW k \in Nat,
         NEW a \in [1 .. m -> Nat], NEW T \in [0 .. m -> Nat], IsSums(T, a, m),
         NEW b \in [1 .. n -> Nat], NEW S \in [0 .. n -> Nat], IsSums(S, b, n),
         NEW src \in [1 .. n -> 1 .. m], NEW rank \in [1 .. n -> 1 .. k],
         NEW i \in 1 .. n, b[i] = a[src[i]],
         RunBefore(S, T, a, src, rank, k, i)
  PROVE  RunBound(S, T, a, src, rank, k, i) /\ S[i] <= T[src[i]] * k
<1>1. /\ src[i] \in 1 .. m /\ src[i] - 1 \in 0 .. m /\ i - 1 \in 0 .. n
      /\ rank[i] \in Nat /\ 1 <= rank[i] /\ rank[i] <= k
  OBVIOUS
<1>2. T[src[i]] = T[src[i] - 1] + a[src[i]] /\ S[i] = S[i - 1] + a[src[i]]
  BY <1>1 DEF IsSums
<1>3. T[src[i] - 1] \in Nat /\ a[src[i]] \in Nat /\ S[i - 1] \in Nat
  BY <1>1
<1> DEFINE Prior(x1, u1, q) ==
             /\ q <= k /\ S[i - 1] <= x1 * k + u1 * q
             /\ \/ x1 + u1 <= T[src[i] - 1]
                \/ x1 = T[src[i] - 1] /\ u1 = a[src[i]] /\ q < rank[i]
<1>4. \E x1 \in Nat, u1 \in Nat, q \in Nat : Prior(x1, u1, q)
  <2>1. CASE i = 1
    <3>1. S[i - 1] = 0
      BY <2>1 DEF IsSums
    <3>2. 0 * k + 0 * 0 = 0 /\ 0 <= k /\ 0 + 0 <= T[src[i] - 1]
      BY <1>3
    <3>3. Prior(0, 0, 0)
      BY <3>1, <3>2
    <3> HIDE DEF Prior
    <3> QED
      BY <3>3, 0 \in Nat
  <2>2. CASE i > 1
    <3>1. i - 1 \in 1 .. n
      BY <2>2
    <3>2. src[i - 1] \in 1 .. m /\ rank[i - 1] \in 1 .. k
      BY <3>1
    <3>3. /\ src[i - 1] \in 0 .. m /\ src[i - 1] - 1 \in 0 .. m /\ src[i - 1] \in Nat
          /\ rank[i - 1] \in Nat /\ rank[i - 1] <= k
      BY <3>2, InRange
    <3>4. T[src[i - 1]] = T[src[i - 1] - 1] + a[src[i - 1]]
      BY <3>2 DEF IsSums
    <3>5. T[src[i - 1] - 1] \in Nat /\ a[src[i - 1]] \in Nat
      BY <3>2, <3>3
    <3>6. S[i - 1] <= T[src[i - 1] - 1] * k + a[src[i - 1]] * rank[i - 1]
      BY <2>2 DEF RunBefore, RunBound
    <3>7. \/ T[src[i - 1] - 1] + a[src[i - 1]] <= T[src[i] - 1]
          \/ /\ T[src[i - 1] - 1] = T[src[i] - 1] /\ a[src[i - 1]] = a[src[i]]
             /\ rank[i - 1] < rank[i]
      <4>1. CASE src[i - 1] < src[i]
        <5>1. src[i - 1] \in 0 .. m /\ src[i] - 1 \in src[i - 1] .. m
          BY <1>1, <3>2, <4>1, EarlierRange, ZenonT(60)
        <5>2. T[src[i - 1]] <= T[src[i] - 1]
          BY <5>1, SumsGrow, ZenonT(60)
        <5> QED
          BY <3>4, <5>2
      <4>2. CASE src[i - 1] = src[i] /\ rank[i - 1] < rank[i]
        BY <4>2
      <4> QED
        BY <2>2, <4>1, <4>2 DEF RunBefore, Later
    <3>8. Prior(T[src[i - 1] - 1], a[src[i - 1]], rank[i - 1])
      BY <3>3, <3>6, <3>7
    <3> HIDE DEF Prior
    <3> QED
      BY <3>3, <3>5, <3>8
  <2> QED
    BY <2>1, <2>2
<1>5. /\ S[i - 1] + a[src[i]] <= T[src[i] - 1] * k + a[src[i]] * rank[i]
      /\ S[i - 1] + a[src[i]] <= (T[src[i] - 1] + a[src[i]]) * k
  <2>1. PICK x1 \in Nat, u1 \in Nat, q \in Nat : Prior(x1, u1, q)
    BY <1>4
  <2> QED
    BY <1>1, <1>3, <2>1, OneMoreEntry
<1> QED
  BY <1>2, <1>5 DEF RunBound

\* A sequence that repeats each element of another at most k times, in its order,
\* has at most k times its total.
LEMMA TotalBound ==
  ASSUME NEW n \in Nat, NEW m \in Nat, NEW k \in Nat, NEW s, NEW t, Len(s) = n, Len(t) = m,
         \A i \in 1 .. n : s[i].amount \in Nat, \A i \in 1 .. m : t[i].amount \in Nat,
         NEW src \in [1 .. n -> 1 .. m], NEW rank \in [1 .. n -> 1 .. k],
         \A i \in 1 .. n : s[i].amount = t[src[i]].amount,
         \A i, j \in 1 .. n : i < j => Later(src, rank, i, j)
  PROVE  Total(s) <= Total(t) * k
<1>1. PICK S \in [0 .. n -> Nat] : /\ S[0] = 0 /\ \A i \in 1 .. n : S[i] = S[i - 1] + s[i].amount
                                   /\ Total(s) = S[n]
  BY TotalSteps
<1>2. PICK T \in [0 .. m -> Nat] : /\ T[0] = 0 /\ \A i \in 1 .. m : T[i] = T[i - 1] + t[i].amount
                                   /\ Total(t) = T[m]
  BY TotalSteps
<1>3. PICK a \in [1 .. m -> Nat] : \A i \in 1 .. m : a[i] = t[i].amount
  <2>1. [i \in 1 .. m |-> t[i].amount] \in [1 .. m -> Nat]
    OBVIOUS
  <2> QED
    BY <2>1
<1>4. PICK b \in [1 .. n -> Nat] : \A i \in 1 .. n : b[i] = s[i].amount
  <2>1. [i \in 1 .. n |-> s[i].amount] \in [1 .. n -> Nat]
    OBVIOUS
  <2> QED
    BY <2>1
<1>5. IsSums(T, a, m) /\ IsSums(S, b, n) /\ \A i \in 1 .. n : b[i] = a[src[i]]
  BY <1>1, <1>2, <1>3, <1>4 DEF IsSums
<1> DEFINE A == {i \in 0 .. n : i > 0 => RunBound(S, T, a, src, rank, k, i)}
<1>6. 0 \in A
  OBVIOUS
<1>7. ASSUME NEW i \in 1 .. n, i - 1 \in A
      PROVE  RunBound(S, T, a, src, rank, k, i) /\ S[i] <= T[src[i]] * k
  <2>1. ASSUME i > 1
        PROVE  RunBound(S, T, a, src, rank, k, i - 1) /\ Later(src, rank, i - 1, i)
    <3>1. i - 1 \in 1 .. n /\ i - 1 < i /\ i - 1 > 0
      BY <2>1
    <3>2. RunBound(S, T, a, src, rank, k, i - 1)
      BY <1>7, <3>1
    <3>3. Later(src, rank, i - 1, i)
      BY <3>1
    <3> QED
      BY <3>2, <3>3
  <2>2. RunBefore(S, T, a, src, rank, k, i)
    BY <2>1 DEF RunBefore
  <2>3. b[i] = a[src[i]]
    BY <1>5
  <2>4. IsSums(T, a, m) /\ IsSums(S, b, n)
    BY <1>5
  <2>5. RunBound(S, T, a, src, rank, k, i) /\ S[i] <= T[src[i]] * k
    BY <2>2, <2>3, <2>4, RunStep, ZenonT(60)
  <2> QED
    BY <2>5
<1>8. 0 .. n \subseteq A
  <2>1. ASSUME NEW i \in 1 .. n, i - 1 \in A PROVE i \in A
    BY <1>7, <2>1
  <2> HIDE DEF A
  <2> QED
    BY <1>6, <2>1, UpTo
<1>9. T[m] \in Nat /\ T[m] * k \in Nat
  <2>1. T[m] \in Nat
    OBVIOUS
  <2> QED
    BY <2>1, Products
<1>10. CASE n = 0
  BY <1>1, <1>2, <1>9, <1>10
<1>11. CASE n > 0
  <2>1. n \in 1 .. n /\ n - 1 \in A
    BY <1>8, <1>11
  <2>2. S[n] <= T[src[n]] * k
    BY <1>7, <2>1
  <2>3. T[src[n]] <= T[m] /\ T[src[n]] \in Nat
    <3>1. src[n] \in 0 .. m /\ m \in src[n] .. m
      BY <2>1
    <3> QED
      BY <1>5, <3>1, SumsGrow
  <2>4. T[src[n]] * k <= T[m] * k /\ T[src[n]] * k \in Nat
    BY <1>9, <2>3, Products
  <2>5. S[n] \in Nat
    OBVIOUS
  <2>6. S[n] <= T[m] * k
    BY <1>9, <2>2, <2>4, <2>5
  <2> QED
    BY <1>1, <1>2, <2>6
<1> QED
  BY <1>10, <1>11

-----------------------------------------------------------------------------
(* The last of some numbers, and the greatest of some amounts              *)

LEMMA MinIsLeast ==
  ASSUME NEW A \in SUBSET Nat, A # {}
  PROVE  Min(A) \in A /\ \A k \in A : Min(A) <= k
<1>1. \E m \in A : \A k \in A : m <= k
  BY LeastNumber
<1> QED
  BY <1>1 DEF Min

LEMMA MaxIsThere ==
  ASSUME NEW n \in Nat, NEW A \in SUBSET (1 .. n), A # {}
  PROVE  Max(A) \in A
<1> DEFINE B == {n - i : i \in A}
<1>1. B \in SUBSET Nat /\ B # {}
  <2>1. \A i \in A : n - i \in Nat
    OBVIOUS
  <2> QED
    BY <2>1
<1>2. PICK b \in B : \A k \in B : b <= k
  <2> HIDE DEF B
  <2> QED
    BY <1>1, LeastNumber
<1>3. PICK m \in A : b = n - m
  BY <1>2
<1>4. \A k \in A : m >= k
  <2>1. ASSUME NEW k \in A PROVE m >= k
    <3>1. b <= n - k
      BY <1>2
    <3>2. m \in 1 .. n /\ k \in 1 .. n
      OBVIOUS
    <3> QED
      BY <1>3, <3>1, <3>2
  <2> QED
    BY <2>1
<1> QED
  BY <1>4 DEF Max

LEMMA GreatestIsThere ==
  ASSUME NEW n \in Nat, NEW S \in SUBSET (1 .. n), S # {}, NEW f \in [1 .. n -> Nat]
  PROVE  \E m \in S : \A k \in S : f[k] <= f[m]
<1> DEFINE None(i) == \A k \in S : k > i
           Top(i, m) == m <= i /\ \A k \in S : k <= i => f[k] <= f[m]
           A == {i \in 0 .. n : None(i) \/ \E m \in S : Top(i, m)}
<1>1. \A k \in S : k \in 1 .. n /\ k \in Nat /\ f[k] \in Nat
  OBVIOUS
<1>2. 0 \in A
  BY <1>1
<1>3. ASSUME NEW i \in 1 .. n, i - 1 \in A PROVE i \in A
  <2>1. i \in 0 .. n /\ i \in Nat
    OBVIOUS
  <2>2. None(i - 1) \/ \E m \in S : Top(i - 1, m)
    BY <1>3
  <2>3. \A k \in S : (k > i - 1 => k = i \/ k > i) /\ (k <= i => k = i \/ k <= i - 1)
    BY <1>1
  <2>4. CASE None(i - 1) /\ i \notin S
    BY <2>1, <2>3, <2>4
  <2>5. CASE None(i - 1) /\ i \in S
    <3>1. ASSUME NEW k \in S, k <= i PROVE f[k] <= f[i]
      <4>1. k = i
        BY <1>1, <2>1, <2>5, <3>1
      <4> QED
        BY <1>1, <2>5, <4>1
    <3>2. Top(i, i)
      BY <2>1, <3>1
    <3> HIDE DEF Top
    <3> QED
      BY <2>1, <2>5, <3>2
  <2>6. ASSUME NEW m \in S, Top(i - 1, m) PROVE i \in A
    <3>1. f[m] \in Nat /\ m <= i
      BY <1>1, <2>1, <2>6
    <3>2. CASE i \notin S \/ f[i] <= f[m]
      <4>1. \A k \in S : k <= i => f[k] <= f[m]
        BY <2>3, <2>6, <3>2
      <4>2. Top(i, m)
        BY <3>1, <4>1
      <4> HIDE DEF Top
      <4> QED
        BY <2>1, <4>2
    <3>3. CASE i \in S /\ ~(f[i] <= f[m])
      <4>1. f[i] \in Nat /\ f[m] <= f[i]
        BY <1>1, <3>1, <3>3
      <4>2. ASSUME NEW k \in S, k <= i PROVE f[k] <= f[i]
        <5>1. CASE k = i
          BY <4>1, <5>1
        <5>2. CASE k <= i - 1
          <6>1. f[k] <= f[m] /\ f[k] \in Nat
            BY <1>1, <2>6, <5>2
          <6> QED
            BY <3>1, <4>1, <6>1
        <5> QED
          BY <2>3, <4>2, <5>1, <5>2
      <4>3. Top(i, i)
        BY <2>1, <4>2
      <4> HIDE DEF Top
      <4> QED
        BY <2>1, <3>3, <4>3
    <3> QED
      BY <3>2, <3>3
  <2> HIDE DEF None, Top, A
  <2> QED
    BY <2>2, <2>4, <2>5, <2>6
<1>4. 0 .. n \subseteq A
  <2> HIDE DEF A
  <2> QED
    BY <1>2, <1>3, UpTo
<1>5. None(n) \/ \E m \in S : Top(n, m)
  <2>1. n \in A
    <3> HIDE DEF A
    <3> QED
      BY <1>4
  <2> HIDE DEF None, Top
  <2> QED
    BY <2>1
<1>6. ~None(n)
  <2>1. PICK k \in S : TRUE
    OBVIOUS
  <2>2. k \in 1 .. n
    OBVIOUS
  <2> QED
    BY <2>2
<1> QED
  BY <1>1, <1>5, <1>6

-----------------------------------------------------------------------------
(* ConditionEngine: steps and types                                        *)

Match == [cond : Conds, sig : {e.sig : e \in Events}, at : Nat, n : Nat]

\* A fire is followed by its cooldown, remembered until it is over.
Covered(c) ==
  lastFired[c] # Nothing =>
    now >= lastFired[c] + Cooldown(c) \/ cooldowns[c] = lastFired[c] + Cooldown(c)

\* The inductive invariant.
\* A condition is remembered to be above its threshold only while its cooldown is.
AboveInCooldown == \A c \in above : cooldowns[c] # Nothing

EngineInv == EngineTypeOK /\ AboveInCooldown /\ \A c \in Conds : Covered(c)

LEMMA CooldownNat == \A c \in Conds : Cooldown(c) \in Nat
BY EngineAssumption DEF Cooldown

\* What a turn of the loop may do to the state the invariant is about.
Fires(c) ==
  /\ ~CoolingDown(c) /\ event # Nothing
  /\ cooldowns' = [cooldowns EXCEPT ![c] = now + Cooldown(c)]
  /\ fires' = Append(fires, [cond |-> c, sig |-> event.sig, at |-> now, n |-> Len(past)])
  /\ lastFired' = [lastFired EXCEPT ![c] = now]
  /\ above' \subseteq above \cup {c}

Stays(c) ==
  /\ cooldowns' = IF CooldownOver(c) THEN [cooldowns EXCEPT ![c] = Nothing] ELSE cooldowns
  /\ above' \subseteq IF CooldownOver(c) THEN above \ {c} ELSE above
  /\ UNCHANGED <<fires, lastFired>>

\* A threshold is never found crossed before: its cooldown would be running.
LEMMA NeverAbove ==
  ASSUME EngineTypeOK, AboveInCooldown, NEW c \in Conds, ~CoolingDown(c)
  PROVE  c \notin WasAbove(c)
<1>1. CASE c \in above
  <2>1. cooldowns[c] \in Nat /\ cooldowns[c] # Nothing /\ now \in Nat
    BY <1>1 DEF AboveInCooldown, EngineTypeOK
  <2>2. CooldownOver(c)
    BY <2>1 DEF CoolingDown, CooldownOver
  <2> QED
    BY <2>2 DEF WasAbove
<1>2. CASE c \notin above
  BY <1>2 DEF WasAbove
<1> QED
  BY <1>1, <1>2

LEMMA CheckEffect ==
  ASSUME EngineTypeOK, AboveInCooldown, NEW c \in Conds, Check(c)
  PROVE  \/ Fires(c) \/ Stays(c)
         \/ UNCHANGED <<cooldowns, above, fires, lastFired>>
<1>1. event # Nothing
  BY DEF Check, EngineTypeOK
<1>2. CASE c \notin loaded \cap enabled \/ CoolingDown(c)
  BY <1>2 DEF Check, matchVars
<1>3. CASE c \in loaded \cap enabled /\ ~CoolingDown(c)
  <2>1. WasAbove(c) \subseteq above /\ (CooldownOver(c) => WasAbove(c) = above \ {c})
    BY DEF WasAbove
  <2>2. CASE Stay(c) /\ above' = WasAbove(c)
    BY <2>1, <2>2 DEF Stay, Stays
  <2>3. CASE MatchSingle(c)
    <3>1. above' = WasAbove(c) /\ (Fire(c) \/ Stay(c))
      BY <2>3 DEF MatchSingle
    <3> QED
      BY <1>1, <1>3, <2>1, <2>2, <3>1 DEF Fire, Fires
  <2>4. CASE MatchSliding(c)
    <3>1. c \notin WasAbove(c)
      BY <1>3, NeverAbove
    <3>2. \/ Stay(c) /\ above' \in {WasAbove(c), WasAbove(c) \ {c}}
          \/ Fire(c) /\ above' = WasAbove(c) \cup {c}
      BY <2>4, <3>1 DEF MatchSliding
    <3>3. WasAbove(c) \ {c} = WasAbove(c)
      BY <3>1
    <3> QED
      BY <1>1, <1>3, <2>1, <2>2, <3>2, <3>3 DEF Fire, Fires
  <2> QED
    BY <1>3, <2>2, <2>3, <2>4 DEF Check
<1> QED
  BY <1>2, <1>3 DEF Check

-----------------------------------------------------------------------------
(* ConditionEngine: types                                                  *)

LEMMA FireTypes ==
  ASSUME EngineTypeOK, NEW c \in Conds, Fires(c)
  PROVE  /\ fires' \in Seq(Match) /\ Len(fires') = Len(fires) + 1
         /\ fires'[Len(fires')] = [cond |-> c, sig |-> event.sig, at |-> now, n |-> Len(past)]
<1> DEFINE m == [cond |-> c, sig |-> event.sig, at |-> now, n |-> Len(past)]
<1>1. event \in Events
  BY DEF EngineTypeOK, Fires
<1>2. Len(past) \in Nat
  BY LenProperties DEF EngineTypeOK
<1>3. m \in Match
  BY <1>1, <1>2 DEF Match, EngineTypeOK
<1>4. fires \in Seq(Match) /\ fires' = Append(fires, m)
  BY DEF EngineTypeOK, Fires, Match
<1> HIDE DEF m
<1> QED
  BY <1>3, <1>4, AppendProperties DEF m

IndexTypes ==
  /\ walletIdx \in [WalletKeys -> SUBSET Conds] /\ tokenIdx \in [MintKeys -> SUBSET Conds]
  /\ globalBurst \subseteq Conds /\ swapTokenConds \subseteq Conds

OtherTypes ==
  /\ loaded \subseteq Conds /\ enabled \subseteq Conds
  /\ event \in Events \cup {Nothing}
  /\ todo \subseteq Conds /\ (event = Nothing => todo = {})
  /\ past \in Seq([ev : Events, ts : Nat])

FiringTypes ==
  /\ above \subseteq Conds /\ now \in Nat
  /\ cooldowns \in [Conds -> Nat \cup {Nothing}]
  /\ lastFired \in [Conds -> Nat \cup {Nothing}]
  /\ fires \in Seq(Match)

LEMMA TypeParts == EngineTypeOK <=> IndexTypes /\ OtherTypes /\ FiringTypes
BY DEF EngineTypeOK, IndexTypes, OtherTypes, FiringTypes, Match

LEMMA Untouched ==
  /\ IndexTypes /\ UNCHANGED indexVars => IndexTypes'
  /\ OtherTypes /\ UNCHANGED <<loaded, enabled, event, todo, past>> => OtherTypes'
  /\ FiringTypes /\ UNCHANGED <<above, now, cooldowns, lastFired, fires>> => FiringTypes'
BY DEF IndexTypes, OtherTypes, FiringTypes, indexVars

LEMMA CandidatesAreConds ==
  ASSUME IndexTypes, NEW e \in Events
  PROVE  Candidates(e) \subseteq Conds
BY DEF IndexTypes, Candidates, IndexOf

LEMMA CheckTypes ==
  ASSUME EngineTypeOK, AboveInCooldown, NEW c \in Conds, Check(c)
  PROVE  IndexTypes' /\ OtherTypes' /\ FiringTypes'
<1>1. /\ todo' = todo \ {c} /\ event' = (IF todo = {c} THEN Nothing ELSE event)
      /\ UNCHANGED <<loaded, enabled, now, past, indexVars>>
  BY DEF Check
<1>2. OtherTypes'
  BY <1>1, TypeParts DEF OtherTypes
<1>3. FiringTypes'
  <2>1. FiringTypes /\ now' = now
    BY <1>1, TypeParts
  <2>2. CASE UNCHANGED <<cooldowns, above, fires, lastFired>>
    BY <2>1, <2>2, Untouched
  <2>3. CASE Stays(c)
    BY <2>1, <2>3 DEF Stays, FiringTypes
  <2>4. CASE Fires(c)
    <3>1. now + Cooldown(c) \in Nat
      BY <2>1, CooldownNat DEF FiringTypes
    <3>2. fires' \in Seq(Match)
      BY <2>4, FireTypes
    <3> QED
      BY <2>1, <2>4, <3>1, <3>2 DEF Fires, FiringTypes
  <2> QED
    BY <2>2, <2>3, <2>4, CheckEffect
<1> QED
  BY <1>1, <1>2, <1>3, TypeParts, Untouched

LEMMA TypeStep == EngineTypeOK /\ AboveInCooldown /\ [EngineNext]_engineVars => EngineTypeOK'
<1> SUFFICES ASSUME IndexTypes, OtherTypes, FiringTypes, EngineTypeOK, AboveInCooldown,
                    [EngineNext]_engineVars
             PROVE  IndexTypes' /\ OtherTypes' /\ FiringTypes'
  BY TypeParts DEF EngineTypeOK, IndexTypes, OtherTypes, FiringTypes, Match
<1> DEFINE Goal == IndexTypes' /\ OtherTypes' /\ FiringTypes'
<1>1. ASSUME NEW c \in Conds, Load(c) PROVE Goal
  <2>1. IndexTypes'
    BY <1>1 DEF Load, With, IndexTypes, indexVars
  <2>2. OtherTypes' /\ FiringTypes'
    BY <1>1 DEF Load, matchVars, OtherTypes, FiringTypes
  <2> QED
    BY <2>1, <2>2
<1>2. ASSUME NEW c \in Conds, Unload(c) PROVE Goal
  <2>1. IndexTypes'
    BY <1>2 DEF Unload, Without, IndexTypes
  <2>2. OtherTypes' /\ FiringTypes'
    BY <1>2 DEF Unload, OtherTypes, FiringTypes
  <2> QED
    BY <2>1, <2>2
<1>3. ASSUME NEW c \in Conds, SetEnabled(c) PROVE Goal
  <2>1. OtherTypes'
    BY <1>3 DEF SetEnabled, OtherTypes
  <2> QED
    BY <1>3, <2>1, Untouched DEF SetEnabled, matchVars
<1>4. ASSUME NEW c \in Conds, Check(c) PROVE Goal
  BY <1>4, CheckTypes
<1>5. ASSUME NEW e \in Events, Evaluate(e) PROVE Goal
  <2>1. past' \in Seq([ev : Events, ts : Nat])
    <3>1. [ev |-> e, ts |-> now] \in [ev : Events, ts : Nat]
      BY DEF FiringTypes
    <3>2. past' = Append(past, [ev |-> e, ts |-> now])
      BY <1>5 DEF Evaluate
    <3> QED
      BY <3>1, <3>2, AppendProperties DEF OtherTypes
  <2>2. e # Nothing
    BY EngineAssumption
  <2>3. OtherTypes'
    BY <1>5, <2>1, <2>2, CandidatesAreConds DEF Evaluate, OtherTypes
  <2> QED
    BY <1>5, <2>3, Untouched DEF Evaluate, matchVars
<1>6. CASE Cleanup
  <2>1. FiringTypes'
    BY <1>6 DEF Cleanup, traceVars, FiringTypes
  <2> QED
    BY <1>6, <2>1, Untouched DEF Cleanup, traceVars
<1>7. CASE Tick
  <2>1. FiringTypes'
    BY <1>7 DEF Tick, matchVars, traceVars, FiringTypes
  <2> QED
    BY <1>7, <2>1, Untouched DEF Tick, traceVars
<1>8. CASE UNCHANGED engineVars
  BY <1>8, Untouched DEF engineVars, matchVars, traceVars
<1> QED
  BY <1>1, <1>2, <1>3, <1>4, <1>5, <1>6, <1>7, <1>8 DEF EngineNext

-----------------------------------------------------------------------------
(* ConditionEngine: thresholds and cooldowns                               *)

LEMMA AboveStep == EngineTypeOK /\ AboveInCooldown /\ [EngineNext]_engineVars => AboveInCooldown'
<1> SUFFICES ASSUME FiringTypes, EngineTypeOK, AboveInCooldown, [EngineNext]_engineVars
             PROVE  AboveInCooldown'
  BY TypeParts
<1> USE DEF AboveInCooldown, FiringTypes
<1>1. ASSUME UNCHANGED <<above, cooldowns>> PROVE AboveInCooldown'
  BY <1>1
<1>2. ASSUME NEW c \in Conds, Load(c) \/ SetEnabled(c) PROVE AboveInCooldown'
  BY <1>1, <1>2 DEF Load, SetEnabled, matchVars
<1>3. ASSUME NEW c \in Conds, Unload(c) PROVE AboveInCooldown'
  BY <1>3 DEF Unload
<1>4. ASSUME NEW c \in Conds, Check(c) PROVE AboveInCooldown'
  <2>1. CASE Fires(c)
    <3>1. now + Cooldown(c) # Nothing
      BY CooldownNat, EngineAssumption
    <3> QED
      BY <2>1, <3>1 DEF Fires
  <2>2. CASE Stays(c)
    BY <2>2 DEF Stays
  <2> QED
    BY <1>1, <1>4, <2>1, <2>2, CheckEffect
<1>5. ASSUME NEW e \in Events, Evaluate(e) PROVE AboveInCooldown'
  BY <1>1, <1>5 DEF Evaluate, matchVars
<1>6. CASE Cleanup
  BY <1>6 DEF Cleanup
<1>7. CASE Tick
  BY <1>1, <1>7 DEF Tick, matchVars
<1>8. CASE UNCHANGED engineVars
  BY <1>1, <1>8 DEF engineVars, matchVars
<1> QED
  BY <1>2, <1>3, <1>4, <1>5, <1>6, <1>7, <1>8 DEF EngineNext

LEMMA CoveredStep ==
  ASSUME EngineInv, [EngineNext]_engineVars, NEW c \in Conds
  PROVE  Covered(c)'
<1> USE DEF Covered
<1>1. /\ FiringTypes /\ Covered(c) /\ Cooldown(c) \in Nat /\ Cooldown(c)' = Cooldown(c)
      /\ Nothing \notin Nat
  BY TypeParts, CooldownNat, EngineAssumption DEF EngineInv, Cooldown
<1>2. ASSUME UNCHANGED <<now, cooldowns, lastFired>> PROVE Covered(c)'
  BY <1>1, <1>2
<1>3. ASSUME NEW d \in Conds, Load(d) \/ SetEnabled(d) PROVE Covered(c)'
  BY <1>2, <1>3 DEF Load, SetEnabled, matchVars
<1>4. ASSUME NEW d \in Conds, Unload(d) PROVE Covered(c)'
  BY <1>1, <1>4 DEF Unload, FiringTypes
<1>5. ASSUME NEW d \in Conds, Check(d) PROVE Covered(c)'
  <2>1. now' = now
    BY <1>5 DEF Check
  <2>2. CASE Fires(d)
    BY <1>1, <2>1, <2>2 DEF Fires, FiringTypes
  <2>3. CASE Stays(d)
    <3>1. CASE CooldownOver(d) /\ d = c
      BY <1>1, <2>1, <2>3, <3>1 DEF Stays, CooldownOver, FiringTypes
    <3>2. CASE ~(CooldownOver(d) /\ d = c)
      BY <1>1, <2>1, <2>3, <3>2 DEF Stays, FiringTypes
    <3> QED
      BY <3>1, <3>2
  <2> QED
    BY <1>2, <1>5, <2>1, <2>2, <2>3, CheckEffect DEF EngineInv
<1>6. ASSUME NEW e \in Events, Evaluate(e) PROVE Covered(c)'
  BY <1>2, <1>6 DEF Evaluate, matchVars
<1>7. CASE Cleanup
  BY <1>1, <1>7 DEF Cleanup, traceVars, CooldownOver, FiringTypes
<1>8. CASE Tick
  BY <1>1, <1>8 DEF Tick, matchVars, traceVars, FiringTypes
<1>9. CASE UNCHANGED engineVars
  BY <1>2, <1>9 DEF engineVars, matchVars, traceVars
<1> QED
  BY <1>3, <1>4, <1>5, <1>6, <1>7, <1>8, <1>9 DEF EngineNext

LEMMA InvStep == EngineInv /\ [EngineNext]_engineVars => EngineInv'
BY TypeStep, AboveStep, CoveredStep DEF EngineInv

LEMMA InvInit == EngineInit => EngineInv
<1> SUFFICES ASSUME EngineInit PROVE EngineInv
  OBVIOUS
<1>1. IndexTypes
  BY DEF EngineInit, IndexTypes, Sliding
<1>2. OtherTypes /\ FiringTypes
  BY EmptySeq DEF EngineInit, OtherTypes, FiringTypes
<1> QED
  BY <1>1, <1>2, TypeParts DEF EngineInit, EngineInv, AboveInCooldown, Covered

LEMMA Invariant == EngineSpec => []EngineInv
BY InvInit, InvStep, PTL DEF EngineSpec

\* A condition is remembered to be above its threshold only while its cooldown
\* is: wasAbove never holds a match back (check, cooldownActive, cleanup).
THEOREM NeverHeldBack == EngineSpec => []AboveInCooldown
<1>1. EngineInv => AboveInCooldown
  BY DEF EngineInv
<1> QED
  BY <1>1, Invariant, PTL

LEMMA KeptByStep ==
  ASSUME EngineInv, [EngineNext]_engineVars, NEW c \in Conds,
         Len(fires') > Len(fires), Last(fires').cond = c, lastFired[c] # Nothing
  PROVE  now >= lastFired[c] + Cooldown(c)
<1>1. Len(fires) \in Nat
  BY LenProperties DEF EngineInv, EngineTypeOK
<1>2. fires' # fires
  BY <1>1
<1>3. PICK d \in Conds : Check(d)
  BY <1>2 DEF EngineNext, engineVars, Load, Unload, SetEnabled, Evaluate, Cleanup, Tick,
              traceVars
<1>4. Fires(d)
  BY <1>2, <1>3, CheckEffect DEF EngineInv, Stays
<1>5. d = c
  <2>1. Len(fires') = Len(fires) + 1 /\ fires'[Len(fires')].cond = d
    <3>1. EngineTypeOK
      BY DEF EngineInv
    <3>2. fires'[Len(fires')] = [cond |-> d, sig |-> event.sig, at |-> now, n |-> Len(past)]
      BY <1>4, <3>1, FireTypes
    <3>3. Len(fires') = Len(fires) + 1
      BY <1>4, <3>1, FireTypes
    <3> QED
      BY <3>2, <3>3
  <2>2. Last(fires') = fires'[Len(fires')]
    BY DEF Last
  <2> QED
    BY <2>1, <2>2
<1>6. cooldowns[c] = Nothing \/ now >= cooldowns[c]
  BY <1>4, <1>5 DEF Fires, CoolingDown, EngineInv, EngineTypeOK
<1>7. now >= lastFired[c] + Cooldown(c) \/ cooldowns[c] = lastFired[c] + Cooldown(c)
  BY DEF EngineInv, Covered
<1>8. lastFired[c] + Cooldown(c) \in Nat
  BY CooldownNat DEF EngineInv, EngineTypeOK
<1> QED
  BY <1>6, <1>7, <1>8, EngineAssumption

\* While it stays loaded a condition fires again only after its cooldown, and
\* neither the timer's cleanup nor a switch off and on shortens it (check,
\* cooldownActive, cleanup).
THEOREM CooldownObserved == EngineSpec => CooldownKept
<1>1. EngineInv /\ [EngineNext]_engineVars =>
        [\A c \in Conds :
           Len(fires') > Len(fires) /\ Last(fires').cond = c /\ lastFired[c] # Nothing
             => now >= lastFired[c] + Cooldown(c)]_engineVars
  BY KeptByStep
<1> QED
  BY <1>1, Invariant, PTL DEF EngineSpec, CooldownKept

-----------------------------------------------------------------------------
(* ConditionEngine: the fire cache, the latest matches, never fewer than   *)
(* what trimFireCache keeps of a full one.                                 *)

Overfull == FireCacheMax + 1
HalfOf   == Overfull \div 2
Keeps    == Overfull - HalfOf

PairOf(f) == <<f.cond, f.sig>>

CacheTypes ==
  /\ fires \in Seq(Match) /\ fireCache \in Seq({PairOf(f) : f \in Match})
  /\ Len(fireCache) <= Len(fires) /\ Len(fireCache) <= FireCacheMax

\* The cache is the end of the list of matches.
CacheIsRecent ==
  \A k \in 1 .. Len(fireCache) :
    fireCache[k] = PairOf(fires[Len(fires) - Len(fireCache) + k])

\* What was forgotten lies that far back.
CacheHolds == Len(fireCache) = Len(fires) \/ Len(fireCache) >= Keeps

\* OncePerEvent, with a name for its distance.
FarApart ==
  \A i, j \in DOMAIN fires :
    i < j /\ fires[i].cond = fires[j].cond /\ fires[i].sig = fires[j].sig => j - i > Keeps

CacheInv == CacheTypes /\ CacheIsRecent /\ CacheHolds /\ FarApart

LEMMA HalfBounds == /\ HalfOf \in Nat /\ HalfOf <= FireCacheMax /\ HalfOf >= 1
                    /\ Keeps \in Nat /\ Keeps >= 1 /\ Keeps <= FireCacheMax
BY EngineAssumption DEF Keeps, HalfOf, Overfull

\* A turn of the loop lets a match through only if the cache does not have it.
LEMMA CacheEffect ==
  ASSUME EngineTypeOK, AboveInCooldown, NEW c \in Conds, Check(c)
  PROVE  \/ UNCHANGED <<fires, fireCache>>
         \/ /\ ~Contains(fireCache, <<c, event.sig>>)
            /\ fireCache' = AfterFiring(c)
            /\ Fires(c)
<1>1. CASE c \notin loaded \cap enabled \/ CoolingDown(c) \/ Contains(fireCache, <<c, event.sig>>)
  BY <1>1 DEF Check, Stay, matchVars
<1>2. CASE c \in loaded \cap enabled /\ ~CoolingDown(c)
           /\ ~Contains(fireCache, <<c, event.sig>>)
  <2>1. MatchSingle(c) \/ MatchSliding(c)
    BY <1>2 DEF Check
  <2>2. CASE Stay(c)
    BY <2>2 DEF Stay
  <2>3. CASE Fire(c)
    <3>1. event # Nothing
      BY DEF Check, EngineTypeOK
    <3>2. above' \subseteq above \cup {c}
      BY <2>1 DEF MatchSingle, MatchSliding, WasAbove
    <3>3. QED
      BY <1>2, <2>3, <3>1, <3>2 DEF Fire, Fires
  <2>4. QED
    BY <2>1, <2>2, <2>3 DEF MatchSingle, MatchSliding
<1>3. QED
  BY <1>1, <1>2

\* A match joins the cache, which loses its older half if that is too much.
LEMMA FireKeepsCache ==
  ASSUME EngineTypeOK, CacheInv, NEW c \in Conds, Fires(c),
         ~Contains(fireCache, <<c, event.sig>>), fireCache' = AfterFiring(c)
  PROVE  CacheInv'
<1> DEFINE m     == [cond |-> c, sig |-> event.sig, at |-> now, n |-> Len(past)]
           pair  == <<c, event.sig>>
           cache == Append(fireCache, pair)
           Pairs == {PairOf(f) : f \in Match}
<1>1. /\ fires' = Append(fires, m) /\ m \in Match /\ PairOf(m) = pair /\ pair \in Pairs
      /\ Len(fires) \in Nat /\ Len(fireCache) \in Nat
  <2>1. event \in Events
    BY DEF EngineTypeOK, Fires
  <2>2. Len(past) \in Nat
    BY LenProperties DEF EngineTypeOK
  <2>3. m \in Match
    BY <2>1, <2>2 DEF Match, EngineTypeOK
  <2>4. QED
    BY <2>3 DEF Fires, PairOf, CacheInv, CacheTypes
<1>2. fireCache' = IF Len(cache) > FireCacheMax
                   THEN SubSeq(cache, Len(cache) \div 2 + 1, Len(cache)) ELSE cache
  BY DEF AfterFiring
<1> HIDE DEF m, pair, Pairs
<1>3. /\ fires' \in Seq(Match) /\ Len(fires') = Len(fires) + 1
      /\ fires'[Len(fires) + 1] = m
      /\ \A i \in 1 .. Len(fires) : fires'[i] = fires[i]
  BY <1>1, AppendProperties DEF CacheInv, CacheTypes
<1>4. /\ cache \in Seq(Pairs) /\ Len(cache) = Len(fireCache) + 1
      /\ cache[Len(fireCache) + 1] = pair
      /\ \A i \in 1 .. Len(fireCache) : cache[i] = fireCache[i]
  BY <1>1, AppendProperties DEF CacheInv, CacheTypes, Pairs
<1> HIDE DEF cache
<1>5. /\ Len(cache) <= Len(fires') /\ Len(cache) <= Overfull
      /\ \A k \in 1 .. Len(cache) : cache[k] = PairOf(fires'[Len(fires') - Len(cache) + k])
  <2>1. \A k \in 1 .. Len(fireCache) :
          cache[k] = PairOf(fires'[Len(fires) - Len(fireCache) + k])
    BY <1>1, <1>3, <1>4 DEF CacheInv, CacheTypes, CacheIsRecent
  <2>2. Len(fires') - Len(cache) = Len(fires) - Len(fireCache)
    BY <1>1, <1>3, <1>4
  <2>3. cache[Len(cache)] = PairOf(fires'[Len(fires')])
    BY <1>1, <1>3, <1>4
  <2>4. Len(fireCache) <= Len(fires) /\ Len(fireCache) <= FireCacheMax /\ FireCacheMax \in Nat
    BY EngineAssumption DEF CacheInv, CacheTypes
  <2>5. Len(cache) <= Len(fires') /\ Len(cache) <= Overfull
    BY <1>1, <1>3, <1>4, <2>4 DEF Overfull
  <2>6. ASSUME NEW k \in 1 .. Len(cache)
        PROVE  cache[k] = PairOf(fires'[Len(fires') - Len(cache) + k])
    <3>1. CASE k \in 1 .. Len(fireCache)
      BY <2>1, <2>2, <3>1
    <3>2. CASE k = Len(cache)
      <4>1. Len(fires') - Len(cache) + k = Len(fires')
        BY <1>1, <1>3, <1>4, <3>2
      <4>2. QED
        BY <2>3, <3>2, <4>1
    <3>3. k \in 1 .. Len(fireCache) \/ k = Len(cache)
      <4>1. Len(cache) = Len(fireCache) + 1 /\ Len(fireCache) \in Nat
        BY <1>1, <1>4
      <4>2. QED
        BY <2>6, <4>1
    <3>4. QED
      BY <3>1, <3>2, <3>3
  <2>7. QED
    BY <2>5, <2>6
<1>6. FarApart'
  <2>1. SUFFICES ASSUME NEW i \in DOMAIN fires', NEW j \in DOMAIN fires', i < j,
                        fires'[i].cond = fires'[j].cond, fires'[i].sig = fires'[j].sig
                 PROVE  j - i > Keeps
    BY DEF FarApart
  <2>2. i \in 1 .. Len(fires) /\ j \in 1 .. Len(fires) + 1 /\ fires'[i] = fires[i]
    BY <1>1, <1>3, <2>1
  <2>3. CASE j <= Len(fires)
    BY <1>3, <2>1, <2>2, <2>3 DEF CacheInv, FarApart
  <2>4. CASE j = Len(fires) + 1
    <3>1. PairOf(fires[i]) = pair
      BY <1>1, <1>3, <2>1, <2>2, <2>4 DEF PairOf
    <3>2. i <= Len(fires) - Len(fireCache)
      <4>1. SUFFICES ASSUME i > Len(fires) - Len(fireCache) PROVE FALSE
        BY <1>1, <2>2
      <4>2. i - (Len(fires) - Len(fireCache)) \in 1 .. Len(fireCache)
        BY <1>1, <2>2, <4>1
      <4>3. fireCache[i - (Len(fires) - Len(fireCache))] = pair
        BY <1>1, <2>2, <3>1, <4>2 DEF CacheInv, CacheIsRecent
      <4>4. QED
        BY <4>2, <4>3 DEF Contains, pair
    <3>3. Len(fireCache) >= Keeps
      BY <1>1, <2>2, <3>2 DEF CacheInv, CacheHolds
    <3>4. QED
      BY <1>1, <2>2, <2>4, <3>2, <3>3, HalfBounds
  <2>5. QED
    BY <1>1, <2>2, <2>3, <2>4
<1>7. CASE Len(cache) <= FireCacheMax
  <2>1. fireCache' = cache
    BY <1>1, <1>2, <1>4, <1>7, EngineAssumption
  <2>2. CacheHolds'
    BY <1>1, <1>3, <1>4, <2>1, HalfBounds DEF CacheInv, CacheHolds
  <2>3. QED
    BY <1>3, <1>4, <1>5, <1>6, <1>7, <2>1, <2>2
       DEF CacheInv, CacheTypes, CacheIsRecent, Pairs
<1>8. CASE Len(cache) > FireCacheMax
  <2>1. Len(cache) = Overfull
    BY <1>1, <1>4, <1>5, <1>8, EngineAssumption DEF Overfull
  <2>2. fireCache' = SubSeq(cache, HalfOf + 1, Len(cache))
    BY <1>2, <1>8, <2>1 DEF HalfOf
  <2>3. /\ fireCache' \in Seq(Pairs) /\ Len(fireCache') = Keeps
        /\ \A k \in 1 .. Keeps : fireCache'[k] = cache[HalfOf + k]
    <3>1. /\ HalfOf + 1 \in Int /\ Len(cache) \in Int /\ HalfOf + 1 <= Len(cache)
          /\ Len(cache) - (HalfOf + 1) + 1 = Keeps
      BY <2>1, HalfBounds, EngineAssumption DEF Keeps, Overfull
    <3>2. \A i \in HalfOf + 1 .. Len(cache) : cache[i] \in Pairs
      BY <1>4, HalfBounds
    <3>3. /\ fireCache' \in Seq(Pairs) /\ Len(fireCache') = Keeps
          /\ \A k \in 1 .. Keeps : fireCache'[k] = cache[(HalfOf + 1) + k - 1]
      BY <2>2, <3>1, <3>2, SubSeqProperties
    <3>4. \A k \in 1 .. Keeps : (HalfOf + 1) + k - 1 = HalfOf + k
      BY HalfBounds
    <3>5. QED
      BY <3>3, <3>4
  <2>4. \A k \in 1 .. Keeps : fireCache'[k] = PairOf(fires'[Len(fires') - Keeps + k])
    <3>1. ASSUME NEW k \in 1 .. Keeps
          PROVE  fireCache'[k] = PairOf(fires'[Len(fires') - Keeps + k])
      <4>1. HalfOf + k \in 1 .. Len(cache)
        BY <2>1, HalfBounds, EngineAssumption DEF Keeps, Overfull
      <4>2. Len(fires') - Len(cache) + (HalfOf + k) = Len(fires') - Keeps + k
        BY <1>1, <1>3, <2>1, HalfBounds, EngineAssumption DEF Keeps, Overfull
      <4>3. QED
        BY <1>5, <2>3, <4>1, <4>2
    <3>2. QED
      BY <3>1
  <2>5. CacheHolds' /\ CacheIsRecent'
    BY <2>3, <2>4, HalfBounds DEF CacheHolds, CacheIsRecent
  <2>6. CacheTypes'
    BY <1>1, <1>3, <1>5, <2>1, <2>3, HalfBounds, EngineAssumption
       DEF CacheTypes, Pairs, Overfull
  <2>7. QED
    BY <1>6, <2>5, <2>6 DEF CacheInv
<1>9. QED
  BY <1>1, <1>4, <1>7, <1>8, EngineAssumption

LEMMA CacheStep == EngineInv /\ CacheInv /\ [EngineNext]_engineVars => CacheInv'
<1> SUFFICES ASSUME EngineInv, CacheInv, [EngineNext]_engineVars PROVE CacheInv'
  OBVIOUS
<1>1. ASSUME UNCHANGED <<fires, fireCache>> PROVE CacheInv'
  BY <1>1 DEF CacheInv, CacheTypes, CacheIsRecent, CacheHolds, FarApart
<1>2. ASSUME NEW c \in Conds, Check(c) PROVE CacheInv'
  BY <1>1, <1>2, CacheEffect, FireKeepsCache DEF EngineInv
<1>3. ASSUME NEW c \in Conds, Load(c) \/ Unload(c) \/ SetEnabled(c) PROVE CacheInv'
  BY <1>1, <1>3 DEF Load, Unload, SetEnabled, matchVars
<1>4. ASSUME NEW e \in Events, Evaluate(e) PROVE CacheInv'
  BY <1>1, <1>4 DEF Evaluate, matchVars
<1>5. CASE Cleanup \/ Tick \/ UNCHANGED engineVars
  BY <1>1, <1>5 DEF Cleanup, Tick, engineVars, matchVars, traceVars
<1>6. QED
  BY <1>2, <1>3, <1>4, <1>5 DEF EngineNext

\* The same condition fires on the same signature again only when more than
\* half a cache of other matches came between, however often its event comes
\* again and the condition is reloaded (check, fireCache, trimFireCache).
THEOREM NotTwiceOnOneEvent == EngineSpec => []OncePerEvent
<1>1. EngineInit => CacheInv
  <2>1. SUFFICES ASSUME EngineInit PROVE CacheInv
    OBVIOUS
  <2>2. fires = <<>> /\ fireCache = <<>>
    BY <2>1 DEF EngineInit
  <2>3. DOMAIN fires = {} /\ Len(fires) = 0 /\ Len(fireCache) = 0
    BY <2>2, EmptySeq
  <2>4. QED
    BY <2>2, <2>3, EmptySeq, EngineAssumption
       DEF CacheInv, CacheTypes, CacheIsRecent, CacheHolds, FarApart
<1>2. CacheInv => OncePerEvent
  <2>1. Keeps = FireCacheMax + 1 - (FireCacheMax + 1) \div 2
    BY EngineAssumption DEF Keeps, HalfOf, Overfull
  <2>2. QED
    BY <2>1, Zenon DEF CacheInv, FarApart, OncePerEvent
<1>3. QED
  BY <1>1, <1>2, Invariant, CacheStep, PTL DEF EngineSpec

-----------------------------------------------------------------------------
(* ConditionEngine: what is kept of a window                               *)

Entry == [ts : Nat, amount : Nat]

\* The entries of r are those of s that g says, in their order.
Picks(g, r, s) ==
  /\ \A i \in 1 .. Len(r) : r[i] = s[g[i]]
  /\ \A i, j \in 1 .. Len(r) : i < j => g[i] < g[j]

\* All of r is among the first n entries of s, and no older than since.
PartOf(r, s, n, since) ==
  /\ \E g \in [1 .. Len(r) -> 1 .. n] : Picks(g, r, s)
  /\ \A i \in 1 .. Len(r) : r[i].ts >= since

LEMMA PartStep ==
  ASSUME NEW s \in Seq(Entry), NEW since \in Nat, NEW n \in 1 .. Len(s), NEW r \in Seq(Entry),
         PartOf(r, s, n - 1, since)
  PROVE  /\ PartOf(r, s, n, since)
         /\ s[n].ts >= since => /\ Append(r, s[n]) \in Seq(Entry)
                                /\ PartOf(Append(r, s[n]), s, n, since)
<1>1. PICK g \in [1 .. Len(r) -> 1 .. n - 1] : Picks(g, r, s)
  BY DEF PartOf
<1>2. g \in [1 .. Len(r) -> 1 .. n]
  OBVIOUS
<1>3. PartOf(r, s, n, since)
  BY <1>1, <1>2 DEF PartOf
<1>4. ASSUME s[n].ts >= since
      PROVE  Append(r, s[n]) \in Seq(Entry) /\ PartOf(Append(r, s[n]), s, n, since)
  <2>1. s[n] \in Entry
    OBVIOUS
  <2>2. /\ Append(r, s[n]) \in Seq(Entry) /\ Len(Append(r, s[n])) = Len(r) + 1
        /\ \A i \in 1 .. Len(r) : Append(r, s[n])[i] = r[i]
        /\ Append(r, s[n])[Len(r) + 1] = s[n]
    BY <2>1
  <2> DEFINE h == [i \in 1 .. Len(r) + 1 |-> IF i <= Len(r) THEN g[i] ELSE n]
  <2>3. /\ h \in [1 .. Len(r) + 1 -> 1 .. n] /\ h[Len(r) + 1] = n
        /\ \A i \in 1 .. Len(r) : h[i] = g[i] /\ g[i] \in 1 .. n - 1
    OBVIOUS
  <2> HIDE DEF h
  <2>4. \A i \in 1 .. Len(r) + 1 : i = Len(r) + 1 \/ i \in 1 .. Len(r)
    OBVIOUS
  <2>5. Picks(h, Append(r, s[n]), s)
    <3>1. \A i \in 1 .. Len(r) + 1 : Append(r, s[n])[i] = s[h[i]]
      BY <1>1, <2>2, <2>3, <2>4 DEF Picks
    <3>2. ASSUME NEW i \in 1 .. Len(r) + 1, NEW j \in 1 .. Len(r) + 1, i < j
          PROVE  h[i] < h[j]
      <4>1. i \in 1 .. Len(r)
        BY <3>2
      <4>2. CASE j = Len(r) + 1
        BY <2>3, <4>1, <4>2
      <4>3. CASE j \in 1 .. Len(r)
        BY <1>1, <2>3, <3>2, <4>1, <4>3 DEF Picks
      <4> QED
        BY <2>4, <4>2, <4>3
    <3> QED
      BY <2>2, <3>1, <3>2 DEF Picks
  <2>6. \A i \in 1 .. Len(r) + 1 : Append(r, s[n])[i].ts >= since
    BY <1>4, <2>2, <2>4 DEF PartOf
  <2> QED
    BY <2>2, <2>3, <2>5, <2>6 DEF PartOf
<1> QED
  BY <1>3, <1>4

LEMMA RecentIsPart ==
  ASSUME NEW s \in Seq(Entry), NEW since \in Nat
  PROVE  Recent(s, since) \in Seq(Entry) /\ PartOf(Recent(s, since), s, Len(s), since)
<1> DEFINE n == Len(s)
           step == [i \in 1 .. n |-> [r \in Seq(Entry) |->
                      IF s[i].ts >= since THEN Append(r, s[i]) ELSE r]]
           Filters(f) == f = [i \in 0 .. n |->
                              IF i = 0 THEN <<>>
                              ELSE IF s[i].ts >= since THEN Append(f[i - 1], s[i]) ELSE f[i - 1]]
           kept == CHOOSE f : Filters(f)
<1>1. n \in Nat /\ \A i \in 1 .. n : s[i] \in Entry
  OBVIOUS
<1>2. \E f \in [0 .. n -> Seq(Entry)] : Follows(f, n, <<>>, step)
  <2>1. step \in [1 .. n -> [Seq(Entry) -> Seq(Entry)]] /\ <<>> \in Seq(Entry)
    BY <1>1
  <2> HIDE DEF step, n
  <2> QED
    BY <1>1, <2>1, Stepwise
<1>3. PICK f \in [0 .. n -> Seq(Entry)] : f[0] = <<>> /\ \A i \in 1 .. n : f[i] = step[i][f[i - 1]]
  BY <1>2 DEF Follows
<1>4. ASSUME NEW i \in 0 .. n
      PROVE  f[i] = IF i = 0 THEN <<>>
                    ELSE IF s[i].ts >= since THEN Append(f[i - 1], s[i]) ELSE f[i - 1]
  <2>1. CASE i = 0
    BY <1>3, <2>1
  <2>2. CASE i # 0
    <3>1. i \in 1 .. n /\ f[i - 1] \in Seq(Entry)
      BY <1>1, <1>3, <2>2
    <3> QED
      BY <1>3, <2>2, <3>1
  <2> QED
    BY <2>1, <2>2
<1>5. Filters(f)
  BY <1>3, <1>4
<1>6. Filters(kept)
  <2> HIDE DEF Filters
  <2> QED
    BY <1>5
<1>7. Recent(s, since) = kept[n]
  BY DEF Recent
<1> HIDE DEF kept
<1>8. \A i \in 0 .. n :
        kept[i] = IF i = 0 THEN <<>>
                  ELSE IF s[i].ts >= since THEN Append(kept[i - 1], s[i]) ELSE kept[i - 1]
  BY <1>6
<1> DEFINE A == {i \in 0 .. n : kept[i] \in Seq(Entry) /\ PartOf(kept[i], s, i, since)}
<1>9. 0 \in A
  <2>1. kept[0] = <<>> /\ 0 \in 0 .. n
    BY <1>1, <1>8
  <2>2. PartOf(<<>>, s, 0, since)
    <3>1. [i \in 1 .. 0 |-> 0] \in [1 .. Len(<<>>) -> 1 .. 0] /\ Picks([i \in 1 .. 0 |-> 0], <<>>, s)
      BY DEF Picks
    <3> QED
      BY <3>1 DEF PartOf
  <2>3. kept[0] \in Seq(Entry) /\ PartOf(kept[0], s, 0, since)
    <3> HIDE DEF n, Filters
    <3> QED
      BY <2>1, <2>2
  <2> QED
    BY <2>1, <2>3
<1>10. ASSUME NEW i \in 1 .. n, i - 1 \in A PROVE i \in A
  <2>1. i \in 0 .. n /\ i # 0
    BY <1>1
  <2>2. kept[i] = IF s[i].ts >= since THEN Append(kept[i - 1], s[i]) ELSE kept[i - 1]
    BY <1>8, <2>1
  <2>3. kept[i - 1] \in Seq(Entry) /\ PartOf(kept[i - 1], s, i - 1, since)
    BY <1>10
  <2>4. /\ PartOf(kept[i - 1], s, i, since)
        /\ s[i].ts >= since => /\ Append(kept[i - 1], s[i]) \in Seq(Entry)
                               /\ PartOf(Append(kept[i - 1], s[i]), s, i, since)
    BY <2>3, PartStep
  <2>5. kept[i] \in Seq(Entry) /\ PartOf(kept[i], s, i, since)
    BY <2>2, <2>3, <2>4
  <2> QED
    BY <2>1, <2>5
<1>11. 0 .. n \subseteq A
  <2> HIDE DEF A, n
  <2> QED
    BY <1>1, <1>9, <1>10, UpTo
<1> QED
  BY <1>1, <1>7, <1>11

-----------------------------------------------------------------------------
(* ConditionEngine: where the entries of a window come from                *)

Evaluated == [ev : Events, ts : Nat]

\* Each entry of w is that of an event of p that belongs in the window of c, put
\* there by the rank-th condition that shares it; of the current event only by
\* those that are not left.
Explains(src, rank, w, c, p, left) ==
  /\ \A i \in 1 .. Len(w) :
       /\ w[i].ts = p[src[i]].ts /\ w[i].amount = Weight(c, p[src[i]].ev)
       /\ Counts(c, p[src[i]].ev)
       /\ src[i] = Len(p) => rank[i] <= Cardinality(Sharing(c) \ left)
  /\ \A i, j \in 1 .. Len(w) : i < j => Later(src, rank, i, j)

Explained(w, c, p, left) ==
  \E src \in [1 .. Len(w) -> 1 .. Len(p)],
     rank \in [1 .. Len(w) -> 1 .. Cardinality(Sharing(c))] : Explains(src, rank, w, c, p, left)

LEMMA SharingFinite ==
  ASSUME NEW c \in Sliding, NEW left
  PROVE  /\ IsFiniteSet(Sharing(c)) /\ IsFiniteSet(Sharing(c) \ left)
         /\ Cardinality(Sharing(c)) \in Nat /\ Cardinality(Sharing(c) \ left) \in Nat
         /\ Cardinality(Sharing(c) \ left) <= Cardinality(Sharing(c))
<1>1. IsFiniteSet(Conds) /\ Sharing(c) \subseteq Conds
  BY EngineAssumption DEF Sharing, Sliding
<1>2. IsFiniteSet(Sharing(c))
  BY <1>1, FS_Subset
<1>3. Sharing(c) \ left \subseteq Sharing(c)
  OBVIOUS
<1> QED
  BY <1>2, <1>3, FS_Subset, FS_CardinalityType

\* Conditions that share a window take the same events for it, at the same weight.
LEMMA SharedWindow ==
  ASSUME NEW c \in Sliding, NEW d \in Sliding, Key(c) = Key(d), NEW w, NEW p, NEW left
  PROVE  Explained(w, c, p, left) => Explained(w, d, p, left)
<1>1. Def[c].kind = Def[d].kind /\ Def[c].mint = Def[d].mint
  BY DEF Key
<1>2. Sharing(c) = Sharing(d)
  BY DEF Sharing
<1>3. \A e : Weight(c, e) = Weight(d, e)
  BY <1>1 DEF Weight
<1>4. \A e : Counts(c, e) <=> Counts(d, e)
  BY <1>1 DEF Counts, MintMatches
<1> QED
  BY <1>2, <1>3, <1>4 DEF Explained, Explains

LEMMA PartExplained ==
  ASSUME NEW c \in Sliding, NEW p, NEW left, NEW w \in Seq(Entry), NEW r \in Seq(Entry),
         NEW g \in [1 .. Len(r) -> 1 .. Len(w)], Picks(g, r, w), Explained(w, c, p, left)
  PROVE  Explained(r, c, p, left)
<1>1. PICK src \in [1 .. Len(w) -> 1 .. Len(p)],
           rank \in [1 .. Len(w) -> 1 .. Cardinality(Sharing(c))] :
        Explains(src, rank, w, c, p, left)
  BY DEF Explained
<1> DEFINE src1 == [i \in 1 .. Len(r) |-> src[g[i]]]
           rank1 == [i \in 1 .. Len(r) |-> rank[g[i]]]
<1>2. /\ src1 \in [1 .. Len(r) -> 1 .. Len(p)]
      /\ rank1 \in [1 .. Len(r) -> 1 .. Cardinality(Sharing(c))]
  OBVIOUS
<1>3. \A i \in 1 .. Len(r) : /\ g[i] \in 1 .. Len(w) /\ r[i] = w[g[i]]
                             /\ src1[i] = src[g[i]] /\ rank1[i] = rank[g[i]]
  BY DEF Picks
<1> HIDE DEF src1, rank1
<1>4. ASSUME NEW i \in 1 .. Len(r)
      PROVE  /\ r[i].ts = p[src1[i]].ts /\ r[i].amount = Weight(c, p[src1[i]].ev)
             /\ Counts(c, p[src1[i]].ev)
             /\ src1[i] = Len(p) => rank1[i] <= Cardinality(Sharing(c) \ left)
  <2> DEFINE k == g[i]
  <2>1. k \in 1 .. Len(w) /\ r[i] = w[k] /\ src1[i] = src[k] /\ rank1[i] = rank[k]
    BY <1>3
  <2> HIDE DEF k
  <2>2. /\ w[k].ts = p[src[k]].ts /\ w[k].amount = Weight(c, p[src[k]].ev)
        /\ Counts(c, p[src[k]].ev)
        /\ src[k] = Len(p) => rank[k] <= Cardinality(Sharing(c) \ left)
    BY <1>1, <2>1 DEF Explains
  <2> QED
    BY <2>1, <2>2
<1>5. ASSUME NEW i \in 1 .. Len(r), NEW j \in 1 .. Len(r), i < j
      PROVE  Later(src1, rank1, i, j)
  <2>1. g[i] < g[j] /\ g[i] \in 1 .. Len(w) /\ g[j] \in 1 .. Len(w)
    BY <1>3, <1>5 DEF Picks
  <2>2. Later(src, rank, g[i], g[j])
    BY <1>1, <2>1 DEF Explains
  <2> QED
    BY <1>3, <2>2 DEF Later
<1>6. Explains(src1, rank1, r, c, p, left)
  BY <1>4, <1>5 DEF Explains
<1> QED
  BY <1>2, <1>6 DEF Explained

LEMMA RecentExplained ==
  ASSUME NEW c \in Sliding, NEW p, NEW left, NEW w \in Seq(Entry), NEW since \in Nat,
         Explained(w, c, p, left)
  PROVE  Recent(w, since) \in Seq(Entry) /\ Explained(Recent(w, since), c, p, left)
<1>1. Recent(w, since) \in Seq(Entry) /\ PartOf(Recent(w, since), w, Len(w), since)
  BY RecentIsPart
<1> QED
  BY <1>1, PartExplained DEF PartOf

\* Fewer conditions are left to be checked.
LEMMA ExplainedLess ==
  ASSUME NEW c \in Sliding, NEW p, NEW left, NEW less \in SUBSET left, NEW w \in Seq(Entry),
         Explained(w, c, p, left)
  PROVE  Explained(w, c, p, less)
<1>1. PICK src \in [1 .. Len(w) -> 1 .. Len(p)],
           rank \in [1 .. Len(w) -> 1 .. Cardinality(Sharing(c))] :
        Explains(src, rank, w, c, p, left)
  BY DEF Explained
<1>2. Cardinality(Sharing(c) \ left) <= Cardinality(Sharing(c) \ less)
  <2>1. Sharing(c) \ left \subseteq Sharing(c) \ less
    OBVIOUS
  <2> QED
    BY <2>1, SharingFinite, FS_Subset
<1>3. Cardinality(Sharing(c) \ left) \in Nat /\ Cardinality(Sharing(c) \ less) \in Nat
  BY SharingFinite
<1>4. \A i \in 1 .. Len(w) : src[i] = Len(p) => rank[i] <= Cardinality(Sharing(c) \ less)
  BY <1>1, <1>2, <1>3 DEF Explains
<1>5. Explains(src, rank, w, c, p, less)
  BY <1>1, <1>4 DEF Explains
<1> QED
  BY <1>5 DEF Explained

\* Another event is evaluated.
LEMMA ExplainedLater ==
  ASSUME NEW c \in Sliding, NEW p \in Seq(Evaluated), NEW e \in Evaluated, NEW left, NEW left1,
         NEW w \in Seq(Entry), Explained(w, c, p, left)
  PROVE  Explained(w, c, Append(p, e), left1)
<1>1. PICK src \in [1 .. Len(w) -> 1 .. Len(p)],
           rank \in [1 .. Len(w) -> 1 .. Cardinality(Sharing(c))] :
        Explains(src, rank, w, c, p, left)
  BY DEF Explained
<1>2. Len(Append(p, e)) = Len(p) + 1 /\ \A i \in 1 .. Len(p) : Append(p, e)[i] = p[i]
  OBVIOUS
<1>3. src \in [1 .. Len(w) -> 1 .. Len(Append(p, e))]
  BY <1>2
<1>4. \A i \in 1 .. Len(w) : /\ src[i] \in 1 .. Len(p) /\ src[i] # Len(Append(p, e))
                             /\ Append(p, e)[src[i]] = p[src[i]]
  BY <1>2
<1>5. Explains(src, rank, w, c, Append(p, e), left1)
  BY <1>1, <1>4 DEF Explains
<1> QED
  BY <1>3, <1>5 DEF Explained

\* The current event goes into the window, by one more of those that share it.
LEMMA ExplainedNow ==
  ASSUME NEW c \in Sliding, NEW p \in Seq(Evaluated), NEW left, c \in left, Len(p) > 0,
         Counts(c, p[Len(p)].ev), NEW x \in Entry,
         x.ts = p[Len(p)].ts, x.amount = Weight(c, p[Len(p)].ev),
         NEW w \in Seq(Entry), Explained(w, c, p, left)
  PROVE  Explained(Append(w, x), c, p, left \ {c})
<1>1. PICK src \in [1 .. Len(w) -> 1 .. Len(p)],
           rank \in [1 .. Len(w) -> 1 .. Cardinality(Sharing(c))] :
        Explains(src, rank, w, c, p, left)
  BY DEF Explained
<1> DEFINE r == Cardinality(Sharing(c) \ (left \ {c}))
           n == Len(w)
<1>2. r = Cardinality(Sharing(c) \ left) + 1 /\ Cardinality(Sharing(c) \ left) \in Nat
  <2>1. c \in Sharing(c)
    BY DEF Sharing
  <2>2. Sharing(c) \ (left \ {c}) = (Sharing(c) \ left) \cup {c} /\ c \notin Sharing(c) \ left
    BY <2>1
  <2>3. IsFiniteSet(Sharing(c) \ left) /\ Cardinality(Sharing(c) \ left) \in Nat
    BY SharingFinite
  <2> QED
    BY <2>2, <2>3, FS_AddElement
<1>3. r \in 1 .. Cardinality(Sharing(c))
  <2>1. Cardinality(Sharing(c)) \in Nat /\ r \in Nat /\ r <= Cardinality(Sharing(c))
    BY SharingFinite
  <2> QED
    BY <1>2, <2>1
<1> HIDE DEF r
<1>4. n \in Nat /\ Len(p) \in 1 .. Len(p)
  OBVIOUS
<1>5. /\ Append(w, x) \in Seq(Entry) /\ Len(Append(w, x)) = n + 1
      /\ \A i \in 1 .. n : Append(w, x)[i] = w[i]
      /\ Append(w, x)[n + 1] = x
  OBVIOUS
<1>6. PICK src1 \in [1 .. n + 1 -> 1 .. Len(p)], rank1 \in [1 .. n + 1 -> 1 .. Cardinality(Sharing(c))] :
        /\ src1[n + 1] = Len(p) /\ rank1[n + 1] = r
        /\ \A i \in 1 .. n : src1[i] = src[i] /\ rank1[i] = rank[i]
  <2> DEFINE s == [i \in 1 .. n + 1 |-> IF i <= n THEN src[i] ELSE Len(p)]
             k == [i \in 1 .. n + 1 |-> IF i <= n THEN rank[i] ELSE r]
  <2>1. /\ s \in [1 .. n + 1 -> 1 .. Len(p)] /\ s[n + 1] = Len(p)
        /\ \A i \in 1 .. n : s[i] = src[i]
    BY <1>4
  <2>2. /\ k \in [1 .. n + 1 -> 1 .. Cardinality(Sharing(c))] /\ k[n + 1] = r
        /\ \A i \in 1 .. n : k[i] = rank[i]
    BY <1>3, <1>4
  <2> HIDE DEF s, k
  <2> QED
    BY <2>1, <2>2
<1>7. \A i \in 1 .. n + 1 : i = n + 1 \/ i \in 1 .. n
  BY <1>4
<1>8. ASSUME NEW i \in 1 .. n + 1
      PROVE  /\ Append(w, x)[i].ts = p[src1[i]].ts
             /\ Append(w, x)[i].amount = Weight(c, p[src1[i]].ev)
             /\ Counts(c, p[src1[i]].ev)
             /\ src1[i] = Len(p) => rank1[i] <= r
  <2>1. CASE i = n + 1
    BY <1>2, <1>5, <1>6, <2>1
  <2>2. CASE i \in 1 .. n
    <3>1. Append(w, x)[i] = w[i] /\ src1[i] = src[i] /\ rank1[i] = rank[i] /\ rank[i] \in Nat
      BY <1>5, <1>6, <2>2
    <3>2. src[i] = Len(p) => rank[i] <= Cardinality(Sharing(c) \ left)
      BY <1>1, <2>2 DEF Explains
    <3>3. src[i] = Len(p) => rank[i] <= r
      BY <1>2, <3>1, <3>2
    <3> QED
      BY <1>1, <2>2, <3>1, <3>3 DEF Explains
  <2> QED
    BY <1>7, <2>1, <2>2
<1>9. ASSUME NEW i \in 1 .. n + 1, NEW j \in 1 .. n + 1, i < j
      PROVE  Later(src1, rank1, i, j)
  <2>1. i \in 1 .. n /\ src1[i] = src[i] /\ rank1[i] = rank[i] /\ src[i] \in 1 .. Len(p) /\ rank[i] \in Nat
    BY <1>4, <1>6, <1>9
  <2>2. CASE j = n + 1
    <3>1. CASE src[i] = Len(p)
      <4>1. rank[i] <= Cardinality(Sharing(c) \ left)
        BY <1>1, <2>1, <3>1 DEF Explains
      <4>2. rank[i] < r
        BY <1>2, <2>1, <4>1
      <4> QED
        BY <1>6, <2>1, <2>2, <3>1, <4>2 DEF Later
    <3>2. CASE src[i] < Len(p)
      BY <1>6, <2>1, <2>2, <3>2 DEF Later
    <3> QED
      BY <2>1, <3>1, <3>2
  <2>3. CASE j \in 1 .. n
    <3>1. Later(src, rank, i, j)
      BY <1>1, <1>9, <2>1, <2>3 DEF Explains
    <3> QED
      BY <1>6, <2>1, <2>3, <3>1 DEF Later
  <2> QED
    BY <1>7, <2>2, <2>3
<1>10. Explains(src1, rank1, Append(w, x), c, p, left \ {c})
  BY <1>5, <1>8, <1>9 DEF Explains, r
<1> QED
  BY <1>5, <1>6, <1>10 DEF Explained

-----------------------------------------------------------------------------
(* ConditionEngine: what a match is backed by                              *)

\* Backing and the total of ThresholdBacked, of a sequence of past events.
BackedAt(f, p) ==
  {i \in 1 .. f.n : p[i].ts + Def[f.cond].window >= f.at /\ Counts(f.cond, p[i].ev)}

AmountsOf(f, p) ==
  [k \in 1 .. f.n |-> [amount |-> IF k \in BackedAt(f, p) THEN Weight(f.cond, p[k].ev) ELSE 0]]

Enough(f, p) ==
  f.cond \in Sliding =>
    Total(AmountsOf(f, p)) * Cardinality(Sharing(f.cond)) >= Def[f.cond].minimum

\* The inductive invariant behind ThresholdBacked.
WindowsTraced ==
  /\ windows \in [Keys -> Seq(Entry)]
  /\ \A c \in Sliding : Explained(windows[Key(c)], c, past, todo)

CurrentIsLast ==
  event # Nothing => Len(past) > 0 /\ past[Len(past)] = [ev |-> event, ts |-> now]

FiresBacked == \A i \in 1 .. Len(fires) : fires[i].n <= Len(past) /\ Enough(fires[i], past)

BackedInv == WindowsTraced /\ CurrentIsLast /\ FiresBacked

NoneOlder(w, since) == \A i \in 1 .. Len(w) : w[i].ts >= since

LEMMA BackedMeans ==
  ASSUME EngineTypeOK, FiresBacked
  PROVE  ThresholdBacked
<1>1. DOMAIN fires = 1 .. Len(fires)
  BY DEF EngineTypeOK
<1>2. ASSUME NEW i \in 1 .. Len(fires), fires[i].cond \in Sliding
      PROVE  Total([k \in 1 .. fires[i].n |->
                      [amount |-> IF k \in Backing(fires[i])
                                  THEN Weight(fires[i].cond, past[k].ev) ELSE 0]])
               * Cardinality(Sharing(fires[i].cond)) >= Def[fires[i].cond].minimum
  <2> DEFINE f == fires[i]
  <2>1. Enough(f, past)
    BY DEF FiresBacked
  <2> QED
    BY <1>2, <2>1 DEF Enough, AmountsOf, BackedAt, Backing
<1> QED
  BY <1>1, <1>2 DEF ThresholdBacked

LEMMA TotalNat ==
  ASSUME NEW s, NEW n \in Nat, Len(s) = n, \A i \in 1 .. n : s[i].amount \in Nat
  PROVE  Total(s) \in Nat
<1>1. PICK f \in [0 .. n -> Nat] : Total(s) = f[n]
  BY TotalSteps
<1> QED
  BY <1>1

LEMMA WeightNat ==
  ASSUME NEW c, NEW e \in Events
  PROVE  Weight(c, e) \in Nat
BY EngineAssumption DEF Weight

LEMMA EvaluatedTypes ==
  ASSUME NEW p \in Seq(Evaluated), NEW i \in 1 .. Len(p)
  PROVE  p[i].ev \in Events /\ p[i].ts \in Nat
<1>1. p[i] \in Evaluated
  OBVIOUS
<1> QED
  BY <1>1 DEF Evaluated

LEMMA EntryTypes ==
  ASSUME NEW w \in Seq(Entry), NEW i \in 1 .. Len(w)
  PROVE  w[i].ts \in Nat /\ w[i].amount \in Nat
<1>1. w[i] \in Entry
  OBVIOUS
<1> QED
  BY <1>1 DEF Entry

LEMMA TableLength ==
  ASSUME NEW m \in Nat, NEW S, NEW g \in [1 .. m -> S]
  PROVE  Len(g) = m
<1>1. g \in Seq(S)
  OBVIOUS
<1> QED
  BY <1>1, LenProperties

\* A window with enough in it is backed by what was evaluated.
LEMMA FireBacked ==
  ASSUME past \in Seq(Evaluated), now \in Nat,
         NEW c \in Sliding, NEW left, NEW w \in Seq(Entry), Explained(w, c, past, left),
         NoneOlder(w, Cutoff(c)), Total(w) >= Def[c].minimum,
         NEW f, f.cond = c, f.at = now, f.n = Len(past)
  PROVE  Enough(f, past)
<1>1. PICK src \in [1 .. Len(w) -> 1 .. Len(past)],
           rank \in [1 .. Len(w) -> 1 .. Cardinality(Sharing(c))] :
        Explains(src, rank, w, c, past, left)
  BY DEF Explained
<1> DEFINE t == AmountsOf(f, past)
           m == Len(past)
           n == Len(w)
           k == Cardinality(Sharing(c))
<1>2. /\ m \in Nat /\ n \in Nat /\ k \in Nat
      /\ Def[c].window \in Nat /\ Def[c].minimum \in Nat
  <2>1. m \in Nat /\ n \in Nat
    BY LenProperties
  <2>2. k \in Nat
    BY SharingFinite
  <2>3. c \in Conds
    BY DEF Sliding
  <2> QED
    BY <2>1, <2>2, <2>3, EngineAssumption
<1>3. \A i \in 1 .. m : past[i].ev \in Events /\ past[i].ts \in Nat
  BY EvaluatedTypes
<1>4. t = [i \in 1 .. m |-> [amount |-> IF i \in BackedAt(f, past)
                                        THEN Weight(c, past[i].ev) ELSE 0]]
  BY DEF AmountsOf
<1> HIDE DEF t
<1>5. t \in [1 .. m -> {t[i] : i \in 1 .. m}]
  BY <1>4
<1>6. Len(t) = m
  BY <1>2, <1>5, TableLength
<1>7. \A i \in 1 .. m : t[i].amount \in Nat
  BY <1>3, <1>4, WeightNat
<1>8. \A i \in 1 .. n : w[i].amount \in Nat
  BY EntryTypes
<1>9. ASSUME NEW i \in 1 .. n PROVE w[i].amount = t[src[i]].amount
  <2> DEFINE j == src[i]
  <2>1. j \in 1 .. m
    OBVIOUS
  <2>2. i \in 1 .. Len(w)
    OBVIOUS
  <2>3. w[i].ts = past[j].ts /\ w[i].amount = Weight(c, past[j].ev) /\ Counts(c, past[j].ev)
    BY <1>1, <2>2 DEF Explains
  <2> HIDE DEF j
  <2>4. past[j].ts + Def[c].window >= now
    <3>1. Cutoff(c) = IF Def[c].window > now THEN 0 ELSE now - Def[c].window
      BY DEF Cutoff
    <3>2. w[i].ts \in Nat /\ w[i].ts >= Cutoff(c)
      BY EntryTypes DEF NoneOlder
    <3> QED
      BY <1>2, <2>3, <3>2, <3>1
  <2>5. j \in BackedAt(f, past)
    BY <2>1, <2>3, <2>4 DEF BackedAt
  <2> QED
    BY <1>4, <2>1, <2>3, <2>5 DEF j
<1>10. \A i, j \in 1 .. n : i < j => Later(src, rank, i, j)
  BY <1>1 DEF Explains
<1>11. Total(w) <= Total(t) * k
  <2> HIDE DEF k, n, m
  <2>1. src \in [1 .. n -> 1 .. m] /\ rank \in [1 .. n -> 1 .. k] /\ Len(w) = n
    BY DEF k, n, m
  <2> QED
    BY <1>2, <1>6, <1>7, <1>8, <1>9, <1>10, <2>1, TotalBound, ZenonT(60)
<1>12. Total(w) \in Nat /\ Total(t) \in Nat
  <2>1. Total(w) \in Nat
    BY <1>2, <1>8, TotalNat
  <2>2. Total(t) \in Nat
    BY <1>2, <1>6, <1>7, TotalNat
  <2> QED
    BY <2>1, <2>2
<1>13. Total(t) * k \in Nat
  BY <1>2, <1>12, Products
<1>14. Total(t) * k >= Def[c].minimum
  BY <1>2, <1>11, <1>12, <1>13
<1> QED
  BY <1>14 DEF Enough, t

\* What a match was backed by is not changed by later events.
LEMMA EnoughLater ==
  ASSUME NEW p \in Seq(Evaluated), NEW e \in Evaluated, NEW f, f.n \in Nat, f.n <= Len(p),
         Enough(f, p)
  PROVE  Enough(f, Append(p, e))
<1>1. \A i \in 1 .. f.n : Append(p, e)[i] = p[i]
  <2>1. \A i \in 1 .. f.n : i \in 1 .. Len(p)
    OBVIOUS
  <2> QED
    BY <2>1
<1>2. BackedAt(f, Append(p, e)) = BackedAt(f, p)
  BY <1>1 DEF BackedAt
<1>3. AmountsOf(f, Append(p, e)) = AmountsOf(f, p)
  BY <1>1, <1>2 DEF AmountsOf
<1> QED
  BY <1>3 DEF Enough

\* The window of c once the current event has gone into it.
LEMMA WindowEffect ==
  ASSUME EngineTypeOK, WindowsTraced, CurrentIsLast, event # Nothing,
         NEW c \in Sliding, c \in todo, Counts(c, event)
  PROVE  /\ WindowWith(c, event) \in Seq(Entry)
         /\ Explained(WindowWith(c, event), c, past, todo \ {c})
         /\ NoneOlder(WindowWith(c, event), Cutoff(c))
<1> DEFINE w == windows[Key(c)]
           r == Recent(w, Cutoff(c))
           x == [ts |-> now, amount |-> Weight(c, event)]
           all == Append(r, x)
           excess == IF Len(all) > WindowMax THEN Len(all) - WindowMax ELSE 0
           res == SubSeq(all, excess + 1, Len(all))
<1>1. WindowWith(c, event) = res
  BY DEF WindowWith
<1>2. w \in Seq(Entry) /\ Explained(w, c, past, todo)
  BY DEF WindowsTraced, Keys
<1>3. past \in Seq(Evaluated) /\ now \in Nat /\ event \in Events
  BY DEF EngineTypeOK, Evaluated
<1>4. c \in Conds /\ Def[c].window \in Nat
  BY EngineAssumption DEF Sliding
<1>5. Cutoff(c) \in Nat /\ Cutoff(c) <= now
  BY <1>3, <1>4 DEF Cutoff
<1> HIDE DEF w
<1>6. r \in Seq(Entry) /\ Explained(r, c, past, todo)
  BY <1>2, <1>5, RecentExplained
<1>7. NoneOlder(r, Cutoff(c))
  <2>1. PartOf(r, w, Len(w), Cutoff(c))
    BY <1>2, <1>5, RecentIsPart
  <2> QED
    BY <2>1 DEF PartOf, NoneOlder
<1>8. x \in Entry /\ x.ts = now /\ x.amount = Weight(c, event)
  <2>1. Weight(c, event) \in Nat
    BY <1>3, WeightNat
  <2> QED
    BY <1>3, <2>1 DEF Entry
<1>9. Len(past) > 0 /\ past[Len(past)].ev = event /\ past[Len(past)].ts = now
  BY DEF CurrentIsLast
<1> HIDE DEF r, x
<1>10. Explained(all, c, past, todo \ {c})
  <2>1. /\ Counts(c, past[Len(past)].ev) /\ x.ts = past[Len(past)].ts
        /\ x.amount = Weight(c, past[Len(past)].ev)
    BY <1>8, <1>9
  <2> QED
    BY <1>3, <1>6, <1>8, <1>9, <2>1, ExplainedNow, ZenonT(60)
<1>11. /\ all \in Seq(Entry) /\ Len(all) = Len(r) + 1 /\ Len(r) \in Nat
       /\ all[Len(r) + 1] = x /\ \A i \in 1 .. Len(r) : all[i] = r[i]
  BY <1>6, <1>8
<1>12. NoneOlder(all, Cutoff(c))
  <2>1. ASSUME NEW i \in 1 .. Len(all) PROVE all[i].ts >= Cutoff(c)
    <3>1. CASE i = Len(r) + 1
      <4>1. all[i].ts = now
        BY <1>8, <1>11, <3>1
      <4> QED
        BY <1>3, <1>5, <4>1
    <3>2. CASE i \in 1 .. Len(r)
      <4>1. all[i] = r[i]
        BY <1>11, <3>2
      <4> QED
        BY <1>7, <3>2, <4>1 DEF NoneOlder
    <3> QED
      BY <1>11, <3>1, <3>2
  <2> QED
    BY <2>1 DEF NoneOlder
<1> HIDE DEF all
<1>13. excess \in 0 .. Len(all)
  BY <1>11, EngineAssumption
<1> HIDE DEF excess
<1>14. /\ res \in Seq(Entry) /\ Len(res) = Len(all) - excess
       /\ \A i \in 1 .. Len(res) : i + excess \in 1 .. Len(all) /\ res[i] = all[i + excess]
  BY <1>11, <1>13
<1>15. Explained(res, c, past, todo \ {c})
  <2> DEFINE g == [i \in 1 .. Len(res) |-> i + excess]
  <2>1. g \in [1 .. Len(res) -> 1 .. Len(all)]
    BY <1>14
  <2>2. Picks(g, res, all)
    BY <1>13, <1>14 DEF Picks
  <2> HIDE DEF g, res
  <2> QED
    BY <1>10, <1>11, <1>14, <2>1, <2>2, PartExplained, ZenonT(60)
<1>16. NoneOlder(res, Cutoff(c))
  BY <1>12, <1>14 DEF NoneOlder
<1> QED
  BY <1>1, <1>14, <1>15, <1>16

\* What a turn of the loop does to the windows, and what it lets through.
FireOf(c) == [cond |-> c, sig |-> event.sig, at |-> now, n |-> Len(past)]

LEMMA CheckWindows ==
  ASSUME EngineTypeOK, NEW c \in Conds, Check(c)
  PROVE  /\ c \in todo /\ event # Nothing
         /\ past' = past /\ now' = now /\ todo' = todo \ {c} /\ event' \in {event, Nothing}
         /\ \/ /\ windows' = windows
               /\ \/ fires' = fires
                  \/ c \notin Sliding /\ fires' = Append(fires, FireOf(c))
            \/ /\ c \in Sliding /\ Counts(c, event)
               /\ windows' = [windows EXCEPT ![Key(c)] = WindowWith(c, event)]
               /\ \/ fires' = fires
                  \/ /\ fires' = Append(fires, FireOf(c))
                     /\ Total(WindowWith(c, event)) >= Def[c].minimum
<1>1. /\ c \in todo /\ event # Nothing
      /\ past' = past /\ now' = now /\ todo' = todo \ {c} /\ event' \in {event, Nothing}
  BY DEF Check, EngineTypeOK
<1>2. CASE UNCHANGED <<matchVars, fires, lastFired>>
  BY <1>1, <1>2 DEF matchVars
<1>3. CASE Stay(c) /\ UNCHANGED windows
  BY <1>1, <1>3 DEF Stay
<1>4. CASE MatchSingle(c)
  BY <1>1, <1>4 DEF MatchSingle, Fire, Stay, FireOf
<1>5. CASE MatchSliding(c)
  <2>1. CASE ~Counts(c, event)
    BY <1>1, <1>5, <2>1 DEF MatchSliding, Stay
  <2>2. CASE Counts(c, event)
    <3>1. c \in Sliding /\ windows' = [windows EXCEPT ![Key(c)] = WindowWith(c, event)]
      BY <1>5, <2>2 DEF MatchSliding
    <3>2. Stay(c) \/ (Fire(c) /\ Total(WindowWith(c, event)) >= Def[c].minimum)
      BY <1>5, <2>2 DEF MatchSliding
    <3>3. \/ fires' = fires
          \/ fires' = Append(fires, FireOf(c)) /\ Total(WindowWith(c, event)) >= Def[c].minimum
      BY <3>2 DEF Stay, Fire, FireOf
    <3> QED
      BY <1>1, <2>2, <3>1, <3>3
  <2> QED
    BY <2>1, <2>2
<1> QED
  BY <1>2, <1>3, <1>4, <1>5 DEF Check

\* One more match, with enough behind it.
LEMMA OneMoreFire ==
  ASSUME EngineTypeOK, FiresBacked, NEW c \in Conds, fires' = Append(fires, FireOf(c)), past' = past,
         event \in Events, Enough(FireOf(c), past)
  PROVE  FiresBacked'
<1>1. FireOf(c).n = Len(past) /\ Len(past) \in Nat
  BY LenProperties DEF FireOf, EngineTypeOK
<1>2. fires \in Seq(Match) /\ FireOf(c) \in Match
  BY <1>1 DEF EngineTypeOK, Match, FireOf
<1>3. /\ Len(fires') = Len(fires) + 1 /\ Len(fires) \in Nat /\ fires'[Len(fires) + 1] = FireOf(c)
      /\ \A i \in 1 .. Len(fires) : fires'[i] = fires[i]
  BY <1>2, AppendProperties, LenProperties
<1>4. ASSUME NEW i \in 1 .. Len(fires')
      PROVE  fires'[i].n <= Len(past) /\ Enough(fires'[i], past)
  <2>1. CASE i = Len(fires) + 1
    BY <1>1, <1>3, <2>1
  <2>2. CASE i \in 1 .. Len(fires)
    <3>1. fires'[i] = fires[i]
      BY <1>3, <2>2
    <3> QED
      BY <2>2, <3>1 DEF FiresBacked
  <2> QED
    BY <1>3, <2>1, <2>2
<1>5. \A i \in 1 .. Len(fires') : fires'[i].n <= Len(past') /\ Enough(fires'[i], past')
  BY <1>4
<1> QED
  BY <1>5 DEF FiresBacked

LEMMA CheckBacked ==
  ASSUME EngineTypeOK, BackedInv, NEW c \in Conds, Check(c)
  PROVE  BackedInv'
<1>1. /\ c \in todo /\ event # Nothing /\ event \in Events
      /\ past' = past /\ now' = now /\ todo' = todo \ {c} /\ event' \in {event, Nothing}
  BY CheckWindows DEF EngineTypeOK
<1>2. CurrentIsLast'
  BY <1>1 DEF BackedInv, CurrentIsLast
<1>3. \A d \in Sliding : Key(d) \in Keys
  BY DEF Keys
<1>4. ASSUME NEW d \in Sliding PROVE Explained(windows[Key(d)], d, past, todo \ {c})
  <2>1. windows[Key(d)] \in Seq(Entry) /\ Explained(windows[Key(d)], d, past, todo)
    BY <1>3 DEF BackedInv, WindowsTraced
  <2> QED
    BY <2>1, ExplainedLess
<1>5. ASSUME windows' = windows PROVE WindowsTraced'
  BY <1>1, <1>4, <1>5 DEF BackedInv, WindowsTraced
<1>6. ASSUME c \in Sliding, Counts(c, event),
             windows' = [windows EXCEPT ![Key(c)] = WindowWith(c, event)]
      PROVE  WindowsTraced'
  <2>1. /\ WindowWith(c, event) \in Seq(Entry)
        /\ Explained(WindowWith(c, event), c, past, todo \ {c})
    BY <1>1, <1>6, WindowEffect DEF BackedInv
  <2>2. windows' \in [Keys -> Seq(Entry)]
    BY <1>6, <2>1 DEF BackedInv, WindowsTraced
  <2>3. ASSUME NEW d \in Sliding PROVE Explained(windows'[Key(d)], d, past, todo \ {c})
    <3>1. CASE Key(d) = Key(c)
      <4>1. windows'[Key(d)] = WindowWith(c, event)
        BY <1>3, <1>6, <3>1 DEF BackedInv, WindowsTraced
      <4> QED
        BY <1>6, <2>1, <3>1, <4>1, SharedWindow
    <3>2. CASE Key(d) # Key(c)
      <4>1. windows'[Key(d)] = windows[Key(d)]
        BY <1>3, <1>6, <3>2 DEF BackedInv, WindowsTraced
      <4> QED
        BY <1>4, <4>1
    <3> QED
      BY <3>1, <3>2
  <2>4. \A d \in Sliding : Explained(windows'[Key(d)], d, past', todo')
    BY <1>1, <2>3
  <2> QED
    BY <2>2, <2>4 DEF WindowsTraced
<1>7. ASSUME fires' = fires PROVE FiresBacked'
  BY <1>1, <1>7 DEF BackedInv, FiresBacked
<1>8. ASSUME c \notin Sliding, fires' = Append(fires, FireOf(c)) PROVE FiresBacked'
  <2>1. Enough(FireOf(c), past)
    BY <1>8 DEF Enough, FireOf
  <2> QED
    BY <1>1, <1>8, <2>1, OneMoreFire DEF BackedInv
<1>9. ASSUME c \in Sliding, Counts(c, event), fires' = Append(fires, FireOf(c)),
             Total(WindowWith(c, event)) >= Def[c].minimum
      PROVE  FiresBacked'
  <2>1. /\ WindowWith(c, event) \in Seq(Entry)
        /\ Explained(WindowWith(c, event), c, past, todo \ {c})
        /\ NoneOlder(WindowWith(c, event), Cutoff(c))
    BY <1>1, <1>9, WindowEffect DEF BackedInv
  <2>2. past \in Seq(Evaluated) /\ now \in Nat
    BY DEF EngineTypeOK, Evaluated
  <2>3. FireOf(c).cond = c /\ FireOf(c).at = now /\ FireOf(c).n = Len(past)
    BY DEF FireOf
  <2>4. Enough(FireOf(c), past)
    BY <1>9, <2>1, <2>2, <2>3, FireBacked, ZenonT(60)
  <2> QED
    BY <1>1, <1>9, <2>4, OneMoreFire DEF BackedInv
<1> QED
  BY <1>2, <1>5, <1>6, <1>7, <1>8, <1>9, CheckWindows DEF BackedInv

LEMMA EvaluateBacked ==
  ASSUME EngineTypeOK, BackedInv, NEW e \in Events, Evaluate(e)
  PROVE  BackedInv'
<1> DEFINE x == [ev |-> e, ts |-> now]
<1>1. x \in Evaluated /\ past \in Seq(Evaluated) /\ past' = Append(past, x)
  BY DEF EngineTypeOK, Evaluate, Evaluated
<1>2. windows' = windows /\ fires' = fires /\ now' = now /\ event' \in {event, e} /\ event = Nothing
  BY DEF Evaluate, matchVars
<1>3. Len(past') = Len(past) + 1 /\ past'[Len(past')] = x /\ Len(past) \in Nat
  BY <1>1, AppendProperties, LenProperties
<1>4. CurrentIsLast'
  BY <1>2, <1>3 DEF CurrentIsLast
<1> HIDE DEF x
<1>5. WindowsTraced'
  <2>1. ASSUME NEW c \in Sliding PROVE Explained(windows[Key(c)], c, past', todo')
    <3>1. windows[Key(c)] \in Seq(Entry) /\ Explained(windows[Key(c)], c, past, todo)
      BY DEF BackedInv, WindowsTraced, Keys
    <3> QED
      BY <1>1, <3>1, ExplainedLater
  <2> QED
    BY <1>2, <2>1 DEF BackedInv, WindowsTraced
<1>6. FiresBacked'
  <2>1. ASSUME NEW i \in 1 .. Len(fires) PROVE fires[i].n <= Len(past') /\ Enough(fires[i], past')
    <3>1. fires[i].n <= Len(past) /\ Enough(fires[i], past)
      BY DEF BackedInv, FiresBacked
    <3>2. fires[i].n \in Nat
      <4>1. fires \in Seq(Match)
        BY TypeParts DEF FiringTypes
      <4>2. fires[i] \in Match
        BY <4>1
      <4> QED
        BY <4>2 DEF Match
    <3>3. Enough(fires[i], past')
      BY <1>1, <3>1, <3>2, EnoughLater
    <3> QED
      BY <1>3, <3>1, <3>2, <3>3
  <2> QED
    BY <1>2, <2>1 DEF FiresBacked
<1> QED
  BY <1>4, <1>5, <1>6 DEF BackedInv

LEMMA CleanupBacked ==
  ASSUME EngineTypeOK, BackedInv, Cleanup
  PROVE  BackedInv'
<1> DEFINE since == IF KeepFor > now THEN 0 ELSE now - KeepFor + 1
<1>1. since \in Nat
  BY EngineAssumption DEF EngineTypeOK
<1>2. windows' = [k \in Keys |-> Recent(windows[k], since)]
  BY DEF Cleanup
<1>3. UNCHANGED <<event, todo, now, past, fires>>
  BY DEF Cleanup, traceVars
<1> HIDE DEF since
<1>4. windows' \in [Keys -> Seq(Entry)]
  <2>1. ASSUME NEW k \in Keys PROVE Recent(windows[k], since) \in Seq(Entry)
    <3>1. windows[k] \in Seq(Entry)
      BY DEF BackedInv, WindowsTraced
    <3> QED
      BY <1>1, <3>1, RecentIsPart
  <2> QED
    BY <1>2, <2>1
<1>5. ASSUME NEW c \in Sliding PROVE Explained(windows'[Key(c)], c, past, todo)
  <2>1. Key(c) \in Keys
    BY DEF Keys
  <2>2. windows[Key(c)] \in Seq(Entry) /\ Explained(windows[Key(c)], c, past, todo)
    BY <2>1 DEF BackedInv, WindowsTraced
  <2>3. windows'[Key(c)] = Recent(windows[Key(c)], since)
    BY <1>2, <2>1
  <2> QED
    BY <1>1, <2>2, <2>3, RecentExplained
<1>6. WindowsTraced'
  BY <1>3, <1>4, <1>5 DEF WindowsTraced
<1> QED
  BY <1>3, <1>6 DEF BackedInv, CurrentIsLast, FiresBacked

\* Steps that evaluate nothing; time passes only between evaluations.
LEMMA OtherBacked ==
  ASSUME BackedInv, UNCHANGED <<windows, todo, past, fires, event>>, now' = now \/ event = Nothing
  PROVE  BackedInv'
<1>1. WindowsTraced'
  BY DEF BackedInv, WindowsTraced
<1>2. CurrentIsLast'
  BY DEF BackedInv, CurrentIsLast
<1>3. FiresBacked'
  BY DEF BackedInv, FiresBacked
<1> QED
  BY <1>1, <1>2, <1>3 DEF BackedInv

LEMMA BackedStep == EngineInv /\ BackedInv /\ [EngineNext]_engineVars => BackedInv'
<1> SUFFICES ASSUME EngineInv, BackedInv, [EngineNext]_engineVars PROVE BackedInv'
  OBVIOUS
<1>1. EngineTypeOK
  BY DEF EngineInv
<1>2. CASE \E c \in Conds : Load(c) \/ Unload(c) \/ SetEnabled(c)
  <2>1. PICK c \in Conds : Load(c) \/ Unload(c) \/ SetEnabled(c)
    BY <1>2
  <2>2. UNCHANGED <<windows, todo, past, fires, event, now>>
    BY <2>1 DEF Load, Unload, SetEnabled, Change, matchVars
  <2> QED
    BY <2>2, OtherBacked
<1>3. CASE \E c \in Conds : Check(c)
  BY <1>1, <1>3, CheckBacked
<1>4. CASE \E e \in Events : Evaluate(e)
  BY <1>1, <1>4, EvaluateBacked
<1>5. CASE Cleanup
  BY <1>1, <1>5, CleanupBacked
<1>6. CASE Tick
  <2>1. UNCHANGED <<windows, todo, past, fires, event>> /\ event = Nothing
    BY <1>6 DEF Tick, matchVars, traceVars
  <2> QED
    BY <2>1, OtherBacked
<1>7. CASE UNCHANGED engineVars
  <2>1. UNCHANGED <<windows, todo, past, fires, event, now>>
    BY <1>7 DEF engineVars, matchVars, traceVars
  <2> QED
    BY <2>1, OtherBacked
<1> QED
  BY <1>2, <1>3, <1>4, <1>5, <1>6, <1>7 DEF EngineNext

LEMMA BackedInit == EngineInit => BackedInv
<1> SUFFICES ASSUME EngineInit PROVE BackedInv
  OBVIOUS
<1>1. Len(<<>>) = 0 /\ <<>> \in Seq(Entry)
  BY EmptySeq
<1>2. windows \in [Keys -> Seq(Entry)] /\ \A k \in Keys : windows[k] = <<>>
  BY <1>1 DEF EngineInit
<1>3. ASSUME NEW c \in Sliding PROVE Explained(windows[Key(c)], c, past, todo)
  <2>1. windows[Key(c)] = <<>>
    BY <1>2 DEF Keys
  <2> DEFINE none == [i \in 1 .. 0 |-> 1]
  <2>2. none \in [1 .. 0 -> 1 .. Len(past)] /\ none \in [1 .. 0 -> 1 .. Cardinality(Sharing(c))]
    OBVIOUS
  <2>3. Explains(none, none, <<>>, c, past, todo)
    BY <1>1 DEF Explains
  <2> HIDE DEF none
  <2> QED
    BY <1>1, <2>1, <2>2, <2>3 DEF Explained
<1>4. CurrentIsLast
  BY DEF EngineInit, CurrentIsLast
<1>5. FiresBacked
  BY <1>1 DEF EngineInit, FiresBacked
<1> QED
  BY <1>2, <1>3, <1>4, <1>5 DEF BackedInv, WindowsTraced

\* A burst or volume condition fires only on events of its own window: what the
\* window it shares adds up to is at most what they add up to, times the number
\* of those that share it (checkSwapBurst, checkTokenVolume, cleanup).
THEOREM BackedByEvents == EngineSpec => []ThresholdBacked
<1>1. EngineInv /\ BackedInv => ThresholdBacked
  BY BackedMeans DEF EngineInv, BackedInv
<1>2. EngineInit => BackedInv
  BY BackedInit
<1>3. EngineInv /\ BackedInv /\ [EngineNext]_engineVars => BackedInv'
  BY BackedStep
<1> QED
  BY <1>1, <1>2, <1>3, Invariant, PTL DEF EngineSpec

-----------------------------------------------------------------------------
(* TransactionParser: transfers                                            *)

LEMMA TransactionTypes ==
  ASSUME tx \in Transactions
  PROVE  /\ Len(tx.accounts) \in Nat /\ DOMAIN tx.accounts = 1 .. Len(tx.accounts)
         /\ \A i \in DOMAIN tx.accounts :
              /\ tx.accounts[i].owner \in Wallets /\ tx.accounts[i].mint \in Mints
              /\ tx.accounts[i].pre \in Nat \cup {Closed} /\ tx.accounts[i].post \in Nat \cup {Closed}
         /\ DOMAIN tx.instructions \subseteq Nat
         /\ \A i \in DOMAIN tx.instructions : tx.instructions[i] \in Instruction
         /\ tx.keys[1] \in Wallets
<1>1. /\ tx.accounts \in Seq(TokenAccount) /\ tx.instructions \in Seq(Instruction)
      /\ tx.keys \in Seq(Wallets) /\ tx.keys # <<>>
  BY ParserAssumption
<1>2. Len(tx.accounts) \in Nat /\ DOMAIN tx.accounts = 1 .. Len(tx.accounts)
  BY <1>1, LenProperties
<1>3. \A i \in DOMAIN tx.accounts : tx.accounts[i] \in TokenAccount
  BY <1>1, <1>2
<1>4. /\ DOMAIN tx.instructions \subseteq Nat
      /\ \A i \in DOMAIN tx.instructions : tx.instructions[i] \in Instruction
  BY <1>1
<1>5. tx.keys[1] \in Wallets
  BY <1>1
<1> QED
  BY <1>2, <1>3, <1>4, <1>5 DEF TokenAccount

\* A wallet that sent or received SOL itself has one of its transfers picked.
OwnSol(w) ==
  {i \in DOMAIN tx.instructions :
     tx.instructions[i].kind = "SOL" /\ w \in {tx.instructions[i].source, tx.instructions[i].destination}}

LEMMA PicksOwn ==
  ASSUME tx \in Transactions, NEW w \in Wallets, OwnSol(w) # {}
  PROVE  \E i \in OwnSol(w) : PickTransfer(w) = tx.instructions[i]
<1> DEFINE own == {i \in Transfers : w \in {tx.instructions[i].source, tx.instructions[i].destination}}
<1>1. own = OwnSol(w)
  <2>1. \A i \in OwnSol(w) : i \in own
    BY DEF OwnSol, Transfers
  <2>2. ASSUME NEW i \in own PROVE i \in OwnSol(w)
    <3>1. i \in DOMAIN tx.instructions /\ tx.instructions[i] \in Instruction
      BY TransactionTypes DEF Transfers
    <3>2. w # Absent
      BY ParserAssumption
    <3>3. tx.instructions[i].kind = "SOL"
      BY <3>1, <3>2 DEF Instruction
    <3> QED
      BY <3>1, <3>3 DEF OwnSol
  <2> QED
    BY <2>1, <2>2
<1>2. own \in SUBSET Nat /\ own # {}
  BY <1>1, TransactionTypes DEF OwnSol
<1>3. Min(own) \in own
  <2> HIDE DEF own
  <2> QED
    BY <1>2, MinIsLeast
<1>4. PickTransfer(w) = tx.instructions[Min(own)]
  BY <1>2 DEF PickTransfer
<1> QED
  BY <1>1, <1>3, <1>4

-----------------------------------------------------------------------------
(* TransactionParser: balances                                             *)

LEMMA LastNat ==
  ASSUME tx \in Transactions, NEW w, NEW m
  PROVE  LastOf(Before, w, m) \in Nat /\ LastOf(After, w, m) \in Nat
<1>1. ASSUME NEW held \in [DOMAIN tx.accounts -> Nat \cup {Closed}] PROVE LastOf(held, w, m) \in Nat
  <2>1. CASE Listed(held, w, m) = {}
    BY <2>1 DEF LastOf
  <2>2. CASE Listed(held, w, m) # {}
    <3>1. Listed(held, w, m) \in SUBSET (1 .. Len(tx.accounts)) /\ Len(tx.accounts) \in Nat
      BY TransactionTypes DEF Listed
    <3>2. Max(Listed(held, w, m)) \in Listed(held, w, m)
      BY <2>2, <3>1, MaxIsThere
    <3>3. held[Max(Listed(held, w, m))] \in Nat
      BY <3>2 DEF Listed
    <3> QED
      BY <2>2, <3>3 DEF LastOf
  <2> QED
    BY <2>1, <2>2
<1>2. /\ Before \in [DOMAIN tx.accounts -> Nat \cup {Closed}]
      /\ After \in [DOMAIN tx.accounts -> Nat \cup {Closed}]
  BY TransactionTypes DEF Before, After
<1> QED
  BY <1>1, <1>2

LEMMA DeltaInt ==
  ASSUME tx \in Transactions, NEW w, NEW m
  PROVE  RawDelta(w, m) \in Int /\ Size(RawDelta(w, m)) \in Nat
<1>1. RawDelta(w, m) \in Int
  BY LastNat DEF RawDelta
<1> QED
  BY <1>1 DEF Size

\* A mint whose amount changed has an account in one of the lists, and so a place.
LEMMA ChangedIsListed ==
  ASSUME tx \in Transactions, NEW w, NEW m, RawDelta(w, m) # 0
  PROVE  /\ \E i \in DOMAIN tx.accounts : tx.accounts[i].owner = w /\ tx.accounts[i].mint = m
         /\ Place(w, m) \in Nat
<1>1. Listed(Before, w, m) # {} \/ Listed(After, w, m) # {}
  BY DEF RawDelta, LastOf
<1>2. /\ Listed(Before, w, m) \in SUBSET Nat /\ Listed(After, w, m) \in SUBSET Nat
      /\ Len(tx.accounts) \in Nat
  BY TransactionTypes DEF Listed
<1>3. CASE Listed(Before, w, m) # {}
  BY <1>2, <1>3, MinIsLeast DEF Listed, Place
<1>4. CASE Listed(Before, w, m) = {}
  <2>1. Min(Listed(After, w, m)) \in Listed(After, w, m)
    BY <1>1, <1>2, <1>4, MinIsLeast
  <2>2. Place(w, m) = Len(tx.accounts) + Min(Listed(After, w, m))
    BY <1>4 DEF Place
  <2>3. Place(w, m) \in Nat
    BY <1>2, <2>1, <2>2
  <2> QED
    BY <2>1, <2>3 DEF Listed
<1> QED
  BY <1>3, <1>4

\* Of mints whose amounts changed, Dominant is one that changed most.
LEMMA DominantIsGreatest ==
  ASSUME tx \in Transactions, NEW w, NEW M \in SUBSET Mints, M # {}, \A m \in M : RawDelta(w, m) # 0
  PROVE  /\ Dominant(w, M) \in M
         /\ \A k \in M : Size(RawDelta(w, k)) <= Size(RawDelta(w, Dominant(w, M)))
<1> DEFINE n == Len(tx.accounts)
           S == {i \in 1 .. n : tx.accounts[i].owner = w /\ tx.accounts[i].mint \in M}
           f == [i \in 1 .. n |-> Size(RawDelta(w, tx.accounts[i].mint))]
           greatest == {m \in M : \A k \in M : Size(RawDelta(w, k)) <= Size(RawDelta(w, m))}
           places == {Place(w, m) : m \in greatest}
<1>1. n \in Nat /\ DOMAIN tx.accounts = 1 .. n
  BY TransactionTypes
<1> HIDE DEF n
<1>2. \A m \in M : \E i \in S : tx.accounts[i].mint = m
  BY <1>1, ChangedIsListed
<1>3. f \in [1 .. n -> Nat]
  BY DeltaInt
<1>4. PICK j \in S : \A i \in S : f[i] <= f[j]
  <2>1. S \in SUBSET (1 .. n) /\ S # {}
    BY <1>2
  <2> HIDE DEF S, f
  <2> QED
    BY <1>1, <1>3, <2>1, GreatestIsThere
<1>5. tx.accounts[j].mint \in greatest
  <2>1. ASSUME NEW k \in M
        PROVE  Size(RawDelta(w, k)) <= Size(RawDelta(w, tx.accounts[j].mint))
    <3>1. PICK i \in S : tx.accounts[i].mint = k
      BY <1>2
    <3>2. f[i] <= f[j]
      BY <1>4
    <3>3. f[i] = Size(RawDelta(w, k)) /\ f[j] = Size(RawDelta(w, tx.accounts[j].mint))
      BY <3>1
    <3> QED
      BY <3>2, <3>3
  <2> QED
    BY <2>1
<1>6. \E m \in greatest : \A k \in greatest : Place(w, m) <= Place(w, k)
  <2>1. places \in SUBSET Nat /\ places # {}
    BY <1>5, ChangedIsListed
  <2>2. PICK p \in places : \A q \in places : p <= q
    <3> HIDE DEF places
    <3> QED
      BY <2>1, LeastNumber
  <2> HIDE DEF greatest
  <2> QED
    BY <2>2
<1>7. Dominant(w, M) \in greatest
  <2>1. Dominant(w, M) = CHOOSE m \in greatest : \A k \in greatest : Place(w, m) <= Place(w, k)
    BY DEF Dominant
  <2> HIDE DEF greatest
  <2> QED
    BY <1>6, <2>1
<1> QED
  BY <1>7

-----------------------------------------------------------------------------
(* TransactionParser: what a wallet's holdings have grown by               *)

GrowthSteps(f, n, w, m) ==
  f[0] = 0 /\ \A i \in 1 .. n : f[i] = f[i - 1] + GrownIn(tx.accounts[i], w, m)

LEMMA GrownInt ==
  ASSUME tx \in Transactions, NEW i \in 1 .. Len(tx.accounts), NEW w, NEW m
  PROVE  GrownIn(tx.accounts[i], w, m) \in Int
<1>1. /\ tx.accounts[i].pre \in Nat \cup {Closed} /\ tx.accounts[i].post \in Nat \cup {Closed}
  BY TransactionTypes
<1>2. Holds(tx.accounts[i].pre) \in Nat /\ Holds(tx.accounts[i].post) \in Nat
  BY <1>1 DEF Holds
<1> QED
  BY <1>2 DEF GrownIn

LEMMA GrowthIsSum ==
  ASSUME tx \in Transactions, NEW w, NEW m, NEW n, n = Len(tx.accounts)
  PROVE  \E f \in [0 .. n -> Int] : GrowthSteps(f, n, w, m) /\ Growth(w, m) = f[n]
<1> DEFINE a == [i \in 1 .. n |-> GrownIn(tx.accounts[i], w, m)]
           step == [i \in 1 .. n |-> [t \in Int |-> t + a[i]]]
           Sums(f) == f = [i \in 0 .. n |-> IF i = 0 THEN 0 ELSE f[i - 1] + GrownIn(tx.accounts[i], w, m)]
           sum == CHOOSE f : Sums(f)
<1>1. n \in Nat /\ a \in [1 .. n -> Int] /\ \A i \in 1 .. n : a[i] = GrownIn(tx.accounts[i], w, m)
  BY TransactionTypes, GrownInt
<1> HIDE DEF a
<1>2. \E f \in [0 .. n -> Int] : Follows(f, n, 0, step)
  <2>1. step \in [1 .. n -> [Int -> Int]] /\ 0 \in Int
    BY <1>1
  <2> HIDE DEF step
  <2> QED
    BY <1>1, <2>1, Stepwise
<1>3. PICK f \in [0 .. n -> Int] : f[0] = 0 /\ \A i \in 1 .. n : f[i] = step[i][f[i - 1]]
  BY <1>2 DEF Follows
<1>4. ASSUME NEW i \in 0 .. n
      PROVE  f[i] = IF i = 0 THEN 0 ELSE f[i - 1] + GrownIn(tx.accounts[i], w, m)
  <2>1. CASE i = 0
    BY <1>3, <2>1
  <2>2. CASE i # 0
    <3>1. i \in 1 .. n /\ f[i - 1] \in Int
      BY <1>1, <1>3, <2>2
    <3> QED
      BY <1>1, <1>3, <2>2, <3>1
  <2> QED
    BY <2>1, <2>2
<1>5. Sums(f)
  BY <1>3, <1>4
<1>6. Sums(sum)
  <2> HIDE DEF Sums
  <2> QED
    BY <1>5
<1>7. Growth(w, m) = sum[n]
  BY DEF Growth
<1> HIDE DEF sum
<1>8. \A i \in 0 .. n : sum[i] = IF i = 0 THEN 0 ELSE sum[i - 1] + GrownIn(tx.accounts[i], w, m)
  BY <1>6
<1>9. sum[0] = 0 /\ \A i \in 1 .. n : sum[i] = sum[i - 1] + a[i]
  BY <1>1, <1>8
<1> DEFINE B == {i \in 0 .. n : sum[i] \in Int}
<1>10. 0 .. n \subseteq B
  <2>1. 0 \in B
    BY <1>1, <1>9
  <2>2. ASSUME NEW i \in 1 .. n, i - 1 \in B PROVE i \in B
    <3>1. sum[i - 1] \in Int /\ a[i] \in Int /\ i \in 0 .. n
      BY <1>1, <2>2
    <3> QED
      BY <1>9, <3>1
  <2> HIDE DEF B
  <2> QED
    BY <1>1, <2>1, <2>2, UpTo
<1>11. sum \in [0 .. n -> Int]
  BY <1>6, <1>10
<1>12. GrowthSteps(sum, n, w, m)
  BY <1>1, <1>9 DEF GrowthSteps
<1> QED
  BY <1>7, <1>11, <1>12

\* If all but one of the terms are zero, the sum is that one.
LEMMA OneTerm ==
  ASSUME NEW n \in Nat, NEW f \in [0 .. n -> Int], NEW a \in [1 .. n -> Int],
         IsSums(f, a, n), NEW j \in 1 .. n + 1, \A i \in 1 .. n : i # j => a[i] = 0
  PROVE  f[n] = IF j <= n THEN a[j] ELSE 0
<1> DEFINE A == {i \in 0 .. n : f[i] = IF j <= i THEN a[j] ELSE 0}
<1>1. 0 \in A
  BY DEF IsSums
<1>2. ASSUME NEW i \in 1 .. n, i - 1 \in A PROVE i \in A
  <2>1. f[i] = f[i - 1] + a[i] /\ f[i - 1] = IF j <= i - 1 THEN a[j] ELSE 0
    BY <1>2 DEF IsSums
  <2>2. i \in 0 .. n /\ a[i] \in Int /\ (i # j => a[i] = 0)
    OBVIOUS
  <2>3. CASE i = j
    BY <2>1, <2>2, <2>3
  <2>4. CASE i < j
    BY <2>1, <2>2, <2>4
  <2>5. CASE i > j
    <3>1. a[j] \in Int /\ a[i] = 0 /\ f[i - 1] = a[j]
      BY <2>1, <2>2, <2>5
    <3> QED
      BY <2>1, <2>2, <2>5, <3>1
  <2> QED
    BY <2>3, <2>4, <2>5
<1>3. 0 .. n \subseteq A
  <2> HIDE DEF A
  <2> QED
    BY <1>1, <1>2, UpTo
<1>4. n \in A
  <2> HIDE DEF A
  <2> QED
    BY <1>3
<1> QED
  BY <1>4

\* The map's difference is what the wallet's holdings have grown by, unless it
\* has twins: at most one account counts then.
LEMMA GrowthIsDelta ==
  ASSUME tx \in Transactions, NEW w, NEW m, ~Twins(w)
  PROVE  Growth(w, m) = RawDelta(w, m)
<1> DEFINE n == Len(tx.accounts)
           Mine(i) == tx.accounts[i].owner = w /\ tx.accounts[i].mint = m
           a == [i \in 1 .. n |-> GrownIn(tx.accounts[i], w, m)]
<1>1. n \in Nat /\ DOMAIN tx.accounts = 1 .. n
  BY TransactionTypes
<1>2. a \in [1 .. n -> Int] /\ \A i \in 1 .. n : a[i] = GrownIn(tx.accounts[i], w, m)
  BY GrownInt
<1> HIDE DEF n
<1>3. PICK f \in [0 .. n -> Int] : GrowthSteps(f, n, w, m) /\ Growth(w, m) = f[n]
  BY GrowthIsSum DEF n
<1>4. IsSums(f, a, n)
  BY <1>2, <1>3 DEF GrowthSteps, IsSums
<1>5. \A i \in 1 .. n : ~Mine(i) => a[i] = 0
  BY <1>2 DEF GrownIn
<1>6. CASE \E j \in 1 .. n : Mine(j)
  <2>1. PICK j \in 1 .. n : Mine(j)
    BY <1>6
  <2>2. \A i \in 1 .. n : Mine(i) => i = j
    BY <1>1, <2>1 DEF Twins
  <2>3. j \in 1 .. n + 1 /\ j <= n /\ \A i \in 1 .. n : i # j => a[i] = 0
    BY <1>1, <1>5, <2>2
  <2>4. f[n] = a[j]
    <3> HIDE DEF a, Mine
    <3>1. f[n] = IF j <= n THEN a[j] ELSE 0
      BY <1>1, <1>2, <1>4, <2>3, OneTerm
    <3> QED
      BY <2>3, <3>1
  <2>5. a[j] = Holds(tx.accounts[j].post) - Holds(tx.accounts[j].pre)
    BY <1>2, <2>1 DEF GrownIn
  <2>6. ASSUME NEW held \in [DOMAIN tx.accounts -> Nat \cup {Closed}]
        PROVE  LastOf(held, w, m) = Holds(held[j])
    <3>1. CASE held[j] = Closed
      <4>1. Listed(held, w, m) = {}
        BY <1>1, <2>2, <3>1 DEF Listed
      <4> QED
        BY <3>1, <4>1 DEF LastOf, Holds
    <3>2. CASE held[j] # Closed
      <4>1. Listed(held, w, m) = {j}
        BY <1>1, <2>1, <2>2, <3>2 DEF Listed
      <4>2. Max({j}) \in {j}
        <5>1. {j} \in SUBSET (1 .. n) /\ {j} # {}
          OBVIOUS
        <5> QED
          BY <1>1, <5>1, MaxIsThere
      <4> QED
        BY <3>2, <4>1, <4>2 DEF LastOf, Holds
    <3> QED
      BY <3>1, <3>2
  <2>7. /\ Before \in [DOMAIN tx.accounts -> Nat \cup {Closed}] /\ Before[j] = tx.accounts[j].pre
        /\ After \in [DOMAIN tx.accounts -> Nat \cup {Closed}] /\ After[j] = tx.accounts[j].post
    BY <1>1, TransactionTypes DEF Before, After
  <2>8. LastOf(Before, w, m) = Holds(tx.accounts[j].pre) /\ LastOf(After, w, m) = Holds(tx.accounts[j].post)
    BY <2>6, <2>7
  <2> QED
    BY <1>3, <2>4, <2>5, <2>8 DEF RawDelta
<1>7. CASE \A j \in 1 .. n : ~Mine(j)
  <2>1. n + 1 \in 1 .. n + 1 /\ \A i \in 1 .. n : i # n + 1 => a[i] = 0
    BY <1>1, <1>5, <1>7
  <2>2. f[n] = 0
    <3> HIDE DEF a, Mine
    <3>1. f[n] = IF n + 1 <= n THEN a[n + 1] ELSE 0
      BY <1>1, <1>2, <1>4, <2>1, OneTerm
    <3> QED
      BY <1>1, <3>1
  <2>3. \A held : Listed(held, w, m) = {}
    BY <1>1, <1>7 DEF Listed
  <2>4. LastOf(Before, w, m) = 0 /\ LastOf(After, w, m) = 0
    BY <2>3 DEF LastOf
  <2> QED
    BY <1>3, <2>2, <2>4 DEF RawDelta
<1> QED
  BY <1>6, <1>7

-----------------------------------------------------------------------------
(* TransactionParser: what the event says                                  *)

\* An event has these fields.
IsEvent(e) ==
  DOMAIN e = {"type", "direction", "wallet", "mint", "amount", "sol", "confidence"}

\* What DirectionIsTrue says of an event of a wallet, told by the map's differences.
Told(e, w) ==
  LET sol == RawDelta(w, Sol)
      rose(m) == IF RawDelta(w, m) > 0 THEN RawDelta(w, m) ELSE 0
      fell(m) == IF RawDelta(w, m) < 0 THEN -RawDelta(w, m) ELSE 0
  IN /\ e.direction = "BUY" <=> sol < 0 /\ \E m \in Mints \ {Sol} : RawDelta(w, m) > 0
     /\ e.direction = "SELL" <=> sol > 0 /\ \E m \in Mints \ {Sol} : RawDelta(w, m) < 0
     /\ e.direction = "BUY" =>
          /\ e.sol = fell(Sol) /\ e.amount = rose(e.mint)
          /\ \A m \in Mints \ {Sol} : rose(m) <= e.amount
     /\ e.direction = "SELL" =>
          /\ e.sol = rose(Sol) /\ e.amount = fell(e.mint)
          /\ \A m \in Mints \ {Sol} : fell(m) <= e.amount

LEMMA SwappedIsTold ==
  ASSUME tx \in Transactions, NEW base, IsEvent(base), NEW w
  PROVE  LET e == Swapped(base, w)
         IN e.type = "SWAP" /\ e.wallet = base.wallet /\ Told(e, w)
<1> DEFINE sol == RawDelta(w, Sol)
           tokens == DeltasOf(w) \ {Sol}
           risen == {m \in tokens : RawDelta(w, m) > 0}
           fallen == {m \in tokens : RawDelta(w, m) < 0}
           Swap == [base EXCEPT !.type = "SWAP", !.direction = "SWAP", !.confidence = "HIGH",
                                !.sol = IF sol = 0 THEN base.sol ELSE Size(sol)]
           Of(m) == [Swap EXCEPT !.mint = m, !.amount = Size(RawDelta(w, m))]
           Sure(e, direction) == [e EXCEPT !.direction = direction, !.confidence = "EXACT"]
           e == Swapped(base, w)
<1>1. \A m : RawDelta(w, m) \in Int
  BY DeltaInt
<1>2. /\ \A m \in Mints \ {Sol} : RawDelta(w, m) > 0 <=> m \in risen
      /\ \A m \in Mints \ {Sol} : RawDelta(w, m) < 0 <=> m \in fallen
      /\ risen \in SUBSET Mints /\ fallen \in SUBSET Mints /\ tokens \in SUBSET Mints
      /\ \A m \in tokens : RawDelta(w, m) # 0
      /\ Sol \notin risen /\ Sol \notin fallen
  BY <1>1 DEF DeltasOf
<1>3. sol \in Int /\ (sol # 0 => Size(sol) = IF sol < 0 THEN -sol ELSE sol)
  BY <1>1 DEF Size
<1>4. e = IF risen # {} /\ sol < 0 THEN Sure(Of(Dominant(w, risen)), "BUY")
          ELSE IF fallen # {} /\ sol > 0 THEN Sure(Of(Dominant(w, fallen)), "SELL")
          ELSE IF tokens # {} THEN Of(Dominant(w, tokens))
          ELSE Swap
  BY DEF Swapped
<1>5. /\ Swap.type = "SWAP" /\ Swap.direction = "SWAP" /\ Swap.wallet = base.wallet
      /\ Swap.sol = IF sol = 0 THEN base.sol ELSE Size(sol)
      /\ IsEvent(Swap)
  <2> DEFINE s == IF sol = 0 THEN base.sol ELSE Size(sol)
  <2> HIDE DEF s
  <2> QED
    BY DEF IsEvent, s
<1> HIDE DEF Swap
<1>6. ASSUME NEW m
      PROVE  /\ Of(m).type = "SWAP" /\ Of(m).direction = "SWAP" /\ Of(m).wallet = base.wallet
             /\ Of(m).sol = Swap.sol /\ Of(m).mint = m /\ Of(m).amount = Size(RawDelta(w, m))
             /\ IsEvent(Of(m))
  BY <1>5 DEF IsEvent
<1> HIDE DEF Of
<1>7. ASSUME NEW m, NEW d
      PROVE  /\ Sure(Of(m), d).type = "SWAP" /\ Sure(Of(m), d).direction = d
             /\ Sure(Of(m), d).wallet = base.wallet /\ Sure(Of(m), d).sol = Swap.sol
             /\ Sure(Of(m), d).mint = m /\ Sure(Of(m), d).amount = Size(RawDelta(w, m))
  BY <1>6 DEF IsEvent
<1> HIDE DEF Sure, risen, fallen, tokens, sol, e
<1>8. CASE risen # {} /\ sol < 0
  <2> DEFINE m == Dominant(w, risen)
  <2>1. m \in risen /\ \A k \in risen : Size(RawDelta(w, k)) <= Size(RawDelta(w, m))
    BY <1>2, <1>8, DominantIsGreatest DEF risen
  <2>2. \A k \in risen : RawDelta(w, k) > 0 /\ Size(RawDelta(w, k)) = RawDelta(w, k)
    BY <1>1 DEF risen, Size
  <2>3. e = Sure(Of(m), "BUY")
    BY <1>4, <1>8
  <2> HIDE DEF m
  <2>4. /\ e.type = "SWAP" /\ e.direction = "BUY" /\ e.wallet = base.wallet /\ e.sol = -sol
        /\ e.mint = m /\ e.amount = RawDelta(w, m) /\ RawDelta(w, m) > 0
    BY <1>3, <1>5, <1>7, <1>8, <2>1, <2>2, <2>3
  <2>5. \E k \in Mints \ {Sol} : RawDelta(w, k) > 0
    BY <1>2, <2>1, <2>2
  <2>6. ASSUME NEW k \in Mints \ {Sol}
        PROVE  (IF RawDelta(w, k) > 0 THEN RawDelta(w, k) ELSE 0) <= e.amount
    BY <1>1, <1>2, <2>1, <2>2, <2>4
  <2> QED
    BY <1>3, <1>8, <2>4, <2>5, <2>6 DEF Told, sol, e
<1>9. CASE fallen # {} /\ sol > 0
  <2> DEFINE m == Dominant(w, fallen)
  <2>1. m \in fallen /\ \A k \in fallen : Size(RawDelta(w, k)) <= Size(RawDelta(w, m))
    BY <1>2, <1>9, DominantIsGreatest DEF fallen
  <2>2. \A k \in fallen : RawDelta(w, k) < 0 /\ Size(RawDelta(w, k)) = -RawDelta(w, k)
    BY <1>1 DEF fallen, Size
  <2>3. e = Sure(Of(m), "SELL")
    BY <1>3, <1>4, <1>9
  <2> HIDE DEF m
  <2>4. /\ e.type = "SWAP" /\ e.direction = "SELL" /\ e.wallet = base.wallet /\ e.sol = sol
        /\ e.mint = m /\ e.amount = -RawDelta(w, m) /\ RawDelta(w, m) < 0
    BY <1>3, <1>5, <1>7, <1>9, <2>1, <2>2, <2>3
  <2>5. \E k \in Mints \ {Sol} : RawDelta(w, k) < 0
    BY <1>2, <2>1, <2>2
  <2>6. ASSUME NEW k \in Mints \ {Sol}
        PROVE  (IF RawDelta(w, k) < 0 THEN -RawDelta(w, k) ELSE 0) <= e.amount
    BY <1>1, <1>2, <2>1, <2>2, <2>4
  <2> QED
    BY <1>3, <1>9, <2>4, <2>5, <2>6 DEF Told, sol, e
<1>10. CASE ~(risen # {} /\ sol < 0) /\ ~(fallen # {} /\ sol > 0)
  <2>1. e \in {Of(Dominant(w, tokens)), Swap}
    BY <1>4, <1>10
  <2>2. e.type = "SWAP" /\ e.direction = "SWAP" /\ e.wallet = base.wallet
    BY <1>5, <1>6, <2>1
  <2>3. ~(sol < 0 /\ \E m \in Mints \ {Sol} : RawDelta(w, m) > 0)
    BY <1>2, <1>10
  <2>4. ~(sol > 0 /\ \E m \in Mints \ {Sol} : RawDelta(w, m) < 0)
    BY <1>2, <1>10
  <2> QED
    BY <2>2, <2>3, <2>4 DEF Told, sol, e
<1> QED
  BY <1>8, <1>9, <1>10 DEF e

LEMMA TransferredSays ==
  ASSUME NEW base, IsEvent(base), NEW t
  PROVE  LET e == Transferred(base, t)
         IN /\ e.type = "TRANSFER" /\ e.wallet = base.wallet
            /\ e.confidence = "EXACT" => t.kind = "SOL" /\ e.sol = t.amount
BY DEF IsEvent, Transferred

\* What the two properties say of an event once it is made.
OwnIsTold(e) ==
  e.type = "TRANSFER" /\ e.confidence = "EXACT" /\ OwnSol(e.wallet) # {} =>
    \E i \in OwnSol(e.wallet) : tx.instructions[i].amount = e.sol

SwapIsTold(e) ==
  e.type = "SWAP" /\ e.confidence \in {"EXACT", "HIGH"} /\ ~Twins(e.wallet) => Told(e, e.wallet)

\* The inductive invariant: while the parsed transaction is awaited there is an
\* event to enrich, and an event that has been emitted is true.
ParserInv ==
  /\ tx \in Transactions /\ settings \in Settings /\ via \in Wallets \cup {Program}
  /\ stage \in {"logs", "parsing", "emitted"}
  /\ stage = "parsing" => IsEvent(parsedEvent)
  /\ stage = "emitted" => OwnIsTold(parsedEvent) /\ SwapIsTold(parsedEvent)

LEMMA EnrichedIsTold ==
  ASSUME tx \in Transactions, NEW e, IsEvent(e), NEW w \in Wallets
  PROVE  OwnIsTold(Enriched(e, w)) /\ SwapIsTold(Enriched(e, w))
<1> DEFINE named == [e EXCEPT !.wallet = w]
           res == Enriched(e, w)
<1>1. IsEvent(named) /\ named.wallet = w
  BY DEF IsEvent
<1>2. res = IF HasDex THEN Swapped(named, w)
            ELSE IF Transfers # {} THEN Transferred(named, PickTransfer(w))
            ELSE [named EXCEPT !.confidence = "MEDIUM"]
  BY DEF Enriched
<1> HIDE DEF named, res
<1>3. CASE HasDex
  <2>1. res = Swapped(named, w)
    BY <1>2, <1>3
  <2>2. res.type = "SWAP" /\ res.wallet = w /\ Told(res, w)
    BY <1>1, <2>1, SwappedIsTold
  <2> QED
    BY <2>2 DEF OwnIsTold, SwapIsTold, res
<1>4. CASE ~HasDex /\ Transfers # {}
  <2>1. res = Transferred(named, PickTransfer(w))
    BY <1>2, <1>4
  <2>2. /\ res.type = "TRANSFER" /\ res.wallet = w
        /\ res.confidence = "EXACT" => res.sol = PickTransfer(w).amount
    BY <1>1, <2>1, TransferredSays
  <2>3. SwapIsTold(res)
    BY <2>2 DEF SwapIsTold
  <2>4. ASSUME res.confidence = "EXACT", OwnSol(w) # {}
        PROVE  \E i \in OwnSol(w) : tx.instructions[i].amount = res.sol
    <3>1. PICK i \in OwnSol(w) : PickTransfer(w) = tx.instructions[i]
      BY <2>4, PicksOwn
    <3> QED
      BY <2>2, <2>4, <3>1
  <2>5. OwnIsTold(res)
    BY <2>2, <2>4 DEF OwnIsTold
  <2> QED
    BY <2>3, <2>5 DEF res
<1>5. CASE ~HasDex /\ Transfers = {}
  <2>1. res = [named EXCEPT !.confidence = "MEDIUM"]
    BY <1>2, <1>5
  <2>2. res.confidence = "MEDIUM"
    BY <1>1, <2>1 DEF IsEvent
  <2> QED
    BY <2>2 DEF OwnIsTold, SwapIsTold, res
<1> QED
  BY <1>3, <1>4, <1>5

LEMMA MatchedAreWallets ==
  ASSUME ParserInv
  PROVE  MatchedWallets \subseteq Wallets
<1>1. settings.watched \subseteq Wallets /\ tx.keys[1] \in Wallets
  BY ParserAssumption, TransactionTypes DEF ParserInv
<1> QED
  BY <1>1 DEF ParserInv, MatchedWallets

LEMMA HeuristicSays ==
  ASSUME NEW logs
  PROVE  IsEvent(ParseHeuristic(logs)) /\ ParseHeuristic(logs).confidence \in {"MEDIUM", "LOW"}
BY DEF IsEvent, ParseHeuristic

\* What is true of an event stays true of it: the transaction never changes.
LEMMA StaysTold ==
  ASSUME tx' = tx
  PROVE  /\ OwnIsTold(parsedEvent') => OwnIsTold(parsedEvent)'
         /\ SwapIsTold(parsedEvent') => SwapIsTold(parsedEvent)'
<1>1. OwnIsTold(parsedEvent') => OwnIsTold(parsedEvent)'
  BY DEF OwnIsTold, OwnSol
<1>2. ASSUME NEW m PROVE RawDelta(parsedEvent'.wallet, m) = RawDelta(parsedEvent.wallet, m)'
  BY DEF RawDelta, LastOf, Listed, Before, After
<1>3. Twins(parsedEvent'.wallet) <=> Twins(parsedEvent.wallet)'
  BY DEF Twins
<1>4. Told(parsedEvent', parsedEvent'.wallet) => Told(parsedEvent, parsedEvent.wallet)'
  BY <1>2 DEF Told
<1> QED
  BY <1>1, <1>3, <1>4 DEF SwapIsTold

LEMMA ParserStep == ParserInv /\ [ParserNext]_parserVars => ParserInv'
<1> SUFFICES ASSUME ParserInv, [ParserNext]_parserVars PROVE ParserInv'
  OBVIOUS
<1>1. CASE ReadLogs
  <2>1. /\ tx' = tx /\ settings' = settings /\ via' = via /\ stage' \in {"parsing", "emitted"}
        /\ parsedEvent' = ParseHeuristic(tx.logs)
    BY <1>1 DEF ReadLogs
  <2>2. IsEvent(parsedEvent') /\ parsedEvent'.confidence \in {"MEDIUM", "LOW"}
    BY <2>1, HeuristicSays
  <2>3. OwnIsTold(parsedEvent)' /\ SwapIsTold(parsedEvent)'
    BY <2>2 DEF OwnIsTold, SwapIsTold
  <2>4. IsEvent(parsedEvent)'
    BY <2>2 DEF IsEvent
  <2> QED
    BY <2>1, <2>3, <2>4 DEF ParserInv
<1>2. CASE Enrich
  <2>1. PICK w \in Wallets : parsedEvent' = Enriched(parsedEvent, w)
    BY <1>2, MatchedAreWallets DEF Enrich
  <2>2. /\ tx' = tx /\ settings' = settings /\ via' = via /\ stage' = "emitted"
        /\ tx \in Transactions /\ IsEvent(parsedEvent)
    BY <1>2 DEF Enrich, ParserInv
  <2>3. OwnIsTold(parsedEvent') /\ SwapIsTold(parsedEvent')
    BY <2>1, <2>2, EnrichedIsTold
  <2>4. OwnIsTold(parsedEvent)' /\ SwapIsTold(parsedEvent)'
    BY <2>2, <2>3, StaysTold
  <2> QED
    BY <2>2, <2>4 DEF ParserInv
<1>3. CASE Rewatch
  <2>1. tx' = tx /\ settings' \in Settings /\ via' = via /\ stage' = stage /\ stage = "parsing"
        /\ parsedEvent' = parsedEvent
    BY <1>3 DEF Rewatch
  <2> QED
    BY <2>1 DEF ParserInv, IsEvent
<1>4. CASE UNCHANGED parserVars
  <2>1. UNCHANGED <<tx, via, settings, stage, parsedEvent>>
    BY <1>4 DEF parserVars
  <2>2. /\ OwnIsTold(parsedEvent) => OwnIsTold(parsedEvent')
        /\ SwapIsTold(parsedEvent) => SwapIsTold(parsedEvent')
    BY <2>1
  <2>3. /\ OwnIsTold(parsedEvent) => OwnIsTold(parsedEvent)'
        /\ SwapIsTold(parsedEvent) => SwapIsTold(parsedEvent)'
    BY <2>1, <2>2, StaysTold
  <2> QED
    BY <2>1, <2>3 DEF ParserInv, IsEvent
<1> QED
  BY <1>1, <1>2, <1>3, <1>4 DEF ParserNext

LEMMA ParserInvariant == ParserSpec => []ParserInv
<1>1. ParserInit => ParserInv
  BY ParserAssumption DEF ParserInit, ParserInv
<1> QED
  BY <1>1, ParserStep, PTL DEF ParserSpec

\* A transfer reported for a wallet that sent or received SOL itself is one of
\* its own, wherever it comes in the transaction (pickTransferInstruction).
THEOREM OwnTransferPicked == ParserSpec => []OwnTransfer
<1>1. ParserInv => OwnTransfer
  BY DEF ParserInv, OwnIsTold, OwnTransfer, OwnSol
<1> QED
  BY <1>1, ParserInvariant, PTL

\* A swap of a wallet with no two accounts of one mint is reported with the
\* direction and the amounts of what changed hands, accounts that are opened or
\* closed included (collectTokenDeltas, enrichEventFromParsedTransaction).
THEOREM DirectionFromBalances == ParserSpec => []DirectionIsTrue
<1>1. ParserInv => DirectionIsTrue
  <2> SUFFICES ASSUME ParserInv, stage = "emitted", parsedEvent.type = "SWAP",
                      parsedEvent.confidence \in {"EXACT", "HIGH"}, ~Twins(parsedEvent.wallet)
               PROVE  DirectionIsTrue
    BY DEF DirectionIsTrue
  <2> DEFINE w == parsedEvent.wallet
  <2>1. Told(parsedEvent, w)
    BY DEF ParserInv, SwapIsTold
  <2>2. \A m : Growth(w, m) = RawDelta(w, m) /\ RawDelta(w, m) \in Int
    BY GrowthIsDelta, DeltaInt DEF ParserInv
  <2> QED
    BY <2>1, <2>2 DEF Told, DirectionIsTrue
<1> QED
  BY <1>1, ParserInvariant, PTL
=============================================================================
