----------------------- MODULE TransactionRulesProofs -----------------------
(***************************************************************************)
(* Proofs about TransactionRules, for every configuration, currency table  *)
(* and set of submissions: a submission is told exactly what is wrong with *)
(* it, what passes the rules passes the identity and amount constraints of *)
(* the table, what is read back is what was accepted, a replay is called   *)
(* divergent exactly when its billable content differs, and the event      *)
(* announces the row.                                                      *)
(*                                                                         *)
(* What is computed from an amount is a recursion over its characters and  *)
(* powers of ten, so the first section derives induction and recursion     *)
(* over the naturals from the well-foundedness of their order, with sets   *)
(* and functions where a textbook has predicates and operators.            *)
(***************************************************************************)
EXTENDS TransactionRules, TLAPS, FiniteSetTheorems, SequenceTheorems, WellFoundedInduction

-----------------------------------------------------------------------------
(* Induction and recursion over the naturals                               *)

\* Every nonempty set of naturals has a least element.
LEMMA NatMin ==
  ASSUME NEW T, T \subseteq Nat, T # {}
  PROVE  \E n \in T : \A m \in T : n <= m
<1>. DEFINE R == OpToRel(<, Nat)
<1>1. IsWellFoundedOn(R, Nat)
  BY NatLessThanWellFounded, Zenon
<1>2. ASSUME NEW m \in Nat, NEW n \in Nat, m < n
      PROVE  <<m, n>> \in R
  BY <1>2, Zenon DEF OpToRel
<1>. HIDE DEF R
<1>3. PICK n \in T : \A m \in T : <<m, n>> \notin R
  BY <1>1, WFMin, Zenon
<1>4. ASSUME NEW m \in T PROVE ~(m < n)
  BY <1>2, <1>3, Zenon
<1>. QED
  BY <1>3, <1>4

\* Induction with a set in place of a predicate.
LEMMA NatSetInduction ==
  ASSUME NEW T, 0 \in T, \A n \in Nat : n \in T => n + 1 \in T
  PROVE  Nat \subseteq T
<1>. SUFFICES ASSUME Nat \ T # {} PROVE FALSE
  OBVIOUS
<1>1. PICK n \in Nat \ T : \A m \in Nat \ T : n <= m
  BY NatMin
<1>2. n - 1 \in Nat /\ n - 1 \in T
  BY <1>1
<1>. QED
  BY <1>1, <1>2

\* f runs through V from base, by the step F.
IsRecursion(f, V, base, F) ==
  /\ f \in [Nat -> V]
  /\ f[0] = base
  /\ \A n \in Nat : f[n + 1] = F[<<n, f[n]>>]

\* Recursion over the naturals, with a function in place of an operator.
LEMMA NatRecursion ==
  ASSUME NEW V, NEW base \in V, NEW F, \A n \in Nat, v \in V : F[<<n, v>>] \in V
  PROVE  \E f : IsRecursion(f, V, base, F)
<1>. DEFINE G(n) == {g \in [0..n -> V] :
                       g[0] = base /\ \A i \in 0..(n - 1) : g[i + 1] = F[<<i, g[i]>>]}
            T == {n \in Nat : G(n) # {}}
            U == {i \in Nat : \A m, n \in Nat : i <= m /\ i <= n =>
                   \A g \in G(m), h \in G(n) : g[i] = h[i]}
<1>1. ASSUME NEW n \in Nat, NEW g \in G(n)
      PROVE  /\ g \in [0..n -> V] /\ g[0] = base
             /\ \A i \in Nat : i < n => g[i + 1] = F[<<i, g[i]>>]
  OBVIOUS
<1>2. ASSUME NEW n \in Nat, NEW g \in [0..n -> V], g[0] = base,
             \A i \in Nat : i < n => g[i + 1] = F[<<i, g[i]>>]
      PROVE  g \in G(n)
  BY <1>2
<1>. HIDE DEF G
<1>3. ASSUME NEW n \in Nat PROVE G(n) # {}
  <2>1. 0 \in T
    <3>. DEFINE g == [i \in 0..0 |-> base]
    <3>1. g \in [0..0 -> V] /\ g[0] = base
      OBVIOUS
    <3>2. \A i \in Nat : ~(i < 0)
      OBVIOUS
    <3>. HIDE DEF g
    <3>3. g \in G(0)
      BY <1>2, <3>1, <3>2
    <3>. QED
      BY <3>3
  <2>2. ASSUME NEW k \in Nat, k \in T PROVE k + 1 \in T
    <3>1. PICK g \in G(k) : TRUE
      BY <2>2
    <3>2. g \in [0..k -> V] /\ g[k] \in V /\ F[<<k, g[k]>>] \in V
      BY <1>1, <3>1
    <3>. DEFINE h == [i \in 0..(k + 1) |-> IF i = k + 1 THEN F[<<k, g[k]>>] ELSE g[i]]
    <3>3. h \in [0..(k + 1) -> V]
      BY <3>2
    <3>4. h[0] = base /\ h[k + 1] = F[<<k, g[k]>>] /\ \A i \in 0..k : h[i] = g[i]
      BY <1>1, <3>1
    <3>. HIDE DEF h
    <3>5. ASSUME NEW i \in Nat, i < k + 1 PROVE h[i + 1] = F[<<i, h[i]>>]
      <4>1. CASE i = k
        <5>1. k \in 0..k /\ h[k] = g[k]
          BY <3>4
        <5>. QED
          BY <3>4, <4>1, <5>1
      <4>2. CASE i < k
        <5>1. i + 1 \in 0..k /\ i \in 0..k /\ g[i + 1] = F[<<i, g[i]>>]
          BY <1>1, <3>1, <4>2
        <5>. QED
          BY <3>4, <5>1
      <4>. QED
        BY <3>5, <4>1, <4>2
    <3>6. h \in G(k + 1)
      <4>. DEFINE m == k + 1
      <4>1. m \in Nat /\ h \in [0..m -> V] /\ h[0] = base
            /\ \A i \in Nat : i < m => h[i + 1] = F[<<i, h[i]>>]
        BY <3>3, <3>4, <3>5
      <4>. HIDE DEF m
      <4>2. h \in G(m)
        BY <1>2, <4>1, Zenon
      <4>. QED
        BY <4>2 DEF m
    <3>. QED
      BY <3>6
  <2>. HIDE DEF T
  <2>3. n \in T
    BY <2>1, <2>2, NatSetInduction
  <2>. QED
    BY <2>3 DEF T
<1>4. ASSUME NEW i \in Nat, NEW m \in Nat, NEW n \in Nat, i <= m, i <= n,
             NEW g \in G(m), NEW h \in G(n)
      PROVE  g[i] = h[i]
  <2>1. 0 \in U
    BY <1>1
  <2>2. ASSUME NEW k \in Nat, k \in U PROVE k + 1 \in U
    <3>. SUFFICES ASSUME NEW p \in Nat, NEW q \in Nat, k + 1 <= p, k + 1 <= q,
                         NEW a \in G(p), NEW b \in G(q)
                  PROVE  a[k + 1] = b[k + 1]
      OBVIOUS
    <3>1. a[k] = b[k]
      BY <2>2
    <3>2. a[k + 1] = F[<<k, a[k]>>] /\ b[k + 1] = F[<<k, b[k]>>]
      BY <1>1
    <3>. QED
      BY <3>1, <3>2
  <2>. HIDE DEF U
  <2>3. i \in U
    BY <2>1, <2>2, NatSetInduction
  <2>. QED
    BY <1>4, <2>3 DEF U
<1>. DEFINE pick == [n \in Nat |-> CHOOSE g \in G(n) : TRUE]
            f == [n \in Nat |-> pick[n][n]]
<1>5. \A n \in Nat : pick[n] \in G(n)
  BY <1>3
<1>. HIDE DEF pick
<1>6. f \in [Nat -> V]
  BY <1>1, <1>5
<1>7. f[0] = base
  BY <1>1, <1>5
<1>8. ASSUME NEW n \in Nat PROVE f[n + 1] = F[<<n, f[n]>>]
  <2>1. pick[n + 1] \in G(n + 1) /\ pick[n] \in G(n)
    BY <1>5
  <2>2. pick[n + 1][n + 1] = F[<<n, pick[n + 1][n]>>]
    BY <1>1, <2>1
  <2>3. pick[n + 1][n] = pick[n][n]
    BY <1>4, <2>1
  <2>. QED
    BY <2>2, <2>3
<1>. QED
  BY <1>6, <1>7, <1>8 DEF IsRecursion

\* Every nonempty set of naturals with a bound has a greatest element.
LEMMA NatMax ==
  ASSUME NEW n \in Nat, NEW S, S \subseteq 0..n, S # {}
  PROVE  \E p \in S : \A q \in S : q <= p
<1>. DEFINE T == {m \in 0..n : n - m \in S}
<1>1. ASSUME NEW p \in S PROVE n - p \in T
  <2>1. n - p \in 0..n /\ n - (n - p) = p
    OBVIOUS
  <2>. QED
    BY <2>1
<1>2. T \subseteq Nat /\ T # {}
  <2>1. T \subseteq Nat
    OBVIOUS
  <2>. HIDE DEF T
  <2>. QED
    BY <1>1, <2>1
<1>3. PICK m \in T : \A i \in T : m <= i
  BY <1>2, NatMin
<1>4. n - m \in S
  OBVIOUS
<1>5. ASSUME NEW q \in S PROVE q <= n - m
  <2>1. m <= n - q
    BY <1>1, <1>3
  <2>. QED
    BY <2>1
<1>. QED
  BY <1>4, <1>5

-----------------------------------------------------------------------------
(* Powers of ten, and decimals                                             *)

\* The recursive function is the one its definition asks for.
LEMMA PowerRec ==
  PowerOfTen[0] = 1 /\ \A n \in Nat : PowerOfTen[n + 1] = 10 * PowerOfTen[n]
<1>. DEFINE F == [nv \in Nat \X Nat |-> 10 * nv[2]]
            Def(g) == [n \in Nat |-> IF n = 0 THEN 1 ELSE 10 * g[n - 1]]
<1>1. \A n, v \in Nat : F[<<n, v>>] = 10 * v
  OBVIOUS
<1>. HIDE DEF F
<1>2. PICK f : IsRecursion(f, Nat, 1, F)
  <2>1. 1 \in Nat /\ \A n, v \in Nat : F[<<n, v>>] \in Nat
    BY <1>1
  <2>. QED
    BY <2>1, NatRecursion, Zenon
<1>3. \A n \in Nat : f[n] = IF n = 0 THEN 1 ELSE 10 * f[n - 1]
  <2>. SUFFICES ASSUME NEW n \in Nat, n # 0 PROVE f[n] = 10 * f[n - 1]
    BY <1>2 DEF IsRecursion
  <2>1. n - 1 \in Nat /\ (n - 1) + 1 = n
    OBVIOUS
  <2>2. f[n - 1] \in Nat /\ f[n] = F[<<n - 1, f[n - 1]>>]
    BY <1>2, <2>1 DEF IsRecursion
  <2>. QED
    BY <1>1, <2>1, <2>2
<1>4. f = Def(f)
  BY <1>2, <1>3 DEF IsRecursion
<1>5. PowerOfTen = CHOOSE g : g = Def(g)
  BY DEF PowerOfTen
<1>. HIDE DEF Def
<1>6. PowerOfTen = Def(PowerOfTen)
  BY <1>4, <1>5
<1>. QED
  BY <1>6 DEF Def

\* A power of ten is a positive natural.
LEMMA PowerPositive == \A n \in Nat : PowerOfTen[n] \in Nat \ {0}
<1>. DEFINE T == {n \in Nat : PowerOfTen[n] \in Nat \ {0}}
<1>1. 0 \in T /\ \A n \in Nat : n \in T => n + 1 \in T
  BY PowerRec
<1>. HIDE DEF T
<1>2. Nat \subseteq T
  BY <1>1, NatSetInduction
<1>. QED
  BY <1>2 DEF T

\* Exponents add up.
LEMMA PowerSum == \A m, n \in Nat : PowerOfTen[m + n] = PowerOfTen[m] * PowerOfTen[n]
<1>. SUFFICES ASSUME NEW m \in Nat
              PROVE  \A n \in Nat : PowerOfTen[m + n] = PowerOfTen[m] * PowerOfTen[n]
  OBVIOUS
<1>. DEFINE T == {n \in Nat : PowerOfTen[m + n] = PowerOfTen[m] * PowerOfTen[n]}
<1>1. 0 \in T
  BY PowerRec, PowerPositive
<1>2. ASSUME NEW n \in Nat, n \in T PROVE n + 1 \in T
  <2>1. PowerOfTen[m + (n + 1)] = 10 * PowerOfTen[m + n]
    <3>1. m + (n + 1) = (m + n) + 1 /\ m + n \in Nat
      OBVIOUS
    <3>. QED
      BY <3>1, PowerRec
  <2>2. PowerOfTen[n + 1] = 10 * PowerOfTen[n]
    BY PowerRec
  <2>3. \A a, b \in Nat : a * (10 * b) = 10 * (a * b)
    OBVIOUS
  <2>4. PowerOfTen[m] \in Nat /\ PowerOfTen[n] \in Nat
    BY PowerPositive
  <2>. QED
    BY <1>2, <2>1, <2>2, <2>3, <2>4
<1>. HIDE DEF T
<1>3. Nat \subseteq T
  BY <1>1, <1>2, NatSetInduction
<1>. QED
  BY <1>3 DEF T

\* A common positive factor cancels.
LEMMA Cancel ==
  ASSUME NEW a \in Int, NEW b \in Int, NEW x \in Nat \ {0}, a * x = b * x
  PROVE  a = b
<1>1. CASE a < b
  <2>1. (b - a) * x >= x
    BY <1>1
  <2>2. (b - a) * x = b * x - a * x
    OBVIOUS
  <2>. QED
    BY <2>1, <2>2
<1>2. CASE b < a
  <2>1. (a - b) * x >= x
    BY <1>2
  <2>2. (a - b) * x = a * x - b * x
    OBVIOUS
  <2>. QED
    BY <2>1, <2>2
<1>. QED
  BY <1>1, <1>2

\* What leaves no remainder is the quotient times the divisor.
LEMMA Quotient ==
  ASSUME NEW c \in Int, NEW x \in Nat \ {0}
  PROVE  c \div x \in Int /\ (c % x = 0 => c = (c \div x) * x)
OBVIOUS

\* A multiple leaves no remainder, and its quotient is the other factor.
LEMMA Multiple ==
  ASSUME NEW a \in Int, NEW x \in Nat \ {0}
  PROVE  (a * x) % x = 0 /\ (a * x) \div x = a
<1>. DEFINE q == (a * x) \div x
            r == (a * x) % x
<1>1. q \in Int /\ r \in 0..(x - 1) /\ a * x = q * x + r
  OBVIOUS
<1>. HIDE DEF q, r
<1>2. (a - q) * x = r
  BY <1>1
<1>3. ~(a - q >= 1)
  BY <1>1, <1>2
<1>4. ~(a - q <= -1)
  BY <1>1, <1>2
<1>5. a = q
  BY <1>1, <1>3, <1>4
<1>6. r = 0
  BY <1>1, <1>2, <1>5
<1>. QED
  BY <1>5, <1>6 DEF q, r

\* A power and a smaller one.
LEMMA PowerSplit ==
  ASSUME NEW m \in Nat, NEW n \in Nat, m <= n
  PROVE  PowerOfTen[n] = PowerOfTen[n - m] * PowerOfTen[m]
<1>1. n - m \in Nat /\ (n - m) + m = n
  OBVIOUS
<1>. QED
  BY <1>1, PowerSum

\* Products of powers are told apart by the sums of their exponents.
LEMMA PowerExchange ==
  ASSUME NEW a \in Nat, NEW b \in Nat, NEW c \in Nat, NEW x \in Nat, a + b = c + x
  PROVE  PowerOfTen[a] * PowerOfTen[b] = PowerOfTen[c] * PowerOfTen[x]
<1>1. PowerOfTen[a + b] = PowerOfTen[a] * PowerOfTen[b]
  BY PowerSum
<1>2. PowerOfTen[c + x] = PowerOfTen[c] * PowerOfTen[x]
  BY PowerSum
<1>. QED
  BY <1>1, <1>2

\* An equation of products, multiplied by y.
LEMMA Scaled ==
  ASSUME NEW a \in Int, NEW b \in Int, NEW c \in Int, NEW x \in Int, NEW y \in Int,
         a * b = c * x
  PROVE  (y * a) * b = (y * c) * x
<1>1. (y * a) * b = y * (a * b)
  OBVIOUS
<1>2. (y * c) * x = y * (c * x)
  OBVIOUS
<1>. QED
  BY <1>1, <1>2

Decimals == [coefficient : Int, places : Nat]

\* d is m at k places.
Scaling(d, m, k) == d.coefficient = m * PowerOfTen[d.places - k]

SameValue(d, e) == d.coefficient * PowerOfTen[e.places] = e.coefficient * PowerOfTen[d.places]

\* The canonical form of d has k places and keeps the value, and no form with
\* fewer places keeps it.
LEMMA CanonicalForm ==
  ASSUME NEW d \in Decimals
  PROVE  \E k \in 0..d.places, m \in Int :
           /\ Canonical(d) = [coefficient |-> m, places |-> k]
           /\ Scaling(d, m, k)
           /\ \A j \in 0..d.places, n \in Int : Scaling(d, n, j) => k <= j
<1>. DEFINE c == d.coefficient
            p == d.places
            divides(j) == c % PowerOfTen[p - j] = 0
            S == {j \in 0..p : divides(j)}
            least(j) == divides(j) /\ \A i \in 0..p : divides(i) => j <= i
            k == CHOOSE j \in 0..p : least(j)
<1>1. c \in Int /\ p \in Nat
  BY DEF Decimals
<1>2. \A j \in 0..p : p - j \in Nat /\ PowerOfTen[p - j] \in Nat \ {0}
  BY <1>1, PowerPositive
<1>3. p \in S
  BY <1>1, PowerRec
<1>4. PICK j \in S : \A i \in S : j <= i
  <2>1. S \subseteq Nat /\ S # {}
    BY <1>1, <1>3
  <2>. QED
    BY <2>1, NatMin
<1>5. k \in 0..p /\ least(k)
  <2>1. \E i \in 0..p : least(i)
    BY <1>4
  <2>. HIDE DEF least
  <2>. QED
    BY <2>1
<1>6. Canonical(d) = [coefficient |-> c \div PowerOfTen[p - k], places |-> k]
  BY DEF Canonical
<1>. HIDE DEF k
<1>7. c \div PowerOfTen[p - k] \in Int /\ c = (c \div PowerOfTen[p - k]) * PowerOfTen[p - k]
  BY <1>1, <1>2, <1>5, Quotient
<1>8. ASSUME NEW i \in 0..p, NEW n \in Int, c = n * PowerOfTen[p - i]
      PROVE  k <= i
  <2>1. divides(i)
    BY <1>2, <1>8, Multiple
  <2>. QED
    BY <1>5, <2>1
<1>. QED
  BY <1>5, <1>6, <1>7, <1>8 DEF Scaling

\* Two ways to bring m over 10^p and m over 10^q to the same denominator.
LEMMA CommonDenominator ==
  ASSUME NEW m \in Int, NEW p \in Nat, NEW q \in Nat, NEW k \in Nat, k <= p, k <= q
  PROVE  (m * PowerOfTen[p - k]) * PowerOfTen[q] = (m * PowerOfTen[q - k]) * PowerOfTen[p]
<1>1. p - k \in Nat /\ q - k \in Nat /\ (p - k) + q = (q - k) + p
  OBVIOUS
<1>2. PowerOfTen[p - k] * PowerOfTen[q] = PowerOfTen[q - k] * PowerOfTen[p]
  BY <1>1, PowerExchange
<1>. DEFINE a == PowerOfTen[p - k]
            b == PowerOfTen[q]
            c == PowerOfTen[q - k]
            x == PowerOfTen[p]
<1>3. a \in Int /\ b \in Int /\ c \in Int /\ x \in Int /\ a * b = c * x
  BY <1>1, <1>2, PowerPositive
<1>. HIDE DEF a, b, c, x
<1>4. (m * a) * b = (m * c) * x
  BY <1>3, Scaled
<1>. QED
  BY <1>4 DEF a, b, c, x

\* Of two decimals with the same value, neither has a canonical form with more
\* places than the other, and equal places mean equal coefficients.
LEMMA CanonicalPlaces ==
  ASSUME NEW d \in Decimals, NEW e \in Decimals, SameValue(d, e),
         NEW m \in Int, NEW k \in 0..d.places, Scaling(d, m, k),
         NEW n \in Int, NEW l \in 0..e.places, Scaling(e, n, l),
         k <= l
  PROVE  Scaling(e, m, k) /\ (k = l => m = n)
<1>. DEFINE p == d.places
            q == e.places
<1>1. p \in Nat /\ q \in Nat /\ q - l \in Nat /\ q - k \in Nat
  BY DEF Decimals
<1>2. (m * PowerOfTen[p - k]) * PowerOfTen[q] = (n * PowerOfTen[q - l]) * PowerOfTen[p]
  BY DEF SameValue, Scaling
<1>3. (m * PowerOfTen[p - k]) * PowerOfTen[q] = (m * PowerOfTen[q - k]) * PowerOfTen[p]
  BY <1>1, CommonDenominator
<1>4. /\ PowerOfTen[q - l] \in Nat \ {0} /\ PowerOfTen[q - k] \in Nat \ {0}
      /\ PowerOfTen[p] \in Nat \ {0}
  BY <1>1, PowerPositive
<1>5. n * PowerOfTen[q - l] = m * PowerOfTen[q - k]
  <2>. DEFINE a == n * PowerOfTen[q - l]
              b == m * PowerOfTen[q - k]
  <2>1. a \in Int /\ b \in Int /\ a * PowerOfTen[p] = b * PowerOfTen[p]
    BY <1>2, <1>3, <1>4
  <2>. HIDE DEF a, b
  <2>2. a = b
    BY <1>4, <2>1, Cancel
  <2>. QED
    BY <2>2 DEF a, b
<1>6. ASSUME k = l PROVE m = n
  <2>1. n * PowerOfTen[q - l] = m * PowerOfTen[q - l]
    BY <1>5, <1>6
  <2>. QED
    BY <1>4, <2>1, Cancel
<1>. QED
  BY <1>5, <1>6 DEF Scaling

\* Decimals have the same canonical form exactly when they have the same value.
LEMMA CanonicalSame ==
  ASSUME NEW d \in Decimals, NEW e \in Decimals
  PROVE  Canonical(d) = Canonical(e) <=> SameValue(d, e)
<1>1. PICK k \in 0..d.places, m \in Int :
        /\ Canonical(d) = [coefficient |-> m, places |-> k]
        /\ Scaling(d, m, k)
        /\ \A j \in 0..d.places, i \in Int : Scaling(d, i, j) => k <= j
  BY CanonicalForm
<1>2. PICK l \in 0..e.places, n \in Int :
        /\ Canonical(e) = [coefficient |-> n, places |-> l]
        /\ Scaling(e, n, l)
        /\ \A j \in 0..e.places, i \in Int : Scaling(e, i, j) => l <= j
  BY CanonicalForm
<1>3. d.places \in Nat /\ e.places \in Nat
  BY DEF Decimals
<1>4. ASSUME Canonical(d) = Canonical(e) PROVE SameValue(d, e)
  <2>1. m = n /\ k = l
    BY <1>1, <1>2, <1>4
  <2>2. (m * PowerOfTen[d.places - k]) * PowerOfTen[e.places]
          = (m * PowerOfTen[e.places - k]) * PowerOfTen[d.places]
    <3>1. k \in Nat /\ k <= d.places /\ k <= e.places
      BY <1>3, <2>1
    <3>. QED
      BY <1>3, <3>1, CommonDenominator
  <2>. QED
    BY <1>1, <1>2, <2>1, <2>2, Zenon DEF SameValue, Scaling
<1>5. ASSUME SameValue(d, e) PROVE Canonical(d) = Canonical(e)
  <2>1. ASSUME k <= l PROVE k = l /\ m = n
    <3>1. Scaling(e, m, k) /\ (k = l => m = n)
      BY <1>1, <1>2, <1>5, <2>1, CanonicalPlaces, SMTT(20)
    <3>2. k \in 0..e.places
      BY <1>3, <2>1
    <3>. QED
      BY <1>2, <2>1, <3>1, <3>2
  <2>2. ASSUME l <= k PROVE k = l /\ m = n
    <3>1. SameValue(e, d)
      BY <1>5 DEF SameValue
    <3>2. Scaling(d, n, l) /\ (l = k => n = m)
      BY <1>1, <1>2, <2>2, <3>1, CanonicalPlaces, SMTT(20)
    <3>3. l \in 0..d.places
      BY <1>3, <2>2
    <3>. QED
      BY <1>1, <2>2, <3>2, <3>3
  <2>3. k <= l \/ l <= k
    BY <1>3
  <2>. QED
    BY <1>1, <1>2, <2>1, <2>2, <2>3
<1>. QED
  BY <1>4, <1>5

\* Padding an amount with zeros keeps its canonical form.
LEMMA PaddedSame ==
  ASSUME NEW d \in Decimals, NEW n \in Nat, d.places <= n
  PROVE  /\ Canonical(StringFixed(d, n)) = Canonical(d)
         /\ StringFixed(d, n).places = n
<1>. DEFINE e == StringFixed(d, n)
<1>1. d.coefficient \in Int /\ d.places \in Nat /\ n - d.places \in Nat
  BY DEF Decimals
<1>2. e = [coefficient |-> d.coefficient * PowerOfTen[n - d.places], places |-> n]
  BY DEF StringFixed
<1>3. PowerOfTen[n - d.places] \in Int /\ PowerOfTen[d.places] \in Int
  BY <1>1, PowerPositive
<1>4. e \in Decimals
  BY <1>1, <1>2, <1>3 DEF Decimals
<1>5. e.coefficient * PowerOfTen[d.places] = d.coefficient * PowerOfTen[n]
  <2>1. PowerOfTen[n] = PowerOfTen[n - d.places] * PowerOfTen[d.places]
    BY <1>1, PowerSplit
  <2>. DEFINE a == PowerOfTen[n - d.places]
              b == PowerOfTen[d.places]
              c == d.coefficient
  <2>2. c \in Int /\ a \in Int /\ b \in Int
    BY <1>1, <1>3
  <2>. HIDE DEF a, b, c
  <2>3. (c * a) * b = c * (a * b)
    BY <2>2
  <2>. QED
    BY <1>2, <2>1, <2>3 DEF a, b, c
<1>6. SameValue(e, d)
  BY <1>2, <1>5 DEF SameValue
<1>. HIDE DEF e
<1>. QED
  BY <1>2, <1>4, <1>6, CanonicalSame DEF e

-----------------------------------------------------------------------------
(* Amounts                                                                 *)

\* The value of the digits read so far, character by character.
LEMMA AbsoluteRec ==
  ASSUME NEW raw
  PROVE  /\ Absolute(raw) \in [Nat -> Nat]
         /\ Absolute(raw)[0] = 0
         /\ \A n \in Nat : Absolute(raw)[n + 1] =
              IF raw[n + 1] \in Digits THEN 10 * Absolute(raw)[n] + raw[n + 1] ELSE Absolute(raw)[n]
<1>. DEFINE read(n, v) == IF raw[n] \in Digits THEN 10 * v + raw[n] ELSE v
            F == [nv \in Nat \X Nat |-> read(nv[1] + 1, nv[2])]
            Def(g) == [i \in Nat |-> IF i = 0 THEN 0
                                     ELSE IF raw[i] \in Digits THEN 10 * g[i - 1] + raw[i]
                                     ELSE g[i - 1]]
<1>1. \A n, v \in Nat : F[<<n, v>>] = read(n + 1, v) /\ F[<<n, v>>] \in Nat
  BY DEF Digits
<1>. HIDE DEF F
<1>2. PICK f : IsRecursion(f, Nat, 0, F)
  <2>1. 0 \in Nat /\ \A n, v \in Nat : F[<<n, v>>] \in Nat
    BY <1>1
  <2>. QED
    BY <2>1, NatRecursion, Zenon
<1>3. f \in [Nat -> Nat] /\ f[0] = 0 /\ \A n \in Nat : f[n + 1] = read(n + 1, f[n])
  BY <1>1, <1>2 DEF IsRecursion
<1>4. \A i \in Nat : f[i] = Def(f)[i]
  <2>. SUFFICES ASSUME NEW i \in Nat, i # 0 PROVE f[i] = read(i, f[i - 1])
    BY <1>3
  <2>1. i - 1 \in Nat /\ (i - 1) + 1 = i
    OBVIOUS
  <2>. HIDE DEF read
  <2>. QED
    BY <1>3, <2>1
<1>5. f = Def(f)
  BY <1>3, <1>4
<1>6. Absolute(raw) = CHOOSE g : g = Def(g)
  BY DEF Absolute
<1>7. Absolute(raw) = Def(Absolute(raw))
  <2>. HIDE DEF Def
  <2>. QED
    BY <1>5, <1>6
<1>. DEFINE a == Absolute(raw)
<1>. HIDE DEF a
<1>8. a[0] = 0 /\ \A n \in Nat : a[n + 1] = read(n + 1, a[n])
  BY <1>7 DEF a
<1>9. a \in [Nat -> Nat]
  <2>. DEFINE T == {n \in Nat : a[n] \in Nat}
  <2>1. 0 \in T /\ \A n \in Nat : n \in T => n + 1 \in T
    BY <1>8 DEF Digits
  <2>. HIDE DEF T
  <2>2. Nat \subseteq T
    BY <2>1, NatSetInduction
  <2>3. \A n \in Nat : a[n] \in Nat
    BY <2>2 DEF T
  <2>. QED
    BY <1>7, <2>3 DEF a
<1>. QED
  BY <1>8, <1>9 DEF a

\* Of the points of a text, the last one is found.
LEMMA LastPoint ==
  ASSUME NEW raw \in Amounts, Points(raw) # {}
  PROVE  \E p \in Points(raw) : (\A q \in Points(raw) : q <= p) /\ DecimalPlaces(raw) = Len(raw) - p
<1>. DEFINE n == Len(raw)
            last(p) == \A q \in Points(raw) : q <= p
<1>1. n \in Nat /\ Points(raw) \subseteq 1..n
  BY DEF Amounts, Points
<1>2. \E p \in Points(raw) : last(p)
  BY <1>1, NatMax
<1>3. DecimalPlaces(raw) = n - CHOOSE q \in Points(raw) : last(q)
  BY DEF DecimalPlaces
<1>. HIDE DEF last
<1>4. last(CHOOSE q \in Points(raw) : last(q)) /\ (CHOOSE q \in Points(raw) : last(q)) \in Points(raw)
  BY <1>2
<1>. QED
  BY <1>3, <1>4 DEF last

\* The decimal of a text has an integer coefficient, whatever the text.
LEMMA DecimalTyped ==
  ASSUME NEW raw \in Amounts
  PROVE  Decimal(raw) \in Decimals
<1>1. Len(raw) \in Nat /\ Points(raw) \subseteq 1..Len(raw)
  BY DEF Amounts, Points
<1>2. DecimalPlaces(raw) \in Nat
  BY <1>1, LastPoint DEF DecimalPlaces
<1>3. Absolute(raw)[Len(raw)] \in Nat
  BY <1>1, AbsoluteRec
<1>. QED
  BY <1>2, <1>3 DEF Decimal, Decimals

\* What is known of a text, character by character.
LEMMA AmountTyped ==
  ASSUME NEW text \in Amounts
  PROVE  /\ Len(text) \in Nat
         /\ DOMAIN text = 1..Len(text)
         /\ \A i \in 1..Len(text) : text[i] \in Digits \cup {Minus, Point, Junk}
         /\ Points(text) = {i \in 1..Len(text) : text[i] = Point}
         /\ text # <<>> <=> Len(text) > 0
BY DEF Amounts, Points

\* The points of a text can be counted.
LEMMA FewPoints ==
  ASSUME NEW text \in Amounts
  PROVE  Cardinality(Points(text)) <= 1
           <=> Points(text) = {} \/ \E p \in 1..Len(text) : Points(text) = {p}
<1>. DEFINE S == Points(text)
            n == Cardinality(S)
<1>1. S \subseteq 1..Len(text) /\ Len(text) \in Nat
  BY AmountTyped
<1>2. IsFiniteSet(S)
  <2>1. IsFiniteSet(1..Len(text))
    BY <1>1, FS_Interval
  <2>. QED
    BY <1>1, <2>1, FS_Subset
<1>. HIDE DEF S
<1>3. n \in Nat
  BY <1>2, FS_CardinalityType
<1>4. (n = 0 <=> S = {}) /\ (n = 1 <=> \E x : S = {x})
  BY <1>2, FS_EmptySet, FS_Singleton
<1>5. n <= 1 <=> n = 0 \/ n = 1
  BY <1>3
<1>6. (\E x : S = {x}) <=> \E p \in 1..Len(text) : S = {p}
  BY <1>1 DEF S
<1>. QED
  BY <1>4, <1>5, <1>6 DEF S

\* A part of a text is made of digits when each of its characters is one.
LEMMA DigitRun ==
  ASSUME NEW text \in Amounts, NEW a \in Nat \ {0}, NEW b \in Nat, b <= Len(text),
         NEW k \in Nat, k = b - a + 1
  PROVE  SubSeq(text, a, b) \in [1..k -> Digits] <=> \A i \in a..b : text[i] \in Digits
<1>. DEFINE run == SubSeq(text, a, b)
            C == Digits \cup {Minus, Point, Junk}
<1>1. \A i \in a..b : text[i] \in C
  BY AmountTyped
<1>2. a \in Int /\ b \in Int /\ (a <= b <=> k > 0) /\ b - a + 1 = k
  OBVIOUS
<1>. HIDE DEF C
<1>3. /\ run \in Seq(C) /\ Len(run) = k
      /\ \A i \in 1..k : run[i] = text[a + i - 1]
  BY <1>1, <1>2, SubSeqProperties
<1>. HIDE DEF run
<1>4. DOMAIN run = 1..k /\ run = [i \in 1..k |-> run[i]]
  BY <1>3
<1>5. run \in [1..k -> Digits] <=> \A i \in 1..k : run[i] \in Digits
  BY <1>4
<1>6. ASSUME \A i \in 1..k : run[i] \in Digits, NEW j \in a..b
      PROVE  text[j] \in Digits
  <2>1. j - a + 1 \in 1..k /\ a + (j - a + 1) - 1 = j
    OBVIOUS
  <2>. QED
    BY <1>3, <1>6, <2>1
<1>7. ASSUME \A i \in a..b : text[i] \in Digits, NEW j \in 1..k
      PROVE  run[j] \in Digits
  <2>1. a + j - 1 \in a..b
    OBVIOUS
  <2>. QED
    BY <1>3, <1>7, <2>1
<1>. QED
  BY <1>5, <1>6, <1>7 DEF run

\* decimalSyntax without the sign.
PlainSyntax(text) ==
  /\ text # <<>>
  /\ \A i \in DOMAIN text : text[i] \in Digits \cup {Point}
  /\ Cardinality(Points(text)) <= 1
  /\ Points(text) \subseteq 2..(Len(text) - 1)

Exact(text, exponent) ==
  \E places \in 0..exponent, n \in 1..Len(text) : IsDecimal(text, n, places)

\* With one point, the decimal places are what follows it.
LEMMA SinglePoint ==
  ASSUME NEW text \in Amounts, NEW p, Points(text) = {p}
  PROVE  DecimalPlaces(text) = Len(text) - p
BY LastPoint

\* Digits, or digits, a point and as many digits as the exponent allows, are
\* what the syntax and the count of decimal places let through.
LEMMA ExactIsSyntax ==
  ASSUME NEW text \in Amounts, NEW exponent \in Nat
  PROVE  Exact(text, exponent) <=> PlainSyntax(text) /\ DecimalPlaces(text) <= exponent
<1>. DEFINE L == Len(text)
<1>1. L \in Nat /\ DOMAIN text = 1..L /\ Points(text) = {i \in 1..L : text[i] = Point}
      /\ (text # <<>> <=> L > 0)
  BY AmountTyped
<1>2. Point \notin Digits /\ Point \in Int
  BY DEF Point, Digits
<1>3. ASSUME NEW places \in 0..exponent, NEW n \in 1..L, IsDecimal(text, n, places)
      PROVE  PlainSyntax(text) /\ DecimalPlaces(text) <= exponent
  <2>1. CASE places = 0
    <3>1. L = n /\ SubSeq(text, 1, n) \in [1..n -> Digits]
      BY <1>3, <2>1 DEF IsDecimal
    <3>2. n \in Nat /\ n <= L /\ n = n - 1 + 1 /\ 1 \in Nat \ {0}
      BY <1>1
    <3>3. \A i \in 1..L : text[i] \in Digits
      BY <3>1, <3>2, DigitRun
    <3>4. Points(text) = {}
      BY <1>1, <1>2, <3>3
    <3>5. DecimalPlaces(text) = 0
      BY <3>4 DEF DecimalPlaces
    <3>6. Cardinality(Points(text)) <= 1
      BY <3>4, FewPoints
    <3>7. L > 0 /\ 0 <= exponent
      BY <1>1, <3>1
    <3>. QED
      BY <1>1, <3>3, <3>4, <3>5, <3>6, <3>7 DEF PlainSyntax
  <2>2. CASE places > 0
    <3>1. /\ L = n + 1 + places
          /\ SubSeq(text, 1, n) \in [1..n -> Digits]
          /\ text[n + 1] = Point
          /\ SubSeq(text, n + 2, L) \in [1..places -> Digits]
      BY <1>3, <2>2 DEF IsDecimal
    <3>2. \A i \in 1..n : text[i] \in Digits
      <4>1. n \in Nat /\ n <= L /\ n = n - 1 + 1 /\ 1 \in Nat \ {0}
        BY <1>1
      <4>. QED
        BY <3>1, <4>1, DigitRun
    <3>3. \A i \in (n + 2)..L : text[i] \in Digits
      <4>. DEFINE m == n + 2
      <4>1. m \in Nat \ {0} /\ L <= L /\ places = L - m + 1 /\ places \in Nat
        BY <1>1, <3>1
      <4>2. SubSeq(text, m, L) \in [1..places -> Digits]
        BY <3>1
      <4>. HIDE DEF m
      <4>3. SubSeq(text, m, L) \in [1..places -> Digits] <=> \A i \in m..L : text[i] \in Digits
        BY <1>1, <4>1, DigitRun
      <4>4. \A i \in m..L : text[i] \in Digits
        BY <4>2, <4>3
      <4>. QED
        BY <4>4 DEF m
    <3>4. Points(text) = {n + 1}
      BY <1>1, <1>2, <3>1, <3>2, <3>3
    <3>5. DecimalPlaces(text) = places
      <4>1. DecimalPlaces(text) = L - (n + 1)
        BY <3>4, SinglePoint
      <4>. QED
        BY <1>1, <3>1, <4>1
    <3>6. n + 1 \in 1..L /\ n + 1 \in 2..(L - 1)
      BY <1>1, <2>2, <3>1
    <3>7. \A i \in 1..L : text[i] \in Digits \cup {Point}
      BY <1>1, <3>1, <3>2, <3>3
    <3>8. Cardinality(Points(text)) <= 1
      BY <3>4, <3>6, FewPoints
    <3>9. L > 0 /\ places <= exponent
      BY <1>1, <3>1
    <3>. QED
      BY <1>1, <3>4, <3>5, <3>6, <3>7, <3>8, <3>9 DEF PlainSyntax
  <2>. QED
    BY <2>1, <2>2
<1>4. ASSUME PlainSyntax(text), DecimalPlaces(text) <= exponent
      PROVE  Exact(text, exponent)
  <2>1. L > 0 /\ \A i \in 1..L : text[i] \in Digits \cup {Point}
    BY <1>1, <1>4 DEF PlainSyntax
  <2>2. CASE Points(text) = {}
    <3>1. \A i \in 1..L : text[i] \in Digits
      BY <1>1, <2>1, <2>2
    <3>2. SubSeq(text, 1, L) \in [1..L -> Digits]
      <4>1. L \in Nat /\ L <= L /\ L = L - 1 + 1 /\ 1 \in Nat \ {0}
        BY <1>1
      <4>. QED
        BY <3>1, <4>1, DigitRun
    <3>3. IsDecimal(text, L, 0)
      BY <3>2 DEF IsDecimal
    <3>4. 0 \in 0..exponent /\ L \in 1..L
      BY <1>1, <2>1
    <3>. QED
      BY <3>3, <3>4 DEF Exact
  <2>3. CASE Points(text) # {}
    <3>1. PICK p \in 1..L : Points(text) = {p}
      BY <1>4, <2>3, FewPoints DEF PlainSyntax
    <3>2. p \in 2..(L - 1)
      BY <1>4, <3>1 DEF PlainSyntax
    <3>. DEFINE n == p - 1
                places == L - p
    <3>3. DecimalPlaces(text) = places
      BY <3>1, SinglePoint
    <3>4. n \in 1..L /\ places \in 0..exponent /\ places > 0
      BY <1>1, <1>4, <3>2, <3>3
    <3>5. \A i \in 1..L : i # p => text[i] \in Digits
      BY <1>1, <2>1, <3>1
    <3>6. SubSeq(text, 1, n) \in [1..n -> Digits]
      <4>1. n \in Nat /\ n <= L /\ n = n - 1 + 1 /\ 1 \in Nat \ {0}
        BY <1>1, <3>2
      <4>2. \A i \in 1..n : text[i] \in Digits
        BY <1>1, <3>2, <3>5
      <4>. QED
        BY <4>1, <4>2, DigitRun
    <3>7. SubSeq(text, n + 2, L) \in [1..places -> Digits]
      <4>1. n + 2 \in Nat \ {0} /\ L <= L /\ places = L - (n + 2) + 1 /\ places \in Nat
        BY <1>1, <3>2
      <4>2. \A i \in (n + 2)..L : text[i] \in Digits
        BY <1>1, <3>2, <3>5
      <4>. QED
        BY <1>1, <4>1, <4>2, DigitRun
    <3>8. text[n + 1] = Point /\ L = n + 1 + places
      <4>1. n + 1 = p /\ L = n + 1 + places
        BY <1>1, <3>2
      <4>. QED
        BY <1>1, <3>1, <4>1
    <3>. HIDE DEF n, places
    <3>9. IsDecimal(text, n, places)
      BY <3>4, <3>6, <3>7, <3>8 DEF IsDecimal
    <3>. QED
      BY <3>4, <3>9 DEF Exact
  <2>. QED
    BY <2>2, <2>3
<1>. QED
  BY <1>3, <1>4 DEF Exact

\* The value of the digits is zero when each of them is.
LEMMA ZeroDigits ==
  ASSUME NEW raw \in Amounts
  PROVE  Absolute(raw)[Len(raw)] = 0
           <=> \A i \in 1..Len(raw) : raw[i] \in Digits => raw[i] = 0
<1>. DEFINE a == Absolute(raw)
            zero(n) == \A i \in 1..n : raw[i] \in Digits => raw[i] = 0
            T == {n \in Nat : a[n] = 0 <=> zero(n)}
<1>1. /\ a \in [Nat -> Nat] /\ a[0] = 0
      /\ \A n \in Nat : a[n + 1] = IF raw[n + 1] \in Digits THEN 10 * a[n] + raw[n + 1] ELSE a[n]
  BY AbsoluteRec
<1>. HIDE DEF a
<1>2. 0 \in T
  BY <1>1
<1>3. ASSUME NEW n \in Nat, n \in T PROVE n + 1 \in T
  <2>1. zero(n + 1) <=> zero(n) /\ (raw[n + 1] \in Digits => raw[n + 1] = 0)
    OBVIOUS
  <2>2. a[n] \in Nat /\ (a[n] = 0 <=> zero(n))
    BY <1>1, <1>3
  <2>3. a[n + 1] = 0 <=> a[n] = 0 /\ (raw[n + 1] \in Digits => raw[n + 1] = 0)
    <3>1. CASE raw[n + 1] \in Digits
      <4>1. a[n + 1] = 10 * a[n] + raw[n + 1]
        BY <1>1, <3>1
      <4>. QED
        BY <2>2, <3>1, <4>1 DEF Digits
    <3>2. CASE raw[n + 1] \notin Digits
      BY <1>1, <3>2
    <3>. QED
      BY <3>1, <3>2
  <2>. HIDE DEF zero
  <2>. QED
    BY <2>1, <2>2, <2>3
<1>. HIDE DEF T
<1>4. Len(raw) \in T
  <2>1. Nat \subseteq T
    BY <1>2, <1>3, NatSetInduction
  <2>. QED
    BY <2>1, AmountTyped
<1>. QED
  BY <1>4 DEF T, a

\* A sign is no decimal place.
LEMMA TailPlaces ==
  ASSUME NEW raw \in Amounts, raw # <<>>, raw[1] = Minus
  PROVE  /\ Tail(raw) \in Amounts
         /\ Len(raw) = Len(Tail(raw)) + 1
         /\ \A i \in 1..Len(Tail(raw)) : Tail(raw)[i] = raw[i + 1]
         /\ DecimalPlaces(raw) = DecimalPlaces(Tail(raw))
<1>. DEFINE t == Tail(raw)
            n == Len(t)
<1>1. t \in Amounts /\ Len(raw) = n + 1 /\ \A i \in 1..n : t[i] = raw[i + 1]
  BY HeadTailProperties DEF Amounts
<1>. HIDE DEF t
<1>2. n \in Nat /\ Points(t) = {i \in 1..n : t[i] = Point}
      /\ Points(raw) = {i \in 1..(n + 1) : raw[i] = Point}
  BY <1>1, AmountTyped
<1>3. \A i \in 1..n : i \in Points(t) <=> i + 1 \in Points(raw)
  BY <1>1, <1>2
<1>4. \A i \in Points(raw) : i - 1 \in Points(t)
  <2>. SUFFICES ASSUME NEW i \in Points(raw) PROVE i - 1 \in Points(t)
    OBVIOUS
  <2>1. i \in 1..(n + 1) /\ i # 1
    BY <1>2 DEF Minus, Point
  <2>2. i - 1 \in 1..n /\ (i - 1) + 1 = i
    BY <1>2, <2>1
  <2>. QED
    BY <1>3, <2>2
<1>5. ASSUME Points(t) = {} PROVE DecimalPlaces(raw) = DecimalPlaces(t)
  BY <1>4, <1>5 DEF DecimalPlaces
<1>6. ASSUME Points(t) # {} PROVE DecimalPlaces(raw) = DecimalPlaces(t)
  <2>1. PICK q \in Points(t) : (\A j \in Points(t) : j <= q) /\ DecimalPlaces(t) = n - q
    BY <1>1, <1>6, LastPoint
  <2>2. q \in 1..n /\ q + 1 \in Points(raw)
    BY <1>2, <1>3, <2>1
  <2>3. PICK p \in Points(raw) : (\A j \in Points(raw) : j <= p) /\ DecimalPlaces(raw) = (n + 1) - p
    BY <1>1, <2>2, LastPoint
  <2>4. p - 1 \in Points(t) /\ p \in 1..(n + 1)
    BY <1>2, <1>4
  <2>5. p - 1 <= q /\ q + 1 <= p
    BY <2>1, <2>2, <2>3, <2>4
  <2>6. (n + 1) - p = n - q
    BY <1>2, <2>2, <2>4, <2>5
  <2>. QED
    BY <2>1, <2>3, <2>6
<1>. QED
  BY <1>1, <1>5, <1>6 DEF t

\* An amount a producer may be billed by: exact at the minor units of the
\* currency, and not negative, though it may be a zero with a sign.
Payable(text, exponent) ==
  \/ Exact(text, exponent)
  \/ /\ text # <<>> /\ Head(text) = Minus
     /\ Exact(Tail(text), exponent) /\ Zeros(text)

\* The amounts a producer may be billed by are those validateAmount accepts.
LEMMA PayableIsAccepted ==
  ASSUME NEW raw \in Amounts, NEW e \in Nat
  PROVE  Payable(raw, e) <=> /\ DecimalSyntax(raw)
                             /\ ~(DecimalPlaces(raw) > e)
                             /\ ~(Decimal(raw).coefficient < 0)
<1>1. Len(raw) \in Nat /\ DOMAIN raw = 1..Len(raw) /\ (raw # <<>> <=> Len(raw) > 0)
      /\ \A i \in 1..Len(raw) : raw[i] \in Digits \cup {Minus, Point, Junk}
  BY AmountTyped
<1>2. DecimalSyntax(raw) <=> PlainSyntax(Unsigned(raw))
  BY DEF DecimalSyntax, PlainSyntax
<1>3. Absolute(raw)[Len(raw)] \in Nat
  BY <1>1, AbsoluteRec
<1>4. DecimalPlaces(raw) \in Nat
  BY DecimalTyped DEF Decimals, Decimal
<1>5. CASE raw = <<>>
  <2>1. ~PlainSyntax(raw) /\ Unsigned(raw) = raw
    BY <1>5 DEF PlainSyntax, Unsigned
  <2>2. ~Exact(raw, e)
    BY <2>1, ExactIsSyntax
  <2>. QED
    BY <1>2, <1>5, <2>1, <2>2 DEF Payable
<1>6. CASE raw # <<>> /\ raw[1] # Minus
  <2>1. Unsigned(raw) = raw /\ Head(raw) # Minus
    BY <1>6 DEF Unsigned, Amounts
  <2>2. Decimal(raw).coefficient = Absolute(raw)[Len(raw)]
    BY <1>6 DEF Decimal
  <2>3. Exact(raw, e) <=> PlainSyntax(raw) /\ DecimalPlaces(raw) <= e
    BY ExactIsSyntax
  <2>4. ~(Decimal(raw).coefficient < 0) /\ (~(DecimalPlaces(raw) > e) <=> DecimalPlaces(raw) <= e)
    BY <1>3, <1>4, <2>2
  <2>. QED
    BY <1>2, <2>1, <2>3, <2>4 DEF Payable
<1>7. CASE raw # <<>> /\ raw[1] = Minus
  <2>. DEFINE t == Tail(raw)
  <2>1. /\ t \in Amounts /\ Len(raw) = Len(t) + 1
        /\ \A i \in 1..Len(t) : t[i] = raw[i + 1]
        /\ DecimalPlaces(raw) = DecimalPlaces(t)
    BY <1>7, TailPlaces
  <2>2. Unsigned(raw) = t /\ Head(raw) = Minus
    BY <1>7 DEF Unsigned, Amounts
  <2>. HIDE DEF t
  <2>3. ~Exact(raw, e)
    <3>1. raw[1] \notin Digits \cup {Point} /\ 1 \in DOMAIN raw
      BY <1>1, <1>7 DEF Minus, Point, Digits
    <3>2. ~PlainSyntax(raw)
      BY <3>1 DEF PlainSyntax
    <3>. QED
      BY <3>2, ExactIsSyntax
  <2>4. Exact(t, e) <=> PlainSyntax(t) /\ DecimalPlaces(t) <= e
    BY <2>1, ExactIsSyntax
  <2>5. ASSUME PlainSyntax(t) PROVE Zeros(raw) <=> ~(Decimal(raw).coefficient < 0)
    <3>1. \A i \in 1..Len(raw) : raw[i] \in Digits \cup {Minus, Point}
      <4>. SUFFICES ASSUME NEW i \in 1..Len(raw), i # 1 PROVE raw[i] \in Digits \cup {Point}
        BY <1>7
      <4>1. i - 1 \in 1..Len(t) /\ (i - 1) + 1 = i /\ DOMAIN t = 1..Len(t)
        BY <1>1, <2>1, AmountTyped
      <4>2. t[i - 1] \in Digits \cup {Point}
        BY <2>5, <4>1 DEF PlainSyntax
      <4>. QED
        BY <2>1, <4>1, <4>2
    <3>2. Zeros(raw) <=> \A i \in 1..Len(raw) : raw[i] \in Digits => raw[i] = 0
      BY <1>1, <3>1 DEF Zeros, Minus, Point, Digits
    <3>3. ~(Decimal(raw).coefficient < 0) <=> Absolute(raw)[Len(raw)] = 0
      BY <1>3, <1>7 DEF Decimal
    <3>. QED
      BY <3>2, <3>3, ZeroDigits
  <2>6. ~(DecimalPlaces(raw) > e) <=> DecimalPlaces(t) <= e
    BY <1>4, <2>1
  <2>. QED
    BY <1>2, <1>7, <2>2, <2>3, <2>4, <2>5, <2>6 DEF Payable, t
<1>. QED
  BY <1>5, <1>6, <1>7

-----------------------------------------------------------------------------
(* Names and identifiers                                                   *)

\* The configured spelling of a type tells which type it is.
LEMMA TypeSetNames ==
  ASSUME NEW w \in DOMAIN TypeSet
  PROVE  TypeSet[w].word = w
<1>. DEFINE named == {i \in DOMAIN TypeNames : NameKey(TypeNames[i]) = w}
            last(i) == \A j \in named : j <= i
            k == CHOOSE i \in named : last(i)
            n == Len(TypeNames)
<1>1. TypeNames \in Seq(Names)
  BY ConfigurationAssumption
<1>2. named # {}
  BY DEF TypeSet
<1>3. n \in Nat /\ named \subseteq 1..n
  BY <1>1
<1>4. \E i \in named : last(i)
  <2>1. named \subseteq 0..n
    BY <1>3
  <2>. HIDE DEF named
  <2>. QED
    BY <1>2, <1>3, <2>1, NatMax
<1>5. TypeSet[w] = Trimmed(TypeNames[k])
  BY DEF TypeSet
<1>. HIDE DEF last
<1>6. k \in named
  BY <1>4
<1>7. TypeNames[k] \in Names /\ TypeNames[k].word = w
  BY <1>1, <1>6 DEF NameKey
<1>. QED
  BY <1>5, <1>7 DEF Trimmed, Names

\* An identifier that was not read has no matching key.
LEMMA NothingRead == CanonicalRead(NoRead) = NoRead
<1>1. {j \in DOMAIN NoRead : NoRead[j] # "-"} = {}
  BY DEF NoRead
<1>2. Cardinality({}) = 0
  BY FS_EmptySet
<1>3. [i \in 1..0 |-> "A"] = <<>>
  OBVIOUS
<1>. QED
  BY <1>1, <1>2, <1>3 DEF CanonicalRead, NoRead

-----------------------------------------------------------------------------
(* The problems of a submission                                            *)

\* The sequence ps names each member of the finite set S once.
Lists(ps, S) ==
  /\ ps \in Seq(S)
  /\ IsFiniteSet(S)
  /\ ToSet(ps) = S
  /\ Len(ps) = Cardinality(S)

Named(problem) == IF problem = NoProblem THEN {} ELSE {problem}

\* A new problem is added to the list, the absence of one is not.
LEMMA AppendIfLists ==
  ASSUME NEW ps, NEW S, Lists(ps, S), NEW p, p \notin S
  PROVE  Lists(AppendIf(ps, p), S \cup Named(p))
<1>1. CASE p = NoProblem
  BY <1>1 DEF AppendIf, Named
<1>2. CASE p # NoProblem
  <2>1. ps \in Seq(S) /\ IsFiniteSet(S) /\ Len(ps) = Cardinality(S) /\ ToSet(ps) = S
    BY DEF Lists
  <2>2. AppendIf(ps, p) = Append(ps, p) /\ Named(p) = {p}
    BY <1>2 DEF AppendIf, Named
  <2>3. IsFiniteSet(S \cup {p}) /\ Cardinality(S \cup {p}) = Cardinality(S) + 1
    BY <2>1, FS_AddElement
  <2>. DEFINE T == S \cup {p}
              qs == Append(ps, p)
  <2>4. ps \in Seq(T) /\ p \in T
    BY <2>1
  <2>. HIDE DEF T
  <2>5. /\ qs \in Seq(T) /\ Len(qs) = Len(ps) + 1
        /\ \A i \in 1..Len(ps) : qs[i] = ps[i]
        /\ qs[Len(ps) + 1] = p
    BY <2>4, AppendProperties
  <2>. HIDE DEF qs
  <2>6. ToSet(qs) = ToSet(ps) \cup {p}
    <3>1. Len(ps) \in Nat /\ DOMAIN ps = 1..Len(ps) /\ DOMAIN qs = 1..(Len(ps) + 1)
      BY <2>1, <2>5
    <3>. QED
      BY <2>5, <3>1 DEF ToSet
  <2>. QED
    BY <2>1, <2>2, <2>3, <2>5, <2>6 DEF Lists, T, qs
<1>. QED
  BY <1>1, <1>2

\* The problems of a submission are those of its five checks, each named once.
LEMMA ProblemsListed ==
  ASSUME NEW s
  PROVE  Lists(Problems(s), Named(TypeProblem(s)) \cup Named(TimeProblem(s))
                              \cup Named(CurrencyProblem(s)) \cup Named(AmountProblem(s))
                              \cup Named(IdentityProblem(s)))
<1>. DEFINE p == TypeProblem(s)
            q == TimeProblem(s)
            r == CurrencyProblem(s)
            u == AmountProblem(s)
            v == IdentityProblem(s)
<1>1. /\ p \in {NoProblem, "transaction_type"}
      /\ q \in {NoProblem, "transaction_time_utc"}
      /\ r \in {NoProblem, "currency"}
      /\ u \in {NoProblem, "base_amount"}
      /\ v \in {NoProblem, "identity"}
  BY DEF TypeProblem, TimeProblem, CurrencyProblem, AmountProblem, IdentityProblem
<1>. HIDE DEF p, q, r, u, v
<1>2. /\ q \notin Named(p)
      /\ r \notin Named(p) \cup Named(q)
      /\ u \notin Named(p) \cup Named(q) \cup Named(r)
      /\ v \notin Named(p) \cup Named(q) \cup Named(r) \cup Named(u)
  BY <1>1 DEF Named, NoProblem
<1>4. Lists(<<>>, {})
  <2>1. <<>> \in Seq({}) /\ Len(<<>>) = 0 /\ ToSet(<<>>) = {}
    BY DEF ToSet
  <2>. QED
    BY <2>1, FS_EmptySet DEF Lists
<1>. DEFINE ps1 == AppendIf(<<>>, p)
            ps2 == AppendIf(ps1, q)
            ps3 == AppendIf(ps2, r)
            ps4 == AppendIf(ps3, u)
            ps5 == AppendIf(ps4, v)
<1>5. Lists(ps1, Named(p))
  <2>1. Lists(ps1, {} \cup Named(p))
    BY <1>4, AppendIfLists
  <2>2. {} \cup Named(p) = Named(p)
    OBVIOUS
  <2>. QED
    BY <2>1, <2>2
<1>. HIDE DEF ps1
<1>6. Lists(ps2, Named(p) \cup Named(q))
  BY <1>2, <1>5, AppendIfLists
<1>. HIDE DEF ps2
<1>7. Lists(ps3, Named(p) \cup Named(q) \cup Named(r))
  BY <1>2, <1>6, AppendIfLists
<1>. HIDE DEF ps3
<1>8. Lists(ps4, Named(p) \cup Named(q) \cup Named(r) \cup Named(u))
  BY <1>2, <1>7, AppendIfLists
<1>. HIDE DEF ps4
<1>9. Lists(ps5, Named(p) \cup Named(q) \cup Named(r) \cup Named(u) \cup Named(v))
  BY <1>2, <1>8, AppendIfLists
<1>10. Problems(s) = ps5
  BY DEF Problems, ps1, ps2, ps3, ps4, ps5, p, q, r, u, v
<1>. QED
  BY <1>9, <1>10 DEF p, q, r, u, v

\* A push that passes has no problem of any kind.
LEMMA PassedEveryCheck ==
  ASSUME NEW s, Passes(s)
  PROVE  /\ TypeProblem(s) = NoProblem
         /\ CurrencyProblem(s) = NoProblem
         /\ AmountProblem(s) = NoProblem
         /\ IdentityProblem(s) = NoProblem
<1>1. Problems(s) = <<>>
  BY DEF Passes
<1>2. ToSet(Problems(s)) = {}
  BY <1>1 DEF ToSet
<1>3. {} = Named(TypeProblem(s)) \cup Named(TimeProblem(s)) \cup Named(CurrencyProblem(s))
             \cup Named(AmountProblem(s)) \cup Named(IdentityProblem(s))
  BY <1>2, ProblemsListed DEF Lists
<1>. QED
  BY <1>3 DEF Named

\* An identifier is usable when something in it is alphanumeric.
LEMMA UsableRead ==
  ASSUME NEW read \in Reads
  PROVE  Usable(read) <=> \E i \in DOMAIN read : read[i] # "-"
<1>. DEFINE seen == {j \in DOMAIN read : read[j] # "-"}
            n == Cardinality(seen)
<1>1. IsFiniteSet(seen)
  <2>1. Len(read) \in Nat /\ seen \subseteq 1..Len(read)
    BY DEF Reads
  <2>. HIDE DEF seen
  <2>2. IsFiniteSet(1..Len(read))
    BY <2>1, FS_Interval
  <2>. QED
    BY <2>1, <2>2, FS_Subset
<1>2. CanonicalRead(read) = [i \in 1..n |-> "A"]
  BY DEF CanonicalRead
<1>3. seen # {} <=> \E i \in DOMAIN read : read[i] # "-"
  OBVIOUS
<1>. HIDE DEF seen
<1>4. n \in Nat /\ (n = 0 <=> seen = {})
  BY <1>1, FS_CardinalityType, FS_EmptySet
<1>5. [i \in 1..n |-> "A"] = <<>> <=> n = 0
  BY <1>4
<1>. QED
  BY <1>2, <1>3, <1>4, <1>5 DEF Usable, NoRead

\* What a producer is owed a 400 for, told apart by field.
LEMMA FaultsAreProblems ==
  ASSUME NEW s \in Submissions
  PROVE  Faults(s) = Named(TypeProblem(s)) \cup Named(TimeProblem(s)) \cup Named(CurrencyProblem(s))
                       \cup Named(AmountProblem(s)) \cup Named(IdentityProblem(s))
<1>. DEFINE badType == s.type.word \notin {TypeNames[i].word : i \in DOMAIN TypeNames} \ {NoWord}
            badTime == s.time = 0 \/ s.time - Now > Skew
            known == Currency(s) \in DOMAIN Exponents
            payable == Payable(s.amount, Exponents[Currency(s)])
            seen(read) == \E i \in DOMAIN read : read[i] # "-"
            unseen == ~seen(s.plate.number) /\ ~seen(s.transponder)
<1>1. Faults(s) =
        {f \in {"transaction_type", "transaction_time_utc", "currency", "base_amount", "identity"} :
           \/ f = "transaction_type" /\ badType
           \/ f = "transaction_time_utc" /\ badTime
           \/ f = "currency" /\ ~known
           \/ f = "base_amount" /\ known /\ ~payable
           \/ f = "identity" /\ unseen}
  BY Zenon DEF Faults, Payable, Exact, Currency, NameKey
<1>2. TypeProblem(s) = IF badType THEN "transaction_type" ELSE NoProblem
  <2>1. DOMAIN TypeSet = {TypeNames[i].word : i \in DOMAIN TypeNames} \ {NoWord}
    BY Zenon DEF TypeSet, NameKey
  <2>. QED
    BY <2>1 DEF TypeProblem, NameKey
<1>3. TimeProblem(s) = IF badTime THEN "transaction_time_utc" ELSE NoProblem
  <2>1. s.time \in Nat /\ Now \in Int /\ Skew \in Int
    BY ConfigurationAssumption DEF Submissions, Skew
  <2>. QED
    BY <2>1 DEF TimeProblem
<1>4. CurrencyProblem(s) = IF ~known THEN "currency" ELSE NoProblem
  BY DEF CurrencyProblem
<1>5. AmountProblem(s) = IF known /\ ~payable THEN "base_amount" ELSE NoProblem
  <2>1. CASE known
    <3>1. s.amount \in Amounts /\ Exponents[Currency(s)] \in Nat
      BY <2>1, ConfigurationAssumption DEF Submissions
    <3>2. payable <=> /\ DecimalSyntax(s.amount)
                      /\ ~(DecimalPlaces(s.amount) > Exponents[Currency(s)])
                      /\ ~(Decimal(s.amount).coefficient < 0)
      BY <3>1, PayableIsAccepted
    <3>. HIDE DEF payable
    <3>3. CurrencyProblem(s) = NoProblem
      BY <1>4, <2>1
    <3>. QED
      BY <2>1, <3>2, <3>3 DEF AmountProblem
  <2>2. CASE ~known
    <3>1. CurrencyProblem(s) # NoProblem
      BY <1>4, <2>2 DEF NoProblem
    <3>. QED
      BY <2>2, <3>1 DEF AmountProblem
  <2>. QED
    BY <2>1, <2>2
<1>6. IdentityProblem(s) = IF unseen THEN "identity" ELSE NoProblem
  <2>1. s.plate.number \in Reads /\ s.transponder \in Reads
    BY DEF Submissions
  <2>2. (Usable(s.plate.number) <=> seen(s.plate.number))
        /\ (Usable(s.transponder) <=> seen(s.transponder))
    BY <2>1, UsableRead
  <2>. HIDE DEF seen
  <2>3. Plate(s) = NoPlate <=> ~Usable(s.plate.number)
    BY NothingRead DEF Plate, NoPlate, Usable
  <2>4. Transponder(s) = NoRead <=> ~Usable(s.transponder)
    BY NothingRead DEF Transponder, Usable
  <2>. QED
    BY <2>2, <2>3, <2>4 DEF IdentityProblem
<1>. HIDE DEF badType, badTime, known, payable, unseen
<1>. QED
  BY <1>1, <1>2, <1>3, <1>4, <1>5, <1>6 DEF Named, NoProblem

-----------------------------------------------------------------------------
(* What is stored and announced of a submission                            *)

\* Both submissions of a pair are typed.
LEMMA SubmissionTyped ==
  ASSUME NEW pair \in Pairs
  PROVE  pair[1] \in Submissions /\ pair[2] \in Submissions
<1>1. 1 \in 1..2 /\ 2 \in 1..2
  OBVIOUS
<1>. QED
  BY <1>1, PairsAssumption, Zenon

\* A plate that is kept has a number to be restored by, and a matching key.
LEMMA KeptPlate ==
  ASSUME NEW s, Plate(s) # NoPlate
  PROVE  /\ Plate(s) = s.plate
         /\ s.plate.number # NoRead
         /\ CanonicalRead(s.plate.number) # NoRead
<1>1. Plate(s) = s.plate /\ Usable(s.plate.number)
  BY DEF Plate
<1>. QED
  BY <1>1, NothingRead DEF Usable

\* So has a transponder that is kept.
LEMMA KeptTransponder ==
  ASSUME NEW s, Transponder(s) # NoRead
  PROVE  CanonicalRead(Transponder(s)) # NoRead
BY DEF Transponder, Usable

\* The columns give back the transaction they were filled from, unless its time
\* has a fraction of a microsecond.
LEMMA RoundTrip ==
  ASSUME NEW pair \in Pairs, NEW s, s = pair[1], s.time % Micro = 0
  PROVE  ReadBack(Row(Transaction(s))) = Transaction(s)
<1>1. /\ s.time \in Nat
      /\ s.plate = [number |-> s.plate.number, jurisdiction |-> s.plate.jurisdiction]
  BY SubmissionTyped DEF Submissions
<1>2. (s.time \div Micro) * Micro = s.time
  BY <1>1, MicroAssumption
<1>3. (IF Plate(s).number = NoRead THEN NoPlate
       ELSE [number |-> Plate(s).number, jurisdiction |-> Plate(s).jurisdiction]) = Plate(s)
  <2>1. CASE Plate(s) = NoPlate
    BY <2>1 DEF NoPlate
  <2>2. CASE Plate(s) # NoPlate
    BY <1>1, <2>2, KeptPlate
  <2>. QED
    BY <2>1, <2>2
<1>. QED
  BY <1>2, <1>3 DEF ReadBack, Row, Transaction

\* The record of an accepted submission is the transaction that was accepted.
LEMMA AcceptedTransaction ==
  ASSUME NEW s, Passes(s)
  PROVE  Accept(s).tx = Transaction(s)
BY DEF Accept

\* The fingerprint of a submission, field by field.
LEMMA FingerprintFields ==
  ASSUME NEW s
  PROVE  Fingerprint(Transaction(s)) =
           [type |-> TypeSet[NameKey(s.type)], time |-> s.time, plate |-> Plate(s),
            transponder |-> Transponder(s), amount |-> Canonical(Decimal(s.amount)),
            currency |-> Currency(s)]
BY DEF Fingerprint, Transaction

\* Two accepted submissions have the same fingerprint exactly when nothing that
\* is billed differs.
LEMMA SameFingerprint ==
  ASSUME NEW pair \in Pairs, NEW s, NEW t, s = pair[1], t = pair[2], Passes(s), Passes(t)
  PROVE  Fingerprint(Transaction(s)) = Fingerprint(Transaction(t))
           <=> /\ s.type.word = t.type.word
               /\ s.time = t.time
               /\ Plate(s) = Plate(t) /\ Transponder(s) = Transponder(t)
               /\ Currency(s) = Currency(t)
               /\ SameMoney(s, t)
<1>1. s.amount \in Amounts /\ t.amount \in Amounts
  BY SubmissionTyped DEF Submissions
<1>2. Canonical(Decimal(s.amount)) = Canonical(Decimal(t.amount)) <=> SameMoney(s, t)
  BY <1>1, DecimalTyped, CanonicalSame DEF SameMoney, SameValue
<1>3. s.type.word \in DOMAIN TypeSet /\ t.type.word \in DOMAIN TypeSet
  BY PassedEveryCheck DEF TypeProblem, NoProblem, NameKey
<1>4. TypeSet[s.type.word] = TypeSet[t.type.word] <=> s.type.word = t.type.word
  BY <1>3, TypeSetNames
<1>5. Fingerprint(Transaction(s)) = Fingerprint(Transaction(t))
        <=> /\ TypeSet[s.type.word] = TypeSet[t.type.word]
            /\ s.time = t.time
            /\ Plate(s) = Plate(t) /\ Transponder(s) = Transponder(t)
            /\ Canonical(Decimal(s.amount)) = Canonical(Decimal(t.amount))
            /\ Currency(s) = Currency(t)
  <2>. DEFINE fields(x) ==
                [type |-> TypeSet[NameKey(x.type)], time |-> x.time, plate |-> Plate(x),
                 transponder |-> Transponder(x), amount |-> Canonical(Decimal(x.amount)),
                 currency |-> Currency(x)]
  <2>1. Fingerprint(Transaction(s)) = fields(s) /\ Fingerprint(Transaction(t)) = fields(t)
    BY FingerprintFields
  <2>2. fields(s) = fields(t)
          <=> /\ TypeSet[s.type.word] = TypeSet[t.type.word]
              /\ s.time = t.time
              /\ Plate(s) = Plate(t) /\ Transponder(s) = Transponder(t)
              /\ Canonical(Decimal(s.amount)) = Canonical(Decimal(t.amount))
              /\ Currency(s) = Currency(t)
    BY DEF NameKey
  <2>. QED
    BY <2>1, <2>2
<1>. QED
  BY <1>2, <1>4, <1>5

-----------------------------------------------------------------------------
(* The properties                                                          *)

\* Before the first push there is neither row nor answer.
LEMMA RulesInit == Init => RulesOK
<1>1. "tx" \notin DOMAIN NoOutcome
  BY DEF NoOutcome
<1>2. <<NotYet, NotYet>> = <<<<NotYet, NotYet>>[1], <<NotYet, NotYet>>[2]>>
  OBVIOUS
<1>. QED
  BY <1>1, <1>2 DEF Init, RulesOK

\* A push that passes makes the row, and a replay reads it.
LEMMA RulesStep == RulesOK /\ [Next]_vars => RulesOK'
<1>. SUFFICES ASSUME RulesOK, [Next]_vars PROVE RulesOK'
  OBVIOUS
<1>. USE DEF RulesOK
<1>1. CASE PushFirst
  <2>1. verdict' = <<Accept(first), verdict[2]>> /\ UNCHANGED <<first, second, outcome>>
    BY <1>1 DEF PushFirst
  <2>2. CASE Passes(first)
    BY <1>1, <2>1, <2>2 DEF PushFirst
  <2>3. CASE ~Passes(first)
    BY <1>1, <2>1, <2>3 DEF PushFirst
  <2>. QED
    BY <2>2, <2>3
<1>2. CASE PushSecond
  <2>1. verdict' = <<verdict[1], Accept(second)>> /\ UNCHANGED <<first, second, row>> /\ row # NoRow
    BY <1>2 DEF PushSecond
  <2>2. CASE Passes(second)
    BY <1>2, <2>1, <2>2 DEF PushSecond
  <2>3. CASE ~Passes(second)
    BY <1>2, <2>1, <2>3 DEF PushSecond
  <2>. QED
    BY <2>2, <2>3
<1>3. CASE UNCHANGED vars
  BY <1>3 DEF vars
<1>. QED
  BY <1>1, <1>2, <1>3 DEF Next

\* Rows and answers come about as the code says.
THEOREM RulesCorrect == Spec => []RulesOK
BY RulesInit, RulesStep, PTL DEF Spec

\* What Accept lets through never fails a CHECK constraint of the table, so a
\* producer's mistake is a 400 and not a 500: every row has a matching key, of a
\* plate or of a transponder, and no amount is negative.
THEOREM RowsPassChecks == Spec => []AcceptedPassesChecks
<1>1. RulesOK => AcceptedPassesChecks
  <2>. SUFFICES ASSUME RulesOK, row # NoRow
                PROVE  /\ row.plate_number_key # NoRead \/ row.transponder_number_key # NoRead
                       /\ ~(row.base_amount.coefficient < 0)
    BY DEF AcceptedPassesChecks
  <2>1. Passes(first) /\ row = Row(Transaction(first))
    BY DEF RulesOK
  <2>2. Plate(first) # NoPlate \/ Transponder(first) # NoRead
    BY <2>1, PassedEveryCheck DEF IdentityProblem, NoProblem
  <2>3. row.plate_number_key = CanonicalRead(Plate(first).number)
        /\ row.transponder_number_key = CanonicalRead(Transponder(first))
        /\ row.base_amount = Decimal(first.amount)
    BY <2>1 DEF Row, Transaction
  <2>4. ~(Decimal(first.amount).coefficient < 0)
    BY <2>1, PassedEveryCheck DEF AmountProblem, NoProblem
  <2>. QED
    BY <2>2, <2>3, <2>4, KeptPlate, KeptTransponder
<1>. QED
  BY <1>1, RulesCorrect, PTL

\* A replay is shown what was accepted, and what is read back has the stored
\* fingerprint, as long as no producer's clock is finer than the column.
THEOREM ReadBackFaithful == Spec => [](WholeMicroseconds => ReadBackIsFaithful)
<1>1. RulesOK => (WholeMicroseconds => ReadBackIsFaithful)
  <2>. SUFFICES ASSUME RulesOK, WholeMicroseconds, "tx" \in DOMAIN outcome
                PROVE  /\ outcome.tx = verdict[1].tx
                       /\ Fingerprint(outcome.tx) = row.fingerprint
    BY DEF ReadBackIsFaithful
  <2>1. Passes(first) /\ verdict[1] = Accept(first) /\ row = Row(Transaction(first))
        /\ outcome.tx = ReadBack(row)
    BY DEF RulesOK
  <2>2. PICK pair \in Pairs : first = pair[1]
    BY DEF RulesOK
  <2>3. outcome.tx = Transaction(first)
    BY <2>1, <2>2, RoundTrip DEF WholeMicroseconds
  <2>4. verdict[1].tx = Transaction(first)
    BY <2>1, AcceptedTransaction
  <2>5. row.fingerprint = Fingerprint(Transaction(first))
    BY <2>1 DEF Row
  <2>. QED
    BY <2>3, <2>4, <2>5
<1>. QED
  BY <1>1, RulesCorrect, PTL

\* A submission is rejected exactly for what is wrong with it, and is told all
\* of it in one answer: Accept's five checks, made one after the other, find what
\* the contract's wording of each field calls a fault, the amount's grammar and
\* its sign included.
THEOREM EveryProblemReported == Spec => []ReportsEveryProblem
<1>1. RulesOK => ReportsEveryProblem
  <2>. SUFFICES ASSUME RulesOK, verdict[1] # NotYet
                PROVE  /\ ToSet(verdict[1].problems) = Faults(first)
                       /\ Len(verdict[1].problems) = Cardinality(Faults(first))
    BY DEF ReportsEveryProblem
  <2>1. verdict[1] = Accept(first)
    BY DEF RulesOK
  <2>2. first \in Submissions
    BY SubmissionTyped DEF RulesOK
  <2>3. verdict[1].problems = Problems(first)
    BY <2>1 DEF Accept, Passes
  <2>4. Lists(Problems(first), Faults(first))
    BY <2>2, ProblemsListed, FaultsAreProblems
  <2>. QED
    BY <2>3, <2>4 DEF Lists
<1>. QED
  BY <1>1, RulesCorrect, PTL

\* A replay is called divergent exactly when its billable content differs from
\* that of the accepted push.  This rests on the canonical decimal being the same
\* for two amounts exactly when their values are, and on the configured spelling
\* of a type telling its name.
THEOREM DivergenceIsDifference == Spec => []DivergentMeansDifferent
<1>1. RulesOK => DivergentMeansDifferent
  <2>. SUFFICES ASSUME RulesOK, "tx" \in DOMAIN outcome
                PROVE  outcome.divergent <=>
                         ~ /\ first.type.word = second.type.word
                           /\ first.time = second.time
                           /\ Plate(first) = Plate(second)
                           /\ Transponder(first) = Transponder(second)
                           /\ Currency(first) = Currency(second)
                           /\ SameMoney(first, second)
    BY DEF DivergentMeansDifferent
  <2>1. PICK pair \in Pairs : first = pair[1] /\ second = pair[2]
    BY DEF RulesOK
  <2>2. /\ Passes(first) /\ Passes(second)
        /\ row = Row(Transaction(first))
        /\ outcome = [divergent |-> row.fingerprint # Fingerprint(Transaction(second)),
                      tx |-> ReadBack(row)]
    BY DEF RulesOK
  <2>3. row.fingerprint = Fingerprint(Transaction(first))
    BY <2>2 DEF Row
  <2>4. outcome.divergent
          <=> Fingerprint(Transaction(first)) # Fingerprint(Transaction(second))
    BY <2>2, <2>3
  <2>. QED
    BY <2>1, <2>2, <2>4, SameFingerprint
<1>. QED
  BY <1>1, RulesCorrect, PTL

\* The event says of an accepted push what its fingerprint says, has the matching
\* keys of its row, and the amount at the minor units of its currency: it pads,
\* it never rounds, since Accept has bounded the decimal places.
THEOREM EventsAnnounceRows == Spec => []EventAnnouncesRow
<1>1. RulesOK => EventAnnouncesRow
  <2>. SUFFICES ASSUME RulesOK, row # NoRow
                PROVE  /\ EventContent(event) = row.fingerprint
                       /\ event.plate_number_key = row.plate_number_key
                       /\ event.transponder_number_key = row.transponder_number_key
                       /\ event.base_amount.places = Exponents[row.currency]
    BY DEF EventAnnouncesRow
  <2>. DEFINE s == first
              d == Decimal(s.amount)
              n == Exponents[Currency(s)]
              e == StringFixed(d, n)
  <2>1. PICK pair \in Pairs : s = pair[1]
    BY DEF RulesOK
  <2>2. /\ Passes(s)
        /\ row = Row(Transaction(s))
        /\ event = TransactionReceived(Transaction(s))
    BY DEF RulesOK
  <2>3. s \in Submissions /\ s.amount \in Amounts
    BY <2>1, SubmissionTyped DEF Submissions
  <2>4. Currency(s) \in DOMAIN Exponents /\ n \in Nat
    BY <2>2, PassedEveryCheck, ConfigurationAssumption DEF CurrencyProblem, NoProblem
  <2>5. d \in Decimals /\ d.places <= n
    <3>1. ~(DecimalPlaces(s.amount) > n)
      BY <2>2, PassedEveryCheck DEF AmountProblem, NoProblem
    <3>2. d \in Decimals /\ d.places = DecimalPlaces(s.amount)
      BY <2>3, DecimalTyped DEF Decimal
    <3>. QED
      BY <2>4, <3>1, <3>2 DEF Decimals
  <2>6. Canonical(e) = Canonical(d) /\ e.places = n
    BY <2>4, <2>5, PaddedSame
  <2>7. Plate(s) = [number |-> Plate(s).number, jurisdiction |-> Plate(s).jurisdiction]
    BY <2>3 DEF Submissions, Plate, NoPlate
  <2>. HIDE DEF s, d, n, e
  <2>8. /\ event.base_amount = e
        /\ row.currency = Currency(s)
        /\ event.plate_number_key = row.plate_number_key
        /\ event.transponder_number_key = row.transponder_number_key
    BY <2>2 DEF Row, TransactionReceived, Transaction, e, d, n
  <2>9. EventContent(event) =
          [type |-> TypeSet[NameKey(s.type)], time |-> s.time, plate |-> Plate(s),
           transponder |-> Transponder(s), amount |-> Canonical(e), currency |-> Currency(s)]
    BY <2>2, <2>7, <2>8 DEF EventContent, TransactionReceived, Transaction
  <2>10. row.fingerprint = Fingerprint(Transaction(s))
    BY <2>2 DEF Row
  <2>11. Fingerprint(Transaction(s)) =
           [type |-> TypeSet[NameKey(s.type)], time |-> s.time, plate |-> Plate(s),
            transponder |-> Transponder(s), amount |-> Canonical(d), currency |-> Currency(s)]
    BY FingerprintFields DEF d
  <2>. QED
    BY <2>6, <2>8, <2>9, <2>10, <2>11 DEF n
<1>. QED
  BY <1>1, RulesCorrect, PTL
=============================================================================
