----------------------------- MODULE LockoutProofs -----------------------------
(***************************************************************************)
(* For every number of requests and every maxfailure, LockoutBounded is an *)
(* invariant of BasicAuth, and BasicAuth implements PasswordCheck.         *)
(*                                                                         *)
(* A request that can still write a failure count back is worth the        *)
(* attempts that are left above it.  An answer to a wrong password uses up *)
(* one such request; the attempts it gives back to the others are all      *)
(* fewer.  The number of answers that can be had that way is a sum of      *)
(* binomial coefficients, and the sum is one.                              *)
(*                                                                         *)
(* Induction goes over sets of natural numbers that have a least element:  *)
(* the induction theorems of the library are about operators, and no       *)
(* prover instantiates those.                                              *)
(*                                                                         *)
(* The refinement maps every statement to a step of PasswordCheck or to    *)
(* none.  It needs the bound, and that the column is 0 only when no wrong  *)
(* password has been answered since (CountedInv).                          *)
(***************************************************************************)
EXTENDS BasicAuthProofs, FiniteSetTheorems, WellFoundedInduction

-----------------------------------------------------------------------------
(* Natural numbers and the factorial.                                      *)

\* A set of natural numbers that is not empty has a least element.
LEMMA LeastNat ==
    ASSUME NEW S \in SUBSET Nat, S # {}
    PROVE  \E n \in S : \A m \in S : n <= m
<1>1. PICK x \in S : \A y \in S : ~ (<<y, x>> \in OpToRel(<, Nat))
  BY NatLessThanWellFounded, WFMin
<1>2. \A y \in S : ~ (y < x)
  BY <1>1 DEF OpToRel
<1>3. QED
  BY <1>2

\* Induction over a set of natural numbers.
LEMMA NatInSet ==
    ASSUME NEW S, 0 \in S, \A n \in Nat : n \in S => n + 1 \in S
    PROVE  \A n \in Nat : n \in S
<1> SUFFICES ASSUME Nat \ S # {} PROVE FALSE
  OBVIOUS
<1>1. PICK n \in Nat \ S : \A m \in Nat \ S : n <= m
  BY LeastNat
<1>2. n - 1 \in Nat /\ n - 1 \in S
  BY <1>1
<1>3. QED
  BY <1>1, <1>2

\* f is the table of the factorials up to n.
Table(f, n) ==
    /\ f \in [0..n -> Nat \ {0}]
    /\ f[0] = 1
    /\ \A i \in 1..n : f[i] = i * f[i - 1]

\* Any two tables agree where both have a value.
LEMMA TablesAgree ==
    ASSUME NEW f, NEW g, NEW m \in Nat, NEW n \in Nat, Table(f, m), Table(g, n)
    PROVE  \A i \in 0..m : i \in 0..n => f[i] = g[i]
<1> DEFINE D == {i \in 0..m : i \in 0..n /\ f[i] # g[i]}
<1> SUFFICES ASSUME D # {} PROVE FALSE
  OBVIOUS
<1>0. D \in SUBSET Nat
  OBVIOUS
<1>1. PICK i \in D : \A j \in D : i <= j
  <2> HIDE DEF D
  <2>1. QED
    BY <1>0, LeastNat
<1>2. i # 0
  BY <1>1 DEF Table
<1>3. i \in 1..m /\ i \in 1..n /\ i - 1 \in 0..m /\ i - 1 \in 0..n /\ i - 1 \notin D
  BY <1>1, <1>2
<1>4. f[i - 1] = g[i - 1]
  BY <1>3
<1>5. f[i] = i * f[i - 1] /\ g[i] = i * g[i - 1]
  BY <1>3 DEF Table
<1>6. QED
  BY <1>1, <1>4, <1>5

\* There is a table up to every n.
LEMMA TableExists == \A n \in Nat : \E f : Table(f, n)
<1> DEFINE S == {n \in Nat : \E f : Table(f, n)}
<1>1. 0 \in S
  <2>1. Table([i \in 0..0 |-> 1], 0)
    BY DEF Table
  <2>2. QED
    BY <2>1
<1>2. ASSUME NEW n \in Nat, n \in S PROVE n + 1 \in S
  <2>1. PICK f : Table(f, n)
    BY <1>2
  <2> DEFINE g == [i \in 0..(n + 1) |-> IF i = n + 1 THEN (n + 1) * f[n] ELSE f[i]]
  <2>2. f[n] \in Nat \ {0} /\ (n + 1) * f[n] \in Nat \ {0}
    BY <2>1 DEF Table
  <2>3. g \in [0..(n + 1) -> Nat \ {0}]
    BY <2>1, <2>2 DEF Table
  <2>4. g[0] = 1
    BY <2>1 DEF Table
  <2>5. ASSUME NEW i \in 1..(n + 1) PROVE g[i] = i * g[i - 1]
    <3>1. CASE i = n + 1
      BY <3>1
    <3>2. CASE i # n + 1
      <4>1. i \in 1..n /\ i - 1 \in 0..n
        BY <3>2
      <4>2. g[i] = f[i] /\ g[i - 1] = f[i - 1]
        BY <4>1
      <4>3. QED
        BY <2>1, <4>1, <4>2 DEF Table
    <3>3. QED
      BY <3>1, <3>2
  <2>6. Table(g, n + 1)
    BY <2>3, <2>4, <2>5 DEF Table
  <2>7. QED
    BY <2>6
<1>3. \A n \in Nat : n \in S
  <2> HIDE DEF S
  <2>1. QED
    BY <1>1, <1>2, NatInSet
<1>4. QED
  BY <1>3

\* The recursive definition of factorial defines a function.
LEMMA Factorial ==
    /\ factorial \in [Nat -> Nat \ {0}]
    /\ factorial[0] = 1
    /\ \A n \in Nat : factorial[n + 1] = (n + 1) * factorial[n]
<1> DEFINE t(n) == CHOOSE f : Table(f, n)
           F == [n \in Nat |-> t(n)[n]]
<1>1. \A n \in Nat : Table(t(n), n)
  BY TableExists
<1> HIDE DEF t
<1>2. F \in [Nat -> Nat \ {0}] /\ F[0] = 1
  BY <1>1 DEF Table
<1>3. ASSUME NEW n \in Nat PROVE F[n + 1] = (n + 1) * F[n]
  <2>1. Table(t(n), n) /\ Table(t(n + 1), n + 1)
    BY <1>1
  <2>2. t(n + 1)[n + 1] = (n + 1) * t(n + 1)[n]
    <3>1. n + 1 \in 1..(n + 1) /\ (n + 1) - 1 = n
      OBVIOUS
    <3>2. QED
      BY <2>1, <3>1 DEF Table
  <2>3. t(n)[n] = t(n + 1)[n]
    BY <2>1, TablesAgree
  <2>4. QED
    BY <2>2, <2>3
<1>4. F = [n \in Nat |-> IF n = 0 THEN 1 ELSE n * F[n - 1]]
  <2>1. ASSUME NEW n \in Nat PROVE F[n] = IF n = 0 THEN 1 ELSE n * F[n - 1]
    <3>1. CASE n = 0
      BY <1>2, <3>1
    <3>2. CASE n # 0
      <4>1. n - 1 \in Nat /\ (n - 1) + 1 = n
        BY <3>2
      <4>2. F[n] = n * F[n - 1]
        BY <1>3, <4>1
      <4>3. QED
        BY <3>2, <4>2
    <3>3. QED
      BY <3>1, <3>2
  <2> HIDE DEF F
  <2>2. F = [n \in Nat |-> F[n]]
    BY <1>2
  <2>3. QED
    BY <2>1, <2>2
<1> HIDE DEF F
<1>5. factorial = [n \in Nat |-> IF n = 0 THEN 1 ELSE n * factorial[n - 1]]
  BY <1>4 DEF factorial
<1>6. factorial[0] = 1 /\ \A n \in Nat : factorial[n + 1] = (n + 1) * factorial[n]
  <2>1. factorial[0] = 1
    BY <1>5
  <2>2. ASSUME NEW n \in Nat PROVE factorial[n + 1] = (n + 1) * factorial[n]
    <3>1. n + 1 \in Nat /\ n + 1 # 0 /\ (n + 1) - 1 = n
      OBVIOUS
    <3>2. QED
      BY <1>5, <3>1
  <2>3. QED
    BY <2>1, <2>2
<1>7. \A n \in Nat : factorial[n] \in Nat \ {0}
  <2> DEFINE S == {n \in Nat : factorial[n] \in Nat \ {0}}
  <2>1. 0 \in S
    BY <1>6
  <2>2. ASSUME NEW n \in Nat, n \in S PROVE n + 1 \in S
    <3>1. (n + 1) * factorial[n] \in Nat \ {0}
      BY <2>2
    <3>2. QED
      BY <1>6, <3>1
  <2>3. QED
    BY <2>1, <2>2, NatInSet
<1>8. QED
  BY <1>5, <1>6, <1>7

\* Exact division.
LEMMA DivExact ==
    ASSUME NEW c \in Nat, NEW m \in Nat \ {0}
    PROVE  (c * m) \div m = c
  OBVIOUS

\* Rearranged products.
LEMMA Products ==
    ASSUME NEW a \in Nat, NEW c \in Nat, NEW x \in Nat, NEW y \in Nat
    PROVE  /\ a * (c * (x * y)) = c * ((a * x) * y)
           /\ a * (c * (x * y)) = c * (x * (a * y))
           /\ c * (x * y) = c * (y * x)
  OBVIOUS

LEMMA Distributes ==
    ASSUME NEW a \in Nat, NEW b \in Nat, NEW x \in Nat
    PROVE  (a + b) * x = a * x + b * x
  OBVIOUS

LEMMA PositiveProduct ==
    ASSUME NEW a \in Nat \ {0}, NEW b \in Nat \ {0}
    PROVE  a * b \in Nat \ {0}
  OBVIOUS

LEMMA Cancel ==
    ASSUME NEW a \in Nat, NEW b \in Nat, NEW m \in Nat \ {0}, a * m = b * m
    PROVE  a = b
  OBVIOUS

\* The binomial coefficient of k and v: the ways to choose k of k + v.
Ways(k, v) == choose(k + v, k)

\* The divisions in its definition are exact.
LEMMA WaysIsQuotient ==
    ASSUME NEW k \in Nat, NEW v \in Nat, NEW c \in Nat,
           factorial[k + v] = c * (factorial[k] * factorial[v])
    PROVE  Ways(k, v) = c
<1>1. factorial[k] * factorial[v] \in Nat \ {0}
  BY Factorial, PositiveProduct
<1>2. (k + v) - k = v
  OBVIOUS
<1>3. Ways(k, v) = (c * (factorial[k] * factorial[v])) \div (factorial[k] * factorial[v])
  BY <1>2 DEF Ways, choose
<1>4. QED
  BY <1>1, <1>3, DivExact

\* Both arguments positive: one of the k + v + 2 is chosen or it is not.
LEMMA SumOfQuotients ==
    ASSUME NEW k \in Nat, NEW v \in Nat, NEW a \in Nat, NEW b \in Nat,
           factorial[k + (v + 1)] = a * (factorial[k] * factorial[v + 1]),
           factorial[(k + 1) + v] = b * (factorial[k + 1] * factorial[v])
    PROVE  factorial[(k + 1) + (v + 1)] = (a + b) * (factorial[k + 1] * factorial[v + 1])
<1> DEFINE n == k + v + 1
           x == factorial[k]
           y == factorial[v]
           p == factorial[k + 1] * factorial[v + 1]
<1>1. /\ x \in Nat /\ y \in Nat /\ p \in Nat /\ factorial[n] \in Nat
      /\ factorial[k + 1] \in Nat /\ factorial[v + 1] \in Nat
      /\ factorial[k + 1] = (k + 1) * x /\ factorial[v + 1] = (v + 1) * y
  <2>1. k + 1 \in Nat /\ v + 1 \in Nat /\ n \in Nat
    OBVIOUS
  <2>2. /\ x \in Nat /\ y \in Nat /\ factorial[n] \in Nat
        /\ factorial[k + 1] \in Nat /\ factorial[v + 1] \in Nat
    BY <2>1, Factorial
  <2>3. p \in Nat
    BY <2>2
  <2>4. factorial[k + 1] = (k + 1) * x /\ factorial[v + 1] = (v + 1) * y
    BY Factorial
  <2>5. QED
    BY <2>2, <2>3, <2>4
<1>2. k + (v + 1) = n /\ (k + 1) + v = n /\ (k + 1) + (v + 1) = n + 1 /\ n \in Nat
  OBVIOUS
<1>3. factorial[n + 1] = (n + 1) * factorial[n]
  BY <1>2, Factorial
<1>4. (k + 1) * factorial[n] = a * p
  <2>1. factorial[n] = a * (x * factorial[v + 1])
    BY <1>2
  <2>2. (k + 1) * (a * (x * factorial[v + 1])) = a * (((k + 1) * x) * factorial[v + 1])
    BY <1>1, Products
  <2>3. QED
    BY <1>1, <2>1, <2>2
<1>5. (v + 1) * factorial[n] = b * p
  <2>1. factorial[n] = b * (factorial[k + 1] * y)
    BY <1>2
  <2>2. (v + 1) * (b * (factorial[k + 1] * y)) = b * (factorial[k + 1] * ((v + 1) * y))
    BY <1>1, Products
  <2>3. QED
    BY <1>1, <2>1, <2>2
<1>6. (n + 1) * factorial[n] = (k + 1) * factorial[n] + (v + 1) * factorial[n]
  <2>1. n + 1 = (k + 1) + (v + 1) /\ k + 1 \in Nat /\ v + 1 \in Nat
    OBVIOUS
  <2>2. ((k + 1) + (v + 1)) * factorial[n] = (k + 1) * factorial[n] + (v + 1) * factorial[n]
    BY <1>1, <2>1, Distributes
  <2>3. QED
    BY <2>1, <2>2
<1>7. (a + b) * p = a * p + b * p
  BY <1>1, Distributes
<1>8. QED
  BY <1>2, <1>3, <1>4, <1>5, <1>6, <1>7

\* n! is a multiple of k! v! whenever k + v = n.
LEMMA QuotientExists ==
    ASSUME NEW k \in Nat, NEW v \in Nat
    PROVE  \E c \in Nat \ {0} : factorial[k + v] = c * (factorial[k] * factorial[v])
<1> DEFINE Q(i, j) == \E c \in Nat \ {0} : factorial[i + j] = c * (factorial[i] * factorial[j])
           S == {n \in Nat : \A i, j \in Nat : i + j = n => Q(i, j)}
<1>1. ASSUME NEW i \in Nat, NEW j \in Nat, i = 0 \/ j = 0
      PROVE  Q(i, j)
  <2>1. factorial[0] = 1 /\ factorial[i] \in Nat /\ factorial[j] \in Nat
    BY Factorial
  <2>2. factorial[i + j] = 1 * (factorial[i] * factorial[j])
    BY <1>1, <2>1
  <2>3. QED
    BY <2>2
<1>2. 0 \in S
  <2>1. \A i, j \in Nat : i + j = 0 => i = 0
    OBVIOUS
  <2> HIDE DEF Q
  <2>2. QED
    BY <1>1, <2>1
<1>3. ASSUME NEW n \in Nat, n \in S PROVE n + 1 \in S
  <2> SUFFICES ASSUME NEW i \in Nat, NEW j \in Nat, i + j = n + 1 PROVE Q(i, j)
    OBVIOUS
  <2>1. CASE i = 0 \/ j = 0
    BY <1>1, <2>1
  <2>2. CASE i # 0 /\ j # 0
    <3> DEFINE x == i - 1
               y == j - 1
    <3>1. x \in Nat /\ y \in Nat /\ i = x + 1 /\ j = y + 1 /\ x + j = n /\ i + y = n
      BY <2>2
    <3> HIDE DEF x, y
    <3>2. PICK a \in Nat \ {0} : factorial[x + j] = a * (factorial[x] * factorial[j])
      BY <1>3, <3>1
    <3>3. PICK b \in Nat \ {0} : factorial[i + y] = b * (factorial[i] * factorial[y])
      BY <1>3, <3>1
    <3>4. factorial[(x + 1) + (y + 1)] = (a + b) * (factorial[x + 1] * factorial[y + 1])
      BY <3>1, <3>2, <3>3, SumOfQuotients
    <3>5. a + b \in Nat \ {0} /\ factorial[i + j] = (a + b) * (factorial[i] * factorial[j])
      BY <3>1, <3>4
    <3>6. QED
      BY <3>5
  <2>3. QED
    BY <2>1, <2>2
<1>4. k + v \in Nat /\ \A n \in Nat : n \in S
  <2> HIDE DEF S
  <2>1. QED
    BY <1>2, <1>3, NatInSet
<1>5. QED
  BY <1>4

\* Pascal's triangle, and its symmetry.
LEMMA Pascal ==
    /\ \A k, v \in Nat : Ways(k, v) \in Nat \ {0} /\ Ways(k, v) = Ways(v, k)
    /\ \A k \in Nat : Ways(k, 0) = 1 /\ Ways(0, k) = 1
    /\ \A k, v \in Nat : Ways(k + 1, v + 1) = Ways(k, v + 1) + Ways(k + 1, v)
<1>1. ASSUME NEW k \in Nat, NEW v \in Nat
      PROVE  Ways(k, v) \in Nat \ {0} /\ Ways(k, v) = Ways(v, k)
  <2>1. PICK c \in Nat \ {0} : factorial[k + v] = c * (factorial[k] * factorial[v])
    BY QuotientExists
  <2>2. factorial[v + k] = c * (factorial[v] * factorial[k])
    <3>1. factorial[k] \in Nat /\ factorial[v] \in Nat
      BY Factorial
    <3>2. v + k = k + v
      OBVIOUS
    <3>3. c * (factorial[k] * factorial[v]) = c * (factorial[v] * factorial[k])
      BY <3>1, Products
    <3>4. QED
      BY <2>1, <3>2, <3>3
  <2>3. QED
    BY <2>1, <2>2, WaysIsQuotient
<1>2. ASSUME NEW k \in Nat PROVE Ways(k, 0) = 1 /\ Ways(0, k) = 1
  <2>1. factorial[k + 0] = 1 * (factorial[k] * factorial[0])
    BY Factorial
  <2>2. Ways(k, 0) = 1
    BY <2>1, WaysIsQuotient
  <2>3. QED
    BY <1>1, <2>2
<1>3. ASSUME NEW k \in Nat, NEW v \in Nat
      PROVE  Ways(k + 1, v + 1) = Ways(k, v + 1) + Ways(k + 1, v)
  <2>1. PICK a \in Nat \ {0} : factorial[k + (v + 1)] = a * (factorial[k] * factorial[v + 1])
    BY QuotientExists
  <2>2. PICK b \in Nat \ {0} : factorial[(k + 1) + v] = b * (factorial[k + 1] * factorial[v])
    BY QuotientExists
  <2>3. Ways(k, v + 1) = a /\ Ways(k + 1, v) = b
    BY <2>1, <2>2, WaysIsQuotient
  <2>4. Ways(k + 1, v + 1) = a + b
    BY <2>1, <2>2, SumOfQuotients, WaysIsQuotient
  <2>5. QED
    BY <2>3, <2>4
<1>4. QED
  BY <1>1, <1>2, <1>3

\* The coefficient grows with its first argument.
LEMMA WaysMonotone ==
    ASSUME NEW j \in Nat, NEW k \in Nat, NEW v \in Nat, j <= k
    PROVE  Ways(j, v) <= Ways(k, v)
<1> DEFINE S == {d \in Nat : Ways(j, v) <= Ways(j + d, v)}
<1>1. 0 \in S
  BY Pascal
<1>2. ASSUME NEW d \in Nat, d \in S PROVE d + 1 \in S
  <2>0. j + d \in Nat /\ (j + d) + 1 \in Nat
    OBVIOUS
  <2>1. Ways(j + d, v) <= Ways((j + d) + 1, v)
    <3>1. CASE v = 0
      BY <2>0, <3>1, Pascal
    <3>2. CASE v # 0
      <4>1. v - 1 \in Nat /\ v = (v - 1) + 1 /\ j + d \in Nat
        BY <3>2
      <4>2. Ways((j + d) + 1, v) = Ways(j + d, v) + Ways((j + d) + 1, v - 1)
        BY <2>0, <4>1, Pascal
      <4>3. Ways((j + d) + 1, v - 1) \in Nat /\ Ways(j + d, v) \in Nat
        BY <2>0, <4>1, Pascal
      <4>4. QED
        BY <4>2, <4>3
    <3>3. QED
      BY <3>1, <3>2
  <2>2. (j + d) + 1 = j + (d + 1) /\ j + d \in Nat /\ j + (d + 1) \in Nat
    OBVIOUS
  <2>3. Ways(j, v) \in Nat /\ Ways(j + d, v) \in Nat /\ Ways(j + (d + 1), v) \in Nat
    BY <2>2, Pascal
  <2>4. QED
    BY <1>2, <2>1, <2>2, <2>3
<1>3. k - j \in Nat /\ j + (k - j) = k
  OBVIOUS
<1>4. \A d \in Nat : d \in S
  <2> HIDE DEF S
  <2>1. QED
    BY <1>1, <1>2, NatInSet
<1>5. QED
  BY <1>3, <1>4

-----------------------------------------------------------------------------
(* What a level is worth.  level[v] is the number of requests with fewer   *)
(* than v attempts left; s[v] bounds the answers that were had of attempts *)
(* 1 to v.                                                                 *)

\* What k requests with fewer than v attempts left have used up at level v.
Share(k, v) == IF k = 0 THEN 0 ELSE Ways(k - 1, v)

Fits(s, level, top) ==
    /\ s \in [0..top -> Nat]
    /\ s[0] = 0
    /\ \A v \in 1..top : s[v] <= s[v - 1] + Share(level[v], v)

Rising(level, top) == \A v \in 1..top : level[v - 1] <= level[v]

\* A share is a number that grows with the requests; all shares up to v together
\* are a binomial coefficient.
LEMMA Shares ==
    ASSUME NEW k \in Nat, NEW v \in Nat \ {0}
    PROVE  /\ Share(k, v) \in Nat
           /\ Share(k + 1, v) = Ways(k, v)
           /\ Ways(k, v) = Ways(k, v - 1) + Share(k, v)
           /\ \A j \in 0..k : Share(j, v) <= Share(k, v)
<1>1. v - 1 \in Nat /\ v = (v - 1) + 1 /\ k + 1 # 0 /\ (k + 1) - 1 = k
  OBVIOUS
<1>2. Share(k, v) \in Nat /\ Share(k + 1, v) = Ways(k, v)
  BY <1>1, Pascal DEF Share
<1>3. Ways(k, v) = Ways(k, v - 1) + Share(k, v)
  <2>1. CASE k = 0
    BY <1>1, <2>1, Pascal DEF Share
  <2>2. CASE k # 0
    <3>1. k - 1 \in Nat /\ k = (k - 1) + 1
      BY <2>2
    <3>2. Ways(k, v) = Ways(k - 1, v) + Ways(k, v - 1)
      BY <1>1, <3>1, Pascal
    <3>3. Ways(k - 1, v) \in Nat /\ Ways(k, v - 1) \in Nat
      BY <1>1, <3>1, Pascal
    <3>4. QED
      BY <2>2, <3>2, <3>3 DEF Share
  <2>3. QED
    BY <2>1, <2>2
<1>4. ASSUME NEW j \in 0..k PROVE Share(j, v) <= Share(k, v)
  <2>1. CASE j = 0
    BY <1>2, <2>1 DEF Share
  <2>2. CASE j # 0
    <3>1. j - 1 \in Nat /\ k - 1 \in Nat /\ j - 1 <= k - 1 /\ k # 0
      BY <2>2
    <3>2. Ways(j - 1, v) <= Ways(k - 1, v)
      BY <3>1, WaysMonotone
    <3>3. QED
      BY <2>2, <3>1, <3>2 DEF Share
  <2>3. QED
    BY <2>1, <2>2
<1>5. QED
  BY <1>2, <1>3, <1>4

\* Whatever fits is less than the binomial coefficient of the level.
LEMMA FitsIsBounded ==
    ASSUME NEW top \in Nat, NEW level \in [0..top -> Nat], NEW s, Fits(s, level, top),
           Rising(level, top)
    PROVE  \A v \in 0..top : s[v] < Ways(level[v], v)
<1> DEFINE S == {v \in Nat : v \in 0..top => s[v] < Ways(level[v], v)}
<1>1. 0 \in S
  BY Pascal DEF Fits
<1>2. ASSUME NEW u \in Nat, u \in S PROVE u + 1 \in S
  <2> SUFFICES ASSUME u + 1 \in 0..top PROVE s[u + 1] < Ways(level[u + 1], u + 1)
    OBVIOUS
  <2>1. /\ u \in 0..top /\ u + 1 \in 1..top /\ (u + 1) - 1 = u /\ u + 1 \in Nat \ {0}
        /\ s[u] \in Nat /\ s[u + 1] \in Nat /\ level[u] \in Nat /\ level[u + 1] \in Nat
    BY DEF Fits
  <2>2. s[u + 1] <= s[u] + Share(level[u + 1], u + 1)
    BY <2>1 DEF Fits
  <2>3. s[u] < Ways(level[u], u)
    BY <1>2, <2>1
  <2>4. Ways(level[u], u) <= Ways(level[u + 1], u)
    <3>1. level[u] <= level[u + 1]
      BY <2>1 DEF Rising
    <3>2. QED
      BY <2>1, <3>1, WaysMonotone
  <2>5. Ways(level[u + 1], u + 1) = Ways(level[u + 1], u) + Share(level[u + 1], u + 1)
    BY <2>1, Shares
  <2>6. /\ Ways(level[u], u) \in Nat /\ Ways(level[u + 1], u) \in Nat
        /\ Share(level[u + 1], u + 1) \in Nat
    BY <2>1, Pascal, Shares
  <2>7. QED
    BY <2>1, <2>2, <2>3, <2>4, <2>5, <2>6
<1>3. \A v \in Nat : v \in S
  <2> HIDE DEF S
  <2>1. QED
    BY <1>1, <1>2, NatInSet
<1>4. QED
  BY <1>3

\* Nothing used up fits every level.
LEMMA ZeroFits ==
    ASSUME NEW top \in Nat, NEW level \in [0..top -> Nat]
    PROVE  Fits([v \in 0..top |-> 0], level, top)
<1>1. ASSUME NEW v \in 1..top PROVE Share(level[v], v) \in Nat
  <2>1. v \in Nat \ {0} /\ level[v] \in Nat
    OBVIOUS
  <2>2. QED
    BY <2>1, Shares
<1>2. QED
  BY <1>1 DEF Fits

\* What fits a level fits a greater one.
LEMMA GreaterFits ==
    ASSUME NEW top \in Nat, NEW level \in [0..top -> Nat], NEW later \in [0..top -> Nat],
           NEW s, Fits(s, level, top), \A v \in 0..top : level[v] <= later[v]
    PROVE  Fits(s, later, top)
<1>1. ASSUME NEW v \in 1..top PROVE s[v] <= s[v - 1] + Share(later[v], v)
  <2>1. v \in Nat \ {0} /\ v \in 0..top /\ v - 1 \in 0..top
    OBVIOUS
  <2>2. level[v] \in 0..later[v] /\ later[v] \in Nat
    BY <2>1
  <2>3. Share(level[v], v) <= Share(later[v], v)
    BY <2>1, <2>2, Shares
  <2>4. Share(level[v], v) \in Nat /\ Share(later[v], v) \in Nat
    BY <2>1, <2>2, Shares
  <2>5. s[v] <= s[v - 1] + Share(level[v], v) /\ s[v] \in Nat /\ s[v - 1] \in Nat
    BY <2>1 DEF Fits
  <2>6. QED
    BY <2>3, <2>4, <2>5
<1>2. QED
  BY <1>1 DEF Fits

\* One request more at level at, none fewer above, anything below: that is worth
\* one answer.
LEMMA OneMoreFits ==
    ASSUME NEW top \in Nat, NEW level \in [0..top -> Nat], NEW later \in [0..top -> Nat],
           NEW s, Fits(s, level, top), Rising(level, top),
           NEW at \in 1..top, level[at] < later[at],
           \A v \in at..top : level[v] <= later[v]
    PROVE  \E t : Fits(t, later, top) /\ t[top] = s[top] + 1
<1> DEFINE t == [v \in 0..top |-> IF v < at THEN 0 ELSE s[v] + 1]
<1>1. t \in [0..top -> Nat] /\ t[0] = 0 /\ t[top] = s[top] + 1
  <2>1. 0 \in 0..top /\ top \in 0..top /\ 0 < at /\ ~ (top < at)
    OBVIOUS
  <2>2. ASSUME NEW v \in 0..top PROVE s[v] \in Nat /\ s[v] + 1 \in Nat
    <3>1. s[v] \in Nat
      BY DEF Fits
    <3>2. QED
      BY <3>1
  <2>3. t \in [0..top -> Nat]
    BY <2>2
  <2>4. QED
    BY <2>1, <2>3
<1>2. ASSUME NEW v \in 1..top PROVE t[v] <= t[v - 1] + Share(later[v], v)
  <2>1. v \in Nat \ {0} /\ v \in 0..top /\ v - 1 \in 0..top /\ level[v] \in Nat /\ later[v] \in Nat
    OBVIOUS
  <2>2. /\ Share(level[v], v) \in Nat /\ Share(later[v], v) \in Nat
        /\ s[v] \in Nat /\ s[v - 1] \in Nat
    BY <2>1, Shares DEF Fits
  <2>3. CASE v < at
    BY <1>1, <2>1, <2>2, <2>3
  <2>4. CASE v = at
    <3>1. s[v] < Ways(level[v], v)
      BY <2>1, FitsIsBounded
    <3>2. later[v] - 1 \in Nat /\ level[v] <= later[v] - 1 /\ (later[v] - 1) + 1 = later[v]
      BY <2>1, <2>4
    <3>3. Ways(level[v], v) <= Ways(later[v] - 1, v)
      BY <2>1, <3>2, WaysMonotone
    <3>4. Share(later[v], v) = Ways(later[v] - 1, v)
      <4>1. Share((later[v] - 1) + 1, v) = Ways(later[v] - 1, v)
        BY <2>1, <3>2, Shares
      <4>2. QED
        BY <3>2, <4>1
    <3>5. Ways(level[v], v) \in Nat
      BY <2>1, Pascal
    <3>6. t[v] = s[v] + 1 /\ t[v - 1] = 0
      BY <2>1, <2>4
    <3>7. Ways(later[v] - 1, v) \in Nat
      BY <2>1, <3>2, Pascal
    <3>8. s[v] + 1 <= 0 + Share(later[v], v)
      BY <2>2, <3>1, <3>3, <3>4, <3>5, <3>7
    <3>9. QED
      BY <3>6, <3>8
  <2>5. CASE v > at
    <3>1. level[v] \in 0..later[v]
      BY <2>1, <2>5
    <3>2. Share(level[v], v) <= Share(later[v], v)
      BY <2>1, <3>1, Shares
    <3>3. s[v] <= s[v - 1] + Share(level[v], v)
      BY DEF Fits
    <3>4. t[v] = s[v] + 1 /\ t[v - 1] = s[v - 1] + 1
      BY <2>1, <2>5
    <3>5. s[v] + 1 <= (s[v - 1] + 1) + Share(later[v], v)
      <4>1. \A a, b, x, y \in Nat : x <= y /\ a <= b + x => a + 1 <= (b + 1) + y
        OBVIOUS
      <4>2. QED
        BY <2>2, <3>2, <3>3, <4>1
    <3>6. QED
      BY <3>4, <3>5
  <2>6. QED
    BY <2>1, <2>3, <2>4, <2>5
<1>3. Fits(t, later, top)
  BY <1>1, <1>2 DEF Fits
<1>4. QED
  BY <1>1, <1>3

-----------------------------------------------------------------------------
(* The account.                                                            *)

Top == MaxFailure + 1

\* The count r goes on from: the one it is about to write back plus one, or the
\* column, which it would read.
Held(r) ==
    IF At(r, "miss") /\ loc[r].read.count < row.count THEN loc[r].read.count ELSE row.count

\* The requests with fewer than v attempts left.
Spent(v) == {r \in Requests : Held(r) + v > Top}

Levels == [v \in 0..Top |-> Cardinality(Spent(v))]

LockoutInv == \E s : Fits(s, Levels, Top) /\ misses <= s[Top]

\* Nobody goes on from more than the column says, or than it has read.
LEMMA HeldType ==
    TypeOK => \A r \in Requests : /\ Held(r) \in Nat /\ Held(r) <= row.count
                                  /\ At(r, "miss") => Held(r) <= loc[r].read.count
<1> SUFFICES ASSUME TypeOK, NEW r \in Requests
             PROVE  /\ Held(r) \in Nat /\ Held(r) <= row.count
                    /\ At(r, "miss") => Held(r) <= loc[r].read.count
  OBVIOUS
<1>1. row.count \in Nat /\ loc[r].read.count \in Nat
  BY DEF TypeOK, Rows, Locals
<1>2. QED
  BY <1>1 DEF Held

\* The levels are numbers of requests, and rise.
LEMMA LevelsType ==
    TypeOK => /\ Levels \in [0..Top -> Nat] /\ Rising(Levels, Top) /\ Top \in Nat
              /\ \A v \in 0..Top : IsFiniteSet(Spent(v)) /\ Levels[v] <= Cardinality(Requests)
<1> SUFFICES ASSUME TypeOK
             PROVE  /\ Levels \in [0..Top -> Nat] /\ Rising(Levels, Top) /\ Top \in Nat
                    /\ \A v \in 0..Top :
                         IsFiniteSet(Spent(v)) /\ Levels[v] <= Cardinality(Requests)
  OBVIOUS
<1>1. Top \in Nat
  BY FailureNat DEF Top
<1>2. ASSUME NEW v \in 0..Top
      PROVE  /\ IsFiniteSet(Spent(v)) /\ Cardinality(Spent(v)) \in Nat
             /\ Cardinality(Spent(v)) <= Cardinality(Requests)
  <2>1. Spent(v) \subseteq Requests
    BY DEF Spent
  <2>2. QED
    BY <2>1, RequestsFinite, FS_Subset, FS_CardinalityType
<1>3. Levels \in [0..Top -> Nat]
  BY <1>2 DEF Levels
<1>4. ASSUME NEW v \in 1..Top PROVE Levels[v - 1] <= Levels[v]
  <2>1. v - 1 \in 0..Top /\ v \in 0..Top
    BY <1>1
  <2>2. Spent(v - 1) \subseteq Spent(v)
    BY <1>1, <2>1, HeldType DEF Spent
  <2>3. Cardinality(Spent(v - 1)) <= Cardinality(Spent(v))
    BY <1>2, <2>1, <2>2, FS_Subset
  <2>4. QED
    BY <2>1, <2>3 DEF Levels
<1>5. QED
  BY <1>1, <1>2, <1>3, <1>4 DEF Levels, Rising

\* The bound on the answers is what the levels leave room for.
LEMMA LockoutHolds == TypeOK /\ LockoutInv => LockoutBounded
<1> SUFFICES ASSUME TypeOK, LockoutInv PROVE LockoutBounded
  OBVIOUS
<1> DEFINE n == Cardinality(Requests)
<1>1. PICK s : Fits(s, Levels, Top) /\ misses <= s[Top]
  BY DEF LockoutInv
<1>2. Top \in Nat /\ Top \in 0..Top /\ n \in Nat /\ misses \in Nat
  BY LevelsType, RequestsFinite, FS_CardinalityType DEF TypeOK
<1>3. s[Top] < Ways(Levels[Top], Top)
  BY <1>1, <1>2, LevelsType, FitsIsBounded
<1>4. Levels[Top] \in Nat /\ Levels[Top] <= n
  BY <1>2, LevelsType
<1>5. Ways(Levels[Top], Top) <= Ways(n, Top)
  BY <1>2, <1>4, WaysMonotone
<1>6. /\ Ways(Levels[Top], Top) \in Nat /\ Ways(n, Top) \in Nat
      /\ s[Top] \in Nat
  BY <1>1, <1>2, <1>4, Pascal DEF Fits
<1>7. Ways(n, Top) = choose(n + MaxFailure + 1, n)
  <2>1. n + Top = n + MaxFailure + 1
    BY <1>2, FailureNat DEF Top
  <2>2. QED
    BY <2>1 DEF Ways
<1>8. misses < Ways(n, Top)
  BY <1>1, <1>2, <1>3, <1>5, <1>6
<1>9. QED
  BY <1>7, <1>8 DEF LockoutBounded

\* More requests are spent: the level is higher.
LEMMA LevelsGrow ==
    ASSUME TypeOK, TypeOK', NEW v \in 0..Top, Spent(v) \subseteq Spent(v)'
    PROVE  /\ Levels[v] <= Levels'[v]
           /\ Spent(v) # Spent(v)' => Levels[v] < Levels'[v]
<1>1. IsFiniteSet(Spent(v)) /\ IsFiniteSet(Spent(v)')
  <2>1. Spent(v) \subseteq Requests /\ Spent(v)' \subseteq Requests
    BY DEF Spent
  <2>2. QED
    BY <2>1, RequestsFinite, FS_Subset
<1>2. /\ Cardinality(Spent(v)) <= Cardinality(Spent(v)')
      /\ Cardinality(Spent(v)') = Cardinality(Spent(v)) => Spent(v)' = Spent(v)
  BY <1>1, FS_Subset
<1>3. Cardinality(Spent(v)) \in Nat /\ Cardinality(Spent(v)') \in Nat
  BY <1>1, FS_CardinalityType
<1>4. Levels[v] = Cardinality(Spent(v)) /\ Levels'[v] = Cardinality(Spent(v)')
  BY DEF Levels, Top
<1>5. QED
  BY <1>2, <1>3, <1>4

\* The same in the next state.
LEMMA HeldTypeNext == TypeOK' => \A r \in Requests : Held(r)' \in Nat
<1>1. (TypeOK => \A r \in Requests : Held(r) \in Nat)'
  <2>1. TypeOK => \A r \in Requests : Held(r) \in Nat
    BY HeldType
  <2>2. QED
    BY <2>1, PTL
<1>2. QED
  BY <1>1

LEMMA LevelsTypeNext ==
    TypeOK' => Levels' \in [0..Top -> Nat] /\ Rising(Levels', Top)
<1>1. (TypeOK => Levels \in [0..Top -> Nat] /\ Rising(Levels, Top))'
  <2>1. TypeOK => Levels \in [0..Top -> Nat] /\ Rising(Levels, Top)
    BY LevelsType
  <2>2. QED
    BY <2>1, PTL
<1>2. QED
  BY <1>1 DEF Top, Rising

\* Nobody answers, and nobody goes on from less than before.
LEMMA QuietStep ==
    ASSUME TypeOK, TypeOK', LockoutInv, misses' = misses,
           \A r \in Requests : Held(r) <= Held(r)'
    PROVE  LockoutInv'
<1>1. PICK s : Fits(s, Levels, Top) /\ misses <= s[Top]
  BY DEF LockoutInv
<1>2. ASSUME NEW v \in 0..Top PROVE Levels[v] <= Levels'[v]
  <2>1. /\ \A r \in Requests : Held(r) \in Nat
        /\ \A r \in Requests : Held(r)' \in Nat
    BY HeldType, HeldTypeNext
  <2>2. Spent(v) \subseteq Spent(v)'
    BY <2>1, FailureNat DEF Spent, Top
  <2>3. QED
    BY <2>2, LevelsGrow
<1>3. Fits(s, Levels', Top)
  BY <1>1, <1>2, LevelsType, LevelsTypeNext, GreaterFits
<1>4. QED
  BY <1>1, <1>3 DEF LockoutInv, Fits, Top

\* The count starts again.
LEMMA ForgivingStep ==
    ASSUME TypeOK', misses' = 0
    PROVE  LockoutInv'
<1>1. Top \in Nat
  BY FailureNat DEF Top
<1>2. Fits([v \in 0..Top |-> 0], Levels', Top)
  BY <1>1, LevelsTypeNext, ZeroFits
<1>3. PICK s : Fits(s, Levels', Top) /\ s = [v \in 0..Top |-> 0]
  BY <1>2
<1>4. misses' <= s[Top]
  BY <1>1, <1>3
<1>5. QED
  BY <1>3, <1>4 DEF LockoutInv, Fits, Top

\* r writes a failure back and is free again; that is worth one answer.
LEMMA MissingStep ==
    ASSUME TypeOK, TypeOK', LockoutInv, NEW r \in Requests, At(r, "miss"),
           loc[r].read.count <= MaxFailure,
           row'.count = loc[r].read.count + 1, ~ At(r, "miss")',
           \A q \in Requests \ {r} : pc'[q] = pc[q] /\ loc'[q] = loc[q],
           misses' <= misses + 1
    PROVE  LockoutInv'
<1>1. PICK s : Fits(s, Levels, Top) /\ misses <= s[Top]
  BY DEF LockoutInv
<1>2. /\ \A q \in Requests : Held(q) \in Nat /\ (At(q, "miss") => Held(q) <= loc[q].read.count)
      /\ \A q \in Requests : loc[q].read.count \in Nat
      /\ misses \in Nat /\ misses' \in Nat
  BY HeldType DEF TypeOK, Locals, Rows
<1>3. /\ Top \in Nat /\ Held(r) <= loc[r].read.count
      /\ Top - Held(r) \in 1..Top
  BY <1>2, FailureNat DEF Top
<1>4. PICK v0 \in 1..Top : v0 = Top - Held(r)
  BY <1>3
<1>5. Held(r)' = loc[r].read.count + 1
  BY DEF Held
<1>6. ASSUME NEW q \in Requests \ {r}, NEW w \in Nat, w <= Held(r), w < Held(q)
      PROVE  w < Held(q)'
  <2>1. \/ Held(q)' = loc[r].read.count + 1
        \/ At(q, "miss") /\ Held(q)' = loc[q].read.count
    BY DEF Held, At
  <2>2. QED
    BY <1>2, <1>3, <1>6, <2>1
<1>7. ASSUME NEW v \in v0..Top PROVE Spent(v) \subseteq Spent(v)'
  <2>1. SUFFICES ASSUME NEW q \in Requests, Held(q) + v > Top
                 PROVE  Held(q)' + v > Top
    BY DEF Spent, Top
  <2> DEFINE w == Top - v
  <2>2. w \in Nat /\ w <= Held(r) /\ w < Held(q) /\ v \in Nat
    BY <1>4, <1>2, <1>3, <2>1
  <2>3. w < Held(q)'
    <3>1. CASE q = r
      BY <1>2, <1>3, <1>5, <2>2, <3>1
    <3>2. CASE q # r
      <4> HIDE DEF w
      <4>1. QED
        BY <1>6, <2>2, <3>2
    <3>3. QED
      BY <3>1, <3>2
  <2>4. Held(q)' \in Nat
    BY HeldTypeNext
  <2>5. QED
    BY <1>3, <2>2, <2>3, <2>4
<1>8. r \notin Spent(v0) /\ r \in Spent(v0)'
  <2>1. ~ (Held(r) + v0 > Top) /\ Held(r)' + v0 > Top
    BY <1>4, <1>2, <1>3, <1>5
  <2>2. QED
    BY <2>1 DEF Spent, Top
<1>9. \A v \in v0..Top : Levels[v] <= Levels'[v]
  BY <1>3, <1>7, LevelsGrow
<1>10. Levels[v0] < Levels'[v0]
  <2>1. v0 \in v0..Top /\ v0 \in 0..Top
    BY <1>3
  <2>2. Spent(v0) \subseteq Spent(v0)' /\ Spent(v0) # Spent(v0)'
    BY <1>7, <1>8, <2>1
  <2>3. QED
    BY <2>1, <2>2, LevelsGrow
<1>11. PICK t : Fits(t, Levels', Top) /\ t[Top] = s[Top] + 1
  BY <1>1, <1>3, <1>9, <1>10, LevelsType, LevelsTypeNext, OneMoreFits
<1>12. misses' <= t[Top]
  <2>1. s[Top] \in Nat
    BY <1>1, <1>3 DEF Fits
  <2>2. QED
    BY <1>1, <1>2, <1>11, <2>1
<1>13. \E x : Fits(x, Levels', Top) /\ misses' <= x[Top]
  BY <1>11, <1>12
<1>14. QED
  BY <1>13 DEF LockoutInv, Fits, Top

\* The column stays, and r has read nothing smaller.
LEMMA ReadingStep ==
    ASSUME TypeOK, TypeOK', LockoutInv, NEW r \in Requests,
           row' = row, misses' = misses,
           \A q \in Requests \ {r} : pc'[q] = pc[q] /\ loc'[q] = loc[q],
           pc'[r] = "miss" => loc'[r].read = row
    PROVE  LockoutInv'
<1>1. ASSUME NEW q \in Requests PROVE Held(q) <= Held(q)'
  <2>1. Held(q) \in Nat /\ Held(q) <= row.count /\ row.count \in Nat
    BY HeldType DEF TypeOK, Rows
  <2>2. CASE q = r
    <3>1. Held(r)' = row.count
      BY <2>1 DEF Held, At
    <3>2. QED
      BY <2>1, <2>2, <3>1
  <2>3. CASE q # r
    <3>1. Held(q)' = Held(q)
      BY <2>3 DEF Held, At
    <3>2. QED
      BY <2>1, <3>1
  <2>4. QED
    BY <2>2, <2>3
<1>2. QED
  BY <1>1, QuietStep

\* What a wrong password does.
LEMMA MissLockout ==
    ASSUME IInv, TypeOK', LockoutInv, NEW r \in Requests, Miss(r)
    PROVE  LockoutInv'
<1>1. /\ TypeOK /\ StepOK(r) /\ At(r, "miss") /\ loc[r].read.count <= MaxFailure
      /\ loc[r].read \in Rows
  BY MissShape DEF IInv, CountInv, Miss, TypeOK, Locals
<1>2. \A q \in Requests \ {r} : pc'[q] = pc[q] /\ loc'[q] = loc[q]
  BY <1>1 DEF StepOK
<1>3. pc'[r] # "miss"
  BY <1>1, GotoOwn DEF Miss, Update, UpdateFails
<1>4. CASE row' = Stored(Missed(r))
  <2>1. row'.count = loc[r].read.count + 1
    BY <1>1, <1>4 DEF Stored, Missed, Rows
  <2>2. misses' <= misses + 1
    BY <1>1 DEF Miss, TypeOK
  <2>3. QED
    BY <1>1, <1>2, <1>3, <2>1, <2>2, MissingStep DEF At
<1>5. CASE row' = row /\ misses' = misses
  BY <1>1, <1>2, <1>3, <1>5, ReadingStep
<1>6. QED
  BY <1>4, <1>5 DEF Miss, Update, UpdateFails

\* What the UPDATEs that set the count to 0 do, executed or not.
LEMMA ForgivingLockout ==
    ASSUME IInv, TypeOK', LockoutInv, NEW r \in Requests,
           Hit(r) \/ Store(r) \/ ResetStore(r)
    PROVE  LockoutInv'
<1>1. TypeOK /\ StepOK(r) /\ loc[r].read \in Rows /\ Forgives
  BY HitShape, StoreShape, ResetStoreShape DEF IInv, TypeOK, Locals, Hit, Store, ResetStore
<1>2. CASE row'.count = 0
  BY <1>1, <1>2, ForgivingStep DEF Forgives
<1>3. CASE row'.count # 0
  <2>1. \A v \in {Matched(r), Changed(r), Reset(r)} : Stored(v).count = 0
    BY <1>1 DEF Stored, Matched, Changed, Reset, Rows
  <2>2. row' = row
    BY <1>3, <2>1 DEF Hit, Store, ResetStore, Update, UpdateFails
  <2>3. pc'[r] # "miss"
    BY <1>1, GotoOwn DEF Hit, Store, ResetStore, Update, UpdateFails
  <2>4. misses' = misses
    BY <1>1, <1>3 DEF Forgives
  <2>5. QED
    BY <1>1, <2>2, <2>3, <2>4, ReadingStep DEF StepOK
<1>4. QED
  BY <1>2, <1>3

\* What the steps that leave the account alone do.
LEMMA ReadingLockout ==
    ASSUME IInv, TypeOK', LockoutInv, NEW r \in Requests,
           \/ Called(r) \/ Select(r) \/ Validate(r)
           \/ ResetSelect(r) \/ Reseed(r) \/ Wake(r) \/ Reply(r)
    PROVE  LockoutInv'
<1>1. Request(r)
  BY DEF Request, Called
<1>2. TypeOK /\ StepOK(r)
  BY <1>1, StepShape DEF IInv
<1>3. row' = row /\ misses' = misses
  BY DEF Called, Login, ChangePassword, ResetPassword, Call, Select, Validate, ResetSelect,
         Reseed, Wake, Reply
<1>4. pc'[r] = "miss" => loc'[r].read = row
  <2>1. CASE Select(r)
    <3>1. loc[r] \in Locals
      BY <1>2 DEF TypeOK
    <3>2. [loc[r] EXCEPT !.read = row].read = row
      BY <3>1 DEF Locals
    <3>3. CASE SelectFails(r)
      BY <1>2, <3>3, GotoOwn DEF SelectFails
    <3>4. CASE ~ SelectFails(r)
      <4>1. PICK l : Goto(r, l, [loc[r] EXCEPT !.read = row])
        BY <2>1, <3>4 DEF Select
      <4>2. /\ pc'[r] = l
            /\ loc'[r] = IF l \in Outcomes THEN Empty ELSE [loc[r] EXCEPT !.read = row]
        BY <1>2, <4>1, GotoOwn
      <4>3. QED
        BY <3>2, <4>2 DEF Outcomes
    <3>5. QED
      BY <3>3, <3>4
  <2>2. CASE Reply(r)
    BY <1>2, <2>2 DEF Reply, TypeOK
  <2>3. CASE Called(r)
    <3>1. \E l \in {"select", "resetSelect"} : \E v : Goto(r, l, v)
      BY <2>3 DEF Called, Login, ChangePassword, ResetPassword, Call
    <3>2. QED
      BY <1>2, <3>1, GotoOwn
  <2>4. CASE Validate(r) \/ ResetSelect(r)
    <3>1. \E l \in {"store", "rejected", "reseed", "error"} : \E v : Goto(r, l, v)
      BY <2>4 DEF Validate, ResetSelect, SelectFails
    <3>2. QED
      BY <1>2, <3>1, GotoOwn
  <2>5. CASE Reseed(r) \/ Wake(r)
    <3>1. \E l \in {"resetStore", "select"} : \E v : Goto(r, l, v)
      BY <2>5 DEF Reseed, Wake
    <3>2. QED
      BY <1>2, <3>1, GotoOwn
  <2>6. QED
    BY <2>1, <2>2, <2>3, <2>4, <2>5
<1>5. QED
  BY <1>2, <1>3, <1>4, ReadingStep DEF StepOK

\* The clock and a crash: every request that goes on, goes on from the column.
LEMMA EnvironmentLockout ==
    ASSUME TypeOK, TypeOK', LockoutInv, Tick \/ ServerCrashes \/ UNCHANGED vars
    PROVE  LockoutInv'
<1>1. row' = row /\ misses' = misses
  BY DEF Tick, ServerCrashes, vars
<1>2. ASSUME NEW r \in Requests PROVE Held(r) <= Held(r)'
  <2>1. Held(r) \in Nat /\ Held(r) <= row.count
    BY HeldType
  <2>2. \/ pc' = pc /\ loc' = loc
        \/ pc'[r] = "idle"
    BY DEF Tick, ServerCrashes, vars
  <2>3. Held(r)' = Held(r) \/ Held(r)' = row.count
    BY <1>1, <2>2 DEF Held, At
  <2>4. QED
    BY <2>1, <2>3
<1>3. QED
  BY <1>1, <1>2, QuietStep

LEMMA InitLockout == Init /\ TypeOK => LockoutInv
<1> SUFFICES ASSUME Init, TypeOK PROVE LockoutInv
  OBVIOUS
<1>1. PICK s : Fits(s, Levels, Top) /\ s = [v \in 0..Top |-> 0]
  BY LevelsType, ZeroFits
<1>2. misses <= s[Top]
  BY <1>1, LevelsType DEF Init
<1>3. QED
  BY <1>1, <1>2 DEF LockoutInv

\* Every step leaves room for the answers given so far.
LEMMA NextLockout == IInv /\ IInv' /\ LockoutInv /\ [Next]_vars => LockoutInv'
<1> SUFFICES ASSUME IInv, IInv', LockoutInv, [Next]_vars PROVE LockoutInv'
  OBVIOUS
<1>1. TypeOK /\ TypeOK'
  BY DEF IInv
<1>2. ASSUME NEW r \in Requests, Request(r) PROVE LockoutInv'
  BY <1>1, <1>2, MissLockout, ForgivingLockout, ReadingLockout DEF Request, Called
<1>3. CASE Tick \/ ServerCrashes \/ UNCHANGED vars
  BY <1>1, <1>3, EnvironmentLockout
<1>4. QED
  BY <1>2, <1>3 DEF Next

\* However many calls guess at once, and whatever they have read before they
\* write, an account answers no more wrong passwords between two right ones than
\* the binomial coefficient of its calls and maxfailure says.
THEOREM LockoutStaysBounded == Spec => []LockoutBounded
<1>1. Init => LockoutInv
  BY InitIInv, InitLockout DEF IInv
<1>2. IInv => TypeOK
  BY DEF IInv
<1>3. QED
  BY <1>1, <1>2, SpecIInv, NextLockout, LockoutHolds, PTL DEF Spec

-----------------------------------------------------------------------------
(* BasicAuth implements PasswordCheck.                                     *)

\* The count is 0 only if no wrong password was answered since.
CountedInv == row.count = 0 => misses = 0

LEMMA CountedStep ==
    ASSUME IInv, CountedInv, [Next]_vars
    PROVE  CountedInv'
<1>1. CASE row' = row /\ misses' = misses
  BY <1>1 DEF CountedInv
<1>2. ASSUME NEW r \in Requests, Miss(r) PROVE CountedInv'
  <2>1. loc[r].read \in Rows
    BY DEF IInv, TypeOK, Locals
  <2>2. Stored(Missed(r)).count # 0
    BY <2>1 DEF Stored, Missed, Rows
  <2>3. row' = Stored(Missed(r)) \/ (row' = row /\ misses' = misses)
    BY <1>2 DEF Miss, Update, UpdateFails
  <2>4. QED
    BY <2>2, <2>3 DEF CountedInv
<1>3. ASSUME NEW r \in Requests, Hit(r) \/ Store(r) \/ ResetStore(r) PROVE CountedInv'
  BY <1>3 DEF Hit, Store, ResetStore, Forgives, CountedInv
<1>4. ASSUME NEW r \in Requests,
             \/ Called(r) \/ Select(r) \/ Validate(r)
             \/ ResetSelect(r) \/ Reseed(r) \/ Wake(r) \/ Reply(r)
      PROVE  row' = row /\ misses' = misses
  BY <1>4 DEF Called, Login, ChangePassword, ResetPassword, Call, Select, Validate,
              ResetSelect, Reseed, Wake, Reply
<1>5. Tick \/ ServerCrashes \/ UNCHANGED vars => row' = row /\ misses' = misses
  BY DEF Tick, ServerCrashes, vars
<1>6. QED
  BY <1>1, <1>2, <1>3, <1>4, <1>5 DEF Next, Request, Called

Calls == [r \in Requests |-> CallOf(r)]

Say(o, a, g, n, s) == [op |-> o, at |-> a, given |-> g, new |-> n, seen |-> s]

\* What is known of a call at each of its statements.
Known(r) ==
    /\ Calls[r] = CallOf(r)
    /\ At(r, "idle") => CallOf(r) = Say("none", "idle", NoPassword, NoPassword, NoPassword)
    /\ pc[r] \in {"select", "sleep"} =>
         CallOf(r) = Say(op[r], "asked", loc[r].given, loc[r].new, NoPassword)
    /\ At(r, "miss") =>
         CallOf(r) = Say(op[r], "wrong", loc[r].given, loc[r].new, loc[r].read.pass)
    /\ At(r, "hit") =>
         CallOf(r) = Say(op[r], "right", loc[r].given, loc[r].new, loc[r].read.pass)
    /\ pc[r] \in {"validate", "store"} =>
         CallOf(r) = Say(op[r], "proven", loc[r].given, loc[r].new, NoPassword)
    /\ pc[r] \in {"resetSelect", "reseed", "resetStore"} =>
         CallOf(r) = Say(op[r], "owner", NoPassword, loc[r].new, NoPassword)
    /\ pc[r] \in {"ok", "badpass", "locked"} =>
         CallOf(r) = Say(op[r], pc[r], NoPassword, NoPassword, NoPassword)
    /\ pc[r] \in {"notupdated", "rejected", "error"} =>
         CallOf(r) = Say(op[r], "failed", NoPassword, NoPassword, NoPassword)

LEMMA CallsKnown == \A r \in Requests : Known(r)
<1> SUFFICES ASSUME NEW r \in Requests PROVE Known(r)
  OBVIOUS
<1>1. Calls[r] = CallOf(r)
  BY DEF Calls
<1>2. At(r, "idle") => CallOf(r) = Say("none", "idle", NoPassword, NoPassword, NoPassword)
  BY DEF CallOf, Stage, Say, Statements, At
<1>3. /\ pc[r] \in {"select", "sleep"} =>
           CallOf(r) = Say(op[r], "asked", loc[r].given, loc[r].new, NoPassword)
      /\ At(r, "miss") =>
           CallOf(r) = Say(op[r], "wrong", loc[r].given, loc[r].new, loc[r].read.pass)
      /\ At(r, "hit") =>
           CallOf(r) = Say(op[r], "right", loc[r].given, loc[r].new, loc[r].read.pass)
  BY DEF CallOf, Stage, Say, Statements, At
<1>4. /\ pc[r] \in {"validate", "store"} =>
           CallOf(r) = Say(op[r], "proven", loc[r].given, loc[r].new, NoPassword)
      /\ pc[r] \in {"resetSelect", "reseed", "resetStore"} =>
           CallOf(r) = Say(op[r], "owner", NoPassword, loc[r].new, NoPassword)
  BY DEF CallOf, Stage, Say, Statements, At
<1>5. /\ pc[r] \in {"ok", "badpass", "locked"} =>
           CallOf(r) = Say(op[r], pc[r], NoPassword, NoPassword, NoPassword)
      /\ pc[r] \in {"notupdated", "rejected", "error"} =>
           CallOf(r) = Say(op[r], "failed", NoPassword, NoPassword, NoPassword)
  BY DEF CallOf, Stage, Say, Statements, At
<1>6. QED
  BY <1>1, <1>2, <1>3, <1>4, <1>5 DEF Known

LEMMA CallsKnownNext == \A r \in Requests : Known(r)'
<1>1. (\A r \in Requests : Known(r))'
  BY CallsKnown, PTL
<1>2. QED
  BY <1>1

\* A step of r changes what is known of r, and of nobody else.
LEMMA OneCall ==
    ASSUME NEW r \in Requests,
           \A q \in Requests \ {r} : pc'[q] = pc[q] /\ op'[q] = op[q] /\ loc'[q] = loc[q]
    PROVE  Calls' = [Calls EXCEPT ![r] = CallOf(r)']
<1>1. ASSUME NEW q \in Requests \ {r} PROVE CallOf(q)' = CallOf(q)
  BY DEF CallOf, Stage
<1>2. QED
  BY <1>1 DEF Calls

\* What PasswordCheck says of a call, in terms of Calls.
LEMMA Abstractly ==
    ASSUME NEW r \in Requests
    PROVE  /\ \A c : Calls' = [Calls EXCEPT ![r] = c] => Promise!Goes(r, c)
           /\ \A a, g, s : Calls' = [Calls EXCEPT ![r] = Say(Calls[r].op, a, g, Calls[r].new, s)]
                => Promise!Moves(r, a, g, s)
           /\ \A a : Calls' = [Calls EXCEPT ![r] =
                                 Say(Calls[r].op, a, NoPassword, NoPassword, NoPassword)]
                => Promise!Answers(r, a)
<1>1. \A c : Calls' = [Calls EXCEPT ![r] = c] => Promise!Goes(r, c)
  BY DEF Promise!Goes, Calls
<1>2. \A o, a, g, n, s : Promise!Known(o, a, g, n, s) = Say(o, a, g, n, s)
  BY DEF Promise!Known, Say
<1>3. \A a, g, s : Promise!Moves(r, a, g, s) <=> Promise!Goes(r, Say(Calls[r].op, a, g, Calls[r].new, s))
  BY <1>2 DEF Promise!Moves, Calls
<1>4. \A a : Promise!Answers(r, a) <=>
             Promise!Goes(r, Say(Calls[r].op, a, NoPassword, NoPassword, NoPassword))
  BY <1>2 DEF Promise!Answers, Calls
<1>5. QED
  BY <1>1, <1>3, <1>4

\* An answer, or no answer, that leaves the account as it was.
LEMMA AsGivesUp ==
    ASSUME NEW r \in Requests, TypeOK,
           \A q \in Requests \ {r} : pc'[q] = pc[q] /\ op'[q] = op[q] /\ loc'[q] = loc[q],
           row' = row, misses' = misses, op' = op,
           pc[r] \in Statements, pc'[r] \in {"notupdated", "rejected", "error"}
    PROVE  Promise!Next
<1>1. Calls' = [Calls EXCEPT ![r] = Say(op[r], "failed", NoPassword, NoPassword, NoPassword)]
  BY CallsKnownNext, OneCall DEF Known
<1>2. /\ Calls[r].at \in {"asked", "wrong", "right", "proven", "owner"}
      /\ Calls[r].op = op[r]
  BY CallsKnown DEF Known, Statements, Say, At
<1>3. Promise!GivesUp(r)
  <2>1. Promise!Answers(r, "failed")
    BY <1>1, <1>2, Abstractly
  <2>2. QED
    BY <1>2, <2>1 DEF Promise!GivesUp, Promise!account, Calls
<1>4. QED
  BY <1>3 DEF Promise!Next, Promise!Step

\* A step between two statements that a client cannot tell apart.
LEMMA AsNothing ==
    ASSUME NEW r \in Requests, TypeOK,
           \A q \in Requests \ {r} : pc'[q] = pc[q] /\ op'[q] = op[q] /\ loc'[q] = loc[q],
           row' = row, misses' = misses, CallOf(r)' = CallOf(r)
    PROVE  UNCHANGED Promise!vars
<1>1. Calls' = Calls
  BY OneCall, CallsKnown DEF Known, Calls
<1>2. QED
  BY <1>1 DEF Promise!vars, Calls

\* The start of a call.
LEMMA CalledPromise ==
    ASSUME IInv, NEW r \in Requests, Called(r)
    PROVE  Promise!Next
<1>1. TypeOK /\ StepOK(r) /\ row' = row /\ misses' = misses /\ At(r, "idle")
  BY CallShape DEF IInv, Called, Login, ChangePassword, ResetPassword, Call
<1>2. Calls' = [Calls EXCEPT ![r] = CallOf(r)'] /\ Calls[r].at = "idle"
  BY <1>1, OneCall, CallsKnown DEF StepOK, Known, Say
<1>3. \E p, n \in Passwords :
        CallOf(r)' \in {Say("login", "asked", p, NoPassword, NoPassword),
                        Say("change", "asked", p, n, NoPassword),
                        Say("reset", "owner", NoPassword, n, NoPassword)}
  <2>1. \A o, l, v : Call(r, o, l, v) /\ l \notin Outcomes =>
           op'[r] = o /\ pc'[r] = l /\ loc'[r] = v
    BY <1>1, GotoOwn DEF Call, TypeOK
  <2>2. Known(r)' /\ {"select", "resetSelect"} \cap Outcomes = {} /\ Blank \in Passwords
    BY CallsKnownNext, BlankWeak DEF Outcomes
  <2>3. CASE Login(r)
    <3>1. PICK p \in Passwords :
            Call(r, "login", "select", [Empty EXCEPT !.given = p, !.now = Rounded(clock)])
      BY <2>3 DEF Login
    <3>2. /\ op'[r] = "login" /\ pc'[r] = "select"
          /\ loc'[r] = [Empty EXCEPT !.given = p, !.now = Rounded(clock)]
      BY <2>1, <2>2, <3>1
    <3>3. loc'[r].given = p /\ loc'[r].new = NoPassword
      BY <3>2 DEF Empty
    <3>4. CallOf(r)' = Say("login", "asked", p, NoPassword, NoPassword)
      BY <2>2, <3>2, <3>3 DEF Known
    <3>5. QED
      BY <3>4
  <2>4. CASE ChangePassword(r)
    <3>1. PICK p, n \in Passwords :
            Call(r, "change", "select",
                 [Empty EXCEPT !.given = p, !.new = n, !.now = Rounded(clock)])
      BY <2>4 DEF ChangePassword
    <3>2. /\ op'[r] = "change" /\ pc'[r] = "select"
          /\ loc'[r] = [Empty EXCEPT !.given = p, !.new = n, !.now = Rounded(clock)]
      BY <2>1, <2>2, <3>1
    <3>3. loc'[r].given = p /\ loc'[r].new = n
      BY <3>2 DEF Empty
    <3>4. CallOf(r)' = Say("change", "asked", p, n, NoPassword)
      BY <2>2, <3>2, <3>3 DEF Known
    <3>5. QED
      BY <3>4
  <2>5. CASE ResetPassword(r)
    <3>1. PICK n \in Passwords : Call(r, "reset", "resetSelect", [Empty EXCEPT !.new = n])
      BY <2>5 DEF ResetPassword
    <3>2. CallOf(r)' = Say("reset", "owner", NoPassword, n, NoPassword)
      BY <2>1, <2>2, <3>1 DEF Known, Empty
    <3>3. QED
      BY <2>2, <3>2
  <2>6. QED
    BY <2>3, <2>4, <2>5 DEF Called
<1>4. Promise!Call(r)
  <2>1. PICK p, n \in Passwords :
          CallOf(r)' \in {Say("login", "asked", p, NoPassword, NoPassword),
                          Say("change", "asked", p, n, NoPassword),
                          Say("reset", "owner", NoPassword, n, NoPassword)}
    BY <1>3
  <2>2. \/ Promise!Asks(r, "login", p, NoPassword)
        \/ Promise!Asks(r, "change", p, n)
        \/ Promise!Asks(r, "reset", NoPassword, n)
    BY <1>2, <2>1, Abstractly DEF Promise!Asks, Promise!Known, Say
  <2>3. QED
    BY <1>1, <1>2, <2>2 DEF Promise!Call, Promise!account, Calls
<1>5. QED
  BY <1>4 DEF Promise!Next, Promise!Step

\* SoftLogin looks at the account.
LEMMA SelectPromise ==
    ASSUME IInv, NEW r \in Requests, Select(r)
    PROVE  Promise!Next
<1>1. /\ TypeOK /\ StepOK(r) /\ row' = row /\ misses' = misses /\ op' = op /\ At(r, "select")
      /\ loc[r] \in Locals /\ row.count \in Nat
  BY SelectShape DEF IInv, TypeOK, Rows, Select
<1>2. CASE SelectFails(r)
  <2>1. pc'[r] = "error"
    BY <1>1, <1>2, GotoOwn DEF SelectFails
  <2>2. QED
    BY <1>1, <2>1, AsGivesUp DEF StepOK, Statements, At
<1>3. CASE ~ SelectFails(r)
  <2>1. Calls' = [Calls EXCEPT ![r] = CallOf(r)']
    BY <1>1, OneCall DEF StepOK
  <2>2. Calls[r] = Say(op[r], "asked", loc[r].given, loc[r].new, NoPassword)
    BY <1>1, CallsKnown DEF Known, At
  <2>3. CASE row.count > MaxFailure
    <3>1. Goto(r, "locked", [loc[r] EXCEPT !.read = row])
      BY <1>1, <1>3, <2>3, FailureNat DEF Select
    <3>2. pc'[r] = "locked"
      BY <1>1, <3>1, GotoOwn
    <3>3. CallOf(r)' = Say(op[r], "locked", NoPassword, NoPassword, NoPassword)
      BY <1>1, <3>2, CallsKnownNext DEF Known
    <3>4. Calls[r].at = "asked" /\ Calls[r].op = op[r]
      BY <2>2 DEF Say
    <3>5. Promise!Answers(r, "locked")
      BY <2>1, <3>3, <3>4, Abstractly
    <3>6. Promise!Look(r)
      BY <1>1, <2>3, <3>4, <3>5 DEF Promise!Look, Promise!account, Calls
    <3>7. QED
      BY <3>6 DEF Promise!Next, Promise!Step
  <2>4. CASE ~ (row.count > MaxFailure)
    <3>1. Goto(r, IF loc[r].given # row.pass THEN "miss" ELSE "hit",
               [loc[r] EXCEPT !.read = row])
      BY <1>1, <1>3, <2>4, FailureNat DEF Select
    <3>2. /\ pc'[r] = IF loc[r].given # row.pass THEN "miss" ELSE "hit"
          /\ loc'[r] = [loc[r] EXCEPT !.read = row]
      BY <1>1, <3>1, GotoOwn DEF Outcomes
    <3>3. loc'[r].given = loc[r].given /\ loc'[r].new = loc[r].new /\ loc'[r].read = row
      BY <1>1, <3>2 DEF Locals
    <3>4. CallOf(r)' = Say(op[r], IF loc[r].given = row.pass THEN "right" ELSE "wrong",
                           loc[r].given, loc[r].new, row.pass)
      BY <1>1, <3>2, <3>3, CallsKnownNext DEF Known, At
    <3>5. /\ Calls[r].at = "asked" /\ Calls[r].op = op[r]
          /\ Calls[r].given = loc[r].given /\ Calls[r].new = loc[r].new
      BY <2>2 DEF Say
    <3>6. Promise!Moves(r, IF Calls[r].given = row.pass THEN "right" ELSE "wrong",
                        Calls[r].given, row.pass)
      BY <2>1, <3>4, <3>5, Abstractly
    <3>7. Promise!Look(r)
      BY <1>1, <2>4, <3>5, <3>6 DEF Promise!Look, Promise!account, Calls
    <3>8. QED
      BY <3>7 DEF Promise!Next, Promise!Step
  <2>5. QED
    BY <2>3, <2>4
<1>4. QED
  BY <1>2, <1>3

\* The UPDATE of a wrong password counts it, and stays within the limit.
LEMMA MissPromise ==
    ASSUME IInv, LockoutBounded', NEW r \in Requests, Miss(r)
    PROVE  Promise!Next
<1>1. /\ TypeOK /\ StepOK(r) /\ op' = op /\ At(r, "miss") /\ loc[r].read \in Rows
  BY MissShape DEF IInv, TypeOK, Locals, Miss, StepOK
<1>2. CASE row' = row /\ misses' = misses /\ UpdateFails(r, Missed(r))
  <2>1. pc'[r] = "error"
    BY <1>1, <1>2, GotoOwn DEF UpdateFails
  <2>2. QED
    BY <1>1, <1>2, <2>1, AsGivesUp DEF StepOK, Statements, At
<1>3. CASE /\ row' = Stored(Missed(r))
           /\ \/ Update(r, Missed(r), "badpass", Empty) /\ misses' = misses + 1
              \/ UpdateFails(r, Missed(r)) /\ UNCHANGED misses
  <2>1. Calls' = [Calls EXCEPT ![r] = CallOf(r)']
    BY <1>1, OneCall DEF StepOK
  <2>2. Calls[r] = Say(op[r], "wrong", loc[r].given, loc[r].new, loc[r].read.pass)
    BY <1>1, CallsKnown DEF Known
  <2>3. row'.pass = loc[r].read.pass
    BY <1>1, <1>3 DEF Stored, Missed, Rows
  <2>4. \/ pc'[r] \in {"badpass", "notupdated"} /\ misses' = misses + 1
        \/ pc'[r] = "error" /\ misses' = misses
    BY <1>1, <1>3, GotoOwn DEF Update, UpdateFails
  <2>5. \/ /\ misses' = misses + 1
           /\ \/ CallOf(r)' = Say(op[r], "badpass", NoPassword, NoPassword, NoPassword)
              \/ CallOf(r)' = Say(op[r], "failed", NoPassword, NoPassword, NoPassword)
        \/ /\ misses' = misses
           /\ CallOf(r)' = Say(op[r], "failed", NoPassword, NoPassword, NoPassword)
    BY <1>1, <2>4, CallsKnownNext DEF Known
  <2>6. Calls[r].at = "wrong" /\ Calls[r].op = op[r] /\ Calls[r].seen = loc[r].read.pass
    BY <2>2 DEF Say
  <2>7. \/ misses' = misses + 1 /\ (Promise!Answers(r, "badpass") \/ Promise!Answers(r, "failed"))
        \/ misses' = misses /\ Promise!Answers(r, "failed")
    BY <2>1, <2>5, <2>6, Abstractly
  <2>8. Promise!Wrong(r)
    BY <2>3, <2>6, <2>7 DEF Promise!Wrong, Calls, LockoutBounded
  <2>9. QED
    BY <2>8 DEF Promise!Next, Promise!Step
<1>4. QED
  BY <1>2, <1>3 DEF Miss, Update, UpdateFails

\* An UPDATE with a count of 0 that is executed opens the account.
LEMMA AsOpens ==
    ASSUME TypeOK, NEW v \in Rows, v.count = 0, row' = Stored(v), Forgives
    PROVE  Promise!Opens(v.pass)
<1>1. row'.pass = v.pass /\ row'.count = 0
  BY DEF Stored, Rows
<1>2. misses' = 0 /\ ~ (row'.count > MaxFailure)
  BY <1>1, FailureNat DEF Forgives
<1>3. QED
  BY <1>1, <1>2 DEF Promise!Opens

\* One that is not leaves it alone.
LEMMA AsNotExecuted ==
    ASSUME IInv, CountedInv, NEW r \in Requests, StepOK(r), NEW v, UpdateFails(r, v), row' = row,
           Forgives, op' = op, pc[r] \in Statements
    PROVE  Promise!Next
<1>1. misses' = misses
  BY DEF Forgives, CountedInv
<1>2. pc'[r] = "error"
  BY GotoOwn DEF UpdateFails, IInv
<1>3. QED
  BY <1>1, <1>2, AsGivesUp DEF IInv, StepOK

\* The UPDATE of a right password opens the account.
LEMMA HitPromise ==
    ASSUME IInv, CountedInv, NEW r \in Requests, Hit(r)
    PROVE  Promise!Next
<1>1. /\ TypeOK /\ StepOK(r) /\ op' = op /\ At(r, "hit") /\ loc[r] \in Locals /\ Forgives
      /\ loc[r].read \in Rows
  BY HitShape DEF IInv, TypeOK, Locals, Hit, StepOK
<1>2. Matched(r) \in Rows /\ Matched(r).count = 0 /\ Matched(r).pass = loc[r].read.pass
  BY <1>1, RowValues DEF Matched, Rows
<1>3. CASE row' = row /\ UpdateFails(r, Matched(r))
  BY <1>1, <1>3, AsNotExecuted DEF At, Statements
<1>4. CASE /\ row' = Stored(Matched(r))
           /\ \/ Update(r, Matched(r), IF op[r] = "login" THEN "ok" ELSE "validate",
                        [loc[r] EXCEPT !.now = 0])
              \/ UpdateFails(r, Matched(r))
  <2>1. Calls' = [Calls EXCEPT ![r] = CallOf(r)']
    BY <1>1, OneCall DEF StepOK
  <2>2. Calls[r] = Say(op[r], "right", loc[r].given, loc[r].new, loc[r].read.pass)
    BY <1>1, CallsKnown DEF Known
  <2>3. Promise!Opens(loc[r].read.pass)
    BY <1>1, <1>2, <1>4, AsOpens
  <2>4. \/ pc'[r] = "ok" /\ op[r] = "login"
        \/ pc'[r] = "validate" /\ op[r] # "login" /\ loc'[r] = [loc[r] EXCEPT !.now = 0]
        \/ pc'[r] \in {"notupdated", "error"}
    BY <1>1, <1>4, GotoOwn DEF Update, UpdateFails, Outcomes
  <2>5. pc'[r] = "validate" => loc'[r].given = loc[r].given /\ loc'[r].new = loc[r].new
    BY <1>1, <2>4 DEF Locals
  <2>6. \/ op[r] = "login" /\ CallOf(r)' = Say(op[r], "ok", NoPassword, NoPassword, NoPassword)
        \/ /\ op[r] # "login"
           /\ CallOf(r)' = Say(op[r], "proven", loc[r].given, loc[r].new, NoPassword)
        \/ CallOf(r)' = Say(op[r], "failed", NoPassword, NoPassword, NoPassword)
    BY <1>1, <2>4, <2>5, CallsKnownNext DEF Known
  <2>7. /\ Calls[r].at = "right" /\ Calls[r].op = op[r] /\ Calls[r].seen = loc[r].read.pass
        /\ Calls[r].given = loc[r].given /\ Calls[r].new = loc[r].new
    BY <2>2 DEF Say
  <2>8. \/ Calls[r].op = "login" /\ Promise!Answers(r, "ok")
        \/ Calls[r].op # "login" /\ Promise!Moves(r, "proven", Calls[r].given, NoPassword)
        \/ Promise!Answers(r, "failed")
    BY <2>1, <2>6, <2>7, Abstractly
  <2>9. Promise!Right(r)
    BY <2>3, <2>7, <2>8 DEF Promise!Right, Calls
  <2>10. QED
    BY <2>9 DEF Promise!Next, Promise!Step
<1>5. QED
  BY <1>3, <1>4 DEF Hit, Update, UpdateFails

\* The UPDATE of ChangePassword opens it with the new password.
LEMMA StorePromise ==
    ASSUME IInv, CountedInv, NEW r \in Requests, Store(r)
    PROVE  Promise!Next
<1>1. /\ TypeOK /\ StepOK(r) /\ op' = op /\ At(r, "store") /\ Forgives
      /\ loc[r] \in Locals /\ loc[r].read \in Rows /\ loc[r].new \in Passwords
  BY StoreShape DEF IInv, PassInv, TypeOK, Locals, Store, StepOK, At, Statements
<1>2. Changed(r) \in Rows /\ Changed(r).count = 0 /\ Changed(r).pass = loc[r].new
  BY <1>1, RowValues, NoPasswordElse DEF Changed, Rows
<1>3. CASE row' = row /\ UpdateFails(r, Changed(r))
  BY <1>1, <1>3, AsNotExecuted DEF At, Statements
<1>4. CASE /\ row' = Stored(Changed(r))
           /\ Update(r, Changed(r), "ok", Empty) \/ UpdateFails(r, Changed(r))
  <2>1. Calls' = [Calls EXCEPT ![r] = CallOf(r)']
    BY <1>1, OneCall DEF StepOK
  <2>2. Calls[r] = Say(op[r], "proven", loc[r].given, loc[r].new, NoPassword)
    BY <1>1, CallsKnown DEF Known, At
  <2>3. Promise!Opens(loc[r].new)
    BY <1>1, <1>2, <1>4, AsOpens
  <2>4. pc'[r] \in {"ok", "notupdated", "error"}
    BY <1>1, <1>4, GotoOwn DEF Update, UpdateFails
  <2>5. \/ CallOf(r)' = Say(op[r], "ok", NoPassword, NoPassword, NoPassword)
        \/ CallOf(r)' = Say(op[r], "failed", NoPassword, NoPassword, NoPassword)
    BY <1>1, <2>4, CallsKnownNext DEF Known
  <2>6. Calls[r].at = "proven" /\ Calls[r].op = op[r] /\ Calls[r].new = loc[r].new
    BY <2>2 DEF Say
  <2>7. Promise!Answers(r, "ok") \/ Promise!Answers(r, "failed")
    BY <2>1, <2>5, <2>6, Abstractly
  <2>8. Promise!Change(r)
    BY <2>3, <2>6, <2>7 DEF Promise!Change, Calls
  <2>9. QED
    BY <2>8 DEF Promise!Next, Promise!Step
<1>5. QED
  BY <1>3, <1>4 DEF Store, Update, UpdateFails

\* The UPDATE of ResetPassword opens it with a seed.
LEMMA ResetStorePromise ==
    ASSUME IInv, CountedInv, NEW r \in Requests, ResetStore(r)
    PROVE  Promise!Next
<1> DEFINE v == [loc[r] EXCEPT !.read = NewRow, !.now = 0, !.wake = clock + 1]
<1>1. /\ TypeOK /\ StepOK(r) /\ op' = op /\ At(r, "resetStore") /\ Forgives
      /\ loc[r] \in Locals /\ loc[r].read \in Rows /\ loc[r].given \in Seeds
  BY ResetStoreShape DEF IInv, SeedInv, TypeOK, Locals, ResetStore, StepOK
<1>2. Reset(r) \in Rows /\ Reset(r).count = 0 /\ Reset(r).pass = loc[r].given
  BY <1>1, RowValues, NoPasswordElse DEF Reset, Rows
<1>3. CASE row' = row /\ UpdateFails(r, Reset(r))
  BY <1>1, <1>3, AsNotExecuted DEF At, Statements
<1>4. CASE /\ row' = Stored(Reset(r))
           /\ Update(r, Reset(r), "sleep", v) \/ UpdateFails(r, Reset(r))
  <2>1. Calls' = [Calls EXCEPT ![r] = CallOf(r)']
    BY <1>1, OneCall DEF StepOK
  <2>2. Calls[r] = Say(op[r], "owner", NoPassword, loc[r].new, NoPassword)
    BY <1>1, CallsKnown DEF Known, At
  <2>3. Promise!Opens(loc[r].given)
    BY <1>1, <1>2, <1>4, AsOpens
  <2>4. v.given = loc[r].given /\ v.new = loc[r].new
    BY <1>1 DEF Locals
  <2>5. \/ pc'[r] = "sleep" /\ loc'[r].given = loc[r].given /\ loc'[r].new = loc[r].new
        \/ pc'[r] \in {"notupdated", "error"}
    <3> HIDE DEF v
    <3>1. QED
      BY <1>1, <1>4, <2>4, GotoOwn DEF Update, UpdateFails, Outcomes
  <2>6. \/ CallOf(r)' = Say(op[r], "asked", loc[r].given, loc[r].new, NoPassword)
        \/ CallOf(r)' = Say(op[r], "failed", NoPassword, NoPassword, NoPassword)
    BY <1>1, <2>5, CallsKnownNext DEF Known
  <2>7. Calls[r].at = "owner" /\ Calls[r].op = op[r] /\ Calls[r].new = loc[r].new
    BY <2>2 DEF Say
  <2>8. Promise!Moves(r, "asked", loc[r].given, NoPassword) \/ Promise!Answers(r, "failed")
    BY <2>1, <2>6, <2>7, Abstractly
  <2>9. Promise!Reset(r)
    BY <1>1, <2>3, <2>7, <2>8 DEF Promise!Reset, Calls
  <2>10. QED
    BY <2>9 DEF Promise!Next, Promise!Step
<1>5. QED
  BY <1>3, <1>4 DEF ResetStore, Update, UpdateFails

\* What a call does between its looks at the account and its writes.
LEMMA QuietPromise ==
    ASSUME IInv, NEW r \in Requests,
           Validate(r) \/ ResetSelect(r) \/ Reseed(r) \/ Wake(r)
    PROVE  Promise!Next \/ UNCHANGED Promise!vars
<1>1. /\ TypeOK /\ StepOK(r) /\ row' = row /\ misses' = misses /\ op' = op
      /\ loc[r] \in Locals /\ pc[r] \in Statements
  BY ValidateShape, ResetSelectShape, ReseedShape, WakeShape
     DEF IInv, TypeOK, Validate, ResetSelect, Reseed, Wake, At, Statements
<1>2. /\ \A q \in Requests \ {r} : pc'[q] = pc[q] /\ op'[q] = op[q] /\ loc'[q] = loc[q]
      /\ Known(r) /\ Known(r)'
  BY <1>1, CallsKnown, CallsKnownNext DEF StepOK
<1>3. CASE pc'[r] \in {"rejected", "error"}
  BY <1>1, <1>2, <1>3, AsGivesUp
<1>4. CASE pc'[r] \notin {"rejected", "error"}
  <2>1. CallOf(r)' = CallOf(r)
    <3>1. CASE Validate(r)
      <4>1. At(r, "validate") /\ pc'[r] = "store" /\ loc'[r] = [loc[r] EXCEPT !.now = Rounded(clock)]
        BY <1>1, <1>4, <3>1, GotoOwn DEF Validate, Outcomes
      <4>2. loc'[r].given = loc[r].given /\ loc'[r].new = loc[r].new
        BY <1>1, <4>1 DEF Locals
      <4>3. QED
        BY <1>1, <1>2, <4>1, <4>2 DEF Known, At
    <3>2. CASE ResetSelect(r)
      <4>1. At(r, "resetSelect") /\ pc'[r] = "reseed" /\ loc'[r] = [loc[r] EXCEPT !.read = row]
        BY <1>1, <1>4, <3>2, GotoOwn DEF ResetSelect, SelectFails, Outcomes
      <4>2. loc'[r].new = loc[r].new
        BY <1>1, <4>1 DEF Locals
      <4>3. QED
        BY <1>1, <1>2, <4>1, <4>2 DEF Known, At
    <3>3. CASE Reseed(r)
      <4>1. PICK seed \in Seeds :
              Goto(r, "resetStore", [loc[r] EXCEPT !.given = seed, !.now = Rounded(clock)])
        BY <3>3 DEF Reseed
      <4>2. /\ At(r, "reseed") /\ pc'[r] = "resetStore"
            /\ loc'[r] = [loc[r] EXCEPT !.given = seed, !.now = Rounded(clock)]
        <5>1. At(r, "reseed")
          BY <3>3 DEF Reseed
        <5>2. QED
          BY <1>1, <4>1, <5>1, GotoOwn DEF Outcomes
      <4>3. loc'[r].new = loc[r].new
        BY <1>1, <4>2 DEF Locals
      <4>4. QED
        BY <1>1, <1>2, <4>2, <4>3 DEF Known, At
    <3>4. CASE Wake(r)
      <4>1. /\ At(r, "sleep") /\ pc'[r] = "select"
            /\ loc'[r] = [loc[r] EXCEPT !.now = Rounded(clock), !.wake = 0]
        BY <1>1, <3>4, GotoOwn DEF Wake, Outcomes
      <4>2. loc'[r].given = loc[r].given /\ loc'[r].new = loc[r].new
        BY <1>1, <4>1 DEF Locals
      <4>3. QED
        BY <1>1, <1>2, <4>1, <4>2 DEF Known, At
    <3>5. QED
      BY <3>1, <3>2, <3>3, <3>4
  <2>2. QED
    BY <1>1, <1>2, <2>1, AsNothing
<1>5. QED
  BY <1>3, <1>4

\* The end of a call.
LEMMA ReplyPromise ==
    ASSUME IInv, NEW r \in Requests, Reply(r)
    PROVE  Promise!Next
<1>1. /\ TypeOK /\ StepOK(r) /\ row' = row /\ misses' = misses /\ pc[r] \in Outcomes
      /\ At(r, "idle")'
  BY ReplyShape DEF IInv, TypeOK, Reply, At
<1>2. Calls' = [Calls EXCEPT ![r] = Say("none", "idle", NoPassword, NoPassword, NoPassword)]
  BY <1>1, OneCall, CallsKnownNext DEF StepOK, Known
<1>3. Calls[r].at \in {"ok", "badpass", "locked", "failed"}
  BY <1>1, CallsKnown DEF Known, Say, Outcomes
<1>4. Promise!NoCall = Say("none", "idle", NoPassword, NoPassword, NoPassword)
  BY DEF Promise!NoCall, Promise!Known, Say
<1>5. Promise!Goes(r, Promise!NoCall)
  BY <1>2, <1>4, Abstractly
<1>6. Promise!Ends(r)
  BY <1>1, <1>3, <1>5 DEF Promise!Ends, Promise!account, Calls
<1>7. QED
  BY <1>6 DEF Promise!Next, Promise!Step

\* The service dies, or only time goes on.
LEMMA EnvironmentPromise ==
    ASSUME IInv, Tick \/ ServerCrashes \/ UNCHANGED vars
    PROVE  Promise!Next \/ UNCHANGED Promise!vars
<1>1. row' = row /\ misses' = misses
  BY DEF Tick, ServerCrashes, vars
<1>2. CASE Tick \/ UNCHANGED vars
  <2>1. ASSUME NEW r \in Requests PROVE CallOf(r)' = CallOf(r)
    BY <1>2 DEF Tick, vars, CallOf, Stage
  <2>2. QED
    BY <1>1, <2>1 DEF Promise!vars
<1>3. CASE ServerCrashes
  <2>1. \A r \in Requests : At(r, "idle")'
    BY <1>3 DEF ServerCrashes, At
  <2>2. Calls' = [r \in Requests |-> Say("none", "idle", NoPassword, NoPassword, NoPassword)]
    BY <2>1, CallsKnownNext DEF Known, Calls
  <2>3. Promise!NoCall = Say("none", "idle", NoPassword, NoPassword, NoPassword)
    BY DEF Promise!NoCall, Promise!Known, Say
  <2>4. Promise!Crash
    BY <1>1, <2>2, <2>3 DEF Promise!Crash, Promise!account, Calls
  <2>5. QED
    BY <2>4 DEF Promise!Next
<1>4. QED
  BY <1>2, <1>3

LEMMA InitPromise == Init => Promise!Init
<1> SUFFICES ASSUME Init PROVE Promise!Init
  OBVIOUS
<1>1. Calls = [r \in Requests |-> Say("none", "idle", NoPassword, NoPassword, NoPassword)]
  BY CallsKnown DEF Init, At, Known, Calls
<1>2. Promise!NoCall = Say("none", "idle", NoPassword, NoPassword, NoPassword)
  BY DEF Promise!NoCall, Promise!Known, Say
<1>3. row.pass = Blank /\ ~ (row.count > MaxFailure) /\ misses = 0
  BY FailureNat DEF Init, NewRow
<1>4. QED
  BY <1>1, <1>2, <1>3 DEF Promise!Init, Calls

\* Every step is one that PasswordCheck allows, or none.
LEMMA NextPromise ==
    IInv /\ CountedInv /\ LockoutBounded' /\ [Next]_vars => [Promise!Next]_(Promise!vars)
<1> SUFFICES ASSUME IInv, CountedInv, LockoutBounded', [Next]_vars
             PROVE  Promise!Next \/ UNCHANGED Promise!vars
  OBVIOUS
<1>1. ASSUME NEW r \in Requests, Request(r) PROVE Promise!Next \/ UNCHANGED Promise!vars
  BY <1>1, CalledPromise, SelectPromise, MissPromise, HitPromise, StorePromise,
     ResetStorePromise, QuietPromise, ReplyPromise DEF Request, Called
<1>2. QED
  BY <1>1, EnvironmentPromise DEF Next

\* Whatever its statements do in between, every login, change and reset looks at
\* the account once, is turned away or judged by the password it saw there, locks
\* and opens the account, within the number of guesses that LockoutBounded allows.
THEOREM AccountKeepsPromise == Spec => KeepsPromise
<1>1. Init => CountedInv
  BY DEF Init, CountedInv
<1>2. IInv /\ CountedInv /\ [Next]_vars => CountedInv'
  BY CountedStep
<1>3. QED
  BY <1>1, <1>2, SpecIInv, LockoutStaysBounded, InitPromise, NextPromise, PTL
     DEF Spec, KeepsPromise, Promise!Spec
=============================================================================
