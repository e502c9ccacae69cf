---------------------------- MODULE NumberFacts -----------------------------
(***************************************************************************)
(* Numbers: quotients, remainders and products, which the page split of    *)
(* the memory, the sector arithmetic of the disks and the registers of the *)
(* CPU rest on, and induction and recursive functions on the naturals.     *)
(***************************************************************************)
EXTENDS Integers, WellFoundedInduction, TLAPS

\* A number is its quotient and its remainder.
LEMMA Division ==
    ASSUME NEW x \in Nat, NEW w \in Nat \ {0}
    PROVE  /\ x \div w \in Nat
           /\ x % w \in 0 .. (w - 1)
           /\ x = (x \div w) * w + (x % w)
OBVIOUS

\* They are the only such pair.
LEMMA DivisionUnique ==
    ASSUME NEW x \in Nat, NEW q \in Nat, NEW r \in Nat, NEW w \in Nat \ {0},
           r < w, x = q * w + r
    PROVE  x \div w = q /\ x % w = r
OBVIOUS

\* A quotient does not exceed the number.
LEMMA QuotientSmaller ==
    ASSUME NEW x \in Nat, NEW w \in Nat \ {0}
    PROVE  x \div w <= x
OBVIOUS

\* What uint64_t arithmetic keeps of a number: no more than the number, and
\* all of it if it fits.
LEMMA Wrapped ==
    ASSUME NEW x \in Nat, NEW w \in Nat \ {0}
    PROVE  /\ x % w \in 0 .. (w - 1)
           /\ x % w <= x
           /\ x < w => x % w = x
OBVIOUS

\* Multiplication distributes and is monotonic.
LEMMA Products ==
    ASSUME NEW a \in Nat, NEW b \in Nat, NEW w \in Nat
    PROVE  /\ a * w \in Nat
           /\ (a + b) * w = a * w + b * w
           /\ a <= b => a * w <= b * w
OBVIOUS

\* A number below n * w has a quotient below n.
LEMMA QuotientBound ==
    ASSUME NEW x \in Nat, NEW n \in Nat, NEW w \in Nat \ {0}, x < n * w
    PROVE  x \div w < n
OBVIOUS

\* Quotients are monotonic.
LEMMA QuotientMonotonic ==
    ASSUME NEW x \in Nat, NEW y \in Nat, NEW w \in Nat \ {0}, x <= y
    PROVE  x \div w <= y \div w
OBVIOUS

\* A product orders as its factors do.
LEMMA FactorsOrder ==
    ASSUME NEW a \in Nat, NEW b \in Nat, NEW w \in Nat \ {0}, a * w < b * w
    PROVE  a < b
OBVIOUS

-----------------------------------------------------------------------------
\* The remainder of a number that may be negative.
LEMMA IntRemainder ==
    ASSUME NEW x \in Int, NEW w \in Nat \ {0}
    PROVE  /\ x % w \in 0 .. (w - 1) /\ x \div w \in Int
           /\ x = (x \div w) * w + (x % w)
OBVIOUS

\* It is the only number in its range that differs by a multiple.
LEMMA IntRemainderUnique ==
    ASSUME NEW x \in Int, NEW q \in Int, NEW y \in Int, NEW w \in Nat \ {0},
           0 <= y, y < w, x = q * w + y
    PROVE  x % w = y
OBVIOUS

\* Numbers that differ by a multiple have the same remainder.
LEMMA SameRemainder ==
    ASSUME NEW x \in Int, NEW y \in Int, NEW q \in Int, NEW w \in Nat \ {0}, x = y + q * w
    PROVE  x % w = y % w
<1> DEFINE p == y \div w
           z == y % w
<1>1. y = p * w + z /\ p \in Int /\ z \in Int /\ 0 <= z /\ z < w
  BY IntRemainder
<1> HIDE DEF p, z
<1>2. (p + q) * w = p * w + q * w
  BY <1>1
<1>3. x = (p + q) * w + z /\ p + q \in Int
  BY <1>1, <1>2
<1>4. x % w = z
  BY <1>1, <1>3, IntRemainderUnique
<1> QED BY <1>4 DEF z

-----------------------------------------------------------------------------
\* A set of naturals has a least element.
LEMMA LeastNumber ==
    ASSUME NEW T, T \subseteq Nat, T # {}
    PROVE  \E x \in T : \A y \in T : x <= y
<1> DEFINE R == OpToRel(<, Nat)
<1>1. IsWellFoundedOn(R, Nat)
  BY NatLessThanWellFounded
<1>2. \A x, y \in Nat : x < y => <<x, y>> \in R
  BY DEF OpToRel
<1> HIDE DEF R
<1>3. PICK x \in T : \A y \in T : ~ (<<y, x>> \in R)
  BY <1>1, WFMin
<1>4. \A y \in T : ~(y < x)
  BY <1>2, <1>3
<1>5. \A y \in T : x <= y
  BY <1>4
<1> QED BY <1>5

\* Induction, for the set of the numbers that have a property.
LEMMA Induction ==
    ASSUME NEW S, 0 \in S, \A n \in Nat : n \in S => n + 1 \in S
    PROVE  Nat \subseteq S
<1> DEFINE T == {n \in Nat : n \notin S}
<1> SUFFICES ASSUME T # {} PROVE FALSE
  OBVIOUS
<1>1. PICK x \in T : \A y \in T : x <= y
  BY LeastNumber
<1>2. x # 0 /\ x - 1 \in Nat
  OBVIOUS
<1>3. x - 1 \in S
  BY <1>1, <1>2
<1>4. (x - 1) + 1 \in S
  BY <1>2, <1>3
<1> QED BY <1>4

\* f is what step makes of d, again and again.
Recurs(f, d, step) == f[0] = d /\ \A n \in Nat : f[n + 1] = step[<<n, f[n]>>]

\* There is such a function: it is put together from those on 0 .. n.
LEMMA Recursion ==
    ASSUME NEW D, NEW d \in D, NEW step \in [Nat \X D -> D]
    PROVE  \E f \in [Nat -> D] : Recurs(f, d, step)
<1> DEFINE Good(g, n) == /\ g \in [0 .. n -> D] /\ g[0] = d
                         /\ \A k \in 0 .. (n - 1) : g[k + 1] = step[<<k, g[k]>>]
           S == {n \in Nat : \E g : Good(g, n)}
           G(n) == CHOOSE g : Good(g, n)
           f == [n \in Nat |-> G(n)[n]]
<1>1. 0 \in S
  <2>1. Good([k \in 0 .. 0 |-> d], 0)
    OBVIOUS
  <2> QED BY <2>1
<1>2. ASSUME NEW n \in Nat, n \in S PROVE n + 1 \in S
  <2>1. PICK g : Good(g, n)
    BY <1>2
  <2> DEFINE h == [k \in 0 .. (n + 1) |-> IF k <= n THEN g[k] ELSE step[<<n, g[n]>>]]
  <2>2. step[<<n, g[n]>>] \in D
    BY <2>1
  <2>3. h \in [0 .. (n + 1) -> D]
    BY <2>1, <2>2
  <2>4. h[0] = d
    BY <2>1
  <2>5. \A k \in 0 .. n : h[k + 1] = step[<<k, h[k]>>]
    <3> TAKE k \in 0 .. n
    <3>1. CASE k = n
      BY <3>1
    <3>2. CASE k # n
      <4>1. h[k + 1] = g[k + 1] /\ h[k] = g[k] /\ k \in 0 .. (n - 1)
        BY <3>2
      <4> QED BY <4>1, <2>1
    <3> QED BY <3>1, <3>2
  <2>6. Good(h, n + 1)
    <3> HIDE DEF h
    <3> QED BY <2>3, <2>4, <2>5
  <2>7. \E x : Good(x, n + 1)
    <3> HIDE DEF h, Good
    <3> QED BY <2>6
  <2> QED BY <2>7
<1>3. Nat \subseteq S
  <2> HIDE DEF S
  <2> QED BY <1>1, <1>2, Induction
<1>4. ASSUME NEW n \in Nat PROVE Good(G(n), n)
  <2>1. \E g : Good(g, n)
    BY <1>3
  <2> HIDE DEF Good
  <2> QED BY <2>1
<1>5. ASSUME NEW n \in Nat, NEW g, NEW h, Good(g, n), Good(h, n + 1) PROVE g[n] = h[n]
  <2> DEFINE E == {k \in Nat : k <= n => g[k] = h[k]}
  <2>1. 0 \in E
    BY <1>5
  <2>2. ASSUME NEW k \in Nat, k \in E PROVE k + 1 \in E
    <3> SUFFICES ASSUME k + 1 <= n PROVE g[k + 1] = h[k + 1]
      OBVIOUS
    <3>1. g[k] = h[k]
      BY <2>2
    <3>2. k \in 0 .. (n - 1) /\ k \in 0 .. ((n + 1) - 1)
      OBVIOUS
    <3> QED BY <3>1, <3>2, <1>5
  <2>3. Nat \subseteq E
    <3> HIDE DEF E
    <3> QED BY <2>1, <2>2, Induction
  <2> QED BY <2>3
<1>6. ASSUME NEW n \in Nat PROVE f[n + 1] = step[<<n, f[n]>>]
  <2>1. Good(G(n), n) /\ Good(G(n + 1), n + 1)
    <3> HIDE DEF G, Good
    <3> QED BY <1>4
  <2> HIDE DEF G
  <2>2. G(n)[n] = G(n + 1)[n]
    <3> HIDE DEF Good
    <3> QED BY <2>1, <1>5
  <2>3. n \in 0 .. ((n + 1) - 1)
    OBVIOUS
  <2>4. G(n + 1)[n + 1] = step[<<n, G(n + 1)[n]>>]
    BY <2>1, <2>3
  <2> QED BY <2>2, <2>4
<1>7. f[0] = d
  BY <1>4
<1>8. f \in [Nat -> D]
  <2> SUFFICES ASSUME NEW n \in Nat PROVE G(n)[n] \in D
    OBVIOUS
  <2>1. Good(G(n), n)
    BY <1>4
  <2> HIDE DEF G
  <2> QED BY <2>1
<1> HIDE DEF f
<1> QED BY <1>6, <1>7, <1>8 DEF Recurs

\* The same on a finite interval, as the equation that defines a function.
RecursTo(f, d, step, n) == f[0] = d /\ \A k \in 0 .. (n - 1) : f[k + 1] = step[<<k, f[k]>>]

LEMMA FiniteRecursion ==
    ASSUME NEW D, NEW d \in D, NEW n \in Nat, NEW step \in [Nat \X D -> D]
    PROVE  \E f \in [0 .. n -> D] : RecursTo(f, d, step, n)
<1>1. PICK g \in [Nat -> D] : Recurs(g, d, step)
  BY Recursion
<1> DEFINE f == [k \in 0 .. n |-> g[k]]
<1>2. f \in [0 .. n -> D] /\ f[0] = d
  BY <1>1 DEF Recurs
<1>3. ASSUME NEW k \in 0 .. (n - 1) PROVE f[k + 1] = step[<<k, f[k]>>]
  <2>1. f[k + 1] = g[k + 1] /\ f[k] = g[k] /\ k \in Nat
    OBVIOUS
  <2> HIDE DEF f
  <2> QED BY <1>1, <2>1 DEF Recurs
<1> HIDE DEF f
<1> QED BY <1>2, <1>3 DEF RecursTo
=============================================================================
