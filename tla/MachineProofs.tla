--------------------------- MODULE MachineProofs ----------------------------
(***************************************************************************)
(* What Machine and Inspection promise, for every width of a byte, size of *)
(* the memory and length of a program: the arithmetic is exact, a narrow   *)
(* register changes only its own bytes, what is on the stack stays there,  *)
(* and a watched register is reported when it has changed.                 *)
(***************************************************************************)
EXTENDS Inspection, NumberFacts, SequenceTheorems

\* The equation that defines Pow2.
LEMMA Pow2Def ==
    Pow2 \in [Nat -> Nat] /\ Pow2[0] = 1 /\ \A n \in Nat : Pow2[n + 1] = 2 * Pow2[n]
<1> DEFINE step == [p \in Nat \X Nat |-> 2 * p[2]]
           Rec(f) == f = [n \in Nat |-> IF n = 0 THEN 1 ELSE 2 * f[n - 1]]
<1>1. step \in [Nat \X Nat -> Nat]
  OBVIOUS
<1>2. PICK f \in [Nat -> Nat] : f[0] = 1 /\ \A n \in Nat : f[n + 1] = step[<<n, f[n]>>]
  <2> HIDE DEF step
  <2>1. \E f \in [Nat -> Nat] : Recurs(f, 1, step)
    BY <1>1, Recursion
  <2> QED BY <2>1 DEF Recurs
<1>3. \A n \in Nat : f[n + 1] = 2 * f[n]
  BY <1>2
<1>4. Rec(f)
  <2>1. ASSUME NEW n \in Nat PROVE f[n] = IF n = 0 THEN 1 ELSE 2 * f[n - 1]
    <3>1. CASE n = 0
      BY <3>1, <1>2
    <3>2. CASE n # 0
      <4>1. n - 1 \in Nat /\ (n - 1) + 1 = n
        BY <3>2
      <4> QED BY <4>1, <3>2, <1>3
    <3> QED BY <3>1, <3>2
  <2>2. f = [n \in Nat |-> f[n]]
    OBVIOUS
  <2> QED BY <2>1, <2>2
<1>5. Pow2 = CHOOSE g : Rec(g)
  BY DEF Pow2
<1>6. Rec(Pow2)
  <2> HIDE DEF Rec
  <2> QED BY <1>4, <1>5
<1>7. \A n \in Nat : Pow2[n] = IF n = 0 THEN 1 ELSE 2 * Pow2[n - 1]
  <2> SUFFICES ASSUME NEW n \in Nat PROVE Pow2[n] = IF n = 0 THEN 1 ELSE 2 * Pow2[n - 1]
    OBVIOUS
  <2> QED BY <1>6
<1>8. Pow2[0] = 1 /\ \A n \in Nat : Pow2[n + 1] = 2 * Pow2[n]
  BY <1>7
<1>9. \A n \in Nat : Pow2[n] \in Nat
  <2> DEFINE S == {n \in Nat : Pow2[n] \in Nat}
  <2>1. 0 \in S /\ \A n \in Nat : n \in S => n + 1 \in S
    BY <1>8
  <2> HIDE DEF S
  <2>2. Nat \subseteq S
    BY <2>1, Induction
  <2> USE DEF S
  <2> QED BY <2>2
<1>10. Pow2 \in [Nat -> Nat]
  BY <1>6, <1>9
<1> QED BY <1>8, <1>10

\* Powers are positive.
LEMMA Pow2Positive == \A n \in Nat : Pow2[n] \in Nat \ {0}
<1> DEFINE S == {n \in Nat : Pow2[n] \in Nat \ {0}}
<1>1. 0 \in S /\ \A n \in Nat : n \in S => n + 1 \in S
  BY Pow2Def
<1>2. Nat \subseteq S
  <2> HIDE DEF S
  <2> QED BY <1>1, Induction
<1> QED BY <1>2

\* The power law.
LEMMA Pow2Add == \A m, n \in Nat : Pow2[m + n] = Pow2[m] * Pow2[n]
<1> SUFFICES ASSUME NEW m \in Nat PROVE \A n \in Nat : Pow2[m + n] = Pow2[m] * Pow2[n]
  OBVIOUS
<1> DEFINE S == {n \in Nat : Pow2[m + n] = Pow2[m] * Pow2[n]}
<1>1. 0 \in S
  BY Pow2Def
<1>2. ASSUME NEW n \in Nat, n \in S PROVE n + 1 \in S
  <2> DEFINE a == Pow2[m]
             b == Pow2[n]
  <2>1. a \in Nat /\ b \in Nat /\ Pow2[m + n] = a * b
    BY <1>2, Pow2Def
  <2>2. Pow2[m + (n + 1)] = 2 * Pow2[m + n]
    <3>1. m + (n + 1) = (m + n) + 1 /\ m + n \in Nat
      OBVIOUS
    <3> QED BY <3>1, Pow2Def
  <2>3. Pow2[n + 1] = 2 * b
    BY Pow2Def
  <2> HIDE DEF a, b
  <2>4. 2 * (a * b) = a * (2 * b)
    BY <2>1
  <2>5. Pow2[m + (n + 1)] = a * Pow2[n + 1]
    BY <2>1, <2>2, <2>3, <2>4
  <2> QED BY <2>5 DEF a
<1>3. Nat \subseteq S
  <2> HIDE DEF S
  <2> QED BY <1>1, <1>2, Induction
<1> QED BY <1>3

-----------------------------------------------------------------------------
\* The parts of a number below a, of the factor b above them, and the rest.
LEMMA Split ==
    ASSUME NEW g \in Nat, NEW a \in Nat \ {0}, NEW b \in Nat \ {0}
    PROVE  /\ g \div (a * b) \in Nat /\ (g \div a) % b \in 0 .. (b - 1) /\ g % a \in 0 .. (a - 1)
           /\ g = (g \div (a * b)) * (a * b) + ((g \div a) % b) * a + (g % a)
<1> DEFINE q == g \div a
           lo == g % a
           h == q \div b
           mid == q % b
<1>1. q \in Nat /\ lo \in Nat /\ lo < a /\ g = q * a + lo
  BY Division
<1>2. h \in Nat /\ mid \in Nat /\ mid < b /\ q = h * b + mid
  <2>1. q \in Nat
    BY <1>1
  <2> HIDE DEF q
  <2> QED BY <2>1, Division
<1> HIDE DEF q, lo, h, mid
<1>3. q * a = h * (a * b) + mid * a
  BY <1>1, <1>2
<1>4. mid * a + lo < a * b /\ mid * a + lo \in Nat /\ a * b \in Nat \ {0}
  <2>1. mid * a <= (b - 1) * a
    BY <1>2
  <2>2. (b - 1) * a = a * b - a
    OBVIOUS
  <2>3. mid * a \in Nat /\ a * b \in Nat \ {0}
    BY <1>2
  <2> QED BY <1>1, <2>1, <2>2, <2>3
<1>5. g = h * (a * b) + (mid * a + lo)
  <2> DEFINE x == h * (a * b)
             y == mid * a
             z == q * a
  <2>1. x \in Nat /\ y \in Nat /\ z \in Nat
    BY <1>1, <1>2
  <2> HIDE DEF x, y, z
  <2>2. g = z + lo /\ z = x + y
    BY <1>1, <1>3 DEF x, y, z
  <2>3. g = x + (y + lo)
    BY <1>1, <2>1, <2>2
  <2> QED BY <2>3 DEF x, y
<1> DEFINE c == a * b
           rest == mid * a + lo
<1>6. c \in Nat \ {0} /\ rest \in Nat /\ rest < c /\ g = h * c + rest
  BY <1>4, <1>5
<1>7. g \div c = h
  <2> HIDE DEF c, rest
  <2> QED BY <1>2, <1>6, DivisionUnique
<1>8. g = h * c + mid * a + lo
  <2> DEFINE x == h * c
             y == mid * a
  <2>1. x \in Nat /\ y \in Nat
    BY <1>2, <1>6
  <2>2. g = x + (y + lo)
    BY <1>6
  <2> HIDE DEF x, y
  <2>3. g = x + y + lo
    BY <2>1, <2>2, <1>1
  <2> QED BY <2>3 DEF x, y
<1>9. h \in Nat /\ mid \in 0 .. (b - 1) /\ lo \in 0 .. (a - 1)
  BY <1>1, <1>2
<1>10. g \div (a * b) = h /\ (g \div a) % b = mid /\ g % a = lo
  BY <1>7 DEF q, lo, mid
<1>11. g = h * (a * b) + mid * a + lo
  BY <1>8
<1> QED BY <1>9, <1>10, <1>11

\* A number put together from such parts has these parts.
LEMMA Compose ==
    ASSUME NEW hi \in Nat, NEW mid \in Nat, NEW lo \in Nat, NEW a \in Nat \ {0}, NEW b \in Nat \ {0},
           mid < b, lo < a
    PROVE  /\ (hi * (a * b) + mid * a + lo) % a = lo
           /\ ((hi * (a * b) + mid * a + lo) \div a) % b = mid
           /\ (hi * (a * b) + mid * a + lo) \div (a * b) = hi
           /\ (hi * (a * b) + mid * a + lo) \div a = hi * b + mid
<1> SUFFICES ASSUME NEW g, g = hi * (a * b) + mid * a + lo
             PROVE  /\ g \in Nat /\ g % a = lo /\ (g \div a) % b = mid /\ g \div (a * b) = hi
                    /\ g \div a = hi * b + mid
  OBVIOUS
<1> DEFINE q == hi * b + mid
<1>1. q \in Nat
  OBVIOUS
<1>2. q * a = hi * (a * b) + mid * a
  OBVIOUS
<1>3. g \in Nat /\ g = q * a + lo
  <2> DEFINE x == hi * (a * b)
             y == mid * a
             z == q * a
  <2>1. x \in Nat /\ y \in Nat /\ z \in Nat /\ z = x + y /\ g = x + y + lo
    BY <1>2
  <2> HIDE DEF x, y, z
  <2>2. g \in Nat /\ g = z + lo
    BY <2>1
  <2> QED BY <2>2 DEF z
<1>4. g \div a = q /\ g % a = lo
  <2> HIDE DEF q
  <2> QED BY <1>1, <1>3, DivisionUnique
<1>5. q \div b = hi /\ q % b = mid
  BY <1>1, DivisionUnique
<1>6. g \div (a * b) = hi
  <2> DEFINE c == a * b
             rest == mid * a + lo
  <2>1. mid * a <= (b - 1) * a /\ (b - 1) * a = c - a
    OBVIOUS
  <2>2. mid * a \in Nat /\ c \in Nat \ {0}
    OBVIOUS
  <2>3. rest \in Nat /\ rest < c
    BY <2>1, <2>2
  <2>4. g = hi * c + rest
    <3> DEFINE x == hi * c
               y == mid * a
    <3>1. x \in Nat /\ y \in Nat /\ g = x + y + lo
      OBVIOUS
    <3> HIDE DEF x, y
    <3>2. g = x + (y + lo)
      BY <3>1
    <3> QED BY <3>2 DEF x, y
  <2> HIDE DEF c, rest
  <2>5. g \div c = hi
    BY <1>3, <2>2, <2>3, <2>4, DivisionUnique
  <2> QED BY <2>5 DEF c
<1> QED BY <1>3, <1>4, <1>5, <1>6

\* The three parts, lowest last.
Parts(g, a, b, hi, mid, lo) ==
    /\ mid < b /\ lo < a /\ g = hi * (a * b) + mid * a + lo

\* They are found by dividing.
LEMMA PartsFound ==
    ASSUME NEW g \in Nat, NEW a \in Nat \ {0}, NEW b \in Nat \ {0},
           NEW hi \in Nat, NEW mid \in Nat, NEW lo \in Nat, Parts(g, a, b, hi, mid, lo)
    PROVE  /\ g % a = lo /\ (g \div a) % b = mid /\ g \div (a * b) = hi
           /\ g \div a = hi * b + mid
<1>1. mid < b /\ lo < a /\ g = hi * (a * b) + mid * a + lo
  BY DEF Parts
<1>2. mid < b /\ lo < a
  BY <1>1
<1>3. /\ (hi * (a * b) + mid * a + lo) % a = lo
      /\ ((hi * (a * b) + mid * a + lo) \div a) % b = mid
      /\ (hi * (a * b) + mid * a + lo) \div (a * b) = hi
      /\ (hi * (a * b) + mid * a + lo) \div a = hi * b + mid
  BY <1>2, Compose
<1> QED BY <1>1, <1>3

\* Every number has them.
LEMMA PartsExist ==
    ASSUME NEW g \in Nat, NEW a \in Nat \ {0}, NEW b \in Nat \ {0}
    PROVE  /\ g \div (a * b) \in Nat /\ (g \div a) % b \in Nat /\ g % a \in Nat
           /\ Parts(g, a, b, g \div (a * b), (g \div a) % b, g % a)
<1> DEFINE h == g \div (a * b)
           mid == (g \div a) % b
           lo == g % a
<1>1. /\ h \in Nat /\ mid \in 0 .. (b - 1) /\ lo \in 0 .. (a - 1)
      /\ g = h * (a * b) + mid * a + lo
  BY Split
<1> HIDE DEF h, mid, lo
<1>2. mid \in Nat /\ mid < b /\ lo \in Nat /\ lo < a
  BY <1>1
<1>3. Parts(g, a, b, h, mid, lo)
  BY <1>1, <1>2 DEF Parts
<1> QED BY <1>1, <1>2, <1>3 DEF h, mid, lo

\* Dividing twice.
LEMMA DivideTwice ==
    ASSUME NEW g \in Nat, NEW a \in Nat \ {0}, NEW b \in Nat \ {0}
    PROVE  g \div (a * b) = (g \div a) \div b
<1> DEFINE h == g \div (a * b)
           mid == (g \div a) % b
           q == g \div a
<1>1. Parts(g, a, b, h, mid, g % a)
  BY PartsExist
<1>3. h \in Nat /\ mid \in Nat /\ mid < b /\ g % a \in Nat
  BY <1>1, PartsExist DEF Parts
<1>2. q = h * b + mid
  <2> DEFINE lo == g % a
  <2> HIDE DEF h, mid, lo
  <2>1. Parts(g, a, b, h, mid, lo) /\ lo \in Nat
    BY <1>1, <1>3 DEF lo
  <2> QED BY <1>3, <2>1, PartsFound DEF q
<1> HIDE DEF h, mid, q
<1>4. q \in Nat
  BY <1>2, <1>3
<1>5. q \div b = h
  BY <1>2, <1>3, <1>4, DivisionUnique
<1> QED BY <1>5 DEF h, q

\* The part of the factor d above e, when f is a multiple of e * d, is in the
\* remainder by f.
Agree(x, y, f) == x % f = y % f
Covers(f, e, d) == \E k \in Nat \ {0} : f = e * (d * k)
LowFree(f, e, d) == \A z \in Nat : (z \div e) % d = ((z % f) \div e) % d

LEMMA LowPart ==
    ASSUME NEW z \in Nat, NEW e \in Nat \ {0}, NEW d \in Nat \ {0}, NEW k \in Nat \ {0}
    PROVE  (z \div e) % d = ((z % (e * (d * k))) \div e) % d
<1> DEFINE c == d * k
           w == e * c
           h == z \div w
           mid == (z \div e) % c
           lo == z % e
           u == z % w
<1>1. c \in Nat \ {0}
  OBVIOUS
<1>2. w \in Nat \ {0}
  BY <1>1
<1>3. Parts(z, e, c, h, mid, lo) /\ h \in Nat /\ mid \in Nat /\ lo \in Nat
  <2> HIDE DEF c
  <2> QED BY <1>1, PartsExist
<1>6. h \in Nat /\ mid \in Nat /\ mid < c /\ lo \in Nat /\ lo < e
  <2> HIDE DEF c, h, mid, lo
  <2> QED BY <1>3 DEF Parts
<1>4. z \div e = h * c + mid
  <2> HIDE DEF c, h, mid, lo
  <2> QED BY <1>1, <1>3, <1>6, PartsFound
<1>5. z = h * w + u /\ u \in Nat
  <2> HIDE DEF w
  <2> QED BY <1>2, Division
<1>7. z = h * w + mid * e + lo
  <2> HIDE DEF c, h, mid, lo
  <2> QED BY <1>3 DEF Parts
<1>8. u = mid * e + lo
  <2> DEFINE v == h * w
             m == mid * e
  <2>1. v \in Nat /\ m \in Nat
    <3> HIDE DEF h, mid, w
    <3> QED BY <1>2, <1>6
  <2>2. z = v + m + lo /\ z = v + u
    BY <1>5, <1>7
  <2> HIDE DEF v, m, u, lo
  <2>3. u = m + lo
    BY <2>1, <2>2, <1>5, <1>6
  <2> QED BY <2>3 DEF m
<1>9. u \div e = mid
  <2> HIDE DEF u, mid, lo, c, w, h
  <2> QED BY <1>5, <1>6, <1>8, DivisionUnique
<1>10. (h * c + mid) % d = mid % d
  <2> DEFINE q == h * k
             v == h * c + mid
  <2>1. q \in Nat
    <3> HIDE DEF h
    <3> QED BY <1>6
  <2>2. v = mid + q * d
    <3> HIDE DEF h, mid
    <3> QED BY <1>6
  <2>3. v \in Int /\ mid \in Int /\ q \in Int
    <3>1. h \in Nat /\ c \in Nat /\ mid \in Nat
      BY <1>1, <1>6
    <3> HIDE DEF h, c, mid
    <3> QED BY <3>1, <2>1
  <2> HIDE DEF h, mid, q, v, c
  <2>4. v % d = mid % d
    BY <2>2, <2>3, SameRemainder
  <2> QED BY <2>4 DEF v
<1> QED BY <1>4, <1>9, <1>10

LEMMA LowParts ==
    ASSUME NEW e \in Nat \ {0}, NEW d \in Nat \ {0}, NEW k \in Nat \ {0}
    PROVE  LowFree(e * (d * k), e, d)
<1> SUFFICES ASSUME NEW z \in Nat PROVE (z \div e) % d = ((z % (e * (d * k))) \div e) % d
  BY DEF LowFree
<1> QED BY LowPart

\* Numbers with the same remainder have the same parts below.
LEMMA SameLow ==
    ASSUME NEW x \in Nat, NEW y \in Nat, NEW e \in Nat \ {0}, NEW d \in Nat \ {0},
           NEW f \in Nat \ {0}, Covers(f, e, d), Agree(x, y, f)
    PROVE  (x \div e) % d = (y \div e) % d
<1>1. PICK k \in Nat \ {0} : f = e * (d * k)
  BY DEF Covers
<1>2. LowFree(e * (d * k), e, d)
  BY LowParts
<1>3. LowFree(f, e, d)
  BY <1>1, <1>2
<1>4. (x \div e) % d = ((x % f) \div e) % d /\ (y \div e) % d = ((y % f) \div e) % d
  BY <1>3 DEF LowFree
<1>5. x % f = y % f
  BY DEF Agree
<1> QED BY <1>4, <1>5

\* One part replaced.
LEMMA PutPart ==
    ASSUME NEW g \in Nat, NEW a \in Nat \ {0}, NEW b \in Nat \ {0}, NEW m \in Nat, m < b,
           NEW new, new = g + (m - ((g \div a) % b)) * a
    PROVE  /\ new \in Nat /\ new % a = g % a /\ (new \div a) % b = m
           /\ new \div (a * b) = g \div (a * b)
           /\ \A c \in Nat : g < c * (a * b) => new < c * (a * b)
<1> DEFINE h == g \div (a * b)
           mid == (g \div a) % b
           lo == g % a
           w == a * b
<1>1. Parts(g, a, b, h, mid, lo) /\ h \in Nat /\ mid \in Nat /\ lo \in Nat
  BY PartsExist
<1>2. new = g + (m - mid) * a
  OBVIOUS
<1>w. w \in Nat \ {0}
  OBVIOUS
<1> HIDE DEF h, mid, lo
<1>3. h \in Nat /\ mid \in Nat /\ mid < b /\ lo \in Nat /\ lo < a
  BY <1>1 DEF Parts
<1>4. g = h * w + mid * a + lo
  BY <1>1 DEF Parts
<1> DEFINE x == h * w
           y == mid * a
           z == m * a
<1>5. x \in Nat /\ y \in Nat /\ z \in Nat
  <2> HIDE DEF w
  <2> QED BY <1>3, <1>w
<1>6. (m - mid) * a = z - y
  BY <1>3
<1>7. new = x + z + lo /\ new \in Nat
  <2>1. g = x + y + lo
    BY <1>4
  <2> DEFINE dif == (m - mid) * a
  <2>2. dif = z - y /\ new = g + dif
    BY <1>2, <1>6
  <2> HIDE DEF x, y, z, dif
  <2> QED BY <2>1, <2>2, <1>3, <1>5
<1>8. Parts(new, a, b, h, m, lo)
  BY <1>3, <1>7 DEF Parts
<1>9. new \in Nat /\ new % a = lo /\ (new \div a) % b = m /\ new \div (a * b) = h
  <2>1. new \in Nat
    BY <1>7
  <2> HIDE DEF x, z, w
  <2> QED BY <2>1, <1>3, <1>8, PartsFound
<1>10. ASSUME NEW c \in Nat, g < c * w PROVE new < c * w
  <2>1. h < c
    <3>1. h = g \div w
      BY DEF h
    <3> HIDE DEF w
    <3> QED BY <1>10, <1>w, <3>1, QuotientBound
  <2>2. z + lo < w
    <3>1. z <= (b - 1) * a
      <4>1. m <= b - 1 /\ b - 1 \in Nat
        OBVIOUS
      <4> QED BY <4>1, Products
    <3>2. (b - 1) * a = w - a
      OBVIOUS
    <3>3. z <= w - a
      BY <3>1, <3>2
    <3> HIDE DEF z, w
    <3> QED BY <3>3, <1>w, <1>3, <1>5
  <2>3. x + w <= c * w
    <3> HIDE DEF w
    <3>1. (h + 1) * w <= c * w
      <4>1. h + 1 <= c /\ h + 1 \in Nat
        BY <2>1, <1>3
      <4> QED BY <4>1, <1>w, Products
    <3>2. (h + 1) * w = h * w + w
      BY <1>3, <1>w
    <3> QED BY <3>1, <3>2 DEF x
  <2> DEFINE v == c * w
  <2>4. v \in Nat
    <3> HIDE DEF w
    <3> QED BY <1>w
  <2>5. x + w <= v
    BY <2>3
  <2> HIDE DEF x, z, w, v
  <2>6. new < v
    BY <2>2, <2>4, <2>5, <1>3, <1>5, <1>7, <1>w
  <2> QED BY <2>6 DEF v
<1>11. \A c \in Nat : g < c * (a * b) => new < c * (a * b)
  BY <1>10
<1> QED BY <1>9, <1>11 DEF h, lo

-----------------------------------------------------------------------------
\* Spans are powers, so that they multiply where widths add.
LEMMA Spans ==
    /\ \A w \in Nat : Span(w) \in Nat \ {0}
    /\ \A s, t \in Nat : Span(s + t) = Span(s) * Span(t)
    /\ Word \in Nat \ {0} /\ Span(0) = 1
<1> USE AluAssumption
<1>1. \A w \in Nat : Bits(w) \in Nat
  BY DEF Bits
<1>2. \A w \in Nat : Span(w) \in Nat \ {0}
  BY <1>1, Pow2Positive DEF Span
<1>3. ASSUME NEW s \in Nat, NEW t \in Nat PROVE Span(s + t) = Span(s) * Span(t)
  <2>1. Bits(s + t) = Bits(s) + Bits(t)
    BY DEF Bits
  <2> QED BY <1>1, <2>1, Pow2Add DEF Span
<1>4. Span(0) = 1
  <2>1. Bits(0) = 0
    BY DEF Bits
  <2> QED BY <2>1, Pow2Def DEF Span
<1> QED BY <1>2, <1>3, <1>4 DEF Word

LEMMA SpanType == \A w \in Width : Span(w) \in Nat \ {0}
BY Spans DEF Width

\* u bytes of g from byte t on.
Field(g, t, u) == (g \div Span(t)) % Span(u)

\* A field is a number of its width.
LEMMA FieldRange ==
    ASSUME NEW g \in Nat, NEW t \in Nat, NEW u \in Nat
    PROVE  Field(g, t, u) \in Nat /\ Field(g, t, u) < Span(u)
<1>1. Span(t) \in Nat \ {0} /\ Span(u) \in Nat \ {0}
  BY Spans
<1>2. g \div Span(t) \in Nat
  BY <1>1, Division
<1> DEFINE q == g \div Span(t)
           b == Span(u)
<1>3. q \in Nat /\ b \in Nat \ {0} /\ Field(g, t, u) = q % b
  BY <1>1, <1>2 DEF Field
<1> HIDE DEF q, b
<1>4. q % b \in 0 .. (b - 1)
  BY <1>3, Division
<1>5. q % b \in Nat /\ q % b < b
  BY <1>3, <1>4
<1> QED BY <1>3, <1>5 DEF b

\* The fields below byte s.
LEMMA FieldBelow ==
    ASSUME NEW g \in Nat, NEW new \in Nat, NEW s \in Nat, NEW t \in Nat, NEW u \in Nat,
           t + u <= s, Agree(new, g, Span(s))
    PROVE  Field(new, t, u) = Field(g, t, u)
<1> DEFINE a == Span(s)
<1>a. a \in Nat \ {0} /\ Agree(new, g, a)
  BY Spans
<1> DEFINE e == Span(t)
           d == Span(u)
           k == Span(s - (t + u))
<1>1. e \in Nat \ {0} /\ d \in Nat \ {0} /\ k \in Nat \ {0}
  <2>1. s - (t + u) \in Nat
    OBVIOUS
  <2> QED BY <2>1, Spans
<1>2. a = e * (d * k)
  <2>1. s - (t + u) \in Nat /\ s = t + (u + (s - (t + u))) /\ u + (s - (t + u)) \in Nat
    OBVIOUS
  <2>2. Span(s) = Span(t) * Span(u + (s - (t + u)))
    BY <2>1, Spans
  <2>3. Span(u + (s - (t + u))) = Span(u) * Span(s - (t + u))
    BY <2>1, Spans
  <2> QED BY <2>2, <2>3
<1> HIDE DEF a, e, d, k
<1>4. Covers(a, e, d)
  BY <1>1, <1>2 DEF Covers
<1>6. (new \div e) % d = (g \div e) % d
  BY <1>a, <1>1, <1>4, SameLow
<1> QED BY <1>6 DEF Field, e, d

\* w bytes from byte s on replaced, and all other fields as they were.
LEMMA PutField ==
    ASSUME NEW g \in Values, NEW s \in Nat, NEW w \in Nat, s + w <= 8, NEW x \in Int,
           NEW new, new = g + ((x % Span(w)) - Field(g, s, w)) * Span(s)
    PROVE  /\ new \in Values
           /\ Field(new, s, w) = x % Span(w)
           /\ \A t, u \in Nat : t + u <= s \/ s + w <= t => Field(new, t, u) = Field(g, t, u)
<1> DEFINE a == Span(s)
           b == Span(w)
           m == x % b
<1>1. a \in Nat \ {0} /\ b \in Nat \ {0} /\ g \in Nat /\ g < Word
  BY Spans DEF Values
<1>2. m \in Nat /\ m < b
  <2> HIDE DEF b
  <2> QED BY <1>1, IntRemainder
<1>3. new = g + (m - ((g \div a) % b)) * a
  BY DEF Field
<1>4. Word = Span(8 - (s + w)) * (a * b)
  <2>1. 8 = (8 - (s + w)) + (s + w) /\ 8 - (s + w) \in Nat /\ s + w \in Nat
    OBVIOUS
  <2>2. Span(8) = Span(8 - (s + w)) * Span(s + w)
    BY <2>1, Spans
  <2> QED BY <2>2, Spans DEF Word
<1>5. Span(8 - (s + w)) \in Nat
  <2>1. 8 - (s + w) \in Nat
    OBVIOUS
  <2> QED BY <2>1, Spans
<1>6. /\ new \in Nat /\ new % a = g % a /\ (new \div a) % b = m
      /\ new \div (a * b) = g \div (a * b)
      /\ \A c \in Nat : g < c * (a * b) => new < c * (a * b)
  <2> HIDE DEF a, b, m
  <2> QED BY <1>1, <1>2, <1>3, PutPart
<1>7. new \in Values
  <2>1. new < Word
    BY <1>1, <1>4, <1>5, <1>6
  <2> QED BY <1>6, <2>1, Spans DEF Values
<1>8. ASSUME NEW t \in Nat, NEW u \in Nat, t + u <= s PROVE Field(new, t, u) = Field(g, t, u)
  <2>1. Agree(new, g, Span(s))
    BY <1>6 DEF Agree
  <2> QED BY <1>1, <1>6, <1>8, <2>1, FieldBelow
<1>9. ASSUME NEW t \in Nat, NEW u \in Nat, s + w <= t PROVE Field(new, t, u) = Field(g, t, u)
  <2> DEFINE c == a * b
             k == Span(t - (s + w))
  <2>1. c \in Nat \ {0} /\ k \in Nat \ {0} /\ Span(t) = c * k
    <3>1. t - (s + w) \in Nat /\ t = (s + w) + (t - (s + w)) /\ s + w \in Nat
      BY <1>9
    <3>2. Span(t) = Span(s + w) * Span(t - (s + w)) /\ Span(s + w) = a * b
      BY <3>1, Spans
    <3>3. Span(t - (s + w)) \in Nat \ {0} /\ Span(s + w) \in Nat \ {0}
      BY <3>1, Spans
    <3> QED BY <3>2, <3>3
  <2>2. new \div c = g \div c /\ new \in Nat /\ g \in Nat
    BY <1>1, <1>6
  <2> HIDE DEF c, k
  <2>3. new \div (c * k) = (new \div c) \div k /\ g \div (c * k) = (g \div c) \div k
    BY <2>1, <2>2, DivideTwice
  <2>4. new \div Span(t) = g \div Span(t)
    BY <2>1, <2>2, <2>3
  <2> QED BY <2>4 DEF Field
<1>10. Field(new, s, w) = x % Span(w)
  BY <1>6 DEF Field
<1> QED BY <1>7, <1>8, <1>9, <1>10

-----------------------------------------------------------------------------
RegisterFile == [0 .. (FerCount - 1) -> Values]

Offset(w, i) == (w * i) % 8

\* Where the registers used by the program lie: within one of the first four.
LEMMA Slots ==
    ASSUME NEW w \in Width, NEW i \in 0 .. 3
    PROVE  /\ Home(w, i) \in 0 .. 3 /\ Offset(w, i) \in 0 .. 7 /\ Offset(w, i) + w <= 8
           /\ w * i = 8 * Home(w, i) + Offset(w, i) /\ w \in Nat
           /\ Shift(w, i) = Span(Offset(w, i))
<1> DEFINE h == (w * i) \div 8
           o == (w * i) % 8
<1>1. h \in 0 .. 3 /\ o \in 0 .. 7 /\ o + w <= 8 /\ w * i = 8 * h + o /\ w \in Nat
  <2>1. CASE w = 1
    BY <2>1
  <2>2. CASE w = 2
    BY <2>2
  <2>3. CASE w = 4
    BY <2>3
  <2>4. CASE w = 8
    BY <2>4
  <2> QED BY <2>1, <2>2, <2>3, <2>4 DEF Width
<1>2. Home(w, i) = h /\ Offset(w, i) = o /\ Shift(w, i) = Span(o)
  BY DEF Home, Offset, Shift, Span
<1> QED BY <1>1, <1>2

LEMMA SlotTypes ==
    \A w \in Width, i \in 0 .. 3 :
        /\ w \in Nat /\ Home(w, i) \in 0 .. (FerCount - 1)
        /\ Offset(w, i) \in Nat /\ Offset(w, i) + w <= 8
        /\ Shift(w, i) = Span(Offset(w, i))
<1> SUFFICES ASSUME NEW w \in Width, NEW i \in 0 .. 3
             PROVE  /\ w \in Nat /\ Home(w, i) \in 0 .. (FerCount - 1)
                    /\ Offset(w, i) \in Nat /\ Offset(w, i) + w <= 8
                    /\ Shift(w, i) = Span(Offset(w, i))
  OBVIOUS
<1>1. /\ Home(w, i) \in 0 .. 3 /\ Offset(w, i) \in 0 .. 7 /\ Offset(w, i) + w <= 8 /\ w \in Nat
      /\ Shift(w, i) = Span(Offset(w, i))
  BY Slots
<1> QED BY <1>1, AluAssumption

\* Two registers of one width do not overlap.
LEMMA SlotsApart ==
    ASSUME NEW w \in Width, NEW i \in 0 .. 3, NEW j \in 0 .. 3, i # j, Home(w, i) = Home(w, j)
    PROVE  Offset(w, j) + w <= Offset(w, i) \/ Offset(w, i) + w <= Offset(w, j)
<1>1. CASE w = 1
  BY <1>1 DEF Home, Offset
<1>2. CASE w = 2
  BY <1>2 DEF Home, Offset
<1>3. CASE w = 4
  BY <1>3 DEF Home, Offset
<1>4. CASE w = 8
  BY <1>4 DEF Home, Offset
<1> QED BY <1>1, <1>2, <1>3, <1>4 DEF Width

\* A register is a field.
LEMMA LoadField ==
    ASSUME NEW gp, NEW w \in Width, NEW i \in 0 .. 3
    PROVE  Load(gp, w, i) = Field(gp[Home(w, i)], Offset(w, i), w)
BY SlotTypes DEF Load, Field

\* It holds a number of its width.
LEMMA LoadRange ==
    ASSUME NEW gp \in RegisterFile, NEW w \in Width, NEW i \in 0 .. 3
    PROVE  Load(gp, w, i) \in Nat /\ Load(gp, w, i) < Span(w)
<1>1. gp[Home(w, i)] \in Values
  BY SlotTypes DEF RegisterFile
<1>2. gp[Home(w, i)] \in Nat
  BY <1>1, Spans DEF Values
<1>3. Offset(w, i) \in Nat /\ w \in Nat
  BY SlotTypes
<1> DEFINE g == gp[Home(w, i)]
           o == Offset(w, i)
<1>4. Load(gp, w, i) = Field(g, o, w)
  BY LoadField
<1>5. Field(g, o, w) \in Nat /\ Field(g, o, w) < Span(w)
  <2>1. g \in Nat /\ o \in Nat /\ w \in Nat
    BY <1>2, <1>3
  <2> HIDE DEF g, o
  <2> QED BY <2>1, FieldRange
<1> QED BY <1>4, <1>5

\* What a store does to the 64-bit register it goes to.
LEMMA StoreField ==
    ASSUME NEW gp \in RegisterFile, NEW w \in Width, NEW i \in 0 .. 3, NEW x \in Int
    PROVE  /\ Store(gp, w, i, x) \in RegisterFile
           /\ Field(Store(gp, w, i, x)[Home(w, i)], Offset(w, i), w) = x % Span(w)
           /\ \A t, u \in Nat : t + u <= Offset(w, i) \/ Offset(w, i) + w <= t =>
                  Field(Store(gp, w, i, x)[Home(w, i)], t, u) = Field(gp[Home(w, i)], t, u)
           /\ \A h \in (0 .. (FerCount - 1)) \ {Home(w, i)} : Store(gp, w, i, x)[h] = gp[h]
<1> DEFINE h == Home(w, i)
           o == Offset(w, i)
           g == gp[h]
           new == g + ((x % Span(w)) - Field(g, o, w)) * Span(o)
<1>1. h \in 0 .. (FerCount - 1) /\ o \in Nat /\ w \in Nat /\ o + w <= 8
  BY SlotTypes
<1>2. g \in Values
  BY <1>1 DEF RegisterFile
<1>3. Store(gp, w, i, x) = [gp EXCEPT ![h] = new]
  BY SlotTypes, LoadField DEF Store
<1>4. /\ new \in Values /\ Field(new, o, w) = x % Span(w)
      /\ \A t, u \in Nat : t + u <= o \/ o + w <= t => Field(new, t, u) = Field(g, t, u)
  <2> DEFINE n == new
  <2>1. n = g + ((x % Span(w)) - Field(g, o, w)) * Span(o)
    OBVIOUS
  <2> HIDE DEF n, g, o, h
  <2> QED BY <1>1, <1>2, <2>1, PutField DEF n
<1>5. Store(gp, w, i, x)[h] = new
  <2> HIDE DEF h, new
  <2> QED BY <1>1, <1>3 DEF RegisterFile
<1> HIDE DEF new
<1>6. \A k \in (0 .. (FerCount - 1)) \ {h} : Store(gp, w, i, x)[k] = gp[k]
  BY <1>3 DEF RegisterFile
<1>7. Store(gp, w, i, x) \in RegisterFile
  BY <1>1, <1>3, <1>4 DEF RegisterFile
<1> QED BY <1>4, <1>5, <1>6, <1>7

\* The same, conclusion by conclusion.
LEMMA StoreTyped ==
    \A gp \in RegisterFile, w \in Width, i \in 0 .. 3, x \in Int : Store(gp, w, i, x) \in RegisterFile
BY StoreField

LEMMA StoreOwn ==
    \A gp \in RegisterFile, w \in Width, i \in 0 .. 3, x \in Int :
        Field(Store(gp, w, i, x)[Home(w, i)], Offset(w, i), w) = x % Span(w)
BY StoreField

LEMMA StoreBeside ==
    \A gp \in RegisterFile, w \in Width, i \in 0 .. 3, x \in Int : \A t, u \in Nat :
        t + u <= Offset(w, i) \/ Offset(w, i) + w <= t =>
            Field(Store(gp, w, i, x)[Home(w, i)], t, u) = Field(gp[Home(w, i)], t, u)
BY StoreField

LEMMA StoreElsewhere ==
    \A gp \in RegisterFile, w \in Width, i \in 0 .. 3, x \in Int, h \in 0 .. (FerCount - 1) :
        h # Home(w, i) => Store(gp, w, i, x)[h] = gp[h]
<1> SUFFICES ASSUME NEW gp \in RegisterFile, NEW w \in Width, NEW i \in 0 .. 3, NEW x \in Int
             PROVE  \A h \in 0 .. (FerCount - 1) : h # Home(w, i) => Store(gp, w, i, x)[h] = gp[h]
  OBVIOUS
<1>1. \A h \in (0 .. (FerCount - 1)) \ {Home(w, i)} : Store(gp, w, i, x)[h] = gp[h]
  BY StoreField
<1> QED BY <1>1

\* A register reads back as it was stored, at its width.
LEMMA LoadStored ==
    ASSUME NEW gp \in RegisterFile, NEW w \in Width, NEW i \in 0 .. 3, NEW x \in Int
    PROVE  Load(Store(gp, w, i, x), w, i) = x % Span(w)
<1>1. Load(Store(gp, w, i, x), w, i) = Field(Store(gp, w, i, x)[Home(w, i)], Offset(w, i), w)
  BY LoadField
<1> QED BY <1>1, StoreOwn

\* The other registers of the same width keep their values.
LEMMA LoadOther ==
    ASSUME NEW gp \in RegisterFile, NEW w \in Width, NEW i \in 0 .. 3, NEW j \in 0 .. 3, i # j,
           NEW x \in Int
    PROVE  Load(Store(gp, w, i, x), w, j) = Load(gp, w, j)
<1> DEFINE new == Store(gp, w, i, x)
<1>1. /\ Home(w, j) \in 0 .. (FerCount - 1) /\ Offset(w, j) \in Nat /\ Offset(w, i) \in Nat
      /\ w \in Nat
  BY SlotTypes
<1>2. Field(new[Home(w, j)], Offset(w, j), w) = Field(gp[Home(w, j)], Offset(w, j), w)
  <2>1. CASE Home(w, i) = Home(w, j)
    BY <2>1, <1>1, SlotsApart, StoreBeside
  <2>2. CASE Home(w, i) # Home(w, j)
    <3>1. new[Home(w, j)] = gp[Home(w, j)]
      BY <2>2, <1>1, StoreElsewhere
    <3> QED BY <3>1
  <2> QED BY <2>1, <2>2
<1> QED BY <1>2, LoadField

\* A store changes the bytes of its register alone.
LEMMA StoreBytes ==
    ASSUME NEW gp \in RegisterFile, NEW w \in Width, NEW i \in 0 .. 3, NEW x \in Int,
           NEW k \in 0 .. (8 * FerCount - 1), k \notin (w * i) .. (w * i + w - 1)
    PROVE  Byte(Store(gp, w, i, x), k) = Byte(gp, k)
<1> DEFINE h == k \div 8
           t == k % 8
           new == Store(gp, w, i, x)
<1>1. h \in 0 .. (FerCount - 1) /\ t \in Nat /\ k = 8 * h + t /\ t < 8
  BY AluAssumption
<1>2. Byte(new, k) = Field(new[h], t, 1) /\ Byte(gp, k) = Field(gp[h], t, 1)
  BY DEF Byte, Field, Span
<1>3. /\ Home(w, i) \in 0 .. 3 /\ Offset(w, i) \in 0 .. 7 /\ w \in Nat
      /\ w * i = 8 * Home(w, i) + Offset(w, i)
  BY Slots
<1>4. Field(new[h], t, 1) = Field(gp[h], t, 1)
  <2>1. CASE h = Home(w, i)
    <3>1. t + 1 <= Offset(w, i) \/ Offset(w, i) + w <= t
      <4> DEFINE wi == w * i
                 o == Offset(w, i)
      <4>1. k < wi \/ wi + w <= k
        <5>1. wi \in Int
          BY <1>3
        <5> QED BY <5>1, <1>3
      <4>2. wi = 8 * h + o /\ o \in 0 .. 7
        BY <1>3, <2>1
      <4> HIDE DEF wi, h, t, o
      <4>3. t + 1 <= o \/ o + w <= t
        BY <4>1, <4>2, <1>1, <1>3
      <4> QED BY <4>3 DEF o
    <3>2. Field(new[Home(w, i)], t, 1) = Field(gp[Home(w, i)], t, 1)
      BY <3>1, <1>1, StoreBeside
    <3> QED BY <3>2, <2>1
  <2>2. CASE h # Home(w, i)
    <3>1. new[h] = gp[h]
      BY <2>2, <1>1, StoreElsewhere
    <3> QED BY <3>1
  <2> QED BY <2>1, <2>2
<1> QED BY <1>2, <1>4

-----------------------------------------------------------------------------
\* Spans are even, and grow.
Half(w) == Pow2[Bits(w) - 1]

LEMMA HalfSpan ==
    ASSUME NEW w \in Width
    PROVE  /\ Half(w) \in Nat \ {0} /\ Span(w) = 2 * Half(w) /\ Span(w) \div 2 = Half(w)
           /\ Bits(w) \in Nat \ {0}
<1>1. Bits(w) \in Nat \ {0}
  BY AluAssumption DEF Bits, Width
<1>2. Bits(w) - 1 \in Nat /\ Bits(w) = (Bits(w) - 1) + 1
  BY <1>1
<1> DEFINE n == Bits(w) - 1
<1>3. n \in Nat /\ Pow2[n + 1] = 2 * Pow2[n] /\ Pow2[n] \in Nat \ {0}
  <2>1. n \in Nat
    BY <1>2
  <2> HIDE DEF n
  <2> QED BY <2>1, Pow2Def, Pow2Positive
<1>4. Span(w) = 2 * Pow2[n]
  <2>1. n + 1 = Bits(w)
    BY <1>2
  <2> HIDE DEF n
  <2> QED BY <1>3, <2>1 DEF Span
<1> DEFINE h == Pow2[n]
<1>5. h \in Nat \ {0} /\ Span(w) = 2 * h
  BY <1>3, <1>4
<1>6. Half(w) = h
  BY DEF Half
<1> HIDE DEF h
<1>7. Span(w) \div 2 = h
  BY <1>5
<1> QED BY <1>1, <1>5, <1>6, <1>7

\* The 64-bit word holds every narrower number, and two of the half widths.
LEMMA WordHolds ==
    ASSUME NEW w \in Width
    PROVE  /\ \E k \in Nat \ {0} : Word = k * Span(w)
           /\ Span(w) <= Word
           /\ w <= 4 => \E k \in Nat \ {0} : Word = k * (Span(w) * Span(w))
<1>1. 8 - w \in Nat /\ w \in Nat /\ 8 = (8 - w) + w
  BY DEF Width
<1>2. Word = Span(8 - w) * Span(w) /\ Span(8 - w) \in Nat \ {0} /\ Span(w) \in Nat \ {0}
  <2> DEFINE v == 8 - w
  <2>1. v \in Nat /\ w \in Nat /\ v + w = 8
    BY <1>1
  <2>2. Span(v + w) = Span(v) * Span(w)
    <3> HIDE DEF v
    <3> QED BY <2>1, Spans
  <2>3. Span(v) \in Nat \ {0} /\ Span(w) \in Nat \ {0}
    <3> HIDE DEF v
    <3> QED BY <2>1, Spans
  <2> QED BY <2>1, <2>2, <2>3 DEF Word
<1>3. Span(w) <= Word
  <2> DEFINE a == Span(8 - w)
             b == Span(w)
  <2>1. Word = a * b /\ a \in Nat \ {0} /\ b \in Nat \ {0}
    BY <1>2
  <2> HIDE DEF a, b
  <2>2. 1 * b <= a * b
    BY <2>1, Products
  <2>3. b <= Word
    BY <2>1, <2>2
  <2> QED BY <2>3 DEF b
<1>4. ASSUME w <= 4 PROVE \E k \in Nat \ {0} : Word = k * (Span(w) * Span(w))
  <2> DEFINE v == 8 - (w + w)
  <2>1. v \in Nat /\ w \in Nat /\ w + w \in Nat /\ v + (w + w) = 8
    BY <1>1, <1>4 DEF Width
  <2> HIDE DEF v
  <2>2. Span(v + (w + w)) = Span(v) * Span(w + w)
    BY <2>1, Spans
  <2>3. Span(w + w) = Span(w) * Span(w)
    BY <2>1, Spans
  <2>4. Span(v) \in Nat \ {0}
    BY <2>1, Spans
  <2>5. Word = Span(v) * (Span(w) * Span(w))
    BY <2>1, <2>2, <2>3 DEF Word
  <2> QED BY <2>4, <2>5
<1> QED BY <1>2, <1>3, <1>4

-----------------------------------------------------------------------------
\* A number put together from bits, or from any other numbers, is a number.
LEMMA FromBitsType ==
    ASSUME NEW n \in Nat, NEW b \in [0 .. (n - 1) -> Int]
    PROVE  FromBits(n, b) \in Int
<1> DEFINE step == [p \in Nat \X Int |->
                      IF p[1] \in 0 .. (n - 1) THEN p[2] + b[p[1]] * Pow2[p[1]] ELSE 0]
           Rec(g) == g = [k \in 0 .. n |-> IF k = 0 THEN 0 ELSE g[k - 1] + b[k - 1] * Pow2[k - 1]]
           sum == CHOOSE g : Rec(g)
<1>0. \A k \in Nat : Pow2[k] \in Int
  BY Pow2Def
<1>1. step \in [Nat \X Int -> Int]
  <2> SUFFICES ASSUME NEW p \in Nat \X Int, p[1] \in 0 .. (n - 1)
               PROVE  p[2] + b[p[1]] * Pow2[p[1]] \in Int
    OBVIOUS
  <2>1. p[2] \in Int /\ b[p[1]] \in Int /\ Pow2[p[1]] \in Int
    BY <1>0
  <2> QED BY <2>1
<1>2. PICK f \in [Nat -> Int] : Recurs(f, 0, step)
  <2> HIDE DEF step
  <2>1. 0 \in Int
    OBVIOUS
  <2> QED BY <1>1, <2>1, Recursion
<1>3. \A k \in 0 .. (n - 1) : f[k + 1] = f[k] + b[k] * Pow2[k]
  <2> TAKE k \in 0 .. (n - 1)
  <2>1. f[k + 1] = step[<<k, f[k]>>] /\ <<k, f[k]>> \in Nat \X Int
    <3> HIDE DEF step
    <3> QED BY <1>2 DEF Recurs
  <2> QED BY <2>1
<1> DEFINE h == [k \in 0 .. n |-> f[k]]
<1>4. Rec(h)
  <2>1. ASSUME NEW k \in 0 .. n
        PROVE  h[k] = IF k = 0 THEN 0 ELSE h[k - 1] + b[k - 1] * Pow2[k - 1]
    <3>1. CASE k = 0
      BY <3>1, <1>2 DEF Recurs
    <3>2. CASE k # 0
      <4>1. k - 1 \in 0 .. (n - 1) /\ (k - 1) + 1 = k /\ k - 1 \in 0 .. n
        BY <3>2
      <4>2. h[k] = f[k] /\ h[k - 1] = f[k - 1]
        BY <4>1
      <4> HIDE DEF h
      <4>3. f[(k - 1) + 1] = f[k - 1] + b[k - 1] * Pow2[k - 1]
        BY <4>1, <1>3
      <4> QED BY <4>1, <4>2, <4>3, <3>2
    <3> QED BY <3>1, <3>2
  <2> QED BY <2>1
<1>5. Rec(sum)
  <2> HIDE DEF Rec, h
  <2> QED BY <1>4
<1>6. FromBits(n, b) = sum[n]
  BY DEF FromBits
<1> HIDE DEF sum
<1>7. \A k \in 0 .. n : sum[k] = IF k = 0 THEN 0 ELSE sum[k - 1] + b[k - 1] * Pow2[k - 1]
  <2> TAKE k \in 0 .. n
  <2> QED BY <1>5
<1> DEFINE S == {k \in Nat : k <= n => sum[k] \in Int}
<1>8. 0 \in S
  BY <1>7
<1>9. ASSUME NEW k \in Nat, k \in S PROVE k + 1 \in S
  <2> SUFFICES ASSUME k + 1 <= n PROVE sum[k + 1] \in Int
    OBVIOUS
  <2>1. sum[k] \in Int /\ k \in 0 .. (n - 1) /\ k + 1 \in 0 .. n /\ (k + 1) - 1 = k /\ k + 1 # 0
    BY <1>9
  <2>2. sum[k + 1] = sum[k] + b[k] * Pow2[k]
    BY <2>1, <1>7
  <2>3. b[k] \in Int /\ Pow2[k] \in Int
    BY <2>1, <1>0
  <2> QED BY <2>1, <2>2, <2>3
<1>10. Nat \subseteq S
  <2> HIDE DEF S
  <2> QED BY <1>8, <1>9, Induction
<1> QED BY <1>6, <1>10

-----------------------------------------------------------------------------
\* What rcl and rcr rotate: a value and the carry.
CarryPairs(w) == (0 .. (Span(w) - 1)) \X (0 .. 1)

\* One step of each.
RclStep(w) == [p \in CarryPairs(w) |->
    <<((2 * p[1]) % Span(w)) + p[2], p[1] \div (Span(w) \div 2)>>]
RcrStep(w) == [p \in CarryPairs(w) |->
    <<(p[1] \div 2) + p[2] * (Span(w) \div 2), p[1] % 2>>]

\* Halves and doubles below 2 * h.
Doubled(h, x, c) ==
    /\ ((2 * x) % (2 * h)) + c \in 0 .. (2 * h - 1) /\ x \div h \in 0 .. 1
    /\ ((((2 * x) % (2 * h)) + c) \div 2) + (x \div h) * h = x
    /\ (((2 * x) % (2 * h)) + c) % 2 = c
Halved(h, x, c) ==
    /\ (x \div 2) + c * h \in 0 .. (2 * h - 1) /\ x % 2 \in 0 .. 1
    /\ ((2 * ((x \div 2) + c * h)) % (2 * h)) + (x % 2) = x
    /\ ((x \div 2) + c * h) \div h = c

LEMMA DoubleHalf ==
    ASSUME NEW h \in Nat \ {0}, NEW x \in Nat, x < 2 * h, NEW c \in 0 .. 1
    PROVE  Doubled(h, x, c) /\ Halved(h, x, c)
<1> DEFINE y == IF x < h THEN x ELSE x - h
           d == IF x < h THEN 0 ELSE 1
<1>1. y \in Nat /\ y < h /\ d \in 0 .. 1 /\ x = d * h + y
  OBVIOUS
<1>2. x \div h = d
  <2> HIDE DEF y, d
  <2> QED BY <1>1, DivisionUnique
<1>3. (2 * x) % (2 * h) = 2 * y
  <2>1. 2 * x = d * (2 * h) + 2 * y
    BY <1>1
  <2> DEFINE X == 2 * x
             M == 2 * h
             Y == 2 * y
  <2>2. X \in Nat /\ M \in Nat \ {0} /\ Y \in Nat /\ Y < M /\ d \in Nat /\ X = d * M + Y
    BY <1>1, <2>1
  <2> HIDE DEF y, d, X, M, Y
  <2>3. X % M = Y
    BY <2>2, DivisionUnique
  <2> QED BY <2>3 DEF X, M, Y
<1>4. d * h = IF d = 0 THEN 0 ELSE h
  OBVIOUS
<1>5. /\ (2 * y) + c \in 0 .. (2 * h - 1) /\ ((2 * y) + c) \div 2 = y /\ ((2 * y) + c) % 2 = c
  <2> HIDE DEF y, d
  <2> QED BY <1>1
<1> DEFINE z == x \div 2
           e == x % 2
<1>6. z \in Nat /\ e \in 0 .. 1 /\ x = 2 * z + e /\ z < h
  OBVIOUS
<1>7. c * h = IF c = 0 THEN 0 ELSE h
  OBVIOUS
<1>8. z + c * h \in 0 .. (2 * h - 1) /\ (z + c * h) \div h = c
  <2>1. z + c * h \in Nat /\ z + c * h = c * h + z /\ z + c * h < 2 * h
    <3> HIDE DEF z, e
    <3> QED BY <1>6, <1>7
  <2> DEFINE q == z + c * h
  <2>2. q \in Nat /\ q = c * h + z /\ q < 2 * h
    BY <2>1
  <2> HIDE DEF z, e, q
  <2>3. q \div h = c
    BY <2>2, <1>6, DivisionUnique
  <2>4. q \in 0 .. (2 * h - 1)
    BY <2>2
  <2> QED BY <2>3, <2>4 DEF q
<1>9. (2 * (z + c * h)) % (2 * h) = 2 * z
  <2>1. 2 * (z + c * h) = c * (2 * h) + 2 * z
    <3> HIDE DEF z, e
    <3> QED BY <1>6
  <2> DEFINE q == 2 * (z + c * h)
             M == 2 * h
             Z == 2 * z
  <2>2. q = c * M + Z /\ q \in Nat /\ M \in Nat \ {0} /\ Z \in Nat /\ Z < M /\ c \in Nat
    <3>1. z + c * h \in Nat
      BY <1>8
    <3> QED BY <2>1, <3>1, <1>6
  <2> HIDE DEF z, e, q, M, Z
  <2>3. q % M = Z
    BY <2>2, DivisionUnique
  <2> QED BY <2>3 DEF q, M, Z
<1> HIDE DEF y, d, z, e
<1>10. /\ ((2 * x) % (2 * h)) + c \in 0 .. (2 * h - 1) /\ x \div h \in 0 .. 1
       /\ ((((2 * x) % (2 * h)) + c) \div 2) + (x \div h) * h = x
       /\ (((2 * x) % (2 * h)) + c) % 2 = c
  <2>1. y + d * h = x
    BY <1>1
  <2> QED BY <1>1, <1>2, <1>3, <1>5, <2>1
<1>11. /\ (x \div 2) + c * h \in 0 .. (2 * h - 1) /\ x % 2 \in 0 .. 1
       /\ ((2 * ((x \div 2) + c * h)) % (2 * h)) + (x % 2) = x
       /\ ((x \div 2) + c * h) \div h = c
  <2>1. x \div 2 = z /\ x % 2 = e
    BY DEF z, e
  <2>2. 2 * z + e = x
    BY <1>6
  <2> QED BY <1>6, <1>8, <1>9, <2>1, <2>2
<1> QED BY <1>10, <1>11 DEF Doubled, Halved

\* The steps undo each other.
LEMMA StepsInverse ==
    ASSUME NEW w \in Width
    PROVE  /\ RclStep(w) \in [CarryPairs(w) -> CarryPairs(w)] /\ RcrStep(w) \in [CarryPairs(w) -> CarryPairs(w)]
           /\ \A p \in CarryPairs(w) : RcrStep(w)[RclStep(w)[p]] = p /\ RclStep(w)[RcrStep(w)[p]] = p
<1> DEFINE h == Half(w)
           L == RclStep(w)
           R == RcrStep(w)
<1>1. h \in Nat \ {0} /\ Span(w) = 2 * h /\ Span(w) \div 2 = h
  BY HalfSpan
<1> HIDE DEF h
<1>2. CarryPairs(w) = (0 .. (2 * h - 1)) \X (0 .. 1)
  BY <1>1 DEF CarryPairs
<1>3. \A p \in CarryPairs(w) : L[p] = <<((2 * p[1]) % (2 * h)) + p[2], p[1] \div h>>
  BY <1>1 DEF RclStep
<1>4. \A p \in CarryPairs(w) : R[p] = <<(p[1] \div 2) + p[2] * h, p[1] % 2>>
  BY <1>1 DEF RcrStep
<1>5. ASSUME NEW p \in CarryPairs(w)
      PROVE  L[p] \in CarryPairs(w) /\ R[p] \in CarryPairs(w) /\ R[L[p]] = p /\ L[R[p]] = p
  <2>1. PICK x \in 0 .. (2 * h - 1), c \in 0 .. 1 : p = <<x, c>>
    BY <1>2
  <2> DEFINE a == ((2 * x) % (2 * h)) + c
             d == x \div h
             b == (x \div 2) + c * h
             e == x % 2
  <2>2. L[p] = <<a, d>> /\ R[p] = <<b, e>>
    BY <1>3, <1>4, <2>1
  <2>3. /\ a \in 0 .. (2 * h - 1) /\ d \in 0 .. 1 /\ (a \div 2) + d * h = x /\ a % 2 = c
        /\ b \in 0 .. (2 * h - 1) /\ e \in 0 .. 1 /\ ((2 * b) % (2 * h)) + e = x /\ b \div h = c
    <3>1. x \in Nat /\ x < 2 * h
      BY <1>1
    <3>2. Doubled(h, x, c) /\ Halved(h, x, c)
      BY <1>1, <3>1, DoubleHalf
    <3>3. a \in 0 .. (2 * h - 1) /\ d \in 0 .. 1 /\ (a \div 2) + d * h = x /\ a % 2 = c
      BY <3>2 DEF Doubled
    <3>4. b \in 0 .. (2 * h - 1) /\ e \in 0 .. 1 /\ ((2 * b) % (2 * h)) + e = x /\ b \div h = c
      BY <3>2 DEF Halved
    <3> QED BY <3>3, <3>4
  <2> HIDE DEF a, d, b, e, L, R
  <2>4. <<a, d>> \in CarryPairs(w) /\ <<b, e>> \in CarryPairs(w)
    BY <1>2, <2>3
  <2>5. R[<<a, d>>] = <<(a \div 2) + d * h, a % 2>>
    BY <1>4, <2>4
  <2>6. L[<<b, e>>] = <<((2 * b) % (2 * h)) + e, b \div h>>
    BY <1>3, <2>4
  <2> QED BY <2>1, <2>2, <2>3, <2>4, <2>5, <2>6
<1>6. L \in [CarryPairs(w) -> CarryPairs(w)]
  <2>1. \A p \in CarryPairs(w) : L[p] \in CarryPairs(w)
    BY <1>5
  <2>2. L = [p \in CarryPairs(w) |-> L[p]]
    BY DEF RclStep
  <2> HIDE DEF L
  <2> QED BY <2>1, <2>2
<1>7. R \in [CarryPairs(w) -> CarryPairs(w)]
  <2>1. \A p \in CarryPairs(w) : R[p] \in CarryPairs(w)
    BY <1>5
  <2>2. R = [p \in CarryPairs(w) |-> R[p]]
    BY DEF RcrStep
  <2> HIDE DEF R
  <2> QED BY <2>1, <2>2
<1> QED BY <1>5, <1>6, <1>7

\* t applies F to d, n times.
Iterates(t, F, D, d, n) ==
    t \in [0 .. n -> D] /\ t[0] = d /\ \A k \in 0 .. (n - 1) : t[k + 1] = F[t[k]]

\* Taking back the steps one by one.
LEMMA TracesInvert ==
    ASSUME NEW D, NEW F \in [D -> D], NEW G \in [D -> D], \A p \in D : G[F[p]] = p,
           NEW n \in Nat, NEW m \in 0 .. n, NEW s, NEW t, NEW d,
           Iterates(s, F, D, d, n), Iterates(t, G, D, s[m], n)
    PROVE  t[m] = d
<1>1. s \in [0 .. n -> D] /\ s[0] = d /\ \A k \in 0 .. (n - 1) : s[k + 1] = F[s[k]]
  BY DEF Iterates
<1>2. t[0] = s[m] /\ \A k \in 0 .. (n - 1) : t[k + 1] = G[t[k]]
  BY DEF Iterates
<1> DEFINE S == {k \in Nat : k <= m => t[k] = s[m - k]}
<1>3. 0 \in S
  BY <1>2
<1>4. ASSUME NEW k \in Nat, k \in S PROVE k + 1 \in S
  <2> SUFFICES ASSUME k + 1 <= m PROVE t[k + 1] = s[m - (k + 1)]
    OBVIOUS
  <2> DEFINE j == m - (k + 1)
  <2>1. t[k] = s[m - k] /\ k \in 0 .. (n - 1) /\ j \in 0 .. (n - 1) /\ j + 1 = m - k
    BY <1>4
  <2> HIDE DEF j
  <2>2. s[j + 1] = F[s[j]] /\ s[j] \in D
    BY <1>1, <2>1
  <2>3. t[k + 1] = G[F[s[j]]]
    BY <1>2, <2>1, <2>2
  <2>4. t[k + 1] = s[j]
    BY <2>2, <2>3
  <2> QED BY <2>4 DEF j
<1>5. Nat \subseteq S
  <2> HIDE DEF S
  <2> QED BY <1>3, <1>4, Induction
<1>6. t[m] = s[m - m]
  BY <1>5
<1> QED BY <1>1, <1>6

\* rcl is such an iteration.
LEMMA RclTrace ==
    ASSUME NEW w \in Width, NEW x \in 0 .. (Span(w) - 1), NEW c \in 0 .. 1
    PROVE  \E t : /\ Iterates(t, RclStep(w), CarryPairs(w), <<x, c>>, Bits(w))
                  /\ \A n \in Nat : RclSteps(w, x, c, n) = t[n % (Bits(w) + 1)]
<1> DEFINE N == Bits(w)
           D == CarryPairs(w)
           F == RclStep(w)
           d == <<x, c>>
           Rec(g) == g = [i \in 0 .. N |->
               IF i = 0 THEN <<x, c>>
               ELSE <<((2 * g[i - 1][1]) % Span(w)) + g[i - 1][2],
                      g[i - 1][1] \div (Span(w) \div 2)>>]
           t == CHOOSE g : Rec(g)
           step == [q \in Nat \X D |-> F[q[2]]]
<1>1. N \in Nat /\ F \in [D -> D] /\ d \in D
  BY HalfSpan, StepsInverse DEF CarryPairs
<1>2. ASSUME NEW s \in D
      PROVE  F[s] = <<((2 * s[1]) % Span(w)) + s[2], s[1] \div (Span(w) \div 2)>>
  BY DEF RclStep
<1> HIDE DEF N, D, F, d
<1>3. step \in [Nat \X D -> D]
  BY <1>1
<1>r. PICK f \in [0 .. N -> D] : RecursTo(f, d, step, N)
  <2> HIDE DEF step
  <2> QED BY <1>1, <1>3, FiniteRecursion
<1>4. f[0] = d /\ \A k \in 0 .. (N - 1) : f[k + 1] = step[<<k, f[k]>>]
  <2> HIDE DEF step
  <2> QED BY <1>r DEF RecursTo
<1>5. Rec(f)
  <2>1. ASSUME NEW i \in 0 .. N
        PROVE  f[i] = IF i = 0 THEN <<x, c>>
                      ELSE <<((2 * f[i - 1][1]) % Span(w)) + f[i - 1][2],
                             f[i - 1][1] \div (Span(w) \div 2)>>
    <3>1. CASE i = 0
      BY <3>1, <1>4 DEF d
    <3>2. CASE i # 0
      <4>1. i - 1 \in 0 .. (N - 1) /\ (i - 1) + 1 = i /\ i - 1 \in 0 .. N /\ i - 1 \in Nat
        BY <1>1, <3>2
      <4>2. f[i - 1] \in D
        BY <4>1
      <4>3. f[(i - 1) + 1] = step[<<i - 1, f[i - 1]>>]
        <5> HIDE DEF step
        <5> QED BY <4>1, <1>4
      <4>4. step[<<i - 1, f[i - 1]>>] = F[f[i - 1]]
        BY <4>1, <4>2
      <4> QED BY <4>1, <4>2, <4>3, <4>4, <1>2, <3>2
    <3> QED BY <3>1, <3>2
  <2>2. f = [i \in 0 .. N |-> f[i]]
    OBVIOUS
  <2> QED BY <2>1, <2>2
<1>6. Rec(t)
  <2> HIDE DEF Rec
  <2> QED BY <1>5
<1>7. \A n \in Nat : RclSteps(w, x, c, n) = t[n % (Bits(w) + 1)]
  BY DEF RclSteps, N
<1> HIDE DEF t
<1>8. \A i \in 0 .. N : t[i] = IF i = 0 THEN <<x, c>>
                      ELSE <<((2 * t[i - 1][1]) % Span(w)) + t[i - 1][2],
                             t[i - 1][1] \div (Span(w) \div 2)>>
  <2> TAKE i \in 0 .. N
  <2> QED BY <1>6
<1>9. t[0] = d
  <2>1. \A i \in 0 .. N : i = 0 => t[i] = <<x, c>>
    <3> TAKE i \in 0 .. N
    <3> QED BY <1>6
  <2>2. 0 \in 0 .. N
    BY <1>1
  <2> QED BY <2>1, <2>2 DEF d
<1>10. ASSUME NEW k \in 0 .. (N - 1), t[k] \in D PROVE t[k + 1] = F[t[k]]
  <2>1. k + 1 \in 0 .. N /\ (k + 1) - 1 = k /\ k + 1 # 0
    BY <1>1
  <2> QED BY <2>1, <1>8, <1>10, <1>2
<1> DEFINE S == {k \in Nat : k <= N => t[k] \in D}
<1>11. 0 \in S
  BY <1>1, <1>9
<1>12. ASSUME NEW k \in Nat, k \in S PROVE k + 1 \in S
  <2> SUFFICES ASSUME k + 1 <= N PROVE t[k + 1] \in D
    OBVIOUS
  <2>1. k \in 0 .. (N - 1) /\ t[k] \in D
    BY <1>1, <1>12
  <2> QED BY <2>1, <1>10, <1>1
<1>13. Nat \subseteq S
  <2> HIDE DEF S
  <2> QED BY <1>11, <1>12, Induction
<1>14. \A k \in 0 .. N : t[k] \in D
  BY <1>13, <1>1
<1>15. t = [i \in 0 .. N |-> t[i]]
  <2>1. DOMAIN t = 0 .. N
    BY <1>6
  <2>2. \E z : t = [i \in 0 .. N |-> z[i]]
    BY <1>6
  <2> QED BY <2>1, <1>6
<1>16. t \in [0 .. N -> D]
  BY <1>14, <1>15
<1>17. \A k \in 0 .. (N - 1) : t[k + 1] = F[t[k]]
  <2> TAKE k \in 0 .. (N - 1)
  <2>1. t[k] \in D
    BY <1>14, <1>1
  <2> QED BY <2>1, <1>10
<1>18. Iterates(t, F, D, d, N)
  BY <1>9, <1>16, <1>17 DEF Iterates
<1> QED BY <1>7, <1>18 DEF F, D, d, N

\* rcr too.
LEMMA RcrTrace ==
    ASSUME NEW w \in Width, NEW x \in 0 .. (Span(w) - 1), NEW c \in 0 .. 1
    PROVE  \E t : /\ Iterates(t, RcrStep(w), CarryPairs(w), <<x, c>>, Bits(w))
                  /\ \A n \in Nat : RcrSteps(w, x, c, n) = t[n % (Bits(w) + 1)]
<1> DEFINE N == Bits(w)
           D == CarryPairs(w)
           F == RcrStep(w)
           d == <<x, c>>
           Rec(g) == g = [i \in 0 .. N |->
               IF i = 0 THEN <<x, c>>
               ELSE <<(g[i - 1][1] \div 2) + g[i - 1][2] * (Span(w) \div 2),
                      g[i - 1][1] % 2>>]
           t == CHOOSE g : Rec(g)
           step == [q \in Nat \X D |-> F[q[2]]]
<1>1. N \in Nat /\ F \in [D -> D] /\ d \in D
  BY HalfSpan, StepsInverse DEF CarryPairs
<1>2. ASSUME NEW s \in D
      PROVE  F[s] = <<(s[1] \div 2) + s[2] * (Span(w) \div 2), s[1] % 2>>
  BY DEF RcrStep
<1> HIDE DEF N, D, F, d
<1>3. step \in [Nat \X D -> D]
  BY <1>1
<1>r. PICK f \in [0 .. N -> D] : RecursTo(f, d, step, N)
  <2> HIDE DEF step
  <2> QED BY <1>1, <1>3, FiniteRecursion
<1>4. f[0] = d /\ \A k \in 0 .. (N - 1) : f[k + 1] = step[<<k, f[k]>>]
  <2> HIDE DEF step
  <2> QED BY <1>r DEF RecursTo
<1>5. Rec(f)
  <2>1. ASSUME NEW i \in 0 .. N
        PROVE  f[i] = IF i = 0 THEN <<x, c>>
                      ELSE <<(f[i - 1][1] \div 2) + f[i - 1][2] * (Span(w) \div 2),
                             f[i - 1][1] % 2>>
    <3>1. CASE i = 0
      BY <3>1, <1>4 DEF d
    <3>2. CASE i # 0
      <4>1. i - 1 \in 0 .. (N - 1) /\ (i - 1) + 1 = i /\ i - 1 \in 0 .. N /\ i - 1 \in Nat
        BY <1>1, <3>2
      <4>2. f[i - 1] \in D
        BY <4>1
      <4>3. f[(i - 1) + 1] = step[<<i - 1, f[i - 1]>>]
        <5> HIDE DEF step
        <5> QED BY <4>1, <1>4
      <4>4. step[<<i - 1, f[i - 1]>>] = F[f[i - 1]]
        BY <4>1, <4>2
      <4> QED BY <4>1, <4>2, <4>3, <4>4, <1>2, <3>2
    <3> QED BY <3>1, <3>2
  <2>2. f = [i \in 0 .. N |-> f[i]]
    OBVIOUS
  <2> QED BY <2>1, <2>2
<1>6. Rec(t)
  <2> HIDE DEF Rec
  <2> QED BY <1>5
<1>7. \A n \in Nat : RcrSteps(w, x, c, n) = t[n % (Bits(w) + 1)]
  BY DEF RcrSteps, N
<1> HIDE DEF t
<1>8. \A i \in 0 .. N : t[i] = IF i = 0 THEN <<x, c>>
                      ELSE <<(t[i - 1][1] \div 2) + t[i - 1][2] * (Span(w) \div 2),
                             t[i - 1][1] % 2>>
  <2> TAKE i \in 0 .. N
  <2> QED BY <1>6
<1>9. t[0] = d
  <2>1. \A i \in 0 .. N : i = 0 => t[i] = <<x, c>>
    <3> TAKE i \in 0 .. N
    <3> QED BY <1>6
  <2>2. 0 \in 0 .. N
    BY <1>1
  <2> QED BY <2>1, <2>2 DEF d
<1>10. ASSUME NEW k \in 0 .. (N - 1), t[k] \in D PROVE t[k + 1] = F[t[k]]
  <2>1. k + 1 \in 0 .. N /\ (k + 1) - 1 = k /\ k + 1 # 0
    BY <1>1
  <2> QED BY <2>1, <1>8, <1>10, <1>2
<1> DEFINE S == {k \in Nat : k <= N => t[k] \in D}
<1>11. 0 \in S
  BY <1>1, <1>9
<1>12. ASSUME NEW k \in Nat, k \in S PROVE k + 1 \in S
  <2> SUFFICES ASSUME k + 1 <= N PROVE t[k + 1] \in D
    OBVIOUS
  <2>1. k \in 0 .. (N - 1) /\ t[k] \in D
    BY <1>1, <1>12
  <2> QED BY <2>1, <1>10, <1>1
<1>13. Nat \subseteq S
  <2> HIDE DEF S
  <2> QED BY <1>11, <1>12, Induction
<1>14. \A k \in 0 .. N : t[k] \in D
  BY <1>13, <1>1
<1>15. t = [i \in 0 .. N |-> t[i]]
  <2>1. DOMAIN t = 0 .. N
    BY <1>6
  <2>2. \E z : t = [i \in 0 .. N |-> z[i]]
    BY <1>6
  <2> QED BY <2>1, <1>6
<1>16. t \in [0 .. N -> D]
  BY <1>14, <1>15
<1>17. \A k \in 0 .. (N - 1) : t[k + 1] = F[t[k]]
  <2> TAKE k \in 0 .. (N - 1)
  <2>1. t[k] \in D
    BY <1>14, <1>1
  <2> QED BY <2>1, <1>10
<1>18. Iterates(t, F, D, d, N)
  BY <1>9, <1>16, <1>17 DEF Iterates
<1> QED BY <1>7, <1>18 DEF F, D, d, N

\* Rotations through the carry give a value and a carry.
LEMMA CarryRotationsTyped ==
    ASSUME NEW w \in Width, NEW x \in 0 .. (Span(w) - 1), NEW c \in 0 .. 1, NEW n \in Nat
    PROVE  RclSteps(w, x, c, n) \in CarryPairs(w) /\ RcrSteps(w, x, c, n) \in CarryPairs(w)
<1> DEFINE N == Bits(w)
           m == n % (N + 1)
<1>1. N \in Nat
  BY HalfSpan
<1>2. m \in 0 .. N
  <2> HIDE DEF N
  <2> QED BY <1>1
<1>3. PICK s : /\ Iterates(s, RclStep(w), CarryPairs(w), <<x, c>>, Bits(w))
               /\ \A k \in Nat : RclSteps(w, x, c, k) = s[k % (Bits(w) + 1)]
  BY RclTrace
<1>4. PICK t : /\ Iterates(t, RcrStep(w), CarryPairs(w), <<x, c>>, Bits(w))
               /\ \A k \in Nat : RcrSteps(w, x, c, k) = t[k % (Bits(w) + 1)]
  BY RcrTrace
<1>5. RclSteps(w, x, c, n) = s[m] /\ RcrSteps(w, x, c, n) = t[m]
  BY <1>3, <1>4
<1>6. s \in [0 .. N -> CarryPairs(w)] /\ t \in [0 .. N -> CarryPairs(w)]
  BY <1>3, <1>4 DEF Iterates
<1> HIDE DEF m, N
<1> QED BY <1>2, <1>5, <1>6

\* rcl and rcr by the same count cancel.
LEMMA CarryRotationsCancel ==
    ASSUME NEW w \in Width, NEW x \in 0 .. (Span(w) - 1), NEW c \in 0 .. 1, NEW n \in Nat
    PROVE  /\ RcrSteps(w, RclSteps(w, x, c, n)[1], RclSteps(w, x, c, n)[2], n) = <<x, c>>
           /\ RclSteps(w, RcrSteps(w, x, c, n)[1], RcrSteps(w, x, c, n)[2], n) = <<x, c>>
<1> DEFINE N == Bits(w)
           m == n % (N + 1)
           F == RclStep(w)
           G == RcrStep(w)
           D == CarryPairs(w)
           d == <<x, c>>
<1>1. N \in Nat
  BY HalfSpan
<1>2. m \in 0 .. N
  <2> HIDE DEF N
  <2> QED BY <1>1
<1>f. F \in [D -> D] /\ G \in [D -> D] /\ (\A p \in D : G[F[p]] = p) /\ (\A p \in D : F[G[p]] = p)
  BY StepsInverse
<1>3. RcrSteps(w, RclSteps(w, x, c, n)[1], RclSteps(w, x, c, n)[2], n) = d
  <2> DEFINE p == RclSteps(w, x, c, n)
  <2>1. p \in CarryPairs(w)
    BY CarryRotationsTyped
  <2>2. p[1] \in 0 .. (Span(w) - 1) /\ p[2] \in 0 .. 1 /\ p = <<p[1], p[2]>>
    <3> HIDE DEF p
    <3> QED BY <2>1 DEF CarryPairs
  <2>3. PICK s : /\ Iterates(s, F, D, d, N)
                 /\ \A k \in Nat : RclSteps(w, x, c, k) = s[k % (N + 1)]
    BY RclTrace
  <2>4. p = s[m]
    BY <2>3
  <2> HIDE DEF p
  <2>5. PICK t : /\ Iterates(t, G, D, <<p[1], p[2]>>, N)
                 /\ \A k \in Nat : RcrSteps(w, p[1], p[2], k) = t[k % (N + 1)]
    BY <2>2, RcrTrace
  <2>6. RcrSteps(w, p[1], p[2], n) = t[m]
    BY <2>5
  <2>7. Iterates(t, G, D, s[m], N)
    BY <2>2, <2>4, <2>5
  <2> HIDE DEF N, m, F, G, D, d
  <2>8. t[m] = d
    BY <1>1, <1>2, <1>f, <2>3, <2>7, TracesInvert
  <2> QED BY <2>6, <2>8 DEF p
<1>4. RclSteps(w, RcrSteps(w, x, c, n)[1], RcrSteps(w, x, c, n)[2], n) = d
  <2> DEFINE p == RcrSteps(w, x, c, n)
  <2>1. p \in CarryPairs(w)
    BY CarryRotationsTyped
  <2>2. p[1] \in 0 .. (Span(w) - 1) /\ p[2] \in 0 .. 1 /\ p = <<p[1], p[2]>>
    <3> HIDE DEF p
    <3> QED BY <2>1 DEF CarryPairs
  <2>3. PICK s : /\ Iterates(s, G, D, d, N)
                 /\ \A k \in Nat : RcrSteps(w, x, c, k) = s[k % (N + 1)]
    BY RcrTrace
  <2>4. p = s[m]
    BY <2>3
  <2> HIDE DEF p
  <2>5. PICK t : /\ Iterates(t, F, D, <<p[1], p[2]>>, N)
                 /\ \A k \in Nat : RclSteps(w, p[1], p[2], k) = t[k % (N + 1)]
    BY <2>2, RclTrace
  <2>6. RclSteps(w, p[1], p[2], n) = t[m]
    BY <2>5
  <2>7. Iterates(t, F, D, s[m], N)
    BY <2>2, <2>4, <2>5
  <2> HIDE DEF N, m, F, G, D, d
  <2>8. t[m] = d
    BY <1>1, <1>2, <1>f, <2>3, <2>7, TracesInvert
  <2> QED BY <2>6, <2>8 DEF p
<1> QED BY <1>3, <1>4

-----------------------------------------------------------------------------
\* Exchanging the part below b, of a number below a * b, with the part above.
LEMMA Swapped ==
    ASSUME NEW a \in Nat \ {0}, NEW b \in Nat \ {0}, NEW x \in Nat, x < a * b
    PROVE  /\ ((x * a) % (a * b)) + (x \div b) \in Nat
           /\ ((x * a) % (a * b)) + (x \div b) < a * b
           /\ ((x * a) % (a * b)) + (x \div b) = (x % b) * a + (x \div b)
           /\ (((x * a) % (a * b)) + (x \div b)) \div a = x % b
           /\ (((x * a) % (a * b)) + (x \div b)) % a = x \div b
           /\ (x % b) + (x \div b) * b = x
<1> DEFINE h == x \div b
           l == x % b
           S == a * b
           y == l * a + h
<1>1. h \in Nat /\ l \in Nat /\ l < b /\ x = h * b + l
  BY Division
<1>2. h < a
  BY QuotientBound
<1>3. S \in Nat \ {0}
  OBVIOUS
<1> DEFINE z == l * a
<1>4. z \in Nat /\ z <= (b - 1) * a /\ (b - 1) * a = S - a
  <2>1. l <= b - 1 /\ b - 1 \in Nat
    BY <1>1
  <2> HIDE DEF l
  <2> QED BY <1>1, <2>1, Products
<1>5. z + h \in Nat /\ z + h < S /\ z < S
  <2>1. z <= S - a
    BY <1>4
  <2> HIDE DEF z, h, l, S
  <2> QED BY <1>1, <1>2, <1>3, <1>4, <2>1
<1>6. x * a = h * S + z
  <2> HIDE DEF h, l
  <2> QED BY <1>1
<1>7. (x * a) % S = z
  <2> DEFINE X == x * a
  <2>1. X \in Nat /\ X = h * S + z
    BY <1>6
  <2> HIDE DEF h, z, S, X
  <2>2. X % S = z
    BY <2>1, <1>1, <1>3, <1>4, <1>5, DivisionUnique
  <2> QED BY <2>2 DEF X
<1>8. y \div a = l /\ y % a = h
  <2>1. y \in Nat /\ y = l * a + h
    BY <1>5
  <2> HIDE DEF y, l, h
  <2> QED BY <2>1, <1>1, <1>2, DivisionUnique
<1>9. l + h * b = x
  <2> DEFINE v == h * b
  <2>1. x = v + l /\ v \in Nat
    BY <1>1
  <2> HIDE DEF v, l
  <2> QED BY <2>1, <1>1 DEF v
<1> HIDE DEF h, l, S
<1>10. ((x * a) % S) + h = y
  BY <1>7
<1>11. y \in Nat /\ y < S
  BY <1>5
<1> QED BY <1>8, <1>9, <1>10, <1>11 DEF h, l, S

\* The span of a width as a product at the rotation's count.
LEMMA SpanAt ==
    ASSUME NEW w \in Width, NEW n \in Nat
    PROVE  /\ Pow2[n % Bits(w)] \in Nat \ {0} /\ Pow2[Bits(w) - (n % Bits(w))] \in Nat \ {0}
           /\ Span(w) = Pow2[n % Bits(w)] * Pow2[Bits(w) - (n % Bits(w))]
<1> DEFINE B == Bits(w)
           k == n % B
           j == B - k
<1>1. B \in Nat \ {0}
  BY HalfSpan
<1>2. k \in Nat /\ j \in Nat /\ B = k + j
  <2> HIDE DEF B
  <2> QED BY <1>1
<1>3. Span(w) = Pow2[k + j]
  BY <1>2 DEF Span
<1> HIDE DEF B, k, j
<1>4. Span(w) = Pow2[k] * Pow2[j] /\ Pow2[k] \in Nat \ {0} /\ Pow2[j] \in Nat \ {0}
  BY <1>2, <1>3, Pow2Add, Pow2Positive
<1> QED BY <1>4 DEF k, j, B

\* Opposite rotations cancel, and stay within the width.
LEMMA RotationsCancel ==
    ASSUME NEW w \in Width, NEW x \in 0 .. (Span(w) - 1), NEW n \in Nat
    PROVE  /\ RotateLeft(w, x, n) \in 0 .. (Span(w) - 1) /\ RotateRight(w, x, n) \in 0 .. (Span(w) - 1)
           /\ RotateRight(w, RotateLeft(w, x, n), n) = x
           /\ RotateLeft(w, RotateRight(w, x, n), n) = x
<1> DEFINE a == Pow2[n % Bits(w)]
           b == Pow2[Bits(w) - (n % Bits(w))]
           S == Span(w)
           L(z) == ((z * a) % S) + (z \div b)
           R(z) == (z \div a) + (z % a) * b
<1>1. a \in Nat \ {0} /\ b \in Nat \ {0} /\ S = a * b
  BY SpanAt
<1>2. \A z : RotateLeft(w, z, n) = L(z) /\ RotateRight(w, z, n) = R(z)
  BY DEF RotateLeft, RotateRight
<1>x. x \in Nat /\ x < S /\ S \in Nat \ {0}
  BY SpanType
<1> HIDE DEF a, b, S
<1>3. ASSUME NEW z \in Nat, z < S
      PROVE  /\ L(z) \in Nat /\ L(z) < S /\ L(z) = (z % b) * a + (z \div b)
             /\ L(z) \div a = z % b /\ L(z) % a = z \div b /\ (z % b) + (z \div b) * b = z
  <2>1. z < a * b
    BY <1>1, <1>3
  <2> DEFINE Q == ((z * a) % (a * b)) + (z \div b)
  <2>2. /\ Q \in Nat /\ Q < a * b /\ Q = (z % b) * a + (z \div b)
        /\ Q \div a = z % b /\ Q % a = z \div b /\ (z % b) + (z \div b) * b = z
    BY <1>1, <2>1, Swapped
  <2>3. Q = L(z)
    BY <1>1
  <2> HIDE DEF Q, L
  <2> QED BY <1>1, <2>2, <2>3
<1>4. R(L(x)) = x
  <2> DEFINE y == L(x)
  <2>1. y \div a = x % b /\ y % a = x \div b /\ (x % b) + (x \div b) * b = x
    <3> HIDE DEF L
    <3> QED BY <1>3, <1>x
  <2> HIDE DEF y
  <2>2. R(y) = x
    BY <2>1
  <2> QED BY <2>2 DEF y
<1>5. R(x) = (x % a) * b + (x \div a) /\ R(x) \in Nat /\ R(x) < S
      /\ R(x) \div b = x % a /\ R(x) % b = x \div a /\ (x % a) + (x \div a) * a = x
  <2>1. b * a = S /\ x < b * a
    BY <1>1, <1>x
  <2> DEFINE Q == ((x * b) % (b * a)) + (x \div a)
  <2>2. /\ Q \in Nat /\ Q < b * a /\ Q = (x % a) * b + (x \div a)
        /\ Q \div b = x % a /\ Q % b = x \div a /\ (x % a) + (x \div a) * a = x
    BY <1>1, <1>x, <2>1, Swapped
  <2>3. Q = R(x)
    <3> DEFINE u == (x % a) * b
               v == x \div a
    <3>1. u \in Nat /\ v \in Nat
      <4>1. x % a \in Nat /\ v \in Nat
        BY <1>1, <1>x, Division
      <4> QED BY <4>1, <1>1
    <3>2. Q = u + v /\ R(x) = v + u
      BY <2>2
    <3> HIDE DEF Q, u, v, R
    <3> QED BY <3>1, <3>2
  <2> HIDE DEF Q, R
  <2> QED BY <2>1, <2>2, <2>3
<1>6. L(R(x)) = x
  <2> DEFINE y == R(x)
  <2>1. L(y) = (y % b) * a + (y \div b)
    <3> HIDE DEF L, y
    <3> QED BY <1>3, <1>5 DEF y
  <2>2. L(y) = (x \div a) * a + (x % a)
    <3> HIDE DEF L, R
    <3> QED BY <2>1, <1>5
  <2>3. (x \div a) * a + (x % a) = x
    BY <1>1, <1>x, Division
  <2> QED BY <2>2, <2>3
<1>7. L(x) \in 0 .. (S - 1) /\ R(x) \in 0 .. (S - 1)
  <2>1. L(x) \in Nat /\ L(x) < S /\ R(x) \in Nat /\ R(x) < S
    <3> HIDE DEF L, R
    <3> QED BY <1>3, <1>5, <1>x
  <2> HIDE DEF L, R
  <2> QED BY <2>1, <1>x
<1> HIDE DEF L, R
<1> QED BY <1>2, <1>4, <1>6, <1>7 DEF S

-----------------------------------------------------------------------------
\* The 64-bit word.
LEMMA WordType == Word \in Nat \ {0} /\ 2 <= Word /\ Word \div 2 \in Nat \ {0}
<1>1. Half(8) \in Nat \ {0} /\ Span(8) = 2 * Half(8) /\ Span(8) \div 2 = Half(8)
  BY HalfSpan DEF Width
<1> QED BY <1>1 DEF Word

\* The flags after an instruction.
LEMMA FlagsTyped ==
    ASSUME NEW fg \in Flags, NEW c \in 0 .. 1, NEW o \in 0 .. 1
    PROVE  ArithmeticFlags(fg, c, o) \in Flags /\ ArithmeticFlags(fg, c, o).c = c
<1> DEFINE B == 0 .. 1
<1>1. c \in B /\ o \in B /\ 0 \in B
  OBVIOUS
<1>2. Flags = [c : B, o : B, bg : B, le : B, eq : B, im : B]
  BY DEF Flags
<1> HIDE DEF B
<1>3. ArithmeticFlags(fg, c, o) \in Flags
  BY <1>1, <1>2 DEF ArithmeticFlags
<1>4. ArithmeticFlags(fg, c, o).c = c
  BY <1>2 DEF ArithmeticFlags
<1> QED BY <1>3, <1>4

\* A number that check_overflow reduces.
LEMMA CheckTyped ==
    ASSUME NEW fg \in Flags, NEW w \in Width, NEW x \in Int
    PROVE  /\ CheckOverflow(fg, w, x).v \in 0 .. (Span(w) - 1)
           /\ CheckOverflow(fg, w, x).v \in Int
           /\ CheckOverflow(fg, w, x).fg \in Flags
           /\ CheckOverflow(fg, w, x).v = (x % Word) % Span(w)
           /\ CheckOverflow(fg, w, x).fg.c = Bool(x % Word >= Span(w))
<1> DEFINE S == Span(w)
           y == x % Word
<1>1. S \in Nat \ {0} /\ Word \in Nat \ {0}
  BY SpanType, WordType
<1>2. y \in Nat
  BY <1>1
<1> HIDE DEF y, S
<1>3. y % S \in 0 .. (S - 1) /\ y % S \in Int
  BY <1>1, <1>2
<1>4. Bool(y >= S) \in 0 .. 1 /\ 0 \in 0 .. 1
  BY DEF Bool
<1> DEFINE f == ArithmeticFlags(fg, Bool(y >= S), 0)
<1>5. f \in Flags /\ f.c = Bool(y >= S)
  BY <1>4, FlagsTyped
<1>6. CheckOverflow(fg, w, x) = [v |-> y % S, fg |-> f]
  BY DEF CheckOverflow, Res, y, S
<1>7. CheckOverflow(fg, w, x).v = y % S /\ CheckOverflow(fg, w, x).fg = f
  <2> HIDE DEF f
  <2> QED BY <1>6
<1> HIDE DEF f
<1> QED BY <1>3, <1>5, <1>7 DEF y, S

LEMMA CheckSignedTyped ==
    ASSUME NEW fg \in Flags, NEW w \in Width, NEW x \in Int
    PROVE  /\ CheckOverflowSigned(fg, w, x).v \in Int
           /\ CheckOverflowSigned(fg, w, x).fg \in Flags
<1>1. Span(w) \in Nat \ {0}
  BY SpanType
<1> DEFINE f == ArithmeticFlags(fg, 0, Bool(x < -(Span(w) \div 2)))
<1>2. Bool(x < -(Span(w) \div 2)) \in 0 .. 1 /\ 0 \in 0 .. 1
  BY DEF Bool
<1>3. f \in Flags
  BY <1>2, FlagsTyped
<1>4. x % Span(w) \in Int
  BY <1>1
<1> HIDE DEF f
<1>5. CheckOverflowSigned(fg, w, x) = [v |-> x % Span(w), fg |-> f]
  BY DEF CheckOverflowSigned, Res, f
<1> QED BY <1>3, <1>4, <1>5

LEMMA CheckBySignTyped ==
    ASSUME NEW fg \in Flags, NEW w \in Width, NEW x \in Int
    PROVE  CheckBySign(fg, w, x).v \in Int /\ CheckBySign(fg, w, x).fg \in Flags
BY CheckTyped, CheckSignedTyped DEF CheckBySign

LEMMA SignedType == \A w \in Width, x \in Int : Signed(w, x) \in Int
BY SpanType DEF Signed

\* The effects of the instructions that write their first operand.
Effect(op, w, a, b, fg) ==
    IF op \in ArithOps THEN Arithmetic(op, w, a, b, fg) ELSE Logical(op, w, a, b, fg)

LEMMA ArithmeticTyped ==
    ASSUME NEW w \in Width, NEW a \in Nat, NEW b \in Nat, NEW fg \in Flags, NEW op \in ArithOps
    PROVE  Arithmetic(op, w, a, b, fg).v \in Int /\ Arithmetic(op, w, a, b, fg).fg \in Flags
<1> DEFINE A == Arithmetic(op, w, a, b, fg)
<1>0. fg.c \in 0 .. 1
  BY DEF Flags
<1>1. CASE op = "add"
  <2>1. A = CheckOverflow(fg, w, a + b) /\ a + b \in Int
    BY <1>1 DEF Arithmetic
  <2> QED BY <2>1, CheckTyped
<1>2. CASE op = "adc"
  <2>1. A = CheckOverflow(fg, w, a + b + fg.c) /\ a + b + fg.c \in Int
    BY <1>0, <1>2 DEF Arithmetic
  <2> QED BY <2>1, CheckTyped
<1>3. CASE op = "sub"
  <2>1. A = CheckOverflow(fg, w, a - b) /\ a - b \in Int
    BY <1>3 DEF Arithmetic
  <2> QED BY <2>1, CheckTyped
<1>4. CASE op = "sbb"
  <2>1. A = CheckOverflow(fg, w, a - b - fg.c) /\ a - b - fg.c \in Int
    BY <1>0, <1>4 DEF Arithmetic
  <2> QED BY <2>1, CheckTyped
<1>5. CASE op = "inc"
  <2>1. A = CheckOverflow(fg, w, a + 1) /\ a + 1 \in Int
    BY <1>5 DEF Arithmetic
  <2> QED BY <2>1, CheckTyped
<1>6. CASE op = "dec"
  <2>1. A = CheckOverflow(fg, w, a - 1) /\ a - 1 \in Int
    BY <1>6 DEF Arithmetic
  <2> QED BY <2>1, CheckTyped
<1>7. CASE op = "neg"
  <2>1. A = Res((-a) % Span(w), ArithmeticFlags(fg, 0, 0))
    BY <1>7 DEF Arithmetic
  <2>2. (-a) % Span(w) \in Int
    BY SpanType
  <2>3. ArithmeticFlags(fg, 0, 0) \in Flags
    BY FlagsTyped
  <2> HIDE DEF A
  <2>4. A.v = (-a) % Span(w) /\ A.fg = ArithmeticFlags(fg, 0, 0)
    BY <2>1 DEF Res
  <2>5. A.v \in Int /\ A.fg \in Flags
    BY <2>2, <2>3, <2>4
  <2> QED BY <2>5 DEF A
<1> QED BY <1>1, <1>2, <1>3, <1>4, <1>5, <1>6, <1>7 DEF ArithOps

\* A bit.
LEMMA BitType == \A x, k \in Nat : Bit(x, k) \in Nat
<1> SUFFICES ASSUME NEW x \in Nat, NEW k \in Nat PROVE Bit(x, k) \in Nat
  OBVIOUS
<1> DEFINE q == x \div Pow2[k]
<1>1. Pow2[k] \in Nat \ {0}
  BY Pow2Positive
<1>2. q \in Nat
  BY <1>1, Division
<1> HIDE DEF q
<1>3. q % 2 \in Nat
  BY <1>2
<1> QED BY <1>3 DEF Bit, q

LEMMA BitwiseTyped == \A x, y \in Nat : And(x, y) \in Int /\ Or(x, y) \in Int /\ Xor(x, y) \in Int
<1> SUFFICES ASSUME NEW x \in Nat, NEW y \in Nat
             PROVE  And(x, y) \in Int /\ Or(x, y) \in Int /\ Xor(x, y) \in Int
  OBVIOUS
<1> DEFINE n == Bits(8)
           b1 == [k \in 0 .. (n - 1) |-> Bit(x, k) * Bit(y, k)]
           b2 == [k \in 0 .. (n - 1) |-> (Bit(x, k) + Bit(y, k)) % 2]
<1>1. n \in Nat
  BY HalfSpan DEF Width
<1> HIDE DEF n
<1>2. b1 \in [0 .. (n - 1) -> Int] /\ b2 \in [0 .. (n - 1) -> Int]
  <2> SUFFICES ASSUME NEW k \in 0 .. (n - 1)
               PROVE  Bit(x, k) * Bit(y, k) \in Int /\ (Bit(x, k) + Bit(y, k)) % 2 \in Int
    OBVIOUS
  <2>0. k \in Nat
    BY <1>1
  <2>1. Bit(x, k) \in Nat /\ Bit(y, k) \in Nat
    BY <2>0, BitType
  <2> QED BY <2>1
<1> HIDE DEF b1, b2
<1>3. FromBits(n, b1) \in Int /\ FromBits(n, b2) \in Int
  BY <1>1, <1>2, FromBitsType
<1>4. And(x, y) = FromBits(n, b1) /\ Xor(x, y) = FromBits(n, b2)
  BY DEF And, Xor, n, b1, b2
<1> QED BY <1>3, <1>4 DEF Or

LEMMA LogicalTyped ==
    ASSUME NEW w \in Width, NEW a \in 0 .. (Span(w) - 1), NEW b \in Nat, NEW fg \in Flags,
           NEW op \in LogicOps
    PROVE  Logical(op, w, a, b, fg).v \in Int /\ Logical(op, w, a, b, fg).fg \in Flags
<1> DEFINE A == Logical(op, w, a, b, fg)
<1>0. a \in Nat /\ Span(w) \in Nat \ {0} /\ Word \in Nat \ {0} /\ fg.c \in 0 .. 1
  BY SpanType, WordType DEF Flags
<1>r. ASSUME NEW v \in Int, A = Res(v, fg) PROVE A.v \in Int /\ A.fg \in Flags
  <2> HIDE DEF A
  <2> QED BY <1>r DEF Res
<1>p. ASSUME NEW p \in CarryPairs(w), A = Rotated(p, fg) PROVE A.v \in Int /\ A.fg \in Flags
  <2> HIDE DEF A
  <2>1. p[1] \in Int /\ p[2] \in 0 .. 1
    BY <1>0 DEF CarryPairs
  <2>2. [fg EXCEPT !.c = p[2]] \in Flags
    BY <2>1 DEF Flags
  <2> QED BY <1>p, <2>1, <2>2 DEF Rotated, Res
<1>1. CASE op = "and"
  <2>1. A = Res(And(a, b), fg)
    BY <1>1 DEF Logical
  <2>2. And(a, b) \in Int
    BY <1>0, BitwiseTyped
  <2> HIDE DEF A
  <2>3. A.v \in Int /\ A.fg \in Flags
    BY <2>1, <2>2, <1>r
  <2> QED BY <2>3 DEF A
<1>2. CASE op = "or"
  <2>1. A = Res(Or(a, b), fg)
    BY <1>2 DEF Logical
  <2>2. Or(a, b) \in Int
    BY <1>0, BitwiseTyped
  <2> HIDE DEF A
  <2>3. A.v \in Int /\ A.fg \in Flags
    BY <2>1, <2>2, <1>r
  <2> QED BY <2>3 DEF A
<1>3. CASE op = "xor"
  <2>1. A = Res(Xor(a, b), fg)
    BY <1>3 DEF Logical
  <2>2. Xor(a, b) \in Int
    BY <1>0, BitwiseTyped
  <2> HIDE DEF A
  <2>3. A.v \in Int /\ A.fg \in Flags
    BY <2>1, <2>2, <1>r
  <2> QED BY <2>3 DEF A
<1>4. CASE op = "not"
  <2>1. A = Res(Not(a) % Span(w), fg)
    BY <1>4 DEF Logical
  <2>2. Not(a) % Span(w) \in Int
    <3>1. Not(a) \in Int
      BY <1>0 DEF Not
    <3> QED BY <1>0, <3>1
  <2> HIDE DEF A
  <2>3. A.v \in Int /\ A.fg \in Flags
    BY <2>1, <2>2, <1>r
  <2> QED BY <2>3 DEF A
<1>b. b % Bits(8) \in Nat
  <2>1. Bits(8) \in Nat \ {0}
    BY HalfSpan DEF Width
  <2> QED BY <2>1
<1>c. Pow2[b % Bits(8)] \in Nat \ {0}
  BY <1>b, Pow2Positive
<1>5. CASE op = "shl"
  <2>1. A = Res(ShiftLeft(a, b) % Span(w), fg)
    BY <1>5 DEF Logical
  <2>2. ShiftLeft(a, b) % Span(w) \in Int
    <3> DEFINE q == a * Pow2[b % Bits(8)]
    <3>1. q \in Int
      BY <1>0, <1>c
    <3> HIDE DEF q
    <3>2. q % Word \in Int
      BY <1>0, <3>1
    <3>3. ShiftLeft(a, b) \in Int
      BY <3>2 DEF ShiftLeft, q
    <3> QED BY <1>0, <3>3
  <2> HIDE DEF A
  <2>3. A.v \in Int /\ A.fg \in Flags
    BY <2>1, <2>2, <1>r
  <2> QED BY <2>3 DEF A
<1>6. CASE op = "shr"
  <2>1. A = Res(ShiftRight(a, b), fg)
    BY <1>6 DEF Logical
  <2>2. ShiftRight(a, b) \in Int
    <3> DEFINE q == Pow2[b % Bits(8)]
    <3>1. q \in Nat \ {0} /\ a \in Nat /\ ShiftRight(a, b) = a \div q
      BY <1>0, <1>c DEF ShiftRight
    <3> HIDE DEF q
    <3>2. a \div q \in Nat
      BY <3>1, Division
    <3> QED BY <3>1, <3>2
  <2> HIDE DEF A
  <2>3. A.v \in Int /\ A.fg \in Flags
    BY <2>1, <2>2, <1>r
  <2> QED BY <2>3 DEF A
<1>7. CASE op = "rol"
  <2>1. A = Res(RotateLeft(w, a, b), fg)
    BY <1>7 DEF Logical
  <2>2. RotateLeft(w, a, b) \in Int
    BY <1>0, RotationsCancel
  <2> HIDE DEF A
  <2>3. A.v \in Int /\ A.fg \in Flags
    BY <2>1, <2>2, <1>r
  <2> QED BY <2>3 DEF A
<1>8. CASE op = "ror"
  <2>1. A = Res(RotateRight(w, a, b), fg)
    BY <1>8 DEF Logical
  <2>2. RotateRight(w, a, b) \in Int
    BY <1>0, RotationsCancel
  <2> HIDE DEF A
  <2>3. A.v \in Int /\ A.fg \in Flags
    BY <2>1, <2>2, <1>r
  <2> QED BY <2>3 DEF A
<1>9. CASE op = "rcl"
  <2>1. A = Rotated(RclSteps(w, a, fg.c, b), fg)
    BY <1>9 DEF Logical
  <2>2. RclSteps(w, a, fg.c, b) \in CarryPairs(w)
    BY <1>0, CarryRotationsTyped
  <2> HIDE DEF A
  <2>3. A.v \in Int /\ A.fg \in Flags
    BY <2>1, <2>2, <1>p
  <2> QED BY <2>3 DEF A
<1>10. CASE op = "rcr"
  <2>1. A = Rotated(RcrSteps(w, a, fg.c, b), fg)
    BY <1>10 DEF Logical
  <2>2. RcrSteps(w, a, fg.c, b) \in CarryPairs(w)
    BY <1>0, CarryRotationsTyped
  <2> HIDE DEF A
  <2>3. A.v \in Int /\ A.fg \in Flags
    BY <2>1, <2>2, <1>p
  <2> QED BY <2>3 DEF A
<1> QED BY <1>1, <1>2, <1>3, <1>4, <1>5, <1>6, <1>7, <1>8, <1>9, <1>10 DEF LogicOps

LEMMA EffectTyped ==
    ASSUME NEW w \in Width, NEW a \in 0 .. (Span(w) - 1), NEW b \in 0 .. (Span(w) - 1),
           NEW fg \in Flags, NEW op \in WriteOps
    PROVE  Effect(op, w, a, b, fg).v \in Int /\ Effect(op, w, a, b, fg).fg \in Flags
<1>0. a \in Nat /\ b \in Nat
  BY SpanType
<1>1. CASE op \in ArithOps
  BY <1>0, <1>1, ArithmeticTyped DEF Effect
<1>2. CASE op \notin ArithOps
  <2>1. op \in LogicOps
    BY <1>2 DEF WriteOps
  <2> QED BY <1>0, <1>2, <2>1, LogicalTyped DEF Effect
<1> QED BY <1>1, <1>2

-----------------------------------------------------------------------------
\* The remainder of a remainder.
LEMMA RemainderTwice ==
    ASSUME NEW x \in Int, NEW s \in Nat \ {0}, NEW k \in Nat \ {0}
    PROVE  (x % (k * s)) % s = x % s
<1> DEFINE W == k * s
           q == x \div W
           y == x % W
<1>1. W \in Nat \ {0}
  OBVIOUS
<1>2. q \in Int /\ y \in Int /\ x = q * W + y
  <2> HIDE DEF W
  <2> QED BY <1>1, IntRemainder
<1> DEFINE m == q * k
<1>3. m \in Int /\ x = y + m * s
  <2> HIDE DEF q, y
  <2>1. q * W = m * s
    BY <1>2
  <2> DEFINE z == m * s
  <2>2. m \in Int /\ z \in Int
    BY <1>2
  <2>3. x = z + y
    BY <1>2, <2>1
  <2> HIDE DEF z
  <2>4. x = y + z
    BY <1>2, <2>2, <2>3
  <2> QED BY <2>2, <2>4 DEF z
<1>4. x % s = y % s
  <2>1. y \in Int
    BY <1>2
  <2> HIDE DEF y, m
  <2> QED BY <2>1, <1>3, SameRemainder
<1> QED BY <1>4 DEF y

\* The remainder of a number that is one modulus off at most.
LEMMA SmallRemainder ==
    ASSUME NEW x \in Int, NEW s \in Nat \ {0}
    PROVE  /\ 0 <= x /\ x < s => x % s = x
           /\ s <= x /\ x < 2 * s => x % s = x - s
           /\ -s <= x /\ x < 0 => x % s = x + s
<1>1. ASSUME 0 <= x, x < s PROVE x % s = x
  <2>1. x = 0 * s + x /\ 0 \in Int
    OBVIOUS
  <2> QED BY <1>1, <2>1, IntRemainderUnique
<1>2. ASSUME s <= x, x < 2 * s PROVE x % s = x - s
  <2> DEFINE y == x - s
  <2>1. x = 1 * s + y /\ 1 \in Int /\ y \in Int /\ 0 <= y /\ y < s
    BY <1>2
  <2> HIDE DEF y
  <2>2. x % s = y
    BY <2>1, IntRemainderUnique
  <2> QED BY <2>2 DEF y
<1>3. ASSUME -s <= x, x < 0 PROVE x % s = x + s
  <2> DEFINE y == x + s
  <2>1. x = (-1) * s + y /\ -1 \in Int /\ y \in Int /\ 0 <= y /\ y < s
    BY <1>3
  <2> HIDE DEF y
  <2>2. x % s = y
    BY <2>1, IntRemainderUnique
  <2> QED BY <2>2 DEF y
<1> QED BY <1>1, <1>2, <1>3

\* Two columns of an addition, and of a subtraction: e is the carry between
\* them, f the one out of the second.
Column(s, a, v, e) == v < s /\ a = v + e * s
ColumnSum(s, a, b, v, u, f) ==
    /\ a + b * s = (v + u * s) + f * (s * s)
    /\ v + u * s \in Nat /\ v + u * s < s * s
    /\ v + u * s = (a + b * s) % (s * s)

LEMMA Columns ==
    ASSUME NEW s \in Nat \ {0}, NEW a \in Int, NEW b \in Int, NEW v \in Nat, NEW u \in Nat,
           NEW e \in Int, NEW f \in Int, Column(s, a, v, e), Column(s, b + e, u, f)
    PROVE  ColumnSum(s, a, b, v, u, f)
<1> DEFINE S == s * s
           V == v + u * s
           X == a + b * s
<1>c. v < s /\ u < s /\ a = v + e * s /\ b + e = u + f * s
  BY DEF Column
<1>1. (b + e) * s = b * s + e * s /\ (u + f * s) * s = u * s + f * S
  OBVIOUS
<1>2. b * s + e * s = u * s + f * S
  BY <1>1, <1>c
<1> DEFINE bs == b * s
           es == e * s
           us == u * s
           fS == f * S
<1>3. bs \in Int /\ es \in Int /\ us \in Nat /\ fS \in Int /\ S \in Nat \ {0}
  OBVIOUS
<1>4. us <= S - s
  <2>1. u <= s - 1 /\ s - 1 \in Nat
    BY <1>c
  <2>2. u * s <= (s - 1) * s
    BY <2>1, Products
  <2>3. (s - 1) * s = S - s
    OBVIOUS
  <2> QED BY <2>2, <2>3
<1>5. a = v + es /\ bs + es = us + fS /\ X = a + bs /\ V = v + us
  BY <1>2, <1>c
<1> HIDE DEF bs, es, us, fS, S, V, X
<1>6. X = V + fS /\ V \in Nat /\ V < S /\ X \in Int
  BY <1>c, <1>3, <1>4, <1>5
<1>7. X = f * S + V
  BY <1>3, <1>6 DEF fS
<1>8. X % S = V
  <2>1. X \in Int /\ V \in Int /\ 0 <= V /\ V < S /\ S \in Nat \ {0}
    BY <1>3, <1>6
  <2> HIDE DEF S, V, X
  <2> QED BY <2>1, <1>7, IntRemainderUnique
<1> QED BY <1>6, <1>8 DEF X, V, S, fS, ColumnSum

\* add and adc.
LEMMA WideAdd ==
    ASSUME NEW w \in Width, w <= 4, NEW fg \in Flags, NEW ff \in Flags,
           NEW a \in 0 .. (Span(w) - 1), NEW b \in 0 .. (Span(w) - 1),
           NEW c \in 0 .. (Span(w) - 1), NEW d \in 0 .. (Span(w) - 1),
           ff.c = Arithmetic("add", w, a, b, fg).fg.c
    PROVE  LET v == Wide(w, Arithmetic("add", w, a, b, fg).v, Arithmetic("adc", w, c, d, ff).v)
               x == Wide(w, a, c) + Wide(w, b, d)
           IN  /\ v = x % (Span(w) * Span(w))
               /\ Arithmetic("adc", w, c, d, ff).fg.c = 1 <=> x >= Span(w) * Span(w)
<1> DEFINE S == Span(w)
           x == a + b
           y == c + d + ff.c
           e == IF x >= S THEN 1 ELSE 0
           f == IF y >= S THEN 1 ELSE 0
           v == x - e * S
           u == y - f * S
<1>1. PICK k \in Nat \ {0} : Word = k * (S * S)
  BY WordHolds
<1>2. S \in Nat \ {0} /\ 2 <= S
  BY HalfSpan
<1>3. 2 * S <= Word /\ Word \in Nat \ {0} /\ S <= Word
  <2> HIDE DEF S
  <2> DEFINE T == S * S
  <2>1. T \in Nat \ {0}
    BY <1>2
  <2>2. 2 * S <= S * S
    BY <1>2, Products
  <2>3. 1 * T <= k * T
    <3> HIDE DEF T
    <3> QED BY <2>1, Products
  <2>4. T <= Word /\ 2 * S <= T
    <3>1. Word = k * T
      BY <1>1
    <3>2. 2 * S <= T
      BY <2>2
    <3> HIDE DEF T
    <3> QED BY <2>1, <2>3, <3>1, <3>2
  <2> HIDE DEF T
  <2> QED BY <2>1, <2>4, <1>2, WordType
<1>4. ff.c \in 0 .. 1
  BY DEF Flags
<1>x. a \in Nat /\ b \in Nat /\ c \in Nat /\ d \in Nat /\ a < S /\ b < S /\ c < S /\ d < S
  BY <1>2
<1> HIDE DEF S
<1>5. x \in Int /\ y \in Int /\ 0 <= x /\ x < 2 * S /\ 0 <= y /\ y < 2 * S
  BY <1>2, <1>4, <1>x
<1>6. x % Word = x /\ y % Word = y
  <2>1. 0 <= x /\ x < Word /\ 0 <= y /\ y < Word
    BY <1>2, <1>3, <1>5
  <2> HIDE DEF x, y
  <2> QED BY <1>3, <1>5, <2>1, SmallRemainder
<1>7. e \in 0 .. 1 /\ f \in 0 .. 1 /\ v \in Nat /\ v < S /\ u \in Nat /\ u < S
  <2> HIDE DEF x, y
  <2> QED BY <1>2, <1>5
<1>8. x % S = v /\ y % S = u
  <2>1. v = (IF x >= S THEN x - S ELSE x) /\ u = IF y >= S THEN y - S ELSE y
    <3> HIDE DEF x, y
    <3> QED BY <1>2, <1>5
  <2> HIDE DEF x, y, v, u
  <2>2. ASSUME NEW i \in Int, 0 <= i, i < 2 * S PROVE i % S = IF i >= S THEN i - S ELSE i
    <3>1. CASE i >= S
      BY <1>2, <2>2, <3>1, SmallRemainder
    <3>2. CASE ~(i >= S)
      BY <1>2, <2>2, <3>2, SmallRemainder
    <3> QED BY <3>1, <3>2
  <2> QED BY <2>1, <2>2, <1>5
<1>9. Arithmetic("add", w, a, b, fg).v = v /\ Arithmetic("add", w, a, b, fg).fg.c = e
  <2>1. Arithmetic("add", w, a, b, fg) = CheckOverflow(fg, w, x)
    BY DEF Arithmetic
  <2> HIDE DEF x
  <2>2. CheckOverflow(fg, w, x).v = (x % Word) % S /\ CheckOverflow(fg, w, x).fg.c = Bool(x % Word >= S)
    BY <1>5, CheckTyped DEF S
  <2> QED BY <2>1, <2>2, <1>6, <1>8 DEF Bool
<1>10. Arithmetic("adc", w, c, d, ff).v = u /\ Arithmetic("adc", w, c, d, ff).fg.c = f
  <2>1. Arithmetic("adc", w, c, d, ff) = CheckOverflow(ff, w, y)
    BY DEF Arithmetic
  <2> HIDE DEF y
  <2>2. CheckOverflow(ff, w, y).v = (y % Word) % S /\ CheckOverflow(ff, w, y).fg.c = Bool(y % Word >= S)
    BY <1>5, CheckTyped DEF S
  <2> QED BY <2>1, <2>2, <1>6, <1>8 DEF Bool
<1>11. ff.c = e
  BY <1>9
<1> DEFINE z == c + d
           X == x + z * S
           V == v + u * S
           T == S * S
<1>12. X = V + f * T /\ V \in Nat /\ V < T /\ V = X % T
  <2>1. x = v + e * S /\ z + e = u + f * S
    <3>1. e * S \in Int /\ f * S \in Int
      BY <1>2, <1>7
    <3>2. y = z + e
      BY <1>11
    <3> DEFINE p == e * S
               q == f * S
    <3>3. v = x - p /\ u = y - q /\ p \in Int /\ q \in Int /\ z \in Int
      BY <3>1, <1>x
    <3> HIDE DEF e, f, x, y, z, v, u, p, q
    <3>4. x = v + p /\ z + e = u + q
      BY <3>2, <3>3, <1>5, <1>7
    <3> QED BY <3>4 DEF p, q
  <2>2. z \in Int
    BY <1>x
  <2>3. e \in Int /\ f \in Int
    BY <1>7
  <2> HIDE DEF x, z, v, u, e, f
  <2>4. Column(S, x, v, e) /\ Column(S, z + e, u, f)
    BY <2>1, <1>7 DEF Column
  <2>5. /\ x + z * S = (v + u * S) + f * (S * S)
        /\ v + u * S \in Nat /\ v + u * S < S * S
        /\ v + u * S = (x + z * S) % (S * S)
    <3>1. ColumnSum(S, x, z, v, u, f)
      BY <2>2, <2>3, <2>4, <1>2, <1>5, <1>7, Columns
    <3> QED BY <3>1 DEF ColumnSum
  <2> QED BY <2>5
<1>13. f = 1 <=> X >= T
  <2> DEFINE q == f * T
  <2>1. T \in Nat
    BY <1>2
  <2>2. q = IF f = 1 THEN T ELSE 0
    <3> HIDE DEF T, f
    <3> QED BY <1>7, <2>1
  <2>3. X = V + q
    BY <1>12
  <2> HIDE DEF X, V, T, q, f
  <2> QED BY <2>1, <2>2, <2>3, <1>12, <1>7
<1>14. Wide(w, a, c) + Wide(w, b, d) = X
  <2> DEFINE p == c * S
             q == d * S
  <2>1. z * S = p + q /\ p \in Int /\ q \in Int
    BY <1>2, <1>x
  <2>2. Wide(w, a, c) = a + p /\ Wide(w, b, d) = b + q
    BY DEF Wide, S
  <2>3. X = (a + b) + (p + q)
    BY <2>1
  <2> HIDE DEF p, q, X
  <2> QED BY <2>1, <2>2, <2>3, <1>x
<1>15. Wide(w, v, u) = V
  BY DEF Wide, S
<1> HIDE DEF X, V, T, v, u, f, e
<1> QED BY <1>9, <1>10, <1>12, <1>13, <1>14, <1>15 DEF T, S

\* sub and sbb.
LEMMA WideSub ==
    ASSUME NEW w \in Width, w <= 4, NEW fg \in Flags, NEW ff \in Flags,
           NEW a \in 0 .. (Span(w) - 1), NEW b \in 0 .. (Span(w) - 1),
           NEW c \in 0 .. (Span(w) - 1), NEW d \in 0 .. (Span(w) - 1),
           ff.c = Arithmetic("sub", w, a, b, fg).fg.c
    PROVE  LET v == Wide(w, Arithmetic("sub", w, a, b, fg).v, Arithmetic("sbb", w, c, d, ff).v)
           IN  /\ v = (Wide(w, a, c) - Wide(w, b, d)) % (Span(w) * Span(w))
               /\ Arithmetic("sbb", w, c, d, ff).fg.c = 1 <=> Wide(w, a, c) < Wide(w, b, d)
<1> DEFINE S == Span(w)
           x == a - b
           y == c - d - ff.c
           e == IF x < 0 THEN 1 ELSE 0
           f == IF y < 0 THEN 1 ELSE 0
           v == x + e * S
           u == y + f * S
<1>1. PICK k \in Nat \ {0} : Word = k * (S * S)
  BY WordHolds
<1>2. S \in Nat \ {0} /\ 2 <= S
  BY HalfSpan
<1>h. PICK m \in Nat \ {0} : Word = m * S
  BY WordHolds
<1>3. 2 * S <= Word /\ Word \in Nat \ {0} /\ S <= Word
  <2> HIDE DEF S
  <2> DEFINE T == S * S
  <2>1. T \in Nat \ {0}
    BY <1>2
  <2>2. 2 * S <= S * S
    BY <1>2, Products
  <2>3. 1 * T <= k * T
    <3> HIDE DEF T
    <3> QED BY <2>1, Products
  <2>4. T <= Word /\ 2 * S <= T
    <3>1. Word = k * T
      BY <1>1
    <3>2. 2 * S <= T
      BY <2>2
    <3> HIDE DEF T
    <3> QED BY <2>1, <2>3, <3>1, <3>2
  <2> HIDE DEF T
  <2> QED BY <2>1, <2>4, <1>2, WordType
<1>4. ff.c \in 0 .. 1
  BY DEF Flags
<1>x. a \in Nat /\ b \in Nat /\ c \in Nat /\ d \in Nat /\ a < S /\ b < S /\ c < S /\ d < S
  BY <1>2
<1> HIDE DEF S
<1>5. x \in Int /\ y \in Int /\ -S <= x /\ x < S /\ -S <= y /\ y < S
  BY <1>2, <1>4, <1>x
<1>6. ASSUME NEW i \in Int, -S <= i, i < S
      PROVE  /\ (i % Word) % S = IF i < 0 THEN i + S ELSE i
             /\ Bool(i % Word >= S) = IF i < 0 THEN 1 ELSE 0
  <2>1. (i % Word) % S = i % S
    <3>1. (i % (m * S)) % S = i % S
      BY <1>2, RemainderTwice
    <3> QED BY <1>h, <3>1
  <2>2. CASE i < 0
    <3>1. i % S = i + S
      BY <1>2, <1>6, <2>2, SmallRemainder
    <3>2. -Word <= i
      BY <1>2, <1>3, <1>6
    <3>3. i % Word = i + Word
      BY <1>3, <2>2, <3>2, SmallRemainder
    <3>4. i + Word >= S
      BY <1>2, <1>3, <1>6
    <3> QED BY <2>1, <2>2, <3>1, <3>3, <3>4 DEF Bool
  <2>3. CASE ~(i < 0)
    <3>1. i % S = i
      BY <1>2, <1>6, <2>3, SmallRemainder
    <3>2. i < Word /\ 0 <= i
      BY <1>2, <1>3, <1>6, <2>3
    <3>3. i % Word = i
      BY <1>3, <3>2, SmallRemainder
    <3>4. ~(i >= S)
      BY <1>2, <1>6
    <3> QED BY <2>1, <2>3, <3>1, <3>3, <3>4 DEF Bool
  <2> QED BY <2>2, <2>3
<1>7. e \in 0 .. 1 /\ f \in 0 .. 1 /\ v \in Nat /\ v < S /\ u \in Nat /\ u < S
  <2> HIDE DEF x, y
  <2> QED BY <1>2, <1>5
<1>8. v = (IF x < 0 THEN x + S ELSE x) /\ u = IF y < 0 THEN y + S ELSE y
  <2> HIDE DEF x, y
  <2> QED BY <1>2, <1>5
<1>9. Arithmetic("sub", w, a, b, fg).v = v /\ Arithmetic("sub", w, a, b, fg).fg.c = e
  <2>1. Arithmetic("sub", w, a, b, fg) = CheckOverflow(fg, w, x)
    BY DEF Arithmetic
  <2> HIDE DEF x, v
  <2>2. CheckOverflow(fg, w, x).v = (x % Word) % S /\ CheckOverflow(fg, w, x).fg.c = Bool(x % Word >= S)
    BY <1>5, CheckTyped DEF S
  <2>3. (x % Word) % S = v /\ Bool(x % Word >= S) = e
    BY <1>5, <1>6, <1>8
  <2> HIDE DEF e
  <2> QED BY <2>1, <2>2, <2>3
<1>10. Arithmetic("sbb", w, c, d, ff).v = u /\ Arithmetic("sbb", w, c, d, ff).fg.c = f
  <2>1. Arithmetic("sbb", w, c, d, ff) = CheckOverflow(ff, w, y)
    BY DEF Arithmetic
  <2> HIDE DEF y, u
  <2>2. CheckOverflow(ff, w, y).v = (y % Word) % S /\ CheckOverflow(ff, w, y).fg.c = Bool(y % Word >= S)
    BY <1>5, CheckTyped DEF S
  <2>3. (y % Word) % S = u /\ Bool(y % Word >= S) = f
    BY <1>5, <1>6, <1>8
  <2> HIDE DEF f
  <2> QED BY <2>1, <2>2, <2>3
<1>11. ff.c = e
  BY <1>9
<1> DEFINE z == c - d
           X == x + z * S
           V == v + u * S
           T == S * S
           g == -f
           h == -e
<1>12. X = V + g * T /\ V \in Nat /\ V < T /\ V = X % T
  <2>1. x = v + h * S /\ z + h = u + g * S
    <3> DEFINE p == e * S
               q == f * S
    <3>1. h * S = -p /\ g * S = -q /\ p \in Int /\ q \in Int
      BY <1>2, <1>7
    <3>2. y = z - e
      BY <1>11
    <3>3. v = x + p /\ u = y + q /\ z \in Int
      BY <1>x
    <3>4. h = -e
      OBVIOUS
    <3> DEFINE hS == h * S
               gS == g * S
    <3>5. hS = -p /\ gS = -q
      BY <3>1
    <3> HIDE DEF e, f, x, y, z, v, u, p, q, hS, gS, h
    <3>6. x = v + hS /\ z + h = u + gS
      BY <3>1, <3>2, <3>3, <3>4, <3>5, <1>5, <1>7
    <3> QED BY <3>6 DEF hS, gS
  <2>2. z \in Int
    BY <1>x
  <2>3. g \in Int /\ h \in Int
    BY <1>7
  <2>4. v \in Nat /\ u \in Nat /\ v < S /\ u < S /\ x \in Int
    BY <1>5, <1>7
  <2> HIDE DEF x, z, v, u, e, f, g, h
  <2>5. /\ x + z * S = (v + u * S) + g * (S * S)
        /\ v + u * S \in Nat /\ v + u * S < S * S
        /\ v + u * S = (x + z * S) % (S * S)
    <3>1. Column(S, x, v, h) /\ Column(S, z + h, u, g)
      BY <2>1, <2>4 DEF Column
    <3>2. ColumnSum(S, x, z, v, u, g)
      BY <3>1, <2>2, <2>3, <2>4, <1>2, Columns
    <3> QED BY <3>2 DEF ColumnSum
  <2> QED BY <2>5
<1>13. (f = 1 <=> X < 0) /\ X \in Int
  <2> DEFINE q == g * T
  <2>1. T \in Nat
    BY <1>2
  <2>2. q = IF f = 1 THEN -T ELSE 0
    <3> HIDE DEF T, f
    <3> QED BY <1>7, <2>1
  <2>3. X = V + q
    BY <1>12
  <2> HIDE DEF X, V, T, q, f
  <2> QED BY <2>1, <2>2, <2>3, <1>12, <1>7
<1>14. Wide(w, a, c) - Wide(w, b, d) = X /\ Wide(w, a, c) \in Int /\ Wide(w, b, d) \in Int
  <2> DEFINE p == c * S
             q == d * S
  <2>1. z * S = p - q /\ p \in Int /\ q \in Int
    BY <1>2, <1>x
  <2>2. Wide(w, a, c) = a + p /\ Wide(w, b, d) = b + q
    BY DEF Wide, S
  <2>3. X = (a - b) + (p - q)
    BY <2>1
  <2> HIDE DEF p, q, X
  <2> QED BY <2>1, <2>2, <2>3, <1>x
<1>15. Wide(w, v, u) = V
  BY DEF Wide, S
<1>16. f = 1 <=> Wide(w, a, c) < Wide(w, b, d)
  <2> HIDE DEF X, f
  <2> QED BY <1>13, <1>14
<1> HIDE DEF X, V, T, v, u, f, e
<1> QED BY <1>9, <1>10, <1>12, <1>14, <1>15, <1>16 DEF T, S

-----------------------------------------------------------------------------
\* Products of signed registers.
LEMMA MultiplyTyped ==
    ASSUME NEW w \in Width, NEW a \in Nat, NEW b \in Nat, NEW fg \in Flags, NEW op
    PROVE  Multiply(op, w, a, b, fg).v \in Int /\ Multiply(op, w, a, b, fg).fg \in Flags
<1>0. 8 \in Width /\ Word \in Nat \ {0} /\ Span(w) \in Nat \ {0}
  BY WordType, SpanType DEF Width
<1>1. ASSUME NEW x \in Int, NEW y \in Int PROVE Product(x, y) \in Int
  <2>1. x % Word \in Int /\ y % Word \in Int
    BY <1>0
  <2>2. Signed(8, x % Word) \in Int /\ Signed(8, y % Word) \in Int
    BY <1>0, <2>1, SignedType
  <2> DEFINE p == Signed(8, x % Word) * Signed(8, y % Word)
  <2>3. p \in Int
    BY <2>2
  <2> HIDE DEF p
  <2>4. p % Word \in Int
    BY <1>0, <2>3
  <2>5. Signed(8, p % Word) \in Int
    BY <1>0, <2>4, SignedType
  <2> QED BY <2>5 DEF Product, p
<1>2. FilledUp(w, a) \in Int
  <2>1. (Word - Span(w)) + a \in Int
    BY <1>0
  <2> QED BY <1>0, <2>1, SignedType DEF FilledUp
<1>3. Product(a, b) \in Int /\ Product(FilledUp(w, a), b) \in Int
  <2>1. a \in Int /\ b \in Int
    OBVIOUS
  <2>2. Product(a, b) \in Int
    BY <1>1, <2>1
  <2> DEFINE x == FilledUp(w, a)
  <2> HIDE DEF x
  <2>3. x \in Int
    BY <1>2 DEF x
  <2>4. Product(x, b) \in Int
    BY <1>1, <2>1, <2>3
  <2> QED BY <2>2, <2>4 DEF x
<1>4. CASE op = "mul"
  <2>1. Multiply(op, w, a, b, fg) = CheckOverflow(fg, w, Product(a, b))
    BY <1>4 DEF Multiply
  <2> QED BY <2>1, <1>3, CheckTyped
<1>5. CASE op # "mul"
  <2> DEFINE p == Product(FilledUp(w, a), b)
  <2>1. Multiply(op, w, a, b, fg) = CheckBySign(fg, w, p)
    BY <1>5 DEF Multiply
  <2>2. p \in Int
    BY <1>3
  <2> HIDE DEF p
  <2>3. CheckBySign(fg, w, p).v \in Int /\ CheckBySign(fg, w, p).fg \in Flags
    BY <2>2, CheckBySignTyped
  <2> QED BY <2>1, <2>3
<1> QED BY <1>4, <1>5

LEMMA DivideTyped ==
    ASSUME NEW w \in Width, NEW a \in 0 .. (Span(w) - 1), NEW b \in 0 .. (Span(w) - 1), b # 0,
           NEW fg \in Flags, NEW op
    PROVE  /\ Divide(op, w, a, b, fg).q \in Int /\ Divide(op, w, a, b, fg).m \in Int
           /\ Divide(op, w, a, b, fg).fg \in Flags
           /\ op = "div" => /\ Divide(op, w, a, b, fg).q = a \div b
                            /\ Divide(op, w, a, b, fg).m = a % b
<1> DEFINE S == Span(w)
<1>0. /\ 8 \in Width /\ Word \in Nat \ {0} /\ S \in Nat \ {0} /\ S <= Word
      /\ Word \div 2 \in Nat \ {0}
  BY WordType, SpanType, WordHolds DEF Width
<1>x. a \in Nat /\ b \in Nat \ {0} /\ a < S /\ b < S
  BY <1>0
<1>1. CASE op = "div"
  <2> DEFINE y == a \div b
             z == a % b
             q == CheckOverflow(fg, w, y)
             m == CheckOverflow(q.fg, w, z)
  <2>1. y \in Nat /\ z \in Nat /\ y < S /\ z < S
    <3>1. y \in Nat /\ y <= a
      BY <1>x, Division, QuotientSmaller
    <3>2. z \in Nat /\ z < b
      BY <1>x, Division
    <3> HIDE DEF y, z, S
    <3> QED BY <3>1, <3>2, <1>0, <1>x
  <2>2. Divide(op, w, a, b, fg) = [q |-> q.v, m |-> m.v, fg |-> m.fg]
    BY <1>1 DEF Divide
  <2> HIDE DEF y, z
  <2>3. (y % Word) % S = y /\ (z % Word) % S = z
    <3> HIDE DEF S
    <3>1. y % Word = y /\ z % Word = z /\ y % S = y /\ z % S = z
      BY <1>0, <2>1, SmallRemainder
    <3> QED BY <3>1
  <2>4. q.v = y /\ q.fg \in Flags
    BY <2>1, <2>3, CheckTyped
  <2> HIDE DEF q
  <2>5. m.v = z /\ m.fg \in Flags
    BY <2>1, <2>3, <2>4, CheckTyped
  <2> HIDE DEF m
  <2>6. Divide(op, w, a, b, fg).q = y /\ Divide(op, w, a, b, fg).m = z /\ Divide(op, w, a, b, fg).fg \in Flags
    BY <2>2, <2>4, <2>5
  <2>7. y \in Int /\ z \in Int
    BY <2>1
  <2> QED BY <2>6, <2>7 DEF y, z
<1>2. CASE op # "div"
  <2> DEFINE x == FilledUp(w, a)
             y == Signed(8, b)
             q == CheckBySign(fg, w, Quotient(x, y))
             m == CheckBySign(q.fg, w, Remainder(x, y))
  <2>1. x \in Int
    <3>1. (Word - Span(w)) + a \in Int
      BY <1>0, <1>x
    <3> QED BY <1>0, <3>1, SignedType DEF FilledUp
  <2>2. y \in Int /\ y # 0
    <3>1. y = IF b >= Word \div 2 THEN b - Word ELSE b
      BY DEF Signed, Word
    <3> DEFINE half == Word \div 2
    <3> HIDE DEF y, half
    <3>2. y = IF b >= half THEN b - Word ELSE b
      BY <3>1 DEF half
    <3> HIDE DEF S
    <3> QED BY <3>2, <1>0, <1>x
  <2>3. Divide(op, w, a, b, fg) = [q |-> q.v, m |-> m.v, fg |-> m.fg]
    BY <1>2 DEF Divide
  <2> HIDE DEF x, y
  <2> DEFINE X == Abs(x)
             Y == Abs(y)
  <2>4. X \in Nat /\ Y \in Nat \ {0} /\ Sign(x) \in Int /\ Sign(y) \in Int
    BY <2>1, <2>2 DEF Abs, Sign
  <2>5. Quotient(x, y) = Sign(x) * Sign(y) * (X \div Y) /\ Remainder(x, y) = Sign(x) * (X % Y)
    BY DEF Quotient, Remainder
  <2> HIDE DEF X, Y
  <2>6. X \div Y \in Int /\ X % Y \in Int
    BY <2>4, Division
  <2>7. Sign(x) * Sign(y) * (X \div Y) \in Int /\ Sign(x) * (X % Y) \in Int
    BY <2>4, <2>6
  <2>8. Quotient(x, y) \in Int /\ Remainder(x, y) \in Int
    BY <2>5, <2>7
  <2>9. q.v \in Int /\ q.fg \in Flags
    BY <2>8, CheckBySignTyped
  <2> HIDE DEF q
  <2>10. m.v \in Int /\ m.fg \in Flags
    BY <2>8, <2>9, CheckBySignTyped
  <2> HIDE DEF m
  <2> QED BY <1>2, <2>3, <2>9, <2>10
<1> QED BY <1>1, <1>2

\* An address is a word.
LEMMA AddressTyped ==
    ASSUME NEW w \in Width, NEW x \in Int, NEW y \in Int, NEW z \in Int, NEW ratio \in Nat
    PROVE  EffectiveAddress(x, y, w, z, ratio) \in Int
<1> DEFINE p == (x + y + Signed(w, z)) * ratio
<1>1. Signed(w, z) \in Int
  BY SignedType
<1>2. p \in Int
  BY <1>1
<1> HIDE DEF p
<1>3. p % Word \in Int
  BY <1>2, WordType
<1> QED BY <1>3 DEF EffectiveAddress, p

-----------------------------------------------------------------------------
\* The registers after decoding.
LEMMA FetchedFacts ==
    ASSUME r \in Registers
    PROVE  /\ Fetched.r \in Registers /\ Fetched.mem = mem /\ Fetched.thrown = "none"
           /\ Fetched.r.gp = r.gp /\ Fetched.r.fg = r.fg /\ Fetched.r.sb = r.sb
           /\ Fetched.r.sp = r.sp /\ Fetched.r.cb = r.cb /\ Fetched.r.cps = r.cps
           /\ Fetched.r.ip = (r.ip + 1) % Word
<1> DEFINE n == (r.ip + 1) % Word
           q == [r EXCEPT !.ip = n]
<1>1. n \in Values
  <2>1. r.ip \in Nat
    BY WordType DEF Registers, Values
  <2> QED BY <2>1, WordType DEF Values
<1>2. Fetched = [r |-> q, mem |-> mem, thrown |-> "none"]
  BY DEF Fetched, Out
<1> HIDE DEF n
<1>3. q \in Registers
  BY <1>1 DEF Registers
<1>4. /\ q.gp = r.gp /\ q.fg = r.fg /\ q.sb = r.sb /\ q.sp = r.sp /\ q.cb = r.cb
      /\ q.cps = r.cps /\ q.ip = n
  BY DEF Registers
<1> HIDE DEF q
<1>5. Fetched.r = q /\ Fetched.mem = mem /\ Fetched.thrown = "none"
  BY <1>2
<1> QED BY <1>3, <1>4, <1>5 DEF n

-----------------------------------------------------------------------------
(***************************************************************************)
(* The history of mode "alu".  Every computation recorded is the effect of *)
(* its instruction on operands of its width (Performed); one that follows  *)
(* another found its flags, and its value if it has the same destination   *)
(* (Follows).                                                              *)
(***************************************************************************)
Ops == WriteOps \cup Jumps \cup {"cmp", "mul", "imul", "div", "idiv", "xchg", "lea", "loop"}

Entry == [op : Ops, w : Width, i : 0 .. 3, a : Nat, b : Nat, fg : Flags, v : Int, after : Flags]

Performed(h) ==
    h.op \in WriteOps =>
        /\ h.i \in 0 .. 1 /\ h.a \in 0 .. (Span(h.w) - 1) /\ h.b \in 0 .. (Span(h.w) - 1)
        /\ h.v = Effect(h.op, h.w, h.a, h.b, h.fg).v
        /\ h.after = Effect(h.op, h.w, h.a, h.b, h.fg).fg

Follows(h, g) ==
    (h.op \in WriteOps /\ g.op \in WriteOps) =>
        /\ g.fg = h.after
        /\ g.i = h.i => g.a = h.v % Span(h.w) /\ g.b = h.b

HistoryInv ==
    /\ hist \in Seq(Entry)
    /\ \A j, k \in DOMAIN hist : hist[j].w = hist[k].w
    /\ \A k \in DOMAIN hist : Performed(hist[k])
    /\ \A k \in DOMAIN hist : k + 1 \in DOMAIN hist => Follows(hist[k], hist[k + 1])

\* A sequence that has one more element is another one.
LEMMA Longer ==
    ASSUME NEW s, NEW t, Len(s) \in Nat, Len(t) = Len(s) + 1
    PROVE  t # s /\ t # <<>>
<1>1. Len(t) # Len(s) /\ Len(t) # 0
  OBVIOUS
<1>2. Len(<<>>) = 0
  OBVIOUS
<1> QED BY <1>1, <1>2

\* One more entry.
LEMMA HistoryGrows ==
    ASSUME HistoryInv, NEW h \in Entry, hist' = Append(hist, h), \A k \in DOMAIN hist : hist[k].w = h.w,
           Performed(h), hist # <<>> => Follows(hist[Len(hist)], h)
    PROVE  /\ HistoryInv' /\ Len(hist') = Len(hist) + 1 /\ hist' # <<>> /\ hist' # hist
           /\ hist'[Len(hist')] = h /\ Last(hist') = h
<1> DEFINE n == Len(hist)
<1>1. hist \in Seq(Entry) /\ n \in Nat /\ DOMAIN hist = 1 .. n
  BY DEF HistoryInv
<1>2. hist' \in Seq(Entry) /\ Len(hist') = n + 1 /\ DOMAIN hist' = 1 .. (n + 1)
  BY <1>1
<1>3. hist'[n + 1] = h /\ \A k \in 1 .. n : hist'[k] = hist[k]
  BY <1>1
<1>4. hist' # <<>> /\ hist' # hist
  BY <1>1, <1>2, Longer
<1>5. Last(hist') = h
  BY <1>2, <1>3 DEF Last
<1> HIDE DEF n
<1>6. \A k \in DOMAIN hist' : k \in 1 .. n \/ k = n + 1
  BY <1>1, <1>2
<1>7. \A j, k \in 1 .. n : hist[j].w = hist[k].w
  BY <1>1 DEF HistoryInv
<1>8. \A k \in DOMAIN hist' : hist'[k].w = h.w
  BY <1>1, <1>3, <1>6
<1>9. \A k \in DOMAIN hist' : Performed(hist'[k])
  <2>1. \A k \in 1 .. n : Performed(hist[k])
    BY <1>1 DEF HistoryInv
  <2> QED BY <1>3, <1>6, <2>1
<1>10. ASSUME NEW k \in DOMAIN hist', k + 1 \in DOMAIN hist' PROVE Follows(hist'[k], hist'[k + 1])
  <2>1. k \in 1 .. n
    BY <1>1, <1>2, <1>10
  <2>2. CASE k = n
    <3>1. hist # <<>>
      BY <1>1, <2>1, <2>2
    <3>2. Follows(hist[n], h)
      BY <3>1 DEF n
    <3> QED BY <2>1, <2>2, <3>2, <1>3
  <2>3. CASE k # n
    <3>1. k + 1 \in 1 .. n /\ k \in 1 .. n
      BY <1>1, <2>1, <2>3
    <3>2. Follows(hist[k], hist[k + 1])
      BY <1>1, <3>1 DEF HistoryInv
    <3> QED BY <1>3, <3>1, <3>2
  <2> QED BY <2>2, <2>3
<1>11. hist'[Len(hist')] = h
  BY <1>2, <1>3
<1>12. HistoryInv'
  BY <1>2, <1>8, <1>9, <1>10 DEF HistoryInv
<1> QED BY <1>2, <1>4, <1>5, <1>11, <1>12 DEF n

(***************************************************************************)
(* The inductive invariant of mode "alu": the history, the registers it    *)
(* left, and what a jump and a division read.                              *)
(***************************************************************************)
Remembers ==
    hist # <<>> =>
        LET h == hist[Len(hist)]
        IN  /\ r.fg = h.after
            /\ h.op \in WriteOps => /\ Load(r.gp, h.w, h.i) = h.v % Span(h.w)
                                    /\ Load(r.gp, h.w, h.i + 2) = h.b

Compared ==
    event = "compare" =>
        /\ hist # <<>> /\ Len(hist) <= MaxOps
        /\ LET h == hist[Len(hist)]
           IN  r.fg = Compare(h.a, h.b, h.fg)

AluInv ==
    /\ r \in Registers
    /\ frames = <<>> /\ mem = [a \in {} |-> 0]
    /\ HistoryInv
    /\ r.ip <= Len(hist) /\ Len(hist) <= MaxOps + 1
    /\ Remembers /\ Compared
    /\ DivisionExact /\ JumpsOnRelation

\* What every computation of mode "alu" keeps.
LEMMA AluStep ==
    ASSUME AluInv, NEW w \in Width, Computes(w), NEW h \in Entry, hist' = Append(hist, h),
           h.w = w, h.fg = r.fg, Performed(h),
           h.op \in WriteOps => h.a = Load(r.gp, w, h.i) /\ h.b = Load(r.gp, w, h.i + 2)
    PROVE  /\ HistoryInv' /\ Len(hist') <= MaxOps /\ hist' # <<>> /\ hist' # hist
           /\ hist'[Len(hist')] = h /\ Last(hist') = h /\ (r.ip + 1) % Word <= Len(hist')
<1>1. \A k \in DOMAIN hist : hist[k].w = h.w
  BY DEF Computes
<1>2. HistoryInv /\ hist \in Seq(Entry) /\ Len(hist) \in Nat
  BY DEF AluInv, HistoryInv
<1>3. ASSUME hist # <<>> PROVE Follows(hist[Len(hist)], h)
  <2> DEFINE g == hist[Len(hist)]
  <2>1. Len(hist) \in DOMAIN hist
    BY <1>2, <1>3
  <2>2. g.w = w
    BY <1>1, <2>1
  <2>3. /\ r.fg = g.after
        /\ g.op \in WriteOps => /\ Load(r.gp, g.w, g.i) = g.v % Span(g.w)
                                /\ Load(r.gp, g.w, g.i + 2) = g.b
    BY <1>3 DEF AluInv, Remembers
  <2> HIDE DEF g
  <2>4. Follows(g, h)
    BY <2>2, <2>3 DEF Follows
  <2> QED BY <2>4 DEF g
<1>4. /\ HistoryInv' /\ Len(hist') = Len(hist) + 1 /\ hist' # <<>> /\ hist' # hist
      /\ hist'[Len(hist')] = h /\ Last(hist') = h
  BY <1>1, <1>2, <1>3, HistoryGrows
<1>5. Len(hist) < MaxOps /\ MaxOps \in Nat /\ MaxOps + 1 < Word
  BY MachineAssumption DEF Computes
<1>6. r.ip \in Nat /\ r.ip <= Len(hist)
  BY WordType DEF AluInv, Registers, Values
<1>7. (r.ip + 1) % Word = r.ip + 1
  BY <1>2, <1>5, <1>6, WordType, SmallRemainder
<1> QED BY <1>2, <1>4, <1>5, <1>6, <1>7

\* How an action of mode "alu" is shown to keep the invariant.
LEMMA AluKept ==
    ASSUME AluInv, NEW h, hist'[Len(hist')] = h, HistoryInv', Len(hist') <= MaxOps + 1,
           UNCHANGED <<frames, mem>>, r' \in Registers, r'.ip <= Len(hist'), r'.fg = h.after,
           h.op \in WriteOps => /\ Load(r'.gp, h.w, h.i) = h.v % Span(h.w)
                                /\ Load(r'.gp, h.w, h.i + 2) = h.b,
           Compared', DivisionExact', JumpsOnRelation'
    PROVE  AluInv'
<1>1. Remembers'
  BY DEF Remembers
<1> QED BY <1>1 DEF AluInv

\* An instruction that stores registers and flags.
LEMMA Stored ==
    ASSUME r \in Registers, NEW g \in RegisterFile, NEW f \in Flags,
           r' = [Fetched.r EXCEPT !.gp = g, !.fg = f]
    PROVE  r' \in Registers /\ r'.gp = g /\ r'.fg = f /\ r'.ip = (r.ip + 1) % Word
<1> DEFINE q == Fetched.r
           s == [q EXCEPT !.gp = g, !.fg = f]
<1>1. q \in Registers /\ q.ip = (r.ip + 1) % Word
  BY FetchedFacts
<1>2. r' = s
  OBVIOUS
<1> HIDE DEF q
<1>r. Registers = [gp : RegisterFile, fg : Flags, sb : Values,
                   sp : Values, cb : Values, ip : Values, cps : Values]
  BY DEF Registers, RegisterFile
<1>3. s \in Registers
  BY <1>1, <1>r
<1>4. s.gp = g /\ s.fg = f /\ s.ip = q.ip
  BY <1>1, <1>r
<1> HIDE DEF s
<1> QED BY <1>1, <1>2, <1>3, <1>4

\* The registers of the program.
LEMMA Pair ==
    ASSUME AluInv, NEW w \in Width, NEW p \in Operands
    PROVE  /\ p[1] \in 0 .. 1 /\ p[2] = p[1] + 2 /\ p[1] \in 0 .. 3 /\ p[2] \in 0 .. 3 /\ p[1] # p[2]
           /\ Load(r.gp, w, p[1]) \in Nat /\ Load(r.gp, w, p[1]) < Span(w)
           /\ Load(r.gp, w, p[2]) \in Nat /\ Load(r.gp, w, p[2]) < Span(w)
           /\ Load(r.gp, w, p[1]) \in 0 .. (Span(w) - 1) /\ Load(r.gp, w, p[2]) \in 0 .. (Span(w) - 1)
<1>1. p[1] \in 0 .. 1 /\ p[2] = p[1] + 2
  BY DEF Operands
<1>2. p[1] \in 0 .. 3 /\ p[2] \in 0 .. 3 /\ p[1] # p[2]
  BY <1>1
<1>3. r.gp \in RegisterFile
  BY DEF AluInv, Registers, RegisterFile
<1>4. Load(r.gp, w, p[1]) \in Nat /\ Load(r.gp, w, p[1]) < Span(w)
  BY <1>2, <1>3, LoadRange
<1>5. Load(r.gp, w, p[2]) \in Nat /\ Load(r.gp, w, p[2]) < Span(w)
  BY <1>2, <1>3, LoadRange
<1>6. Load(r.gp, w, p[1]) \in 0 .. (Span(w) - 1) /\ Load(r.gp, w, p[2]) \in 0 .. (Span(w) - 1)
  BY <1>4, <1>5, SpanType
<1> QED BY <1>1, <1>2, <1>4, <1>5, <1>6

LEMMA ComputeKeeps ==
    ASSUME AluInv, NEW w \in Width, NEW p \in Operands, NEW op \in WriteOps,
           Compute(op, w, p[1], p[2])
    PROVE  AluInv'
<1> DEFINE i == p[1]
           j == p[2]
           a == Load(r.gp, w, i)
           b == Load(r.gp, w, j)
           x == Effect(op, w, a, b, r.fg)
           h == [op |-> op, w |-> w, i |-> i, a |-> a, b |-> b, fg |-> r.fg, v |-> x.v, after |-> x.fg]
           g == Store(r.gp, w, i, x.v)
<1>1. /\ i \in 0 .. 1 /\ j = i + 2 /\ i \in 0 .. 3 /\ j \in 0 .. 3 /\ i # j /\ a \in Nat /\ b \in Nat
      /\ a \in 0 .. (Span(w) - 1) /\ b \in 0 .. (Span(w) - 1)
  BY Pair
<1>2. r \in Registers /\ r.fg \in Flags /\ r.gp \in RegisterFile
  BY DEF AluInv, Registers, RegisterFile
<1>3. /\ Computes(w) /\ UNCHANGED <<frames, mem>> /\ event' = "compute"
      /\ r' = [Fetched.r EXCEPT !.gp = Store(@, w, i, x.v), !.fg = x.fg]
      /\ hist' = Append(hist, h)
  BY DEF Compute, Record, Effect
<1> HIDE DEF i, j
<1>4. x.v \in Int /\ x.fg \in Flags
  BY <1>1, <1>2, EffectTyped
<1>5. /\ Fetched.r \in Registers /\ Fetched.r.gp = r.gp /\ Fetched.r.ip = (r.ip + 1) % Word
  BY <1>2, FetchedFacts
<1>6. g \in RegisterFile
  BY <1>1, <1>2, <1>4, StoreTyped
<1>7. Load(g, w, i) = x.v % Span(w)
  BY <1>1, <1>2, <1>4, LoadStored
<1>8. Load(g, w, j) = b
  BY <1>1, <1>2, <1>4, LoadOther
<1>9. r' = [Fetched.r EXCEPT !.gp = g, !.fg = x.fg]
  BY <1>3, <1>5 DEF Registers
<1> HIDE DEF g
<1>10. r' \in Registers /\ r'.gp = g /\ r'.fg = x.fg /\ r'.ip = (r.ip + 1) % Word
  BY <1>2, <1>4, <1>6, <1>9, Stored
<1>11. op \in Ops
  BY DEF Ops
<1>12. /\ h.op = op /\ h.w = w /\ h.i = i /\ h.a = a /\ h.b = b /\ h.fg = r.fg /\ h.v = x.v
       /\ h.after = x.fg
  OBVIOUS
<1>13. x = Effect(op, w, a, b, r.fg)
  OBVIOUS
<1> HIDE DEF x, a, b
<1>14. h \in Entry
  BY <1>1, <1>2, <1>4, <1>11 DEF Entry
<1> HIDE DEF h
<1>15. Performed(h)
  BY <1>1, <1>12, <1>13 DEF Performed
<1>16. h.a = Load(r.gp, w, h.i) /\ h.b = Load(r.gp, w, h.i + 2)
  BY <1>1, <1>12 DEF a, b
<1>17. /\ HistoryInv' /\ Len(hist') <= MaxOps /\ hist' # <<>>
       /\ hist'[Len(hist')] = h /\ r'.ip <= Len(hist')
  BY <1>3, <1>10, <1>12, <1>14, <1>15, <1>16, AluStep
<1>18. Compared' /\ DivisionExact' /\ JumpsOnRelation'
  BY <1>3 DEF Compared, DivisionExact, JumpsOnRelation
<1>19. Len(hist') <= MaxOps + 1
  BY <1>17, MachineAssumption DEF HistoryInv
<1>20. Load(r'.gp, h.w, h.i) = h.v % Span(h.w) /\ Load(r'.gp, h.w, h.i + 2) = h.b
  BY <1>1, <1>7, <1>8, <1>10, <1>12
<1> QED BY <1>3, <1>10, <1>12, <1>17, <1>18, <1>19, <1>20, AluKept

\* An instruction that stores flags only, or registers only.
LEMMA StoredFlags ==
    ASSUME r \in Registers, NEW f \in Flags, r' = [Fetched.r EXCEPT !.fg = f]
    PROVE  r' \in Registers /\ r'.gp = r.gp /\ r'.fg = f /\ r'.ip = (r.ip + 1) % Word
<1> DEFINE q == Fetched.r
           s == [q EXCEPT !.fg = f]
<1>1. q \in Registers /\ q.ip = (r.ip + 1) % Word /\ q.gp = r.gp
  BY FetchedFacts
<1>2. r' = s
  OBVIOUS
<1> HIDE DEF q
<1>3. s \in Registers
  BY <1>1 DEF Registers
<1>4. s.gp = q.gp /\ s.fg = f /\ s.ip = q.ip
  BY <1>1 DEF Registers
<1> HIDE DEF s
<1> QED BY <1>1, <1>2, <1>3, <1>4

LEMMA StoredRegisters ==
    ASSUME r \in Registers, NEW g \in RegisterFile, r' = [Fetched.r EXCEPT !.gp = g]
    PROVE  r' \in Registers /\ r'.gp = g /\ r'.fg = r.fg /\ r'.ip = (r.ip + 1) % Word
<1> DEFINE q == Fetched.r
           s == [q EXCEPT !.gp = g]
<1>1. q \in Registers /\ q.ip = (r.ip + 1) % Word /\ q.fg = r.fg
  BY FetchedFacts
<1>2. r' = s
  OBVIOUS
<1> HIDE DEF q
<1>r. Registers = [gp : RegisterFile, fg : Flags, sb : Values,
                   sp : Values, cb : Values, ip : Values, cps : Values]
  BY DEF Registers, RegisterFile
<1>3. s \in Registers
  BY <1>1, <1>r
<1>4. s.gp = g /\ s.fg = q.fg /\ s.ip = q.ip
  BY <1>1, <1>r
<1> HIDE DEF s
<1> QED BY <1>1, <1>2, <1>3, <1>4

\* A computation that is none of those the history is asked about.
LEMMA Recorded ==
    ASSUME AluInv, NEW w \in Width, Computes(w), NEW op \in Ops, op \notin WriteOps, NEW i \in 0 .. 3,
           NEW a \in Nat, NEW b \in Nat, NEW v \in Int, NEW f \in Flags, Record(op, w, i, a, b, v, f),
           r' \in Registers, r'.fg = f, r'.ip = (r.ip + 1) % Word, UNCHANGED mem
    PROVE  /\ Last(hist') = [op |-> op, w |-> w, i |-> i, a |-> a, b |-> b,
                             fg |-> r.fg, v |-> v, after |-> f]
           /\ hist'[Len(hist')] = Last(hist') /\ hist' # <<>> /\ hist' # hist /\ Len(hist') <= MaxOps
           /\ Compared' /\ DivisionExact' /\ JumpsOnRelation' => AluInv'
<1> DEFINE h == [op |-> op, w |-> w, i |-> i, a |-> a, b |-> b, fg |-> r.fg, v |-> v, after |-> f]
<1>1. hist' = Append(hist, h) /\ UNCHANGED <<frames, mem>>
  BY DEF Record
<1>2. r.fg \in Flags
  BY DEF AluInv, Registers
<1>3. h \in Entry
  BY <1>2 DEF Entry
<1>4. h.op = op /\ h.w = w /\ h.fg = r.fg /\ h.after = f
  OBVIOUS
<1> HIDE DEF h
<1>5. Performed(h)
  BY <1>4 DEF Performed
<1>6. /\ HistoryInv' /\ Len(hist') <= MaxOps /\ hist' # <<>> /\ hist' # hist
      /\ hist'[Len(hist')] = h /\ Last(hist') = h /\ (r.ip + 1) % Word <= Len(hist')
  BY <1>1, <1>3, <1>4, <1>5, AluStep
<1>7. Len(hist') <= MaxOps + 1
  BY <1>6, MachineAssumption DEF HistoryInv
<1>8. Compared' /\ DivisionExact' /\ JumpsOnRelation' => AluInv'
  BY <1>1, <1>4, <1>6, <1>7, AluKept
<1> QED BY <1>6, <1>8 DEF h

LEMMA CmpKeeps ==
    ASSUME AluInv, NEW w \in Width, NEW p \in Operands, Cmp(w, p[1], p[2])
    PROVE  AluInv'
<1> DEFINE i == p[1]
           a == Load(r.gp, w, i)
           b == Load(r.gp, w, p[2])
           f == Compare(a, b, r.fg)
<1>1. i \in 0 .. 3 /\ a \in Nat /\ b \in Nat
  BY Pair
<1>2. r \in Registers /\ r.fg \in Flags /\ Fetched.r.fg = r.fg
  BY FetchedFacts DEF AluInv, Registers
<1>3. f \in Flags
  <2> DEFINE B == 0 .. 1
  <2>1. Bool(a > b) \in B /\ Bool(a < b) \in B /\ Bool(a = b) \in B
    BY DEF Bool
  <2>2. r.fg \in [c : B, o : B, bg : B, le : B, eq : B, im : B]
    BY <1>2 DEF Flags
  <2> HIDE DEF B, a, b
  <2>3. f \in [c : B, o : B, bg : B, le : B, eq : B, im : B]
    BY <2>1, <2>2 DEF Compare
  <2> QED BY <2>3 DEF Flags, B
<1>4. Computes(w) /\ UNCHANGED mem /\ event' = "compare" /\ Record("cmp", w, i, a, b, a, r'.fg)
  BY DEF Cmp
<1>5. r' = [Fetched.r EXCEPT !.fg = f]
  BY <1>2, FetchedFacts DEF Cmp, Registers
<1>6. f = Compare(a, b, r.fg)
  OBVIOUS
<1> HIDE DEF f
<1>7. r' \in Registers /\ r'.fg = f /\ r'.ip = (r.ip + 1) % Word
  BY <1>2, <1>3, <1>5, StoredFlags
<1>8. "cmp" \in Ops /\ "cmp" \notin WriteOps
  BY DEF Ops, WriteOps, ArithOps, LogicOps
<1> HIDE DEF i, a, b
<1>9. Record("cmp", w, i, a, b, a, f)
  BY <1>4, <1>7
<1>10. /\ Last(hist') = [op |-> "cmp", w |-> w, i |-> i, a |-> a, b |-> b, fg |-> r.fg, v |-> a, after |-> f]
       /\ hist'[Len(hist')] = Last(hist') /\ hist' # <<>> /\ Len(hist') <= MaxOps
       /\ Compared' /\ DivisionExact' /\ JumpsOnRelation' => AluInv'
  BY <1>1, <1>3, <1>4, <1>7, <1>8, <1>9, Recorded
<1>11. DivisionExact' /\ JumpsOnRelation'
  BY <1>4 DEF DivisionExact, JumpsOnRelation
<1>12. hist'[Len(hist')].a = a /\ hist'[Len(hist')].b = b /\ hist'[Len(hist')].fg = r.fg
  BY <1>10
<1>13. Compared'
  BY <1>6, <1>7, <1>10, <1>12 DEF Compared
<1> QED BY <1>10, <1>11, <1>13

LEMMA MulKeeps ==
    ASSUME AluInv, NEW w \in Width, NEW p \in Operands, NEW op \in {"mul", "imul"}, Mul(op, w, p[2])
    PROVE  AluInv'
<1> DEFINE a == Load(r.gp, w, 0)
           b == Load(r.gp, w, p[2])
           x == Multiply(op, w, a, b, r.fg)
           g == Store(r.gp, w, 0, x.v)
<1>1. b \in Nat
  BY Pair
<1>2. r \in Registers /\ r.fg \in Flags /\ r.gp \in RegisterFile /\ Fetched.r.gp = r.gp
  BY FetchedFacts DEF AluInv, Registers, RegisterFile
<1>3. a \in Nat
  BY <1>2, LoadRange
<1>4. Computes(w) /\ UNCHANGED mem /\ event' = "multiply" /\ Record(op, w, 0, a, b, x.v, x.fg)
  BY DEF Mul
<1>5. r' = [Fetched.r EXCEPT !.gp = g, !.fg = x.fg]
  BY <1>2, FetchedFacts DEF Mul, Registers
<1>6. x.v \in Int /\ x.fg \in Flags
  BY <1>1, <1>2, <1>3, MultiplyTyped
<1>7. g \in RegisterFile
  BY <1>2, <1>6, StoreTyped
<1> HIDE DEF g
<1>8. r' \in Registers /\ r'.fg = x.fg /\ r'.ip = (r.ip + 1) % Word
  BY <1>2, <1>5, <1>6, <1>7, Stored
<1>9. op \in Ops /\ op \notin WriteOps
  BY DEF Ops, WriteOps, ArithOps, LogicOps
<1> HIDE DEF a, b, x
<1>10. Compared' /\ DivisionExact' /\ JumpsOnRelation' => AluInv'
  <2> DEFINE v == x.v
             f == x.fg
             i == 0
  <2>1. v \in Int /\ f \in Flags /\ i \in 0 .. 3 /\ Record(op, w, i, a, b, v, f) /\ r'.fg = f
    BY <1>4, <1>6, <1>8
  <2> HIDE DEF v, f, i
  <2> QED BY <1>1, <1>3, <1>4, <1>8, <1>9, <2>1, Recorded
<1>11. Compared' /\ DivisionExact' /\ JumpsOnRelation'
  BY <1>4 DEF DivisionExact, JumpsOnRelation, Compared
<1> QED BY <1>10, <1>11

LEMMA DivKeeps ==
    ASSUME AluInv, NEW w \in Width, NEW p \in Operands, NEW op \in {"div", "idiv"}, Div(op, w, p[2])
    PROVE  AluInv'
<1> DEFINE a == Load(r.gp, w, 0)
           b == Load(r.gp, w, p[2])
           x == Divide(op, w, a, b, r.fg)
           q == x.q
           m == x.m
           f == x.fg
           i == 0
           g == Store(r.gp, w, 0, q)
           G == Store(g, w, 1, m)
<1>1. b \in Nat /\ b \in 0 .. (Span(w) - 1)
  BY Pair
<1>2. r \in Registers /\ r.fg \in Flags /\ r.gp \in RegisterFile /\ Fetched.r.gp = r.gp
  BY FetchedFacts DEF AluInv, Registers, RegisterFile
<1>3. a \in Nat /\ a < Span(w)
  BY <1>2, LoadRange
<1>s. Span(w) \in Nat \ {0} /\ a \in 0 .. (Span(w) - 1)
  BY <1>3, SpanType
<1>4. Computes(w) /\ UNCHANGED mem /\ event' = "divide" /\ Record(op, w, i, a, b, q, f) /\ b # 0
  BY DEF Div
<1>5. r' = [Fetched.r EXCEPT !.gp = G, !.fg = f]
  BY <1>2, FetchedFacts DEF Div, Registers
<1> HIDE DEF a, b
<1>6. q \in Int /\ m \in Int /\ f \in Flags /\ (op = "div" => q = a \div b /\ m = a % b)
  BY <1>1, <1>2, <1>s, <1>4, DivideTyped
<1> HIDE DEF q, m, f, x
<1>7. g \in RegisterFile
  BY <1>2, <1>6, StoreTyped
<1> HIDE DEF g
<1>8. G \in RegisterFile /\ Load(G, w, 1) = m % Span(w)
  BY <1>6, <1>7, StoreTyped, LoadStored
<1> HIDE DEF G
<1>9. r' \in Registers /\ r'.gp = G /\ r'.fg = f /\ r'.ip = (r.ip + 1) % Word
  BY <1>2, <1>5, <1>6, <1>8, Stored
<1>10. op \in Ops /\ op \notin WriteOps /\ i \in 0 .. 3
  BY DEF Ops, WriteOps, ArithOps, LogicOps
<1> HIDE DEF i
<1>11. /\ Last(hist') = [op |-> op, w |-> w, i |-> i, a |-> a, b |-> b, fg |-> r.fg, v |-> q, after |-> f]
       /\ Compared' /\ DivisionExact' /\ JumpsOnRelation' => AluInv'
  BY <1>1, <1>3, <1>4, <1>6, <1>9, <1>10, Recorded
<1>12. Compared' /\ JumpsOnRelation'
  BY <1>4 DEF JumpsOnRelation, Compared
<1>13. /\ Last(hist').op = op /\ Last(hist').w = w /\ Last(hist').a = a /\ Last(hist').b = b
       /\ Last(hist').v = q
  BY <1>11
<1>14. ASSUME op = "div" PROVE q * b + Load(r'.gp, w, 1) = a /\ Load(r'.gp, w, 1) < b
  <2>1. q = a \div b /\ m = a % b
    BY <1>6, <1>14
  <2>2. /\ a = (a \div b) * b + (a % b) /\ a % b \in 0 .. (b - 1)
    BY <1>1, <1>3, <1>4, Division
  <2>3. m % Span(w) = m
    <3> DEFINE S == Span(w)
    <3>1. S \in Nat \ {0} /\ b < S
      BY <1>1, <1>s
    <3> HIDE DEF S
    <3>2. m \in Int /\ 0 <= m /\ m < S
      BY <2>1, <2>2, <3>1, <1>1
    <3>3. m % S = m
      BY <3>1, <3>2, SmallRemainder
    <3> QED BY <3>3 DEF S
  <2>4. Load(r'.gp, w, 1) = m
    BY <1>8, <1>9, <2>3
  <2> QED BY <2>1, <2>2, <2>4, <1>1
<1>15. DivisionExact'
  BY <1>13, <1>14 DEF DivisionExact
<1> QED BY <1>11, <1>12, <1>15

LEMMA ExchangeKeeps ==
    ASSUME AluInv, NEW w \in Width, NEW p \in Operands, Exchange(w, p[1], p[2])
    PROVE  AluInv'
<1> DEFINE i == p[1]
           j == p[2]
           a == Load(r.gp, w, i)
           b == Load(r.gp, w, j)
           g == Store(r.gp, w, i, b)
           G == Store(g, w, j, a)
           f == r.fg
<1>1. i \in 0 .. 3 /\ j \in 0 .. 3 /\ a \in Nat /\ b \in Nat
  BY Pair
<1>2. r \in Registers /\ f \in Flags /\ r.gp \in RegisterFile /\ Fetched.r.gp = r.gp
  BY FetchedFacts DEF AluInv, Registers, RegisterFile
<1>4. Computes(w) /\ UNCHANGED mem /\ event' = "exchange" /\ Record("xchg", w, i, a, b, b, f)
  BY DEF Exchange
<1>5. r' = [Fetched.r EXCEPT !.gp = G]
  BY <1>2, FetchedFacts DEF Exchange, Registers
<1> HIDE DEF i, j, a, b
<1>7. g \in RegisterFile
  BY <1>1, <1>2, StoreTyped
<1> HIDE DEF g
<1>8. G \in RegisterFile
  BY <1>1, <1>7, StoreTyped
<1> HIDE DEF G
<1>9. r' \in Registers /\ r'.fg = f /\ r'.ip = (r.ip + 1) % Word
  BY <1>2, <1>5, <1>8, StoredRegisters
<1>10. "xchg" \in Ops /\ "xchg" \notin WriteOps
  BY DEF Ops, WriteOps, ArithOps, LogicOps
<1> HIDE DEF f
<1>11. Compared' /\ DivisionExact' /\ JumpsOnRelation' => AluInv'
  <2> DEFINE v == b
             op == "xchg"
  <2>1. v \in Int /\ Record(op, w, i, a, b, v, f) /\ op \in Ops /\ op \notin WriteOps
    BY <1>1, <1>4, <1>10
  <2> HIDE DEF v, op
  <2> QED BY <1>1, <1>2, <1>4, <1>9, <2>1, Recorded
<1>12. Compared' /\ DivisionExact' /\ JumpsOnRelation'
  BY <1>4 DEF DivisionExact, JumpsOnRelation, Compared
<1> QED BY <1>11, <1>12

LEMMA LeaKeeps ==
    ASSUME AluInv, NEW w \in Width, NEW ratio \in {1, 16}, Lea(w, ratio)
    PROVE  AluInv'
<1> DEFINE off2 == Load(r.gp, w, 2)
           a == EffectiveAddress(r.gp[0], r.gp[1], w, off2, ratio)
           g == Store(r.gp, 8, 1, a)
           f == r.fg
           d == r.gp[1]
           i == 1
           u == 8
<1>2. r \in Registers /\ f \in Flags /\ r.gp \in RegisterFile /\ Fetched.r.gp = r.gp
  BY FetchedFacts DEF AluInv, Registers, RegisterFile
<1>1. i \in 0 .. 3 /\ u \in Width /\ ratio \in Nat
  BY DEF Width
<1>3. off2 \in Nat
  BY <1>2, LoadRange
<1>4. Computes(u) /\ UNCHANGED mem /\ event' = "compute" /\ Record("lea", u, i, d, off2, a, f)
  BY DEF Lea
<1>5. r' = [Fetched.r EXCEPT !.gp = g]
  BY <1>2, FetchedFacts DEF Lea, Registers
<1>6. r.gp[0] \in Nat /\ d \in Nat
  <2>1. 0 \in 0 .. (FerCount - 1) /\ 1 \in 0 .. (FerCount - 1)
    BY AluAssumption
  <2>2. r.gp[0] \in Values /\ r.gp[1] \in Values
    BY <1>2, <2>1 DEF RegisterFile
  <2>3. \A x \in Values : x \in Nat
    BY WordType DEF Values
  <2> QED BY <2>2, <2>3
<1>7. a \in Int
  BY <1>1, <1>3, <1>6, AddressTyped
<1> HIDE DEF a, off2, d, f, i, u
<1>8. g \in RegisterFile
  BY <1>1, <1>2, <1>7, StoreTyped DEF i, u
<1> HIDE DEF g
<1>9. r' \in Registers /\ r'.fg = f /\ r'.ip = (r.ip + 1) % Word
  BY <1>2, <1>5, <1>8, StoredRegisters DEF f
<1>10. "lea" \in Ops /\ "lea" \notin WriteOps
  BY DEF Ops, WriteOps, ArithOps, LogicOps
<1>11. Compared' /\ DivisionExact' /\ JumpsOnRelation' => AluInv'
  BY <1>1, <1>2, <1>3, <1>4, <1>6, <1>7, <1>9, <1>10, Recorded
<1>12. Compared' /\ DivisionExact' /\ JumpsOnRelation'
  BY <1>4 DEF DivisionExact, JumpsOnRelation, Compared
<1> QED BY <1>11, <1>12

\* A jump is recorded with the operands of the comparison before it.
LEMMA JumpStep ==
    ASSUME AluInv, event = "compare"
    PROVE  /\ Last(hist) \in Entry /\ Last(hist) = hist[Len(hist)] /\ r.fg = Last(hist).after
           /\ r.fg = Compare(Last(hist).a, Last(hist).b, Last(hist).fg)
           /\ r.ip \in Nat /\ (r.ip + 1) % Word = r.ip + 1 /\ r.ip + 1 <= Len(hist) + 1
           /\ Len(hist) \in Nat /\ Len(hist) <= MaxOps
           /\ \A k \in DOMAIN hist : hist[k].w = Last(hist).w
<1>1. hist \in Seq(Entry) /\ hist # <<>> /\ Len(hist) <= MaxOps /\ Len(hist) \in Nat
  BY DEF AluInv, HistoryInv, Compared
<1>2. Last(hist) = hist[Len(hist)]
  BY DEF Last
<1>3. Len(hist) \in DOMAIN hist
  BY <1>1
<1>4. hist[Len(hist)] \in Entry
  BY <1>1, <1>3
<1>5. r.fg = Last(hist).after /\ r.fg = Compare(Last(hist).a, Last(hist).b, Last(hist).fg)
  BY <1>1, <1>2 DEF AluInv, Remembers, Compared
<1>6. \A k \in DOMAIN hist : hist[k].w = Last(hist).w
  BY <1>2, <1>3 DEF AluInv, HistoryInv
<1>7. r.ip \in Nat /\ r.ip <= Len(hist) /\ MaxOps \in Nat /\ MaxOps + 1 < Word
  BY WordType, MachineAssumption DEF AluInv, Registers, Values
<1>8. r.ip + 1 \in Int /\ 0 <= r.ip + 1 /\ r.ip + 1 < Word /\ r.ip + 1 <= Len(hist) + 1
  BY <1>1, <1>7, WordType
<1>9. (r.ip + 1) % Word = r.ip + 1
  BY <1>8, WordType, SmallRemainder
<1> QED BY <1>1, <1>2, <1>4, <1>5, <1>6, <1>7, <1>8, <1>9

LEMMA JumpKeeps ==
    ASSUME AluInv, event = "compare", NEW h \in Entry, h.op \notin WriteOps, h.w = Last(hist).w,
           h.after = r.fg, hist' = Append(hist, h), UNCHANGED <<frames, mem>>,
           event' \in {"taken", "passed"}, r' \in Registers, r'.fg = r.fg,
           r'.ip = 0 \/ r'.ip = r.ip + 1
    PROVE  Last(hist') = h /\ (JumpsOnRelation' => AluInv')
<1>1. /\ r.ip \in Nat /\ r.ip + 1 <= Len(hist) + 1
      /\ Len(hist) \in Nat /\ Len(hist) <= MaxOps /\ \A k \in DOMAIN hist : hist[k].w = h.w
  BY JumpStep
<1>2. Performed(h) /\ \A g : Follows(g, h)
  BY DEF Performed, Follows
<1>3. HistoryInv
  BY DEF AluInv
<1>4. /\ HistoryInv' /\ Len(hist') = Len(hist) + 1 /\ hist'[Len(hist')] = h /\ Last(hist') = h
  BY <1>1, <1>2, <1>3, HistoryGrows
<1>5. Len(hist') <= MaxOps + 1 /\ r'.ip <= Len(hist')
  BY <1>1, <1>4, MachineAssumption
<1>6. Compared' /\ DivisionExact'
  BY DEF Compared, DivisionExact
<1>7. JumpsOnRelation' => AluInv'
  BY <1>4, <1>5, <1>6, AluKept
<1> QED BY <1>4, <1>7

\* The flags of a comparison.
LEMMA Comparison ==
    ASSUME NEW a \in Nat, NEW b \in Nat, NEW fg \in Flags
    PROVE  /\ Compare(a, b, fg).eq = 1 <=> a = b
           /\ Compare(a, b, fg).eq = 0 <=> a # b
           /\ Compare(a, b, fg).bg = 1 <=> a > b
           /\ Compare(a, b, fg).le = 1 <=> a < b
<1> DEFINE f == Compare(a, b, fg)
<1>1. f.eq = Bool(a = b) /\ f.bg = Bool(a > b) /\ f.le = Bool(a < b)
  BY DEF Compare, Flags
<1> HIDE DEF f
<1>2. /\ f.eq = 1 <=> a = b
      /\ f.eq = 0 <=> a # b
      /\ f.bg = 1 <=> a > b
      /\ f.le = 1 <=> a < b
  BY <1>1 DEF Bool
<1> QED BY <1>2 DEF f

\* The conditions of the jumps.
LEMMA Conditions ==
    ASSUME NEW fg
    PROVE  /\ Taken("je", fg) = (fg.eq = 1)
           /\ Taken("jne", fg) = (fg.eq = 0)
           /\ Taken("jb", fg) = (fg.bg = 1)
           /\ Taken("jl", fg) = (fg.le = 1)
           /\ Taken("jbe", fg) = (fg.eq = 1 \/ fg.bg = 1)
           /\ Taken("jle", fg) = (fg.eq = 1 \/ fg.le = 1)
BY DEF Taken, Unregistered

LEMMA BranchKeeps ==
    ASSUME AluInv, NEW op \in Jumps, Branch(op)
    PROVE  AluInv'
<1> DEFINE q == Last(hist)
           h == [q EXCEPT !.op = op]
<1>1. /\ event = "compare" /\ hist' = Append(hist, h) /\ UNCHANGED <<frames, mem>>
      /\ r' = IF Taken(op, r.fg) THEN [r EXCEPT !.cb = 9, !.ip = 0] ELSE Fetched.r
      /\ event' = IF Taken(op, r.fg) THEN "taken" ELSE "passed"
  BY DEF Branch
<1>2. /\ q \in Entry /\ r.fg = q.after /\ r.fg = Compare(q.a, q.b, q.fg)
      /\ r.ip \in Nat /\ (r.ip + 1) % Word = r.ip + 1
  BY <1>1, JumpStep
<1>3. r \in Registers
  BY DEF AluInv
<1>4. op \in Ops /\ op \notin WriteOps
  BY DEF Ops, WriteOps, ArithOps, LogicOps, Jumps
<1> HIDE DEF q
<1>5. h \in Entry
  BY <1>2, <1>4 DEF Entry
<1>6. h.op = op /\ h.w = q.w /\ h.after = q.after /\ h.a = q.a /\ h.b = q.b
  BY <1>2 DEF Entry
<1> HIDE DEF h
<1>7. event' \in {"taken", "passed"}
  BY <1>1
<1>8. r' \in Registers /\ r'.fg = r.fg /\ (r'.ip = 0 \/ r'.ip = r.ip + 1)
  <2>1. CASE Taken(op, r.fg)
    <3> DEFINE s == [r EXCEPT !.cb = 9, !.ip = 0]
    <3>1. 9 \in Values /\ 0 \in Values
      BY StackAssumption, MachineAssumption, WordType DEF Values
    <3>2. s \in Registers
      BY <1>3, <3>1 DEF Registers
    <3>3. s.fg = r.fg /\ s.ip = 0
      BY <1>3 DEF Registers
    <3> QED BY <1>1, <2>1, <3>2, <3>3
  <2>2. CASE ~Taken(op, r.fg)
    BY <1>1, <1>2, <1>3, <2>2, FetchedFacts
  <2> QED BY <2>1, <2>2
<1>9. Last(hist') = h /\ (JumpsOnRelation' => AluInv')
  <2>1. h.w = Last(hist).w /\ h.after = r.fg
    BY <1>2, <1>6 DEF q
  <2> QED BY <1>1, <1>4, <1>5, <1>6, <1>7, <1>8, <2>1, JumpKeeps
<1>10. q.a \in Nat /\ q.b \in Nat /\ q.fg \in Flags
  BY <1>2 DEF Entry
<1>11. /\ r.fg.eq = 1 <=> h.a = h.b
       /\ r.fg.eq = 0 <=> h.a # h.b
       /\ r.fg.bg = 1 <=> h.a > h.b
       /\ r.fg.le = 1 <=> h.a < h.b
  BY <1>2, <1>6, <1>10, Comparison
<1>12. event' = "taken" <=> Taken(op, r.fg)
  BY <1>1
<1>13. h.a \in Nat /\ h.b \in Nat
  BY <1>6, <1>10
<1>14. /\ op = "je"  => (event' = "taken" <=> h.a = h.b)
       /\ op = "jne" => (event' = "taken" <=> h.a # h.b)
       /\ op = "jb"  => (event' = "taken" <=> h.a > h.b)
       /\ op = "jl"  => (event' = "taken" <=> h.a < h.b)
       /\ op = "jbe" => (event' = "taken" <=> h.a >= h.b)
       /\ op = "jle" => (event' = "taken" <=> h.a <= h.b)
       /\ op # "loop"
  <2>1. CASE op = "je"
    BY <2>1, <1>11, <1>12, Conditions
  <2>2. CASE op = "jne"
    BY <2>2, <1>11, <1>12, Conditions
  <2>3. CASE op = "jb"
    BY <2>3, <1>11, <1>12, Conditions
  <2>4. CASE op = "jl"
    BY <2>4, <1>11, <1>12, Conditions
  <2>5. CASE op = "jbe"
    <3>1. event' = "taken" <=> h.a = h.b \/ h.a > h.b
      BY <2>5, <1>11, <1>12, Conditions
    <3>2. h.a >= h.b <=> h.a = h.b \/ h.a > h.b
      BY <1>13
    <3> QED BY <2>5, <3>1, <3>2
  <2>6. CASE op = "jle"
    <3>1. event' = "taken" <=> h.a = h.b \/ h.a < h.b
      BY <2>6, <1>11, <1>12, Conditions
    <3>2. h.a <= h.b <=> h.a = h.b \/ h.a < h.b
      BY <1>13
    <3> QED BY <2>6, <3>1, <3>2
  <2>7. CASE op \notin {"je", "jne", "jb", "jl", "jbe", "jle"}
    BY <2>7 DEF Jumps
  <2> QED BY <2>1, <2>2, <2>3, <2>4, <2>5, <2>6, <2>7
<1>15. JumpsOnRelation'
  BY <1>6, <1>9, <1>14 DEF JumpsOnRelation
<1> QED BY <1>9, <1>15

LEMMA LoopKeeps ==
    ASSUME AluInv, LoopBack
    PROVE  AluInv'
<1> DEFINE q == Last(hist)
           c == r.gp[3]
           h == [q EXCEPT !.op = "loop", !.a = c, !.b = 1]
           cx == (c - 1) % Word
           o == DoLoop(Fetched, r.cb, 0)
           g == [r.gp EXCEPT ![3] = cx]
           n == r.ip + 1
<1>1. /\ event = "compare" /\ hist' = Append(hist, h) /\ UNCHANGED <<frames, mem>>
      /\ r' = o.r /\ event' = IF o.r.ip = 0 THEN "taken" ELSE "passed"
  BY DEF LoopBack
<1>2. /\ q \in Entry /\ r.fg = q.after /\ r.ip \in Nat /\ (r.ip + 1) % Word = n
  BY <1>1, JumpStep
<1>3. r \in Registers /\ r.gp \in RegisterFile /\ r.cb \in Values
  BY DEF AluInv, Registers, RegisterFile
<1>4. 3 \in 0 .. (FerCount - 1)
  BY AluAssumption
<1>5. c \in Values /\ c \in Nat /\ c < Word
  <2>1. c \in Values
    BY <1>3, <1>4 DEF RegisterFile
  <2> HIDE DEF c
  <2>2. c \in Nat /\ c < Word
    BY <2>1, WordType DEF Values
  <2> QED BY <2>1, <2>2
<1> HIDE DEF c
<1>6. cx \in Values /\ (cx = 0 <=> c = 1)
  <2>1. CASE c = 0
    <3>1. c - 1 \in Int /\ -Word <= c - 1 /\ c - 1 < 0
      BY <2>1, WordType
    <3>2. cx = c - 1 + Word
      BY <3>1, WordType, SmallRemainder
    <3> HIDE DEF cx
    <3> QED BY <3>2, <2>1, WordType DEF Values
  <2>2. CASE c # 0
    <3>1. c - 1 \in Int /\ 0 <= c - 1 /\ c - 1 < Word
      BY <2>2, <1>5, WordType
    <3>2. cx = c - 1
      BY <3>1, WordType, SmallRemainder
    <3> HIDE DEF cx
    <3> QED BY <3>2, <1>5, <2>2, WordType DEF Values
  <2> QED BY <2>1, <2>2
<1>7. g \in RegisterFile
  BY <1>3, <1>6 DEF RegisterFile
<1>8. "loop" \in Ops /\ "loop" \notin WriteOps
  BY DEF Ops, WriteOps, ArithOps, LogicOps
<1> HIDE DEF q
<1>9. h \in Entry
  BY <1>2, <1>5, <1>8 DEF Entry
<1>10. h.op = "loop" /\ h.w = q.w /\ h.after = q.after /\ h.a = c
  BY <1>2 DEF Entry
<1> HIDE DEF h
<1>11. o.r \in Registers /\ o.r.fg = r.fg /\ o.r.ip = IF cx # 0 THEN 0 ELSE n
  <2> DEFINE s == Fetched.r
             d == IF cx # 0 THEN r.cb ELSE s.cb
             e == IF cx # 0 THEN 0 ELSE s.ip
             t == [s EXCEPT !.gp = g, !.cb = d, !.ip = e]
  <2>1. s \in Registers /\ s.gp = r.gp /\ s.fg = r.fg /\ s.ip = n
    BY <1>2, <1>3, FetchedFacts
  <2>2. d \in Values /\ e \in Values
    <3>1. s.cb \in Values /\ s.ip \in Values
      BY <2>1 DEF Registers
    <3>2. 0 \in Values
      BY WordType DEF Values
    <3> QED BY <3>1, <3>2, <1>3
  <2>r. Registers = [gp : RegisterFile, fg : Flags, sb : Values,
                     sp : Values, cb : Values, ip : Values, cps : Values]
    BY DEF Registers, RegisterFile
  <2>3. o.r = t
    <3>1. (s.gp[3] - 1) % Word = cx
      BY <2>1 DEF c
    <3> HIDE DEF s
    <3>2. o = Out([s EXCEPT !.gp[3] = cx, !.cb = IF cx # 0 THEN r.cb ELSE @,
                            !.ip = IF cx # 0 THEN 0 ELSE @], Fetched.mem, "none")
      BY <3>1 DEF DoLoop, s
    <3>3. o.r = [s EXCEPT !.gp[3] = cx, !.cb = IF cx # 0 THEN r.cb ELSE @,
                          !.ip = IF cx # 0 THEN 0 ELSE @]
      BY <3>2 DEF Out
    <3> HIDE DEF cx
    <3> QED BY <3>3, <2>1, <2>r
  <2> HIDE DEF d, s, g
  <2>4. t \in Registers
    BY <2>1, <2>2, <2>r, <1>7 DEF e
  <2>5. t.fg = s.fg /\ t.ip = e
    BY <2>1, <2>r
  <2> HIDE DEF t, o
  <2> QED BY <2>1, <2>3, <2>4, <2>5 DEF e
<1> HIDE DEF o, cx
<1>12. event' \in {"taken", "passed"}
  BY <1>1
<1>13. Last(hist') = h /\ (JumpsOnRelation' => AluInv')
  <2>1. h.w = Last(hist).w /\ h.after = r.fg
    BY <1>2, <1>10 DEF q
  <2>2. r' \in Registers /\ r'.fg = r.fg /\ (r'.ip = 0 \/ r'.ip = r.ip + 1)
    BY <1>1, <1>11
  <2> QED BY <1>1, <1>8, <1>9, <1>10, <1>12, <2>1, <2>2, JumpKeeps
<1>14. event' = "taken" <=> c # 1
  <2>1. n # 0
    BY <1>2
  <2> QED BY <1>1, <1>6, <1>11, <2>1
<1>15. JumpsOnRelation'
  BY <1>10, <1>13, <1>14 DEF JumpsOnRelation
<1> QED BY <1>13, <1>15

-----------------------------------------------------------------------------
LEMMA Consecutive ==
    ASSUME HistoryInv, Len(hist) = 2
    PROVE  /\ hist[1] \in Entry /\ hist[2] \in Entry /\ hist[2].w = hist[1].w
           /\ Performed(hist[1]) /\ Performed(hist[2]) /\ Follows(hist[1], hist[2])
<1>1. 1 \in DOMAIN hist /\ 2 \in DOMAIN hist /\ hist \in Seq(Entry) /\ 1 + 1 = 2
  BY DEF HistoryInv
<1>2. hist[1] \in Entry /\ hist[2] \in Entry
  BY <1>1
<1>3. Follows(hist[1], hist[1 + 1])
  BY <1>1 DEF HistoryInv
<1>4. hist[2].w = hist[1].w /\ Performed(hist[1]) /\ Performed(hist[2])
  BY <1>1 DEF HistoryInv
<1> QED BY <1>1, <1>2, <1>3, <1>4

\* What the history says of two computations in a row.
LEMMA WideExact ==
    ASSUME HistoryInv
    PROVE  WideArithmetic
<1> SUFFICES ASSUME Len(hist) = 2, hist[1].w <= 4, hist[1].i = 0, hist[2].i = 1
             PROVE  LET w == hist[1].w
                        a == Wide(w, hist[1].a, hist[2].a)
                        b == Wide(w, hist[1].b, hist[2].b)
                        v == Wide(w, hist[1].v, hist[2].v)
                        c == hist[2].after.c
                    IN  /\ hist[1].op = "add" /\ hist[2].op = "adc" =>
                               v = (a + b) % (Span(w) * Span(w)) /\ (c = 1 <=> a + b >= Span(w) * Span(w))
                        /\ hist[1].op = "sub" /\ hist[2].op = "sbb" =>
                               v = (a - b) % (Span(w) * Span(w)) /\ (c = 1 <=> a < b)
  BY DEF WideArithmetic
<1> DEFINE h == hist[1]
           g == hist[2]
           w == hist[1].w
<1>2. h \in Entry /\ g \in Entry /\ g.w = w /\ Performed(h) /\ Performed(g) /\ Follows(h, g)
  BY Consecutive
<1> HIDE DEF h, g
<1>3. w \in Width /\ h.fg \in Flags /\ g.fg \in Flags /\ w = h.w
  BY <1>2 DEF Entry, h
<1> HIDE DEF w
<1>4. \A op \in {"add", "adc", "sub", "sbb"} : op \in WriteOps /\ op \in ArithOps
  BY DEF WriteOps, ArithOps
<1>5. ASSUME NEW l \in {"add", "sub"}, NEW m \in {"adc", "sbb"}, h.op = l, g.op = m
      PROVE  /\ h.a \in 0 .. (Span(w) - 1) /\ h.b \in 0 .. (Span(w) - 1)
             /\ g.a \in 0 .. (Span(w) - 1) /\ g.b \in 0 .. (Span(w) - 1)
             /\ h.v = Arithmetic(l, w, h.a, h.b, h.fg).v
             /\ g.v = Arithmetic(m, w, g.a, g.b, g.fg).v
             /\ g.after = Arithmetic(m, w, g.a, g.b, g.fg).fg
             /\ g.fg.c = Arithmetic(l, w, h.a, h.b, h.fg).fg.c
  <2>1. h.op \in WriteOps /\ g.op \in WriteOps /\ l \in ArithOps /\ m \in ArithOps
    BY <1>4, <1>5
  <2>2. g.fg = h.after
    BY <1>2, <2>1 DEF Follows
  <2>3. /\ h.a \in 0 .. (Span(w) - 1) /\ h.b \in 0 .. (Span(w) - 1)
        /\ h.v = Effect(l, w, h.a, h.b, h.fg).v /\ h.after = Effect(l, w, h.a, h.b, h.fg).fg
    BY <1>2, <1>3, <1>5, <2>1 DEF Performed
  <2>4. /\ g.a \in 0 .. (Span(w) - 1) /\ g.b \in 0 .. (Span(w) - 1)
        /\ g.v = Effect(m, w, g.a, g.b, g.fg).v /\ g.after = Effect(m, w, g.a, g.b, g.fg).fg
    BY <1>2, <1>3, <1>5, <2>1 DEF Performed
  <2> QED BY <2>1, <2>2, <2>3, <2>4 DEF Effect
<1>6. ASSUME h.op = "add", g.op = "adc"
      PROVE  /\ Wide(w, h.v, g.v) = (Wide(w, h.a, g.a) + Wide(w, h.b, g.b)) % (Span(w) * Span(w))
             /\ g.after.c = 1 <=> Wide(w, h.a, g.a) + Wide(w, h.b, g.b) >= Span(w) * Span(w)
  <2> DEFINE a == h.a
             b == h.b
             c == g.a
             d == g.b
             f == h.fg
             e == g.fg
  <2>1. /\ a \in 0 .. (Span(w) - 1) /\ b \in 0 .. (Span(w) - 1)
        /\ c \in 0 .. (Span(w) - 1) /\ d \in 0 .. (Span(w) - 1)
        /\ h.v = Arithmetic("add", w, a, b, f).v
        /\ g.v = Arithmetic("adc", w, c, d, e).v
        /\ g.after = Arithmetic("adc", w, c, d, e).fg
        /\ e.c = Arithmetic("add", w, a, b, f).fg.c
    BY <1>5, <1>6
  <2>2. f \in Flags /\ e \in Flags /\ w <= 4
    BY <1>3 DEF w
  <2> HIDE DEF a, b, c, d, e, f
  <2>3. /\ Wide(w, h.v, g.v) = (Wide(w, a, c) + Wide(w, b, d)) % (Span(w) * Span(w))
        /\ g.after.c = 1 <=> Wide(w, a, c) + Wide(w, b, d) >= Span(w) * Span(w)
    BY <1>3, <2>1, <2>2, WideAdd
  <2> QED BY <2>3 DEF a, b, c, d
<1>7. ASSUME h.op = "sub", g.op = "sbb"
      PROVE  /\ Wide(w, h.v, g.v) = (Wide(w, h.a, g.a) - Wide(w, h.b, g.b)) % (Span(w) * Span(w))
             /\ g.after.c = 1 <=> Wide(w, h.a, g.a) < Wide(w, h.b, g.b)
  <2> DEFINE a == h.a
             b == h.b
             c == g.a
             d == g.b
             f == h.fg
             e == g.fg
  <2>1. /\ a \in 0 .. (Span(w) - 1) /\ b \in 0 .. (Span(w) - 1)
        /\ c \in 0 .. (Span(w) - 1) /\ d \in 0 .. (Span(w) - 1)
        /\ h.v = Arithmetic("sub", w, a, b, f).v
        /\ g.v = Arithmetic("sbb", w, c, d, e).v
        /\ g.after = Arithmetic("sbb", w, c, d, e).fg
        /\ e.c = Arithmetic("sub", w, a, b, f).fg.c
    BY <1>5, <1>7
  <2>2. f \in Flags /\ e \in Flags /\ w <= 4
    BY <1>3 DEF w
  <2> HIDE DEF a, b, c, d, e, f
  <2>3. /\ Wide(w, h.v, g.v) = (Wide(w, a, c) - Wide(w, b, d)) % (Span(w) * Span(w))
        /\ g.after.c = 1 <=> Wide(w, a, c) < Wide(w, b, d)
    BY <1>3, <2>1, <2>2, WideSub
  <2> QED BY <2>3 DEF a, b, c, d
<1> QED BY <1>6, <1>7 DEF h, g, w

\* The same for rotations.
LEMMA RotationsExact ==
    ASSUME HistoryInv
    PROVE  RotationsInvert
<1> SUFFICES ASSUME Len(hist) = 2, hist[1].i = hist[2].i
             PROVE  /\ {hist[1].op, hist[2].op} = {"rol", "ror"} => hist[2].v = hist[1].a
                    /\ {hist[1].op, hist[2].op} = {"rcl", "rcr"} =>
                           hist[2].v = hist[1].a /\ hist[2].after.c = hist[1].fg.c
  BY DEF RotationsInvert
<1> DEFINE h == hist[1]
           g == hist[2]
           w == hist[1].w
           x == hist[1].a
           n == hist[1].b
           c == hist[1].fg.c
<1>1. h \in Entry /\ g \in Entry /\ g.w = w /\ Performed(h) /\ Performed(g) /\ Follows(h, g)
  BY Consecutive
<1> HIDE DEF h, g
<1>2. w \in Width /\ h.fg \in Flags /\ g.fg \in Flags /\ w = h.w /\ x = h.a /\ n = h.b /\ c = h.fg.c
  BY <1>1 DEF Entry, h
<1>3. c \in 0 .. 1
  BY <1>2 DEF Flags
<1> HIDE DEF w, x, n, c
<1> DEFINE R == {"rol", "ror", "rcl", "rcr"}
<1>4. \A op \in R : op \in WriteOps /\ op \notin ArithOps
  BY DEF WriteOps, ArithOps, LogicOps
<1>5. ASSUME NEW l \in R, NEW m \in R, h.op = l, g.op = m
      PROVE  /\ x \in 0 .. (Span(w) - 1) /\ n \in Nat
             /\ h.v = Logical(l, w, x, n, h.fg).v
             /\ g.fg = Logical(l, w, x, n, h.fg).fg
             /\ g.v = Logical(m, w, h.v % Span(w), n, g.fg).v
             /\ g.after = Logical(m, w, h.v % Span(w), n, g.fg).fg
  <2>1. h.op \in WriteOps /\ g.op \in WriteOps /\ l \notin ArithOps /\ m \notin ArithOps
    BY <1>4, <1>5
  <2>2. g.fg = h.after /\ g.a = h.v % Span(w) /\ g.b = n
    BY <1>1, <1>2, <2>1 DEF Follows, h, g
  <2>3. /\ x \in 0 .. (Span(w) - 1) /\ n \in 0 .. (Span(w) - 1)
        /\ h.v = Effect(l, w, x, n, h.fg).v /\ h.after = Effect(l, w, x, n, h.fg).fg
    BY <1>1, <1>2, <1>5, <2>1 DEF Performed
  <2>4. g.v = Effect(m, w, g.a, g.b, g.fg).v /\ g.after = Effect(m, w, g.a, g.b, g.fg).fg
    BY <1>1, <1>5, <2>1 DEF Performed
  <2>5. n \in Nat
    BY <2>3, <1>2, SpanType
  <2> QED BY <2>1, <2>2, <2>3, <2>4, <2>5 DEF Effect
<1>6. \A y \in 0 .. (Span(w) - 1) : y % Span(w) = y
  <2> DEFINE S == Span(w)
  <2>1. S \in Nat \ {0}
    BY <1>2, SpanType
  <2> HIDE DEF S
  <2>2. \A y \in 0 .. (S - 1) : y % S = y
    BY <2>1, SmallRemainder
  <2> QED BY <2>2 DEF S
<1>7. \A fg, a, b :
        /\ Logical("rol", w, a, b, fg) = Res(RotateLeft(w, a, b), fg)
        /\ Logical("ror", w, a, b, fg) = Res(RotateRight(w, a, b), fg)
        /\ Logical("rcl", w, a, b, fg) = Rotated(RclSteps(w, a, fg.c, b), fg)
        /\ Logical("rcr", w, a, b, fg) = Rotated(RcrSteps(w, a, fg.c, b), fg)
  BY DEF Logical
<1>8. ASSUME h.op = "rol", g.op = "ror" PROVE g.v = x
  <2>1. /\ x \in 0 .. (Span(w) - 1) /\ n \in Nat /\ h.v = Logical("rol", w, x, n, h.fg).v
        /\ g.v = Logical("ror", w, h.v % Span(w), n, g.fg).v
    BY <1>5, <1>8
  <2>2. h.v = RotateLeft(w, x, n) /\ g.v = RotateRight(w, h.v % Span(w), n)
    BY <1>7, <2>1 DEF Res
  <2>3. RotateLeft(w, x, n) \in 0 .. (Span(w) - 1) /\ RotateRight(w, RotateLeft(w, x, n), n) = x
    BY <1>2, <2>1, RotationsCancel
  <2> QED BY <1>6, <2>2, <2>3
<1>9. ASSUME h.op = "ror", g.op = "rol" PROVE g.v = x
  <2>1. /\ x \in 0 .. (Span(w) - 1) /\ n \in Nat /\ h.v = Logical("ror", w, x, n, h.fg).v
        /\ g.v = Logical("rol", w, h.v % Span(w), n, g.fg).v
    BY <1>5, <1>9
  <2>2. h.v = RotateRight(w, x, n) /\ g.v = RotateLeft(w, h.v % Span(w), n)
    BY <1>7, <2>1 DEF Res
  <2>3. RotateRight(w, x, n) \in 0 .. (Span(w) - 1) /\ RotateLeft(w, RotateRight(w, x, n), n) = x
    BY <1>2, <2>1, RotationsCancel
  <2> QED BY <1>6, <2>2, <2>3
<1>10. \A fg \in Flags : \A p : Rotated(p, fg).v = p[1] /\ Rotated(p, fg).fg.c = p[2]
  BY DEF Rotated, Res, Flags
<1>11. ASSUME h.op = "rcl", g.op = "rcr" PROVE g.v = x /\ g.after.c = c
  <2> DEFINE p == RclSteps(w, x, c, n)
             q == RcrSteps(w, p[1], p[2], n)
  <2>1. /\ x \in 0 .. (Span(w) - 1) /\ n \in Nat /\ h.v = Logical("rcl", w, x, n, h.fg).v
        /\ g.fg = Logical("rcl", w, x, n, h.fg).fg
        /\ g.v = Logical("rcr", w, h.v % Span(w), n, g.fg).v
        /\ g.after = Logical("rcr", w, h.v % Span(w), n, g.fg).fg
    BY <1>5, <1>11
  <2>2. h.v = p[1] /\ g.fg.c = p[2]
    <3>1. Logical("rcl", w, x, n, h.fg) = Rotated(p, h.fg)
      BY <1>2, <1>7
    <3> HIDE DEF p
    <3> QED BY <1>2, <1>10, <2>1, <3>1
  <2>3. p[1] \in 0 .. (Span(w) - 1)
    <3>1. p \in CarryPairs(w)
      BY <1>2, <1>3, <2>1, CarryRotationsTyped
    <3> HIDE DEF p
    <3> QED BY <3>1 DEF CarryPairs
  <2>4. q = <<x, c>>
    BY <1>2, <1>3, <2>1, CarryRotationsCancel
  <2> HIDE DEF p
  <2>5. h.v % Span(w) = p[1]
    BY <1>6, <2>2, <2>3
  <2>6. g.v = q[1] /\ g.after.c = q[2]
    <3>1. Logical("rcr", w, h.v % Span(w), n, g.fg) = Rotated(q, g.fg)
      BY <1>7, <2>2, <2>5
    <3> HIDE DEF q
    <3> QED BY <1>2, <1>10, <2>1, <3>1
  <2> HIDE DEF q
  <2> QED BY <2>4, <2>6
<1>12. ASSUME h.op = "rcr", g.op = "rcl" PROVE g.v = x /\ g.after.c = c
  <2> DEFINE p == RcrSteps(w, x, c, n)
             q == RclSteps(w, p[1], p[2], n)
  <2>1. /\ x \in 0 .. (Span(w) - 1) /\ n \in Nat /\ h.v = Logical("rcr", w, x, n, h.fg).v
        /\ g.fg = Logical("rcr", w, x, n, h.fg).fg
        /\ g.v = Logical("rcl", w, h.v % Span(w), n, g.fg).v
        /\ g.after = Logical("rcl", w, h.v % Span(w), n, g.fg).fg
    BY <1>5, <1>12
  <2>2. h.v = p[1] /\ g.fg.c = p[2]
    <3>1. Logical("rcr", w, x, n, h.fg) = Rotated(p, h.fg)
      BY <1>2, <1>7
    <3> HIDE DEF p
    <3> QED BY <1>2, <1>10, <2>1, <3>1
  <2>3. p[1] \in 0 .. (Span(w) - 1)
    <3>1. p \in CarryPairs(w)
      BY <1>2, <1>3, <2>1, CarryRotationsTyped
    <3> HIDE DEF p
    <3> QED BY <3>1 DEF CarryPairs
  <2>4. q = <<x, c>>
    BY <1>2, <1>3, <2>1, CarryRotationsCancel
  <2> HIDE DEF p
  <2>5. h.v % Span(w) = p[1]
    BY <1>6, <2>2, <2>3
  <2>6. g.v = q[1] /\ g.after.c = q[2]
    <3>1. Logical("rcl", w, h.v % Span(w), n, g.fg) = Rotated(q, g.fg)
      BY <1>7, <2>2, <2>5
    <3> HIDE DEF q
    <3> QED BY <1>2, <1>10, <2>1, <3>1
  <2> HIDE DEF q
  <2> QED BY <2>4, <2>6
<1>13. \A a, b, s, t : {a, b} = {s, t} => (a = s /\ b = t) \/ (a = t /\ b = s)
  OBVIOUS
<1>14. {h.op, g.op} = {"rol", "ror"} => g.v = x
  BY <1>8, <1>9, <1>13
<1>15. {h.op, g.op} = {"rcl", "rcr"} => g.v = x /\ g.after.c = c
  BY <1>11, <1>12, <1>13
<1> QED BY <1>14, <1>15 DEF h, g, x, c

-----------------------------------------------------------------------------
\* The steps of the two modes.
AluNext ==
    \/ \E w \in Width, p \in Operands :
        \/ \E op \in WriteOps : Compute(op, w, p[1], p[2])
        \/ Cmp(w, p[1], p[2])
        \/ Exchange(w, p[1], p[2])
        \/ \E op \in {"mul", "imul"} : Mul(op, w, p[2])
        \/ \E op \in {"div", "idiv"} : Div(op, w, p[2])
    \/ \E w \in Width, ratio \in {1, 16} : Lea(w, ratio)
    \/ \E op \in Jumps : Branch(op)
    \/ LoopBack

StackNext ==
    \/ \E w \in {1, 8} : PushReg(w) \/ PopReg(w)
    \/ PushAll \/ PopAll \/ LeaveSpace \/ Call \/ Ret \/ StrayRet
    \/ \E x \in Spaces : EnterSpace(x)
    \/ \E c \in Codes : Interrupt(c)
    \/ DivideByZero \/ Iret \/ Alwi \/ Igni
    \/ \E a \in DataAddresses : MovFrom(a) \/ MovTo(a)
    \/ \E s, d \in DataAddresses : s <= d /\ Movs(s, d)
    \/ NewStack

StackEvents ==
    {"start", "overflow", "push", "pop", "pushall", "popall", "enter", "leave", "call", "ret",
     "stray", "int", "iret", "mask", "load", "store", "movs"}

LEMMA AluSteps ==
    ASSUME AluNext
    PROVE  mode = "alu" /\ mode' = "alu"
<1>1. ASSUME NEW w \in Width, NEW p \in Operands, NEW op, Compute(op, w, p[1], p[2])
      PROVE  mode = "alu" /\ mode' = "alu"
  BY <1>1 DEF Compute, Computes, Record
<1>2. ASSUME NEW w \in Width, NEW p \in Operands, Cmp(w, p[1], p[2]) \/ Exchange(w, p[1], p[2])
      PROVE  mode = "alu" /\ mode' = "alu"
  BY <1>2 DEF Cmp, Exchange, Computes, Record
<1>3. ASSUME NEW w \in Width, NEW p \in Operands, NEW op, Mul(op, w, p[2]) \/ Div(op, w, p[2])
      PROVE  mode = "alu" /\ mode' = "alu"
  BY <1>3 DEF Mul, Div, Computes, Record
<1>4. ASSUME NEW w \in Width, NEW ratio \in {1, 16}, Lea(w, ratio)
      PROVE  mode = "alu" /\ mode' = "alu"
  BY <1>4 DEF Lea, Computes, Record
<1>5. ASSUME NEW op, Branch(op)
      PROVE  mode = "alu" /\ mode' = "alu"
  BY <1>5 DEF Branch
<1>6. ASSUME LoopBack
      PROVE  mode = "alu" /\ mode' = "alu"
  BY <1>6 DEF LoopBack
<1> QED BY <1>1, <1>2, <1>3, <1>4, <1>5, <1>6 DEF AluNext

LEMMA FinishFacts ==
    \A o, kind, held :
        Finish(o, kind, held) => mode' = mode /\ hist' = hist /\ (event' = "overflow" \/ event' = kind)
BY DEF Finish

LEMMA StackSteps ==
    ASSUME StackNext
    PROVE  mode = "stack" /\ mode' = "stack" /\ hist' = hist /\ event' \in StackEvents
<1>1. ASSUME NEW w \in {1, 8}, PushReg(w) \/ PopReg(w)
      PROVE  mode = "stack" /\ mode' = "stack" /\ hist' = hist /\ event' \in StackEvents
  BY <1>1, FinishFacts DEF PushReg, PopReg, Runs, StackEvents
<1>2. ASSUME PushAll \/ PopAll \/ LeaveSpace \/ Call \/ Ret \/ DivideByZero \/ Iret
      PROVE  mode = "stack" /\ mode' = "stack" /\ hist' = hist /\ event' \in StackEvents
  BY <1>2, FinishFacts DEF PushAll, PopAll, LeaveSpace, Call, Ret, DivideByZero, Iret, Runs, StackEvents
<1>3. ASSUME StrayRet
      PROVE  mode = "stack" /\ mode' = "stack" /\ hist' = hist /\ event' \in StackEvents
  BY <1>3, FinishFacts DEF StrayRet, Runs, StackEvents
<1>4. ASSUME NEW x \in Spaces, EnterSpace(x)
      PROVE  mode = "stack" /\ mode' = "stack" /\ hist' = hist /\ event' \in StackEvents
  BY <1>4, FinishFacts DEF EnterSpace, Runs, StackEvents
<1>5. ASSUME NEW c \in Codes, Interrupt(c)
      PROVE  mode = "stack" /\ mode' = "stack" /\ hist' = hist /\ event' \in StackEvents
  BY <1>5, FinishFacts DEF Interrupt, Runs, StackEvents
<1>6. ASSUME Alwi \/ Igni
      PROVE  mode = "stack" /\ mode' = "stack" /\ hist' = hist /\ event' \in StackEvents
  BY <1>6, FinishFacts DEF Alwi, Igni, Runs, StackEvents
<1>7. ASSUME NEW a \in DataAddresses, MovFrom(a) \/ MovTo(a)
      PROVE  mode = "stack" /\ mode' = "stack" /\ hist' = hist /\ event' \in StackEvents
  BY <1>7, FinishFacts DEF MovFrom, MovTo, Runs, StackEvents
<1>8. ASSUME NEW s \in DataAddresses, NEW d \in DataAddresses, Movs(s, d)
      PROVE  mode = "stack" /\ mode' = "stack" /\ hist' = hist /\ event' \in StackEvents
  BY <1>8, FinishFacts DEF Movs, Runs, StackEvents
<1>9. ASSUME NewStack
      PROVE  mode = "stack" /\ mode' = "stack" /\ hist' = hist /\ event' \in StackEvents
  BY <1>9 DEF NewStack, StackEvents
<1> QED BY <1>1, <1>2, <1>3, <1>4, <1>5, <1>6, <1>7, <1>8, <1>9 DEF StackNext

LEMMA Steps ==
    ASSUME [Next]_vars
    PROVE  AluNext \/ StackNext \/ UNCHANGED vars
BY DEF Next, AluNext, StackNext, Done

LEMMA AluNextKeeps ==
    ASSUME AluInv, AluNext
    PROVE  AluInv'
<1>1. ASSUME NEW w \in Width, NEW p \in Operands, NEW op \in WriteOps, Compute(op, w, p[1], p[2])
      PROVE  AluInv'
  BY <1>1, ComputeKeeps
<1>2. ASSUME NEW w \in Width, NEW p \in Operands, Cmp(w, p[1], p[2])
      PROVE  AluInv'
  BY <1>2, CmpKeeps
<1>3. ASSUME NEW w \in Width, NEW p \in Operands, Exchange(w, p[1], p[2])
      PROVE  AluInv'
  BY <1>3, ExchangeKeeps
<1>4. ASSUME NEW w \in Width, NEW p \in Operands, NEW op \in {"mul", "imul"}, Mul(op, w, p[2])
      PROVE  AluInv'
  BY <1>4, MulKeeps
<1>5. ASSUME NEW w \in Width, NEW p \in Operands, NEW op \in {"div", "idiv"}, Div(op, w, p[2])
      PROVE  AluInv'
  BY <1>5, DivKeeps
<1>6. ASSUME NEW w \in Width, NEW ratio \in {1, 16}, Lea(w, ratio)
      PROVE  AluInv'
  BY <1>6, LeaKeeps
<1>7. ASSUME NEW op \in Jumps, Branch(op)
      PROVE  AluInv'
  BY <1>7, BranchKeeps
<1>8. ASSUME LoopBack
      PROVE  AluInv'
  BY <1>8, LoopKeeps
<1> QED BY <1>1, <1>2, <1>3, <1>4, <1>5, <1>6, <1>7, <1>8 DEF AluNext

\* The registers at the start.
LEMMA StartTyped ==
    ASSUME NEW x \in Values, NEW y \in Values, NEW b \in Values, NEW t \in Values
    PROVE  /\ Start(x, y, b, t) \in Registers /\ Start(x, y, b, t).ip = 0
           /\ Start(x, y, b, t).sp = t /\ Start(x, y, b, t).sb = b /\ Start(x, y, b, t).cb = 0
           /\ Start(x, y, b, t).cps = 0
<1> DEFINE g == [i \in 0 .. (FerCount - 1) |-> IF i % 2 = 0 THEN x ELSE y]
<1>1. g \in RegisterFile
  BY DEF RegisterFile
<1>2. Cleared \in Flags
  BY DEF Cleared, Flags
<1>3. 0 \in Values
  BY WordType DEF Values
<1>4. Start(x, y, b, t) = [gp |-> g, fg |-> Cleared, sb |-> b, sp |-> t, cb |-> 0, ip |-> 0, cps |-> 0]
  BY DEF Start
<1>r. Registers = [gp : RegisterFile, fg : Flags, sb : Values,
                   sp : Values, cb : Values, ip : Values, cps : Values]
  BY DEF Registers, RegisterFile
<1> HIDE DEF g
<1>5. [gp |-> g, fg |-> Cleared, sb |-> b, sp |-> t, cb |-> 0, ip |-> 0, cps |-> 0] \in Registers
  BY <1>1, <1>2, <1>3, <1>r
<1> QED BY <1>4, <1>5

\* The invariant of mode "alu"; mode "stack" has no such history.
ArithmeticInv ==
    /\ mode = "alu" => AluInv
    /\ mode = "stack" => hist = <<>> /\ event \in StackEvents
    /\ mode \in {"alu", "stack"}

LEMMA ArithmeticInit == Init => ArithmeticInv
<1> SUFFICES ASSUME Init PROVE ArithmeticInv
  OBVIOUS
<1>1. hist = <<>> /\ event = "start" /\ frames = <<>> /\ mem = [a \in {} |-> 0] /\ mode \in {"alu", "stack"}
  BY DEF Init
<1>2. mode = "stack" => hist = <<>> /\ event \in StackEvents
  BY <1>1 DEF StackEvents
<1>3. ASSUME mode = "alu" PROVE AluInv
  <2>1. \E x, y \in Words : r = Start(x, y, 0, MemSize)
    BY <1>3 DEF Init
  <2>2. PICK x \in Words, y \in Words : r = Start(x, y, 0, MemSize)
    BY <2>1
  <2>3. 0 \in Values /\ MemSize \in Values /\ x \in Values /\ y \in Values
    BY StackAssumption, MachineAssumption, WordType DEF Values
  <2>4. r \in Registers /\ r.ip = 0
    BY <2>2, <2>3, StartTyped
  <2>5. HistoryInv
    <3>1. hist \in Seq(Entry) /\ DOMAIN hist = {}
      BY <1>1
    <3> QED BY <3>1 DEF HistoryInv
  <2>6. r.ip <= Len(hist) /\ Len(hist) <= MaxOps + 1
    BY <1>1, <2>4, MachineAssumption
  <2>7. Remembers /\ Compared /\ DivisionExact /\ JumpsOnRelation
    BY <1>1 DEF Remembers, Compared, DivisionExact, JumpsOnRelation
  <2> QED BY <1>1, <2>4, <2>5, <2>6, <2>7 DEF AluInv
<1> QED BY <1>1, <1>2, <1>3 DEF ArithmeticInv

LEMMA ArithmeticNext == ArithmeticInv /\ [Next]_vars => ArithmeticInv'
<1> SUFFICES ASSUME ArithmeticInv, [Next]_vars PROVE ArithmeticInv'
  OBVIOUS
<1>1. CASE AluNext
  <2>1. mode = "alu" /\ mode' = "alu"
    BY <1>1, AluSteps
  <2>2. AluInv'
    BY <1>1, <2>1, AluNextKeeps DEF ArithmeticInv
  <2> QED BY <2>1, <2>2 DEF ArithmeticInv
<1>2. CASE StackNext
  <2>1. mode = "stack" /\ mode' = "stack" /\ hist' = hist /\ event' \in StackEvents
    BY <1>2, StackSteps
  <2> QED BY <2>1 DEF ArithmeticInv
<1>3. CASE UNCHANGED vars
  <2>1. /\ mode' = mode /\ r' = r /\ mem' = mem /\ hist' = hist /\ frames' = frames /\ event' = event
    BY <1>3 DEF vars
  <2>2. AluInv => AluInv'
    BY <2>1 DEF AluInv, HistoryInv, Remembers, Compared, DivisionExact, JumpsOnRelation
  <2> QED BY <2>1, <2>2 DEF ArithmeticInv
<1> QED BY <1>1, <1>2, <1>3, Steps

LEMMA ArithmeticHolds == ArithmeticInv => ArithmeticExact
<1> SUFFICES ASSUME ArithmeticInv PROVE ArithmeticExact
  OBVIOUS
<1>1. CASE mode = "alu"
  <2>1. HistoryInv /\ DivisionExact /\ JumpsOnRelation
    BY <1>1 DEF ArithmeticInv, AluInv
  <2> QED BY <2>1, WideExact, RotationsExact DEF ArithmeticExact
<1>2. CASE mode = "stack"
  <2>1. hist = <<>> /\ event \in StackEvents
    BY <1>2 DEF ArithmeticInv
  <2>2. Len(hist) # 2
    BY <2>1
  <2>3. event # "divide" /\ event # "taken" /\ event # "passed"
    BY <2>1 DEF StackEvents
  <2> QED BY <2>2, <2>3 DEF ArithmeticExact, WideArithmetic, RotationsInvert, DivisionExact, JumpsOnRelation
<1> QED BY <1>1, <1>2 DEF ArithmeticInv

(***************************************************************************)
(* What a program computes with add and adc, sub and sbb, the rotations,   *)
(* div and the jumps after cmp is exact, for every size of a byte, every   *)
(* number of registers, all contents of the registers and programs of any  *)
(* length (add_, adc_, sub_, sbb_, check_overflow, rol_ to rcr_, div_,     *)
(* cmp_ and the conditional jumps).                                        *)
(***************************************************************************)
THEOREM ArithmeticCorrect == Spec => []ArithmeticExact
BY ArithmeticHolds, ArithmeticInit, ArithmeticNext, PTL DEF Spec

-----------------------------------------------------------------------------
(***************************************************************************)
(* Mode "stack".  Linear is the address of a stack pointer, with the stack *)
(* base b.  A frame occupies the n bytes below it, except what enter       *)
(* reserves, which may lie anywhere.                                       *)
(***************************************************************************)
Linear(b, s) == (b + s) % Word
Floor(b, f) == Linear(b, f.sp) - f.n

Kinds == {"push", "all", "int", "call", "enter"}
Things == [kind : Kinds, sp : Values, n : Nat, v : Nat \cup Registers]

Framed(f, b) ==
    /\ Linear(b, f.sp) <= MemSize
    /\ f.kind # "enter" => 1 <= f.n /\ f.n <= Linear(b, f.sp)
    /\ f.kind = "push" => f.n \in {1, 8} /\ f.v \in Nat /\ f.v < Span(f.n)
    /\ f.kind = "all" => f.n = AllSize
    /\ f.kind = "int" => f.n = ImageSize
    /\ f.kind = "call" => f.n = 16
    /\ f.kind \in {"all", "int"} => f.v.sp = f.sp /\ f.v.sb = b
    /\ f.kind \in {"all", "int", "call"} => f.v \in Registers
    /\ f.kind \in {"int", "call"} => f.v.cb # INT_STACKOVERFLOW

\* What a frame holds is in memory.
Placed(m, a, n, v) == a \in DOMAIN m /\ m[a].n = n /\ m[a].v = v

Held(m, b, f) ==
    /\ f.kind \in {"push", "all", "int"} => Placed(m, Floor(b, f), f.n, f.v)
    /\ f.kind = "call" => /\ Placed(m, Floor(b, f) + 8, 8, f.v.cb)
                          /\ Placed(m, Floor(b, f), 8, f.v.ip)

Objects(m) ==
    \A a \in DOMAIN m : /\ a \in Nat /\ m[a].n \in Nat \ {0} /\ a + m[a].n <= MemSize
                        /\ m[a].n = 8 => m[a].v \in Values

\* The stack pointer s continues the stack F: it is where the last frame left
\* it, below every frame in memory.
Linked(F, k, s) == k # 0 => s = (F[k].sp - F[k].n) % Word
Clear(F, b, k, s) == \A j \in 1 .. k : F[j].kind # "enter" => Linear(b, s) <= Floor(b, F[j])

\* CPS belongs to the enter in force after k frames, the last one but pushes and calls.
InForce(F, j, k) == F[j].kind = "enter" /\ \A i \in (j + 1) .. k : F[i].kind \in {"push", "call"}
Reserves(F, k, c) == \A j \in 1 .. k : InForce(F, j, k) => c = F[j].n

Chained(F, b) ==
    \A k \in 1 .. Len(F) :
        /\ Linked(F, k - 1, F[k].sp) /\ Clear(F, b, k - 1, F[k].sp)
        /\ F[k].kind \in {"all", "int"} => Reserves(F, k - 1, F[k].v.cps)
        /\ F[k].kind = "enter" => Reserves(F, k - 1, 0)

\* What stays on the stack, and SP and CPS on top of it: enter may have moved SP
\* out of the memory.  An empty stack lies between SB and the end of the memory.
Stack(F, m, b) ==
    /\ F \in Seq(Things) /\ Objects(m) /\ Chained(F, b)
    /\ \A k \in 1 .. Len(F) : Framed(F[k], b) /\ Held(m, b, F[k])
    /\ Len(F) # 0 => b + F[1].sp <= MemSize

Standing(F, b, s, c) ==
    /\ Linked(F, Len(F), s) /\ Reserves(F, Len(F), c)
    /\ Len(F) = 0 => b + s <= MemSize
    /\ \/ Linear(b, s) <= MemSize /\ Clear(F, b, Len(F), s)
       \/ Linear(b, s) > MemSize /\ c # 0 /\ Len(F) # 0 /\ F[Len(F)].kind = "enter"

StackInv ==
    /\ r \in Registers /\ Stack(frames, mem, r.sb)
    /\ r.cb # INT_STACKOVERFLOW => Standing(frames, r.sb, r.sp, r.cps)

\* A remainder may be taken before adding.
LEMMA SumRemainder ==
    \A x, y \in Int, w \in Nat \ {0} : ((x % w) + y) % w = (x + y) % w
<1> TAKE x, y \in Int, w \in Nat \ {0}
<1> DEFINE q == x \div w
           z == x % w
           p == (z + y) \div w
           t == (z + y) % w
<1>1. x = q * w + z /\ q \in Int /\ z \in Int
  BY IntRemainder
<1> HIDE DEF q, z
<1>2. z + y = p * w + t /\ p \in Int /\ t \in Int /\ 0 <= t /\ t < w
  BY <1>1, IntRemainder
<1> HIDE DEF p, t
<1>3. x + y = q * w + p * w + t
  BY <1>1, <1>2
<1>4. q * w + p * w = (q + p) * w /\ q + p \in Int
  BY <1>1, <1>2
<1>5. x + y = (q + p) * w + t
  BY <1>1, <1>2, <1>3, <1>4
<1> DEFINE k == q + p
           s == x + y
<1>6. s = k * w + t /\ k \in Int /\ s \in Int /\ t \in Int /\ 0 <= t /\ t < w
  BY <1>5, <1>4, <1>2
<1> HIDE DEF k, s
<1>7. s % w = t
  BY <1>6, IntRemainderUnique
<1> QED BY <1>7 DEF s, t, z

\* Words are numbers below Word.
LEMMA ValuesAre == \A x : x \in Values <=> (x \in Nat /\ x < Word)
BY WordType DEF Values

LEMMA Wraps ==
    \A x \in Int : /\ 0 <= x /\ x < Word => x % Word = x
                  /\ -Word <= x /\ x < 0 => x % Word = x + Word
BY WordType, SmallRemainder

\* The addresses of the stack: where SP goes when n bytes are taken or given back.
LEMMA LinearType == \A b, s \in Values : Linear(b, s) \in Nat /\ Linear(b, s) < Word
<1> TAKE b, s \in Values
<1>1. b + s \in Nat /\ Word \in Nat \ {0}
  BY WordType, ValuesAre
<1>2. (b + s) % Word \in 0 .. (Word - 1)
  BY <1>1, Division
<1> QED BY <1>1, <1>2 DEF Linear

LEMMA LinearMoved ==
    \A b, s \in Values, d \in Int :
        /\ (s + d) % Word \in Values
        /\ Linear(b, (s + d) % Word) = (Linear(b, s) + d) % Word
        /\ (s + d + b) % Word = (Linear(b, s) + d) % Word
        /\ (b + s + d) % Word = (Linear(b, s) + d) % Word
<1> TAKE b, s \in Values, d \in Int
<1> DEFINE t == (s + d) % Word
           A == (b + s) % Word
<1>1. b \in Nat /\ s \in Nat /\ Word \in Nat \ {0}
  BY WordType, ValuesAre
<1>2. s + d \in Int /\ b + s \in Int
  BY <1>1
<1>3. t \in 0 .. (Word - 1)
  BY <1>1, <1>2, IntRemainder
<1>4. (t + b) % Word = (s + d + b) % Word
  <2> DEFINE u == s + d
  <2>1. u \in Int /\ b \in Int
    BY <1>1, <1>2
  <2> HIDE DEF u
  <2>2. ((u % Word) + b) % Word = (u + b) % Word
    BY <1>1, <2>1, SumRemainder
  <2> QED BY <2>2 DEF u
<1>5. (A + d) % Word = (b + s + d) % Word
  <2> DEFINE u == b + s
  <2>1. u \in Int
    BY <1>1, <1>2
  <2> HIDE DEF u
  <2>2. ((u % Word) + d) % Word = (u + d) % Word
    BY <1>1, <2>1, SumRemainder
  <2> QED BY <2>2 DEF u
<1>6. t \in Values
  BY <1>3 DEF Values
<1> HIDE DEF t, A
<1>7. t \in Int
  BY <1>3, <1>1
<1>8. b + t = t + b /\ s + d + b = b + s + d
  BY <1>1, <1>7
<1>9. Linear(b, t) = (t + b) % Word
  BY <1>8 DEF Linear
<1>10. Linear(b, s) = A
  BY DEF Linear, A
<1> QED BY <1>4, <1>5, <1>6, <1>8, <1>9, <1>10 DEF t

\* Taking n bytes that fit.
LEMMA LinearDown ==
    \A b, s \in Values, n \in Nat :
        /\ (s - n) % Word \in Values
        /\ n <= s => (s - n) % Word = s - n /\ s - n \in Values
        /\ (s - n + b) % Word = (Linear(b, s) - n) % Word
        /\ (b + s - n) % Word = (Linear(b, s) - n) % Word
        /\ Linear(b, (s - n) % Word) = (Linear(b, s) - n) % Word
        /\ n <= Linear(b, s) => (Linear(b, s) - n) % Word = Linear(b, s) - n
        /\ (n > Linear(b, s) /\ n < Word) => (Linear(b, s) - n) % Word = Linear(b, s) - n + Word
        /\ (((s - n) % Word) + n) % Word = s
<1> TAKE b, s \in Values, n \in Nat
<1> DEFINE A == Linear(b, s)
           d == -n
<1>1. A \in Nat /\ A < Word /\ Word \in Nat \ {0} /\ s \in Nat /\ s < Word /\ b \in Nat
  BY LinearType, WordType, ValuesAre
<1> HIDE DEF A
<1>2. d \in Int /\ s - n = s + d /\ s - n + b = s + d + b /\ b + s - n = b + s + d /\ A - n = A + d
  BY <1>1
<1> HIDE DEF d
<1>3. /\ (s + d) % Word \in Values /\ Linear(b, (s + d) % Word) = (A + d) % Word
      /\ (s + d + b) % Word = (A + d) % Word /\ (b + s + d) % Word = (A + d) % Word
  BY <1>2, LinearMoved DEF A
<1>4. n <= s => (s - n) % Word = s - n /\ s - n \in Values
  BY <1>1, Wraps, ValuesAre
<1>5. n <= A => (A - n) % Word = A - n
  BY <1>1, Wraps
<1>6. (n > A /\ n < Word) => (A - n) % Word = A - n + Word
  BY <1>1, Wraps
<1>7. (((s - n) % Word) + n) % Word = s
  <2> DEFINE u == s - n
  <2>1. u + n = s /\ s % Word = s
    BY <1>1, Wraps
  <2>3. u \in Int /\ n \in Int /\ Word \in Nat \ {0}
    BY <1>1
  <2> HIDE DEF u
  <2>2. ((u % Word) + n) % Word = (u + n) % Word
    BY <2>3, SumRemainder
  <2> QED BY <2>1, <2>2 DEF u
<1> QED BY <1>2, <1>3, <1>4, <1>5, <1>6, <1>7 DEF A

\* Giving n bytes back that lie in the memory.
LEMMA LinearUp ==
    \A b, s \in Values, n \in Nat :
        /\ (s + n) % Word \in Values
        /\ Linear(b, s) + n <= MemSize => Linear(b, (s + n) % Word) = Linear(b, s) + n
<1> TAKE b, s \in Values, n \in Nat
<1> DEFINE A == Linear(b, s)
<1>1. A \in Nat /\ A < Word /\ Word \in Nat \ {0} /\ MemSize \in Nat /\ MemSize < Word
  BY LinearType, WordType, StackAssumption
<1> HIDE DEF A
<1>2. n \in Int
  OBVIOUS
<1>3. (s + n) % Word \in Values /\ Linear(b, (s + n) % Word) = (A + n) % Word
  BY <1>2, LinearMoved DEF A
<1>4. A + n <= MemSize => (A + n) % Word = A + n
  BY <1>1, Wraps
<1> QED BY <1>3, <1>4 DEF A

-----------------------------------------------------------------------------
\* The order of the frames looks no further than the frames below.
LEMMA SamePrefix ==
    ASSUME NEW F, NEW G, NEW n \in Nat, \A i \in 1 .. n : G[i] = F[i], NEW k \in 0 .. n
    PROVE  /\ \A s : Linked(F, k, s) => Linked(G, k, s)
           /\ \A b, s : Clear(F, b, k, s) => Clear(G, b, k, s)
           /\ \A c : Reserves(F, k, c) => Reserves(G, k, c)
<1>1. \A i \in 1 .. k : G[i] = F[i]
  OBVIOUS
<1>2. k # 0 => k \in 1 .. k
  OBVIOUS
<1>3. ASSUME NEW s, Linked(F, k, s) PROVE Linked(G, k, s)
  BY <1>1, <1>2, <1>3 DEF Linked
<1>4. ASSUME NEW b, NEW s, Clear(F, b, k, s) PROVE Clear(G, b, k, s)
  BY <1>1, <1>4 DEF Clear
<1>5. ASSUME NEW c, Reserves(F, k, c) PROVE Reserves(G, k, c)
  <2>1. ASSUME NEW j \in 1 .. k, InForce(G, j, k) PROVE c = G[j].n
    <3>1. \A i \in (j + 1) .. k : i \in 1 .. k
      OBVIOUS
    <3>2. InForce(F, j, k)
      BY <1>1, <2>1, <3>1 DEF InForce
    <3>3. c = F[j].n
      BY <1>5, <3>2 DEF Reserves
    <3> QED BY <1>1, <3>3
  <2> QED BY <2>1 DEF Reserves
<1> QED BY <1>3, <1>4, <1>5

\* A frame more.
LEMMA Lengthened ==
    ASSUME NEW F \in Seq(Things), NEW f \in Things, NEW b,
           Chained(F, b), Linked(F, Len(F), f.sp), Clear(F, b, Len(F), f.sp),
           f.kind \in {"all", "int"} => Reserves(F, Len(F), f.v.cps),
           f.kind = "enter" => Reserves(F, Len(F), 0)
    PROVE  Chained(Append(F, f), b)
<1> DEFINE G == Append(F, f)
           N == Len(F)
<1>1. N \in Nat /\ Len(G) = N + 1 /\ G[N + 1] = f /\ \A i \in 1 .. N : G[i] = F[i]
  OBVIOUS
<1> HIDE DEF G, N
<1>2. ASSUME NEW k \in 1 .. (N + 1)
      PROVE  /\ Linked(G, k - 1, G[k].sp) /\ Clear(G, b, k - 1, G[k].sp)
             /\ G[k].kind \in {"all", "int"} => Reserves(G, k - 1, G[k].v.cps)
             /\ G[k].kind = "enter" => Reserves(G, k - 1, 0)
  <2>1. k - 1 \in 0 .. N /\ k \in Nat
    BY <1>1
  <2>2. /\ \A s : Linked(F, k - 1, s) => Linked(G, k - 1, s)
        /\ \A s : Clear(F, b, k - 1, s) => Clear(G, b, k - 1, s)
        /\ \A c : Reserves(F, k - 1, c) => Reserves(G, k - 1, c)
    <3> DEFINE l == k - 1
    <3> HIDE DEF l
    <3>1. l \in 0 .. N
      BY <2>1 DEF l
    <3>2. /\ \A s : Linked(F, l, s) => Linked(G, l, s)
          /\ \A c, s : Clear(F, c, l, s) => Clear(G, c, l, s)
          /\ \A c : Reserves(F, l, c) => Reserves(G, l, c)
      BY <1>1, <3>1, SamePrefix
    <3> QED BY <3>2 DEF l
  <2>3. CASE k \in 1 .. N
    <3>1. /\ Linked(F, k - 1, F[k].sp) /\ Clear(F, b, k - 1, F[k].sp)
          /\ F[k].kind \in {"all", "int"} => Reserves(F, k - 1, F[k].v.cps)
          /\ F[k].kind = "enter" => Reserves(F, k - 1, 0)
      BY <2>3 DEF Chained, N
    <3> QED BY <1>1, <2>2, <2>3, <3>1
  <2>4. CASE k = N + 1
    <3>1. k - 1 = N /\ G[k] = f
      BY <1>1, <2>4
    <3>2. /\ Linked(F, k - 1, f.sp) /\ Clear(F, b, k - 1, f.sp)
          /\ f.kind \in {"all", "int"} => Reserves(F, k - 1, f.v.cps)
          /\ f.kind = "enter" => Reserves(F, k - 1, 0)
      BY <3>1 DEF N
    <3> QED BY <2>2, <3>1, <3>2
  <2> QED BY <1>1, <2>1, <2>3, <2>4
<1> QED BY <1>1, <1>2 DEF Chained, G

\* CPS after a frame more.
LEMMA ReservesGrows ==
    ASSUME NEW F \in Seq(Things), NEW f \in Things, NEW c, NEW d, Reserves(F, Len(F), c),
           f.kind \in {"push", "call"} => d = c, f.kind = "enter" => d = f.n
    PROVE  Reserves(Append(F, f), Len(F) + 1, d)
<1> DEFINE G == Append(F, f)
           N == Len(F)
<1>1. N \in Nat /\ Len(G) = N + 1 /\ G[N + 1] = f /\ \A i \in 1 .. N : G[i] = F[i]
  OBVIOUS
<1> HIDE DEF G, N
<1>2. ASSUME NEW j \in 1 .. (N + 1), InForce(G, j, N + 1) PROVE d = G[j].n
  <2>1. CASE j = N + 1
    BY <1>1, <1>2, <2>1 DEF InForce
  <2>2. CASE j # N + 1
    <3>1. j \in 1 .. N /\ N + 1 \in (j + 1) .. (N + 1)
      BY <1>1, <2>2
    <3>2. f.kind \in {"push", "call"}
      BY <1>1, <1>2, <3>1 DEF InForce
    <3>3. \A i \in (j + 1) .. N : i \in (j + 1) .. (N + 1) /\ i \in 1 .. N
      BY <1>1
    <3>4. InForce(F, j, N)
      BY <1>1, <1>2, <3>1, <3>3 DEF InForce
    <3>5. c = F[j].n
      BY <3>1, <3>4 DEF Reserves, N
    <3> QED BY <1>1, <3>1, <3>2, <3>5
  <2> QED BY <2>1, <2>2
<1> QED BY <1>2 DEF Reserves, G, N

\* CPS after a push or a call is gone.
LEMMA ReservesShrinks ==
    ASSUME NEW F \in Seq(Things), Len(F) # 0, NEW c, Reserves(F, Len(F), c),
           F[Len(F)].kind \in {"push", "call"}
    PROVE  Reserves(F, Len(F) - 1, c)
<1> DEFINE N == Len(F)
<1>1. N \in Nat \ {0}
  OBVIOUS
<1>2. ASSUME NEW j \in 1 .. (N - 1), InForce(F, j, N - 1) PROVE c = F[j].n
  <2>1. \A i \in (j + 1) .. N : i \in (j + 1) .. (N - 1) \/ i = N
    BY <1>1
  <2>2. InForce(F, j, N)
    BY <1>2, <2>1 DEF InForce
  <2>3. j \in 1 .. N
    BY <1>1
  <2> QED BY <2>2, <2>3 DEF Reserves
<1> QED BY <1>2 DEF Reserves

\* Something pushed.
LEMMA Grown ==
    ASSUME NEW F, NEW m, NEW mm, NEW b \in Values, NEW s \in Values, NEW c, NEW f \in Things,
           Stack(F, m, b), Standing(F, b, s, c), f.sp = s, f.kind # "enter", Framed(f, b),
           f.kind \in {"all", "int"} => f.v.cps = c,
           Objects(mm), Held(mm, b, f), \A k \in 1 .. Len(F) : Held(mm, b, F[k])
    PROVE  Stack(Append(F, f), mm, b) /\ Standing(Append(F, f), b, (s - f.n) % Word, c)
<1> DEFINE G == Append(F, f)
           N == Len(F)
           t == (s - f.n) % Word
           A == Linear(b, s)
<1>1. F \in Seq(Things) /\ Chained(F, b) /\ N \in Nat
  BY DEF Stack
<1>2. G \in Seq(Things) /\ Len(G) = N + 1 /\ G[N + 1] = f /\ \A i \in 1 .. N : G[i] = F[i]
  BY <1>1
<1>3. A <= MemSize /\ 1 <= f.n /\ f.n <= A /\ f.n \in Nat /\ A \in Nat /\ MemSize \in Nat
  BY LinearType, StackAssumption DEF Framed, Things
<1>4. Linked(F, N, s) /\ Reserves(F, N, c) /\ Clear(F, b, N, s)
  BY <1>3 DEF Standing
<1>5. Linear(b, t) = A - f.n
  <2> DEFINE x == f.n
  <2>1. x \in Nat /\ x <= Linear(b, s)
    BY <1>3
  <2> HIDE DEF x
  <2>2. Linear(b, (s - x) % Word) = Linear(b, s) - x
    BY <2>1, LinearDown
  <2> QED BY <2>2 DEF x
<1>6. Chained(G, b)
  BY <1>1, <1>4, Lengthened
<1>7. Reserves(G, N + 1, c)
  BY <1>1, <1>4, ReservesGrows DEF Framed
<1>8. \A k \in 1 .. (N + 1) : k \in 1 .. N \/ k = N + 1
  BY <1>1
<1>9. \A k \in 1 .. (N + 1) : Framed(G[k], b) /\ Held(mm, b, G[k])
  <2>1. \A k \in 1 .. N : Framed(F[k], b) /\ Held(mm, b, F[k])
    BY DEF Stack
  <2> HIDE DEF G, N
  <2> QED BY <1>2, <1>8, <2>1
<1>b. b + G[1].sp <= MemSize
  <2>1. CASE N = 0
    <3>1. G[1] = f /\ b + s <= MemSize
      BY <1>1, <1>2, <2>1 DEF Standing
    <3> QED BY <3>1
  <2>2. CASE N # 0
    <3>1. 1 \in 1 .. N /\ b + F[1].sp <= MemSize
      BY <1>1, <2>2 DEF Stack
    <3> QED BY <1>2, <3>1
  <2> QED BY <2>1, <2>2
<1>10. Stack(G, mm, b)
  BY <1>2, <1>6, <1>9, <1>b DEF Stack
<1> HIDE DEF G, N, t, A
<1>11. Linked(G, N + 1, t)
  BY <1>2 DEF Linked, t
<1>12. ASSUME NEW j \in 1 .. (N + 1), G[j].kind # "enter" PROVE Linear(b, t) <= Floor(b, G[j])
  <2>1. CASE j = N + 1
    <3>1. Floor(b, f) = A - f.n
      BY DEF Floor, A
    <3> QED BY <1>2, <1>3, <1>5, <2>1, <3>1
  <2>2. CASE j \in 1 .. N
    <3>1. A <= Floor(b, F[j])
      BY <1>2, <1>4, <1>12, <2>2 DEF Clear, A
    <3>2. F[j] \in Things
      BY <1>1, <2>2 DEF N
    <3>3. Linear(b, F[j].sp) \in Nat /\ F[j].n \in Nat
      BY <3>2, LinearType DEF Things
    <3>4. Floor(b, F[j]) \in Int
      BY <3>3 DEF Floor
    <3>5. A - f.n <= Floor(b, F[j])
      BY <1>3, <3>1, <3>4
    <3> QED BY <1>2, <1>5, <2>2, <3>5
  <2> QED BY <1>8, <2>1, <2>2
<1>13. Clear(G, b, N + 1, t) /\ Linear(b, t) <= MemSize
  BY <1>3, <1>5, <1>12 DEF Clear
<1>14. Standing(G, b, t, c)
  BY <1>1, <1>2, <1>7, <1>11, <1>13 DEF Standing
<1> QED BY <1>10, <1>14 DEF G, t

\* Space reserved by enter.
LEMMA Entered ==
    ASSUME NEW F, NEW m, NEW b \in Values, NEW s \in Values, NEW c, NEW f \in Things,
           Stack(F, m, b), Standing(F, b, s, c), f.sp = s, f.kind = "enter", f.n \in Spaces,
           c = 0 \/ (Len(F) # 0 /\ F[Len(F)].kind \in {"all", "int"})
    PROVE  Stack(Append(F, f), m, b) /\ Standing(Append(F, f), b, (s - f.n) % Word, f.n)
<1> DEFINE G == Append(F, f)
           N == Len(F)
           t == (s - f.n) % Word
           A == Linear(b, s)
           x == f.n
<1>1. F \in Seq(Things) /\ Chained(F, b) /\ N \in Nat
  BY DEF Stack
<1>2. G \in Seq(Things) /\ Len(G) = N + 1 /\ G[N + 1] = f /\ \A i \in 1 .. N : G[i] = F[i]
  BY <1>1
<1>3. A \in Nat /\ A < Word /\ MemSize \in Nat /\ Word \in Nat /\ x \in Nat /\ x <= Word - MemSize - 1
  BY LinearType, StackAssumption, MachineAssumption, WordType DEF Things
<1>4. Linked(F, N, s) /\ Reserves(F, N, c) /\ Clear(F, b, N, s) /\ A <= MemSize
  BY <1>1 DEF Standing
<1>5. Reserves(F, N, 0)
  <2>1. CASE c = 0
    BY <1>4, <2>1
  <2>2. CASE N # 0 /\ F[N].kind \in {"all", "int"}
    <3>1. ASSUME NEW j \in 1 .. N PROVE ~InForce(F, j, N)
      <4>1. CASE j = N
        BY <2>2, <4>1 DEF InForce
      <4>2. CASE j # N
        <5>1. N \in (j + 1) .. N
          BY <1>1, <4>2
        <5> QED BY <2>2, <5>1 DEF InForce
      <4> QED BY <4>1, <4>2
    <3> QED BY <3>1 DEF Reserves
  <2> QED BY <2>1, <2>2
<1>6. Chained(G, b)
  BY <1>1, <1>4, <1>5, Lengthened
<1>7. Reserves(G, N + 1, x)
  BY <1>1, <1>4, ReservesGrows
<1>8. \A k \in 1 .. (N + 1) : k \in 1 .. N \/ k = N + 1
  BY <1>1
<1>9. \A k \in 1 .. (N + 1) : Framed(G[k], b) /\ Held(m, b, G[k])
  <2>1. \A k \in 1 .. N : Framed(F[k], b) /\ Held(m, b, F[k])
    BY DEF Stack
  <2>2. Framed(f, b) /\ Held(m, b, f)
    BY <1>4 DEF Framed, Held
  <2> HIDE DEF G, N
  <2> QED BY <1>2, <1>8, <2>1, <2>2
<1>b. b + G[1].sp <= MemSize
  <2>1. CASE N = 0
    <3>1. G[1] = f /\ b + s <= MemSize
      BY <1>1, <1>2, <2>1 DEF Standing
    <3> QED BY <3>1
  <2>2. CASE N # 0
    <3>1. 1 \in 1 .. N /\ b + F[1].sp <= MemSize
      BY <1>1, <2>2 DEF Stack
    <3> QED BY <1>2, <3>1
  <2> QED BY <2>1, <2>2
<1>10. Stack(G, m, b)
  BY <1>2, <1>6, <1>9, <1>b DEF Stack
<1>t. Linear(b, t) = (A - x) % Word /\ (x <= A => (A - x) % Word = A - x)
      /\ ((x > A /\ x < Word) => (A - x) % Word = A - x + Word)
  <2>1. x \in Nat
    BY <1>3
  <2> HIDE DEF x
  <2>2. /\ Linear(b, (s - x) % Word) = (Linear(b, s) - x) % Word
        /\ x <= Linear(b, s) => (Linear(b, s) - x) % Word = Linear(b, s) - x
        /\ (x > Linear(b, s) /\ x < Word) => (Linear(b, s) - x) % Word = Linear(b, s) - x + Word
    BY <2>1, LinearDown
  <2> QED BY <2>2 DEF x
<1> HIDE DEF G, N, t, A, x
<1>11. Linked(G, N + 1, t)
  BY <1>2 DEF Linked, t
<1>12. CASE x <= A
  <2>1. Linear(b, t) = A - x
    BY <1>12, <1>t
  <2>2. ASSUME NEW j \in 1 .. (N + 1), G[j].kind # "enter" PROVE Linear(b, t) <= Floor(b, G[j])
    <3>2. j \in 1 .. N
      BY <1>2, <1>8, <2>2
    <3>1. A <= Floor(b, F[j])
      BY <1>2, <1>4, <2>2, <3>2 DEF Clear, A
    <3>3. F[j] \in Things
      BY <1>1, <3>2 DEF N
    <3>4. Linear(b, F[j].sp) \in Nat /\ F[j].n \in Nat
      BY <3>3, LinearType DEF Things
    <3>5. Floor(b, F[j]) \in Int
      BY <3>4 DEF Floor
    <3>6. A - x <= Floor(b, F[j])
      BY <1>3, <3>1, <3>5
    <3> QED BY <1>2, <2>1, <3>2, <3>6
  <2>3. Clear(G, b, N + 1, t) /\ Linear(b, t) <= MemSize
    BY <1>3, <1>4, <2>1, <2>2 DEF Clear
  <2>4. Standing(G, b, t, x)
    BY <1>1, <1>2, <1>7, <1>11, <2>3 DEF Standing
  <2> QED BY <1>10, <2>4 DEF G, t, x
<1>13. CASE x > A
  <2>1. x < Word
    BY <1>3
  <2>2. Linear(b, t) = A - x + Word
    BY <1>13, <1>t, <2>1
  <2>3. Linear(b, t) > MemSize /\ x # 0 /\ N + 1 # 0
    BY <1>1, <1>3, <1>13, <2>2
  <2>4. Standing(G, b, t, x)
    BY <1>1, <1>2, <1>7, <1>11, <2>3 DEF Standing
  <2> QED BY <1>10, <2>4 DEF G, t, x
<1> QED BY <1>3, <1>12, <1>13

\* A sequence without its last element.
LEMMA FrontFacts ==
    ASSUME NEW S, NEW F \in Seq(S), Len(F) # 0
    PROVE  /\ Front(F) \in Seq(S) /\ Len(Front(F)) = Len(F) - 1 /\ Last(F) = F[Len(F)]
           /\ \A i \in 1 .. (Len(F) - 1) : Front(F)[i] = F[i]
<1> DEFINE n == Len(F) - 1
<1>1. n \in Nat /\ n <= Len(F) /\ Len(F) \in Nat
  OBVIOUS
<1>2. Front(F) = SubSeq(F, 1, n)
  BY DEF Front
<1> HIDE DEF n
<1>3. SubSeq(F, 1, n) \in Seq(S) /\ Len(SubSeq(F, 1, n)) = n
  <2>1. 1 \in 1 .. (Len(F) + 1) /\ n \in 0 .. Len(F) /\ n + 1 - 1 = n
    BY <1>1
  <2>2. \A i \in 1 .. n : F[i] \in S
    BY <1>1
  <2>3. Len(SubSeq(F, 1, n)) = n
    BY <1>1
  <2>4. SubSeq(F, 1, n) = [i \in 1 .. n |-> F[i]]
    BY <1>1
  <2>5. [i \in 1 .. n |-> F[i]] \in Seq(S)
    BY <1>1, <2>2
  <2> QED BY <2>3, <2>4, <2>5
<1>4. \A i \in 1 .. n : SubSeq(F, 1, n)[i] = F[i]
  BY <1>1
<1> QED BY <1>2, <1>3, <1>4 DEF Last, n

\* The last frame gone.
LEMMA Shrunk ==
    ASSUME NEW F, NEW m, NEW b \in Values, NEW s, NEW c, NEW d,
           Stack(F, m, b), Standing(F, b, s, c), Len(F) # 0,
           F[Len(F)].kind \in {"push", "call"} => d = c,
           F[Len(F)].kind \in {"all", "int"} => d = F[Len(F)].v.cps,
           F[Len(F)].kind = "enter" => d = 0
    PROVE  Stack(Front(F), m, b) /\ Standing(Front(F), b, F[Len(F)].sp, d)
<1> DEFINE N == Len(F)
           G == Front(F)
           f == F[Len(F)]
           M == Len(F) - 1
<1>1. F \in Seq(Things) /\ Chained(F, b) /\ N \in Nat \ {0} /\ N \in 1 .. N /\ M \in Nat /\ M = N - 1
  BY DEF Stack
<1>2. G \in Seq(Things) /\ Len(G) = M /\ \A i \in 1 .. M : G[i] = F[i]
  BY <1>1, FrontFacts
<1>3. /\ Linked(F, M, f.sp) /\ Clear(F, b, M, f.sp)
      /\ f.kind \in {"all", "int"} => Reserves(F, M, f.v.cps)
      /\ f.kind = "enter" => Reserves(F, M, 0)
  BY <1>1 DEF Chained
<1>4. Framed(f, b) /\ f \in Things
  BY <1>1 DEF Stack
<1>5. f.kind \in {"push", "call"} => Reserves(F, M, c)
  BY <1>1, ReservesShrinks DEF Standing
<1>6. Reserves(F, M, d)
  BY <1>3, <1>4, <1>5 DEF Things, Kinds
<1>7. \A i \in 1 .. M : i \in 1 .. N
  BY <1>1
<1> HIDE DEF G, M, N, f
<1>8. ASSUME NEW k \in 0 .. M
      PROVE  /\ \A u : Linked(F, k, u) => Linked(G, k, u)
             /\ \A u : Clear(F, b, k, u) => Clear(G, b, k, u)
             /\ \A u : Reserves(F, k, u) => Reserves(G, k, u)
  BY <1>1, <1>2, SamePrefix
<1>9. Chained(G, b)
  <2>1. ASSUME NEW k \in 1 .. M
        PROVE  /\ Linked(G, k - 1, G[k].sp) /\ Clear(G, b, k - 1, G[k].sp)
               /\ G[k].kind \in {"all", "int"} => Reserves(G, k - 1, G[k].v.cps)
               /\ G[k].kind = "enter" => Reserves(G, k - 1, 0)
    <3> DEFINE l == k - 1
    <3>1. l \in 0 .. M
      BY <1>1
    <3>2. /\ Linked(F, l, F[k].sp) /\ Clear(F, b, l, F[k].sp)
          /\ F[k].kind \in {"all", "int"} => Reserves(F, l, F[k].v.cps)
          /\ F[k].kind = "enter" => Reserves(F, l, 0)
      BY <1>1, <1>7 DEF Chained, N
    <3> HIDE DEF l
    <3>3. /\ Linked(G, l, F[k].sp) /\ Clear(G, b, l, F[k].sp)
          /\ F[k].kind \in {"all", "int"} => Reserves(G, l, F[k].v.cps)
          /\ F[k].kind = "enter" => Reserves(G, l, 0)
      BY <1>8, <3>1, <3>2
    <3> QED BY <1>2, <3>3 DEF l
  <2> QED BY <1>2, <2>1 DEF Chained
<1>10. \A k \in 1 .. M : Framed(G[k], b) /\ Held(m, b, G[k])
  <2>1. \A k \in 1 .. N : Framed(F[k], b) /\ Held(m, b, F[k])
    BY DEF Stack, N
  <2> QED BY <1>2, <1>7, <2>1
<1>11. Stack(G, m, b)
  <2>1. Objects(m) /\ b + F[1].sp <= MemSize
    BY DEF Stack
  <2>2. M # 0 => G[1] = F[1]
    BY <1>1, <1>2
  <2> QED BY <1>2, <1>9, <1>10, <2>1, <2>2 DEF Stack
<1>12. M \in 0 .. M
  BY <1>1
<1>13. Linked(G, M, f.sp) /\ Clear(G, b, M, f.sp) /\ Reserves(G, M, d)
  BY <1>3, <1>6, <1>8, <1>12
<1>14. Linear(b, f.sp) <= MemSize
  BY <1>4 DEF Framed
<1>15. M = 0 => b + f.sp <= MemSize
  <2>1. M = 0 => N = 1
    BY <1>1
  <2> QED BY <2>1 DEF Stack, f, N
<1>16. Standing(G, b, f.sp, d)
  BY <1>2, <1>13, <1>14, <1>15 DEF Standing
<1> QED BY <1>11, <1>16 DEF G, f

-----------------------------------------------------------------------------
\* A write leaves what it does not overlap.
LEMMA PlacedWritten ==
    ASSUME NEW m, NEW a \in Nat, NEW n \in Nat, NEW v, NEW x \in Int, NEW k \in Nat, NEW u,
           1 <= n, 1 <= k, Placed(m, x, k, u), Disjoint(a, n, x, k)
    PROVE  Placed(Written(m, a, n, v), x, k, u)
<1> DEFINE kept == {b \in DOMAIN m : Disjoint(a, n, b, m[b].n)}
           w == [b \in kept \cup {a} |-> IF b = a THEN [n |-> n, v |-> v] ELSE m[b]]
<1>1. x # a
  BY DEF Disjoint
<1>2. x \in kept
  BY DEF Placed
<1> HIDE DEF kept
<1>3. x \in DOMAIN w /\ w[x] = m[x]
  BY <1>1, <1>2
<1>4. Written(m, a, n, v) = w
  BY DEF Written, kept
<1> HIDE DEF w
<1> QED BY <1>3, <1>4 DEF Placed

LEMMA PlacedNew ==
    ASSUME NEW m, NEW a, NEW n, NEW v
    PROVE  Placed(Written(m, a, n, v), a, n, v)
BY DEF Written, Placed

LEMMA ObjectsWritten ==
    ASSUME NEW m, Objects(m), NEW a \in Nat, NEW n \in Nat \ {0}, a + n <= MemSize, NEW v,
           n = 8 => v \in Values
    PROVE  Objects(Written(m, a, n, v))
<1> DEFINE kept == {b \in DOMAIN m : Disjoint(a, n, b, m[b].n)}
           w == [b \in kept \cup {a} |-> IF b = a THEN [n |-> n, v |-> v] ELSE m[b]]
<1>1. Written(m, a, n, v) = w
  BY DEF Written
<1>2. \A b \in DOMAIN w : b = a \/ (b \in DOMAIN m /\ w[b] = m[b])
  OBVIOUS
<1>3. w[a].n = n /\ w[a].v = v
  OBVIOUS
<1> HIDE DEF w
<1>4. Objects(w)
  BY <1>2, <1>3 DEF Objects
<1> QED BY <1>1, <1>4

\* Frames that a write below A leaves alone.
Above(m, mm, b, A) ==
    \A f \in Things :
        (Framed(f, b) /\ Held(m, b, f) /\ (f.kind # "enter" => A <= Floor(b, f))) => Held(mm, b, f)

\* mm has what m has outside the n bytes at a.
Beside(m, mm, a, n) ==
    \A x \in Int, k \in Nat : \A u :
        (1 <= k /\ Placed(m, x, k, u) /\ Disjoint(a, n, x, k)) => Placed(mm, x, k, u)

\* A frame is left alone by what changes memory beside it.
LEMMA HeldBeside ==
    ASSUME NEW m, NEW mm, NEW b \in Values, NEW f \in Things, Framed(f, b), Held(m, b, f),
           NEW a \in Nat, NEW n \in Nat, Beside(m, mm, a, n),
           f.kind # "enter" => Disjoint(a, n, Floor(b, f), f.n)
    PROVE  Held(mm, b, f)
<1> DEFINE x == Floor(b, f)
           k == f.n
<1>1. k \in Nat /\ Linear(b, f.sp) \in Nat
  BY LinearType DEF Things
<1>2. x \in Int
  BY <1>1 DEF Floor
<1>3. ASSUME f.kind \in {"push", "all", "int"} PROVE Placed(mm, x, k, f.v)
  <2> DEFINE u == f.v
  <2>1. 1 <= k /\ Placed(m, x, k, u) /\ Disjoint(a, n, x, k)
    BY <1>3 DEF Framed, Held
  <2> HIDE DEF x, k, u
  <2>2. Placed(mm, x, k, u)
    BY <1>1, <1>2, <2>1 DEF Beside
  <2> QED BY <2>2 DEF u
<1>4. ASSUME f.kind = "call" PROVE Placed(mm, x + 8, 8, f.v.cb) /\ Placed(mm, x, 8, f.v.ip)
  <2> DEFINE u == f.v.cb
             t == f.v.ip
             y == x + 8
             e == 8
  <2>1. k = 16 /\ Placed(m, y, e, u) /\ Placed(m, x, e, t) /\ Disjoint(a, n, x, k)
    BY <1>4 DEF Framed, Held
  <2> HIDE DEF x, k
  <2>2. Disjoint(a, n, y, e) /\ Disjoint(a, n, x, e) /\ y \in Int /\ e \in Nat /\ 1 <= e
    BY <1>2, <2>1 DEF Disjoint
  <2> HIDE DEF u, t, y, e
  <2>3. Placed(mm, y, e, u)
    BY <2>1, <2>2 DEF Beside
  <2>4. Placed(mm, x, e, t)
    BY <1>2, <2>1, <2>2 DEF Beside
  <2> QED BY <2>3, <2>4 DEF y, e, u, t
<1> QED BY <1>3, <1>4 DEF Held

LEMMA HeldWritten ==
    ASSUME NEW m, NEW b \in Values, NEW f \in Things, Framed(f, b), Held(m, b, f),
           NEW a \in Nat, NEW n \in Nat, 1 <= n, NEW v,
           f.kind # "enter" => Disjoint(a, n, Floor(b, f), f.n)
    PROVE  Held(Written(m, a, n, v), b, f)
<1> DEFINE w == Written(m, a, n, v)
<1>1. Beside(m, w, a, n)
  <2> SUFFICES ASSUME NEW x \in Int, NEW k \in Nat, NEW u, 1 <= k, Placed(m, x, k, u), Disjoint(a, n, x, k)
               PROVE  Placed(w, x, k, u)
    BY DEF Beside
  <2> QED BY PlacedWritten
<1> HIDE DEF w
<1>2. Held(w, b, f)
  BY <1>1, HeldBeside
<1> QED BY <1>2 DEF w

LEMMA AboveWritten ==
    ASSUME NEW m, NEW b \in Values, NEW A \in Nat, NEW n \in Nat, 1 <= n, n <= A, NEW v
    PROVE  Above(m, Written(m, A - n, n, v), b, A)
<1> DEFINE a == A - n
<1>1. a \in Nat /\ a + n = A
  OBVIOUS
<1> HIDE DEF a
<1>2. ASSUME NEW f \in Things, Framed(f, b), Held(m, b, f), f.kind # "enter" => A <= Floor(b, f)
      PROVE  Held(Written(m, a, n, v), b, f)
  <2>1. f.kind # "enter" => Disjoint(a, n, Floor(b, f), f.n)
    BY <1>1, <1>2 DEF Disjoint
  <2> QED BY <1>1, <1>2, <2>1, HeldWritten
<1> QED BY <1>2 DEF Above, a

LEMMA AboveTwice ==
    ASSUME NEW m, NEW p, NEW q, NEW b \in Values, NEW A \in Nat, NEW B \in Nat, B <= A,
           Above(m, p, b, A), Above(p, q, b, B)
    PROVE  Above(m, q, b, A)
<1> SUFFICES ASSUME NEW f \in Things, Framed(f, b), Held(m, b, f), f.kind # "enter" => A <= Floor(b, f)
             PROVE  Held(q, b, f)
  BY DEF Above
<1>1. Held(p, b, f)
  BY DEF Above
<1>2. Floor(b, f) \in Int
  <2>1. Linear(b, f.sp) \in Nat /\ f.n \in Nat
    BY LinearType DEF Things
  <2> QED BY <2>1 DEF Floor
<1>3. f.kind # "enter" => B <= Floor(b, f)
  BY <1>2
<1> QED BY <1>1, <1>3 DEF Above

-----------------------------------------------------------------------------
\* The registers after a push or a pop, and in front of a handler.
Moved(q, s) == [q EXCEPT !.sp = s]
Jumped(q, c) == [q EXCEPT !.fg.im = 1, !.cb = c, !.ip = 0]

LEMMA MovedTyped ==
    \A q \in Registers, s \in Values :
        /\ Moved(q, s) \in Registers /\ Moved(q, s).sp = s /\ Moved(q, s).gp = q.gp
        /\ Moved(q, s).fg = q.fg /\ Moved(q, s).sb = q.sb /\ Moved(q, s).cb = q.cb
        /\ Moved(q, s).ip = q.ip /\ Moved(q, s).cps = q.cps
<1> TAKE q \in Registers, s \in Values
<1>1. [q EXCEPT !.sp = s] \in Registers
  BY DEF Registers
<1>2. /\ [q EXCEPT !.sp = s].sp = s /\ [q EXCEPT !.sp = s].gp = q.gp
      /\ [q EXCEPT !.sp = s].fg = q.fg /\ [q EXCEPT !.sp = s].sb = q.sb /\ [q EXCEPT !.sp = s].cb = q.cb
      /\ [q EXCEPT !.sp = s].ip = q.ip /\ [q EXCEPT !.sp = s].cps = q.cps
  BY DEF Registers
<1> QED BY <1>1, <1>2 DEF Moved

LEMMA JumpedTyped ==
    \A q \in Registers, c \in Values :
        /\ Jumped(q, c) \in Registers /\ Jumped(q, c).sp = q.sp /\ Jumped(q, c).gp = q.gp
        /\ Jumped(q, c).sb = q.sb /\ Jumped(q, c).cb = c /\ Jumped(q, c).cps = q.cps
        /\ Jumped(q, c).fg.im = 1
<1> TAKE q \in Registers, c \in Values
<1> DEFINE g == [q.fg EXCEPT !.im = 1]
           t == [q EXCEPT !.fg = g, !.cb = c, !.ip = 0]
<1>1. q.fg \in Flags
  BY DEF Registers
<1>2. g \in Flags /\ g.im = 1
  <2> DEFINE B == 0 .. 1
  <2>1. 1 \in B /\ Flags = [c : B, o : B, bg : B, le : B, eq : B, im : B]
    BY DEF Flags
  <2> HIDE DEF B
  <2> QED BY <1>1, <2>1
<1>3. 0 \in Values
  BY ValuesAre, WordType
<1>4. Jumped(q, c) = t
  BY DEF Jumped, Registers
<1> HIDE DEF g
<1>5. t \in Registers
  BY <1>2, <1>3 DEF Registers
<1>6. t.sp = q.sp /\ t.gp = q.gp /\ t.sb = q.sb /\ t.cb = c /\ t.cps = q.cps /\ t.fg = g
  BY DEF Registers
<1> HIDE DEF t
<1> QED BY <1>2, <1>4, <1>5, <1>6

\* The parts of an outcome.
LEMMA OutFacts == \A q, m, t : Out(q, m, t).r = q /\ Out(q, m, t).mem = m /\ Out(q, m, t).thrown = t
BY DEF Out

\* A push that fits, and one that does not.
Fits(q, n) == n <= q.sp /\ n <= Linear(q.sb, q.sp) /\ Linear(q.sb, q.sp) <= MemSize

LEMMA PushFacts ==
    ASSUME NEW q \in Registers, NEW m, NEW n \in Nat \ {0}, NEW v
    PROVE  /\ Fits(q, n) =>
                  /\ Push(Out(q, m, "none"), n, v) =
                         Out(Moved(q, q.sp - n), Written(m, Linear(q.sb, q.sp) - n, n, v), "none")
                  /\ q.sp - n \in Values /\ (q.sp - n) % Word = q.sp - n
                  /\ Linear(q.sb, q.sp - n) = Linear(q.sb, q.sp) - n
           /\ ~Fits(q, n) => Push(Out(q, m, "none"), n, v) = Out(q, m, "StackOverflow")
<1> DEFINE b == q.sb
           s == q.sp
           A == Linear(b, s)
           a == (s - n + b) % Word
           o == Out(q, m, "none")
<1>1. b \in Values /\ s \in Values
  BY DEF Registers
<1> HIDE DEF b, s
<1>2. A \in Nat /\ A < Word /\ s \in Nat /\ s < Word /\ MemSize \in Nat /\ MemSize < Word /\ Word \in Nat
  BY <1>1, LinearType, ValuesAre, WordType, StackAssumption
<1>3. /\ n <= s => (s - n) % Word = s - n /\ s - n \in Values
      /\ a = (A - n) % Word
      /\ Linear(b, (s - n) % Word) = (A - n) % Word
      /\ n <= A => (A - n) % Word = A - n
      /\ (n > A /\ n < Word) => (A - n) % Word = A - n + Word
  <2>1. n \in Nat
    OBVIOUS
  <2> QED BY <1>1, <2>1, LinearDown
<1>4. o.r = q /\ o.mem = m /\ o.thrown = "none"
  BY OutFacts
<1> HIDE DEF A, a, o
<1>5. Fits(q, n) <=> ~(s < n \/ a + n > MemSize)
  <2>1. Fits(q, n) <=> n <= s /\ n <= A /\ A <= MemSize
    BY DEF Fits, A, b, s
  <2>2. CASE n <= A
    <3>1. a = A - n
      BY <1>3, <2>2
    <3>2. a + n = A
      BY <1>2, <3>1
    <3>3. A > MemSize <=> ~(A <= MemSize)
      BY <1>2
    <3>4. s < n <=> ~(n <= s)
      BY <1>2
    <3> QED BY <2>1, <2>2, <3>2, <3>3, <3>4
  <2>3. CASE n > A /\ n <= s
    <3>1. n < Word
      BY <1>2, <2>3
    <3>2. a = A - n + Word
      BY <1>3, <2>3, <3>1
    <3>3. a + n > MemSize /\ ~(n <= A)
      BY <1>2, <2>3, <3>2
    <3> QED BY <2>1, <3>3
  <2>4. CASE n > s
    <3>1. s < n /\ ~(n <= s)
      BY <1>2, <2>4
    <3> QED BY <2>1, <3>1
  <2>5. n <= A \/ (n > A /\ n <= s) \/ n > s
    BY <1>2
  <2> QED BY <2>2, <2>3, <2>4, <2>5
<1>6. o.r.sp = s /\ (o.r.sp - n + o.r.sb) % Word = a
  BY <1>4 DEF s, a, b
<1>7. CASE Fits(q, n)
  <2>1. n <= s /\ n <= A
    BY <1>7 DEF Fits, s, A, b
  <2>2. ~(s < n \/ a + n > MemSize) /\ a = A - n
    BY <1>3, <1>5, <1>7, <2>1
  <2>3. Push(o, n, v) = Out([o.r EXCEPT !.sp = @ - n], Written(o.mem, a, n, v), "none")
    BY <1>4, <1>6, <2>2 DEF Push
  <2>4. [o.r EXCEPT !.sp = @ - n] = Moved(q, s - n)
    BY <1>4 DEF Moved, s, Registers
  <2>5. Push(o, n, v) = Out(Moved(q, s - n), Written(m, A - n, n, v), "none")
    BY <1>4, <2>2, <2>3, <2>4
  <2>6. Linear(b, s - n) = A - n
    BY <1>3, <2>1
  <2> QED BY <1>3, <1>7, <2>1, <2>5, <2>6 DEF o, s, A, b
<1>8. CASE ~Fits(q, n)
  <2>1. s < n \/ a + n > MemSize
    BY <1>5, <1>8
  <2>2. Push(o, n, v) = Out(o.r, o.mem, "StackOverflow")
    BY <1>4, <1>6, <2>1 DEF Push
  <2> QED BY <1>4, <1>8, <2>2 DEF o
<1> QED BY <1>7, <1>8

LEMMA PopFacts ==
    ASSUME NEW q \in Registers, NEW m, NEW n \in Nat
    PROVE  /\ Linear(q.sb, q.sp) + n <= MemSize =>
                  /\ Pop(Out(q, m, "none"), n) = Out(Moved(q, (q.sp + n) % Word), m, "none")
                  /\ (q.sp + n) % Word \in Values
                  /\ Linear(q.sb, (q.sp + n) % Word) = Linear(q.sb, q.sp) + n
           /\ ~(Linear(q.sb, q.sp) + n <= MemSize) => Pop(Out(q, m, "none"), n) = Out(q, m, "StackOverflow")
           /\ Top(Out(q, m, "none"), n) = Read(m, Linear(q.sb, q.sp), n)
<1> DEFINE b == q.sb
           s == q.sp
           A == Linear(b, s)
           o == Out(q, m, "none")
<1>1. b \in Values /\ s \in Values
  BY DEF Registers
<1>2. o.r = q /\ o.mem = m /\ o.thrown = "none"
  BY OutFacts
<1>3. (o.r.sb + o.r.sp) % Word = A
  BY <1>2 DEF Linear
<1>4. A \in Nat /\ MemSize \in Nat
  BY <1>1, LinearType, StackAssumption
<1> HIDE DEF b, s
<1>5. (s + n) % Word \in Values /\ (A + n <= MemSize => Linear(b, (s + n) % Word) = A + n)
  BY <1>1, LinearUp
<1> HIDE DEF A, o
<1>6. CASE A + n <= MemSize
  <2>1. ~(A + n > MemSize)
    BY <1>4, <1>6
  <2>2. Pop(o, n) = Out([o.r EXCEPT !.sp = (@ + n) % Word], o.mem, "none")
    BY <1>2, <1>3, <2>1 DEF Pop
  <2>3. [o.r EXCEPT !.sp = (@ + n) % Word] = Moved(q, (s + n) % Word)
    BY <1>2 DEF Moved, s, Registers
  <2> QED BY <1>2, <1>3, <1>5, <1>6, <2>2, <2>3 DEF Top, o, A, b, s
<1>7. CASE ~(A + n <= MemSize)
  <2>1. A + n > MemSize
    BY <1>4, <1>7
  <2>2. Pop(o, n) = Out(o.r, o.mem, "StackOverflow")
    BY <1>2, <1>3, <2>1 DEF Pop
  <2> QED BY <1>2, <1>3, <1>7, <2>2 DEF Top, o, A, b, s
<1> QED BY <1>6, <1>7

-----------------------------------------------------------------------------
(***************************************************************************)
(* What every instruction of mode "stack" does: it keeps the invariant,    *)
(* one that runs out of stack changes no more than SP by a word, and one   *)
(* that takes the last frame off gives back what it holds.                 *)
(***************************************************************************)
Abandoned ==
    /\ r'.gp = r.gp /\ r'.sb = r.sb /\ r'.cps = r.cps /\ r'.fg.im = 1
    /\ r'.sp \in {r.sp, r.sp - 8, r.sp + 8}
    /\ frames' = frames

GivesBack ==
    LET f == Last(frames)
    IN  /\ r'.sp = f.sp
        /\ f.kind = "push" => Load(r'.gp, f.n, 1) = f.v
        /\ f.kind = "call" => r'.cb = f.v.cb /\ r'.ip = f.v.ip
        /\ f.kind = "all"  => [r' EXCEPT !.cb = 0, !.ip = 0] = [f.v EXCEPT !.cb = 0, !.ip = 0]
        /\ f.kind = "int"  => r' = f.v

StepOk ==
    /\ StackInv'
    /\ event' = "overflow" => Abandoned
    /\ frames' = frames \/ Len(frames') = Len(frames) + 1 \/ GivesBack

\* The handlers' codes are words.
LEMMA Codes256 == \A c \in Nat : c < 256 => c \in Values
<1>1. ImageSize \in Nat /\ Word \in Nat /\ 256 <= Word
  <2>1. /\ Span(1) \in Nat \ {0} /\ Span(2) = Span(1) * Span(1) /\ Span(4) = Span(2) * Span(2)
        /\ Word = Span(4) * Span(4)
    <3>1. \A s, t \in Nat : Span(s + t) = Span(s) * Span(t)
      BY Spans
    <3>2. 1 + 1 = 2 /\ 2 + 2 = 4 /\ 4 + 4 = 8
      OBVIOUS
    <3>3. Span(1 + 1) = Span(1) * Span(1) /\ Span(2 + 2) = Span(2) * Span(2) /\ Span(4 + 4) = Span(4) * Span(4)
      BY <3>1
    <3> QED BY <3>2, <3>3, Spans DEF Word
  <2>2. 2 <= Span(1)
    BY HalfSpan DEF Width
  <2> DEFINE x == Span(1)
             y == Span(2)
             z == Span(4)
  <2>3. x \in Nat /\ 2 <= x /\ y = x * x /\ z = y * y /\ Word = z * z
    BY <2>1, <2>2
  <2> HIDE DEF x, y, z
  <2>4. y \in Nat /\ 4 <= y
    BY <2>3
  <2>5. z \in Nat /\ 16 <= z
    BY <2>3, <2>4
  <2>6. 256 <= Word
    BY <2>3, <2>5
  <2> QED BY <2>6, StackAssumption, WordType
<1> QED BY <1>1, ValuesAre

\* The state in front of the execution.
LEMMA Fetching ==
    ASSUME StackInv, Runs
    PROVE  /\ Fetched = Out(Fetched.r, mem, "none")
           /\ Fetched.r \in Registers /\ r \in Registers
           /\ Fetched.r.gp = r.gp /\ Fetched.r.fg = r.fg /\ Fetched.r.sb = r.sb
           /\ Fetched.r.sp = r.sp /\ Fetched.r.cb = r.cb /\ Fetched.r.cps = r.cps
           /\ r.cb # INT_STACKOVERFLOW /\ r.sb \in Values /\ r.sp \in Values
           /\ Stack(frames, mem, r.sb) /\ Standing(frames, r.sb, r.sp, r.cps)
<1>1. r \in Registers
  BY DEF StackInv
<1>2. r.sb \in Values /\ r.sp \in Values
  BY <1>1 DEF Registers
<1>3. Fetched = Out(Fetched.r, mem, "none")
  BY OutFacts DEF Fetched
<1> QED BY <1>1, <1>2, <1>3, FetchedFacts DEF StackInv, Runs

LEMMA Abandon ==
    ASSUME NEW p \in Registers, p.gp = r.gp, p.sb = r.sb, p.cps = r.cps,
           p.sp \in {r.sp, r.sp - 8, r.sp + 8}, r' = Jumped(p, INT_STACKOVERFLOW), frames' = frames,
           Stack(frames, mem', r.sb)
    PROVE  StepOk
<1>1. INT_STACKOVERFLOW \in Values
  BY Codes256 DEF INT_STACKOVERFLOW
<1>2. /\ r' \in Registers /\ r'.sp = p.sp /\ r'.gp = p.gp /\ r'.sb = p.sb
      /\ r'.cb = INT_STACKOVERFLOW /\ r'.cps = p.cps /\ r'.fg.im = 1
  BY <1>1, JumpedTyped
<1>3. StackInv'
  BY <1>2 DEF StackInv
<1>4. Abandoned
  BY <1>2 DEF Abandoned
<1> QED BY <1>3, <1>4 DEF StepOk

\* Something pushed.
LEMMA PushStep ==
    ASSUME StackInv, r.cb # INT_STACKOVERFLOW, NEW f \in Things, f.sp = r.sp, f.kind # "enter",
           Framed(f, r.sb), f.kind \in {"all", "int"} => f.v.cps = r.cps,
           r' \in Registers, r'.sb = r.sb, r'.sp = (r.sp - f.n) % Word, r'.cps = r.cps,
           Objects(mem'), Held(mem', r.sb, f), Above(mem, mem', r.sb, Linear(r.sb, r.sp)),
           frames' = Append(frames, f), event' # "overflow"
    PROVE  StepOk
<1> DEFINE b == r.sb
           s == r.sp
           c == r.cps
           F == frames
           G == frames'
           mm == mem'
<1>1. b \in Values /\ s \in Values /\ Stack(F, mem, b) /\ Standing(F, b, s, c)
  BY DEF StackInv, Registers
<1>2. F \in Seq(Things) /\ Len(F) \in Nat
  BY <1>1 DEF Stack
<1>3. Clear(F, b, Len(F), s)
  <2>1. Linear(b, s) <= MemSize /\ Linear(b, s) \in Nat /\ MemSize \in Nat
    BY <1>1, LinearType, StackAssumption DEF Framed
  <2>2. ~(Linear(b, s) > MemSize)
    BY <2>1
  <2> QED BY <1>1, <2>2 DEF Standing
<1>4. \A k \in 1 .. Len(F) : Held(mm, b, F[k])
  <2> TAKE k \in 1 .. Len(F)
  <2>1. F[k] \in Things
    BY <1>2
  <2>2. Framed(F[k], b) /\ Held(mem, b, F[k]) /\ (F[k].kind # "enter" => Linear(b, s) <= Floor(b, F[k]))
    BY <1>1, <1>3 DEF Stack, Clear
  <2> QED BY <2>1, <2>2 DEF Above
<1>5. /\ f.sp = s /\ Framed(f, b) /\ (f.kind \in {"all", "int"} => f.v.cps = c) /\ Objects(mm) /\ Held(mm, b, f)
      /\ G = Append(F, f) /\ r'.sp = (s - f.n) % Word
  OBVIOUS
<1>6. r'.sb = b /\ r'.cps = c
  OBVIOUS
<1> HIDE DEF b, s, c, F, G, mm
<1>7. Stack(Append(F, f), mm, b) /\ Standing(Append(F, f), b, (s - f.n) % Word, c)
  BY <1>1, <1>4, <1>5, Grown
<1>8. Stack(G, mm, r'.sb) /\ Standing(G, r'.sb, r'.sp, r'.cps)
  BY <1>5, <1>6, <1>7
<1>9. StackInv'
  BY <1>8 DEF StackInv, G, mm
<1>10. Len(G) = Len(F) + 1
  BY <1>2, <1>5
<1> QED BY <1>9, <1>10 DEF StepOk, G, F

\* Nothing on the stack changed.
LEMMA KeepStep ==
    ASSUME StackInv, r.cb # INT_STACKOVERFLOW, r' \in Registers, r'.sb = r.sb, r'.sp = r.sp, r'.cps = r.cps,
           Stack(frames, mem', r.sb), frames' = frames, event' # "overflow"
    PROVE  StepOk
BY DEF StackInv, StepOk

\* The last frame taken off.
LEMMA PopStep ==
    ASSUME StackInv, r.cb # INT_STACKOVERFLOW, frames # <<>>, r' \in Registers, r'.sb = r.sb,
           r'.sp = Last(frames).sp, UNCHANGED mem, frames' = Front(frames), event' # "overflow", GivesBack,
           Last(frames).kind \in {"push", "call"} => r'.cps = r.cps,
           Last(frames).kind \in {"all", "int"} => r'.cps = Last(frames).v.cps,
           Last(frames).kind = "enter" => r'.cps = 0
    PROVE  StepOk
<1> DEFINE b == r.sb
           s == r.sp
           c == r.cps
           d == r'.cps
           F == frames
           G == frames'
<1>1. b \in Values /\ Stack(F, mem, b) /\ Standing(F, b, s, c)
  BY DEF StackInv, Registers
<1>2. Len(F) # 0
  BY <1>1, EmptySeq DEF Stack
<1>3. Last(frames) = F[Len(F)]
  BY DEF Last
<1>4. G = Front(F) /\ r'.sb = b /\ r'.sp = F[Len(F)].sp
      /\ (F[Len(F)].kind \in {"push", "call"} => d = c)
      /\ (F[Len(F)].kind \in {"all", "int"} => d = F[Len(F)].v.cps)
      /\ (F[Len(F)].kind = "enter" => d = 0)
  BY <1>3
<1>5. d = r'.cps
  OBVIOUS
<1> HIDE DEF b, s, c, d, F, G
<1>6. Stack(Front(F), mem, b) /\ Standing(Front(F), b, F[Len(F)].sp, d)
  BY <1>1, <1>2, <1>4, Shrunk
<1>7. Stack(G, mem, r'.sb) /\ Standing(G, r'.sb, r'.sp, r'.cps)
  BY <1>4, <1>5, <1>6
<1>8. StackInv'
  BY <1>7 DEF StackInv, G
<1> QED BY <1>8 DEF StepOk

\* execute() and its catch clauses.
LEMMA FinishNone ==
    ASSUME NEW o, NEW kind, NEW held, Finish(o, kind, held), o.thrown = "none"
    PROVE  /\ r' = o.r /\ mem' = o.mem
           /\ o.r.cb # INT_STACKOVERFLOW => frames' = held /\ event' = kind
           /\ o.r.cb = INT_STACKOVERFLOW => frames' = frames /\ event' = "overflow"
<1>1. Executed(o) = o
  BY DEF Executed
<1> QED BY <1>1 DEF Finish

LEMMA FinishOverflow ==
    ASSUME NEW o, NEW kind, NEW held, Finish(o, kind, held), o.thrown = "StackOverflow", o.r \in Registers
    PROVE  r' = Jumped(o.r, INT_STACKOVERFLOW) /\ mem' = o.mem /\ frames' = frames /\ event' = "overflow"
<1> DEFINE e == Executed(o)
<1>1. e = Out(Jumped(o.r, INT_STACKOVERFLOW), o.mem, "none")
  BY DEF Executed, JumpTo, Jumped
<1>2. e.r = Jumped(o.r, INT_STACKOVERFLOW) /\ e.mem = o.mem
  BY <1>1, OutFacts
<1>3. INT_STACKOVERFLOW \in Values
  BY Codes256 DEF INT_STACKOVERFLOW
<1>4. e.r.cb = INT_STACKOVERFLOW
  BY <1>2, <1>3, JumpedTyped
<1>5. /\ r' = e.r /\ mem' = e.mem /\ event' = IF e.r.cb = INT_STACKOVERFLOW THEN "overflow" ELSE kind
      /\ frames' = CASE o.thrown = "none" /\ e.r.cb # INT_STACKOVERFLOW -> held
                     [] o.thrown # "none" /\ e.r.cb \in Faults -> Append(frames, Frame("int", ImageSize, o.r))
                     [] OTHER -> frames
  BY DEF Finish
<1> HIDE DEF e
<1>6. e.r.cb \notin Faults
  BY <1>4 DEF Faults, INT_STACKOVERFLOW, INT_DIV_0, INT_BAD_INTR, INT_ILLEGAL_MEMORY_ACCESS
<1>7. frames' = frames
  BY <1>4, <1>5, <1>6
<1> QED BY <1>2, <1>4, <1>5, <1>7

LEMMA DeliverFacts ==
    ASSUME NEW q \in Registers, NEW m, NEW code
    PROVE  /\ Fits(q, ImageSize) =>
                  Deliver(Out(q, m, "none"), code) =
                      Out(Jumped(Moved(q, q.sp - ImageSize), code),
                          Written(m, Linear(q.sb, q.sp) - ImageSize, ImageSize, q), "none")
           /\ ~Fits(q, ImageSize) =>
                  Deliver(Out(q, m, "none"), code) = Out(Jumped(q, INT_STACKOVERFLOW), m, "none")
<1> DEFINE o == Out(q, m, "none")
           p == Preserve(o)
           I == ImageSize
<1>1. o.r = q /\ o.mem = m
  BY OutFacts
<1>2. p = Push(o, I, q)
  BY <1>1 DEF Preserve
<1>3. I \in Nat \ {0}
  BY StackAssumption
<1>4. \A x, c : JumpTo(x, c) = Out(Jumped(x.r, c), x.mem, "none")
  BY DEF JumpTo, Jumped
<1>5. Deliver(o, code) = IF p.thrown = "none" THEN JumpTo(p, code) ELSE JumpTo(o, INT_STACKOVERFLOW)
  BY DEF Deliver
<1> HIDE DEF p, I
<1>6. CASE Fits(q, I)
  <2> DEFINE x == Moved(q, q.sp - I)
             w == Written(m, Linear(q.sb, q.sp) - I, I, q)
  <2>1. p = Out(x, w, "none")
    BY <1>2, <1>3, <1>6, PushFacts
  <2> HIDE DEF x, w
  <2>2. p.r = x /\ p.mem = w /\ p.thrown = "none"
    BY <2>1, OutFacts
  <2>3. Deliver(o, code) = Out(Jumped(x, code), w, "none")
    BY <1>4, <1>5, <2>2
  <2> QED BY <1>6, <2>3 DEF I, x, w
<1>7. CASE ~Fits(q, I)
  <2>1. p = Out(q, m, "StackOverflow")
    BY <1>2, <1>3, <1>7, PushFacts
  <2>2. p.thrown = "StackOverflow"
    BY <2>1, OutFacts
  <2>3. Deliver(o, code) = Out(Jumped(q, INT_STACKOVERFLOW), m, "none")
    BY <1>1, <1>4, <1>5, <2>2
  <2> QED BY <1>7, <2>3 DEF I
<1> QED BY <1>6, <1>7 DEF I

LEMMA FinishFault ==
    ASSUME NEW q \in Registers, NEW m, NEW t \in {"BadInterruption", "IllegalMemory"}, NEW kind, NEW held,
           Finish(Out(q, m, t), kind, held)
    PROVE  \E code \in {INT_BAD_INTR, INT_ILLEGAL_MEMORY_ACCESS} :
               LET d == Deliver(Out(q, m, "none"), code)
               IN  /\ r' = d.r /\ mem' = d.mem
                   /\ d.r.cb # INT_STACKOVERFLOW => event' = kind
                   /\ d.r.cb = INT_STACKOVERFLOW => event' = "overflow"
                   /\ d.r.cb \in Faults => frames' = Append(frames, Frame("int", ImageSize, q))
                   /\ d.r.cb \notin Faults => frames' = frames
<1> DEFINE o == Out(q, m, t)
           e == Executed(o)
<1>1. o.r = q /\ o.mem = m /\ o.thrown = t
  BY OutFacts
<1>2. \E code \in {INT_BAD_INTR, INT_ILLEGAL_MEMORY_ACCESS} : e = Deliver(Out(q, m, "none"), code)
  <2>1. CASE t = "BadInterruption"
    <3>1. e = Deliver(Out(q, m, "none"), INT_BAD_INTR)
      BY <1>1, <2>1 DEF Executed
    <3> QED BY <3>1
  <2>2. CASE t = "IllegalMemory"
    <3>1. e = Deliver(Out(q, m, "none"), INT_ILLEGAL_MEMORY_ACCESS)
      BY <1>1, <2>2 DEF Executed
    <3> QED BY <3>1
  <2> QED BY <2>1, <2>2
<1>3. /\ r' = e.r /\ mem' = e.mem /\ event' = IF e.r.cb = INT_STACKOVERFLOW THEN "overflow" ELSE kind
      /\ frames' = CASE o.thrown = "none" /\ e.r.cb # INT_STACKOVERFLOW -> held
                     [] o.thrown # "none" /\ e.r.cb \in Faults -> Append(frames, Frame("int", ImageSize, o.r))
                     [] OTHER -> frames
  BY DEF Finish
<1>4. o.thrown # "none"
  BY <1>1
<1> HIDE DEF o, e
<1>5. frames' = IF e.r.cb \in Faults THEN Append(frames, Frame("int", ImageSize, q)) ELSE frames
  BY <1>1, <1>3, <1>4
<1>6. PICK code \in {INT_BAD_INTR, INT_ILLEGAL_MEMORY_ACCESS} : e = Deliver(Out(q, m, "none"), code)
  BY <1>2
<1> WITNESS code \in {INT_BAD_INTR, INT_ILLEGAL_MEMORY_ACCESS}
<1> QED BY <1>3, <1>5, <1>6

\* An interruption that leaves an image, or finds no room for it.
LEMMA DeliverStep ==
    ASSUME StackInv, Runs, NEW code \in Values, code # INT_STACKOVERFLOW, NEW d,
           d = Deliver(Fetched, code), r' = d.r, mem' = d.mem,
           d.r.cb = code => frames' = Append(frames, Frame("int", ImageSize, Fetched.r)) /\ event' # "overflow",
           d.r.cb # code => frames' = frames
    PROVE  StepOk
<1> DEFINE q == Fetched.r
           I == ImageSize
           A == Linear(q.sb, q.sp)
           f == Frame("int", I, q)
           p == Moved(q, q.sp - I)
<1>1. /\ Fetched = Out(q, mem, "none") /\ q \in Registers /\ q.gp = r.gp /\ q.sb = r.sb
      /\ q.sp = r.sp /\ q.cb = r.cb /\ q.cps = r.cps /\ r.cb # INT_STACKOVERFLOW
      /\ r.sb \in Values /\ r.sp \in Values /\ Stack(frames, mem, r.sb)
  BY Fetching
<1>2. I \in Nat \ {0} /\ I # 8
  BY StackAssumption
<1> HIDE DEF q
<1>3. CASE Fits(q, I)
  <2>1. d = Out(Jumped(p, code), Written(mem, A - I, I, q), "none")
    BY <1>1, <1>3, DeliverFacts
  <2>2. r' = Jumped(p, code) /\ mem' = Written(mem, A - I, I, q)
    BY <2>1, OutFacts
  <2>3. q.sp - I \in Values /\ (q.sp - I) % Word = q.sp - I
    BY <1>1, <1>2, <1>3, PushFacts
  <2>4. p \in Registers /\ p.sp = q.sp - I /\ p.sb = q.sb /\ p.cps = q.cps
    BY <1>1, <2>3, MovedTyped
  <2> HIDE DEF p, I
  <2>5. r' \in Registers /\ r'.sp = q.sp - I /\ r'.sb = q.sb /\ r'.cps = q.cps /\ r'.cb = code
    BY <2>2, <2>4, JumpedTyped
  <2>6. frames' = Append(frames, f) /\ event' # "overflow"
    BY <2>5 DEF q, I
  <2>7. /\ f \in Things /\ f.kind = "int" /\ f.sp = r.sp /\ f.n = I /\ f.v = q
    <3>1. f = [kind |-> "int", sp |-> r.sp, n |-> I, v |-> q]
      BY DEF Frame
    <3> HIDE DEF f
    <3> QED BY <1>1, <1>2, <3>1 DEF Things, Kinds
  <2> HIDE DEF f
  <2>8. A \in Nat /\ I <= A /\ A <= MemSize /\ A = Linear(r.sb, r.sp) /\ Floor(r.sb, f) = A - I
    <3>1. A = Linear(r.sb, r.sp)
      BY <1>1
    <3>2. A \in Nat
      BY <1>1, <3>1, LinearType
    <3> QED BY <1>3, <2>7, <3>1, <3>2 DEF Fits, Floor
  <2> HIDE DEF A
  <2>9. Framed(f, r.sb)
    BY <1>1, <1>2, <2>7, <2>8 DEF Framed, I
  <2>10. A - I \in Nat /\ (A - I) + I <= MemSize /\ I \in Nat /\ 1 <= I
    BY <1>2, <2>8
  <2>11. Objects(mem)
    BY <1>1 DEF Stack
  <2>12. Objects(mem')
    <3> DEFINE a == A - I
    <3>1. a \in Nat /\ a + I <= MemSize
      BY <2>10
    <3> HIDE DEF a
    <3>2. Objects(Written(mem, a, I, q))
      BY <1>2, <2>11, <3>1, ObjectsWritten
    <3> QED BY <2>2, <3>2 DEF a
  <2>13. Placed(mem', A - I, I, q)
    BY <2>2, PlacedNew
  <2>14. Held(mem', r.sb, f)
    BY <2>7, <2>8, <2>13 DEF Held
  <2>15. Above(mem, mem', r.sb, Linear(r.sb, r.sp))
    BY <1>1, <2>2, <2>8, <2>10, AboveWritten
  <2>16. r'.sp = (r.sp - f.n) % Word
    BY <1>1, <2>3, <2>5, <2>7
  <2> QED BY <1>1, <2>5, <2>6, <2>7, <2>9, <2>12, <2>14, <2>15, <2>16, PushStep
<1>4. CASE ~Fits(q, I)
  <2>1. d = Out(Jumped(q, INT_STACKOVERFLOW), mem, "none")
    BY <1>1, <1>4, DeliverFacts
  <2>2. r' = Jumped(q, INT_STACKOVERFLOW) /\ mem' = mem /\ d.r = r'
    BY <2>1, OutFacts
  <2>3. INT_STACKOVERFLOW \in Values
    BY Codes256 DEF INT_STACKOVERFLOW
  <2>4. d.r.cb # code
    BY <1>1, <2>2, <2>3, JumpedTyped
  <2> QED BY <1>1, <2>2, <2>4, Abandon
<1> QED BY <1>3, <1>4

-----------------------------------------------------------------------------
\* push and pushall.
LEMMA PushOne ==
    ASSUME StackInv, Runs, NEW n \in Nat \ {0}, NEW v, NEW kind \in {"push", "all"}, NEW ev, ev # "overflow",
           Finish(Push(Fetched, n, v), ev, Append(frames, Frame(kind, n, v))), v \in Nat \cup Registers,
           n = 8 => v \in Values,
           kind = "push" => n \in {1, 8} /\ v \in Nat /\ v < Span(n),
           kind = "all" => n = AllSize /\ v \in Registers /\ v.sp = r.sp /\ v.sb = r.sb /\ v.cps = r.cps
    PROVE  StepOk
<1> DEFINE q == Fetched.r
           A == Linear(q.sb, q.sp)
           f == Frame(kind, n, v)
           p == Moved(q, q.sp - n)
           o == Push(Fetched, n, v)
           G == Append(frames, f)
<1>1. /\ Fetched = Out(q, mem, "none") /\ q \in Registers /\ q.gp = r.gp /\ q.sb = r.sb
      /\ q.sp = r.sp /\ q.cb = r.cb /\ q.cps = r.cps /\ r.cb # INT_STACKOVERFLOW
      /\ r.sb \in Values /\ r.sp \in Values /\ Stack(frames, mem, r.sb)
  BY Fetching
<1>2. Finish(o, ev, G)
  OBVIOUS
<1> HIDE DEF q, o, G
<1>3. CASE Fits(q, n)
  <2>1. o = Out(p, Written(mem, A - n, n, v), "none")
    BY <1>1, <1>3, PushFacts DEF o
  <2>3. q.sp - n \in Values /\ (q.sp - n) % Word = q.sp - n
    BY <1>1, <1>3, PushFacts
  <2>4. p \in Registers /\ p.sp = q.sp - n /\ p.sb = q.sb /\ p.cps = q.cps /\ p.cb = q.cb
    BY <1>1, <2>3, MovedTyped
  <2> HIDE DEF p
  <2>2. o.r = p /\ o.mem = Written(mem, A - n, n, v) /\ o.thrown = "none"
    BY <2>1, OutFacts
  <2>5. r' = p /\ mem' = Written(mem, A - n, n, v) /\ frames' = G /\ event' = ev
    BY <1>1, <1>2, <2>2, <2>4, FinishNone
  <2>7. /\ f \in Things /\ f.kind = kind /\ f.sp = r.sp /\ f.n = n /\ f.v = v
    <3>1. f = [kind |-> kind, sp |-> r.sp, n |-> n, v |-> v]
      BY DEF Frame
    <3> HIDE DEF f
    <3>2. kind \in Kinds
      BY DEF Kinds
    <3> QED BY <1>1, <3>1, <3>2 DEF Things
  <2>g. frames' = Append(frames, f)
    BY <2>5 DEF G
  <2> HIDE DEF f
  <2>8. A \in Nat /\ n <= A /\ A <= MemSize /\ A = Linear(r.sb, r.sp) /\ Floor(r.sb, f) = A - n
    <3>1. A = Linear(r.sb, r.sp)
      BY <1>1
    <3>2. A \in Nat
      BY <1>1, <3>1, LinearType
    <3> QED BY <1>3, <2>7, <3>1, <3>2 DEF Fits, Floor
  <2> HIDE DEF A
  <2>9. Framed(f, r.sb)
    BY <1>1, <2>7, <2>8 DEF Framed
  <2>11. Objects(mem)
    BY <1>1 DEF Stack
  <2>12. Objects(mem') /\ 1 <= n /\ n \in Nat
    <3> DEFINE a == A - n
    <3>1. a \in Nat /\ a + n <= MemSize
      BY <2>8
    <3> HIDE DEF a
    <3>2. Objects(Written(mem, a, n, v))
      BY <2>11, <3>1, ObjectsWritten
    <3> QED BY <2>5, <3>2 DEF a
  <2>13. Placed(mem', A - n, n, v)
    BY <2>5, PlacedNew
  <2>14. Held(mem', r.sb, f)
    BY <2>7, <2>8, <2>13 DEF Held
  <2>15. Above(mem, mem', r.sb, Linear(r.sb, r.sp))
    BY <1>1, <2>5, <2>8, <2>12, AboveWritten
  <2>16. r'.sp = (r.sp - f.n) % Word /\ r' \in Registers /\ r'.sb = r.sb /\ r'.cps = r.cps
    BY <1>1, <2>3, <2>4, <2>5, <2>7
  <2>17. f.kind # "enter" /\ (f.kind \in {"all", "int"} => f.v.cps = r.cps) /\ event' # "overflow"
    BY <2>5, <2>7
  <2> QED BY <1>1, <2>g, <2>7, <2>9, <2>12, <2>14, <2>15, <2>16, <2>17, PushStep
<1>4. CASE ~Fits(q, n)
  <2>1. o = Out(q, mem, "StackOverflow")
    BY <1>1, <1>4, PushFacts DEF o
  <2>2. o.r = q /\ o.mem = mem /\ o.thrown = "StackOverflow"
    BY <2>1, OutFacts
  <2>3. r' = Jumped(q, INT_STACKOVERFLOW) /\ mem' = mem /\ frames' = frames
    BY <1>1, <1>2, <2>2, FinishOverflow
  <2> QED BY <1>1, <2>3, Abandon
<1> QED BY <1>3, <1>4

LEMMA PushRegOk ==
    ASSUME StackInv, NEW w \in {1, 8}, PushReg(w)
    PROVE  StepOk
<1> DEFINE v == Load(r.gp, w, 0)
<1>1. Runs /\ Fetched.r.gp = r.gp
  BY FetchedFacts DEF PushReg, StackInv
<1>2. w \in Width /\ w \in Nat \ {0}
  BY DEF Width
<1>3. r.gp \in RegisterFile
  BY DEF StackInv, Registers, RegisterFile
<1>4. v \in Nat /\ v < Span(w)
  BY <1>2, <1>3, LoadRange
<1>5. w = 8 => v \in Values
  BY <1>4, ValuesAre DEF Word
<1>6. Finish(Push(Fetched, w, v), "push", Append(frames, Frame("push", w, v)))
  BY <1>1 DEF PushReg, DoPush
<1> HIDE DEF v
<1> DEFINE kind == "push"
           ev == "push"
<1>7. /\ kind \in {"push", "all"} /\ kind # "all" /\ ev # "overflow" /\ v \in Nat \cup Registers
      /\ Finish(Push(Fetched, w, v), ev, Append(frames, Frame(kind, w, v)))
  BY <1>4, <1>6
<1> HIDE DEF kind, ev
<1> QED BY <1>1, <1>2, <1>4, <1>5, <1>7, PushOne

LEMMA PushAllOk ==
    ASSUME StackInv, PushAll
    PROVE  StepOk
<1> DEFINE v == Fetched.r
           n == AllSize
           kind == "all"
           ev == "pushall"
<1>1. Runs
  BY DEF PushAll
<1>2. v \in Registers /\ v.sp = r.sp /\ v.sb = r.sb /\ v.cps = r.cps
  BY <1>1, Fetching
<1>3. n \in Nat \ {0} /\ n # 8 /\ n = AllSize /\ kind \in {"push", "all"} /\ kind # "push" /\ ev # "overflow"
  BY StackAssumption
<1>4. Finish(Push(Fetched, n, v), ev, Append(frames, Frame(kind, n, v)))
  BY DEF PushAll, DoPushAll
<1>5. v \in Nat \cup Registers
  BY <1>2
<1> HIDE DEF v, n, kind, ev
<1> QED BY <1>1, <1>2, <1>3, <1>4, <1>5, PushOne

\* A push that writes, and then fails.
LEMMA StackAbove ==
    ASSUME NEW F, NEW m, NEW mm, NEW b \in Values, NEW s \in Values, NEW c, Stack(F, m, b),
           Standing(F, b, s, c), Linear(b, s) <= MemSize, Objects(mm), Above(m, mm, b, Linear(b, s))
    PROVE  Stack(F, mm, b)
<1>1. Clear(F, b, Len(F), s)
  <2>1. Linear(b, s) \in Nat /\ MemSize \in Nat
    BY LinearType, StackAssumption
  <2>2. ~(Linear(b, s) > MemSize)
    BY <2>1
  <2> QED BY <2>2 DEF Standing
<1>2. \A k \in 1 .. Len(F) : Framed(F[k], b) /\ Held(mm, b, F[k])
  <2> TAKE k \in 1 .. Len(F)
  <2>1. F[k] \in Things
    BY DEF Stack
  <2>2. Framed(F[k], b) /\ Held(m, b, F[k]) /\ (F[k].kind # "enter" => Linear(b, s) <= Floor(b, F[k]))
    BY <1>1 DEF Stack, Clear
  <2> QED BY <2>1, <2>2 DEF Above
<1> QED BY <1>2 DEF Stack

\* A jump to a routine.
Sent(q, c, i) == [q EXCEPT !.cb = c, !.ip = i]

LEMMA SentTyped ==
    \A q \in Registers, c, i \in Values :
        /\ Sent(q, c, i) \in Registers /\ Sent(q, c, i).sp = q.sp /\ Sent(q, c, i).gp = q.gp
        /\ Sent(q, c, i).fg = q.fg /\ Sent(q, c, i).sb = q.sb /\ Sent(q, c, i).cb = c
        /\ Sent(q, c, i).ip = i /\ Sent(q, c, i).cps = q.cps
<1> TAKE q \in Registers, c, i \in Values
<1> DEFINE t == [q EXCEPT !.cb = c, !.ip = i]
<1>1. t \in Registers
  BY DEF Registers
<1>2. t.sp = q.sp /\ t.gp = q.gp /\ t.fg = q.fg /\ t.sb = q.sb /\ t.cb = c /\ t.ip = i /\ t.cps = q.cps
  BY DEF Registers
<1> QED BY <1>1, <1>2 DEF Sent

\* A word pushed.
LEMMA PushWord ==
    \A q \in Registers : \A m, v :
        /\ Fits(q, 8) =>
               /\ Push(Out(q, m, "none"), 8, v) =
                      Out(Moved(q, q.sp - 8), Written(m, Linear(q.sb, q.sp) - 8, 8, v), "none")
               /\ q.sp - 8 \in Values /\ (q.sp - 8) % Word = q.sp - 8
               /\ Linear(q.sb, q.sp - 8) = Linear(q.sb, q.sp) - 8
        /\ ~Fits(q, 8) => Push(Out(q, m, "none"), 8, v) = Out(q, m, "StackOverflow")
<1> TAKE q \in Registers
<1> TAKE m, v
<1> DEFINE n == 8
<1>1. n \in Nat \ {0}
  OBVIOUS
<1> HIDE DEF n
<1>2. /\ Fits(q, n) =>
             /\ Push(Out(q, m, "none"), n, v) =
                    Out(Moved(q, q.sp - n), Written(m, Linear(q.sb, q.sp) - n, n, v), "none")
             /\ q.sp - n \in Values /\ (q.sp - n) % Word = q.sp - n
             /\ Linear(q.sb, q.sp - n) = Linear(q.sb, q.sp) - n
      /\ ~Fits(q, n) => Push(Out(q, m, "none"), n, v) = Out(q, m, "StackOverflow")
  BY <1>1, PushFacts
<1> QED BY <1>2 DEF n

LEMMA CallOk ==
    ASSUME StackInv, Call
    PROVE  StepOk
<1> DEFINE q == Fetched.r
           A == Linear(q.sb, q.sp)
           f == Frame("call", 16, q)
           x == Moved(q, q.sp - 8)
           m == Written(mem, A - 8, 8, q.cb)
           p1 == Push(Fetched, 8, q.cb)
           p2 == Push(p1, 8, q.ip)
           o == DoCall(Fetched, 9, 0)
           G == Append(frames, f)
<1>0. Runs
  BY DEF Call
<1>1. /\ Fetched = Out(q, mem, "none") /\ q \in Registers /\ q.gp = r.gp /\ q.sb = r.sb
      /\ q.sp = r.sp /\ q.cb = r.cb /\ q.cps = r.cps /\ r.cb # INT_STACKOVERFLOW
      /\ r.sb \in Values /\ r.sp \in Values /\ Stack(frames, mem, r.sb)
      /\ Standing(frames, r.sb, r.sp, r.cps)
  BY <1>0, Fetching
<1>2. Finish(o, "call", G)
  BY DEF Call
<1>3. o = IF p2.thrown = "none" THEN Out([p2.r EXCEPT !.cb = 9, !.ip = 0], p2.mem, "none") ELSE p2
  BY DEF DoCall
<1>4. q.cb \in Values /\ q.ip \in Values
  BY <1>1 DEF Registers
<1>5. A \in Nat /\ A = Linear(r.sb, r.sp) /\ MemSize \in Nat /\ q.sp \in Nat
  BY <1>1, LinearType, StackAssumption, ValuesAre
<1>6. Objects(mem)
  BY <1>1 DEF Stack
<1>e. 8 \in Nat \ {0} /\ 8 \in Nat
  OBVIOUS
<1> HIDE DEF q, G, o, p2
<1>7. CASE ~Fits(q, 8)
  <2>1. p1 = Out(q, mem, "StackOverflow")
    BY <1>1, <1>7, <1>e, PushWord
  <2> HIDE DEF p1
  <2>2. p1.r = q /\ p1.mem = mem /\ p1.thrown = "StackOverflow"
    BY <2>1, OutFacts
  <2>3. p2 = p1
    BY <2>2 DEF Push, p2
  <2>4. o = p1
    BY <1>3, <2>2, <2>3
  <2>5. r' = Jumped(q, INT_STACKOVERFLOW) /\ mem' = mem /\ frames' = frames
    BY <1>1, <1>2, <2>2, <2>4, FinishOverflow
  <2> QED BY <1>1, <2>5, Abandon
<1>8. CASE Fits(q, 8)
  <2>1. /\ p1 = Out(x, m, "none") /\ q.sp - 8 \in Values /\ (q.sp - 8) % Word = q.sp - 8
        /\ Linear(q.sb, q.sp - 8) = A - 8
    BY <1>1, <1>8, PushWord
  <2>2. x \in Registers /\ x.sp = q.sp - 8 /\ x.gp = q.gp /\ x.sb = q.sb /\ x.cb = q.cb /\ x.cps = q.cps
    BY <1>1, <2>1, MovedTyped
  <2> HIDE DEF x, p1
  <2>3. 8 <= A /\ A <= MemSize /\ A - 8 \in Nat /\ (A - 8) + 8 <= MemSize
    BY <1>5, <1>8 DEF Fits
  <2>4. Objects(m)
    <3> DEFINE a == A - 8
               n == 8
               v == q.cb
    <3>1. a \in Nat /\ a + n <= MemSize /\ n \in Nat \ {0} /\ v \in Values
      BY <1>4, <2>3
    <3> HIDE DEF a, n, v
    <3>2. Objects(Written(mem, a, n, v))
      BY <1>6, <3>1, ObjectsWritten
    <3> QED BY <3>2 DEF a, n, v
  <2>5. Above(mem, m, r.sb, A)
    <3> DEFINE n == 8
               v == q.cb
               b == r.sb
    <3>1. n \in Nat /\ 1 <= n /\ n <= A /\ A \in Nat /\ b \in Values
      BY <1>1, <1>5, <2>3
    <3> HIDE DEF n, v, A, b
    <3>2. Above(mem, Written(mem, A - n, n, v), b, A)
      BY <3>1, AboveWritten
    <3> QED BY <3>2 DEF n, v, b
  <2>6. Stack(frames, m, r.sb)
    BY <1>1, <1>5, <2>3, <2>4, <2>5, StackAbove
  <2>n. Placed(m, A - 8, 8, q.cb)
    BY PlacedNew
  <2> HIDE DEF m
  <2>7. p1 = Out(x, m, "none")
    BY <2>1
  <2>8. CASE ~Fits(x, 8)
    <3>1. p2 = Out(x, m, "StackOverflow")
      BY <2>2, <2>7, <2>8, <1>e, PushWord DEF p2
    <3>2. p2.r = x /\ p2.mem = m /\ p2.thrown = "StackOverflow"
      BY <3>1, OutFacts
    <3>3. o = p2
      BY <1>3, <3>2
    <3>4. r' = Jumped(x, INT_STACKOVERFLOW) /\ mem' = m /\ frames' = frames
      BY <1>2, <2>2, <3>2, <3>3, FinishOverflow
    <3>5. x.gp = r.gp /\ x.sb = r.sb /\ x.cps = r.cps /\ x.sp \in {r.sp, r.sp - 8, r.sp + 8}
      BY <1>1, <2>2
    <3> QED BY <2>2, <2>6, <3>4, <3>5, Abandon
  <2>9. CASE Fits(x, 8)
    <3> DEFINE y == Moved(x, x.sp - 8)
               w == Written(m, (A - 8) - 8, 8, q.ip)
               z == Sent(y, 9, 0)
    <3>1. /\ p2 = Out(y, w, "none") /\ x.sp - 8 \in Values /\ Linear(x.sb, x.sp) = A - 8
      <4>1. Linear(x.sb, x.sp) = A - 8
        BY <2>1, <2>2
      <4> HIDE DEF A
      <4> QED BY <2>2, <2>7, <2>9, <1>e, <4>1, PushWord DEF p2
    <3>2. y \in Registers /\ y.sp = x.sp - 8 /\ y.sb = x.sb /\ y.cps = x.cps
      BY <2>2, <3>1, MovedTyped
    <3> HIDE DEF y
    <3>3. p2.r = y /\ p2.mem = w /\ p2.thrown = "none"
      BY <3>1, OutFacts
    <3>4. o = Out(z, w, "none")
      BY <1>3, <3>3 DEF Sent
    <3>5. 9 \in Values /\ 0 \in Values /\ INT_STACKOVERFLOW # 9
      BY Codes256 DEF INT_STACKOVERFLOW
    <3>6. z \in Registers /\ z.sp = y.sp /\ z.sb = y.sb /\ z.cps = y.cps /\ z.cb = 9
      BY <3>2, <3>5, SentTyped
    <3> HIDE DEF z
    <3>7. o.r = z /\ o.mem = w /\ o.thrown = "none"
      BY <3>4, OutFacts
    <3>8. r' = z /\ mem' = w /\ frames' = G /\ event' = "call"
      BY <1>2, <3>5, <3>6, <3>7, FinishNone
    <3>9. /\ f \in Things /\ f.kind = "call" /\ f.sp = r.sp /\ f.n = 16 /\ f.v = q
      <4>1. f = [kind |-> "call", sp |-> r.sp, n |-> 16, v |-> q]
        BY DEF Frame
      <4> HIDE DEF f
      <4>2. "call" \in Kinds /\ 16 \in Nat
        BY DEF Kinds
      <4> QED BY <1>1, <4>1, <4>2 DEF Things
    <3>10. frames' = Append(frames, f)
      BY <3>8 DEF G
    <3> HIDE DEF f
    <3>11. 16 <= A /\ Floor(r.sb, f) = A - 16 /\ (A - 8) - 8 = A - 16 /\ (A - 16) + 8 = A - 8
      <4>1. 8 <= A - 8
        BY <2>9, <3>1 DEF Fits
      <4>2. Floor(r.sb, f) = A - 16
        BY <1>5, <3>9 DEF Floor
      <4> HIDE DEF A
      <4> QED BY <1>5, <4>1, <4>2
    <3> HIDE DEF A
    <3>12. Framed(f, r.sb)
      BY <1>1, <1>5, <2>3, <3>9, <3>11 DEF Framed
    <3>13. Objects(w)
      <4> DEFINE a == (A - 8) - 8
                 n == 8
                 v == q.ip
      <4>1. a \in Nat /\ a + n <= MemSize /\ n \in Nat \ {0} /\ v \in Values
        BY <1>4, <1>5, <2>3, <3>11
      <4> HIDE DEF a, n, v
      <4>2. Objects(Written(m, a, n, v))
        BY <2>4, <4>1, ObjectsWritten
      <4> QED BY <4>2 DEF a, n, v
    <3>14. Placed(w, A - 16, 8, q.ip)
      BY <3>11, PlacedNew
    <3>15. Placed(w, A - 8, 8, q.cb)
      <4> DEFINE a == (A - 8) - 8
                 n == 8
                 v == q.ip
                 k == A - 8
                 u == q.cb
      <4>1. a \in Nat /\ n \in Nat /\ 1 <= n /\ k \in Int /\ Disjoint(a, n, k, n) /\ Placed(m, k, n, u)
        BY <1>5, <2>3, <2>n, <3>11 DEF Disjoint
      <4> HIDE DEF a, n, v, k, u
      <4>2. Placed(Written(m, a, n, v), k, n, u)
        BY <4>1, PlacedWritten
      <4> QED BY <4>2 DEF a, n, v, k, u
    <3>16. Held(w, r.sb, f)
      BY <3>9, <3>11, <3>14, <3>15 DEF Held
    <3>17. Above(mem, w, r.sb, A)
      <4> DEFINE B == A - 8
      <4>1. B \in Nat /\ 8 <= B /\ B <= A
        BY <1>5, <2>3, <3>11
      <4> HIDE DEF B
      <4>2. Above(m, Written(m, B - 8, 8, q.ip), r.sb, B)
        BY <1>1, <4>1, AboveWritten
      <4>3. Above(m, w, r.sb, B)
        BY <4>2 DEF B
      <4> HIDE DEF w
      <4> QED BY <1>1, <1>5, <2>5, <4>1, <4>3, AboveTwice
    <3> HIDE DEF w
    <3>18. r' \in Registers /\ r'.sb = r.sb /\ r'.cps = r.cps
      BY <1>1, <2>2, <3>2, <3>6, <3>8
    <3>19. r'.sp = (r.sp - f.n) % Word
      <4>1. r'.sp = (r.sp - 8) - 8 /\ r'.sp \in Values
        BY <1>1, <2>2, <3>1, <3>2, <3>6, <3>8
      <4>2. r.sp \in Nat
        BY <1>1, ValuesAre
      <4>3. (r.sp - 8) - 8 = r.sp - 16
        BY <4>2
      <4>4. r'.sp = r.sp - 16 /\ r'.sp \in Nat /\ r'.sp < Word
        BY <4>1, <4>3, ValuesAre
      <4>5. r'.sp % Word = r'.sp
        <5> DEFINE t == r'.sp
        <5>1. t \in Int /\ 0 <= t /\ t < Word
          BY <4>4
        <5> HIDE DEF t
        <5>2. t % Word = t
          BY <5>1, Wraps, WordType
        <5> QED BY <5>2 DEF t
      <4> QED BY <3>9, <4>4, <4>5
    <3>20. f.kind # "enter" /\ (f.kind \in {"all", "int"} => f.v.cps = r.cps) /\ event' # "overflow"
      BY <3>8, <3>9
    <3>21. Objects(mem') /\ Held(mem', r.sb, f) /\ Above(mem, mem', r.sb, Linear(r.sb, r.sp))
      BY <1>5, <3>8, <3>13, <3>16, <3>17
    <3> QED BY <1>1, <3>9, <3>10, <3>12, <3>18, <3>19, <3>20, <3>21, PushStep
  <2> QED BY <2>8, <2>9
<1> QED BY <1>7, <1>8

\* What a delivery leads to.
LEMMA DeliverTo ==
    ASSUME StackInv, Runs, NEW code \in Values, NEW d, d = Deliver(Fetched, code)
    PROVE  d.thrown = "none" /\ (d.r.cb = INT_STACKOVERFLOW \/ (d.r.cb = code /\ d.r.sp # r.sp))
<1> DEFINE q == Fetched.r
           n == ImageSize
<1>1. Fetched = Out(q, mem, "none") /\ q \in Registers /\ q.sp = r.sp /\ r.sp \in Values
  BY Fetching
<1>2. n \in Nat \ {0} /\ r.sp \in Nat /\ 7 \in Values
  BY <1>1, StackAssumption, ValuesAre, Codes256
<1> HIDE DEF q
<1>3. CASE Fits(q, n)
  <2> DEFINE x == Moved(q, q.sp - n)
             w == Written(mem, Linear(q.sb, q.sp) - n, n, q)
  <2>1. d = Out(Jumped(x, code), w, "none")
    BY <1>1, <1>3, DeliverFacts
  <2> HIDE DEF w
  <2>2. q.sp - n \in Values
    BY <1>1, <1>2, <1>3, PushFacts
  <2>3. x \in Registers /\ x.sp = q.sp - n
    BY <1>1, <2>2, MovedTyped
  <2> HIDE DEF x
  <2>4. Jumped(x, code).cb = code /\ Jumped(x, code).sp = q.sp - n
    BY <2>3, JumpedTyped
  <2>5. q.sp - n # r.sp
    BY <1>1, <1>2
  <2>6. d.thrown = "none" /\ d.r = Jumped(x, code)
    BY <2>1, OutFacts
  <2> QED BY <2>4, <2>5, <2>6
<1>4. CASE ~Fits(q, n)
  <2>1. d = Out(Jumped(q, INT_STACKOVERFLOW), mem, "none")
    BY <1>1, <1>4, DeliverFacts
  <2>2. Jumped(q, INT_STACKOVERFLOW).cb = INT_STACKOVERFLOW
    BY <1>1, <1>2, JumpedTyped DEF INT_STACKOVERFLOW
  <2> QED BY <2>1, <2>2, OutFacts
<1> QED BY <1>3, <1>4

LEMMA Delivered ==
    ASSUME StackInv, Runs, NEW code \in Values, code # INT_STACKOVERFLOW, NEW kind, kind # "overflow",
           NEW held, Finish(Deliver(Fetched, code), kind, held),
           Deliver(Fetched, code).r.sp # r.sp => held = Append(frames, Frame("int", ImageSize, Fetched.r))
    PROVE  StepOk
<1> DEFINE d == Deliver(Fetched, code)
           G == Append(frames, Frame("int", ImageSize, Fetched.r))
<1>1. d = Deliver(Fetched, code) /\ Finish(d, kind, held) /\ (d.r.sp # r.sp => held = G)
  OBVIOUS
<1> HIDE DEF d, G
<1>2. d.thrown = "none" /\ (d.r.cb = INT_STACKOVERFLOW \/ (d.r.cb = code /\ d.r.sp # r.sp))
  BY <1>1, DeliverTo
<1>3. /\ r' = d.r /\ mem' = d.mem
      /\ d.r.cb # INT_STACKOVERFLOW => frames' = held /\ event' = kind
      /\ d.r.cb = INT_STACKOVERFLOW => frames' = frames /\ event' = "overflow"
  BY <1>1, <1>2, FinishNone
<1>4. d.r.cb = code => frames' = G /\ event' # "overflow"
  BY <1>1, <1>2, <1>3
<1>5. d.r.cb # code => frames' = frames
  BY <1>2, <1>3
<1>6. d.r.cb = code => frames' = Append(frames, Frame("int", ImageSize, Fetched.r)) /\ event' # "overflow"
  BY <1>4 DEF G
<1> QED BY <1>1, <1>3, <1>5, <1>6, DeliverStep

LEMMA Faulted ==
    ASSUME StackInv, Runs, NEW t \in {"BadInterruption", "IllegalMemory"}, NEW kind, kind # "overflow",
           NEW held, Finish(Out(Fetched.r, mem, t), kind, held)
    PROVE  StepOk
<1> DEFINE q == Fetched.r
<1>1. Fetched = Out(q, mem, "none") /\ q \in Registers
  BY Fetching
<1> HIDE DEF q
<1>2. Finish(Out(q, mem, t), kind, held)
  BY DEF q
<1>3. PICK code \in {INT_BAD_INTR, INT_ILLEGAL_MEMORY_ACCESS} :
           LET d == Deliver(Out(q, mem, "none"), code)
           IN  /\ r' = d.r /\ mem' = d.mem
               /\ d.r.cb # INT_STACKOVERFLOW => event' = kind
               /\ d.r.cb = INT_STACKOVERFLOW => event' = "overflow"
               /\ d.r.cb \in Faults => frames' = Append(frames, Frame("int", ImageSize, q))
               /\ d.r.cb \notin Faults => frames' = frames
  BY <1>1, <1>2, FinishFault
<1> DEFINE d == Deliver(Fetched, code)
           G == Append(frames, Frame("int", ImageSize, q))
<1>4. /\ r' = d.r /\ mem' = d.mem
      /\ d.r.cb # INT_STACKOVERFLOW => event' = kind
      /\ d.r.cb \in Faults => frames' = G
      /\ d.r.cb \notin Faults => frames' = frames
  BY <1>1, <1>3
<1>5. code \in Values /\ code # INT_STACKOVERFLOW /\ code \in Faults /\ INT_STACKOVERFLOW \notin Faults
  BY Codes256 DEF INT_BAD_INTR, INT_ILLEGAL_MEMORY_ACCESS, INT_STACKOVERFLOW, Faults, INT_DIV_0
<1>6. d = Deliver(Fetched, code)
  OBVIOUS
<1> HIDE DEF d, G
<1>7. d.r.cb = INT_STACKOVERFLOW \/ d.r.cb = code
  BY <1>5, <1>6, DeliverTo
<1>8. (d.r.cb = code => frames' = G /\ event' # "overflow") /\ (d.r.cb # code => frames' = frames)
  BY <1>4, <1>5, <1>7
<1>9. d.r.cb = code => frames' = Append(frames, Frame("int", ImageSize, Fetched.r)) /\ event' # "overflow"
  BY <1>8 DEF G, q
<1>10. d.r.cb # code => frames' = frames
  BY <1>8
<1> QED BY <1>4, <1>5, <1>6, <1>9, <1>10, DeliverStep

LEMMA DivideOk ==
    ASSUME StackInv, DivideByZero
    PROVE  StepOk
<1> DEFINE code == INT_DIV_0
           kind == "int"
           G == Append(frames, Frame("int", ImageSize, Fetched.r))
<1>1. Runs /\ Finish(Deliver(Fetched, code), kind, G) /\ kind # "overflow"
  BY DEF DivideByZero
<1>2. code \in Values /\ code # INT_STACKOVERFLOW
  BY Codes256 DEF INT_DIV_0, INT_STACKOVERFLOW
<1>3. Deliver(Fetched, code).r.sp # r.sp => G = Append(frames, Frame("int", ImageSize, Fetched.r))
  OBVIOUS
<1> HIDE DEF code, kind, G
<1> QED BY <1>1, <1>2, <1>3, Delivered

LEMMA InterruptOk ==
    ASSUME StackInv, NEW code \in Codes, Interrupt(code)
    PROVE  StepOk
<1> DEFINE o == DoInterruption(Fetched, code)
           q == Fetched.r
           kind == "int"
           held == IF o.r.sp # r.sp THEN Append(frames, Frame("int", ImageSize, Fetched.r)) ELSE frames
<1>1. Runs /\ Finish(o, kind, held) /\ kind # "overflow"
  BY DEF Interrupt
<1>2. /\ Fetched = Out(q, mem, "none") /\ q \in Registers /\ q.gp = r.gp /\ q.sb = r.sb
      /\ q.sp = r.sp /\ q.cb = r.cb /\ q.cps = r.cps /\ r.cb # INT_STACKOVERFLOW
      /\ Stack(frames, mem, r.sb) /\ q.fg \in Flags
  BY <1>1, Fetching DEF Registers
<1>3. code \in Nat /\ INT_STACKOVERFLOW \in Values
  BY MachineAssumption, Codes256 DEF INT_STACKOVERFLOW
<1>4. q.fg.im \in {0, 1}
  BY <1>2 DEF Flags
<1>5. Fetched.r = q /\ Fetched.mem = mem
  BY <1>2, OutFacts
<1>6. o = CASE code > 256 -> Out(q, mem, "BadInterruption")
            [] code = 7 -> JumpTo(Fetched, code)
            [] code \in 32 .. 256 /\ q.fg.im = 1 -> Fetched
            [] code = 256 /\ q.fg.im = 0 -> Out(q, mem, "BadInterruption")
            [] OTHER -> Deliver(Fetched, code)
  BY <1>5 DEF DoInterruption, MAX_INTERRUPTION_ENTRY, INT_STACKOVERFLOW
<1>7. Deliver(Fetched, code).r.sp # r.sp /\ o = Deliver(Fetched, code) => held = Append(frames, Frame("int", ImageSize, Fetched.r))
  OBVIOUS
<1>8. o.r.sp = r.sp => held = frames
  OBVIOUS
<1> HIDE DEF q, o, held, kind
<1>9. CASE o = Out(q, mem, "BadInterruption")
  <2> DEFINE t == "BadInterruption"
  <2>1. t \in {"BadInterruption", "IllegalMemory"} /\ Finish(Out(Fetched.r, mem, t), kind, held)
    BY <1>1, <1>9, <1>5
  <2> HIDE DEF t
  <2> QED BY <1>1, <2>1, Faulted
<1>10. CASE code = 7 /\ o = JumpTo(Fetched, code)
  <2>1. o = Out(Jumped(q, INT_STACKOVERFLOW), mem, "none")
    BY <1>10, <1>5 DEF JumpTo, Jumped, INT_STACKOVERFLOW
  <2>2. o.r = Jumped(q, INT_STACKOVERFLOW) /\ o.mem = mem /\ o.thrown = "none"
    BY <2>1, OutFacts
  <2>3. o.r.cb = INT_STACKOVERFLOW
    BY <1>2, <1>3, <2>2, JumpedTyped
  <2>4. r' = Jumped(q, INT_STACKOVERFLOW) /\ mem' = mem /\ frames' = frames
    BY <1>1, <2>2, <2>3, FinishNone
  <2> QED BY <1>2, <2>4, Abandon
<1>11. CASE o = Fetched
  <2>1. o.r = q /\ o.mem = mem /\ o.thrown = "none"
    BY <1>2, <1>11, OutFacts
  <2>2. held = frames
    BY <1>2, <1>8, <2>1
  <2>3. r' = q /\ mem' = mem /\ frames' = frames /\ event' = kind
    BY <1>1, <1>2, <2>1, <2>2, FinishNone
  <2> QED BY <1>1, <1>2, <2>3, KeepStep
<1>12. CASE o = Deliver(Fetched, code) /\ code # 7 /\ ~(code > 256) /\ code # 256
  <2>1. code \in Values /\ code # INT_STACKOVERFLOW
    BY <1>3, <1>12, Codes256 DEF INT_STACKOVERFLOW
  <2>2. Finish(Deliver(Fetched, code), kind, held)
    BY <1>1, <1>12
  <2> QED BY <1>1, <1>7, <1>12, <2>1, <2>2, Delivered
<1>13. \/ o = Out(q, mem, "BadInterruption") \/ (code = 7 /\ o = JumpTo(Fetched, code)) \/ o = Fetched
       \/ (o = Deliver(Fetched, code) /\ code # 7 /\ ~(code > 256) /\ code # 256)
  <2>1. CASE code > 256
    <3>1. ~(code = 7)
      BY <1>3, <2>1
    <3> QED BY <1>6, <2>1, <3>1, <1>3
  <2>2. CASE code = 7
    BY <1>6, <2>2
  <2>3. CASE code = 256
    <3>1. code \in 32 .. 256 /\ code # 7 /\ ~(code > 256)
      BY <2>3
    <3> QED BY <1>4, <1>6, <2>3, <3>1
  <2>4. CASE ~(code > 256) /\ code # 7 /\ code # 256
    BY <1>6, <2>4
  <2> QED BY <2>1, <2>2, <2>3, <2>4
<1> QED BY <1>9, <1>10, <1>11, <1>12, <1>13

\* The last frame, and where SP stands.
LEMMA TopFrame ==
    ASSUME StackInv, Runs, frames # <<>>, NEW f, f = Last(frames)
    PROVE  /\ f \in Things /\ Framed(f, r.sb) /\ Held(mem, r.sb, f) /\ f.n \in Nat /\ f.sp \in Values
           /\ f.kind = "enter" => r.cps = f.n
           /\ (r.sp + f.n) % Word = f.sp
           /\ f.kind # "enter" => /\ Linear(r.sb, r.sp) = Floor(r.sb, f) /\ Linear(r.sb, r.sp) + f.n <= MemSize
                                  /\ Linear(r.sb, r.sp) + f.n = Linear(r.sb, f.sp)
<1> DEFINE N == Len(frames)
           b == r.sb
<1>1. /\ b \in Values /\ r.sp \in Values /\ Stack(frames, mem, b) /\ Standing(frames, b, r.sp, r.cps)
  BY Fetching
<1>2. frames \in Seq(Things)
  BY <1>1 DEF Stack
<1>3. N \in Nat /\ N # 0 /\ N \in 1 .. N
  BY <1>2
<1>4. f = frames[N]
  BY <1>2, <1>3, FrontFacts
<1>5. f \in Things /\ Framed(f, b) /\ Held(mem, b, f)
  BY <1>1, <1>2, <1>3, <1>4 DEF Stack
<1>6. f.n \in Nat /\ f.sp \in Values
  BY <1>5 DEF Things
<1>7. r.sp = (f.sp - f.n) % Word
  BY <1>1, <1>3, <1>4 DEF Standing, Linked
<1>8. f.kind = "enter" => r.cps = f.n
  <2>1. f.kind = "enter" => InForce(frames, N, N)
    BY <1>3, <1>4 DEF InForce
  <2> QED BY <1>1, <1>3, <1>4, <2>1 DEF Standing, Reserves
<1> HIDE DEF N, b
<1>9. (r.sp + f.n) % Word = f.sp
  BY <1>1, <1>6, <1>7, LinearDown
<1>10. ASSUME f.kind # "enter"
       PROVE  Linear(b, r.sp) = Floor(b, f) /\ Linear(b, r.sp) + f.n <= MemSize /\ Linear(b, r.sp) + f.n = Linear(b, f.sp)
  <2> DEFINE A == Linear(b, f.sp)
             n == f.n
  <2>1. A \in Nat /\ MemSize \in Nat /\ A <= MemSize /\ n <= A /\ n \in Nat
    BY <1>1, <1>5, <1>6, <1>10, LinearType, StackAssumption DEF Framed
  <2>2. Linear(b, r.sp) = (A - n) % Word /\ (A - n) % Word = A - n
    <3> DEFINE p == f.sp
    <3>1. p \in Values /\ b \in Values /\ n \in Nat /\ n <= Linear(b, p) /\ A = Linear(b, p) /\ r.sp = (p - n) % Word
      BY <1>1, <1>6, <1>7, <2>1
    <3> HIDE DEF p, n, A
    <3>2. Linear(b, (p - n) % Word) = (Linear(b, p) - n) % Word /\ (Linear(b, p) - n) % Word = Linear(b, p) - n
      BY <3>1, LinearDown
    <3> QED BY <3>1, <3>2
  <2>3. Floor(b, f) = A - n
    BY DEF Floor
  <2> HIDE DEF A, n
  <2>4. Linear(b, r.sp) = Floor(b, f) /\ Linear(b, r.sp) + n <= MemSize /\ Linear(b, r.sp) + n = A
    BY <2>1, <2>2, <2>3
  <2> QED BY <2>4 DEF A, n
<1> QED BY <1>5, <1>6, <1>8, <1>9, <1>10 DEF b

\* SP and CPS of enter and leave.
Reserved(q, c, s) == [q EXCEPT !.cps = c, !.sp = s]

LEMMA ReservedTyped ==
    \A q \in Registers, c, s \in Values :
        /\ Reserved(q, c, s) \in Registers /\ Reserved(q, c, s).sp = s /\ Reserved(q, c, s).cps = c
        /\ Reserved(q, c, s).sb = q.sb /\ Reserved(q, c, s).cb = q.cb
<1> TAKE q \in Registers, c, s \in Values
<1> DEFINE t == [q EXCEPT !.cps = c, !.sp = s]
<1>1. t \in Registers
  BY DEF Registers
<1>2. t.sp = s /\ t.cps = c /\ t.sb = q.sb /\ t.cb = q.cb
  BY DEF Registers
<1> QED BY <1>1, <1>2 DEF Reserved

LEMMA EnterOk ==
    ASSUME StackInv, NEW x \in Spaces, EnterSpace(x)
    PROVE  StepOk
<1> DEFINE q == Fetched.r
           f == Frame("enter", x, 0)
           s == (r.sp - x) % Word
           t == Reserved(q, x, s)
           kind == "enter"
           G == Append(frames, f)
<1>0. Runs /\ Finish(DoEnter(Fetched, x), kind, G)
  BY DEF EnterSpace
<1>1. /\ Fetched = Out(q, mem, "none") /\ q \in Registers /\ q.sb = r.sb /\ q.sp = r.sp /\ q.cb = r.cb
      /\ r.cb # INT_STACKOVERFLOW /\ r.sb \in Values /\ r.sp \in Values
      /\ Stack(frames, mem, r.sb) /\ Standing(frames, r.sb, r.sp, r.cps)
  BY <1>0, Fetching
<1>2. x \in Nat /\ x \in Values
  <2>1. x \in 0 .. (Word - MemSize - 1) /\ Word \in Nat /\ MemSize \in Nat
    BY MachineAssumption, StackAssumption, WordType
  <2> QED BY <2>1, ValuesAre
<1>3. s \in Values
  BY <1>1, <1>2, LinearDown
<1>4. Fetched.r = q /\ Fetched.mem = mem
  BY <1>1, OutFacts
<1>5. DoEnter(Fetched, x) = Out(t, mem, "none")
  BY <1>1, <1>4 DEF DoEnter, Reserved
<1> HIDE DEF q, s
<1>6. t \in Registers /\ t.sp = s /\ t.cps = x /\ t.sb = r.sb /\ t.cb = r.cb
  BY <1>1, <1>2, <1>3, ReservedTyped
<1> HIDE DEF t, G, kind
<1>7. Finish(Out(t, mem, "none"), kind, G)
  BY <1>0, <1>5
<1> DEFINE o == Out(t, mem, "none")
<1>8. Finish(o, kind, G) /\ o.r = t /\ o.mem = mem /\ o.thrown = "none"
  BY <1>7, OutFacts
<1> HIDE DEF o
<1>9. r' = t /\ mem' = mem /\ frames' = G /\ event' = kind
  BY <1>1, <1>6, <1>8, FinishNone
<1>10. f \in Things /\ f.sp = r.sp /\ f.kind = "enter" /\ f.n = x
  <2>1. f = [kind |-> "enter", sp |-> r.sp, n |-> x, v |-> 0]
    BY DEF Frame
  <2>2. "enter" \in Kinds /\ 0 \in Nat \cup Registers
    BY DEF Kinds
  <2> HIDE DEF f
  <2> QED BY <1>1, <1>2, <2>1, <2>2 DEF Things
<1> HIDE DEF f
<1>11. frames \in Seq(Things)
  BY <1>1 DEF Stack
<1>12. r.cps = 0 \/ (Len(frames) # 0 /\ frames[Len(frames)].kind \in {"all", "int"})
  <2>1. r.cps = 0 \/ (frames # <<>> /\ Last(frames).kind \in {"all", "int"})
    BY DEF EnterSpace, Holds
  <2>2. frames # <<>> => Len(frames) # 0
    BY <1>11
  <2>3. Len(frames) # 0 => Last(frames) = frames[Len(frames)]
    BY <1>11, FrontFacts
  <2> QED BY <2>1, <2>2, <2>3
<1>13. f.n \in Spaces
  BY <1>10
<1>14. Stack(Append(frames, f), mem, r.sb) /\ Standing(Append(frames, f), r.sb, (r.sp - f.n) % Word, f.n)
  <2> DEFINE c == r.cps
             b == r.sb
             p == r.sp
  <2>1. /\ b \in Values /\ p \in Values /\ Stack(frames, mem, b) /\ Standing(frames, b, p, c) /\ f.sp = p
        /\ c = 0 \/ (Len(frames) # 0 /\ frames[Len(frames)].kind \in {"all", "int"})
    BY <1>1, <1>10, <1>12
  <2> HIDE DEF c, b, p
  <2>2. Stack(Append(frames, f), mem, b) /\ Standing(Append(frames, f), b, (p - f.n) % Word, f.n)
    BY <1>10, <1>13, <2>1, Entered
  <2> QED BY <2>2 DEF b, p
<1>15. Stack(G, mem, r.sb) /\ Standing(G, r.sb, s, x) /\ Len(G) = Len(frames) + 1
  BY <1>10, <1>11, <1>14 DEF G, s
<1>16. StackInv'
  BY <1>6, <1>9, <1>15 DEF StackInv
<1> QED BY <1>9, <1>15, <1>16 DEF StepOk, kind

LEMMA LeaveOk ==
    ASSUME StackInv, LeaveSpace
    PROVE  StepOk
<1> DEFINE q == Fetched.r
           f == Last(frames)
           z == 0
           t == Reserved(q, z, (r.sp + r.cps) % Word)
           kind == "leave"
           G == Front(frames)
<1>0. Runs /\ Finish(DoLeave(Fetched), kind, G) /\ frames # <<>> /\ f.kind = "enter"
  BY DEF LeaveSpace, Holds
<1>1. /\ Fetched = Out(q, mem, "none") /\ q \in Registers /\ q.sb = r.sb /\ q.sp = r.sp /\ q.cb = r.cb
      /\ r.cb # INT_STACKOVERFLOW /\ q.cps = r.cps
  BY <1>0, Fetching
<1>2. f = Last(frames)
  OBVIOUS
<1> HIDE DEF f
<1>3. r.cps = f.n /\ (r.sp + f.n) % Word = f.sp /\ f.sp \in Values
  BY <1>0, <1>2, TopFrame
<1>4. Fetched.r = q /\ Fetched.mem = mem /\ z \in Values
  BY <1>1, OutFacts, Codes256
<1>5. DoLeave(Fetched) = Out([q EXCEPT !.sp = (@ + q.cps) % Word, !.cps = 0], mem, "none")
  BY <1>1, <1>4 DEF DoLeave
<1> HIDE DEF q
<1>6. [q EXCEPT !.sp = (@ + q.cps) % Word, !.cps = 0] = t
  <2>1. [q EXCEPT !.sp = (q.sp + q.cps) % Word, !.cps = 0] = [q EXCEPT !.cps = 0, !.sp = (q.sp + q.cps) % Word]
    <3> DEFINE s == (q.sp + q.cps) % Word
    <3> HIDE DEF s
    <3>1. [q EXCEPT !.sp = s, !.cps = 0] = [q EXCEPT !.cps = 0, !.sp = s]
      BY <1>1 DEF Registers
    <3> QED BY <3>1 DEF s
  <2> QED BY <1>1, <2>1 DEF Reserved
<1>7. t \in Registers /\ t.sp = f.sp /\ t.cps = 0 /\ t.sb = r.sb /\ t.cb = r.cb
  <2>1. t = Reserved(q, z, f.sp)
    BY <1>3
  <2> HIDE DEF t
  <2> QED BY <1>1, <1>3, <1>4, <2>1, ReservedTyped
<1>8. Finish(Out(t, mem, "none"), kind, G)
  BY <1>0, <1>5, <1>6
<1> HIDE DEF t, G, kind
<1> DEFINE o == Out(t, mem, "none")
<1>9. Finish(o, kind, G) /\ o.r = t /\ o.mem = mem /\ o.thrown = "none"
  BY <1>8, OutFacts
<1> HIDE DEF o
<1>10. r' = t /\ mem' = mem /\ frames' = G /\ event' = kind
  BY <1>1, <1>7, <1>9, FinishNone
<1>11. GivesBack
  BY <1>0, <1>7, <1>10 DEF GivesBack, f
<1>12. event' # "overflow" /\ frames' = Front(frames) /\ UNCHANGED mem
  BY <1>10 DEF kind, G
<1>13. Last(frames).kind = "enter" /\ r'.sp = Last(frames).sp
  BY <1>0, <1>7, <1>10 DEF f
<1>14. r' \in Registers /\ r'.sb = r.sb /\ r'.cps = 0
  BY <1>7, <1>10
<1> QED BY <1>0, <1>1, <1>11, <1>12, <1>13, <1>14, PopStep

\* What the last frame holds, as pop reads it.
LEMMA PopTop ==
    ASSUME StackInv, Runs, frames # <<>>, NEW f, f = Last(frames), f.kind \in {"push", "all", "int"}
    PROVE  /\ Pop(Fetched, f.n) = Out(Moved(Fetched.r, f.sp), mem, "none") /\ Top(Fetched, f.n) = f.v
<1> DEFINE q == Fetched.r
           n == f.n
           A == Linear(q.sb, q.sp)
<1>1. Fetched = Out(q, mem, "none") /\ q \in Registers /\ q.sb = r.sb /\ q.sp = r.sp
  BY Fetching
<1>2. /\ Held(mem, r.sb, f) /\ n \in Nat /\ (r.sp + n) % Word = f.sp
      /\ Linear(r.sb, r.sp) = Floor(r.sb, f) /\ Linear(r.sb, r.sp) + n <= MemSize
  BY TopFrame
<1>3. Placed(mem, Floor(r.sb, f), n, f.v)
  BY <1>2 DEF Held
<1>4. A = Floor(r.sb, f) /\ A + n <= MemSize /\ (q.sp + n) % Word = f.sp
  BY <1>1, <1>2
<1> HIDE DEF q, n
<1>5. Pop(Out(q, mem, "none"), n) = Out(Moved(q, (q.sp + n) % Word), mem, "none")
  BY <1>1, <1>2, <1>4, PopFacts
<1>6. Top(Out(q, mem, "none"), n) = Read(mem, A, n)
  BY <1>1, <1>2, PopFacts
<1>7. Read(mem, A, n) = f.v
  BY <1>3, <1>4 DEF Placed, Read
<1> QED BY <1>1, <1>4, <1>5, <1>6, <1>7 DEF q, n

\* Registers replaced.
Loaded(q, g) == [q EXCEPT !.gp = g]

LEMMA LoadedTyped ==
    \A q \in Registers, g \in RegisterFile :
        /\ Loaded(q, g) \in Registers /\ Loaded(q, g).gp = g /\ Loaded(q, g).sp = q.sp
        /\ Loaded(q, g).sb = q.sb /\ Loaded(q, g).cb = q.cb /\ Loaded(q, g).cps = q.cps
<1> TAKE q \in Registers, g \in RegisterFile
<1> DEFINE t == [q EXCEPT !.gp = g]
<1>r. Registers = [gp : RegisterFile, fg : Flags, sb : Values,
                   sp : Values, cb : Values, ip : Values, cps : Values]
  BY DEF Registers, RegisterFile
<1>1. t \in Registers
  BY <1>r
<1>2. t.gp = g /\ t.sp = q.sp /\ t.sb = q.sb /\ t.cb = q.cb /\ t.cps = q.cps
  BY <1>r
<1> QED BY <1>1, <1>2 DEF Loaded

LEMMA PopRegOk ==
    ASSUME StackInv, NEW w \in {1, 8}, PopReg(w)
    PROVE  StepOk
<1> DEFINE q == Fetched.r
           f == Last(frames)
           kind == "pop"
           G == Front(frames)
           x == Moved(q, f.sp)
           o == DoPop(Fetched, w, 1)
<1>0. Runs /\ Finish(o, kind, G) /\ frames # <<>> /\ f.kind = "push" /\ f.n = w
  BY DEF PopReg, Holds
<1>1. /\ q \in Registers /\ q.sb = r.sb /\ q.cb = r.cb /\ q.cps = r.cps /\ r.cb # INT_STACKOVERFLOW
  BY <1>0, Fetching
<1>2. f = Last(frames)
  OBVIOUS
<1> HIDE DEF f, q, G, kind
<1>3. Pop(Fetched, w) = Out(x, mem, "none") /\ Top(Fetched, w) = f.v
  <2>1. f.kind \in {"push", "all", "int"}
    BY <1>0
  <2>2. Pop(Fetched, f.n) = Out(Moved(Fetched.r, f.sp), mem, "none") /\ Top(Fetched, f.n) = f.v
    BY <1>0, <1>2, <2>1, PopTop
  <2> QED BY <1>0, <2>2 DEF q
<1>4. f.sp \in Values /\ Framed(f, r.sb)
  BY <1>0, <1>2, TopFrame
<1>5. f.v \in Int /\ 0 <= f.v /\ f.v < Span(w)
  BY <1>0, <1>4 DEF Framed
<1>6. x \in Registers /\ x.sp = f.sp /\ x.sb = q.sb /\ x.cb = q.cb /\ x.cps = q.cps
  BY <1>1, <1>4, MovedTyped
<1> DEFINE g == Store(x.gp, w, 1, f.v)
           t == Loaded(x, g)
<1>7. o = Out(t, mem, "none")
  <2> DEFINE p == Pop(Fetched, w)
  <2>1. p.r = x /\ p.mem = mem /\ p.thrown = "none"
    BY <1>3, OutFacts
  <2>2. o = Out([p.r EXCEPT !.gp = Store(@, w, 1, Top(Fetched, w))], p.mem, "none")
    BY <2>1 DEF DoPop
  <2> HIDE DEF p, x, o
  <2> QED BY <1>3, <2>1, <2>2 DEF Loaded
<1> HIDE DEF x, o
<1>8. g \in RegisterFile /\ Load(g, w, 1) = f.v
  <2> DEFINE v == f.v
             i == 1
             gp == x.gp
  <2>1. gp \in RegisterFile /\ w \in Width /\ i \in 0 .. 3 /\ v \in Int /\ 0 <= v /\ v < Span(w) /\ Span(w) \in Nat \ {0}
    BY <1>5, <1>6, SpanType DEF Registers, RegisterFile, Width
  <2> HIDE DEF v, i, gp
  <2>2. Store(gp, w, i, v) \in RegisterFile
    BY <2>1, StoreTyped
  <2>3. Load(Store(gp, w, i, v), w, i) = v % Span(w)
    BY <2>1, LoadStored
  <2>4. v % Span(w) = v
    <3> DEFINE s == Span(w)
    <3>1. s \in Nat \ {0} /\ v \in Int /\ 0 <= v /\ v < s
      BY <2>1
    <3> HIDE DEF s
    <3>2. v % s = v
      BY <3>1, SmallRemainder
    <3> QED BY <3>2 DEF s
  <2> QED BY <2>2, <2>3, <2>4 DEF v, i, gp
<1> HIDE DEF g
<1>9. t \in Registers /\ t.gp = g /\ t.sp = f.sp /\ t.sb = r.sb /\ t.cb = r.cb /\ t.cps = r.cps
  BY <1>1, <1>6, <1>8, LoadedTyped
<1> HIDE DEF t
<1>10. o.r = t /\ o.mem = mem /\ o.thrown = "none"
  BY <1>7, OutFacts
<1>11. r' = t /\ mem' = mem /\ frames' = G /\ event' = kind
  BY <1>0, <1>1, <1>9, <1>10, FinishNone
<1>12. GivesBack
  <2>1. Load(r'.gp, f.n, 1) = f.v /\ r'.sp = f.sp
    BY <1>0, <1>8, <1>9, <1>11
  <2> QED BY <1>0, <2>1 DEF GivesBack, f
<1>13. event' # "overflow" /\ frames' = Front(frames) /\ UNCHANGED mem
  BY <1>11 DEF kind, G
<1>14. Last(frames).kind = "push" /\ r'.sp = Last(frames).sp
  BY <1>0, <1>9, <1>11 DEF f
<1>15. r' \in Registers /\ r'.sb = r.sb /\ r'.cps = r.cps
  BY <1>9, <1>11
<1> QED BY <1>0, <1>1, <1>12, <1>13, <1>14, <1>15, PopStep

LEMMA PopAllOk ==
    ASSUME StackInv, PopAll
    PROVE  StepOk
<1> DEFINE q == Fetched.r
           f == Last(frames)
           u == f.v
           kind == "popall"
           G == Front(frames)
           o == DoPopAll(Fetched)
           t == Sent(u, q.cb, q.ip)
<1>0. Runs /\ Finish(o, kind, G) /\ frames # <<>> /\ f.kind = "all"
  BY DEF PopAll, Holds
<1>1. /\ q \in Registers /\ q.sb = r.sb /\ q.cb = r.cb /\ q.cps = r.cps /\ r.cb # INT_STACKOVERFLOW
  BY <1>0, Fetching
<1>2. f = Last(frames)
  OBVIOUS
<1> HIDE DEF f, q, G, kind
<1>3. f.sp \in Values /\ Framed(f, r.sb)
  BY <1>0, <1>2, TopFrame
<1>4. f.n = AllSize /\ u.sp = f.sp /\ u.sb = r.sb /\ u \in Registers
  BY <1>0, <1>3 DEF Framed
<1>5. Pop(Fetched, AllSize) = Out(Moved(q, f.sp), mem, "none") /\ Top(Fetched, AllSize) = u
  <2>1. f.kind \in {"push", "all", "int"}
    BY <1>0
  <2>2. Pop(Fetched, f.n) = Out(Moved(Fetched.r, f.sp), mem, "none") /\ Top(Fetched, f.n) = f.v
    BY <1>0, <1>2, <2>1, PopTop
  <2> QED BY <1>4, <2>2 DEF q
<1> HIDE DEF u
<1>6. o = Out(t, mem, "none")
  <2> DEFINE p == Pop(Fetched, AllSize)
  <2>1. p.mem = mem /\ p.thrown = "none"
    BY <1>5, OutFacts
  <2>2. o = Out([Top(Fetched, AllSize) EXCEPT !.cb = q.cb, !.ip = q.ip], p.mem, "none")
    BY <2>1 DEF DoPopAll, q
  <2> HIDE DEF p, o
  <2> QED BY <1>5, <2>1, <2>2 DEF Sent
<1> HIDE DEF o
<1>7. q.cb \in Values /\ q.ip \in Values
  BY <1>1 DEF Registers
<1>8. t \in Registers /\ t.sp = u.sp /\ t.sb = u.sb /\ t.cb = q.cb /\ t.cps = u.cps
  BY <1>4, <1>7, SentTyped
<1>9. [t EXCEPT !.cb = 0, !.ip = 0] = [u EXCEPT !.cb = 0, !.ip = 0]
  <2> DEFINE c == q.cb
             i == q.ip
  <2> HIDE DEF c, i
  <2>1. [[u EXCEPT !.cb = c, !.ip = i] EXCEPT !.cb = 0, !.ip = 0] = [u EXCEPT !.cb = 0, !.ip = 0]
    BY <1>4 DEF Registers
  <2> QED BY <2>1 DEF Sent, c, i
<1> HIDE DEF t
<1>10. o.r = t /\ o.mem = mem /\ o.thrown = "none"
  BY <1>6, OutFacts
<1>11. r' = t /\ mem' = mem /\ frames' = G /\ event' = kind
  BY <1>0, <1>1, <1>8, <1>10, FinishNone
<1>12. GivesBack
  <2>1. [r' EXCEPT !.cb = 0, !.ip = 0] = [f.v EXCEPT !.cb = 0, !.ip = 0]
    BY <1>9, <1>11 DEF u
  <2>2. r'.sp = f.sp
    BY <1>4, <1>8, <1>11
  <2> QED BY <1>0, <2>1, <2>2 DEF GivesBack, f
<1>13. event' # "overflow" /\ frames' = Front(frames) /\ UNCHANGED mem
  BY <1>11 DEF kind, G
<1>14. Last(frames).kind = "all" /\ r'.sp = Last(frames).sp /\ r'.cps = Last(frames).v.cps
  BY <1>0, <1>4, <1>8, <1>11 DEF f, u
<1>15. r' \in Registers /\ r'.sb = r.sb
  BY <1>4, <1>8, <1>11
<1> QED BY <1>0, <1>1, <1>12, <1>13, <1>14, <1>15, PopStep

LEMMA IretOk ==
    ASSUME StackInv, Iret
    PROVE  StepOk
<1> DEFINE f == Last(frames)
           u == f.v
           kind == "iret"
           G == Front(frames)
           o == DoIret(Fetched)
<1>0. Runs /\ Finish(o, kind, G) /\ frames # <<>> /\ f.kind = "int"
  BY DEF Iret, Holds
<1>1. r.cb # INT_STACKOVERFLOW /\ Fetched = Out(Fetched.r, mem, "none")
  BY <1>0, Fetching
<1>2. f = Last(frames)
  OBVIOUS
<1> HIDE DEF f, G, kind
<1>3. f.sp \in Values /\ Framed(f, r.sb)
  BY <1>0, <1>2, TopFrame
<1>4. f.n = ImageSize /\ u.sp = f.sp /\ u.sb = r.sb /\ u \in Registers /\ u.cb # INT_STACKOVERFLOW
  BY <1>0, <1>3 DEF Framed
<1>5. Pop(Fetched, ImageSize) = Out(Moved(Fetched.r, f.sp), mem, "none") /\ Top(Fetched, ImageSize) = u
  <2>1. f.kind \in {"push", "all", "int"}
    BY <1>0
  <2>2. Pop(Fetched, f.n) = Out(Moved(Fetched.r, f.sp), mem, "none") /\ Top(Fetched, f.n) = f.v
    BY <1>0, <1>2, <2>1, PopTop
  <2> QED BY <1>4, <2>2
<1> HIDE DEF u
<1>6. o = Out(u, mem, "none")
  <2> DEFINE p == Pop(Fetched, ImageSize)
  <2>1. p.thrown = "none" /\ Fetched.mem = mem
    BY <1>1, <1>5, OutFacts
  <2>2. o = Out(Top(Fetched, ImageSize), Fetched.mem, "none")
    BY <2>1 DEF DoIret
  <2> QED BY <1>5, <2>1, <2>2
<1> HIDE DEF o
<1>10. o.r = u /\ o.mem = mem /\ o.thrown = "none"
  BY <1>6, OutFacts
<1>11. r' = u /\ mem' = mem /\ frames' = G /\ event' = kind
  BY <1>0, <1>4, <1>10, FinishNone
<1>12. GivesBack
  <2>1. r' = f.v
    BY <1>11 DEF u
  <2>2. r'.sp = f.sp
    BY <1>4, <1>11
  <2> QED BY <1>0, <2>1, <2>2 DEF GivesBack, f
<1>13. event' # "overflow" /\ frames' = Front(frames) /\ UNCHANGED mem
  BY <1>11 DEF kind, G
<1>14. Last(frames).kind = "int" /\ r'.sp = Last(frames).sp /\ r'.cps = Last(frames).v.cps
  BY <1>0, <1>4, <1>11 DEF f, u
<1>15. r' \in Registers /\ r'.sb = r.sb
  BY <1>4, <1>11
<1> QED BY <1>0, <1>1, <1>12, <1>13, <1>14, <1>15, PopStep

\* The jump back of ret.
Back(q, c, i) == [q EXCEPT !.ip = i, !.cb = c]

LEMMA BackTyped ==
    \A q \in Registers, c, i \in Values :
        /\ Back(q, c, i) \in Registers /\ Back(q, c, i).sp = q.sp /\ Back(q, c, i).sb = q.sb
        /\ Back(q, c, i).cb = c /\ Back(q, c, i).ip = i /\ Back(q, c, i).cps = q.cps
<1> TAKE q \in Registers, c, i \in Values
<1> DEFINE t == [q EXCEPT !.ip = i, !.cb = c]
<1>1. t \in Registers
  BY DEF Registers
<1>2. t.sp = q.sp /\ t.sb = q.sb /\ t.cb = c /\ t.ip = i /\ t.cps = q.cps
  BY DEF Registers
<1> QED BY <1>1, <1>2 DEF Back

\* A word popped.
LEMMA PopWord ==
    \A q \in Registers : \A m :
        /\ Linear(q.sb, q.sp) + 8 <= MemSize =>
               /\ Pop(Out(q, m, "none"), 8) = Out(Moved(q, (q.sp + 8) % Word), m, "none")
               /\ (q.sp + 8) % Word \in Values
               /\ Linear(q.sb, (q.sp + 8) % Word) = Linear(q.sb, q.sp) + 8
        /\ ~(Linear(q.sb, q.sp) + 8 <= MemSize) => Pop(Out(q, m, "none"), 8) = Out(q, m, "StackOverflow")
        /\ Top(Out(q, m, "none"), 8) = Read(m, Linear(q.sb, q.sp), 8)
<1> TAKE q \in Registers
<1> TAKE m
<1> DEFINE n == 8
<1>1. n \in Nat
  OBVIOUS
<1> HIDE DEF n
<1>2. /\ Linear(q.sb, q.sp) + n <= MemSize =>
             /\ Pop(Out(q, m, "none"), n) = Out(Moved(q, (q.sp + n) % Word), m, "none")
             /\ (q.sp + n) % Word \in Values
             /\ Linear(q.sb, (q.sp + n) % Word) = Linear(q.sb, q.sp) + n
      /\ ~(Linear(q.sb, q.sp) + n <= MemSize) => Pop(Out(q, m, "none"), n) = Out(q, m, "StackOverflow")
      /\ Top(Out(q, m, "none"), n) = Read(m, Linear(q.sb, q.sp), n)
  BY <1>1, PopFacts
<1> QED BY <1>2 DEF n

\* ret: it fails at the first word, or between the two, or jumps.
LEMMA RetFacts ==
    ASSUME NEW q \in Registers, NEW m, NEW A, A = Linear(q.sb, q.sp), NEW B, B = (q.sp + 8) % Word,
           NEW o, o = DoRet(Out(q, m, "none"))
    PROVE  /\ ~(A + 8 <= MemSize) => o = Out(q, m, "StackOverflow")
           /\ A + 8 <= MemSize => B \in Values
           /\ A + 8 <= MemSize /\ ~((A + 8) + 8 <= MemSize) => o = Out(Moved(q, B), m, "StackOverflow")
           /\ A + 8 <= MemSize /\ (A + 8) + 8 <= MemSize =>
                  /\ (B + 8) % Word \in Values /\ Linear(q.sb, (B + 8) % Word) = (A + 8) + 8
                  /\ o = Out(Back(Moved(Moved(q, B), (B + 8) % Word), Read(m, A + 8, 8), Read(m, A, 8)),
                             m, "none")
<1> DEFINE p == Pop(Out(q, m, "none"), 8)
           s == Pop(p, 8)
           top == Top(Out(q, m, "none"), 8)
           top2 == Top(p, 8)
           x == Moved(q, B)
<1>1. o = IF s.thrown = "none" THEN Out([s.r EXCEPT !.ip = top, !.cb = top2], s.mem, "none") ELSE s
  BY DEF DoRet
<1>2. top = Read(m, A, 8)
  BY PopWord
<1> HIDE DEF s, top, top2
<1>3. CASE ~(A + 8 <= MemSize)
  <2>1. p = Out(q, m, "StackOverflow")
    BY <1>3, PopWord
  <2> HIDE DEF p
  <2>2. p.thrown = "StackOverflow"
    BY <2>1, OutFacts
  <2>3. s = p
    BY <2>2 DEF s, Pop
  <2>4. o = Out(q, m, "StackOverflow")
    BY <1>1, <2>1, <2>2, <2>3
  <2> QED BY <1>3, <2>4
<1>4. CASE A + 8 <= MemSize
  <2>1. p = Out(x, m, "none") /\ B \in Values /\ Linear(q.sb, B) = A + 8
    BY <1>4, PopWord
  <2>2. x \in Registers /\ x.sp = B /\ x.sb = q.sb
    BY <2>1, MovedTyped
  <2> HIDE DEF p, x
  <2>3. Linear(x.sb, x.sp) = A + 8
    BY <2>1, <2>2
  <2>4. top2 = Read(m, A + 8, 8)
    BY <2>1, <2>2, <2>3, PopWord DEF top2
  <2>5. CASE ~((A + 8) + 8 <= MemSize)
    <3>1. s = Out(x, m, "StackOverflow")
      BY <2>1, <2>2, <2>3, <2>5, PopWord DEF s
    <3>2. s.thrown = "StackOverflow"
      BY <3>1, OutFacts
    <3>3. o = Out(x, m, "StackOverflow")
      BY <1>1, <3>1, <3>2
    <3> QED BY <1>4, <2>1, <2>5, <3>3 DEF x
  <2>6. CASE (A + 8) + 8 <= MemSize
    <3> DEFINE y == Moved(x, (B + 8) % Word)
    <3>1. s = Out(y, m, "none") /\ (B + 8) % Word \in Values /\ Linear(q.sb, (B + 8) % Word) = (A + 8) + 8
      BY <2>1, <2>2, <2>3, <2>6, PopWord DEF s
    <3> HIDE DEF y
    <3>2. s.thrown = "none" /\ s.r = y /\ s.mem = m
      BY <3>1, OutFacts
    <3>3. o = Out(Back(y, top2, top), m, "none")
      BY <1>1, <3>2 DEF Back
    <3> QED BY <1>2, <1>4, <2>1, <2>4, <2>6, <3>1, <3>3 DEF x, y
  <2> QED BY <2>5, <2>6
<1> QED BY <1>3, <1>4

LEMMA RetOk ==
    ASSUME StackInv, Ret
    PROVE  StepOk
<1> DEFINE q == Fetched.r
           f == Last(frames)
           u == f.v
           kind == "ret"
           G == Front(frames)
           o == DoRet(Fetched)
           A == Linear(q.sb, q.sp)
           B == (q.sp + 8) % Word
           y == Moved(Moved(q, B), (B + 8) % Word)
<1>0. Runs /\ Finish(o, kind, G) /\ frames # <<>> /\ f.kind = "call"
  BY DEF Ret, Holds
<1>1. /\ Fetched = Out(q, mem, "none") /\ q \in Registers /\ q.sb = r.sb /\ q.sp = r.sp /\ q.cps = r.cps
      /\ r.cb # INT_STACKOVERFLOW /\ r.sb \in Values /\ r.sp \in Values
  BY <1>0, Fetching
<1>2. f = Last(frames)
  OBVIOUS
<1> HIDE DEF f, q, G, kind
<1>3. /\ f.sp \in Values /\ Framed(f, r.sb) /\ Held(mem, r.sb, f) /\ (r.sp + f.n) % Word = f.sp
      /\ Linear(r.sb, r.sp) = Floor(r.sb, f) /\ Linear(r.sb, r.sp) + f.n <= MemSize
  <2>1. f.kind # "enter"
    BY <1>0
  <2> QED BY <1>0, <1>2, <2>1, TopFrame
<1>4. f.n = 16 /\ u \in Registers /\ u.cb # INT_STACKOVERFLOW
  BY <1>0, <1>3 DEF Framed
<1> HIDE DEF u
<1>5. A \in Nat /\ A = Floor(r.sb, f) /\ A + 16 <= MemSize /\ MemSize \in Nat
  BY <1>1, <1>3, <1>4, LinearType, StackAssumption
<1>6. Read(mem, A + 8, 8) = u.cb /\ Read(mem, A, 8) = u.ip
  <2>1. Placed(mem, Floor(r.sb, f) + 8, 8, u.cb) /\ Placed(mem, Floor(r.sb, f), 8, u.ip)
    BY <1>0, <1>3 DEF Held, u
  <2> HIDE DEF A
  <2> QED BY <1>5, <2>1 DEF Placed, Read
<1>7. u.cb \in Values /\ u.ip \in Values
  BY <1>4 DEF Registers
<1>8. A + 8 <= MemSize /\ (A + 8) + 8 <= MemSize
  <2> HIDE DEF A
  <2> QED BY <1>5
<1>9. /\ o = Out(Back(y, u.cb, u.ip), mem, "none") /\ B \in Values /\ (B + 8) % Word \in Values
  <2>1. /\ o = Out(Back(y, Read(mem, A + 8, 8), Read(mem, A, 8)), mem, "none")
        /\ B \in Values /\ (B + 8) % Word \in Values
    <3>1. A = Linear(q.sb, q.sp) /\ B = (q.sp + 8) % Word /\ o = DoRet(Out(q, mem, "none"))
      BY <1>1
    <3> HIDE DEF A, B, o
    <3> QED BY <1>1, <1>8, <3>1, RetFacts
  <2> QED BY <1>6, <2>1
<1>10. (B + 8) % Word = f.sp
  <2>1. r.sp \in Nat /\ Word \in Nat \ {0}
    BY <1>1, ValuesAre, WordType
  <2> DEFINE u1 == r.sp + 8
             d == 8
  <2>2. u1 \in Int /\ d \in Int /\ u1 + d = r.sp + 16
    BY <2>1
  <2> HIDE DEF u1, d
  <2>3. ((u1 % Word) + d) % Word = (u1 + d) % Word
    BY <2>1, <2>2, SumRemainder
  <2>4. u1 % Word = B /\ d = 8
    BY <1>1 DEF u1, d
  <2> HIDE DEF B
  <2> QED BY <1>3, <1>4, <2>2, <2>3, <2>4
<1>11. y \in Registers /\ y.sp = f.sp /\ y.sb = q.sb /\ y.cps = q.cps
  <2> DEFINE x == Moved(q, B)
  <2>1. x \in Registers /\ x.sb = q.sb /\ x.cps = q.cps
    BY <1>1, <1>9, MovedTyped
  <2>2. y = Moved(x, f.sp)
    BY <1>10
  <2> HIDE DEF x, y
  <2> QED BY <1>3, <2>1, <2>2, MovedTyped
<1> HIDE DEF y, o, A, B
<1> DEFINE t == Back(y, u.cb, u.ip)
<1>12. t \in Registers /\ t.sp = f.sp /\ t.sb = r.sb /\ t.cps = r.cps /\ t.cb = u.cb /\ t.ip = u.ip
  <2> DEFINE c == u.cb
             i == u.ip
  <2>1. c \in Values /\ i \in Values
    BY <1>7
  <2> HIDE DEF c, i
  <2> DEFINE z == Back(y, c, i)
  <2>2. z \in Registers /\ z.sp = f.sp /\ z.sb = r.sb /\ z.cps = r.cps /\ z.cb = c /\ z.ip = i
    BY <1>1, <1>11, <2>1, BackTyped
  <2>3. t = z
    BY DEF c, i
  <2> HIDE DEF t, z
  <2> QED BY <2>2, <2>3 DEF c, i
<1> HIDE DEF t
<1>13. o.r = t /\ o.mem = mem /\ o.thrown = "none"
  BY <1>9, OutFacts DEF t
<1>14. r' = t /\ mem' = mem /\ frames' = G /\ event' = kind
  BY <1>0, <1>4, <1>12, <1>13, FinishNone
<1>15. GivesBack
  <2>1. r'.cb = f.v.cb /\ r'.ip = f.v.ip /\ r'.sp = f.sp
    BY <1>12, <1>14 DEF u
  <2> QED BY <1>0, <2>1 DEF GivesBack, f
<1>16. event' # "overflow" /\ frames' = Front(frames) /\ UNCHANGED mem
  BY <1>14 DEF kind, G
<1>17. Last(frames).kind = "call" /\ r'.sp = Last(frames).sp
  BY <1>0, <1>12, <1>14 DEF f
<1>18. r' \in Registers /\ r'.sb = r.sb /\ r'.cps = r.cps
  BY <1>12, <1>14
<1> QED BY <1>0, <1>1, <1>15, <1>16, <1>17, <1>18, PopStep

\* Words read from memory.
LEMMA ReadWord ==
    ASSUME NEW m, Objects(m), NEW a
    PROVE  Read(m, a, 8) \in Values
<1>1. 0 \in Values
  BY Codes256
<1>2. a \in DOMAIN m /\ m[a].n = 8 => m[a].v \in Values
  BY DEF Objects
<1> QED BY <1>1, <1>2 DEF Read

LEMMA StrayRetOk ==
    ASSUME StackInv, StrayRet
    PROVE  StepOk
<1> DEFINE q == Fetched.r
           kind == "stray"
           o == DoRet(Fetched)
           A == Linear(q.sb, q.sp)
           B == (q.sp + 8) % Word
<1>0. Runs /\ Finish(o, kind, frames) /\ frames = <<>> /\ <<o.thrown, o.r.cb>> # <<"none", INT_STACKOVERFLOW>>
  BY DEF StrayRet
<1>1. /\ Fetched = Out(q, mem, "none") /\ q \in Registers /\ q.sb = r.sb /\ q.sp = r.sp /\ q.cps = r.cps
      /\ q.gp = r.gp /\ r.cb # INT_STACKOVERFLOW /\ r.sb \in Values /\ r.sp \in Values
      /\ Stack(frames, mem, r.sb) /\ Standing(frames, r.sb, r.sp, r.cps)
  BY <1>0, Fetching
<1>2. Len(frames) = 0 /\ r.sb + r.sp <= MemSize /\ Objects(mem)
  BY <1>0, <1>1 DEF Standing, Stack
<1>3. /\ A = r.sb + r.sp /\ A \in Nat /\ r.sb \in Nat /\ r.sp \in Nat /\ MemSize \in Nat /\ MemSize < Word /\ Word \in Nat
  <2>1. r.sb \in Nat /\ r.sp \in Nat /\ MemSize \in Nat /\ MemSize < Word /\ Word \in Nat
    BY <1>1, ValuesAre, WordType, StackAssumption
  <2> DEFINE x == r.sb + r.sp
  <2>2. x \in Int /\ 0 <= x /\ x < Word
    BY <1>2, <2>1
  <2>3. A = x % Word
    BY <1>1 DEF Linear
  <2>4. x \in Nat
    BY <2>1
  <2> HIDE DEF x
  <2>5. x % Word = x
    BY <2>1, <2>2, Wraps
  <2> HIDE DEF A
  <2> QED BY <2>1, <2>3, <2>4, <2>5 DEF x
<1>4. A = Linear(q.sb, q.sp) /\ B = (q.sp + 8) % Word /\ o = DoRet(Out(q, mem, "none"))
  BY <1>1
<1> HIDE DEF q, kind, o, A, B
<1>5. CASE ~(A + 8 <= MemSize)
  <2>1. o = Out(q, mem, "StackOverflow")
    BY <1>1, <1>4, <1>5, RetFacts
  <2>2. o.r = q /\ o.mem = mem /\ o.thrown = "StackOverflow"
    BY <2>1, OutFacts
  <2>3. r' = Jumped(q, INT_STACKOVERFLOW) /\ mem' = mem /\ frames' = frames
    BY <1>0, <1>1, <2>2, FinishOverflow
  <2> QED BY <1>1, <2>3, Abandon
<1>6. CASE A + 8 <= MemSize
  <2>1. B = r.sp + 8 /\ B \in Values
    <3> DEFINE x == r.sp + 8
    <3>1. x \in Nat /\ 0 <= x /\ x < Word
      BY <1>3, <1>6
    <3> HIDE DEF x
    <3>2. x % Word = x
      BY <1>3, <3>1, Wraps
    <3>3. B = x % Word
      BY <1>1, <1>4 DEF x
    <3>4. B = x /\ x \in Values
      BY <3>1, <3>2, <3>3, ValuesAre
    <3> QED BY <3>4 DEF x
  <2> DEFINE x == Moved(q, B)
  <2>2. x \in Registers /\ x.sp = r.sp + 8 /\ x.sb = r.sb /\ x.cps = r.cps /\ x.gp = r.gp
    BY <1>1, <2>1, MovedTyped
  <2>3. CASE ~((A + 8) + 8 <= MemSize)
    <3>1. o = Out(x, mem, "StackOverflow")
      BY <1>1, <1>4, <1>6, <2>3, RetFacts
    <3> HIDE DEF x
    <3>2. o.r = x /\ o.mem = mem /\ o.thrown = "StackOverflow"
      BY <3>1, OutFacts
    <3>3. r' = Jumped(x, INT_STACKOVERFLOW) /\ mem' = mem /\ frames' = frames
      BY <1>0, <2>2, <3>2, FinishOverflow
    <3> QED BY <1>1, <2>2, <3>3, Abandon
  <2>4. CASE (A + 8) + 8 <= MemSize
    <3> DEFINE s == (B + 8) % Word
               y == Moved(x, s)
               c == Read(mem, A + 8, 8)
               i == Read(mem, A, 8)
               t == Back(y, c, i)
    <3>1. s \in Values /\ o = Out(t, mem, "none") /\ Linear(q.sb, s) = (A + 8) + 8
      BY <1>1, <1>4, <1>6, <2>4, RetFacts
    <3>2. c \in Values /\ i \in Values
      BY <1>2, ReadWord
    <3>3. s = r.sp + 16
      <4> DEFINE z == r.sp + 16
      <4>1. z \in Nat /\ 0 <= z /\ z < Word
        BY <1>3, <2>4
      <4>2. s = z % Word
        <5>1. (r.sp + 8) + 8 = r.sp + 16
          BY <1>3
        <5> QED BY <2>1, <5>1
      <4> HIDE DEF z
      <4>3. z % Word = z
        BY <1>3, <4>1, Wraps
      <4> QED BY <4>2, <4>3 DEF z
    <3> HIDE DEF x, c, i, s
    <3>4. y \in Registers /\ y.sp = s /\ y.sb = r.sb /\ y.cps = r.cps
      BY <2>2, <3>1, MovedTyped
    <3> HIDE DEF y
    <3>5. t \in Registers /\ t.sp = s /\ t.sb = r.sb /\ t.cps = r.cps /\ t.cb = c
      BY <3>2, <3>4, BackTyped
    <3> HIDE DEF t
    <3>6. o.r = t /\ o.mem = mem /\ o.thrown = "none"
      BY <3>1, OutFacts
    <3>7. t.cb # INT_STACKOVERFLOW
      BY <1>0, <3>6
    <3>8. r' = t /\ mem' = mem /\ frames' = frames /\ event' = kind
      BY <1>0, <3>6, <3>7, FinishNone
    <3>9. Standing(frames, r.sb, s, r.cps)
      <4>1. r.sb + s <= MemSize
        BY <1>3, <2>4, <3>3
      <4>2. Linear(r.sb, s) <= MemSize
        BY <1>1, <2>4, <3>1
      <4>3. Linked(frames, 0, s) /\ Reserves(frames, 0, r.cps) /\ Clear(frames, r.sb, 0, s)
        BY DEF Linked, Reserves, Clear
      <4> QED BY <1>2, <4>1, <4>2, <4>3 DEF Standing
    <3>10. StackInv'
      BY <1>1, <3>5, <3>8, <3>9 DEF StackInv
    <3> QED BY <3>8, <3>10 DEF StepOk, kind
  <2> QED BY <2>3, <2>4
<1> QED BY <1>5, <1>6

\* The interruption mask.
Masked(q, v) == [q EXCEPT !.fg.im = v]

LEMMA MaskedTyped ==
    \A q \in Registers, v \in 0 .. 1 :
        /\ Masked(q, v) \in Registers /\ Masked(q, v).sp = q.sp /\ Masked(q, v).sb = q.sb
        /\ Masked(q, v).cb = q.cb /\ Masked(q, v).cps = q.cps
<1> TAKE q \in Registers, v \in 0 .. 1
<1> DEFINE g == [q.fg EXCEPT !.im = v]
           t == [q EXCEPT !.fg = g]
           B == 0 .. 1
<1>0. v \in B /\ q.fg \in [c : B, o : B, bg : B, le : B, eq : B, im : B]
  BY DEF Registers, Flags
<1> HIDE DEF B
<1>1. g \in [c : B, o : B, bg : B, le : B, eq : B, im : B]
  BY <1>0
<1>2. g \in Flags
  BY <1>1 DEF B, Flags
<1>3. Masked(q, v) = t
  BY DEF Masked
<1> HIDE DEF g
<1>4. t \in Registers
  BY <1>2 DEF Registers
<1>5. t.sp = q.sp /\ t.sb = q.sb /\ t.cb = q.cb /\ t.cps = q.cps
  BY DEF Registers
<1> QED BY <1>3, <1>4, <1>5

LEMMA MaskOk ==
    ASSUME StackInv, Alwi \/ Igni
    PROVE  StepOk
<1> DEFINE q == Fetched.r
           kind == "mask"
<1>1. PICK v \in 0 .. 1 : Runs /\ Finish(Out(Masked(q, v), mem, "none"), kind, frames)
  <2>1. 0 \in 0 .. 1 /\ 1 \in 0 .. 1
    OBVIOUS
  <2>2. CASE Alwi
    BY <2>1, <2>2 DEF Alwi, Masked
  <2>3. CASE Igni
    BY <2>1, <2>3 DEF Igni, Masked
  <2> QED BY <2>2, <2>3
<1>2. /\ q \in Registers /\ q.sb = r.sb /\ q.sp = r.sp /\ q.cps = r.cps /\ q.cb = r.cb
      /\ r.cb # INT_STACKOVERFLOW /\ Stack(frames, mem, r.sb)
  BY <1>1, Fetching
<1> HIDE DEF q, kind
<1> DEFINE t == Masked(q, v)
           o == Out(t, mem, "none")
<1>3. t \in Registers /\ t.sp = r.sp /\ t.sb = r.sb /\ t.cb = r.cb /\ t.cps = r.cps
  BY <1>2, MaskedTyped
<1>4. Finish(o, kind, frames)
  BY <1>1
<1> HIDE DEF t
<1>5. o.r = t /\ o.mem = mem /\ o.thrown = "none"
  BY OutFacts
<1> HIDE DEF o
<1>6. r' = t /\ mem' = mem /\ frames' = frames /\ event' = kind
  BY <1>2, <1>3, <1>4, <1>5, FinishNone
<1> QED BY <1>2, <1>3, <1>6, KeepStep DEF kind

LEMMA MovFromOk ==
    ASSUME StackInv, NEW a \in DataAddresses, MovFrom(a)
    PROVE  StepOk
<1> DEFINE q == Fetched.r
           kind == "load"
           o == DoLoad(Fetched, a, 0)
<1>0. Runs /\ Finish(o, kind, frames)
  BY DEF MovFrom
<1>1. /\ Fetched = Out(q, mem, "none") /\ q \in Registers /\ q.sb = r.sb /\ q.sp = r.sp /\ q.cps = r.cps
      /\ q.cb = r.cb /\ q.gp = r.gp /\ r.cb # INT_STACKOVERFLOW /\ Stack(frames, mem, r.sb)
  BY <1>0, Fetching
<1>2. Objects(mem) /\ Fetched.r = q /\ Fetched.mem = mem
  BY <1>1, OutFacts DEF Stack
<1>3. o = IF a + 8 > MemSize THEN Out(q, mem, "StackOverflow")
          ELSE Out([q EXCEPT !.gp[0] = Read(mem, a, 8)], mem, "none")
  BY <1>2 DEF DoLoad
<1> HIDE DEF q, kind, o
<1>4. CASE a + 8 > MemSize
  <2>1. o = Out(q, mem, "StackOverflow")
    BY <1>3, <1>4
  <2>2. o.r = q /\ o.mem = mem /\ o.thrown = "StackOverflow"
    BY <2>1, OutFacts
  <2>3. r' = Jumped(q, INT_STACKOVERFLOW) /\ mem' = mem /\ frames' = frames
    BY <1>0, <1>1, <2>2, FinishOverflow
  <2> QED BY <1>1, <2>3, Abandon
<1>5. CASE ~(a + 8 > MemSize)
  <2> DEFINE v == Read(mem, a, 8)
             g == [q.gp EXCEPT ![0] = v]
             t == Loaded(q, g)
  <2>1. v \in Values
    BY <1>2, ReadWord
  <2>2. o = Out(t, mem, "none")
    BY <1>3, <1>5 DEF Loaded
  <2> HIDE DEF v
  <2>3. g \in RegisterFile
    <3>1. q.gp \in RegisterFile
      BY <1>1 DEF Registers, RegisterFile
    <3> QED BY <2>1, <3>1 DEF RegisterFile
  <2> HIDE DEF g
  <2>4. t \in Registers /\ t.sp = r.sp /\ t.sb = r.sb /\ t.cb = r.cb /\ t.cps = r.cps
    BY <1>1, <2>3, LoadedTyped
  <2> HIDE DEF t
  <2>5. o.r = t /\ o.mem = mem /\ o.thrown = "none"
    BY <2>2, OutFacts
  <2>6. r' = t /\ mem' = mem /\ frames' = frames /\ event' = kind
    BY <1>0, <1>1, <2>4, <2>5, FinishNone
  <2> QED BY <1>1, <2>4, <2>6, KeepStep DEF kind
<1> QED BY <1>4, <1>5

\* What a store beside the frames leaves.
LEMMA StackBeside ==
    ASSUME StackInv, Runs, NEW a \in Nat, Spare(a), NEW mm, Objects(mm), Beside(mem, mm, a, 8)
    PROVE  Stack(frames, mm, r.sb)
<1> DEFINE b == r.sb
           n == 8
<1>1. b \in Values /\ Stack(frames, mem, b) /\ n \in Nat /\ Beside(mem, mm, a, n)
  BY Fetching
<1>2. frames \in Seq(Things)
  BY <1>1 DEF Stack
<1>3. \A k \in 1 .. Len(frames) : Framed(frames[k], b) /\ Held(mm, b, frames[k])
  <2> TAKE k \in 1 .. Len(frames)
  <2> DEFINE f == frames[k]
  <2>1. f \in Things /\ Framed(f, b) /\ Held(mem, b, f)
    BY <1>1, <1>2 DEF Stack
  <2>2. f.kind = "enter" \/ Disjoint(a, n, (b + f.sp - f.n) % Word, f.n)
    <3>1. k \in DOMAIN frames
      BY <1>2
    <3> QED BY <3>1 DEF Spare, Base
  <2> HIDE DEF f, b, n
  <2>3. f.kind # "enter" => (b + f.sp - f.n) % Word = Floor(b, f)
    <3> DEFINE s == f.sp
               c == f.n
    <3>1. s \in Values /\ c \in Nat /\ (f.kind # "enter" => c <= Linear(b, s)) /\ Floor(b, f) = Linear(b, s) - c
      BY <2>1 DEF Things, Framed, Floor
    <3> HIDE DEF s, c
    <3>2. f.kind # "enter" => (b + s - c) % Word = Floor(b, f)
      BY <1>1, <3>1, LinearDown
    <3> QED BY <3>2 DEF s, c
  <2>4. f.kind # "enter" => Disjoint(a, n, Floor(b, f), f.n)
    BY <2>2, <2>3
  <2>5. Held(mm, b, f)
    BY <1>1, <2>1, <2>4, HeldBeside
  <2> QED BY <2>1, <2>5 DEF f
<1> HIDE DEF b
<1>4. Stack(frames, mm, b)
  BY <1>1, <1>3 DEF Stack
<1> QED BY <1>4 DEF b

LEMMA Addresses == \A a \in DataAddresses : a \in Nat
BY MachineAssumption, StackAssumption DEF DataAddresses

LEMMA MovToOk ==
    ASSUME StackInv, NEW a \in DataAddresses, MovTo(a)
    PROVE  StepOk
<1> DEFINE q == Fetched.r
           kind == "store"
           o == DoStore(Fetched, a, 0)
           t == "IllegalMemory"
<1>0. Runs /\ Finish(o, kind, frames) /\ Spare(a) /\ kind # "overflow"
  BY DEF MovTo
<1>1. /\ Fetched = Out(q, mem, "none") /\ q \in Registers /\ q.sb = r.sb /\ q.sp = r.sp /\ q.cps = r.cps
      /\ q.cb = r.cb /\ r.cb # INT_STACKOVERFLOW /\ Stack(frames, mem, r.sb)
  BY <1>0, Fetching
<1>2. Objects(mem) /\ Fetched.r = q /\ Fetched.mem = mem /\ t \in {"BadInterruption", "IllegalMemory"}
  BY <1>1, OutFacts DEF Stack
<1>3. o = IF a + 8 > MemSize THEN Out(q, mem, t) ELSE Out(q, Written(mem, a, 8, q.gp[0]), "none")
  BY <1>2 DEF DoStore
<1> HIDE DEF q, kind, o, t
<1>4. CASE a + 8 > MemSize
  <2>1. Finish(Out(Fetched.r, mem, t), kind, frames)
    BY <1>0, <1>2, <1>3, <1>4
  <2> QED BY <1>0, <1>2, <2>1, Faulted
<1>5. CASE ~(a + 8 > MemSize)
  <2> DEFINE v == q.gp[0]
             n == 8
             w == Written(mem, a, n, v)
  <2>1. v \in Values /\ a \in Nat /\ n \in Nat \ {0} /\ a + n <= MemSize /\ n \in Nat /\ 1 <= n
    <3>1. q.gp \in [0 .. (FerCount - 1) -> Values] /\ 0 \in 0 .. (FerCount - 1)
      BY <1>1, AluAssumption DEF Registers
    <3>2. a \in Nat /\ MemSize \in Nat
      BY Addresses, StackAssumption
    <3>3. v \in Values
      BY <3>1
    <3> HIDE DEF v
    <3>4. a + n <= MemSize
      BY <1>5, <3>2
    <3> QED BY <3>2, <3>3, <3>4
  <2>2. o = Out(q, w, "none")
    BY <1>3, <1>5
  <2> HIDE DEF v, n
  <2>3. Objects(w)
    BY <1>2, <2>1, ObjectsWritten
  <2>4. Beside(mem, w, a, n)
    <3> SUFFICES ASSUME NEW x \in Int, NEW k \in Nat, NEW u, 1 <= k, Placed(mem, x, k, u), Disjoint(a, n, x, k)
                 PROVE  Placed(w, x, k, u)
      BY DEF Beside
    <3> QED BY <2>1, PlacedWritten
  <2> HIDE DEF w
  <2>5. Stack(frames, w, r.sb)
    BY <1>0, <2>1, <2>3, <2>4, StackBeside DEF n
  <2>6. o.r = q /\ o.mem = w /\ o.thrown = "none"
    BY <2>2, OutFacts
  <2>7. r' = q /\ mem' = w /\ frames' = frames /\ event' = kind
    BY <1>0, <1>1, <2>6, FinishNone
  <2> QED BY <1>0, <1>1, <2>5, <2>7, KeepStep
<1> QED BY <1>4, <1>5

\* The memory after movs.
Copy(m, s, d, n) ==
    LET from == {b \in DOMAIN m : s <= b /\ b + m[b].n <= s + n}
        to == {b - s + d : b \in from}
        kept == {b \in DOMAIN m : Disjoint(d, n, b, m[b].n)}
    IN  [b \in kept \cup to |-> IF b \in to THEN m[b - d + s] ELSE m[b]]

LEMMA Copied ==
    ASSUME NEW m, Objects(m), NEW s \in Nat, NEW d \in Nat, NEW n \in Nat, d + n <= MemSize
    PROVE  Objects(Copy(m, s, d, n)) /\ Beside(m, Copy(m, s, d, n), d, n)
<1> DEFINE from == {b \in DOMAIN m : s <= b /\ b + m[b].n <= s + n}
           to == {b - s + d : b \in from}
           kept == {b \in DOMAIN m : Disjoint(d, n, b, m[b].n)}
           w == [b \in kept \cup to |-> IF b \in to THEN m[b - d + s] ELSE m[b]]
<1>c. Copy(m, s, d, n) = w
  BY DEF Copy
<1>0. MemSize \in Nat
  BY StackAssumption
<1>1. \A b \in DOMAIN m : b \in Nat /\ m[b].n \in Nat \ {0} /\ b + m[b].n <= MemSize /\ (m[b].n = 8 => m[b].v \in Values)
  BY DEF Objects
<1>2. \A b \in to : \E x \in from : b = x - s + d
  OBVIOUS
<1>f. \A x \in from : x \in DOMAIN m /\ s <= x /\ x + m[x].n <= s + n
  OBVIOUS
<1> HIDE DEF from
<1>3. ASSUME NEW b \in to
      PROVE  /\ b \in Nat /\ d <= b /\ b - d + s \in DOMAIN m
             /\ b + m[b - d + s].n <= d + n /\ m[b - d + s].n \in Nat \ {0}
  <2>1. PICK x \in from : b = x - s + d
    BY <1>2
  <2>2. x \in DOMAIN m /\ s <= x /\ x + m[x].n <= s + n /\ x \in Nat /\ m[x].n \in Nat \ {0}
    BY <1>1, <1>f
  <2>3. b - d + s = x
    BY <2>1, <2>2
  <2> DEFINE k == m[x].n
  <2>4. k \in Nat \ {0} /\ s <= x /\ x + k <= s + n /\ x \in Nat
    BY <2>2
  <2> HIDE DEF k
  <2>5. b \in Nat /\ d <= b /\ b + k <= d + n
    BY <2>1, <2>4
  <2> QED BY <2>2, <2>3, <2>5 DEF k
<1>4. DOMAIN w = kept \cup to
  OBVIOUS
<1>5. \A b \in to : w[b] = m[b - d + s]
  OBVIOUS
<1>6. \A b \in kept : b \notin to => w[b] = m[b]
  OBVIOUS
<1>7. kept \subseteq DOMAIN m
  OBVIOUS
<1>k. \A x \in DOMAIN m : Disjoint(d, n, x, m[x].n) => x \in kept
  OBVIOUS
<1> HIDE DEF to, kept, w
<1>8. ASSUME NEW b \in DOMAIN w
      PROVE  b \in Nat /\ w[b].n \in Nat \ {0} /\ b + w[b].n <= MemSize /\ (w[b].n = 8 => w[b].v \in Values)
  <2>1. CASE b \in to
    <3> DEFINE x == b - d + s
               k == m[x].n
    <3>1. b \in Nat /\ b + k <= d + n /\ k \in Nat \ {0} /\ (k = 8 => m[x].v \in Values)
      BY <1>1, <1>3, <2>1
    <3>2. w[b] = m[x]
      BY <1>5, <2>1
    <3>3. w[b].n = k /\ w[b].v = m[x].v
      BY <3>2
    <3> HIDE DEF k, x
    <3>4. b + k <= MemSize
      BY <1>0, <3>1
    <3> QED BY <3>1, <3>3, <3>4
  <2>2. CASE b \notin to
    <3>1. b \in kept
      BY <1>4, <2>2
    <3>2. b \in DOMAIN m /\ w[b] = m[b]
      BY <1>6, <1>7, <2>2, <3>1
    <3> QED BY <1>1, <3>2
  <2> QED BY <2>1, <2>2
<1>9. ASSUME NEW x \in Int, NEW k \in Nat, NEW u, 1 <= k, Placed(m, x, k, u), Disjoint(d, n, x, k)
      PROVE  Placed(w, x, k, u)
  <2>1. x \in DOMAIN m /\ m[x].n = k /\ m[x].v = u
    BY <1>9 DEF Placed
  <2>2. x \in kept
    BY <1>9, <1>k, <2>1
  <2>3. x \notin to
    <3>1. ASSUME x \in to PROVE FALSE
      <4> DEFINE j == m[x - d + s].n
      <4>1. d <= x /\ x + j <= d + n /\ j \in Nat \ {0}
        BY <1>3, <3>1
      <4> HIDE DEF j
      <4>2. d + n <= x \/ x + k <= d
        BY <1>9 DEF Disjoint
      <4> QED BY <1>9, <4>1, <4>2
    <3> QED BY <3>1
  <2>4. x \in DOMAIN w /\ w[x] = m[x]
    BY <1>4, <1>6, <2>2, <2>3
  <2> QED BY <2>1, <2>4 DEF Placed
<1>10. Objects(w)
  BY <1>8 DEF Objects
<1>11. Beside(m, w, d, n)
  BY <1>9 DEF Beside
<1> QED BY <1>c, <1>10, <1>11

LEMMA MovsOk ==
    ASSUME StackInv, NEW s \in DataAddresses, NEW d \in DataAddresses, Movs(s, d)
    PROVE  StepOk
<1> DEFINE q == Fetched.r
           kind == "movs"
           o == DoMovs(Fetched, s, d, 8)
           t == "IllegalMemory"
           n == 8
           w == Copy(mem, s, d, n)
<1>0. Runs /\ Finish(o, kind, frames) /\ Spare(d) /\ kind # "overflow"
  BY DEF Movs
<1>1. /\ Fetched = Out(q, mem, "none") /\ q \in Registers /\ q.sb = r.sb /\ q.sp = r.sp /\ q.cps = r.cps
      /\ q.cb = r.cb /\ r.cb # INT_STACKOVERFLOW /\ Stack(frames, mem, r.sb)
  BY <1>0, Fetching
<1>2. Objects(mem) /\ Fetched.r = q /\ Fetched.mem = mem /\ t \in {"BadInterruption", "IllegalMemory"}
  BY <1>1, OutFacts DEF Stack
<1>3. o = IF s + n > MemSize \/ d + n > MemSize THEN Out(q, mem, t) ELSE Out(q, w, "none")
  BY <1>2 DEF DoMovs, Copy
<1>5. s \in Nat /\ d \in Nat /\ n \in Nat /\ MemSize \in Nat
  BY Addresses, StackAssumption
<1> HIDE DEF q, kind, o, t, n
<1>6. CASE s + n > MemSize \/ d + n > MemSize
  <2>1. Finish(Out(Fetched.r, mem, t), kind, frames)
    BY <1>0, <1>2, <1>3, <1>6
  <2> QED BY <1>0, <1>2, <2>1, Faulted
<1>7. CASE ~(s + n > MemSize \/ d + n > MemSize)
  <2>1. d + n <= MemSize
    BY <1>5, <1>7
  <2>2. Objects(w) /\ Beside(mem, w, d, n)
    BY <1>2, <1>5, <2>1, Copied
  <2> HIDE DEF w
  <2>3. o = Out(q, w, "none")
    BY <1>3, <1>7
  <2>4. Stack(frames, w, r.sb)
    BY <1>0, <1>5, <2>2, StackBeside DEF n
  <2>5. o.r = q /\ o.mem = w /\ o.thrown = "none"
    BY <2>3, OutFacts
  <2>6. r' = q /\ mem' = w /\ frames' = frames /\ event' = kind
    BY <1>0, <1>1, <2>5, FinishNone
  <2> QED BY <1>0, <1>1, <2>4, <2>6, KeepStep
<1> QED BY <1>6, <1>7

\* A stack with nothing on it.
LEMMA EmptyStack ==
    ASSUME NEW m, Objects(m), NEW b \in Values, NEW p \in Values, b + p <= MemSize
    PROVE  Stack(<<>>, m, b) /\ Standing(<<>>, b, p, 0)
<1> DEFINE E == <<>>
<1>1. E \in Seq(Things) /\ Len(E) = 0
  OBVIOUS
<1> HIDE DEF E
<1>2. Chained(E, b) /\ Linked(E, 0, p) /\ Reserves(E, 0, 0) /\ Clear(E, b, 0, p)
  BY <1>1 DEF Chained, Linked, Reserves, Clear
<1>3. Linear(b, p) <= MemSize
  <2> DEFINE x == b + p
  <2>1. x \in Nat /\ 0 <= x /\ x < Word /\ Word \in Nat
    BY ValuesAre, WordType, StackAssumption
  <2>2. x <= MemSize
    OBVIOUS
  <2> HIDE DEF x
  <2>3. x % Word = x
    BY <2>1, Wraps
  <2> QED BY <2>2, <2>3 DEF Linear, x
<1>4. Stack(E, m, b)
  BY <1>1, <1>2 DEF Stack
<1>5. Standing(E, b, p, 0)
  BY <1>1, <1>2, <1>3 DEF Standing
<1> QED BY <1>4, <1>5 DEF E

LEMMA NewStackOk ==
    ASSUME StackInv, NewStack
    PROVE  StackInv' /\ event' = "start"
<1>1. PICK s \in Stacks : r' = [Start(1, 8, s[1], s[2]) EXCEPT !.fg.im = 1]
  BY DEF NewStack
<1>2. frames' = <<>> /\ event' = "start" /\ mem' = mem
  BY DEF NewStack
<1> DEFINE b == s[1]
           p == s[2]
           q == Start(1, 8, b, p)
           one == 1
           t == Masked(q, one)
<1>3. b \in Nat /\ p \in Nat /\ b + p <= MemSize
  BY MachineAssumption
<1>4. MemSize \in Nat /\ Word \in Nat /\ MemSize < Word
  BY StackAssumption, WordType
<1> HIDE DEF b, p
<1>5. b \in Values /\ p \in Values /\ 1 \in Values /\ 8 \in Values /\ one \in 0 .. 1
  <2>1. b < Word /\ p < Word
    BY <1>3, <1>4
  <2> QED BY <1>3, <2>1, ValuesAre, Codes256
<1>6. q \in Registers /\ q.sp = p /\ q.sb = b /\ q.cps = 0
  <2> DEFINE x == 1
             y == 8
             z == Start(x, y, b, p)
  <2>1. x \in Values /\ y \in Values
    BY <1>5
  <2> HIDE DEF x, y
  <2>2. z \in Registers /\ z.sp = p /\ z.sb = b /\ z.cps = 0
    BY <1>5, <2>1, StartTyped
  <2>3. z = q
    BY DEF x, y
  <2> HIDE DEF q, z
  <2> QED BY <2>2, <2>3
<1>7. r' = t
  BY <1>1 DEF Masked, b, p
<1> HIDE DEF q, one
<1>8. t \in Registers /\ t.sp = p /\ t.sb = b /\ t.cps = 0
  BY <1>5, <1>6, MaskedTyped
<1> HIDE DEF t
<1>9. Objects(mem)
  BY DEF StackInv, Stack
<1>10. Stack(<<>>, mem, b) /\ Standing(<<>>, b, p, 0)
  BY <1>3, <1>4, <1>5, <1>9, EmptyStack
<1> QED BY <1>2, <1>7, <1>8, <1>10 DEF StackInv

\* The steps of mode "stack".
LEMMA StackNextOk ==
    ASSUME StackInv, StackNext
    PROVE  StepOk \/ (StackInv' /\ event' = "start")
<1>1. ASSUME NEW w \in {1, 8}, PushReg(w) PROVE StepOk
  BY <1>1, PushRegOk
<1>2. ASSUME NEW w \in {1, 8}, PopReg(w) PROVE StepOk
  BY <1>2, PopRegOk
<1>3. ASSUME PushAll \/ PopAll \/ LeaveSpace \/ Call \/ Ret \/ StrayRet PROVE StepOk
  BY <1>3, PushAllOk, PopAllOk, LeaveOk, CallOk, RetOk, StrayRetOk
<1>4. ASSUME NEW x \in Spaces, EnterSpace(x) PROVE StepOk
  BY <1>4, EnterOk
<1>5. ASSUME NEW c \in Codes, Interrupt(c) PROVE StepOk
  BY <1>5, InterruptOk
<1>6. ASSUME DivideByZero \/ Iret \/ Alwi \/ Igni PROVE StepOk
  BY <1>6, DivideOk, IretOk, MaskOk
<1>7. ASSUME NEW a \in DataAddresses, MovFrom(a) PROVE StepOk
  BY <1>7, MovFromOk
<1>8. ASSUME NEW a \in DataAddresses, MovTo(a) PROVE StepOk
  BY <1>8, MovToOk
<1>9. ASSUME NEW s \in DataAddresses, NEW d \in DataAddresses, Movs(s, d) PROVE StepOk
  BY <1>9, MovsOk
<1>10. ASSUME NewStack PROVE StackInv' /\ event' = "start"
  BY <1>10, NewStackOk
<1> QED BY <1>1, <1>2, <1>3, <1>4, <1>5, <1>6, <1>7, <1>8, <1>9, <1>10 DEF StackNext

-----------------------------------------------------------------------------
(***************************************************************************)
(* The machine in both modes.                                              *)
(***************************************************************************)
MachineInv == ArithmeticInv /\ (mode = "stack" => StackInv)

LEMMA MachineInit == Init => MachineInv
<1> SUFFICES ASSUME Init PROVE MachineInv
  OBVIOUS
<1>1. ArithmeticInv
  BY ArithmeticInit
<1>2. ASSUME mode = "stack" PROVE StackInv
  <2>1. PICK s \in Stacks : r = Start(1, 8, s[1], s[2])
    BY <1>2 DEF Init
  <2>2. frames = <<>> /\ mem = [a \in {} |-> 0]
    BY DEF Init
  <2> DEFINE b == s[1]
             p == s[2]
             x == 1
             y == 8
  <2>3. b \in Nat /\ p \in Nat /\ b + p <= MemSize
    BY MachineAssumption
  <2>4. MemSize \in Nat /\ Word \in Nat /\ MemSize < Word
    BY StackAssumption, WordType
  <2>5. r = Start(x, y, b, p) /\ x \in Values /\ y \in Values
    BY <2>1, Codes256
  <2> HIDE DEF b, p, x, y
  <2>6. b \in Values /\ p \in Values
    <3>1. b < Word /\ p < Word
      BY <2>3, <2>4
    <3> QED BY <2>3, <3>1, ValuesAre
  <2>7. r \in Registers /\ r.sp = p /\ r.sb = b /\ r.cps = 0
    BY <2>5, <2>6, StartTyped
  <2>8. Objects(mem)
    BY <2>2 DEF Objects
  <2>9. Stack(<<>>, mem, b) /\ Standing(<<>>, b, p, 0)
    BY <2>3, <2>4, <2>6, <2>8, EmptyStack
  <2> QED BY <2>2, <2>7, <2>9 DEF StackInv
<1> QED BY <1>1, <1>2 DEF MachineInv

LEMMA MachineNext == MachineInv /\ [Next]_vars => MachineInv'
<1> SUFFICES ASSUME MachineInv, [Next]_vars PROVE MachineInv'
  OBVIOUS
<1>1. ArithmeticInv'
  BY ArithmeticNext DEF MachineInv
<1>2. CASE AluNext
  <2>1. mode' # "stack"
    BY <1>2, AluSteps
  <2> QED BY <1>1, <2>1 DEF MachineInv
<1>3. CASE StackNext
  <2>1. mode = "stack"
    BY <1>3, StackSteps
  <2>2. StackInv'
    BY <1>3, <2>1, StackNextOk DEF MachineInv, StepOk
  <2> QED BY <1>1, <2>2 DEF MachineInv
<1>4. CASE UNCHANGED vars
  <2>1. mode' = mode /\ r' = r /\ mem' = mem /\ frames' = frames
    BY <1>4 DEF vars
  <2>2. StackInv => StackInv'
    BY <2>1 DEF StackInv
  <2> QED BY <1>1, <2>1, <2>2 DEF MachineInv
<1> QED BY <1>2, <1>3, <1>4, Steps

LEMMA StackHolds == MachineInv => FramesIntact
<1> SUFFICES ASSUME MachineInv PROVE FramesIntact
  OBVIOUS
<1>1. CASE mode = "alu"
  <2>1. r \in Registers /\ DOMAIN frames = {} /\ DOMAIN mem = {}
    BY <1>1 DEF MachineInv, ArithmeticInv, AluInv
  <2> QED BY <2>1 DEF FramesIntact
<1>2. CASE mode = "stack"
  <2>1. r \in Registers /\ Stack(frames, mem, r.sb)
    BY <1>2 DEF MachineInv, StackInv
  <2>2. \A a \in DOMAIN mem : a + mem[a].n <= MemSize
    BY <2>1 DEF Stack, Objects
  <2>3. ASSUME NEW k \in DOMAIN frames
        PROVE  LET f == frames[k] IN
                   /\ f.kind \in {"push", "all", "int"} => Below(f, f.n) = f.v
                   /\ f.kind = "call" => /\ Below(f, 8) = f.v.cb
                                         /\ Read(mem, (r.sb + f.sp - 16) % Word, 8) = f.v.ip
    <3> DEFINE f == frames[k]
               b == r.sb
               s == f.sp
               n == f.n
    <3>1. frames \in Seq(Things) /\ b \in Values
      BY <2>1 DEF Stack, Registers
    <3>2. k \in 1 .. Len(frames)
      BY <3>1
    <3>3. f \in Things /\ Framed(f, b) /\ Held(mem, b, f)
      BY <2>1, <3>1, <3>2 DEF Stack
    <3> HIDE DEF f, b
    <3>4. /\ s \in Values /\ n \in Nat /\ (f.kind # "enter" => n <= Linear(b, s)) /\ (f.kind = "call" => n = 16)
          /\ Floor(b, f) = Linear(b, s) - n /\ Linear(b, s) \in Nat
      BY <3>1, <3>3, LinearType DEF Things, Framed, Floor
    <3> HIDE DEF s, n
    <3>5. ASSUME f.kind \in {"push", "all", "int"} PROVE Below(f, f.n) = f.v
      <4>1. Placed(mem, Floor(b, f), n, f.v)
        BY <3>3, <3>5 DEF Held, n
      <4>2. (b + s - n) % Word = Floor(b, f)
        <5>1. n <= Linear(b, s)
          BY <3>4, <3>5
        <5> QED BY <3>1, <3>4, <5>1, LinearDown
      <4>3. Read(mem, (b + s - n) % Word, n) = f.v
        BY <4>1, <4>2 DEF Placed, Read
      <4> QED BY <4>3 DEF Below, b, s, n
    <3>6. ASSUME f.kind = "call"
          PROVE  Below(f, 8) = f.v.cb /\ Read(mem, (r.sb + f.sp - 16) % Word, 8) = f.v.ip
      <4>1. Placed(mem, Floor(b, f) + 8, 8, f.v.cb) /\ Placed(mem, Floor(b, f), 8, f.v.ip)
        BY <3>3, <3>6 DEF Held
      <4>2. (b + s - 16) % Word = Floor(b, f)
        <5>1. (b + s - n) % Word = Floor(b, f)
          BY <3>1, <3>4, <3>6, LinearDown
        <5> QED BY <3>4, <3>6, <5>1
      <4>3. (b + s - 8) % Word = Floor(b, f) + 8
        <5> DEFINE e == 8
                   A == Linear(b, s)
        <5>1. e \in Nat /\ e <= A /\ Floor(b, f) + 8 = A - e
          BY <3>4, <3>6
        <5> HIDE DEF e, A
        <5>2. (b + s - e) % Word = A - e
          BY <3>1, <3>4, <5>1, LinearDown DEF A
        <5> QED BY <5>1, <5>2 DEF e
      <4>4. Read(mem, (b + s - 8) % Word, 8) = f.v.cb /\ Read(mem, (b + s - 16) % Word, 8) = f.v.ip
        BY <4>1, <4>2, <4>3 DEF Placed, Read
      <4> QED BY <4>4 DEF Below, b, s
    <3> QED BY <3>5, <3>6 DEF f
  <2> QED BY <2>1, <2>2, <2>3 DEF FramesIntact
<1> QED BY <1>1, <1>2 DEF MachineInv, ArithmeticInv

(***************************************************************************)
(* Whatever a program calls, saves, interrupts, masks, loads and stores,   *)
(* for every size of the memory and of the images, every stack in it and   *)
(* programs of any length, what it has on the stack is in memory as it was *)
(* pushed, the registers hold words and nothing is stored beyond the       *)
(* memory (push_stack, pop_stack, do_preserve_cpu_state, call, ret, enter, *)
(* leave, mov, movs and the catch clauses of execute()).                   *)
(***************************************************************************)
THEOREM StackCorrect == Spec => []FramesIntact
BY StackHolds, MachineInit, MachineNext, PTL DEF Spec

LEMMA ReturnStep ==
    ASSUME MachineInv, [Next]_vars, frames # <<>>, frames' = Front(frames), event' # "start"
    PROVE  UNCHANGED vars \/ GivesBack
<1> SUFFICES ASSUME ~UNCHANGED vars PROVE GivesBack
  OBVIOUS
<1>1. CASE AluNext
  <2>1. frames = <<>>
    BY <1>1, AluSteps DEF MachineInv, ArithmeticInv, AluInv
  <2> QED BY <2>1
<1>2. CASE StackNext
  <2>1. StackInv
    BY <1>2, StackSteps DEF MachineInv
  <2>2. StepOk
    BY <1>2, <2>1, StackNextOk
  <2>3. frames \in Seq(Things) /\ Len(frames) # 0
    BY <2>1 DEF StackInv, Stack
  <2>4. Len(frames') = Len(frames) - 1 /\ Len(frames) \in Nat
    BY <2>3, FrontFacts
  <2>5. frames' # frames /\ Len(frames') # Len(frames) + 1
    BY <2>4
  <2> QED BY <2>2, <2>5 DEF StepOk
<1> QED BY <1>1, <1>2, Steps

(***************************************************************************)
(* Taking the last thing off the stack gives back SP and what was saved,   *)
(* for every size of the memory and of the images and every program        *)
(* (pop, popall, leave, ret and iret).                                     *)
(***************************************************************************)
THEOREM ReturnsCorrect == Spec => Restored
<1> DEFINE Takes == frames # <<>> /\ frames' = Front(frames) /\ event' # "start"
<1>1. MachineInv /\ [Next]_vars => [Takes => GivesBack]_vars
  BY ReturnStep
<1>2. [Takes => GivesBack]_vars =>
          [frames # <<>> /\ frames' = Front(frames) /\ event' # "start" =>
            LET f == Last(frames)
            IN  /\ r'.sp = f.sp
                /\ f.kind = "push" => Load(r'.gp, f.n, 1) = f.v
                /\ f.kind = "call" => r'.cb = f.v.cb /\ r'.ip = f.v.ip
                /\ f.kind = "all"  => [r' EXCEPT !.cb = 0, !.ip = 0] = [f.v EXCEPT !.cb = 0, !.ip = 0]
                /\ f.kind = "int"  => r' = f.v]_vars
  BY DEF GivesBack
<1> QED BY <1>1, <1>2, MachineInit, MachineNext, PTL DEF Spec, Restored

-----------------------------------------------------------------------------
\* The last element.
LEMMA LastAppended ==
    ASSUME NEW S, NEW s \in Seq(S), NEW h
    PROVE  Last(Append(s, h)) = h
<1> DEFINE T == S \cup {h}
<1>1. s \in Seq(T) /\ h \in T
  OBVIOUS
<1> HIDE DEF T
<1>2. Append(s, h) \in Seq(T) /\ Len(Append(s, h)) = Len(s) + 1 /\ Append(s, h)[Len(s) + 1] = h
  BY <1>1
<1> QED BY <1>2 DEF Last

\* What a computation writes.
Kept(h) ==
    \A k \in (0 .. (8 * FerCount - 1)) \ ((h.w * h.i) .. (h.w * h.i + h.w - 1)) :
        Byte(r'.gp, k) = Byte(r.gp, k)

LEMMA ComputeBytes ==
    ASSUME r \in Registers, NEW S, hist \in Seq(S), NEW w \in Width, NEW i \in 0 .. 3, NEW j \in 0 .. 3,
           NEW op \in WriteOps, Compute(op, w, i, j)
    PROVE  r' \in Registers /\ Kept(Last(hist'))
<1> DEFINE a == Load(r.gp, w, i)
           b == Load(r.gp, w, j)
           x == Effect(op, w, a, b, r.fg)
           h == [op |-> op, w |-> w, i |-> i, a |-> a, b |-> b, fg |-> r.fg, v |-> x.v, after |-> x.fg]
           g == Store(r.gp, w, i, x.v)
<1>1. r.fg \in Flags /\ r.gp \in RegisterFile
  BY DEF Registers, RegisterFile
<1>2. a \in 0 .. (Span(w) - 1) /\ b \in 0 .. (Span(w) - 1)
  <2>1. Span(w) \in Nat
    BY SpanType
  <2>2. a \in Nat /\ a < Span(w) /\ b \in Nat /\ b < Span(w)
    BY <1>1, LoadRange
  <2> QED BY <2>1, <2>2
<1>3. /\ r' = [Fetched.r EXCEPT !.gp = Store(@, w, i, x.v), !.fg = x.fg] /\ hist' = Append(hist, h)
  BY DEF Compute, Record, Effect
<1>4. x.v \in Int /\ x.fg \in Flags
  BY <1>2, <1>1, EffectTyped
<1>5. Fetched.r \in Registers /\ Fetched.r.gp = r.gp
  BY <1>1, FetchedFacts
<1>6. g \in RegisterFile
  BY <1>2, <1>1, <1>4, StoreTyped
<1>7. r' = [Fetched.r EXCEPT !.gp = g, !.fg = x.fg]
  BY <1>3, <1>5 DEF Registers
<1> HIDE DEF g
<1>8. r' \in Registers /\ r'.gp = g
  BY <1>1, <1>4, <1>6, <1>7, Stored
<1>9. h.w = w /\ h.i = i
  OBVIOUS
<1> HIDE DEF x, a, b, h
<1>10. Last(hist') = h
  BY <1>3, LastAppended
<1> DEFINE v == x.v
           gp == r.gp
<1>11. v \in Int /\ gp \in RegisterFile /\ g = Store(gp, w, i, v)
  BY <1>1, <1>4 DEF g
<1> HIDE DEF v
<1>12. ASSUME NEW k \in 0 .. (8 * FerCount - 1), k \notin (w * i) .. (w * i + w - 1)
       PROVE  Byte(g, k) = Byte(r.gp, k)
  <2> HIDE DEF gp
  <2>1. Byte(Store(gp, w, i, v), k) = Byte(gp, k)
    BY <1>2, <1>11, <1>12, StoreBytes
  <2> QED BY <1>11, <2>1 DEF gp
<1>13. \A k \in (0 .. (8 * FerCount - 1)) \ ((w * i) .. (w * i + w - 1)) : Byte(g, k) = Byte(r.gp, k)
  BY <1>12
<1> QED BY <1>8, <1>9, <1>10, <1>13 DEF Kept

LEMMA LeaBytes ==
    ASSUME AluInv, NEW w \in Width, NEW ratio \in {1, 16}, Lea(w, ratio)
    PROVE  Kept(Last(hist'))
<1> DEFINE off2 == Load(r.gp, w, 2)
           a == EffectiveAddress(r.gp[0], r.gp[1], w, off2, ratio)
           i == 1
           u == 8
           gp == r.gp
           g == Store(gp, u, i, a)
           h == [op |-> "lea", w |-> u, i |-> i, a |-> r.gp[1], b |-> off2, fg |-> r.fg, v |-> a, after |-> r.fg]
<1>1. r \in Registers /\ gp \in RegisterFile /\ Fetched.r.gp = gp
  BY FetchedFacts DEF AluInv, Registers, RegisterFile
<1>2. i \in 0 .. 3 /\ u \in Width /\ ratio \in Nat
  BY DEF Width
<1>3. off2 \in Nat
  BY <1>1, LoadRange
<1>4. r' = [Fetched.r EXCEPT !.gp = g]
  BY <1>1, FetchedFacts DEF Lea, Registers
<1>5. hist' = Append(hist, h) /\ h.w = u /\ h.i = i
  BY DEF Lea, Record
<1>6. gp[0] \in Nat /\ gp[1] \in Nat
  <2>1. 0 \in 0 .. (FerCount - 1) /\ 1 \in 0 .. (FerCount - 1)
    BY AluAssumption
  <2>2. gp[0] \in Values /\ gp[1] \in Values
    BY <1>1, <2>1 DEF RegisterFile
  <2> QED BY <2>2, ValuesAre
<1>7. a \in Int
  BY <1>2, <1>3, <1>6, AddressTyped
<1> HIDE DEF a, off2, i, u, h
<1>8. g \in RegisterFile
  BY <1>1, <1>2, <1>7, StoreTyped
<1> HIDE DEF g
<1>9. r'.gp = g
  BY <1>1, <1>4, <1>8, StoredRegisters
<1>10. hist \in Seq(Entry)
  BY DEF AluInv, HistoryInv
<1>11. Last(hist') = h
  BY <1>5, <1>10, LastAppended
<1>12. ASSUME NEW k \in 0 .. (8 * FerCount - 1), k \notin (u * i) .. (u * i + u - 1)
       PROVE  Byte(g, k) = Byte(r.gp, k)
  <2> HIDE DEF gp
  <2>1. Byte(Store(gp, u, i, a), k) = Byte(gp, k)
    BY <1>1, <1>2, <1>7, <1>12, StoreBytes
  <2> QED BY <2>1 DEF gp, g
<1>13. \A k \in (0 .. (8 * FerCount - 1)) \ ((u * i) .. (u * i + u - 1)) : Byte(g, k) = Byte(r.gp, k)
  BY <1>12
<1> QED BY <1>5, <1>9, <1>11, <1>13 DEF Kept

\* The events of mode "alu".
LEMMA AluEvents ==
    ASSUME AluInv, AluNext
    PROVE  event' # "overflow" /\ (event' = "compute" => Kept(Last(hist')))
<1>1. ASSUME NEW w \in Width, NEW p \in Operands, NEW op \in WriteOps, Compute(op, w, p[1], p[2])
      PROVE  event' # "overflow" /\ Kept(Last(hist'))
  <2>1. event' # "overflow"
    BY <1>1 DEF Compute
  <2>2. p[1] \in 0 .. 3 /\ p[2] \in 0 .. 3
    BY DEF Operands
  <2>3. r \in Registers /\ hist \in Seq(Entry)
    BY DEF AluInv, HistoryInv
  <2> QED BY <1>1, <2>1, <2>2, <2>3, ComputeBytes
<1>2. ASSUME NEW w \in Width, NEW p \in Operands, Cmp(w, p[1], p[2]) \/ Exchange(w, p[1], p[2])
      PROVE  event' # "overflow" /\ event' # "compute"
  BY <1>2 DEF Cmp, Exchange
<1>3. ASSUME NEW w \in Width, NEW p \in Operands, NEW op, Mul(op, w, p[2]) \/ Div(op, w, p[2])
      PROVE  event' # "overflow" /\ event' # "compute"
  BY <1>3 DEF Mul, Div
<1>4. ASSUME NEW w \in Width, NEW ratio \in {1, 16}, Lea(w, ratio)
      PROVE  event' # "overflow" /\ Kept(Last(hist'))
  <2>1. event' # "overflow"
    BY <1>4 DEF Lea
  <2> QED BY <1>4, <2>1, LeaBytes
<1>5. ASSUME NEW op, Branch(op) PROVE event' # "overflow" /\ event' # "compute"
  BY <1>5 DEF Branch
<1>6. ASSUME LoopBack PROVE event' # "overflow" /\ event' # "compute"
  BY <1>6 DEF LoopBack
<1> QED BY <1>1, <1>2, <1>3, <1>4, <1>5, <1>6 DEF AluNext

LEMMA ContainedStep ==
    ASSUME MachineInv, [Next]_vars
    PROVE  \/ UNCHANGED vars
           \/ /\ hist' # hist /\ event' = "compute" => Kept(Last(hist'))
              /\ event' = "overflow" /\ event # "overflow" => Abandoned
<1>1. CASE AluNext
  <2>1. AluInv
    BY <1>1, AluSteps DEF MachineInv, ArithmeticInv
  <2> QED BY <1>1, <2>1, AluEvents
<1>2. CASE StackNext
  <2>1. StackInv /\ hist' = hist
    BY <1>2, StackSteps DEF MachineInv
  <2>2. StepOk \/ event' = "start"
    BY <1>2, <2>1, StackNextOk
  <2> QED BY <2>1, <2>2 DEF StepOk
<1> QED BY <1>1, <1>2, Steps

(***************************************************************************)
(* A computation or an effective address changes the bytes of its          *)
(* destination and no other byte of the registers, and an instruction that *)
(* runs out of stack leaves the general registers, SB and CPS as they      *)
(* were, SP at most one word off, and the handler masked                   *)
(* (WideRegisterAccess, execute() and the StackOverflow it catches), for   *)
(* every size of a byte, of the memory and of the images.                  *)
(***************************************************************************)
THEOREM StepsContained == Spec => NothingElseTouched
<1> DEFINE Changes == hist' # hist /\ event' = "compute"
           Overflows == event' = "overflow" /\ event # "overflow"
<1>1. MachineInv /\ [Next]_vars => [Changes => Kept(Last(hist'))]_vars /\ [Overflows => Abandoned]_vars
  BY ContainedStep
<1>2. [Changes => Kept(Last(hist'))]_vars =>
          [hist' # hist /\ event' = "compute" =>
            LET h == Last(hist')
            IN  \A k \in (0 .. (8 * FerCount - 1)) \ ((h.w * h.i) .. (h.w * h.i + h.w - 1)) :
                    Byte(r'.gp, k) = Byte(r.gp, k)]_vars
  BY DEF Kept
<1>3. [Overflows => Abandoned]_vars =>
          [event' = "overflow" /\ event # "overflow" =>
            /\ r'.gp = r.gp /\ r'.sb = r.sb /\ r'.cps = r.cps /\ r'.fg.im = 1
            /\ r'.sp \in {r.sp, r.sp - 8, r.sp + 8}
            /\ frames' = frames]_vars
  BY DEF Abandoned
<1> QED BY <1>1, <1>2, <1>3, MachineInit, MachineNext, PTL
        DEF Spec, NothingElseTouched, OnlyDestinationWritten, OverflowAbandons

-----------------------------------------------------------------------------
(***************************************************************************)
(* The watches of the debugger.  Two registers hold the same number exactly *)
(* when they hold the same bytes.                                          *)
(***************************************************************************)
LEMMA LowHigh ==
    ASSUME NEW z \in Nat, NEW s \in Nat \ {0}
    PROVE  /\ z % s \in Nat /\ z % s < s /\ (z \div s) % s \in Nat /\ s * s \in Nat \ {0}
           /\ z % (s * s) = ((z \div s) % s) * s + (z % s)
<1> DEFINE h == z \div (s * s)
           m == (z \div s) % s
           l == z % s
           p == s * s
<1>1. /\ h \in Nat /\ m \in 0 .. (s - 1) /\ l \in 0 .. (s - 1)
      /\ z = h * (s * s) + m * s + l
  BY Split
<1>2. p \in Nat \ {0}
  OBVIOUS
<1>3. m * s + l \in Nat /\ m * s + l < p
  <2>1. m \in Nat /\ m <= s - 1 /\ s - 1 \in Nat /\ l \in Nat /\ l < s
    BY <1>1
  <2> HIDE DEF m, l
  <2>2. m * s \in Nat /\ m * s <= (s - 1) * s
    BY <2>1, Products
  <2>3. (s - 1) * s + s = s * s
    OBVIOUS
  <2>4. (s - 1) * s \in Nat
    OBVIOUS
  <2> QED BY <2>1, <2>2, <2>3, <2>4
<1>4. z = h * p + (m * s + l)
  BY <1>1
<1> HIDE DEF p, h, m, l
<1> DEFINE y == m * s + l
<1>5. y \in Nat /\ y < p /\ z = h * p + y
  BY <1>3, <1>4
<1> HIDE DEF y
<1>6. z % p = y
  BY <1>1, <1>2, <1>5, DivisionUnique
<1> QED BY <1>1, <1>2, <1>6 DEF p, m, l, y

Alike(g, f, t, u) == Field(g, t, u) = Field(f, t, u)

LEMMA Halves ==
    ASSUME NEW g \in Nat, NEW f \in Nat, NEW t \in Nat, NEW u \in Nat,
           NEW v \in Nat, v = u + u
    PROVE  Alike(g, f, t, v) <=> Alike(g, f, t, u) /\ Alike(g, f, t + u, u)
<1> DEFINE s == Span(u)
           e == Span(t)
<1>1. s \in Nat \ {0} /\ e \in Nat \ {0} /\ Span(v) = s * s /\ Span(t + u) = e * s
  BY Spans
<1>2. ASSUME NEW x \in Nat
      PROVE  /\ x \div e \in Nat /\ Field(x, t, v) = (x \div e) % (s * s)
             /\ Field(x, t, u) = (x \div e) % s
             /\ Field(x, t + u, u) = ((x \div e) \div s) % s
  <2> HIDE DEF s, e
  <2>1. x \div e \in Nat
    BY <1>1, Division
  <2>2. x \div (e * s) = (x \div e) \div s
    BY <1>1, DivideTwice
  <2> QED BY <1>1, <2>1, <2>2 DEF Field, s, e
<1> DEFINE z == g \div e
           y == f \div e
           zl == z % s
           yl == y % s
           zh == (z \div s) % s
           yh == (y \div s) % s
<1> HIDE DEF s, e
<1>3. z \in Nat /\ y \in Nat
  BY <1>2
<1>4. /\ Field(g, t, v) = z % (s * s) /\ Field(f, t, v) = y % (s * s)
      /\ Field(g, t, u) = zl /\ Field(f, t, u) = yl
      /\ Field(g, t + u, u) = zh /\ Field(f, t + u, u) = yh
  BY <1>2
<1> HIDE DEF z, y
<1>5. /\ zl \in Nat /\ zl < s /\ zh \in Nat /\ z % (s * s) = zh * s + zl
      /\ yl \in Nat /\ yl < s /\ yh \in Nat /\ y % (s * s) = yh * s + yl
  BY <1>1, <1>3, LowHigh
<1> HIDE DEF zl, yl, zh, yh
<1>6. zh * s + zl = yh * s + yl => zh = yh /\ zl = yl
  <2> DEFINE x == zh * s + zl
  <2> SUFFICES ASSUME zh * s + zl = yh * s + yl PROVE zh = yh /\ zl = yl
    OBVIOUS
  <2>1. x \in Nat /\ x = zh * s + zl
    BY <1>1, <1>5
  <2>a. s \in Nat \ {0}
    BY <1>1
  <2>c. x = yh * s + yl
    OBVIOUS
  <2>b. zh \in Nat /\ zl \in Nat /\ zl < s /\ yh \in Nat /\ yl \in Nat /\ yl < s
    BY <1>5
  <2> HIDE DEF x
  <2>2. x \div s = zh /\ x % s = zl
    BY <2>a, <2>b, <2>1, DivisionUnique
  <2>3. x \div s = yh /\ x % s = yl
    BY <2>c, <2>a, <2>b, <2>1, DivisionUnique
  <2> QED BY <2>2, <2>3
<1> QED BY <1>4, <1>5, <1>6 DEF Alike

LEMMA FieldBytes ==
    ASSUME NEW g \in Nat, NEW f \in Nat, NEW t \in Nat, NEW w \in Width
    PROVE  Alike(g, f, t, w) <=> \A j \in 0 .. (w - 1) : Alike(g, f, t + j, 1)
<1> DEFINE Same(o, u) == Alike(g, f, o, u)
<1>0. ASSUME NEW o \in Nat, NEW u \in Nat, NEW v \in Nat, v = u + u
      PROVE  Same(o, v) <=> Same(o, u) /\ Same(o + u, u)
  BY <1>0, Halves
<1> SUFFICES Same(t, w) <=> \A j \in 0 .. (w - 1) : Same(t + j, 1)
  OBVIOUS
<1> HIDE DEF Same
<1>1. ASSUME NEW o \in Nat
      PROVE  /\ Same(o, 2) <=> Same(o, 1) /\ Same(o + 1, 1)
             /\ Same(o, 4) <=> Same(o, 2) /\ Same(o + 2, 2)
             /\ Same(o, 8) <=> Same(o, 4) /\ Same(o + 4, 4)
  BY <1>0
<1>2. ASSUME NEW o \in Nat
      PROVE  Same(o, 2) <=> Same(o, 1) /\ Same(o + 1, 1)
  BY <1>1
<1>3. ASSUME NEW o \in Nat
      PROVE  Same(o, 4) <=> Same(o, 1) /\ Same(o + 1, 1) /\ Same(o + 2, 1) /\ Same(o + 3, 1)
  <2>1. Same(o + 2, 2) <=> Same(o + 2, 1) /\ Same((o + 2) + 1, 1)
    BY <1>2
  <2>2. (o + 2) + 1 = o + 3
    OBVIOUS
  <2> QED BY <1>1, <1>2, <2>1, <2>2
<1>4. Same(t, 8) <=> /\ Same(t, 1) /\ Same(t + 1, 1) /\ Same(t + 2, 1) /\ Same(t + 3, 1)
                     /\ Same(t + 4, 1) /\ Same(t + 5, 1) /\ Same(t + 6, 1) /\ Same(t + 7, 1)
  <2>1. Same(t + 4, 4) <=> /\ Same(t + 4, 1) /\ Same((t + 4) + 1, 1)
                           /\ Same((t + 4) + 2, 1) /\ Same((t + 4) + 3, 1)
    BY <1>3
  <2>2. (t + 4) + 1 = t + 5 /\ (t + 4) + 2 = t + 6 /\ (t + 4) + 3 = t + 7
    OBVIOUS
  <2> QED BY <1>1, <1>3, <2>1, <2>2
<1>5. t + 0 = t
  OBVIOUS
<1>6. CASE w = 1
  <2>1. \A j : j \in 0 .. (w - 1) <=> j = 0
    BY <1>6
  <2> QED BY <2>1, <1>5, <1>6
<1>7. CASE w = 2
  <2>1. \A j : j \in 0 .. (w - 1) <=> j = 0 \/ j = 1
    BY <1>7
  <2> QED BY <2>1, <1>2, <1>5, <1>7
<1>8. CASE w = 4
  <2>1. \A j : j \in 0 .. (w - 1) <=> j = 0 \/ j = 1 \/ j = 2 \/ j = 3
    BY <1>8
  <2> QED BY <2>1, <1>3, <1>5, <1>8
<1>9. CASE w = 8
  <2>1. \A j : j \in 0 .. (w - 1) <=>
                  j = 0 \/ j = 1 \/ j = 2 \/ j = 3 \/ j = 4 \/ j = 5 \/ j = 6 \/ j = 7
    BY <1>9
  <2> QED BY <2>1, <1>4, <1>5, <1>9
<1> QED BY <1>6, <1>7, <1>8, <1>9 DEF Width

LEMMA LoadBytes ==
    ASSUME NEW gp \in RegisterFile, NEW old \in RegisterFile, NEW w \in Width, NEW i \in 0 .. 3
    PROVE  Load(gp, w, i) = Load(old, w, i) <=>
               \A k \in (w * i) .. (w * i + w - 1) : Byte(gp, k) = Byte(old, k)
<1> DEFINE h == Home(w, i)
           o == Offset(w, i)
           g == gp[h]
           f == old[h]
           Same(j) == Alike(g, f, o + j, 1)
           p == 8 * h + o
           Eq(k) == Byte(gp, k) = Byte(old, k)
<1>1. h \in 0 .. 3 /\ o \in 0 .. 7 /\ o + w <= 8 /\ w * i = 8 * h + o /\ w \in Nat
  BY Slots
<1>2. g \in Nat /\ f \in Nat
  BY SlotTypes, ValuesAre DEF RegisterFile
<1>3. Load(gp, w, i) = Field(g, o, w) /\ Load(old, w, i) = Field(f, o, w)
  BY LoadField
<1>4. ASSUME NEW j \in Int, o + j \in 0 .. 7
      PROVE  Eq(p + j) <=> Same(j)
  <2> DEFINE k == p + j
  <2>1. k \div 8 = h /\ k % 8 = o + j
    <3> HIDE DEF h, o
    <3>1. CASE h = 0  BY <3>1, <1>1, <1>4
    <3>2. CASE h = 1  BY <3>2, <1>1, <1>4
    <3>3. CASE h = 2  BY <3>3, <1>1, <1>4
    <3>4. CASE h = 3  BY <3>4, <1>1, <1>4
    <3> QED BY <3>1, <3>2, <3>3, <3>4, <1>1
  <2> HIDE DEF k
  <2>2. Byte(gp, k) = Field(g, o + j, 1) /\ Byte(old, k) = Field(f, o + j, 1)
    BY <2>1 DEF Byte, Field, Span
  <2>3. Eq(k) <=> Same(j)
    BY <2>2 DEF Alike
  <2> QED BY <2>3 DEF k
<1>5. Alike(g, f, o, w) <=> \A j \in 0 .. (w - 1) : Same(j)
  <2> HIDE DEF h, o, g, f
  <2>1. o \in Nat
    BY <1>1
  <2>2. Alike(g, f, o, w) <=> \A j \in 0 .. (w - 1) : Alike(g, f, o + j, 1)
    BY <2>1, <1>2, FieldBytes
  <2> QED BY <2>2
<1>7. p \in Int /\ w * i = p
  BY <1>1
<1> HIDE DEF h, o, Same, Eq, p
<1>8. ASSUME \A j \in 0 .. (w - 1) : Same(j), NEW k \in p .. (p + w - 1) PROVE Eq(k)
  <2>1. k - p \in 0 .. (w - 1) /\ o + (k - p) \in 0 .. 7 /\ k = p + (k - p)
    BY <1>1, <1>7
  <2> QED BY <2>1, <1>4, <1>8
<1>9. ASSUME \A k \in p .. (p + w - 1) : Eq(k), NEW j \in 0 .. (w - 1) PROVE Same(j)
  <2>1. p + j \in p .. (p + w - 1) /\ o + j \in 0 .. 7
    BY <1>1, <1>7
  <2> QED BY <2>1, <1>4, <1>9
<1>10. (\A j \in 0 .. (w - 1) : Same(j)) <=> \A k \in p .. (p + w - 1) : Eq(k)
  BY <1>8, <1>9
<1> QED BY <1>3, <1>5, <1>7, <1>10 DEF Eq, Alike

\* The register file of zeros, which the first look compares with.
Zeros == [n \in 0 .. (FerCount - 1) |-> 0]

LEMMA LoadZeros ==
    /\ Zeros \in RegisterFile
    /\ \A w \in Width, i \in 0 .. 3 :
          /\ Load(Zeros, w, i) = 0
          /\ \A k \in (w * i) .. (w * i + w - 1) : Byte(Zeros, k) = 0
<1>1. Zeros \in RegisterFile
  BY WordType DEF Zeros, RegisterFile, Values
<1>2. ASSUME NEW a \in Nat \ {0}, NEW b \in Nat \ {0} PROVE (0 \div a) % b = 0
  <2>1. 0 \div a = 0
    BY DivisionUnique
  <2>2. 0 % b = 0
    BY DivisionUnique
  <2> QED BY <2>1, <2>2
<1>3. ASSUME NEW w \in Width, NEW i \in 0 .. 3
      PROVE  Load(Zeros, w, i) = 0
  <2> DEFINE a == Shift(w, i)
             b == Span(w)
  <2>1. a \in Nat \ {0} /\ b \in Nat \ {0}
    BY Spans, SlotTypes
  <2>2. Zeros[Home(w, i)] = 0
    BY SlotTypes DEF Zeros
  <2>3. Load(Zeros, w, i) = (0 \div a) % b
    BY <2>2 DEF Load
  <2> HIDE DEF a, b
  <2> QED BY <2>1, <2>3, <1>2
<1>4. ASSUME NEW w \in Width, NEW i \in 0 .. 3, NEW k \in (w * i) .. (w * i + w - 1)
      PROVE  Byte(Zeros, k) = 0
  <2> DEFINE h == Home(w, i)
             o == Offset(w, i)
  <2>1. h \in 0 .. 3 /\ o \in 0 .. 7 /\ o + w <= 8 /\ w * i = 8 * h + o /\ w \in Nat
    BY Slots
  <2>2. k \in Nat /\ k \div 8 = h /\ k % 8 \in Nat
    <3>1. k \in Int /\ 8 * h <= k /\ k < 8 * h + 8
      <4> DEFINE p == w * i
      <4>1. k \in p .. (p + w - 1) /\ p = 8 * h + o
        BY <2>1
      <4> HIDE DEF h, o, p
      <4> QED BY <4>1, <2>1
    <3> HIDE DEF h, o
    <3>2. CASE h = 0  BY <3>2, <3>1
    <3>3. CASE h = 1  BY <3>3, <3>1
    <3>4. CASE h = 2  BY <3>4, <3>1
    <3>5. CASE h = 3  BY <3>5, <3>1
    <3> QED BY <3>2, <3>3, <3>4, <3>5, <2>1
  <2> DEFINE a == Span(k % 8)
             b == Span(1)
  <2>3. a \in Nat \ {0} /\ b \in Nat \ {0}
    BY <2>2, Spans
  <2>4. Zeros[k \div 8] = 0
    BY <2>2, SlotTypes DEF Zeros
  <2>5. Byte(Zeros, k) = (0 \div a) % b
    BY <2>4 DEF Byte, Span
  <2> HIDE DEF a, b
  <2> QED BY <2>3, <2>5, <1>2
<1> QED BY <1>1, <1>3, <1>4

\* What a watched register was at the last look.
Before(x) ==
    IF dbg = "look" /\ hist = <<>> /\ steps = 0 THEN 0 ELSE Load(seen, x.t.w, x.t.i)

(***************************************************************************)
(* One target is watched, without a condition, and the value kept with it  *)
(* is what the register held when if_breakpoint last looked.               *)
(***************************************************************************)
WatchInv ==
    /\ dbg = "off" => watch = {}
    /\ watch # {} =>
          /\ cond = {} /\ r \in Registers /\ seen \in RegisterFile /\ \E S : hist \in Seq(S)
          /\ \E t \in Watchable : \E v : watch = {[t |-> t, last |-> v]}
          /\ \A x \in watch : x.t.kind = "register" => x.last = Before(x)

LEMMA WatchedRegister ==
    ASSUME NEW t \in Watchable, t.kind = "register"
    PROVE  t.w \in Width /\ t.i \in 0 .. 3
<1>1. t \in Targets
  BY DEF Watchable
<1>2. \A w, i, v, q, b, c, d :
         /\ Register(w, i).kind = "register" /\ Register(w, i).w = w /\ Register(w, i).i = i
         /\ Constant(w, v).kind = "constant" /\ Memory(w, q, b, c, d).kind = "memory"
  BY DEF Register, Constant, Memory
<1>3. "constant" # "register" /\ "memory" # "register"
  OBVIOUS
<1>4. \/ t = Register(8, 0) \/ t = Register(1, 1) \/ t = Register(2, 2) \/ t = Register(8, 2)
      \/ \E w, v : t = Constant(w, v)
      \/ \E w, q, b, c, d : t = Memory(w, q, b, c, d)
  BY <1>1, Zenon DEF Targets, Negative
<1>5. t = Register(8, 0) \/ t = Register(1, 1) \/ t = Register(2, 2) \/ t = Register(8, 2)
  BY <1>2, <1>3, <1>4
<1>6. CASE t = Register(8, 0)  BY <1>2, <1>6 DEF Width
<1>7. CASE t = Register(1, 1)  BY <1>2, <1>7 DEF Width
<1>8. CASE t = Register(2, 2)  BY <1>2, <1>8 DEF Width
<1>9. CASE t = Register(8, 2)  BY <1>2, <1>9 DEF Width
<1> QED BY <1>5, <1>6, <1>7, <1>8, <1>9

LEMMA WatchInit == IInit => WatchInv
<1> SUFFICES ASSUME IInit PROVE WatchInv
  OBVIOUS
<1>1. dbg = "off" => watch = {}
  BY DEF IInit
<1>2. ASSUME watch # {}
      PROVE  /\ cond = {} /\ r \in Registers /\ seen \in RegisterFile /\ \E S : hist \in Seq(S)
             /\ \E t \in Watchable : \E v : watch = {[t |-> t, last |-> v]}
             /\ \A x \in watch : x.t.kind = "register" => x.last = Before(x)
  <2>1. PICK t \in Watchable : cond = {} /\ watch = {[t |-> t, last |-> 0]} /\ dbg = "look"
    BY <1>2 DEF IInit
  <2>2. Init /\ mode = "alu" /\ seen = r.gp /\ hist = <<>> /\ steps = 0
    BY <1>2 DEF IInit, Init
  <2>3. r \in Registers
    BY <2>2, ArithmeticInit DEF ArithmeticInv, AluInv
  <2>4. seen \in RegisterFile
    BY <2>2, <2>3 DEF Registers, RegisterFile
  <2>5. hist \in Seq({})
    BY <2>2
  <2>6. \A x \in watch : x.last = Before(x)
    BY <2>1, <2>2 DEF Before
  <2> QED BY <2>1, <2>3, <2>4, <2>5, <2>6
<1> QED BY <1>1, <1>2 DEF WatchInv

LEMMA LookFacts ==
    ASSUME Look, cond = {}, NEW t \in Watchable, NEW v, watch = {[t |-> t, last |-> v]}
    PROVE  /\ \E u : watch' = {[t |-> t, last |-> u]}
           /\ t.kind = "register" =>
                 /\ look' = "watch" <=> v # Load(r.gp, t.w, t.i)
                 /\ watch' = {[t |-> t, last |-> Load(r.gp, t.w, t.i)]}
<1> DEFINE x == [t |-> t, last |-> v]
           c == CHOOSE u \in Got(t) : TRUE
           verdict == {IsConditionMet(d.text) : d \in cond}
           fails == \E y \in watch : Got(y.t) = {}
           hit == \E y \in watch : y.last \notin Got(y.t)
<1>1. x.t = t /\ x.last = v /\ \A u : [x EXCEPT !.last = u] = [t |-> t, last |-> u]
  OBVIOUS
<1>2. watch = {x}
  OBVIOUS
<1>3. verdict = {}
  OBVIOUS
<1>4. /\ look' = CASE "met" \in verdict -> "condition"
                   [] {"throws", "bad"} \cap verdict # {} \/ fails -> "throws"
                   [] OTHER -> IF hit THEN "watch" ELSE "none"
      /\ watch' = IF look' \in {"condition", "throws"} THEN watch
                  ELSE {[y EXCEPT !.last = CHOOSE u \in Got(y.t) : TRUE] : y \in watch}
  BY DEF Look
<1>5. (fails <=> Got(t) = {}) /\ (hit <=> v \notin Got(t))
  <2> HIDE DEF x
  <2> QED BY <1>1, <1>2
<1>6. {[y EXCEPT !.last = CHOOSE u \in Got(y.t) : TRUE] : y \in watch} = {[t |-> t, last |-> c]}
  <2>1. {[y EXCEPT !.last = CHOOSE u \in Got(y.t) : TRUE] : y \in watch}
           = {[x EXCEPT !.last = CHOOSE u \in Got(x.t) : TRUE]}
    <3> HIDE DEF x
    <3> QED BY <1>2
  <2> QED BY <2>1, <1>1
<1> HIDE DEF fails, hit, verdict
<1>7. look' = IF fails THEN "throws" ELSE IF hit THEN "watch" ELSE "none"
  BY <1>3, <1>4
<1>8. watch' = watch \/ watch' = {[t |-> t, last |-> c]}
  BY <1>4, <1>6
<1>9. ASSUME t.kind = "register"
      PROVE  /\ look' = "watch" <=> v # Load(r.gp, t.w, t.i)
             /\ watch' = {[t |-> t, last |-> Load(r.gp, t.w, t.i)]}
  <2> DEFINE l == Load(r.gp, t.w, t.i)
  <2>1. Got(t) = {l}
    BY <1>9 DEF Got, Part
  <2> HIDE DEF l
  <2>2. ~fails /\ (hit <=> v # l) /\ c = l
    BY <2>1, <1>5
  <2> HIDE DEF c
  <2>3. look' = IF hit THEN "watch" ELSE "none"
    BY <2>2, <1>7
  <2>4. look' \notin {"condition", "throws"} /\ (look' = "watch" <=> hit)
    BY <2>3
  <2>5. watch' = {[t |-> t, last |-> l]}
    BY <2>2, <2>4, <1>4, <1>6
  <2> QED BY <2>2, <2>4, <2>5 DEF l
<1> QED BY <1>8, <1>9

\* What a step of the debugger leaves of the registers that are watched.
LEMMA WatchKept ==
    ASSUME WatchInv, UNCHANGED <<watch, cond, seen>>, watch # {}, dbg' # "off", r' \in Registers,
           \E S : hist' \in Seq(S),
           \A x : Before(x)' = Before(x) \/ (dbg = "run" /\ Before(x)' = Load(seen, x.t.w, x.t.i))
    PROVE  WatchInv'
<1>1. \A x : dbg = "run" => Before(x) = Load(seen, x.t.w, x.t.i)
  BY DEF Before
<1>2. \A x : Before(x)' = Before(x)
  BY <1>1
<1>3. /\ cond = {} /\ seen \in RegisterFile
      /\ \E t \in Watchable : \E v : watch = {[t |-> t, last |-> v]}
      /\ \A x \in watch : x.t.kind = "register" => x.last = Before(x)
  BY DEF WatchInv
<1>4. \A x \in watch' : x.t.kind = "register" => x.last = Before(x)'
  BY <1>2, <1>3
<1> QED BY <1>3, <1>4 DEF WatchInv

LEMMA LookKeeps ==
    ASSUME WatchInv, Look, watch # {}
    PROVE  WatchInv'
<1>1. PICK t \in Watchable : \E v : watch = {[t |-> t, last |-> v]}
  BY DEF WatchInv
<1>2. /\ cond = {} /\ r \in Registers /\ \E S : hist \in Seq(S)
      /\ UNCHANGED <<r, hist, cond>> /\ seen' = r.gp /\ dbg' = "run"
  BY DEF WatchInv, Look, vars
<1>3. /\ \E u : watch' = {[t |-> t, last |-> u]}
      /\ t.kind = "register" => watch' = {[t |-> t, last |-> Load(r.gp, t.w, t.i)]}
  BY <1>1, <1>2, LookFacts
<1>4. seen' \in RegisterFile
  BY <1>2 DEF Registers, RegisterFile
<1>5. \A x : Before(x)' = Load(seen', x.t.w, x.t.i)
  BY <1>2 DEF Before
<1>6. \A x \in watch' : x.t.kind = "register" => x.last = Before(x)'
  <2> SUFFICES ASSUME NEW x \in watch', x.t.kind = "register" PROVE x.last = Before(x)'
    OBVIOUS
  <2>1. x.t = t
    BY <1>3
  <2>2. x = [t |-> t, last |-> Load(r.gp, t.w, t.i)]
    BY <1>3, <2>1
  <2>3. x.last = Load(r.gp, t.w, t.i)
    BY <2>2
  <2> QED BY <1>2, <1>5, <2>1, <2>3
<1> QED BY <1>2, <1>3, <1>4, <1>6 DEF WatchInv

LEMMA SetRegisters ==
    ASSUME r \in Registers, NEW t \in Watchable, SetTarget(t, Constant(8, 1))
    PROVE  r' \in Registers
<1>1. PICK v : v \in Got(Constant(8, 1)) /\ StoreTarget(t, v)
  BY DEF SetTarget
<1>2. v \in Int
  <2>1. Got(Constant(8, 1)) = {(1 % Span(8)) % Span(2)}
    BY DEF Got, Part, Constant, ConstantOf
  <2>2. Span(8) \in Nat \ {0} /\ Span(2) \in Nat \ {0}
    BY Spans
  <2>3. ASSUME NEW a \in Nat \ {0}, NEW b \in Nat \ {0} PROVE (1 % a) % b \in Int
    OBVIOUS
  <2> QED BY <1>1, <2>1, <2>2, <2>3
<1>3. r.gp \in RegisterFile
  BY DEF Registers, RegisterFile
<1>4. CASE r' = r
  BY <1>4
<1>5. CASE t.kind = "register" /\ r' = [r EXCEPT !.gp = Store(@, t.w, t.i, v)]
  <2> DEFINE g == Store(r.gp, t.w, t.i, v)
  <2>1. t.w \in Width /\ t.i \in 0 .. 3
    BY <1>5, WatchedRegister
  <2>2. g \in RegisterFile
    BY <2>1, <1>2, <1>3, StoreTyped
  <2>3. r' = [r EXCEPT !.gp = g]
    BY <1>5
  <2> HIDE DEF g
  <2> QED BY <2>2, <2>3 DEF Registers, RegisterFile
<1> QED BY <1>1, <1>4, <1>5 DEF StoreTarget

LEMMA SetKeeps ==
    ASSUME WatchInv, watch # {}, NEW t \in Watchable, SetTarget(t, Constant(8, 1))
    PROVE  WatchInv'
<1>1. dbg = "run" /\ UNCHANGED <<hist, steps, dbg, cond, watch, seen>>
  BY DEF SetTarget
<1>2. r \in Registers /\ \E S : hist \in Seq(S)
  BY DEF WatchInv
<1>3. r' \in Registers
  BY <1>2, SetRegisters
<1>4. \A x : Before(x)' = Before(x)
  BY <1>1 DEF Before
<1> QED BY <1>1, <1>2, <1>3, <1>4, WatchKept

LEMMA SequenceGrows ==
    ASSUME NEW s, \E S : s \in Seq(S), NEW h
    PROVE  Append(s, h) # <<>> /\ \E S : Append(s, h) \in Seq(S)
<1>1. PICK S : s \in Seq(S)
  OBVIOUS
<1> DEFINE T == S \cup {h}
<1>2. s \in Seq(T)
  BY <1>1
<1>3. h \in T
  OBVIOUS
<1> HIDE DEF T
<1>4. Append(s, h) \in Seq(T) /\ Len(Append(s, h)) = Len(s) + 1 /\ Len(s) \in Nat
  BY <1>2, <1>3
<1>5. Append(s, h) # <<>>
  BY <1>4
<1> QED BY <1>4, <1>5

LEMMA AddKeeps ==
    ASSUME r \in Registers, \E S : hist \in Seq(S), NEW w \in Width, Compute("add", w, 0, 2)
    PROVE  /\ r' \in Registers /\ hist' # <<>> /\ \E S : hist' \in Seq(S)
           /\ event' = "compute" /\ Kept(Last(hist')) /\ \E h : h.op = "add" /\ hist' = Append(hist, h)
<1>1. "add" \in WriteOps
  BY DEF WriteOps, ArithOps
<1>2. r' \in Registers /\ Kept(Last(hist'))
  BY <1>1, ComputeBytes
<1>3. event' = "compute" /\ \E h : h.op = "add" /\ hist' = Append(hist, h)
  BY DEF Compute, Record
<1> QED BY <1>2, <1>3, SequenceGrows

LEMMA SwapKeeps ==
    ASSUME r \in Registers, \E S : hist \in Seq(S), NEW w \in Width, Exchange(w, 0, 2)
    PROVE  /\ r' \in Registers /\ hist' # <<>> /\ \E S : hist' \in Seq(S)
           /\ event' = "exchange" /\ \E h : h.op = "xchg" /\ hist' = Append(hist, h)
<1> DEFINE a == Load(r.gp, w, 0)
           b == Load(r.gp, w, 2)
           g == Store(r.gp, w, 0, b)
           G == Store(g, w, 2, a)
           h == [op |-> "xchg", w |-> w, i |-> 0, a |-> a, b |-> b, fg |-> r.fg, v |-> b, after |-> r.fg]
<1>1. r.gp \in RegisterFile
  BY DEF Registers, RegisterFile
<1>2. a \in Int /\ b \in Int
  <2>1. a \in Nat /\ b \in Nat
    BY <1>1, LoadRange
  <2> QED BY <2>1
<1>3. Fetched.r \in Registers /\ Fetched.r.gp = r.gp
  BY <1>1, FetchedFacts
<1>4. r' = [Fetched.r EXCEPT !.gp = G] /\ hist' = Append(hist, h) /\ event' = "exchange" /\ h.op = "xchg"
  BY <1>3 DEF Exchange, Record, Registers
<1> HIDE DEF a, b, h
<1>5. g \in RegisterFile
  BY <1>1, <1>2, StoreTyped
<1> HIDE DEF g
<1>6. G \in RegisterFile
  BY <1>2, <1>5, StoreTyped
<1> HIDE DEF G
<1>7. r' \in Registers
  BY <1>1, <1>4, <1>6, StoredRegisters
<1> QED BY <1>1, <1>4, <1>7, SequenceGrows

LEMMA GuestRegisters ==
    ASSUME r \in Registers, \E S : hist \in Seq(S), GuestComputes \/ GuestStores
    PROVE  r' \in Registers /\ (\E S : hist' \in Seq(S)) /\ (hist' # <<>> \/ steps' # 0)
<1>1. CASE GuestComputes
  <2>1. PICK w \in Width : Compute("add", w, 0, 2) \/ Exchange(w, 0, 2)
    BY <1>1 DEF GuestComputes
  <2>2. CASE Compute("add", w, 0, 2)
    BY <2>2, AddKeeps
  <2>3. CASE Exchange(w, 0, 2)
    BY <2>3, SwapKeeps
  <2> QED BY <2>1, <2>2, <2>3
<1>2. CASE GuestStores
  <2>1. hist' = hist /\ steps' = 1
    BY <1>2 DEF GuestStores
  <2>2. PICK t : r' = DoStore(Fetched, AddressOf(t), 0).r
    BY <1>2 DEF GuestStores
  <2>3. \A a : DoStore(Fetched, a, 0).r = Fetched.r
    BY DEF DoStore, Out
  <2>4. r' \in Registers
    BY <2>2, <2>3, FetchedFacts
  <2> QED BY <2>1, <2>4
<1> QED BY <1>1, <1>2

LEMMA GuestKeeps ==
    ASSUME WatchInv, watch # {}, GuestStep
    PROVE  WatchInv'
<1>1. /\ dbg = "run" /\ dbg' = "look" /\ UNCHANGED <<cond, watch, seen>>
      /\ GuestComputes \/ GuestStores
  BY DEF GuestStep
<1>2. r \in Registers /\ \E S : hist \in Seq(S)
  BY DEF WatchInv
<1>3. r' \in Registers /\ (\E S : hist' \in Seq(S)) /\ (hist' # <<>> \/ steps' # 0)
  BY <1>1, <1>2, GuestRegisters
<1>4. \A x : Before(x)' = Load(seen, x.t.w, x.t.i)
  BY <1>1, <1>3 DEF Before
<1> QED BY <1>1, <1>3, <1>4, WatchKept

LEMMA WatchNext == WatchInv /\ [INext]_ivars => WatchInv'
<1> SUFFICES ASSUME WatchInv, [INext]_ivars PROVE WatchInv'
  OBVIOUS
<1>1. CASE UNCHANGED ivars
  BY <1>1 DEF WatchInv, Before, ivars, dvars, vars
<1>2. CASE dbg = "off" /\ UNCHANGED dvars
  BY <1>2 DEF WatchInv, dvars
<1>3. CASE watch = {} /\ watch' = {}
  BY <1>3 DEF WatchInv
<1>4. CASE Look
  <2>1. CASE watch = {}
    <3>1. watch' = {}
      BY <2>1, <1>4 DEF Look
    <3> QED BY <1>3, <2>1, <3>1
  <2> QED BY <2>1, <1>4, LookKeeps
<1>5. ASSUME NEW t \in Watchable, watch # {}, SetTarget(t, Constant(8, 1))
      PROVE  WatchInv'
  BY <1>5, SetKeeps
<1>6. CASE GuestStep
  <2>1. watch' = watch
    BY <1>6 DEF GuestStep
  <2> QED BY <1>3, <1>6, <2>1, GuestKeeps
<1>7. CASE Quiet
  BY <1>1, <1>7 DEF Quiet
<1> QED BY <1>1, <1>2, <1>4, <1>5, <1>6, <1>7 DEF INext

LEMMA WatchStep ==
    ASSUME WatchInv, [INext]_ivars, dbg = "look", dbg' = "run",
           NEW x \in watch, x.t.kind = "register"
    PROVE  look' = "watch" <=>
               \E k \in (x.t.w * x.t.i) .. (x.t.w * x.t.i + x.t.w - 1) :
                   Byte(r.gp, k) # IF hist = <<>> /\ steps = 0 THEN 0 ELSE Byte(seen, k)
<1>1. Look
  BY DEF INext, ivars, dvars, SetTarget, GuestStep, Quiet
<1>a. PICK t \in Watchable : \E v : watch = {[t |-> t, last |-> v]}
  BY DEF WatchInv
<1>2. PICK v : watch = {[t |-> t, last |-> v]}
  BY <1>a
<1>3. x = [t |-> t, last |-> v]
  BY <1>2
<1>4. x.t = t /\ x.last = v
  BY <1>3
<1>5. /\ cond = {} /\ r.gp \in RegisterFile /\ seen \in RegisterFile /\ v = Before(x)
      /\ t.kind = "register"
  BY <1>4 DEF WatchInv, Registers, RegisterFile
<1> DEFINE w == t.w
           i == t.i
           first == hist = <<>> /\ steps = 0
           old == IF first THEN Zeros ELSE seen
<1>6. w \in Width /\ i \in 0 .. 3
  BY <1>5, WatchedRegister
<1>7. look' = "watch" <=> v # Load(r.gp, w, i)
  BY <1>1, <1>2, <1>5, LookFacts
<1>8. v = Load(old, w, i) /\ old \in RegisterFile
  <2>1. v = IF first THEN 0 ELSE Load(seen, w, i)
    BY <1>4, <1>5 DEF Before
  <2> HIDE DEF first, w, i
  <2> QED BY <2>1, <1>5, <1>6, LoadZeros
<1>9. \A k \in (w * i) .. (w * i + w - 1) : Byte(old, k) = IF first THEN 0 ELSE Byte(seen, k)
  <2> HIDE DEF first, w, i
  <2> QED BY <1>6, LoadZeros
<1> HIDE DEF old, first, w, i
<1>10. Load(r.gp, w, i) = Load(old, w, i) <=>
          \A k \in (w * i) .. (w * i + w - 1) : Byte(r.gp, k) = Byte(old, k)
  BY <1>5, <1>6, <1>8, LoadBytes
<1>11. look' = "watch" <=>
          \E k \in (w * i) .. (w * i + w - 1) :
              Byte(r.gp, k) # IF first THEN 0 ELSE Byte(seen, k)
  BY <1>7, <1>8, <1>9, <1>10
<1> QED BY <1>4, <1>11 DEF first, w, i

(***************************************************************************)
(* A watched register stops the guest exactly when one of its bytes has    *)
(* changed since if_breakpoint last looked, for every width of a byte,     *)
(* every program and every use of Set: the value kept with the watch is    *)
(* what it was then, and equal numbers have equal bytes.                   *)
(***************************************************************************)
THEOREM WatchesFire == ISpec => WatchFires
<1>1. IInit => WatchInv
  BY WatchInit
<1>2. WatchInv /\ [INext]_ivars => WatchInv'
  BY WatchNext
<1> DEFINE Fires ==
             dbg = "look" /\ dbg' = "run" => \A x \in watch : x.t.kind = "register" =>
                (look' = "watch" <=>
                    \E k \in (x.t.w * x.t.i) .. (x.t.w * x.t.i + x.t.w - 1) :
                        Byte(r.gp, k) # IF hist = <<>> /\ steps = 0 THEN 0 ELSE Byte(seen, k))
<1>3. WatchInv /\ [INext]_ivars => [Fires]_ivars
  <2> SUFFICES ASSUME WatchInv, [INext]_ivars PROVE Fires
    OBVIOUS
  <2> QED BY WatchStep
<1>4. [][Fires]_ivars => WatchFires
  BY DEF WatchFires
<1> HIDE DEF Fires
<1> QED BY <1>1, <1>2, <1>3, <1>4, PTL DEF ISpec

-----------------------------------------------------------------------------
(***************************************************************************)
(* The guest under the debugger: what it computes and stores, and what the *)
(* client sets, stays in the registers and inside the memory.              *)
(***************************************************************************)
Inside(m) == \A a \in DOMAIN m : a + m[a].n <= MemSize

Attached ==
    /\ mode = "alu" /\ frames = <<>> /\ r \in Registers /\ Inside(mem)
    /\ \E S : hist \in Seq(S)
    /\ \A k \in 1 .. Len(hist) : hist[k].op \in {"add", "xchg"}
    /\ event \in {"start", "compute", "exchange"}

InspectionInv ==
    /\ dbg = "off" => MachineInv
    /\ dbg # "off" => Attached

LEMMA InsideWritten ==
    ASSUME NEW m, Inside(m), NEW a, NEW n, a + n <= MemSize, NEW v
    PROVE  Inside(Written(m, a, n, v))
<1> DEFINE kept == {b \in DOMAIN m : Disjoint(a, n, b, m[b].n)}
           w == [b \in kept \cup {a} |-> IF b = a THEN [n |-> n, v |-> v] ELSE m[b]]
<1>1. Written(m, a, n, v) = w
  BY DEF Written
<1>2. \A b \in DOMAIN w : b = a \/ (b \in DOMAIN m /\ w[b] = m[b])
  OBVIOUS
<1>3. w[a].n = n
  OBVIOUS
<1> HIDE DEF w
<1>4. Inside(w)
  BY <1>2, <1>3 DEF Inside
<1> QED BY <1>1, <1>4

\* The addresses of the targets.
LEMMA PartTyped ==
    ASSUME r.gp \in RegisterFile
    PROVE  /\ \A w \in Width, i \in 0 .. 3 : Part(Register(w, i)) \in Int
           /\ \A w \in Width, v \in Nat : Part(Constant(w, v)) \in Int
<1>1. ASSUME NEW w \in Width, NEW i \in 0 .. 3 PROVE Part(Register(w, i)) \in Int
  <2>1. Part(Register(w, i)) = Load(r.gp, w, i)
    BY DEF Part, Register
  <2>2. Load(r.gp, w, i) \in Nat
    BY LoadRange
  <2> QED BY <2>1, <2>2
<1>2. ASSUME NEW w \in Width, NEW v \in Nat PROVE Part(Constant(w, v)) \in Int
  <2>1. Part(Constant(w, v)) = (v % Span(w)) % Span(2)
    BY DEF Part, Constant, ConstantOf
  <2>2. Span(w) \in Nat \ {0} /\ Span(2) \in Nat \ {0}
    BY SpanType DEF Width
  <2>3. ASSUME NEW a \in Nat \ {0}, NEW b \in Nat \ {0} PROVE (v % a) % b \in Int
    OBVIOUS
  <2> QED BY <2>1, <2>2, <2>3
<1> QED BY <1>1, <1>2

LEMMA TargetAddress ==
    ASSUME r.gp \in RegisterFile, NEW t \in Targets, t.kind = "memory"
    PROVE  AddressOf(t) \in Int
<1> DEFINE N == Negative
           A == Memory(8, 1, Register(8, 2), Constant(2, 9), N)
           B == Memory(8, 4, Register(8, 0), Register(8, 2), Constant(1, 0))
<1>1. Span(1) - 1 \in Nat
  BY SpanType DEF Width
<1>2. /\ Part(Register(8, 0)) \in Int /\ Part(Register(8, 2)) \in Int
      /\ Part(Constant(2, 9)) \in Int /\ Part(Constant(1, 0)) \in Int /\ Part(N) \in Int
  BY <1>1, PartTyped DEF Negative, Width
<1>3. \A w, q, b, c, d :
         /\ Memory(w, q, b, c, d).ratio = q /\ Memory(w, q, b, c, d).base = b
         /\ Memory(w, q, b, c, d).off1 = c /\ Memory(w, q, b, c, d).off2 = d
  BY DEF Memory
<1>4. N.w = 1 /\ Constant(1, 0).w = 1 /\ 1 \in Width
  BY DEF Negative, Constant, Width
<1>5. AddressOf(A) \in Int
  <2>1. AddressOf(A) = EffectiveAddress(Part(Register(8, 2)), Part(Constant(2, 9)), 1, Part(N), 1)
    BY <1>3, <1>4 DEF AddressOf
  <2> HIDE DEF N
  <2> QED BY <2>1, <1>2, <1>4, AddressTyped
<1>6. AddressOf(B) \in Int
  <2>1. AddressOf(B) = EffectiveAddress(Part(Register(8, 0)), Part(Register(8, 2)), 1, Part(Constant(1, 0)), 4)
    BY <1>3, <1>4 DEF AddressOf
  <2> QED BY <2>1, <1>2, <1>4, AddressTyped
<1>7. \/ t = A \/ t = B
      \/ \E w, i : t = Register(w, i)
      \/ \E w, v : t = Constant(w, v)
  BY Zenon DEF Targets, Negative
<1>8. \A w, i, v : Register(w, i).kind # "memory" /\ Constant(w, v).kind # "memory"
  BY DEF Register, Constant
<1>9. t = A \/ t = B
  <2> HIDE DEF A, B
  <2> QED BY <1>7, <1>8
<1> HIDE DEF A, B
<1> QED BY <1>5, <1>6, <1>9

LEMMA OpsGrow ==
    ASSUME NEW s, \E S : s \in Seq(S), NEW T, \A k \in 1 .. Len(s) : s[k].op \in T, NEW h, h.op \in T
    PROVE  \A k \in 1 .. Len(Append(s, h)) : Append(s, h)[k].op \in T
<1>1. PICK S : s \in Seq(S)
  OBVIOUS
<1> DEFINE U == S \cup {h}
<1>2. s \in Seq(U) /\ h \in U
  BY <1>1
<1> HIDE DEF U
<1>3. /\ Len(Append(s, h)) = Len(s) + 1 /\ Append(s, h)[Len(s) + 1] = h /\ Len(s) \in Nat
      /\ \A k \in 1 .. Len(s) : Append(s, h)[k] = s[k]
  BY <1>2
<1> QED BY <1>3

LEMMA AttachedInit == IInit => InspectionInv
<1> SUFFICES ASSUME IInit PROVE InspectionInv
  OBVIOUS
<1>1. Init /\ (dbg # "off" => mode = "alu")
  BY DEF IInit
<1>2. MachineInv
  BY <1>1, MachineInit
<1>3. ASSUME mode = "alu" PROVE Attached
  <2>1. AluInv
    BY <1>2, <1>3 DEF MachineInv, ArithmeticInv
  <2>2. r \in Registers /\ DOMAIN mem = {}
    BY <2>1 DEF AluInv
  <2>3. frames = <<>> /\ hist = <<>> /\ event = "start"
    BY <1>1 DEF Init
  <2>4. hist \in Seq({}) /\ Len(hist) = 0
    BY <2>3
  <2> QED BY <1>3, <2>2, <2>3, <2>4 DEF Attached, Inside
<1> QED BY <1>1, <1>2, <1>3 DEF InspectionInv

LEMMA AttachedStep ==
    ASSUME Attached, \/ \E t \in Watchable : SetTarget(t, Constant(8, 1))
                     \/ GuestStep
    PROVE  /\ Attached'
           /\ hist' # hist /\ event' = "compute" => Kept(Last(hist'))
<1>1. /\ mode = "alu" /\ frames = <<>> /\ r \in Registers /\ Inside(mem) /\ \E S : hist \in Seq(S)
      /\ \A k \in 1 .. Len(hist) : hist[k].op \in {"add", "xchg"}
      /\ event \in {"start", "compute", "exchange"}
  BY DEF Attached
<1>2. ASSUME NEW t \in Watchable, SetTarget(t, Constant(8, 1))
      PROVE  Attached' /\ hist' = hist
  <2>1. UNCHANGED <<mode, hist, frames, event>>
    BY <1>2 DEF SetTarget
  <2>2. r' \in Registers
    BY <1>1, <1>2, SetRegisters
  <2>3. Inside(mem')
    <3>1. \/ mem' = mem
          \/ \E v : AddressOf(t) + t.w <= MemSize /\ mem' = Written(mem, AddressOf(t), t.w, v)
      BY <1>2 DEF SetTarget, StoreTarget
    <3> QED BY <1>1, <3>1, InsideWritten
  <2> QED BY <1>1, <2>1, <2>2, <2>3 DEF Attached
<1>3. ASSUME GuestStores PROVE Attached' /\ hist' = hist
  <2>1. UNCHANGED <<mode, hist, frames, event>>
    BY <1>3 DEF GuestStores
  <2>2. r' \in Registers
    BY <1>1, <1>3, GuestRegisters
  <2>3. PICK t \in Targets : /\ t.kind = "memory" /\ DoStore(Fetched, AddressOf(t), 0).thrown = "none"
                             /\ mem' = DoStore(Fetched, AddressOf(t), 0).mem
    BY <1>3 DEF GuestStores
  <2> DEFINE a == AddressOf(t)
  <2>4. a \in Int
    BY <1>1, <2>3, TargetAddress DEF Registers, RegisterFile
  <2>5. DoStore(Fetched, a, 0).thrown = "none" /\ mem' = DoStore(Fetched, a, 0).mem
    BY <2>3
  <2> HIDE DEF a
  <2>6. a + 8 <= MemSize /\ mem' = Written(mem, a, 8, Fetched.r.gp[0])
    <3>1. CASE a + 8 > MemSize
      <4>1. DoStore(Fetched, a, 0).thrown = "IllegalMemory"
        BY <3>1 DEF DoStore, Out
      <4> QED BY <4>1, <2>5
    <3>2. CASE ~(a + 8 > MemSize)
      <4>1. DoStore(Fetched, a, 0).mem = Written(Fetched.mem, a, 8, Fetched.r.gp[0])
        BY <3>2 DEF DoStore, Out
      <4>2. Fetched.mem = mem
        BY <1>1, FetchedFacts
      <4>3. a + 8 <= MemSize
        BY <3>2, <2>4, StackAssumption
      <4> QED BY <4>1, <4>2, <4>3, <2>5
    <3> QED BY <3>1, <3>2
  <2>7. Inside(mem')
    BY <1>1, <2>6, InsideWritten
  <2> QED BY <1>1, <2>1, <2>2, <2>7 DEF Attached
<1>4. ASSUME GuestComputes PROVE Attached' /\ (event' = "compute" => Kept(Last(hist')))
  <2>1. PICK w \in Width : Compute("add", w, 0, 2) \/ Exchange(w, 0, 2)
    BY <1>4 DEF GuestComputes
  <2>2. UNCHANGED <<mode, frames, mem>>
    BY <2>1 DEF Compute, Exchange, Record
  <2>3. /\ r' \in Registers /\ (\E S : hist' \in Seq(S)) /\ event' \in {"compute", "exchange"}
        /\ \E h : h.op \in {"add", "xchg"} /\ hist' = Append(hist, h)
        /\ event' = "compute" => Kept(Last(hist'))
    <3>1. CASE Compute("add", w, 0, 2)
      BY <1>1, <3>1, AddKeeps
    <3>2. CASE Exchange(w, 0, 2)
      BY <1>1, <3>2, SwapKeeps
    <3> QED BY <2>1, <3>1, <3>2
  <2>4. \A k \in 1 .. Len(hist') : hist'[k].op \in {"add", "xchg"}
    BY <1>1, <2>3, OpsGrow
  <2> QED BY <1>1, <2>2, <2>3, <2>4 DEF Attached
<1> QED BY <1>2, <1>3, <1>4 DEF GuestStep

\* A step of the debugged machine is one of the guest alone or keeps Attached.
LEMMA InspectionSteps ==
    ASSUME InspectionInv, [INext]_ivars
    PROVE  /\ InspectionInv'
           /\ \/ UNCHANGED vars
              \/ dbg = "off" /\ MachineInv /\ Next
              \/ /\ Attached /\ Attached'
                 /\ hist' # hist /\ event' = "compute" => Kept(Last(hist'))
<1>1. CASE UNCHANGED ivars
  BY <1>1 DEF ivars, dvars, vars, InspectionInv, Attached, MachineInv, ArithmeticInv, StackInv,
          AluInv, HistoryInv, Remembers, Compared, DivisionExact, JumpsOnRelation
<1>2. CASE dbg = "off" /\ Next /\ UNCHANGED dvars
  <2>1. MachineInv /\ dbg' = "off"
    BY <1>2 DEF InspectionInv, dvars
  <2>2. MachineInv'
    BY <1>2, <2>1, MachineNext
  <2> QED BY <1>2, <2>1, <2>2 DEF InspectionInv
<1>3. CASE Look
  <2>1. dbg # "off" /\ dbg' = "run" /\ UNCHANGED vars
    BY <1>3 DEF Look
  <2>2. Attached'
    BY <2>1 DEF InspectionInv, Attached, vars
  <2> QED BY <2>1, <2>2 DEF InspectionInv
<1>4. ASSUME NEW t \in Watchable, SetTarget(t, Constant(8, 1)) \/ GuestStep
      PROVE  dbg # "off" /\ dbg' # "off" /\ Attached /\ Attached'
             /\ (hist' # hist /\ event' = "compute" => Kept(Last(hist')))
  <2>1. dbg # "off" /\ dbg' # "off"
    BY <1>4 DEF SetTarget, GuestStep
  <2> QED BY <2>1, <1>4, AttachedStep DEF InspectionInv
<1>5. CASE Quiet
  BY <1>1, <1>5 DEF Quiet
<1>6. Register(8, 0) \in Watchable
  BY DEF Watchable, Targets, Register
<1>7. CASE GuestStep
  BY <1>4, <1>6, <1>7 DEF InspectionInv
<1>8. ASSUME NEW t \in Watchable, SetTarget(t, Constant(8, 1))
      PROVE  /\ InspectionInv'
             /\ Attached /\ Attached' /\ (hist' # hist /\ event' = "compute" => Kept(Last(hist')))
  BY <1>4, <1>8 DEF InspectionInv
<1> QED BY <1>1, <1>2, <1>3, <1>5, <1>7, <1>8 DEF INext

LEMMA AttachedHolds == InspectionInv => ArithmeticExact /\ FramesIntact
<1>1. ASSUME Attached PROVE ArithmeticExact
  <2>1. PICK S : hist \in Seq(S)
    BY <1>1 DEF Attached
  <2>2. event # "divide" /\ event # "taken" /\ event # "passed"
    BY <1>1 DEF Attached
  <2>3. ASSUME Len(hist) = 2 PROVE /\ hist[1].op = "add" \/ hist[1].op = "xchg"
                                   /\ hist[2].op = "add" \/ hist[2].op = "xchg"
    BY <1>1, <2>3 DEF Attached
  <2>4. WideArithmetic
    BY <2>3 DEF WideArithmetic
  <2>5. RotationsInvert
    <3>1. ASSUME Len(hist) = 2
          PROVE  hist[1].op \notin {"rol", "ror", "rcl", "rcr"}
      BY <2>3, <3>1
    <3>2. ASSUME NEW x, NEW y, NEW u, NEW v, {x, y} = {u, v} PROVE x \in {u, v}
      BY <3>2
    <3> QED BY <3>1, <3>2 DEF RotationsInvert
  <2> QED BY <2>2, <2>4, <2>5 DEF ArithmeticExact, DivisionExact, JumpsOnRelation
<1>2. ASSUME Attached PROVE FramesIntact
  <2>1. DOMAIN frames = {}
    BY <1>2 DEF Attached
  <2> QED BY <1>2, <2>1 DEF FramesIntact, Attached, Inside
<1>3. ASSUME MachineInv PROVE ArithmeticExact /\ FramesIntact
  BY <1>3, ArithmeticHolds, StackHolds DEF MachineInv
<1> QED BY <1>1, <1>2, <1>3 DEF InspectionInv

(***************************************************************************)
(* What the four theorems above say of the guest alone holds of the guest  *)
(* under the debugger too: neither if_breakpoint nor Set of the route      *)
(* /Action leaves a register that is no word, an object beyond the memory, *)
(* or a byte changed that an instruction does not name.                    *)
(***************************************************************************)
THEOREM DebuggedMachine ==
    ISpec => []ArithmeticExact /\ []FramesIntact /\ Restored /\ NothingElseTouched
<1> DEFINE Returns ==
             frames # <<>> /\ frames' = Front(frames) /\ event' # "start" =>
               LET f == Last(frames)
               IN  /\ r'.sp = f.sp
                   /\ f.kind = "push" => Load(r'.gp, f.n, 1) = f.v
                   /\ f.kind = "call" => r'.cb = f.v.cb /\ r'.ip = f.v.ip
                   /\ f.kind = "all"  => [r' EXCEPT !.cb = 0, !.ip = 0] = [f.v EXCEPT !.cb = 0, !.ip = 0]
                   /\ f.kind = "int"  => r' = f.v
           Only ==
             hist' # hist /\ event' = "compute" =>
               LET h == Last(hist')
               IN  \A k \in (0 .. (8 * FerCount - 1)) \ ((h.w * h.i) .. (h.w * h.i + h.w - 1)) :
                       Byte(r'.gp, k) = Byte(r.gp, k)
           Abandons ==
             event' = "overflow" /\ event # "overflow" =>
               /\ r'.gp = r.gp /\ r'.sb = r.sb /\ r'.cps = r.cps /\ r'.fg.im = 1
               /\ r'.sp \in {r.sp, r.sp - 8, r.sp + 8}
               /\ frames' = frames
<1>1. IInit => InspectionInv
  BY AttachedInit
<1>2. InspectionInv /\ [INext]_ivars => InspectionInv'
  BY InspectionSteps
<1>3. InspectionInv /\ [INext]_ivars => [Returns]_vars /\ [Only]_vars /\ [Abandons]_vars
  <2> SUFFICES ASSUME InspectionInv, [INext]_ivars, ~UNCHANGED vars
               PROVE  Returns /\ Only /\ Abandons
    OBVIOUS
  <2>1. \/ MachineInv /\ Next
        \/ Attached /\ Attached' /\ (hist' # hist /\ event' = "compute" => Kept(Last(hist')))
    BY InspectionSteps
  <2>2. CASE MachineInv /\ Next
    <3>1. frames # <<>> /\ frames' = Front(frames) /\ event' # "start" => GivesBack
      BY <2>2, ReturnStep
    <3>2. Returns
      BY <3>1 DEF GivesBack
    <3>3. /\ hist' # hist /\ event' = "compute" => Kept(Last(hist'))
          /\ event' = "overflow" /\ event # "overflow" => Abandoned
      BY <2>2, ContainedStep
    <3> QED BY <3>2, <3>3 DEF Kept, Abandoned
  <2>3. CASE Attached /\ Attached' /\ (hist' # hist /\ event' = "compute" => Kept(Last(hist')))
    <3>1. frames = <<>> /\ event' # "overflow"
      BY <2>3 DEF Attached
    <3> QED BY <2>3, <3>1 DEF Kept
  <2> QED BY <2>1, <2>2, <2>3
<1>4. ([][Returns]_vars <=> Restored) /\ ([][Only]_vars /\ [][Abandons]_vars <=> NothingElseTouched)
  BY DEF Restored, NothingElseTouched, OnlyDestinationWritten, OverflowAbandons
<1>5. InspectionInv => ArithmeticExact /\ FramesIntact
  BY AttachedHolds
<1> HIDE DEF Returns, Only, Abandons
<1> QED BY <1>1, <1>2, <1>3, <1>4, <1>5, PTL DEF ISpec
=============================================================================
