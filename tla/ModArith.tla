------------------------------ MODULE ModArith ------------------------------
(***************************************************************************)
(* Facts about % and about rounding up to a multiple that the proofs of    *)
(* the ring buffers rest on.  The SMT backend knows the defining equation  *)
(* of \div and %, everything else is derived here once.                    *)
(***************************************************************************)
EXTENDS Integers, TLAPS

\* n rounded up to a multiple of a (the shape of GET_ALIGNED_SZ).
RoundUp(n, a) == ((n + a - 1) \div a) * a

\* Division with remainder.
LEMMA DivMod ==
  ASSUME NEW a \in Int, NEW n \in Nat \ {0}
  PROVE  /\ a \div n \in Int
         /\ a % n \in 0..(n - 1)
         /\ a = n * (a \div n) + (a % n)
  OBVIOUS

\* The remainder is determined by the equation.
LEMMA ModUnique ==
  ASSUME NEW n \in Nat \ {0}, NEW q \in Int, NEW r \in 0..(n - 1)
  PROVE  (n * q + r) % n = r
  OBVIOUS

\* A number below the modulus is its own remainder.
LEMMA ModSmall ==
  ASSUME NEW n \in Nat \ {0}, NEW a \in 0..(n - 1)
  PROVE  a % n = a
  OBVIOUS

\* Adding a multiple of the modulus changes nothing.
LEMMA ModShift ==
  ASSUME NEW n \in Nat \ {0}, NEW a \in Int, NEW q \in Int
  PROVE  (a + n * q) % n = a % n
<1> DEFINE d == a \div n
           r == a % n
<1>1. d \in Int /\ r \in 0..(n - 1) /\ a = n * d + r
  BY DivMod
<1>2. d + q \in Int /\ a + n * q = n * (d + q) + r
  BY <1>1
<1>3. (n * (d + q) + r) % n = r
  <2> HIDE DEF d, r
  <2> QED BY <1>1, <1>2, ModUnique
<1> QED BY <1>2, <1>3

\* One turn around the ring.
LEMMA ModWrap ==
  ASSUME NEW n \in Nat \ {0}, NEW a \in n..(2 * n - 1)
  PROVE  a % n = a - n
<1>1. a - n \in 0..(n - 1) /\ a = n * 1 + (a - n)
  OBVIOUS
<1> QED BY <1>1, ModUnique

\* The remainder may be taken of a summand first.
LEMMA ModAdd ==
  ASSUME NEW a \in Int, NEW b \in Int, NEW n \in Nat \ {0}
  PROVE  ((a % n) + b) % n = (a + b) % n
<1> DEFINE d == a \div n
           r == a % n
<1>1. d \in Int /\ r \in 0..(n - 1) /\ a = n * d + r
  BY DivMod
<1>2. r + b \in Int /\ a + b = (r + b) + n * d
  BY <1>1
<1>3. ((r + b) + n * d) % n = (r + b) % n
  <2> HIDE DEF d, r
  <2> QED BY <1>1, <1>2, ModShift
<1> QED BY <1>2, <1>3

\* Two numbers less than a turn apart have different remainders.
LEMMA ModDistinct ==
  ASSUME NEW a \in Int, NEW b \in Int, NEW n \in Nat \ {0}, a < b, b < a + n
  PROVE  a % n # b % n
<1> SUFFICES ASSUME a % n = b % n PROVE FALSE
  OBVIOUS
<1> DEFINE d == a \div n
           e == b \div n
           r == a % n
<1>1. d \in Int /\ e \in Int /\ r \in 0..(n - 1) /\ a = n * d + r /\ b = n * e + r
  BY DivMod
<1>2. 0 < n * (e - d) /\ n * (e - d) < n
  BY <1>1
<1>3. CASE e - d <= 0
  BY <1>1, <1>2, <1>3
<1>4. CASE e - d >= 1
  BY <1>1, <1>2, <1>4
<1> QED BY <1>1, <1>3, <1>4

\* A modulus that divides the other one may be taken last.
LEMMA ModMod ==
  ASSUME NEW a \in Int, NEW n \in Nat \ {0}, NEW m \in Nat \ {0}, m % n = 0
  PROVE  (a % m) % n = a % n
<1> DEFINE d == a \div m
           r == a % m
           k == m \div n
<1>1. d \in Int /\ r \in 0..(m - 1) /\ a = m * d + r
  BY DivMod
<1>2. k \in Int /\ m = n * k
  BY DivMod
<1>3. k * d \in Int /\ r \in Int
  BY <1>1, <1>2
<1>4. (r + n * (k * d)) % n = r % n
  <2> HIDE DEF d, r, k
  <2> QED BY <1>3, ModShift
<1>5. a = r + n * (k * d)
  <2> HIDE DEF d, r, k
  <2> QED BY <1>1, <1>2
<1> QED BY <1>4, <1>5

\* Rounding up gives the next multiple.
LEMMA RoundUpIs ==
  ASSUME NEW n \in Nat, NEW a \in Nat \ {0}
  PROVE  /\ RoundUp(n, a) \in Nat
         /\ RoundUp(n, a) % a = 0
         /\ n <= RoundUp(n, a)
         /\ RoundUp(n, a) < n + a
<1> DEFINE t == n + a - 1
           q == t \div a
           r == t % a
<1>1. t \in Int
  OBVIOUS
<1>2. q \in Int /\ r \in 0..(a - 1) /\ t = a * q + r
  <2> HIDE DEF t
  <2> QED BY <1>1, DivMod
<1>3. q * a = n + a - 1 - r
  <2> HIDE DEF q, r
  <2> QED BY <1>2
<1>4. (q * a) % a = 0
  <2> HIDE DEF t, q, r
  <2>1. (a * q + 0) % a = 0
    BY <1>2, ModUnique
  <2> QED BY <1>2, <2>1
<1>5. RoundUp(n, a) = q * a
  BY DEF RoundUp
<1> HIDE DEF t, q, r
<1> QED BY <1>2, <1>3, <1>4, <1>5

\* Rounding up a number already aligned changes nothing, and no multiple lies
\* between a number and its rounding.
LEMMA RoundUpLeast ==
  ASSUME NEW n \in Nat, NEW a \in Nat \ {0}, NEW m \in Nat, m % a = 0, n <= m
  PROVE  RoundUp(n, a) <= m
<1> DEFINE x == RoundUp(n, a)
           p == x \div a
           k == m \div a
<1>1. x \in Nat /\ x % a = 0 /\ x < n + a
  BY RoundUpIs
<1>2. p \in Int /\ x = a * p
  <2> HIDE DEF x
  <2> QED BY <1>1, DivMod
<1>3. k \in Int /\ m = a * k
  BY DivMod
<1> HIDE DEF x, p, k
<1>4. SUFFICES ASSUME x > m PROVE FALSE
  BY <1>1 DEF x
<1>5. CASE p <= k
  BY <1>2, <1>3, <1>4, <1>5
<1>6. CASE p >= k + 1
  <2>1. a * p >= a * k + a
    BY <1>2, <1>3, <1>6
  <2> QED BY <1>1, <1>2, <1>3, <2>1
<1> QED BY <1>2, <1>3, <1>5, <1>6

\* Rounding commutes with taking a multiple away.
LEMMA RoundUpShift ==
  ASSUME NEW n \in Nat, NEW a \in Nat \ {0}, NEW m \in Nat, m % a = 0, m <= n
  PROVE  RoundUp(n - m, a) = RoundUp(n, a) - m
<1>1. n - m \in Nat
  OBVIOUS
<1>2. /\ RoundUp(n, a) \in Nat /\ RoundUp(n - m, a) \in Nat
      /\ n <= RoundUp(n, a) /\ n - m <= RoundUp(n - m, a)
      /\ RoundUp(n, a) % a = 0 /\ RoundUp(n - m, a) % a = 0
  BY <1>1, RoundUpIs
<1> DEFINE k == m \div a
           x == RoundUp(n, a)
           y == RoundUp(n - m, a)
<1>3. k \in Int /\ m = a * k
  BY DivMod
<1>4. x \in Int /\ y \in Int /\ -k \in Int
  <2> HIDE DEF k
  <2> QED BY <1>2, <1>3
<1>5. (y + a * k) % a = y % a /\ (x + a * (-k)) % a = x % a
  <2> HIDE DEF x, y, k
  <2> QED BY <1>3, <1>4, ModShift
<1>6. y + a * k = y + m /\ x + a * (-k) = x - m
  <2> HIDE DEF x, y, k
  <2> QED BY <1>3, <1>4
<1>7. (y + m) % a = 0 /\ y + m \in Nat /\ n <= y + m
  BY <1>2, <1>5, <1>6
<1>8. (x - m) % a = 0 /\ x - m \in Nat /\ n - m <= x - m
  BY <1>2, <1>5, <1>6
<1>9. x <= y + m
  BY <1>7, RoundUpLeast
<1>10. y <= x - m
  BY <1>1, <1>8, RoundUpLeast
<1> QED BY <1>2, <1>9, <1>10
=============================================================================
