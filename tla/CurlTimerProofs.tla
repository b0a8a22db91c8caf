-------------------------- MODULE CurlTimerProofs --------------------------
(***************************************************************************)
(* Machine-checked proofs about CurlTimer, for any number of transfers,    *)
(* any limits, any number of ticks in a millisecond and of milliseconds in *)
(* a second, and any other waits.                                          *)
(***************************************************************************)
EXTENDS CurlTimer, SequenceTheorems, WellFoundedInduction, TLAPS

-----------------------------------------------------------------------------
(***************************************************************************)
(* Arithmetic: the smallest of a set, and division                         *)
(***************************************************************************)

\* A set of natural numbers that is not empty has a smallest element, which
\* Min of FiniteSetsExt chooses.
LEMMA MinFacts ==
    ASSUME NEW S, S \subseteq Nat, S # {}
    PROVE  /\ Min(S) \in S
           /\ \A x \in S : Min(S) <= x
<1> DEFINE R == {ss \in Nat \X Nat : ss[1] < ss[2]}
<1>1. IsWellFoundedOn(R, Nat)
  BY NatLessThanWellFounded, Zenon DEF OpToRel
<1>2. PICK m \in S : \A y \in S : ~ (<<y, m>> \in R)
  BY <1>1, WFMin
<1>3. ASSUME NEW y \in S PROVE m <= y
  <2>1. y \in Nat /\ m \in Nat
    OBVIOUS
  <2>2. y < m => <<y, m>> \in R
    BY <2>1
  <2>3. <<y, m>> \notin R
    BY <1>2
  <2> QED BY <2>1, <2>2, <2>3
<1> QED BY <1>3 DEF Min

\* The larger of two numbers.
LEMMA MaxFacts ==
    ASSUME NEW a \in Int, NEW b \in Int
    PROVE  /\ Max({a, b}) \in {a, b}
           /\ Max({a, b}) >= a /\ Max({a, b}) >= b
<1>1. \E x \in {a, b} : \A y \in {a, b} : x >= y
  <2>1. CASE a >= b
    BY <2>1
  <2>2. CASE ~(a >= b)
    BY <2>2
  <2> QED BY <2>1, <2>2
<1> QED BY <1>1 DEF Max

\* Division with remainder.
LEMMA DivFacts ==
    ASSUME NEW a \in Int, NEW m \in Nat \ {0}
    PROVE  /\ a \div m \in Int
           /\ a % m \in 0..(m - 1)
           /\ a = m * (a \div m) + (a % m)
  OBVIOUS

\* A quotient is what lies between.
LEMMA DivUnique ==
    ASSUME NEW a \in Int, NEW m \in Nat \ {0}, NEW q \in Int, NEW r \in 0..(m - 1),
           a = m * q + r
    PROVE  a \div m = q /\ a % m = r
  OBVIOUS

\* Quotients of natural numbers, up to rounding.
LEMMA DivOrder ==
    ASSUME NEW a \in Nat, NEW b \in Nat, NEW m \in Nat \ {0}
    PROVE  /\ a \div m \in Nat
           /\ a <= b => a \div m <= b \div m
           /\ a \div m + b \div m <= (a + b) \div m
           /\ (a + b) \div m <= a \div m + b \div m + 1
<1> DEFINE p == a \div m
           q == b \div m
           s == (a + b) \div m
<1>1. /\ p \in Int /\ q \in Int /\ s \in Int
      /\ a % m \in 0..(m - 1) /\ a = m * p + (a % m)
      /\ b % m \in 0..(m - 1) /\ b = m * q + (b % m)
      /\ (a + b) % m \in 0..(m - 1) /\ a + b = m * s + ((a + b) % m)
  <2>1. a \in Int /\ b \in Int /\ a + b \in Int
    OBVIOUS
  <2>2. p \in Int /\ a % m \in 0..(m - 1) /\ a = m * p + (a % m)
    BY <2>1, DivFacts
  <2>3. q \in Int /\ b % m \in 0..(m - 1) /\ b = m * q + (b % m)
    BY <2>1, DivFacts
  <2>4. s \in Int /\ (a + b) % m \in 0..(m - 1) /\ a + b = m * s + ((a + b) % m)
    BY <2>1, DivFacts
  <2> HIDE DEF p, q, s
  <2> QED BY <2>2, <2>3, <2>4
<1> HIDE DEF p, q, s
<1>2. ASSUME NEW x \in Int, NEW y \in Int, m * x < m * y + m
      PROVE  x <= y
  <2>1. m * (y + 1) = m * y + m
    OBVIOUS
  <2>2. x >= y + 1 => m * x >= m * (y + 1)
    OBVIOUS
  <2>3. m * x \in Int /\ m * y \in Int /\ m * (y + 1) \in Int
    OBVIOUS
  <2> QED BY <1>2, <2>1, <2>2, <2>3
<1>3. m * p \in Int /\ m * q \in Int /\ m * s \in Int /\ m * 0 = 0
  BY <1>1
<1>4. p \in Nat
  <2>1. m * 0 < m * p + m
    BY <1>1, <1>3
  <2> QED BY <2>1, <1>1, <1>2
<1>5. a <= b => p <= q
  <2>1. a <= b => m * p < m * q + m
    BY <1>1, <1>3
  <2> QED BY <2>1, <1>1, <1>2
<1>6. p + q <= s
  <2>1. m * (p + q) = m * p + m * q
    BY <1>1
  <2>2. m * (p + q) < m * s + m
    BY <1>1, <1>3, <2>1
  <2> QED BY <2>2, <1>1, <1>2
<1>7. s <= p + q + 1
  <2>1. m * (p + q + 1) = m * p + m * q + m
    BY <1>1
  <2>2. m * s < m * (p + q + 1) + m
    BY <1>1, <1>3, <2>1
  <2> QED BY <2>2, <1>1, <1>2
<1> QED BY <1>4, <1>5, <1>6, <1>7 DEF p, q, s

\* Division towards zero: what is left over has the sign of the dividend.
LEMMA QuotientFacts ==
    ASSUME NEW a \in Int, NEW m \in Nat \ {0}
    PROVE  /\ Quotient(a, m) \in Int
           /\ Quotient(-a, m) = -Quotient(a, m)
           /\ \E r \in Int : /\ a = m * Quotient(a, m) + r
                             /\ a >= 0 => 0 <= r /\ r < m /\ Quotient(a, m) >= 0
                             /\ a < 0 => -m < r /\ r <= 0 /\ Quotient(a, m) <= 0
<1>1. ASSUME NEW b \in Nat
      PROVE  /\ b \div m \in Nat
             /\ b % m \in 0..(m - 1)
             /\ b = m * (b \div m) + (b % m)
  <2>1. b \in Int
    OBVIOUS
  <2>2. b \div m \in Nat
    BY DivOrder
  <2> QED BY <2>1, <2>2, DivFacts
<1>2. CASE a >= 0
  <2>1. a \in Nat
    BY <1>2
  <2> DEFINE q == a \div m
             r == a % m
  <2>2. q \in Nat /\ r \in 0..(m - 1) /\ a = m * q + r
    BY <2>1, <1>1
  <2>3. Quotient(a, m) = q
    BY <1>2 DEF Quotient
  <2>4. Quotient(-a, m) = -q
    <3>1. CASE a = 0
      <4>1. -a = a
        <5>1. ASSUME NEW x \in Int, x >= 0, x <= 0 PROVE -x = x
          BY <5>1
        <5>2. a >= 0 /\ a <= 0
          BY <3>1
        <5> HIDE <3>1
        <5> QED BY <5>1, <5>2
      <4>2. q = 0
        <5>1. m * 0 = 0
          OBVIOUS
        <5>2. 0 \in 0..(m - 1) /\ a = m * 0 + 0
          BY <3>1, <5>1
        <5> QED BY <5>2, DivUnique
      <4>3. -q = q
        <5>1. ASSUME NEW x \in Int, x >= 0, x <= 0 PROVE -x = x
          BY <5>1
        <5> QED BY <4>2, <5>1
      <4> QED BY <4>1, <4>3, <2>3
    <3>2. CASE a # 0
      <4>1. ~(-a >= 0) /\ -(-a) = a
        BY <3>2, <2>1
      <4> QED BY <4>1 DEF Quotient
    <3> QED BY <3>1, <3>2
  <2> HIDE DEF q, r
  <2>5. r \in Int /\ 0 <= r /\ r < m /\ q >= 0
    BY <2>2
  <2>6. ~(a < 0) /\ q \in Int
    BY <1>2, <2>2
  <2>7. \E x \in Int : /\ a = m * q + x
                      /\ 0 <= x /\ x < m
    BY <2>2, <2>5
  <2> QED BY <1>2, <2>3, <2>4, <2>5, <2>6, <2>7
<1>3. CASE a < 0
  <2> DEFINE b == -a
  <2>1. b \in Nat /\ a = -b /\ ~(a >= 0) /\ b >= 0
    BY <1>3
  <2> DEFINE q == b \div m
             r == b % m
  <2>2. q \in Nat /\ r \in 0..(m - 1) /\ b = m * q + r
    BY <2>1, <1>1
  <2>3. Quotient(a, m) = -q
    BY <2>1 DEF Quotient
  <2>4. Quotient(-a, m) = q
    BY <2>1 DEF Quotient
  <2> HIDE DEF q, r
  <2>5. m * (-q) = -(m * q)
    BY <2>2
  <2>6. a = m * (-q) + (-r)
    <3>1. m * q \in Int /\ b \in Int /\ r \in Int
      BY <2>1, <2>2
    <3> HIDE DEF b
    <3> QED BY <2>1, <2>2, <2>5, <3>1
  <2>7. -r \in Int /\ -m < -r /\ -r <= 0 /\ -q <= 0 /\ -q \in Int /\ q = -(-q)
    BY <2>2
  <2> QED BY <1>3, <2>3, <2>4, <2>6, <2>7
<1> QED BY <1>2, <1>3

\* A dividend that is larger by at most k times the divisor has a quotient
\* that is larger by at most k.
LEMMA QuotientOrder ==
    ASSUME NEW x \in Int, NEW y \in Int, NEW k \in Nat, NEW m \in Nat \ {0},
           x <= y + m * k
    PROVE  Quotient(x, m) <= Quotient(y, m) + k
<1> DEFINE p == Quotient(x, m)
           q == Quotient(y, m)
<1>1. PICK r \in Int : /\ x = m * p + r
                       /\ x >= 0 => 0 <= r /\ r < m /\ p >= 0
                       /\ x < 0 => -m < r /\ r <= 0 /\ p <= 0
  BY QuotientFacts
<1>2. PICK t \in Int : /\ y = m * q + t
                       /\ y >= 0 => 0 <= t /\ t < m /\ q >= 0
                       /\ y < 0 => -m < t /\ t <= 0 /\ q <= 0
  BY QuotientFacts
<1>3. p \in Int /\ q \in Int
  BY QuotientFacts
<1> SUFFICES p <= q + k
  OBVIOUS
<1> HIDE DEF p, q
<1>4. CASE x < 0 /\ y >= 0
  <2>1. p <= 0 /\ q >= 0
    BY <1>1, <1>2, <1>4
  <2> QED BY <1>3, <2>1
<1>5. CASE ~(x < 0 /\ y >= 0)
  <2>1. t - r < m
    BY <1>1, <1>2, <1>5
  <2>2. m * p \in Int /\ m * q \in Int /\ m * k \in Int
    BY <1>3
  <2>3. m * p < m * q + m * k + m
    BY <1>1, <1>2, <2>1, <2>2
  <2>4. m * (q + k + 1) = m * q + m * k + m
    BY <1>3
  <2>5. p >= q + k + 1 => m * p >= m * (q + k + 1)
    BY <1>3
  <2>6. m * (q + k + 1) \in Int
    BY <1>3
  <2>7. ~(p >= q + k + 1)
    BY <2>2, <2>3, <2>4, <2>5, <2>6
  <2> QED BY <2>7, <1>3
<1> QED BY <1>4, <1>5

-----------------------------------------------------------------------------
(***************************************************************************)
(* Curl_timediff                                                           *)
(***************************************************************************)

Sec(t)  == t \div (Ms * Second)
Usec(t) == t % (Ms * Second)

\* A time is its seconds and the ticks beyond.
LEMMA SecFacts ==
    ASSUME NEW t \in Nat
    PROVE  /\ Sec(t) \in Nat /\ Usec(t) \in 0..(Ms * Second - 1)
           /\ t = Ms * Second * Sec(t) + Usec(t)
           /\ Ms * Second \in Nat \ {0}
<1>1. Ms * Second \in Nat \ {0}
  BY TimeAssumption
<1> DEFINE S == Ms * Second
<1>2. S \in Nat \ {0} /\ t \in Int
  BY <1>1
<1> HIDE DEF S
<1>3. t \div S \in Int /\ t % S \in 0..(S - 1) /\ t = S * (t \div S) + (t % S)
  BY <1>2, DivFacts
<1>4. t \div S \in Nat
  BY <1>2, DivOrder
<1> QED BY <1>1, <1>3, <1>4 DEF Sec, Usec, S

\* Curl_timediff in terms of both.
LEMMA TimediffDef ==
    ASSUME NEW a \in Nat, NEW b \in Nat
    PROVE  /\ Curl_timediff(a, b) = (Sec(a) - Sec(b)) * Second + Quotient(Usec(a) - Usec(b), Ms)
           /\ Quotient(Usec(a) - Usec(b), Ms) \in Int
           /\ Curl_timediff(a, b) \in Int
           /\ Curl_timediff(b, a) = -Curl_timediff(a, b)
<1> DEFINE u == Usec(a) - Usec(b)
           v == Usec(b) - Usec(a)
           c == Sec(a) - Sec(b)
           d == Sec(b) - Sec(a)
<1>1. u \in Int /\ v = -u /\ c \in Int /\ d = -c
  <2>1. Usec(a) \in Int /\ Usec(b) \in Int /\ Sec(a) \in Int /\ Sec(b) \in Int
    BY SecFacts
  <2> QED BY <2>1
<1>2. Curl_timediff(a, b) = c * Second + Quotient(u, Ms)
  BY DEF Curl_timediff, Sec, Usec
<1>3. Curl_timediff(b, a) = d * Second + Quotient(v, Ms)
  BY DEF Curl_timediff, Sec, Usec
<1>4. Ms \in Nat \ {0} /\ Second \in Nat
  BY TimeAssumption
<1> DEFINE q == Quotient(u, Ms)
<1>5. q \in Int /\ Quotient(-u, Ms) = -q
  BY <1>1, <1>4, QuotientFacts
<1> HIDE DEF u, v, c, d, q
<1>6. c * Second \in Int /\ d * Second = -(c * Second)
  BY <1>1, <1>4
<1>7. /\ Curl_timediff(a, b) = c * Second + q
      /\ Curl_timediff(b, a) = d * Second + -q
  BY <1>1, <1>2, <1>3, <1>5 DEF q
<1>8. c * Second + q \in Int /\ d * Second + -q = -(c * Second + q)
  BY <1>5, <1>6
<1> QED BY <1>5, <1>7, <1>8 DEF u, c, q

\* Whole seconds more count in full.
LEMMA TimediffShift ==
    ASSUME NEW a \in Nat, NEW b \in Nat, NEW n \in Nat
    PROVE  /\ a + n * Second * Ms \in Nat
           /\ Curl_timediff(a + n * Second * Ms, b) = n * Second + Curl_timediff(a, b)
<1> DEFINE S == Ms * Second
           q == Sec(a)
           r == Usec(a)
<1>1. /\ S \in Nat \ {0} /\ q \in Nat /\ r \in 0..(S - 1) /\ a = S * q + r
      /\ Sec(b) \in Nat /\ Usec(b) \in Int
  BY SecFacts
<1>2. Second \in Nat /\ Ms \in Nat \ {0}
  BY TimeAssumption
<1>3. n * Second * Ms = S * n /\ n * Second \in Nat
  BY <1>2
<1> DEFINE c == a + n * Second * Ms
<1>4. Sec(c) = q + n /\ Usec(c) = r
  <2> HIDE DEF S, q, r
  <2>1. S * (q + n) = S * q + S * n /\ S * q \in Nat /\ S * n \in Nat
    BY <1>1
  <2>2. c = S * (q + n) + r /\ c \in Int /\ q + n \in Int
    BY <1>1, <1>3, <2>1
  <2> HIDE DEF c
  <2>3. c \div S = q + n /\ c % S = r
    BY <1>1, <2>2, DivUnique
  <2> QED BY <2>3 DEF Sec, Usec, S
<1>5. c \in Nat
  <2>1. S * n \in Nat
    BY <1>1
  <2> QED BY <1>3, <2>1
<1> HIDE DEF c
<1>6. Curl_timediff(c, b) = (Sec(c) - Sec(b)) * Second + Quotient(Usec(c) - Usec(b), Ms)
  BY <1>5, TimediffDef
<1> DEFINE z == Quotient(r - Usec(b), Ms)
<1>7. Curl_timediff(a, b) = (q - Sec(b)) * Second + z /\ z \in Int
  BY TimediffDef
<1> HIDE DEF q, r
<1>8. Curl_timediff(c, b) = (q + n - Sec(b)) * Second + z
  <2>1. Quotient(Usec(c) - Usec(b), Ms) = z
    BY <1>4
  <2> HIDE DEF z
  <2>2. Sec(c) - Sec(b) = q + n - Sec(b)
    BY <1>4, <1>1
  <2> QED BY <1>6, <2>1, <2>2, Zenon
<1> HIDE DEF z
<1>9. (q + n - Sec(b)) * Second = (q - Sec(b)) * Second + n * Second
  BY <1>1, <1>2
<1>10. (q - Sec(b)) * Second \in Int
  BY <1>1, <1>2
<1>11. Curl_timediff(c, b) = n * Second + Curl_timediff(a, b)
  <2> DEFINE f == (q + n - Sec(b)) * Second
             g == (q - Sec(b)) * Second
             h == n * Second
  <2>1. /\ f = g + h /\ g \in Int /\ h \in Int /\ z \in Int
        /\ Curl_timediff(c, b) = f + z /\ Curl_timediff(a, b) = g + z
    <3>1. f = g + h
      BY <1>9
    <3>2. g \in Int /\ h \in Int /\ z \in Int
      BY <1>3, <1>7, <1>10
    <3>3. Curl_timediff(c, b) = f + z
      BY <1>8, Zenon
    <3>4. Curl_timediff(a, b) = g + z
      BY <1>7, Zenon
    <3> QED BY <3>1, <3>2, <3>3, <3>4, Zenon
  <2> SUFFICES Curl_timediff(c, b) = h + Curl_timediff(a, b)
    OBVIOUS
  <2> HIDE DEF f, g, h
  <2> QED BY <2>1
<1> QED BY <1>5, <1>11 DEF c

\* A later time is not nearer.
LEMMA TimediffOrder ==
    ASSUME NEW a \in Nat, NEW b \in Nat, NEW c \in Nat, a <= b
    PROVE  Curl_timediff(a, c) <= Curl_timediff(b, c)
<1> DEFINE S == Ms * Second
           x == Usec(a) - Usec(c)
           y == Usec(b) - Usec(c)
           k == Sec(b) - Sec(a)
<1>1. /\ S \in Nat \ {0}
      /\ Sec(a) \in Nat /\ Sec(b) \in Nat /\ Sec(c) \in Nat
      /\ Usec(a) \in 0..(S - 1) /\ Usec(b) \in 0..(S - 1) /\ Usec(c) \in 0..(S - 1)
      /\ a = S * Sec(a) + Usec(a) /\ b = S * Sec(b) + Usec(b)
  BY SecFacts
<1>2. Second \in Nat /\ Ms \in Nat \ {0}
  BY TimeAssumption
<1>3. /\ Curl_timediff(a, c) = (Sec(a) - Sec(c)) * Second + Quotient(x, Ms)
      /\ Curl_timediff(b, c) = (Sec(b) - Sec(c)) * Second + Quotient(y, Ms)
      /\ Quotient(x, Ms) \in Int /\ Quotient(y, Ms) \in Int
  BY TimediffDef
<1>4. k \in Nat
  <2> DEFINE p == Sec(a)
             q == Sec(b)
  <2>1. p \in Int /\ q \in Int /\ S * p < S * q + S
    <3>1. S * Sec(a) \in Int /\ S * Sec(b) \in Int
      BY <1>1
    <3> HIDE DEF S
    <3> QED BY <1>1, <3>1
  <2> HIDE DEF p, q, S
  <2>2. S * (q + 1) = S * q + S /\ S * p \in Int /\ S * q \in Int
    BY <1>1, <2>1
  <2>3. p >= q + 1 => S * p >= S * (q + 1)
    BY <1>1, <2>1
  <2>4. p <= q
    BY <1>1, <2>1, <2>2, <2>3
  <2> QED BY <2>1, <2>4 DEF p, q
<1>5. x \in Int /\ y \in Int
  BY <1>1
<1>6. Quotient(x, Ms) <= Quotient(y, Ms) + k * Second
  <2>1. x <= y + S * k
    <3>1. CASE k = 0
      <4>1. Sec(a) = Sec(b)
        <5>1. k <= 0 /\ k >= 0
          BY <3>1
        <5>2. Sec(a) \in Int /\ Sec(b) \in Int
          BY <1>1
        <5>3. ASSUME NEW i \in Int, NEW j \in Int, j - i <= 0, j - i >= 0
              PROVE  i = j
          BY <5>3
        <5> HIDE <3>1
        <5> QED BY <5>1, <5>2, <5>3
      <4>2. Usec(a) <= Usec(b)
        <5>1. S * Sec(b) \in Int
          BY <1>1
        <5> HIDE DEF S
        <5> QED BY <1>1, <4>1, <5>1
      <4>3. S * k = 0
        <5>1. S * 0 = 0
          BY <1>1
        <5> QED BY <3>1, <5>1, Zenon
      <4> QED BY <1>1, <4>2, <4>3
    <3>2. CASE k >= 1
      <4> HIDE DEF S, k
      <4>1. S * k >= S
        BY <3>2, <1>1, <1>4
      <4>2. S * k \in Int
        BY <1>1, <1>4
      <4>3. x - y < S
        BY <1>1
      <4> QED BY <1>1, <1>5, <4>1, <4>2, <4>3
    <3> QED BY <1>4, <3>1, <3>2
  <2> HIDE DEF k, x, y
  <2>2. S * k = Ms * (k * Second) /\ k * Second \in Nat
    BY <1>2, <1>4
  <2> DEFINE h == k * Second
  <2>3. x <= y + Ms * h /\ h \in Nat
    BY <2>1, <2>2
  <2> HIDE DEF h
  <2>4. Quotient(x, Ms) <= Quotient(y, Ms) + h
    BY <1>2, <1>5, <2>3, QuotientOrder
  <2> QED BY <2>4 DEF h
<1>7. (Sec(b) - Sec(c)) * Second = (Sec(a) - Sec(c)) * Second + k * Second
  BY <1>1, <1>2
<1>8. (Sec(a) - Sec(c)) * Second \in Int /\ k * Second \in Int
  BY <1>1, <1>2
<1> HIDE DEF x, y, k
<1> QED BY <1>3, <1>6, <1>7, <1>8

\* The difference is hardly more than that of the milliseconds.
LEMMA TimediffBound ==
    ASSUME NEW a \in Nat, NEW b \in Nat
    PROVE  Curl_timediff(a, b) <= a \div Ms - b \div Ms + 1
<1>1. Second \in Nat /\ Ms \in Nat \ {0}
  BY TimeAssumption
<1>2. ASSUME NEW t \in Nat
      PROVE  /\ t \div Ms = Second * Sec(t) + Usec(t) \div Ms
             /\ Usec(t) \in Nat /\ Usec(t) \div Ms \in Nat
  <2> DEFINE q == Sec(t)
             u == Usec(t)
             p == u \div Ms
             r == u % Ms
  <2>1. q \in Nat /\ u \in Nat /\ t = Ms * Second * q + u
    BY SecFacts
  <2>2. p \in Nat
    BY <2>1, <1>1, DivOrder
  <2>3. r \in 0..(Ms - 1) /\ u = Ms * p + r
    <3>1. u \in Int
      BY <2>1
    <3> HIDE DEF u
    <3> QED BY <1>1, <3>1, DivFacts
  <2> HIDE DEF q, p, r, u
  <2>4. Ms * (Second * q + p) = Ms * Second * q + Ms * p
    BY <1>1, <2>1, <2>2
  <2>5. Ms * Second * q \in Int /\ Ms * p \in Int /\ Second * q + p \in Int
    BY <1>1, <2>1, <2>2
  <2>6. t = Ms * (Second * q + p) + r
    BY <2>1, <2>3, <2>4, <2>5
  <2> DEFINE z == Second * q + p
  <2>7. z \in Int /\ t = Ms * z + r /\ t \in Int
    BY <2>5, <2>6
  <2> HIDE DEF z
  <2>8. t \div Ms = z
    BY <1>1, <2>3, <2>7, DivUnique
  <2> QED BY <2>1, <2>2, <2>8 DEF q, p, u, z
<1> DEFINE u == Usec(a)
           v == Usec(b)
<1>3. Quotient(u - v, Ms) <= u \div Ms - v \div Ms + 1
  <2>1. u \in Nat /\ v \in Nat /\ u \div Ms \in Nat /\ v \div Ms \in Nat
    BY <1>2
  <2> HIDE DEF u, v
  <2>2. CASE u - v >= 0
    <3> DEFINE d == u - v
    <3>1. d \in Nat /\ v + d = u
      BY <2>1, <2>2
    <3>2. Quotient(u - v, Ms) = d \div Ms
      BY <2>2 DEF Quotient
    <3> HIDE DEF d
    <3>3. v \div Ms + d \div Ms <= (v + d) \div Ms /\ d \div Ms \in Nat
      BY <1>1, <2>1, <3>1, DivOrder
    <3>4. v \div Ms + d \div Ms <= u \div Ms
      BY <3>1, <3>3
    <3> QED BY <2>1, <3>2, <3>3, <3>4
  <2>3. CASE ~(u - v >= 0)
    <3> DEFINE d == v - u
    <3>1. d \in Nat /\ u + d = v /\ -(u - v) = d
      BY <2>1, <2>3
    <3>2. Quotient(u - v, Ms) = -(d \div Ms)
      BY <2>3, <3>1 DEF Quotient
    <3> HIDE DEF d
    <3>3. (u + d) \div Ms <= u \div Ms + d \div Ms + 1 /\ d \div Ms \in Nat
      BY <1>1, <2>1, <3>1, DivOrder
    <3>4. v \div Ms <= u \div Ms + d \div Ms + 1
      BY <3>1, <3>3
    <3> QED BY <2>1, <3>2, <3>3, <3>4
  <2> QED BY <2>2, <2>3
<1>4. /\ Curl_timediff(a, b) = (Sec(a) - Sec(b)) * Second + Quotient(u - v, Ms)
      /\ Quotient(u - v, Ms) \in Int
  BY TimediffDef
<1>5. Sec(a) \in Nat /\ Sec(b) \in Nat
  BY SecFacts
<1>6. (Sec(a) - Sec(b)) * Second = Second * Sec(a) - Second * Sec(b)
  BY <1>1, <1>5
<1>7. Second * Sec(a) \in Int /\ Second * Sec(b) \in Int
  BY <1>1, <1>5
<1>8. /\ a \div Ms = Second * Sec(a) + u \div Ms /\ u \div Ms \in Int
      /\ b \div Ms = Second * Sec(b) + v \div Ms /\ v \div Ms \in Int
  BY <1>2
<1> HIDE DEF u, v
<1> QED BY <1>3, <1>4, <1>6, <1>7, <1>8

-----------------------------------------------------------------------------
(***************************************************************************)
(* Lists of timeouts                                                       *)
(***************************************************************************)

Entries == [id : Ids, time : Nat \ {0}]

\* What a list of timeouts can be.
Lists == {s \in Seq(Entries) : \A i, j \in DOMAIN s : s[i].id = s[j].id => i = j}

\* What every proof needs to know of a list.
LEMMA ListFacts ==
    ASSUME NEW s \in Lists
    PROVE  /\ s \in Seq(Entries) /\ Len(s) \in Nat /\ DOMAIN s = 1..Len(s)
           /\ \A i \in DOMAIN s : s[i] \in Entries
           /\ \A i, j \in DOMAIN s : s[i].id = s[j].id => i = j
<1>1. s \in Seq(Entries) /\ \A i, j \in DOMAIN s : s[i].id = s[j].id => i = j
  BY DEF Lists
<1>2. Len(s) \in Nat /\ DOMAIN s = 1..Len(s) /\ \A i \in DOMAIN s : s[i] \in Entries
  BY <1>1
<1> QED BY <1>1, <1>2

LEMMA EmptyList == <<>> \in Lists /\ Range(<<>>) = {}
  BY DEF Lists, Range

\* Taking out one entry.
LEMMA RemoveFacts ==
    ASSUME NEW s \in Lists, NEW k \in DOMAIN s
    PROVE  /\ RemoveAt(s, k) \in Lists
           /\ Range(RemoveAt(s, k)) = {e \in Range(s) : e.id # s[k].id}
<1> DEFINE a == SubSeq(s, 1, k - 1)
           b == SubSeq(s, k + 1, Len(s))
           r == RemoveAt(s, k)
           at(j) == IF j < k THEN j ELSE j + 1
<1>1. /\ s \in Seq(Entries) /\ Len(s) \in Nat /\ DOMAIN s = 1..Len(s)
      /\ \A i \in DOMAIN s : s[i] \in Entries
      /\ \A i, j \in DOMAIN s : s[i].id = s[j].id => i = j
      /\ k \in Int /\ 1 <= k /\ k <= Len(s)
  BY ListFacts
<1>2. a \in Seq(Entries) /\ Len(a) = k - 1 /\ \A i \in 1..(k - 1) : a[i] = s[i]
  <2>1. \A i \in 1..(k - 1) : s[i] \in Entries
    BY <1>1
  <2>2. /\ a \in Seq(Entries) /\ Len(a) = IF 1 <= k - 1 THEN (k - 1) - 1 + 1 ELSE 0
        /\ \A i \in 1..((k - 1) - 1 + 1) : a[i] = s[1 + i - 1]
    <3>1. 1 \in Int /\ k - 1 \in Int
      BY <1>1
    <3> QED BY <2>1, <3>1, SubSeqProperties
  <2> QED BY <1>1, <2>2
<1>3. /\ b \in Seq(Entries) /\ Len(b) = Len(s) - k
      /\ \A i \in 1..(Len(s) - k) : b[i] = s[k + i]
  <2>1. \A i \in (k + 1)..Len(s) : s[i] \in Entries
    BY <1>1
  <2>2. /\ b \in Seq(Entries) /\ Len(b) = IF k + 1 <= Len(s) THEN Len(s) - (k + 1) + 1 ELSE 0
        /\ \A i \in 1..(Len(s) - (k + 1) + 1) : b[i] = s[(k + 1) + i - 1]
    <3>1. k + 1 \in Int /\ Len(s) \in Int
      BY <1>1
    <3> QED BY <2>1, <3>1, SubSeqProperties
  <2> QED BY <1>1, <2>2
<1>4. /\ r \in Seq(Entries) /\ Len(r) = Len(s) - 1
      /\ \A j \in 1..(Len(s) - 1) : r[j] = s[at(j)]
  <2>1. r = a \o b
    BY DEF RemoveAt
  <2> HIDE DEF a, b, r
  <2>2. /\ a \o b \in Seq(Entries) /\ Len(a \o b) = Len(a) + Len(b)
        /\ \A i \in 1..(Len(a) + Len(b)) :
              (a \o b)[i] = IF i <= Len(a) THEN a[i] ELSE b[i - Len(a)]
    BY <1>2, <1>3, ConcatProperties
  <2>3. ASSUME NEW j \in 1..(Len(s) - 1)
        PROVE  r[j] = s[at(j)]
    <3>1. r[j] = IF j <= k - 1 THEN a[j] ELSE b[j - (k - 1)]
      BY <1>1, <1>2, <1>3, <2>1, <2>2
    <3>2. CASE j < k
      BY <1>1, <1>2, <3>1, <3>2
    <3>3. CASE ~(j < k)
      <4>1. PICK m \in 1..(Len(s) - k) : m = j - (k - 1) /\ k + m = j + 1
        BY <1>1, <3>3
      <4>2. b[m] = s[k + m]
        BY <1>3
      <4>3. r[j] = b[m]
        BY <1>1, <3>1, <3>3, <4>1
      <4> QED BY <3>3, <4>1, <4>2, <4>3
    <3> QED BY <3>2, <3>3
  <2> QED BY <1>1, <1>2, <1>3, <2>1, <2>2, <2>3
<1> HIDE DEF a, b, r
<1>5. DOMAIN r = 1..(Len(s) - 1)
  BY <1>1, <1>4
<1>6. \A j \in DOMAIN r : at(j) \in DOMAIN s /\ at(j) # k
  BY <1>1, <1>5
<1>7. \A i, j \in DOMAIN r : at(i) = at(j) => i = j
  BY <1>1, <1>5
<1>8. \A i \in DOMAIN s : i # k => \E j \in DOMAIN r : at(j) = i
  <2> SUFFICES ASSUME NEW i \in DOMAIN s, i # k PROVE \E j \in DOMAIN r : at(j) = i
    OBVIOUS
  <2>1. CASE i < k
    <3>1. i \in DOMAIN r /\ at(i) = i
      BY <1>1, <1>5, <2>1
    <3> QED BY <3>1
  <2>2. CASE ~(i < k)
    <3>1. i - 1 \in DOMAIN r /\ at(i - 1) = i
      BY <1>1, <1>5, <2>2
    <3> QED BY <3>1
  <2> QED BY <2>1, <2>2
<1>9. \A j \in DOMAIN r : r[j] = s[at(j)]
  BY <1>4, <1>5
<1> HIDE DEF at
<1>10. r \in Lists
  BY <1>1, <1>4, <1>6, <1>7, <1>9 DEF Lists
<1>11. Range(r) = {e \in Range(s) : e.id # s[k].id}
  <2>1. ASSUME NEW j \in DOMAIN r PROVE r[j] \in {e \in Range(s) : e.id # s[k].id}
    BY <1>1, <1>6, <1>9 DEF Range
  <2>2. ASSUME NEW i \in DOMAIN s, s[i].id # s[k].id PROVE \E j \in DOMAIN r : s[i] = r[j]
    BY <1>8, <1>9, <2>2
  <2> QED BY <2>1, <2>2 DEF Range
<1> QED BY <1>10, <1>11 DEF r

\* multi_deltimeout takes out the timeout with the id.
LEMMA WithoutFacts ==
    ASSUME NEW s \in Lists, NEW id \in Ids
    PROVE  /\ Without(s, id) \in Lists
           /\ Range(Without(s, id)) = {e \in Range(s) : e.id # id}
<1> DEFINE at == {i \in DOMAIN s : s[i].id = id}
<1>1. CASE at = {}
  <2>1. Without(s, id) = s
    BY <1>1 DEF Without
  <2> QED BY <1>1, <2>1 DEF Range
<1>2. CASE at # {}
  <2>1. DOMAIN s = 1..Len(s) /\ Len(s) \in Nat
    BY ListFacts
  <2>2. at \subseteq Nat
    BY <2>1
  <2>3. Min(at) \in at
    BY <1>2, <2>2, MinFacts
  <2>4. PICK k \in DOMAIN s : k = Min(at) /\ s[k].id = id
    BY <2>3
  <2>5. Without(s, id) = RemoveAt(s, k)
    BY <1>2, <2>4 DEF Without
  <2> QED BY <2>4, <2>5, RemoveFacts
<1> QED BY <1>1, <1>2

\* Putting in an entry.
LEMMA InsertFacts ==
    ASSUME NEW s \in Lists, NEW k \in 1..(Len(s) + 1), NEW node \in Entries,
           \A e \in Range(s) : e.id # node.id
    PROVE  /\ InsertAt(s, k, node) \in Lists
           /\ Range(InsertAt(s, k, node)) = Range(s) \cup {node}
<1> DEFINE a == SubSeq(s, 1, k - 1)
           b == SubSeq(s, k, Len(s))
           c == <<node>>
           r == InsertAt(s, k, node)
<1>1. /\ s \in Seq(Entries) /\ Len(s) \in Nat /\ DOMAIN s = 1..Len(s)
      /\ \A i \in DOMAIN s : s[i] \in Entries
      /\ \A i, j \in DOMAIN s : s[i].id = s[j].id => i = j
  BY ListFacts
<1>2. k \in Int /\ 1 <= k /\ k <= Len(s) + 1
  BY <1>1
<1>3. a \in Seq(Entries) /\ Len(a) = k - 1 /\ \A i \in 1..(k - 1) : a[i] = s[i]
  <2>1. \A i \in 1..(k - 1) : s[i] \in Entries
    BY <1>1, <1>2
  <2>2. /\ a \in Seq(Entries) /\ Len(a) = IF 1 <= k - 1 THEN (k - 1) - 1 + 1 ELSE 0
        /\ \A i \in 1..((k - 1) - 1 + 1) : a[i] = s[1 + i - 1]
    <3>1. 1 \in Int /\ k - 1 \in Int
      BY <1>2
    <3> QED BY <2>1, <3>1, SubSeqProperties
  <2> QED BY <1>2, <2>2
<1>4. /\ b \in Seq(Entries) /\ Len(b) = Len(s) - k + 1
      /\ \A i \in 1..(Len(s) - k + 1) : b[i] = s[k + i - 1]
  <2>1. \A i \in k..Len(s) : s[i] \in Entries
    BY <1>1, <1>2
  <2>2. /\ b \in Seq(Entries) /\ Len(b) = IF k <= Len(s) THEN Len(s) - k + 1 ELSE 0
        /\ \A i \in 1..(Len(s) - k + 1) : b[i] = s[k + i - 1]
    <3>1. k \in Int /\ Len(s) \in Int
      BY <1>1, <1>2
    <3> QED BY <2>1, <3>1, SubSeqProperties
  <2> QED BY <1>1, <1>2, <2>2
<1>5. c \in Seq(Entries) /\ Len(c) = 1 /\ c[1] = node
  OBVIOUS
<1> DEFINE d == a \o c
<1>6. r = d \o b
  BY DEF InsertAt
<1> HIDE DEF a, b, c, r
<1>7. /\ d \in Seq(Entries) /\ Len(d) = k
      /\ \A i \in 1..k : d[i] = IF i < k THEN s[i] ELSE node
  <2>1. /\ d \in Seq(Entries) /\ Len(d) = Len(a) + Len(c)
        /\ \A i \in 1..(Len(a) + Len(c)) : d[i] = IF i <= Len(a) THEN a[i] ELSE c[i - Len(a)]
    BY <1>3, <1>5, ConcatProperties
  <2> HIDE DEF d
  <2>2. Len(a) + Len(c) = k
    BY <1>2, <1>3, <1>5
  <2>3. ASSUME NEW i \in 1..k PROVE d[i] = IF i < k THEN s[i] ELSE node
    <3>1. d[i] = IF i <= k - 1 THEN a[i] ELSE c[i - (k - 1)]
      BY <1>3, <2>1, <2>2
    <3>2. CASE i < k
      BY <1>2, <1>3, <3>1, <3>2
    <3>3. CASE ~(i < k)
      <4>1. i - (k - 1) = 1 /\ ~(i <= k - 1)
        BY <1>2, <3>3
      <4> QED BY <1>5, <3>1, <3>3, <4>1
    <3> QED BY <3>2, <3>3
  <2> QED BY <2>1, <2>2, <2>3
<1> HIDE DEF d
<1>8. /\ r \in Seq(Entries) /\ Len(r) = Len(s) + 1
      /\ \A i \in 1..(Len(s) + 1) : r[i] = IF i <= k THEN d[i] ELSE b[i - k]
  <2>1. /\ d \o b \in Seq(Entries) /\ Len(d \o b) = Len(d) + Len(b)
        /\ \A i \in 1..(Len(d) + Len(b)) : (d \o b)[i] = IF i <= Len(d) THEN d[i] ELSE b[i - Len(d)]
    BY <1>4, <1>7, ConcatProperties
  <2>2. Len(d) + Len(b) = Len(s) + 1
    BY <1>1, <1>2, <1>4, <1>7
  <2> QED BY <1>6, <1>7, <2>1, <2>2
<1>9. DOMAIN r = 1..(Len(s) + 1) /\ k \in DOMAIN r
  BY <1>1, <1>2, <1>8
<1> DEFINE at(i) == IF i < k THEN i ELSE i - 1
<1>10. /\ r[k] = node
       /\ \A i \in DOMAIN r \ {k} : at(i) \in DOMAIN s /\ r[i] = s[at(i)]
  <2>1. r[k] = node
    <3>1. k \in 1..k /\ ~(k < k) /\ k <= k
      BY <1>2
    <3> QED BY <1>7, <1>8, <1>9, <3>1
  <2>2. ASSUME NEW i \in DOMAIN r \ {k} PROVE at(i) \in DOMAIN s /\ r[i] = s[at(i)]
    <3>1. CASE i < k
      <4>1. i \in 1..k /\ i <= k
        BY <1>2, <1>9, <3>1
      <4> QED BY <1>1, <1>2, <1>7, <1>8, <1>9, <3>1, <4>1
    <3>2. CASE ~(i < k)
      <4>1. PICK m \in 1..(Len(s) - k + 1) : m = i - k /\ k + m - 1 = i - 1 /\ ~(i <= k)
        BY <1>1, <1>2, <1>9, <3>2
      <4>2. b[m] = s[k + m - 1]
        BY <1>4
      <4>3. r[i] = b[m]
        BY <1>8, <1>9, <4>1
      <4>4. i - 1 \in DOMAIN s
        BY <1>1, <1>2, <1>9, <3>2
      <4> QED BY <3>2, <4>1, <4>2, <4>3, <4>4
    <3> QED BY <3>1, <3>2
  <2> QED BY <2>1, <2>2
<1>11. \A i, j \in DOMAIN r \ {k} : at(i) = at(j) => i = j
  BY <1>1, <1>2, <1>9
<1>12. \A i \in DOMAIN s : \E j \in DOMAIN r \ {k} : at(j) = i
  <2> SUFFICES ASSUME NEW i \in DOMAIN s PROVE \E j \in DOMAIN r \ {k} : at(j) = i
    OBVIOUS
  <2>1. CASE i < k
    <3>1. i \in DOMAIN r \ {k} /\ at(i) = i
      BY <1>1, <1>2, <1>9, <2>1
    <3> QED BY <3>1
  <2>2. CASE ~(i < k)
    <3>1. i + 1 \in DOMAIN r \ {k} /\ at(i + 1) = i
      BY <1>1, <1>2, <1>9, <2>2
    <3> QED BY <3>1
  <2> QED BY <2>1, <2>2
<1> HIDE DEF at
<1>13. r \in Lists
  <2>1. \A i \in DOMAIN r \ {k} : r[i].id # node.id
    BY <1>10 DEF Range
  <2>2. ASSUME NEW i \in DOMAIN r, NEW j \in DOMAIN r, r[i].id = r[j].id
        PROVE  i = j
    BY <1>1, <1>10, <1>11, <2>1, <2>2
  <2> QED BY <1>8, <2>2 DEF Lists
<1>14. Range(r) = Range(s) \cup {node}
  <2>1. ASSUME NEW i \in DOMAIN r PROVE r[i] \in Range(s) \cup {node}
    BY <1>10 DEF Range
  <2>2. ASSUME NEW i \in DOMAIN s PROVE s[i] \in Range(r)
    BY <1>10, <1>12 DEF Range
  <2>3. node \in Range(r)
    BY <1>9, <1>10 DEF Range
  <2> QED BY <2>1, <2>2, <2>3 DEF Range
<1> QED BY <1>13, <1>14 DEF r

\* Curl_expire: the list has the new timeout, and no other with its id.
LEMMA ExpireFacts ==
    ASSUME NEW s \in Lists, NEW set \in Nat \ {0}, NEW id \in Ids
    PROVE  /\ ExpireList(s, set, id) \in Lists
           /\ Range(ExpireList(s, set, id))
                = {e \in Range(s) : e.id # id} \cup {[id |-> id, time |-> set]}
<1> DEFINE w == Without(s, id)
           node == [id |-> id, time |-> set]
           later == {i \in DOMAIN w : Curl_timediff(w[i].time, node.time) > 0}
           k == IF later = {} THEN Len(w) + 1 ELSE Min(later)
<1>1. w \in Lists /\ Range(w) = {e \in Range(s) : e.id # id}
  BY WithoutFacts
<1>2. node \in Entries /\ node.id = id
  BY DEF Entries
<1>3. k \in 1..(Len(w) + 1)
  <2>1. DOMAIN w = 1..Len(w) /\ Len(w) \in Nat
    BY <1>1, ListFacts
  <2>2. later # {} => Min(later) \in later
    <3>1. later \subseteq Nat
      BY <2>1
    <3> QED BY <3>1, MinFacts
  <2> QED BY <2>1, <2>2
<1>4. ExpireList(s, set, id) = InsertAt(w, k, node)
  BY DEF ExpireList, AddTimeout
<1> HIDE DEF w, node, k
<1>5. \A e \in Range(w) : e.id # node.id
  BY <1>1, <1>2
<1>6. InsertAt(w, k, node) \in Lists /\ Range(InsertAt(w, k, node)) = Range(w) \cup {node}
  BY <1>1, <1>2, <1>3, <1>5, InsertFacts
<1> QED BY <1>1, <1>4, <1>6 DEF node

\* add_next_timeout drops only times that have passed.
LEMMA NextFacts ==
    ASSUME NEW s \in Lists
    PROVE  /\ AddNextTimeout(s) \in Lists
           /\ Range(AddNextTimeout(s)) \subseteq Range(s)
           /\ \A e \in Range(s) \ Range(AddNextTimeout(s)) : ~(Curl_timediff(e.time, now) > 0)
           /\ AddNextTimeout(s) # <<>> => Head(AddNextTimeout(s)).time \in Nat \ {0}
           /\ AddNextTimeout(s) = <<>> => Range(AddNextTimeout(s)) = {}
<1> DEFINE ahead == {i \in DOMAIN s : Curl_timediff(s[i].time, now) > 0}
           k == Min(ahead)
           r == AddNextTimeout(s)
<1>1. /\ s \in Seq(Entries) /\ Len(s) \in Nat /\ DOMAIN s = 1..Len(s)
      /\ \A i \in DOMAIN s : s[i] \in Entries
      /\ \A i, j \in DOMAIN s : s[i].id = s[j].id => i = j
  BY ListFacts
<1>2. CASE ahead = {}
  <2>1. r = <<>>
    BY <1>2 DEF AddNextTimeout
  <2> QED BY <1>2, <2>1, EmptyList DEF Range
<1>3. CASE ahead # {}
  <2>1. r = SubSeq(s, k, Len(s))
    BY <1>3 DEF AddNextTimeout
  <2>2. k \in ahead /\ \A i \in ahead : k <= i
    <3>1. ahead \subseteq Nat
      BY <1>1
    <3> QED BY <1>3, <3>1, MinFacts
  <2>3. k \in Int /\ 1 <= k /\ k <= Len(s)
    BY <1>1, <2>2
  <2>4. \A i \in DOMAIN s : i < k => ~(Curl_timediff(s[i].time, now) > 0)
    <3> SUFFICES ASSUME NEW i \in DOMAIN s, i < k, Curl_timediff(s[i].time, now) > 0
                 PROVE  FALSE
      OBVIOUS
    <3>1. i \in ahead
      OBVIOUS
    <3>2. i \in Int
      BY <1>1
    <3> HIDE DEF k, ahead
    <3> QED BY <2>2, <2>3, <3>1, <3>2
  <2> HIDE DEF k, r, ahead
  <2>5. /\ r \in Seq(Entries) /\ Len(r) = Len(s) - k + 1
        /\ \A i \in 1..(Len(s) - k + 1) : r[i] = s[k + i - 1]
    <3>1. \A i \in k..Len(s) : s[i] \in Entries
      BY <1>1, <2>3
    <3>2. Len(s) \in Int
      BY <1>1
    <3>3. /\ SubSeq(s, k, Len(s)) \in Seq(Entries)
          /\ Len(SubSeq(s, k, Len(s))) = IF k <= Len(s) THEN Len(s) - k + 1 ELSE 0
          /\ \A i \in 1..(Len(s) - k + 1) : SubSeq(s, k, Len(s))[i] = s[k + i - 1]
      BY <2>3, <3>1, <3>2, SubSeqProperties
    <3> QED BY <2>1, <2>3, <3>3
  <2>6. DOMAIN r = 1..(Len(s) - k + 1)
    BY <1>1, <2>3, <2>5
  <2> DEFINE at(i) == k + i - 1
  <2>7. \A i \in DOMAIN r : at(i) \in DOMAIN s /\ r[i] = s[at(i)]
    BY <1>1, <2>3, <2>5, <2>6
  <2>8. \A i, j \in DOMAIN r : at(i) = at(j) => i = j
    BY <1>1, <2>3, <2>6
  <2>9. \A i \in DOMAIN s : ~(i < k) => \E j \in DOMAIN r : at(j) = i
    <3> SUFFICES ASSUME NEW i \in DOMAIN s, ~(i < k) PROVE \E j \in DOMAIN r : at(j) = i
      OBVIOUS
    <3>1. i - k + 1 \in DOMAIN r /\ at(i - k + 1) = i
      BY <1>1, <2>3, <2>6
    <3> QED BY <3>1
  <2> HIDE DEF at
  <2>10. r \in Lists
    <3>1. ASSUME NEW i \in DOMAIN r, NEW j \in DOMAIN r, r[i].id = r[j].id PROVE i = j
      BY <1>1, <2>7, <2>8, <3>1
    <3> QED BY <2>5, <3>1 DEF Lists
  <2>11. Range(r) \subseteq Range(s)
    BY <2>7 DEF Range
  <2>12. \A i \in DOMAIN s : s[i] \notin Range(r) => i < k
    <3> SUFFICES ASSUME NEW i \in DOMAIN s, ~(i < k) PROVE s[i] \in Range(r)
      OBVIOUS
    <3> QED BY <2>7, <2>9 DEF Range
  <2>13. r # <<>> /\ Head(r).time \in Nat \ {0}
    <3>1. r # <<>>
      BY <1>1, <2>3, <2>5
    <3>2. Head(r) \in Entries
      BY <2>5, <3>1, HeadTailProperties
    <3> QED BY <3>1, <3>2 DEF Entries
  <2> QED BY <2>4, <2>10, <2>11, <2>12, <2>13 DEF r, Range
<1> QED BY <1>2, <1>3

-----------------------------------------------------------------------------
(***************************************************************************)
(* Types                                                                   *)
(***************************************************************************)

TypeInv ==
    /\ clock \in Nat \ {0}
    /\ loopTime \in Nat /\ loopTime <= clock \div Ms
    /\ timer \in Nat \cup {NoTimer}
    /\ mstate \in [Transfers -> Mstates]
    /\ startop \in [Transfers -> Nat]
    /\ startsingle \in [Transfers -> Nat]
    /\ expiretime \in [Transfers -> Nat]
    /\ timeoutlist \in [Transfers -> Lists]
    /\ lastcall \in Nat
    /\ pc \in {"loop", "best", "run", "expire", "check"}
    /\ now \in Nat
    /\ data \in Transfers \cup {NoTransfer}
    /\ pc \in {"run", "expire"} => data \in Transfers

\* A place in the tree is a time.
LEMMA KeyFacts ==
    ASSUME NEW key \in Nat, NEW set \in Nat \ {0}
    PROVE  ExpireKey(key, set) \in Nat \ {0}
  BY DEF ExpireKey

\* The earliest time of a tree.
LEMMA EarliestFacts ==
    ASSUME NEW keys \in [Transfers -> Nat], Tree(keys) # {}
    PROVE  Earliest(keys) \in Nat \ {0}
<1> DEFINE S == {keys[t] : t \in Tree(keys)}
<1>1. S \subseteq Nat \ {0} /\ S # {}
  BY DEF Tree
<1>2. S \subseteq Nat
  BY <1>1
<1> HIDE DEF S
<1>3. Min(S) \in S
  BY <1>1, <1>2, MinFacts
<1> QED BY <1>1, <1>3 DEF Earliest, S

\* What the tree asks for is 0 or the earliest time.
Want(keys) == IF Tree(keys) = {} THEN 0 ELSE Earliest(keys)

\* g_Timeout is running and due in time for what was asked for last.
CoversLast == lastcall # 0 =>
    /\ timer # NoTimer
    /\ timer <= lastcall \div Ms + 1 \/ timer <= clock \div Ms

\* Curl_update_timer: either the timer was asked for before, or it is started
\* anew, and then in time although libuv counts from a time that is behind.
LEMMA UpdateFacts ==
    ASSUME TypeInv, NEW keys \in [Transfers -> Nat], NEW last \in Nat,
           last = 0 \/ (last = lastcall /\ CoversLast),
           Curl_update_timer(keys, last), clock' = clock
    PROVE  /\ timer' \in Nat \cup {NoTimer}
           /\ lastcall' \in Nat /\ lastcall' = Want(keys)
           /\ CoversLast'
<1>1. lastcall' = Want(keys)
  BY DEF Curl_update_timer, Want
<1>2. Tree(keys) # {} => Earliest(keys) \in Nat \ {0}
  BY EarliestFacts
<1>3. lastcall' \in Nat
  BY <1>1, <1>2 DEF Want
<1>4. Ms \in Nat \ {0}
  BY TimeAssumption
<1>5. /\ clock \in Nat /\ loopTime \in Nat /\ loopTime <= clock \div Ms
      /\ timer \in Nat \cup {NoTimer}
  BY DEF TypeInv
<1>6. CASE Want(keys) = last
  <2>1. timer' = timer
    BY <1>6 DEF Curl_update_timer, Want
  <2>2. CASE last = 0
    BY <1>1, <1>3, <1>5, <1>6, <2>1, <2>2 DEF CoversLast
  <2>3. CASE last = lastcall /\ CoversLast
    <3>1. lastcall' = lastcall
      BY <1>1, <1>6, <2>3
    <3> QED BY <1>1, <1>3, <1>5, <2>1, <2>3, <3>1 DEF CoversLast
  <2> QED BY <2>2, <2>3
<1>7. CASE Want(keys) # last
  <2>1. CurlTimeoutCallback(MultiTimeout(keys))
    BY <1>7 DEF Curl_update_timer, Want
  <2>2. CASE Tree(keys) = {}
    <3>1. MultiTimeout(keys) = -1
      BY <2>2 DEF MultiTimeout, NoTimer
    <3>2. timer' = NoTimer
      BY <2>1, <3>1 DEF CurlTimeoutCallback
    <3>3. lastcall' = 0
      BY <1>1, <2>2 DEF Want
    <3> QED BY <1>1, <1>3, <3>2, <3>3 DEF CoversLast
  <2>3. CASE Tree(keys) # {}
    <3> DEFINE E == Earliest(keys)
    <3>1. E \in Nat /\ lastcall' = E
      BY <1>1, <1>2, <2>3 DEF Want
    <3> HIDE DEF E
    <3>2. clock \div Ms \in Nat /\ E \div Ms \in Nat
      BY <1>4, <1>5, <3>1, DivOrder
    <3>3. CASE E <= clock
      <4>1. MultiTimeout(keys) = 0
        BY <2>3, <3>3 DEF MultiTimeout, E
      <4>2. timer' = loopTime + 0
        BY <2>1, <4>1 DEF CurlTimeoutCallback
      <4>3. timer' \in Nat /\ timer' <= clock \div Ms /\ timer' # NoTimer
        BY <1>5, <3>2, <4>2 DEF NoTimer
      <4> QED BY <1>1, <1>3, <4>3 DEF CoversLast
    <3>4. CASE ~(E <= clock)
      <4> DEFINE d == Curl_timediff(E, clock)
                 ms == Max({1, d})
      <4>1. d \in Int /\ d <= E \div Ms - clock \div Ms + 1
        BY <1>5, <3>1, TimediffDef, TimediffBound
      <4>2. MultiTimeout(keys) = ms
        BY <2>3, <3>4 DEF MultiTimeout, E
      <4> HIDE DEF d
      <4>3. ms \in {1, d} /\ ms >= 1
        <5>1. 1 \in Int /\ d \in Int
          BY <4>1
        <5> QED BY <5>1, MaxFacts
      <4> HIDE DEF ms
      <4>4. ms \in Int /\ ms # -1
        BY <4>1, <4>3
      <4>5. timer' = loopTime + ms
        BY <2>1, <4>2, <4>4 DEF CurlTimeoutCallback
      <4>6. clock \div Ms <= E \div Ms
        <5>1. clock <= E
          BY <1>5, <3>1, <3>4
        <5> QED BY <1>4, <1>5, <3>1, <5>1, DivOrder
      <4>7. timer' \in Nat /\ timer' <= E \div Ms + 1 /\ timer' # NoTimer
        BY <1>5, <3>2, <4>1, <4>3, <4>4, <4>5, <4>6 DEF NoTimer
      <4> QED BY <1>1, <1>3, <3>1, <4>7 DEF CoversLast
    <3> QED BY <3>3, <3>4
  <2> QED BY <2>2, <2>3
<1> QED BY <1>6, <1>7

\* Outside multi_socket the timer was last asked for what the tree wants.
CoverInv ==
    /\ CoversLast
    /\ pc \in {"loop", "check"} => lastcall = Want(expiretime)

LEMMA CoverInit == Init => TypeInv /\ CoverInv
<1> SUFFICES ASSUME Init PROVE TypeInv /\ CoverInv
  OBVIOUS
<1>1. Ms \in Nat \ {0} /\ Second \in Nat \ {0}
  BY TimeAssumption
<1>2. clock \in Nat \ {0}
  <2>1. Ms * Second \in Nat
    BY <1>1
  <2> QED BY <2>1 DEF Init
<1>3. clock \div Ms \in Nat
  BY <1>1, <1>2, DivOrder
<1>4. TypeInv
  BY <1>2, <1>3, EmptyList DEF Init, TypeInv, Mstates
<1>5. Want(expiretime) = 0
  BY DEF Init, Want, Tree
<1> QED BY <1>4, <1>5 DEF Init, CoverInv, CoversLast

LEMMA CoverStep == TypeInv /\ CoverInv /\ [Next]_vars => TypeInv' /\ CoverInv'
<1> SUFFICES ASSUME TypeInv, CoverInv, [Next]_vars PROVE TypeInv' /\ CoverInv'
  OBVIOUS
<1> USE DEF TypeInv
<1>1. Ms \in Nat \ {0} /\ Second \in Nat \ {0} /\ Timeout \in [Transfers -> Nat]
      /\ ConnectTimeout \in Nat /\ Waits \subseteq Nat
  BY TimeAssumption
<1>2. ASSUME NEW list \in Lists, NEW set \in Nat \ {0}, NEW id \in Ids
      PROVE  ExpireList(list, set, id) \in Lists
  BY ExpireFacts
<1>3. ASSUME NEW key \in Nat, NEW set \in Nat \ {0} PROVE ExpireKey(key, set) \in Nat
  BY KeyFacts
<1>4. "RUN_NOW" \in Ids /\ "TIMEOUT" \in Ids /\ "CONNECTTIMEOUT" \in Ids /\ "OTHER" \in Ids
  BY DEF Ids
<1>5. CASE Tick
  <2>1. clock + 1 \in Nat \ {0} /\ clock \div Ms <= (clock + 1) \div Ms
        /\ clock \div Ms \in Nat /\ (clock + 1) \div Ms \in Nat
    <3> DEFINE c == clock + 1
    <3>1. clock \in Nat /\ c \in Nat /\ clock <= c /\ c # 0
      OBVIOUS
    <3> HIDE DEF c
    <3>2. clock \div Ms \in Nat /\ clock \div Ms <= c \div Ms
      BY <1>1, <3>1, DivOrder
    <3>3. c \div Ms \in Nat
      BY <1>1, <3>1, DivOrder
    <3> QED BY <3>1, <3>2, <3>3 DEF c
  <2>2. TypeInv'
    BY <1>5, <2>1 DEF Tick
  <2>3. CoversLast'
    <3>1. CoversLast /\ timer' = timer /\ lastcall' = lastcall /\ clock' = clock + 1
      BY <1>5 DEF Tick, CoverInv
    <3>2. CASE lastcall = 0
      BY <3>1, <3>2 DEF CoversLast
    <3>3. CASE lastcall # 0
      <4> DEFINE p == clock \div Ms
                 q == (clock + 1) \div Ms
                 r == lastcall \div Ms
      <4>1. timer # NoTimer /\ (timer <= r + 1 \/ timer <= p)
        BY <3>1, <3>3 DEF CoversLast
      <4>2. p \in Nat /\ q \in Nat /\ p <= q
        BY <2>1
      <4> HIDE DEF p, q, r
      <4>3. timer <= r + 1 \/ timer <= q
        BY <4>1, <4>2 DEF NoTimer
      <4> QED BY <3>1, <4>1, <4>3 DEF CoversLast, q, r
    <3> QED BY <3>2, <3>3
  <2> QED BY <1>5, <2>2, <2>3 DEF Tick, CoverInv
<1>6. CASE UpdateTime
  <2>1. clock \div Ms \in Nat
    BY <1>1, DivOrder
  <2> QED BY <1>6, <2>1 DEF UpdateTime, CoverInv, CoversLast
<1>7. ASSUME NEW t \in Transfers, AddHandle(t) PROVE TypeInv' /\ CoverInv'
  <2>1. mstate' \in [Transfers -> Mstates]
    BY <1>7 DEF AddHandle, Mstates
  <2>2. timeoutlist' \in [Transfers -> Lists] /\ expiretime' \in [Transfers -> Nat]
    BY <1>2, <1>3, <1>4, <1>7 DEF AddHandle
  <2>3. /\ timer' \in Nat \cup {NoTimer}
        /\ lastcall' \in Nat /\ lastcall' = Want(expiretime')
        /\ CoversLast'
    <3>1. Curl_update_timer(expiretime', 0) /\ clock' = clock /\ 0 \in Nat
      BY <1>7 DEF AddHandle
    <3> QED BY <2>2, <3>1, UpdateFacts
  <2> QED BY <1>7, <2>1, <2>2, <2>3 DEF AddHandle, CoverInv
<1>8. ASSUME NEW t \in Transfers, GetBest(t) PROVE TypeInv' /\ CoverInv'
  <2>1. timeoutlist[t] \in Lists
    OBVIOUS
  <2>2. /\ AddNextTimeout(timeoutlist[t]) \in Lists
        /\ AddNextTimeout(timeoutlist[t]) # <<>>
              => Head(AddNextTimeout(timeoutlist[t])).time \in Nat
    BY <2>1, NextFacts
  <2>3. timeoutlist' \in [Transfers -> Lists]
    BY <1>8, <2>2 DEF GetBest
  <2>4. timeoutlist'[t] = AddNextTimeout(timeoutlist[t])
    BY <1>8 DEF GetBest
  <2>5. expiretime' \in [Transfers -> Nat]
    BY <1>8, <2>2, <2>4 DEF GetBest
  <2> QED BY <1>8, <2>3, <2>5 DEF GetBest, CoverInv, CoversLast
<1>9. ASSUME NEW t \in Transfers, RemoveHandle(t) PROVE TypeInv' /\ CoverInv'
  <2>1. mstate' \in [Transfers -> Mstates]
    BY <1>9 DEF RemoveHandle, Mstates
  <2>2. timeoutlist' \in [Transfers -> Lists] /\ expiretime' \in [Transfers -> Nat]
    BY <1>9, EmptyList DEF RemoveHandle
  <2>3. /\ timer' \in Nat \cup {NoTimer}
        /\ lastcall' \in Nat /\ lastcall' = Want(expiretime')
        /\ CoversLast'
    <3>1. Curl_update_timer(expiretime', lastcall) /\ clock' = clock /\ CoversLast
      BY <1>9 DEF RemoveHandle, CoverInv
    <3> QED BY <2>2, <3>1, UpdateFacts
  <2> QED BY <1>9, <2>1, <2>2, <2>3 DEF RemoveHandle, CoverInv
<1>10. CASE PerformRequests
  BY <1>10 DEF PerformRequests, CoverInv, CoversLast
<1>11. ASSUME NEW T \in SUBSET Transfers, CurlSocketActivity(T) PROVE TypeInv' /\ CoverInv'
  <2>1. timeoutlist' \in [Transfers -> Lists] /\ expiretime' \in [Transfers -> Nat]
    BY <1>2, <1>3, <1>4, <1>11 DEF CurlSocketActivity
  <2> QED BY <1>11, <2>1 DEF CurlSocketActivity, CoverInv, CoversLast
<1>12. CASE SocketActionReturns
  <2>1. /\ timer' \in Nat \cup {NoTimer}
        /\ lastcall' \in Nat /\ lastcall' = Want(expiretime)
        /\ CoversLast'
    <3>1. Curl_update_timer(expiretime, lastcall) /\ clock' = clock /\ CoversLast
      BY <1>12 DEF SocketActionReturns, CoverInv
    <3> QED BY <3>1, UpdateFacts
  <2> QED BY <1>12, <2>1 DEF SocketActionReturns, CoverInv
<1>13. CASE CheckCompletedEnd
  BY <1>13 DEF CheckCompletedEnd, CoverInv, CoversLast
<1>14. ASSUME NEW W \in SUBSET Transfers, NEW states \in [Transfers -> Mstates],
              NEW lists \in [Transfers -> Lists], NEW keys \in [Transfers -> Nat],
              ProcessPending(W, states, lists, keys)
       PROVE  /\ mstate' \in [Transfers -> Mstates]
              /\ timeoutlist' \in [Transfers -> Lists] /\ expiretime' \in [Transfers -> Nat]
  <2>1. mstate' \in [Transfers -> Mstates]
    BY <1>14 DEF ProcessPending, Mstates
  <2>2. timeoutlist' \in [Transfers -> Lists] /\ expiretime' \in [Transfers -> Nat]
    BY <1>2, <1>3, <1>4, <1>14 DEF ProcessPending
  <2> QED BY <2>1, <2>2
<1>15. ASSUME NEW W \in SUBSET Transfers, RunEnds(W) PROVE TypeInv' /\ CoverInv'
  <2> DEFINE states == [mstate EXCEPT ![data] = "MSGSENT"]
             lists == [timeoutlist EXCEPT ![data] = <<>>]
             keys == [expiretime EXCEPT ![data] = 0]
  <2>1. states \in [Transfers -> Mstates]
    BY DEF Mstates
  <2>2. lists \in [Transfers -> Lists] /\ keys \in [Transfers -> Nat]
    BY EmptyList
  <2>3. ProcessPending(W, states, lists, keys)
    BY <1>15 DEF RunEnds
  <2> HIDE DEF states, lists, keys
  <2>4. /\ mstate' \in [Transfers -> Mstates]
        /\ timeoutlist' \in [Transfers -> Lists] /\ expiretime' \in [Transfers -> Nat]
    BY <1>14, <2>1, <2>2, <2>3
  <2>5. startop' \in [Transfers -> Nat] /\ startsingle' \in [Transfers -> Nat]
    BY <1>15 DEF RunEnds
  <2> QED BY <1>15, <2>4, <2>5 DEF RunEnds, CoverInv, CoversLast
<1>16. CASE RunInit
  <2>1. mstate' \in [Transfers -> Mstates] /\ startop' \in [Transfers -> Nat]
    BY <1>16 DEF RunInit, Mstates
  <2> QED BY <1>16, <2>1 DEF RunInit, Runs, CoverInv, CoversLast
<1>17. CASE RunConnect
  <2>1. startsingle' \in [Transfers -> Nat]
    BY <1>17 DEF RunConnect
  <2> QED BY <1>17, <2>1 DEF RunConnect, Runs, CoverInv, CoversLast
<1>18. ASSUME data \in Transfers, Expires
       PROVE  timeoutlist' \in [Transfers -> Lists] /\ expiretime' \in [Transfers -> Nat]
  <2> DEFINE deadline == clock + Timeout[data] * Second * Ms
             connect  == clock + ConnectTimeout * Second * Ms
             list1 == IF Timeout[data] = 0 THEN timeoutlist[data]
                      ELSE ExpireList(timeoutlist[data], deadline, "TIMEOUT")
             key1  == IF Timeout[data] = 0 THEN expiretime[data]
                      ELSE ExpireKey(expiretime[data], deadline)
             list2 == IF ConnectTimeout = 0 THEN list1
                      ELSE ExpireList(list1, connect, "CONNECTTIMEOUT")
             key2  == IF ConnectTimeout = 0 THEN key1 ELSE ExpireKey(key1, connect)
  <2>1. deadline \in Nat \ {0} /\ connect \in Nat \ {0}
    <3>1. Timeout[data] * Second * Ms \in Nat /\ ConnectTimeout * Second * Ms \in Nat
      BY <1>1, <1>18
    <3> QED BY <3>1
  <2> HIDE DEF deadline, connect
  <2>2. list1 \in Lists /\ key1 \in Nat
    BY <1>2, <1>3, <1>4, <1>18, <2>1
  <2> HIDE DEF list1, key1
  <2>3. list2 \in Lists /\ key2 \in Nat
    BY <1>2, <1>3, <1>4, <2>1, <2>2
  <2> HIDE DEF list2, key2
  <2>4. /\ timeoutlist' = [timeoutlist EXCEPT ![data] = list2]
        /\ expiretime' = [expiretime EXCEPT ![data] = key2]
    BY <1>18 DEF Expires, list2, key2, list1, key1, deadline, connect
  <2> QED BY <2>3, <2>4
<1>19. CASE RunExpire
  <2>1. data \in Transfers /\ Expires
    BY <1>19 DEF RunExpire
  <2>2. timeoutlist' \in [Transfers -> Lists] /\ expiretime' \in [Transfers -> Nat]
    BY <1>18, <2>1
  <2>3. mstate' \in [Transfers -> Mstates]
    BY <1>19 DEF RunExpire, Mstates
  <2> QED BY <1>19, <2>1, <2>2, <2>3 DEF RunExpire, CoverInv, CoversLast
<1>20. CASE RunPends
  <2>1. data \in Transfers /\ Expires
    BY <1>20 DEF RunPends
  <2>2. timeoutlist' \in [Transfers -> Lists] /\ expiretime' \in [Transfers -> Nat]
    BY <1>18, <2>1
  <2>3. mstate' \in [Transfers -> Mstates]
    BY <1>20 DEF RunPends, Mstates
  <2> QED BY <1>20, <2>2, <2>3 DEF RunPends, CoverInv, CoversLast
<1>21. CASE RunConnected
  <2>1. mstate' \in [Transfers -> Mstates] /\ startsingle' \in [Transfers -> Nat]
    BY <1>21 DEF RunConnected, Mstates
  <2> QED BY <1>21, <2>1 DEF RunConnected, Runs, CoverInv, CoversLast
<1>22. ASSUME NEW W \in SUBSET Transfers, RunFollows(W) PROVE TypeInv' /\ CoverInv'
  <2> DEFINE states == [mstate EXCEPT ![data] = "CONNECT"]
  <2>1. states \in [Transfers -> Mstates]
    BY DEF Mstates
  <2>2. ProcessPending(W, states, timeoutlist, expiretime)
    BY <1>22 DEF RunFollows
  <2> HIDE DEF states
  <2>3. /\ mstate' \in [Transfers -> Mstates]
        /\ timeoutlist' \in [Transfers -> Lists] /\ expiretime' \in [Transfers -> Nat]
    BY <1>14, <2>1, <2>2
  <2> QED BY <1>22, <2>3 DEF RunFollows, Runs, CoverInv, CoversLast
<1>23. ASSUME NEW W \in SUBSET Transfers, RunWakes(W) PROVE TypeInv' /\ CoverInv'
  <2>1. /\ mstate' \in [Transfers -> Mstates]
        /\ timeoutlist' \in [Transfers -> Lists] /\ expiretime' \in [Transfers -> Nat]
    BY <1>14, <1>23 DEF RunWakes
  <2> QED BY <1>23, <2>1 DEF RunWakes, CoverInv, CoversLast
<1>24. ASSUME NEW t \in Transfers, RunNow(t) PROVE TypeInv' /\ CoverInv'
  <2>1. timeoutlist' \in [Transfers -> Lists] /\ expiretime' \in [Transfers -> Nat]
    BY <1>2, <1>3, <1>4, <1>24 DEF RunNow
  <2> QED BY <1>24, <2>1 DEF RunNow, Runs, CoverInv, CoversLast
<1>25. ASSUME NEW milli \in Waits, RunExpires(milli) PROVE TypeInv' /\ CoverInv'
  <2>1. clock + milli * Ms \in Nat \ {0}
    <3>1. milli * Ms \in Nat
      BY <1>1
    <3> QED BY <3>1
  <2>2. data \in Transfers
    BY <1>25 DEF RunExpires, Runs
  <2>3. timeoutlist' \in [Transfers -> Lists] /\ expiretime' \in [Transfers -> Nat]
    BY <1>2, <1>3, <1>4, <1>25, <2>1, <2>2 DEF RunExpires
  <2> QED BY <1>25, <2>2, <2>3 DEF RunExpires, Runs, CoverInv, CoversLast
<1>26. CASE RunExpireDone
  <2>1. data \in Transfers
    BY <1>26 DEF RunExpireDone, Runs
  <2>2. timeoutlist[data] \in Lists
    BY <2>1
  <2>3. Without(timeoutlist[data], "OTHER") \in Lists
    BY <1>4, <2>2, WithoutFacts
  <2>4. timeoutlist' \in [Transfers -> Lists]
    BY <1>26, <2>1, <2>3 DEF RunExpireDone
  <2> QED BY <1>26, <2>1, <2>4 DEF RunExpireDone, Runs, CoverInv, CoversLast
<1>27. CASE RunWaits
  BY <1>27 DEF RunWaits, CoverInv, CoversLast
<1>28. CASE UNCHANGED vars
  BY <1>28 DEF vars, CoverInv, CoversLast
<1> QED BY <1>5, <1>6, <1>7, <1>8, <1>9, <1>10, <1>11, <1>12, <1>13, <1>15, <1>16,
           <1>17, <1>19, <1>20, <1>21, <1>22, <1>23, <1>24, <1>25, <1>26, <1>27, <1>28 DEF Next

\* The types of every variable, and that no list of timeouts has two of the
\* same kind (multi_deltimeout before multi_addtimeout in Curl_expire).
THEOREM TypeCorrect == Spec => []TypeOK
<1>1. TypeInv => TypeOK
  <2> SUFFICES ASSUME TypeInv PROVE TypeOK
    OBVIOUS
  <2>1. ASSUME NEW t \in Transfers, NEW i \in DOMAIN timeoutlist[t]
        PROVE  /\ timeoutlist[t][i] \in Nodes
               /\ \A j \in DOMAIN timeoutlist[t] :
                     timeoutlist[t][i].id = timeoutlist[t][j].id => i = j
    <3>1. timeoutlist[t] \in Lists
      BY DEF TypeInv
    <3>2. /\ timeoutlist[t][i] \in Entries
          /\ \A j \in DOMAIN timeoutlist[t] :
                timeoutlist[t][i].id = timeoutlist[t][j].id => i = j
      BY <3>1, ListFacts
    <3> QED BY <3>2 DEF Entries, Nodes
  <2>2. DOMAIN timeoutlist = Transfers
    BY DEF TypeInv
  <2> QED BY <2>1, <2>2 DEF TypeInv, TypeOK
<1> QED BY <1>1, CoverInit, CoverStep, PTL DEF Spec

\* g_Timeout is running, and in time, whenever the loop is left to itself and
\* cURL waits for something.
THEOREM TimerInTime == Spec => []TimerCovers
<1>1. TypeInv /\ CoverInv => TimerCovers
  <2> SUFFICES ASSUME TypeInv, CoverInv, pc = "loop", Tree(expiretime) # {}
               PROVE  /\ timer # NoTimer
                      /\ timer <= Max({Earliest(expiretime) \div Ms + 1, clock \div Ms})
    BY DEF TimerCovers
  <2> DEFINE E == Earliest(expiretime)
             p == E \div Ms + 1
             q == clock \div Ms
  <2>1. E \in Nat \ {0}
    BY EarliestFacts DEF TypeInv
  <2>2. lastcall = E
    BY DEF CoverInv, Want
  <2>3. timer # NoTimer /\ (timer <= p \/ timer <= q)
    BY <2>1, <2>2 DEF CoverInv, CoversLast
  <2>4. p \in Int /\ q \in Int
    <3>1. Ms \in Nat \ {0} /\ clock \in Nat
      BY TimeAssumption DEF TypeInv
    <3>2. E \div Ms \in Nat /\ clock \div Ms \in Nat
      BY <2>1, <3>1, DivOrder
    <3> QED BY <3>2
  <2>5. timer \in Int
    BY DEF TypeInv, NoTimer
  <2> HIDE DEF p, q
  <2>6. Max({p, q}) \in {p, q} /\ Max({p, q}) >= p /\ Max({p, q}) >= q
    BY <2>4, MaxFacts
  <2>7. timer <= Max({p, q})
    BY <2>3, <2>4, <2>5, <2>6
  <2> QED BY <2>3, <2>7 DEF p, q
<1> QED BY <1>1, CoverInit, CoverStep, PTL DEF Spec

-----------------------------------------------------------------------------
(***************************************************************************)
(* Deadlines                                                               *)
(***************************************************************************)

Active(t) == mstate[t] \in {"connecting", "PERFORM"} /\ Timeout[t] # 0

\* The limit in a list.
LimitIn(list) == {e \in Range(list) : e.id = "TIMEOUT"}

\* The transfer is in the tree, and its limit is in the list.
Kept(t) == expiretime[t] # 0 /\ LimitIn(timeoutlist[t]) # {}

\* The limit has passed, and the transfer is about to find out.
Found(t) == t = data /\ pc = "run" /\ TimedOut(t)

\* A limit in the list is no earlier than what Curl_timeleft counts to.
NotEarly(t) ==
    \A e \in LimitIn(timeoutlist[t]) :
        /\ e.time >= startop[t] + Timeout[t] * Second * Ms
        /\ e.time >= startsingle[t] + Timeout[t] * Second * Ms

TransferInv(t) ==
    /\ startop[t] <= clock /\ startsingle[t] <= clock
    /\ mstate[t] \in {"INIT", "CONNECT"} =>
          expiretime[t] # 0 \/ (data = t /\ pc \in {"run", "expire"})
    /\ Active(t) => NotEarly(t) /\ (Kept(t) \/ Found(t))

DeadlineInv ==
    /\ pc = "expire" => mstate[data] = "CONNECT"
    /\ \A t \in Transfers : TransferInv(t)

\* A limit that add_next_timeout drops is one Curl_timeleft finds passed: both
\* round towards zero.
LEMMA DroppedFacts ==
    ASSUME TypeInv, NEW t \in Transfers, Active(t), NEW time \in Nat,
           time >= startop[t] + Timeout[t] * Second * Ms,
           time >= startsingle[t] + Timeout[t] * Second * Ms,
           ~(Curl_timediff(time, now) > 0)
    PROVE  TimedOut(t)
<1>1. /\ now \in Nat /\ startop[t] \in Nat /\ startsingle[t] \in Nat /\ Timeout[t] \in Nat
      /\ Second \in Nat \ {0} /\ ConnectTimeout \in Nat /\ Timeout[t] # 0
  BY TimeAssumption DEF TypeInv, Active
<1>2. ASSUME NEW start \in Nat, time >= start + Timeout[t] * Second * Ms
      PROVE  Curl_timediff(now, start) >= Timeout[t] * Second
  <2> DEFINE n == Timeout[t]
             c == start + n * Second * Ms
             d == Curl_timediff(time, now)
             f == Curl_timediff(c, now)
             g == Curl_timediff(start, now)
  <2>1. c \in Nat /\ f = n * Second + g
    BY <1>1, TimediffShift
  <2>2. c <= time
    BY <1>2, <2>1
  <2> HIDE DEF c
  <2>3. f <= d
    BY <1>1, <2>1, <2>2, TimediffOrder
  <2>4. d \in Int /\ g \in Int /\ f \in Int /\ Curl_timediff(now, start) = -g
    BY <1>1, <2>1, TimediffDef
  <2>5. n * Second \in Int /\ d <= 0
    BY <1>1, <2>4
  <2> DEFINE h == n * Second
  <2> HIDE DEF d, f, g, h
  <2>6. -g >= h
    <3>1. f = h + g /\ h \in Int
      BY <2>1, <2>5 DEF h
    <3> QED BY <2>3, <2>4, <2>5, <3>1
  <2> QED BY <2>4, <2>6 DEF h
<1>3. CASE mstate[t] = "PERFORM"
  <2>1. Curl_timediff(now, startop[t]) >= Timeout[t] * Second
    BY <1>1, <1>2
  <2>2. Limits(t) # {}
    BY <1>1, <1>3 DEF Limits
  <2> QED BY <1>3, <2>1, <2>2 DEF TimedOut
<1>4. CASE mstate[t] = "connecting"
  <2> DEFINE limit == Min(Limits(t))
  <2>1. Curl_timediff(now, startsingle[t]) >= Timeout[t] * Second
    BY <1>1, <1>2
  <2>2. Limits(t) \subseteq Nat /\ Timeout[t] \in Limits(t)
    BY <1>1, <1>4 DEF Limits
  <2>3. limit \in Nat /\ limit <= Timeout[t]
    <3>1. Limits(t) # {}
      BY <2>2
    <3> QED BY <2>2, <3>1, MinFacts
  <2>4. TimedOut(t) <=> Curl_timediff(now, startsingle[t]) >= limit * Second
    BY <1>4, <2>2 DEF TimedOut
  <2> HIDE DEF limit
  <2>5. limit * Second <= Timeout[t] * Second
    BY <1>1, <2>3
  <2>6. limit * Second \in Int /\ Timeout[t] * Second \in Int
    BY <1>1, <2>3
  <2>7. Curl_timediff(now, startsingle[t]) \in Int
    BY <1>1, TimediffDef
  <2>8. Curl_timediff(now, startsingle[t]) >= limit * Second
    <3> DEFINE x == limit * Second
               y == Timeout[t] * Second
               z == Curl_timediff(now, startsingle[t])
    <3>1. x <= y /\ z >= y /\ x \in Int /\ y \in Int /\ z \in Int
      BY <2>1, <2>5, <2>6, <2>7
    <3> HIDE DEF x, y, z
    <3>2. z >= x
      BY <3>1
    <3> QED BY <3>2 DEF x, z
  <2> QED BY <2>4, <2>8
<1> QED BY <1>3, <1>4 DEF Active

\* What the operations on a list do to the limit in it.
LEMMA LimitFacts ==
    ASSUME NEW s \in Lists, NEW set \in Nat \ {0}
    PROVE  /\ \A id \in Ids \ {"TIMEOUT"} : LimitIn(ExpireList(s, set, id)) = LimitIn(s)
           /\ LimitIn(ExpireList(s, set, "TIMEOUT")) = {[id |-> "TIMEOUT", time |-> set]}
           /\ LimitIn(Without(s, "OTHER")) = LimitIn(s)
<1>1. "TIMEOUT" \in Ids /\ "OTHER" \in Ids
  BY DEF Ids
<1>2. ASSUME NEW id \in Ids
      PROVE  Range(ExpireList(s, set, id))
                = {e \in Range(s) : e.id # id} \cup {[id |-> id, time |-> set]}
  BY ExpireFacts
<1>3. Range(Without(s, "OTHER")) = {e \in Range(s) : e.id # "OTHER"}
  BY <1>1, WithoutFacts
<1>4. ASSUME NEW id \in Ids \ {"TIMEOUT"}
      PROVE  LimitIn(ExpireList(s, set, id)) = LimitIn(s)
  <2>1. [id |-> id, time |-> set].id # "TIMEOUT"
    OBVIOUS
  <2> QED BY <1>2, <2>1 DEF LimitIn
<1>5. LimitIn(ExpireList(s, set, "TIMEOUT")) = {[id |-> "TIMEOUT", time |-> set]}
  BY <1>1, <1>2 DEF LimitIn
<1>6. LimitIn(Without(s, "OTHER")) = LimitIn(s)
  BY <1>3 DEF LimitIn
<1> QED BY <1>4, <1>5, <1>6

\* A step that leaves the limit of a transfer where it is.
LEMMA FrameFacts ==
    ASSUME TypeInv, NEW t \in Transfers, TransferInv(t),
           clock' = clock \/ clock' = clock + 1,
           mstate'[t] = mstate[t], startop'[t] = startop[t], startsingle'[t] = startsingle[t],
           expiretime[t] # 0 => expiretime'[t] # 0,
           LimitIn(timeoutlist'[t]) = LimitIn(timeoutlist[t]),
           Active(t) => Kept(t),
           mstate[t] \in {"INIT", "CONNECT"} =>
               expiretime[t] # 0 \/ (data' = t /\ pc' \in {"run", "expire"})
    PROVE  TransferInv(t)'
<1>1. startop'[t] <= clock' /\ startsingle'[t] <= clock'
  <2>1. clock \in Int /\ startop[t] \in Int /\ startsingle[t] \in Int
    BY DEF TypeInv
  <2>2. startop[t] <= clock /\ startsingle[t] <= clock
    BY DEF TransferInv
  <2>3. clock <= clock' /\ clock' \in Int
    BY <2>1
  <2> QED BY <2>1, <2>2, <2>3
<1>2. mstate'[t] \in {"INIT", "CONNECT"} =>
         expiretime'[t] # 0 \/ (data' = t /\ pc' \in {"run", "expire"})
  OBVIOUS
<1>3. ASSUME Active(t)' PROVE NotEarly(t)' /\ Kept(t)'
  <2>1. Active(t)
    BY <1>3 DEF Active
  <2>2. NotEarly(t) /\ Kept(t)
    BY <2>1 DEF TransferInv
  <2> QED BY <2>2 DEF NotEarly, Kept
<1> QED BY <1>1, <1>2, <1>3 DEF TransferInv

LEMMA DeadlineInit == Init => DeadlineInv
<1> SUFFICES ASSUME Init PROVE DeadlineInv
  OBVIOUS
<1>1. TypeInv
  BY CoverInit
<1>2. 0 <= clock
  BY <1>1 DEF TypeInv
<1> QED BY <1>2 DEF Init, DeadlineInv, TransferInv, Active

LEMMA DeadlineStep == TypeInv /\ TypeInv' /\ DeadlineInv /\ [Next]_vars => DeadlineInv'
<1> SUFFICES ASSUME TypeInv, TypeInv', DeadlineInv, [Next]_vars PROVE DeadlineInv'
  OBVIOUS
<1>1. /\ clock \in Nat \ {0}
      /\ mstate \in [Transfers -> Mstates]
      /\ startop \in [Transfers -> Nat] /\ startsingle \in [Transfers -> Nat]
      /\ expiretime \in [Transfers -> Nat]
      /\ timeoutlist \in [Transfers -> Lists]
      /\ pc \in {"run", "expire"} => data \in Transfers
      /\ \A t \in Transfers : TransferInv(t)
  BY DEF TypeInv, DeadlineInv
<1>2. ASSUME NEW t \in Transfers, Active(t), ~Found(t) PROVE Kept(t)
  BY <1>1, <1>2 DEF TransferInv
<1>3. ASSUME NEW t \in Transfers, pc \notin {"run", "expire"} \/ data # t
      PROVE  /\ Active(t) => Kept(t)
             /\ mstate[t] \in {"INIT", "CONNECT"} => expiretime[t] # 0
  <2>1. ~Found(t)
    BY <1>3 DEF Found
  <2> QED BY <1>1, <1>2, <1>3, <2>1 DEF TransferInv
<1>4. ASSUME NEW s, Runs(s)
      PROVE  /\ data \in Transfers /\ mstate[data] = s /\ pc = "run"
             /\ \A t \in Transfers : Active(t) => Kept(t)
  <2>1. data \in Transfers /\ mstate[data] = s /\ pc = "run" /\ ~TimedOut(data)
    BY <1>1, <1>4 DEF Runs
  <2>2. \A t \in Transfers : ~Found(t)
    BY <2>1 DEF Found
  <2> QED BY <1>2, <2>1, <2>2
<1>5. ASSUME NEW list \in Lists, NEW key \in Nat, NEW set \in Nat \ {0}
      PROVE  /\ LimitIn(ExpireList(list, set, "RUN_NOW")) = LimitIn(list)
             /\ LimitIn(ExpireList(list, set, "OTHER")) = LimitIn(list)
             /\ LimitIn(ExpireList(list, set, "CONNECTTIMEOUT")) = LimitIn(list)
             /\ ExpireKey(key, set) # 0
  <2>1. {"RUN_NOW", "OTHER", "CONNECTTIMEOUT"} \subseteq Ids \ {"TIMEOUT"}
    BY DEF Ids
  <2>2. ExpireKey(key, set) \in Nat \ {0}
    BY KeyFacts
  <2> QED BY <2>1, <2>2, LimitFacts
<1>6. ASSUME NEW t \in Transfers, UNCHANGED <<mstate, startop, startsingle, now>>
      PROVE  TimedOut(t)' = TimedOut(t)
  BY <1>6 DEF TimedOut, Limits
<1>7. CASE Tick
  <2>1. ASSUME NEW t \in Transfers PROVE TransferInv(t)'
    <3>1. CASE Active(t) => Kept(t)
      BY <1>1, <1>7, <3>1, FrameFacts DEF Tick, TransferInv
    <3>2. CASE ~(Active(t) => Kept(t))
      <4>1. NotEarly(t) /\ Found(t) /\ TransferInv(t)
        BY <1>1, <3>2 DEF TransferInv
      <4>2. NotEarly(t)' /\ Found(t)'
        BY <1>6, <1>7, <4>1 DEF Tick, NotEarly, Found
      <4>3. startop[t] <= clock + 1 /\ startsingle[t] <= clock + 1
        BY <1>1, <4>1 DEF TransferInv
      <4> QED BY <1>7, <4>1, <4>2, <4>3 DEF Tick, TransferInv
    <3> QED BY <3>1, <3>2
  <2> QED BY <1>7, <2>1 DEF Tick, DeadlineInv
<1>8. CASE UpdateTime \/ PerformRequests \/ SocketActionReturns \/ CheckCompletedEnd
  <2>1. /\ pc \notin {"run", "expire"} /\ pc' # "expire"
        /\ UNCHANGED <<clock, mstate, startop, startsingle, expiretime, timeoutlist>>
    BY <1>8 DEF UpdateTime, PerformRequests, SocketActionReturns, CheckCompletedEnd
  <2>2. ASSUME NEW t \in Transfers PROVE TransferInv(t)'
    BY <1>1, <1>3, <2>1, FrameFacts
  <2> QED BY <2>1, <2>2 DEF DeadlineInv
<1>9. ASSUME NEW u \in Transfers, AddHandle(u) PROVE DeadlineInv'
  <2>1. /\ pc = "loop" /\ pc' = "loop"
        /\ UNCHANGED <<clock, startop, startsingle>>
        /\ mstate' = [mstate EXCEPT ![u] = "INIT"]
        /\ timeoutlist' = [timeoutlist EXCEPT ![u] = ExpireList(@, clock, "RUN_NOW")]
        /\ expiretime' = [expiretime EXCEPT ![u] = ExpireKey(@, clock)]
    BY <1>9 DEF AddHandle
  <2>2. ASSUME NEW t \in Transfers PROVE TransferInv(t)'
    <3>1. CASE t = u
      <4>1. mstate'[t] = "INIT" /\ expiretime'[t] # 0
        BY <1>1, <1>5, <2>1, <3>1
      <4>2. ~Active(t)'
        BY <4>1 DEF Active
      <4> QED BY <1>1, <2>1, <4>1, <4>2 DEF TransferInv
    <3>2. CASE t # u
      BY <1>1, <1>3, <2>1, <3>2, FrameFacts
    <3> QED BY <3>1, <3>2
  <2> QED BY <2>1, <2>2 DEF DeadlineInv
<1>10. ASSUME NEW u \in Transfers, GetBest(u) PROVE DeadlineInv'
  <2> DEFINE old == timeoutlist[u]
             new == AddNextTimeout(old)
  <2>1. /\ pc = "best" /\ pc' = "run" /\ data' = u
        /\ UNCHANGED <<clock, mstate, startop, startsingle, now>>
        /\ timeoutlist' = [timeoutlist EXCEPT ![u] = AddNextTimeout(@)]
        /\ expiretime' = [expiretime EXCEPT ![u] =
              IF timeoutlist'[u] = <<>> THEN 0 ELSE Head(timeoutlist'[u]).time]
    BY <1>10 DEF GetBest
  <2>2. timeoutlist'[u] = new /\ expiretime'[u] = IF new = <<>> THEN 0 ELSE Head(new).time
    BY <1>1, <2>1
  <2>3. ASSUME NEW t \in Transfers PROVE TransferInv(t)'
    <3>1. CASE t # u
      BY <1>1, <1>3, <2>1, <3>1, FrameFacts
    <3>2. CASE t = u
      <4>1. (Active(t)' => NotEarly(t)' /\ (Kept(t)' \/ Found(t)')) => TransferInv(t)'
        BY <1>1, <2>1, <3>2 DEF TransferInv
      <4>2. ASSUME Active(t)' PROVE NotEarly(t)' /\ (Kept(t)' \/ Found(t)')
        <5>1. Active(t)
          BY <2>1, <4>2 DEF Active
        <5>2. NotEarly(t) /\ Kept(t)
          BY <1>1, <1>3, <2>1, <5>1 DEF TransferInv
        <5>3. /\ Range(new) \subseteq Range(old)
              /\ \A e \in Range(old) \ Range(new) : ~(Curl_timediff(e.time, now) > 0)
              /\ new # <<>> => Head(new).time \in Nat \ {0}
              /\ new = <<>> => Range(new) = {}
          BY <1>1, NextFacts
        <5> HIDE DEF new
        <5>4. LimitIn(new) \subseteq LimitIn(old)
          BY <5>3 DEF LimitIn
        <5>5. NotEarly(t)'
          BY <2>1, <2>2, <3>2, <5>2, <5>4 DEF NotEarly
        <5>6. PICK e \in LimitIn(old) : TRUE
          BY <3>2, <5>2 DEF Kept
        <5>7. CASE e \in Range(new)
          <6>1. LimitIn(new) # {} /\ new # <<>>
            BY <5>3, <5>6, <5>7 DEF LimitIn
          <6>2. expiretime'[u] # 0
            BY <2>2, <5>3, <6>1
          <6> QED BY <2>2, <3>2, <5>5, <6>1, <6>2 DEF Kept
        <5>8. CASE e \notin Range(new)
          <6>1. ~(Curl_timediff(e.time, now) > 0)
            BY <5>3, <5>6, <5>8 DEF LimitIn
          <6>2. e.time \in Nat
            <7>1. e \in Range(old) /\ old \in Lists
              BY <1>1, <5>6 DEF LimitIn
            <7>2. e \in Entries
              BY <7>1, ListFacts DEF Range
            <7> QED BY <7>2 DEF Entries
          <6>3. /\ e.time >= startop[t] + Timeout[t] * Second * Ms
                /\ e.time >= startsingle[t] + Timeout[t] * Second * Ms
            BY <3>2, <5>2, <5>6 DEF NotEarly
          <6>4. TimedOut(t)
            BY <5>1, <6>1, <6>2, <6>3, DroppedFacts
          <6>5. Found(t)'
            BY <1>6, <2>1, <3>2, <6>4 DEF Found
          <6> QED BY <5>5, <6>5
        <5> QED BY <5>7, <5>8
      <4> QED BY <4>1, <4>2
    <3> QED BY <3>1, <3>2
  <2> QED BY <2>1, <2>3 DEF DeadlineInv
<1>11. ASSUME NEW u \in Transfers, RemoveHandle(u) PROVE DeadlineInv'
  <2>1. /\ pc = "check" /\ pc' = "check"
        /\ UNCHANGED <<clock, startop, startsingle>>
        /\ mstate' = [mstate EXCEPT ![u] = "removed"]
        /\ timeoutlist' = [timeoutlist EXCEPT ![u] = <<>>]
        /\ expiretime' = [expiretime EXCEPT ![u] = 0]
    BY <1>11 DEF RemoveHandle
  <2>2. ASSUME NEW t \in Transfers PROVE TransferInv(t)'
    <3>1. CASE t = u
      <4>1. mstate'[t] = "removed"
        BY <1>1, <2>1, <3>1
      <4>2. ~Active(t)'
        BY <4>1 DEF Active
      <4> QED BY <1>1, <2>1, <4>1, <4>2 DEF TransferInv
    <3>2. CASE t # u
      BY <1>1, <1>3, <2>1, <3>2, FrameFacts
    <3> QED BY <3>1, <3>2
  <2> QED BY <2>1, <2>2 DEF DeadlineInv
<1>12. ASSUME NEW T \in SUBSET Transfers, CurlSocketActivity(T) PROVE DeadlineInv'
  <2>1. /\ pc = "loop" /\ pc' = "best"
        /\ UNCHANGED <<clock, mstate, startop, startsingle>>
        /\ timeoutlist' = [t \in Transfers |->
              IF t \in T THEN ExpireList(timeoutlist[t], clock, "RUN_NOW") ELSE timeoutlist[t]]
        /\ expiretime' = [t \in Transfers |->
              IF t \in T THEN ExpireKey(expiretime[t], clock) ELSE expiretime[t]]
    BY <1>12 DEF CurlSocketActivity
  <2>2. ASSUME NEW t \in Transfers PROVE TransferInv(t)'
    <3>1. /\ expiretime[t] # 0 => expiretime'[t] # 0
          /\ LimitIn(timeoutlist'[t]) = LimitIn(timeoutlist[t])
      BY <1>1, <1>5, <2>1
    <3> QED BY <1>1, <1>3, <2>1, <3>1, FrameFacts
  <2> QED BY <2>1, <2>2 DEF DeadlineInv
<1>13. ASSUME NEW W \in SUBSET Transfers, NEW states, NEW lists, NEW keys,
              ProcessPending(W, states, lists, keys), NEW t \in Transfers
       PROVE  /\ t \notin W => /\ mstate'[t] = states[t] /\ timeoutlist'[t] = lists[t]
                               /\ expiretime'[t] = keys[t]
              /\ t \in W => /\ mstate'[t] = "CONNECT"
                            /\ expiretime'[t] = ExpireKey(keys[t], clock)
  BY <1>13 DEF ProcessPending
<1>14. ASSUME NEW W \in SUBSET Transfers, NEW states, NEW lists, NEW keys,
              ProcessPending(W, states, lists, keys), NEW t \in W, keys[t] \in Nat,
              clock' = clock, startop'[t] = startop[t], startsingle'[t] = startsingle[t]
       PROVE  TransferInv(t)'
  <2>1. mstate'[t] = "CONNECT" /\ expiretime'[t] # 0
    BY <1>1, <1>5, <1>13, <1>14
  <2>2. ~Active(t)'
    BY <2>1 DEF Active
  <2>3. startop[t] <= clock /\ startsingle[t] <= clock
    BY <1>1 DEF TransferInv
  <2> QED BY <1>14, <2>1, <2>2, <2>3 DEF TransferInv
<1>15. ASSUME NEW W \in SUBSET Transfers, RunEnds(W) PROVE DeadlineInv'
  <2> DEFINE states == [mstate EXCEPT ![data] = "MSGSENT"]
             lists == [timeoutlist EXCEPT ![data] = <<>>]
             keys == [expiretime EXCEPT ![data] = 0]
  <2>1. /\ pc = "run" /\ pc' = "best" /\ data \in Transfers /\ data \notin W
        /\ UNCHANGED <<clock>>
        /\ startop' = [startop EXCEPT ![data] = 0]
        /\ startsingle' = [startsingle EXCEPT ![data] = 0]
        /\ ProcessPending(W, states, lists, keys)
    BY <1>1, <1>15 DEF RunEnds, Woken, Pending
  <2>2. states[data] = "MSGSENT"
    BY <1>1, <2>1
  <2>3. ASSUME NEW t \in Transfers, t # data
        PROVE  states[t] = mstate[t] /\ lists[t] = timeoutlist[t] /\ keys[t] = expiretime[t]
    BY <1>1, <2>3
  <2> HIDE DEF states, lists, keys
  <2>4. ASSUME NEW t \in Transfers PROVE TransferInv(t)'
    <3>1. CASE t = data
      <4>1. mstate'[t] = "MSGSENT" /\ startop'[t] = 0 /\ startsingle'[t] = 0
        BY <1>1, <1>13, <2>1, <2>2, <3>1
      <4>2. ~Active(t)'
        BY <4>1 DEF Active
      <4>3. 0 <= clock
        BY <1>1
      <4> QED BY <2>1, <4>1, <4>2, <4>3 DEF TransferInv
    <3>2. CASE t # data /\ t \in W
      BY <1>1, <1>14, <2>1, <2>3, <3>2
    <3>3. CASE t # data /\ t \notin W
      <4>1. mstate'[t] = mstate[t] /\ timeoutlist'[t] = timeoutlist[t]
            /\ expiretime'[t] = expiretime[t]
        BY <1>13, <2>1, <2>3, <3>3
      <4> QED BY <1>1, <1>3, <2>1, <3>3, <4>1, FrameFacts
    <3> QED BY <3>1, <3>2, <3>3
  <2> QED BY <2>1, <2>4 DEF DeadlineInv
<1>16. CASE RunInit
  <2>1. /\ data \in Transfers /\ pc = "run" /\ pc' = "run"
        /\ UNCHANGED <<clock, startsingle, timeoutlist, expiretime, data>>
        /\ mstate' = [mstate EXCEPT ![data] = "CONNECT"]
        /\ startop' = [startop EXCEPT ![data] = clock]
    BY <1>4, <1>16 DEF RunInit
  <2>2. ASSUME NEW t \in Transfers PROVE TransferInv(t)'
    <3>1. CASE t = data
      <4>1. mstate'[t] = "CONNECT" /\ startop'[t] = clock
        BY <1>1, <2>1, <3>1
      <4>2. ~Active(t)'
        BY <4>1 DEF Active
      <4>3. clock <= clock /\ startsingle[t] <= clock
        BY <1>1 DEF TransferInv
      <4> QED BY <2>1, <3>1, <4>1, <4>2, <4>3 DEF TransferInv
    <3>2. CASE t # data
      BY <1>1, <1>3, <2>1, <3>2, FrameFacts
    <3> QED BY <3>1, <3>2
  <2> QED BY <2>1, <2>2 DEF DeadlineInv
<1>17. CASE RunConnect
  <2>1. /\ data \in Transfers /\ mstate[data] = "CONNECT" /\ pc = "run" /\ pc' = "expire"
        /\ UNCHANGED <<clock, mstate, startop, timeoutlist, expiretime, data>>
        /\ startsingle' = [startsingle EXCEPT ![data] = clock]
    BY <1>4, <1>17 DEF RunConnect
  <2>2. ASSUME NEW t \in Transfers PROVE TransferInv(t)'
    <3>1. CASE t = data
      <4>1. mstate'[t] = "CONNECT" /\ startsingle'[t] = clock
        BY <1>1, <2>1, <3>1
      <4>2. ~Active(t)'
        BY <4>1 DEF Active
      <4>3. clock <= clock /\ startop[t] <= clock
        BY <1>1 DEF TransferInv
      <4> QED BY <2>1, <3>1, <4>1, <4>2, <4>3 DEF TransferInv
    <3>2. CASE t # data
      BY <1>1, <1>3, <2>1, <3>2, FrameFacts
    <3> QED BY <3>1, <3>2
  <2> QED BY <2>1, <2>2 DEF DeadlineInv
<1>18. ASSUME pc = "expire", NEW u \in Transfers, u = data, Expires,
              UNCHANGED <<clock, startop, startsingle>>
       PROVE  /\ startop'[u] <= clock' /\ startsingle'[u] <= clock'
              /\ Timeout[u] # 0 => NotEarly(u)' /\ Kept(u)'
              /\ \A t \in Transfers \ {u} :
                    timeoutlist'[t] = timeoutlist[t] /\ expiretime'[t] = expiretime[t]
  <2> DEFINE deadline == clock + Timeout[u] * Second * Ms
             connect  == clock + ConnectTimeout * Second * Ms
             list1 == IF Timeout[u] = 0 THEN timeoutlist[u]
                      ELSE ExpireList(timeoutlist[u], deadline, "TIMEOUT")
             key1  == IF Timeout[u] = 0 THEN expiretime[u]
                      ELSE ExpireKey(expiretime[u], deadline)
             list2 == IF ConnectTimeout = 0 THEN list1
                      ELSE ExpireList(list1, connect, "CONNECTTIMEOUT")
             key2  == IF ConnectTimeout = 0 THEN key1 ELSE ExpireKey(key1, connect)
  <2>1. /\ timeoutlist' = [timeoutlist EXCEPT ![data] = list2]
        /\ expiretime' = [expiretime EXCEPT ![data] = key2]
    BY <1>18 DEF Expires
  <2>2. deadline \in Nat \ {0} /\ connect \in Nat \ {0}
    <3>1. Timeout[u] * Second * Ms \in Nat /\ ConnectTimeout * Second * Ms \in Nat
      BY <1>18, TimeAssumption
    <3> QED BY <1>1, <3>1
  <2>3. timeoutlist'[u] = list2 /\ expiretime'[u] = key2
    BY <1>1, <1>18, <2>1
  <2>4. startop[u] <= clock /\ startsingle[u] <= clock
    BY <1>1, <1>18 DEF TransferInv
  <2>5. ASSUME Timeout[u] # 0 PROVE NotEarly(u)' /\ Kept(u)'
    <3>1. list1 = ExpireList(timeoutlist[u], deadline, "TIMEOUT")
          /\ key1 = ExpireKey(expiretime[u], deadline)
      BY <2>5
    <3>2. deadline >= startop[u] + Timeout[u] * Second * Ms
          /\ deadline >= startsingle[u] + Timeout[u] * Second * Ms
      <4>1. Timeout[u] * Second * Ms \in Int
        BY <1>18, TimeAssumption
      <4>2. startop[u] \in Int /\ startsingle[u] \in Int /\ clock \in Int
        BY <1>1, <1>18
      <4> DEFINE x == Timeout[u] * Second * Ms
      <4>3. deadline = clock + x
        OBVIOUS
      <4> HIDE DEF deadline, x
      <4>4. deadline >= startop[u] + x /\ deadline >= startsingle[u] + x
        BY <2>4, <4>1, <4>2, <4>3 DEF x
      <4> QED BY <4>4 DEF x
    <3> HIDE DEF deadline, connect, list1, key1
    <3>3. timeoutlist[u] \in Lists /\ expiretime[u] \in Nat
      BY <1>1, <1>18
    <3>4. LimitIn(list1) = {[id |-> "TIMEOUT", time |-> deadline]}
      BY <2>2, <3>1, <3>3, LimitFacts
    <3>5. list1 \in Lists /\ key1 \in Nat \ {0}
      <4>1. "TIMEOUT" \in Ids
        BY DEF Ids
      <4> QED BY <2>2, <3>1, <3>3, <4>1, ExpireFacts, KeyFacts
    <3>6. LimitIn(list2) = LimitIn(list1) /\ key2 # 0
      BY <1>5, <2>2, <3>5
    <3> HIDE DEF list2, key2
    <3>7. \A e \in LimitIn(list2) : e.time = deadline
      BY <3>4, <3>6
    <3>8. LimitIn(list2) # {}
      BY <3>4, <3>6
    <3>9. NotEarly(u)'
      <4>1. LimitIn(timeoutlist'[u]) = LimitIn(list2)
        BY <2>3
      <4> QED BY <1>18, <3>2, <3>7, <4>1 DEF NotEarly
    <3>10. Kept(u)'
      BY <2>3, <3>6, <3>8 DEF Kept
    <3> QED BY <3>9, <3>10
  <2> HIDE DEF list2, key2
  <2>6. \A t \in Transfers \ {u} :
           timeoutlist'[t] = timeoutlist[t] /\ expiretime'[t] = expiretime[t]
    BY <1>1, <1>18, <2>1
  <2> QED BY <1>18, <2>4, <2>5, <2>6
<1>19. CASE RunExpire \/ RunPends
  <2>1. PICK s \in {"connecting", "CONNECT_PEND"} :
          /\ pc = "expire" /\ data \in Transfers /\ Expires
          /\ UNCHANGED <<clock, startop, startsingle>>
          /\ mstate' = [mstate EXCEPT ![data] = s]
          /\ pc' # "expire" /\ (s = "connecting" => data' = data)
    BY <1>1, <1>19 DEF RunExpire, RunPends
  <2>2. ASSUME NEW t \in Transfers PROVE TransferInv(t)'
    <3>1. CASE t = data
      <4>1. mstate'[t] = s
        BY <1>1, <2>1, <3>1
      <4>2. /\ startop'[t] <= clock' /\ startsingle'[t] <= clock'
            /\ Timeout[t] # 0 => NotEarly(t)' /\ Kept(t)'
        BY <1>18, <2>1, <3>1
      <4> QED BY <2>1, <4>1, <4>2 DEF TransferInv, Active
    <3>2. CASE t # data
      <4>1. timeoutlist'[t] = timeoutlist[t] /\ expiretime'[t] = expiretime[t]
        BY <1>18, <2>1, <3>2
      <4> QED BY <1>1, <1>3, <2>1, <3>2, <4>1, FrameFacts
    <3> QED BY <3>1, <3>2
  <2> QED BY <2>1, <2>2 DEF DeadlineInv
<1>20. CASE RunConnected
  <2>1. /\ data \in Transfers /\ mstate[data] = "connecting" /\ pc = "run" /\ pc' = "run"
        /\ UNCHANGED <<clock, startop, timeoutlist, expiretime, data>>
        /\ mstate' = [mstate EXCEPT ![data] = "PERFORM"]
        /\ startsingle' = [startsingle EXCEPT ![data] = 0]
        /\ \A t \in Transfers : Active(t) => Kept(t)
    BY <1>4, <1>20 DEF RunConnected
  <2>2. ASSUME NEW t \in Transfers PROVE TransferInv(t)'
    <3>1. CASE t = data
      <4>1. mstate'[t] = "PERFORM" /\ startsingle'[t] = 0
        BY <1>1, <2>1, <3>1
      <4>2. startop[t] <= clock /\ 0 <= clock
        BY <1>1 DEF TransferInv
      <4>3. ASSUME Timeout[t] # 0 PROVE NotEarly(t)' /\ Kept(t)'
        <5>1. Active(t)
          BY <2>1, <3>1, <4>3 DEF Active
        <5>2. NotEarly(t) /\ Kept(t)
          BY <1>1, <2>1, <5>1 DEF TransferInv
        <5>3. ASSUME NEW e \in LimitIn(timeoutlist[t])
              PROVE  /\ e.time >= startop[t] + Timeout[t] * Second * Ms
                     /\ e.time >= 0 + Timeout[t] * Second * Ms
          <6> DEFINE x == Timeout[t] * Second * Ms
                     n == e.time
          <6>1. n >= startop[t] + x /\ n >= startsingle[t] + x
            BY <5>2 DEF NotEarly
          <6>2. x \in Int
            BY TimeAssumption
          <6>3. n \in Int
            <7>1. e \in Range(timeoutlist[t]) /\ timeoutlist[t] \in Lists
              BY <1>1 DEF LimitIn
            <7>2. e \in Entries
              BY <7>1, ListFacts DEF Range
            <7> QED BY <7>2 DEF Entries
          <6>4. startsingle[t] \in Nat
            BY <1>1
          <6> HIDE DEF x, n
          <6>5. n >= 0 + x
            BY <6>1, <6>2, <6>3, <6>4
          <6> QED BY <6>1, <6>5 DEF x, n
        <5> QED BY <2>1, <4>1, <5>2, <5>3 DEF NotEarly, Kept
      <4> QED BY <2>1, <4>1, <4>2, <4>3 DEF TransferInv, Active
    <3>2. CASE t # data
      BY <1>1, <1>3, <2>1, <3>2, FrameFacts
    <3> QED BY <3>1, <3>2
  <2> QED BY <2>1, <2>2 DEF DeadlineInv
<1>21. ASSUME NEW W \in SUBSET Transfers, RunFollows(W) PROVE DeadlineInv'
  <2> DEFINE states == [mstate EXCEPT ![data] = "CONNECT"]
  <2>1. /\ data \in Transfers /\ pc = "run" /\ pc' = "run" /\ mstate[data] = "PERFORM"
        /\ UNCHANGED <<clock, startop, startsingle, data>>
        /\ ProcessPending(W, states, timeoutlist, expiretime)
        /\ W \subseteq Pending
    BY <1>4, <1>21 DEF RunFollows, Woken
  <2>2. data \notin W
    BY <2>1 DEF Pending
  <2>3. states[data] = "CONNECT" /\ \A t \in Transfers \ {data} : states[t] = mstate[t]
    BY <1>1, <2>1
  <2> HIDE DEF states
  <2>4. ASSUME NEW t \in Transfers PROVE TransferInv(t)'
    <3>1. CASE t = data
      <4>1. mstate'[t] = "CONNECT"
        BY <1>13, <2>1, <2>2, <2>3, <3>1
      <4>2. ~Active(t)'
        BY <4>1 DEF Active
      <4> QED BY <1>1, <2>1, <3>1, <4>1, <4>2 DEF TransferInv
    <3>2. CASE t # data /\ t \in W
      BY <1>1, <1>14, <2>1, <3>2
    <3>3. CASE t # data /\ t \notin W
      <4>1. mstate'[t] = mstate[t] /\ timeoutlist'[t] = timeoutlist[t]
            /\ expiretime'[t] = expiretime[t]
        BY <1>13, <2>1, <2>3, <3>3
      <4> QED BY <1>1, <1>3, <2>1, <3>3, <4>1, FrameFacts
    <3> QED BY <3>1, <3>2, <3>3
  <2> QED BY <2>1, <2>4 DEF DeadlineInv
<1>22. ASSUME NEW W \in SUBSET Transfers, RunWakes(W) PROVE DeadlineInv'
  <2>1. /\ pc = "run" /\ W \subseteq Pending
        /\ UNCHANGED <<clock, startop, startsingle, pc, now, data>>
        /\ ProcessPending(W, mstate, timeoutlist, expiretime)
    BY <1>22 DEF RunWakes, Woken
  <2>2. ASSUME NEW t \in Transfers PROVE TransferInv(t)'
    <3>1. CASE t \in W
      BY <1>1, <1>14, <2>1, <3>1
    <3>2. CASE t \notin W
      <4>1. mstate'[t] = mstate[t] /\ timeoutlist'[t] = timeoutlist[t]
            /\ expiretime'[t] = expiretime[t]
        BY <1>13, <2>1, <3>2
      <4>2. CASE Active(t) => Kept(t)
        BY <1>1, <2>1, <4>1, <4>2, FrameFacts DEF TransferInv
      <4>3. CASE ~(Active(t) => Kept(t))
        <5>1. NotEarly(t) /\ Found(t) /\ TransferInv(t)
          BY <1>1, <4>3 DEF TransferInv
        <5>2. NotEarly(t)' /\ Found(t)'
          <6>1. TimedOut(t)' = TimedOut(t)
            BY <2>1, <4>1 DEF TimedOut, Limits
          <6> QED BY <2>1, <4>1, <5>1, <6>1 DEF NotEarly, Found
        <5> QED BY <2>1, <4>1, <5>1, <5>2 DEF TransferInv
      <4> QED BY <4>2, <4>3
    <3> QED BY <3>1, <3>2
  <2> QED BY <2>1, <2>2 DEF DeadlineInv
<1>23. ASSUME Runs("connecting") \/ Runs("PERFORM") \/ Runs("CONNECT_PEND"),
              NEW t \in Transfers
       PROVE  /\ Active(t) => Kept(t)
              /\ mstate[t] \in {"INIT", "CONNECT"} => expiretime[t] # 0
  BY <1>1, <1>4, <1>23 DEF TransferInv
<1>24. ASSUME NEW u \in Transfers, RunNow(u) PROVE DeadlineInv'
  <2>1. /\ Runs("connecting") \/ Runs("PERFORM")
        /\ UNCHANGED <<clock, mstate, startop, startsingle, pc>>
        /\ timeoutlist' = [timeoutlist EXCEPT ![u] = ExpireList(@, clock, "RUN_NOW")]
        /\ expiretime' = [expiretime EXCEPT ![u] = ExpireKey(@, clock)]
    BY <1>24 DEF RunNow
  <2>2. ASSUME NEW t \in Transfers PROVE TransferInv(t)'
    <3>1. /\ expiretime[t] # 0 => expiretime'[t] # 0
          /\ LimitIn(timeoutlist'[t]) = LimitIn(timeoutlist[t])
      BY <1>1, <1>5, <2>1
    <3> QED BY <1>1, <1>23, <2>1, <3>1, FrameFacts
  <2> QED BY <2>1, <2>2 DEF DeadlineInv, Runs
<1>25. ASSUME NEW milli \in Waits, RunExpires(milli) PROVE DeadlineInv'
  <2> DEFINE set == clock + milli * Ms
  <2>1. /\ Runs("connecting") \/ Runs("PERFORM")
        /\ UNCHANGED <<clock, mstate, startop, startsingle, pc>>
        /\ timeoutlist' = [timeoutlist EXCEPT ![data] = ExpireList(@, set, "OTHER")]
        /\ expiretime' = [expiretime EXCEPT ![data] = ExpireKey(@, set)]
    BY <1>25 DEF RunExpires
  <2>2. set \in Nat \ {0}
    <3>1. milli * Ms \in Nat
      BY TimeAssumption
    <3> QED BY <1>1, <3>1
  <2> HIDE DEF set
  <2>3. ASSUME NEW t \in Transfers PROVE TransferInv(t)'
    <3>1. /\ expiretime[t] # 0 => expiretime'[t] # 0
          /\ LimitIn(timeoutlist'[t]) = LimitIn(timeoutlist[t])
      BY <1>1, <1>5, <2>1, <2>2
    <3> QED BY <1>1, <1>23, <2>1, <3>1, FrameFacts
  <2> QED BY <2>1, <2>3 DEF DeadlineInv, Runs
<1>26. CASE RunExpireDone
  <2>1. /\ Runs("PERFORM")
        /\ UNCHANGED <<clock, mstate, startop, startsingle, expiretime, pc>>
        /\ timeoutlist' = [timeoutlist EXCEPT ![data] = Without(@, "OTHER")]
    BY <1>26 DEF RunExpireDone
  <2>2. ASSUME NEW t \in Transfers PROVE TransferInv(t)'
    <3>1. LimitIn(timeoutlist'[t]) = LimitIn(timeoutlist[t])
      <4>1. LimitIn(Without(timeoutlist[t], "OTHER")) = LimitIn(timeoutlist[t])
        BY <1>1, LimitFacts
      <4> QED BY <1>1, <2>1, <4>1
    <3> QED BY <1>1, <1>23, <2>1, <3>1, FrameFacts
  <2> QED BY <2>1, <2>2 DEF DeadlineInv, Runs
<1>27. CASE RunWaits
  <2>1. /\ Runs("connecting") \/ Runs("PERFORM") \/ Runs("CONNECT_PEND")
        /\ UNCHANGED <<clock, mstate, startop, startsingle, expiretime, timeoutlist>>
        /\ pc' = "best"
    BY <1>27 DEF RunWaits
  <2>2. ASSUME NEW t \in Transfers PROVE TransferInv(t)'
    BY <1>1, <1>23, <2>1, FrameFacts
  <2> QED BY <2>1, <2>2 DEF DeadlineInv
<1>28. CASE UNCHANGED vars
  <2>1. ASSUME NEW t \in Transfers PROVE TransferInv(t)'
    BY <1>1, <1>28 DEF vars, TransferInv, Active, NotEarly, Kept, Found, TimedOut, Limits
  <2> QED BY <1>28, <2>1 DEF vars, DeadlineInv
<1> QED BY <1>7, <1>8, <1>9, <1>10, <1>11, <1>12, <1>15, <1>16, <1>17, <1>19, <1>20,
           <1>21, <1>22, <1>24, <1>25, <1>26, <1>27, <1>28 DEF Next

\* A limit is never lost: whatever drops it from the list leaves the transfer
\* to the test that ends it (add_next_timeout and Curl_timeleft).
THEOREM DeadlineIsKept == Spec => []DeadlineKept
<1>1. TypeInv /\ DeadlineInv => DeadlineKept
  <2> SUFFICES ASSUME TypeInv, DeadlineInv, NEW t \in Transfers
               PROVE  /\ mstate[t] \in {"INIT", "CONNECT"} /\ pc = "loop" => expiretime[t] # 0
                      /\ mstate[t] \in {"connecting", "PERFORM"} /\ Timeout[t] # 0 =>
                            \/ t = data /\ pc = "run" /\ TimedOut(t)
                            \/ /\ expiretime[t] # 0
                               /\ \E i \in DOMAIN timeoutlist[t] : timeoutlist[t][i].id = "TIMEOUT"
    BY DEF DeadlineKept
  <2>1. TransferInv(t)
    BY DEF DeadlineInv
  <2>2. Kept(t) => /\ expiretime[t] # 0
                   /\ \E i \in DOMAIN timeoutlist[t] : timeoutlist[t][i].id = "TIMEOUT"
    BY DEF Kept, LimitIn, Range
  <2> QED BY <2>1, <2>2 DEF TransferInv, Active, Found
<1> QED BY <1>1, CoverInit, CoverStep, DeadlineInit, DeadlineStep, PTL DEF Spec

\* Nobody waits for ever on those who wait: while a transfer waits for the
\* connection of another (CURLOPT_PIPEWAIT), one that does not wait is there to
\* wake it.
THEOREM NoneStranded == Spec => []PendingHeld
<1> DEFINE Going(t) == mstate[t] \in {"CONNECT", "connecting", "PERFORM"}
           HeldInv == PendingHeld /\ (pc = "expire" => mstate[data] = "CONNECT")
<1>1. Init => HeldInv
  BY DEF Init, PendingHeld, Pending
<1>2. TypeInv /\ HeldInv /\ [Next]_vars => HeldInv'
  <2> SUFFICES ASSUME TypeInv, HeldInv, [Next]_vars PROVE HeldInv'
    OBVIOUS
  <2>1. /\ mstate \in [Transfers -> Mstates]
        /\ pc \in {"run", "expire"} => data \in Transfers
    BY DEF TypeInv
  <2>2. Pending # {} => \E t \in Transfers : Going(t)
    BY DEF PendingHeld
  <2>3. ASSUME pc' # "expire" \/ mstate'[data'] = "CONNECT",
               \E t \in Transfers : Going(t)'
        PROVE  HeldInv'
    BY <2>3 DEF PendingHeld
  <2>4. ASSUME UNCHANGED mstate, pc' # "expire" \/ UNCHANGED <<pc, data>> PROVE HeldInv'
    BY <2>4 DEF PendingHeld, Pending
  <2>5. CASE \/ Tick \/ UpdateTime \/ PerformRequests \/ SocketActionReturns
             \/ CheckCompletedEnd \/ RunExpireDone \/ RunWaits
             \/ \E t \in Transfers : GetBest(t) \/ RunNow(t)
             \/ \E milli \in Waits : RunExpires(milli)
             \/ \E T \in SUBSET Transfers : CurlSocketActivity(T)
    <3>1. UNCHANGED mstate /\ (pc' # "expire" \/ UNCHANGED <<pc, data>>)
      BY <2>5 DEF Tick, UpdateTime, PerformRequests, SocketActionReturns, CheckCompletedEnd,
                  RunExpireDone, RunWaits, GetBest, RunNow, RunExpires, CurlSocketActivity
    <3> QED BY <2>4, <3>1
  <2>6. ASSUME NEW u \in Transfers, AddHandle(u) \/ RemoveHandle(u) PROVE HeldInv'
    <3>1. PICK s \in {"INIT", "removed"} :
            /\ mstate' = [mstate EXCEPT ![u] = s]
            /\ mstate[u] \in {"new", "MSGSENT"} /\ pc' # "expire"
      BY <2>6 DEF AddHandle, RemoveHandle
    <3>2. Pending' = Pending
      BY <2>1, <3>1 DEF Pending
    <3>3. ASSUME NEW t \in Transfers, Going(t) PROVE Going(t)'
      BY <2>1, <3>1, <3>3
    <3> QED BY <2>2, <3>1, <3>2, <3>3 DEF PendingHeld
  <2>7. ASSUME NEW W \in SUBSET Transfers, RunEnds(W) PROVE HeldInv'
    <3>1. /\ W \in Woken /\ pc' # "expire" /\ data \in Transfers
          /\ \A t \in Transfers : mstate'[t] = IF t \in W THEN "CONNECT"
                                               ELSE [mstate EXCEPT ![data] = "MSGSENT"][t]
      BY <2>1, <2>7 DEF RunEnds, ProcessPending
    <3>2. CASE W = {}
      <4>1. Pending = {}
        BY <3>1, <3>2 DEF Woken
      <4>2. Pending' = {}
        BY <2>1, <3>1, <3>2, <4>1 DEF Pending
      <4> QED BY <3>1, <4>2 DEF PendingHeld
    <3>3. CASE W # {}
      <4>1. PICK t \in W : mstate'[t] = "CONNECT"
        BY <3>1, <3>3
      <4> QED BY <2>3, <3>1, <4>1
    <3> QED BY <3>2, <3>3
  <2>8. ASSUME NEW W \in SUBSET Transfers, RunFollows(W) \/ RunWakes(W) PROVE HeldInv'
    <3>1. CASE RunFollows(W)
      <4>1. /\ pc' # "expire" /\ data \in Transfers
            /\ mstate'[data] = IF data \in W THEN "CONNECT"
                               ELSE [mstate EXCEPT ![data] = "CONNECT"][data]
        BY <2>1, <3>1 DEF RunFollows, Runs, ProcessPending
      <4>2. mstate'[data] = "CONNECT"
        BY <2>1, <4>1
      <4> QED BY <2>3, <4>1, <4>2
    <3>2. CASE RunWakes(W)
      <4>1. W # {} /\ pc' # "expire" /\ \A t \in W : mstate'[t] = "CONNECT"
        BY <3>2 DEF RunWakes, ProcessPending
      <4>2. PICK t \in W : mstate'[t] = "CONNECT"
        BY <4>1
      <4> QED BY <2>3, <4>1, <4>2
    <3> QED BY <2>8, <3>1, <3>2
  <2>9. CASE RunInit \/ RunConnect \/ RunExpire \/ RunConnected
    <3>1. PICK s \in {"CONNECT", "connecting", "PERFORM"} :
            /\ data \in Transfers /\ mstate' = [mstate EXCEPT ![data] = s]
            /\ pc' # "expire" \/ (s = "CONNECT" /\ data' = data)
      <4>1. CASE RunConnect
        <5>1. mstate' = [mstate EXCEPT ![data] = "CONNECT"]
          BY <2>1, <4>1 DEF RunConnect, Runs
        <5> QED BY <2>1, <4>1, <5>1 DEF RunConnect, Runs
      <4>2. CASE RunInit
        BY <2>1, <4>2 DEF RunInit, Runs
      <4>3. CASE RunExpire \/ RunConnected
        BY <2>1, <4>3 DEF RunExpire, RunConnected, Runs
      <4> QED BY <2>9, <4>1, <4>2, <4>3
    <3>2. mstate'[data] = s
      BY <2>1, <3>1
    <3> QED BY <2>3, <3>1, <3>2
  <2>10. CASE RunPends
    <3>1. PICK t \in Transfers \ {data} : Going(t)
      BY <2>10 DEF RunPends
    <3>2. mstate'[t] = mstate[t] /\ pc' # "expire"
      BY <2>1, <2>10 DEF RunPends
    <3> QED BY <2>3, <3>1, <3>2
  <2>11. CASE UNCHANGED vars
    BY <2>4, <2>11 DEF vars
  <2> QED BY <2>5, <2>6, <2>7, <2>8, <2>9, <2>10, <2>11 DEF Next
<1>3. HeldInv => PendingHeld
  OBVIOUS
<1> QED BY <1>1, <1>2, <1>3, CoverInit, CoverStep, PTL DEF Spec
=============================================================================
