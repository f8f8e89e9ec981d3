-------------------------- MODULE Unichrome_proofs ---------------------------
(***************************************************************************)
(* The search of CalcPLL() finds the best setting of the clock generator   *)
(* for every clock that ClockAssumption admits, and the registers say what *)
(* the mode set last and the start address ask for, whatever modes and     *)
(* bits were there before.                                                 *)
(***************************************************************************)
EXTENDS UnichromeMode, TLAPS

\* What the quotient of two natural numbers is.
LEMMA DivBounds ==
  ASSUME NEW a \in Nat, NEW e \in Nat \ {0}
  PROVE  a \div e \in Nat /\ e * (a \div e) <= a /\ a < e * (a \div e) + e
  OBVIOUS

LEMMA DivUnique ==
  ASSUME NEW a \in Nat, NEW e \in Nat \ {0}, NEW k \in Nat,
         e * k <= a, a < e * k + e
  PROVE  a \div e = k
  <1> DEFINE q == a \div e
  <1>1. q \in Nat /\ e * q <= a /\ a < e * q + e
    BY DivBounds
  <1> HIDE DEF q
  <1>2. ~ (q < k)
    <2> SUFFICES ASSUME q < k PROVE FALSE
      OBVIOUS
    <2>1. e * (q + 1) <= e * k
      BY <1>1
    <2>2. e * (q + 1) = e * q + e
      BY <1>1
    <2> QED BY <1>1, <2>1, <2>2
  <1>3. ~ (k < q)
    <2> SUFFICES ASSUME k < q PROVE FALSE
      OBVIOUS
    <2>1. e * (k + 1) <= e * q
      BY <1>1
    <2>2. e * (k + 1) = e * k + e
      BY <1>1
    <2> QED BY <1>1, <2>1, <2>2
  <1>4. q = k
    BY <1>1, <1>2, <1>3
  <1> QED BY <1>4 DEF q

LEMMA DivMonotone ==
  ASSUME NEW a \in Nat, NEW b \in Nat, a <= b, NEW e \in Nat \ {0}
  PROVE  a \div e <= b \div e
  <1> DEFINE p == a \div e  q == b \div e
  <1>1. /\ p \in Nat /\ e * p <= a
        /\ q \in Nat /\ b < e * q + e
    BY DivBounds
  <1> HIDE DEF p, q
  <1>2. ~ (q < p)
    <2> SUFFICES ASSUME q < p PROVE FALSE
      OBVIOUS
    <2>1. e * (q + 1) <= e * p
      BY <1>1
    <2>2. e * (q + 1) = e * q + e
      BY <1>1
    <2> QED BY <1>1, <2>1, <2>2
  <1>3. p <= q
    BY <1>1, <1>2
  <1> QED BY <1>3 DEF p, q

\* A larger divisor gives no larger quotient.
LEMMA DivAntitone ==
  ASSUME NEW a \in Nat, NEW d \in Nat \ {0}, NEW e \in Nat \ {0}, d <= e
  PROVE  a \div e <= a \div d
  <1> DEFINE p == a \div e  q == a \div d
  <1>1. /\ p \in Nat /\ e * p <= a
        /\ q \in Nat /\ a < d * q + d
    BY DivBounds
  <1> HIDE DEF p, q
  <1>2. ~ (q < p)
    <2> SUFFICES ASSUME q < p PROVE FALSE
      OBVIOUS
    <2>1. d * (q + 1) <= d * p
      BY <1>1
    <2>2. d * p <= e * p
      BY <1>1
    <2>3. d * (q + 1) = d * q + d
      BY <1>1
    <2> QED BY <1>1, <2>1, <2>2, <2>3
  <1>3. p <= q
    BY <1>1, <1>2
  <1> QED BY <1>3 DEF p, q

\* The product of the reference, in Hz, and a multiplier, and the first product
\* of a clock and a divisor whose multiplier is above the range.
Product(m) == 14318000 * m
TooHigh == 258 * Reference

LEMMA Sizes ==
  /\ TooHigh \in Nat /\ Reference \in Nat /\ MinClock \in Nat /\ MaxClock \in Nat
  /\ 2 * MaxClock < TooHigh /\ 0 < MinClock /\ Reference < 2 * MinClock
  BY SMT DEF TooHigh, Reference, MinClock, MaxClock

\* Hertz is the quotient that the code computes: see UnichromeClock.
LEMMA HertzQuotient ==
  ASSUME NEW m \in Nat, NEW e \in Nat \ {0}
  PROVE  Hertz(m, e) = Product(m) \div e /\ Product(m) \in Nat
  <1> DEFINE x == 14318 * m  q == x \div e  r == x % e  p == (1000 * r) \div e
  <1>1. x \in Nat /\ q \in Nat /\ r \in 0 .. e - 1 /\ x = e * q + r
    BY SMT
  <1>2. p \in Nat /\ e * p <= 1000 * r /\ 1000 * r < e * p + e
    BY SMT, <1>1, DivBounds
  <1>3. Hertz(m, e) = 1000 * q + p
    BY SMT DEF Hertz, Reference
  <1>4. Product(m) = 1000 * x
    BY SMT DEF Product
  <1> HIDE DEF x, q, r, p
  <1>5. e * (1000 * q + p) = 1000 * (e * q) + e * p
    BY SMT, <1>1, <1>2
  <1>6. /\ e * (1000 * q + p) <= 1000 * x
        /\ 1000 * x < e * (1000 * q + p) + e
    BY SMT, <1>1, <1>2, <1>5
  <1>7. (1000 * x) \div e = 1000 * q + p
    BY SMT, <1>1, <1>2, <1>6, DivUnique
  <1> QED BY SMT, <1>1, <1>3, <1>4, <1>7

LEMMA HertzBounds ==
  ASSUME NEW m \in Nat, NEW e \in Nat \ {0}
  PROVE  /\ Hertz(m, e) \in Nat
         /\ e * Hertz(m, e) <= Product(m)
         /\ Product(m) < e * Hertz(m, e) + e
  BY HertzQuotient, DivBounds

\* A larger multiplier gives a higher clock, a larger divisor a lower one.
LEMMA HertzOrder ==
  ASSUME NEW m \in Nat, NEW n \in Nat, m <= n,
         NEW d \in Nat \ {0}, NEW e \in Nat \ {0}, d <= e
  PROVE  Hertz(m, e) <= Hertz(n, d)
  <1>1. Product(m) <= Product(n)
    BY SMT DEF Product
  <1>2. /\ Product(m) \in Nat /\ Hertz(m, e) = Product(m) \div e
        /\ Product(n) \in Nat /\ Hertz(n, d) = Product(n) \div d
    BY HertzQuotient
  <1>3. Product(m) \div e <= Product(n) \div e
    BY <1>1, <1>2, DivMonotone
  <1>4. Product(n) \div e <= Product(n) \div d
    BY <1>2, DivAntitone
  <1>5. /\ Product(m) \div e \in Nat /\ Product(n) \div e \in Nat
        /\ Product(n) \div d \in Nat
    BY <1>2, DivBounds
  <1> QED BY SMT, <1>2, <1>3, <1>4, <1>5

\* The two multipliers the search tries for the divisor e.
Floor(f, e) == (f * e) \div Reference
Ceiling(f, e) == (f * e + (Reference - 1)) \div Reference

LEMMA Rounding ==
  ASSUME NEW f \in Nat, NEW e \in Nat \ {0}
  PROVE  LET q == Floor(f, e)  c == Ceiling(f, e) IN
         /\ q \in Nat /\ c \in Nat
         /\ Reference * q <= f * e /\ f * e < Reference * q + Reference
         /\ f * e <= Reference * c /\ (c = q \/ c = q + 1)
         /\ Hertz(q, e) <= 1000 * f /\ 1000 * f <= Hertz(c, e)
  <1> DEFINE t == f * e  q == t \div Reference  c == (t + (Reference - 1)) \div Reference
             h == Hertz(q, e)  g == Hertz(c, e)
  <1>0. t \in Nat /\ t = e * f
    BY SMT
  <1>a. Floor(f, e) = q /\ Ceiling(f, e) = c
    BY SMT DEF Floor, Ceiling
  <1> HIDE DEF t
  <1>1. /\ q \in Nat /\ c \in Nat
        /\ Reference * q <= t /\ t < Reference * q + Reference
        /\ Reference * c < t + Reference /\ t <= Reference * c
    BY SMT, <1>0 DEF Reference
  <1> HIDE DEF q, c
  <1>2. t <= Reference * c /\ (c = q \/ c = q + 1)
    BY SMT, <1>0, <1>1 DEF Reference
  <1>3. /\ h \in Nat /\ e * h <= Product(q)
        /\ g \in Nat /\ Product(c) < e * g + e
    BY <1>1, HertzBounds
  <1> HIDE DEF h, g
  <1>5. h <= 1000 * f
    <2>1. e * h <= e * (1000 * f)
      BY SMT, <1>0, <1>1, <1>3 DEF Product, Reference
    <2> QED BY SMT, <1>3, <2>1
  <1>6. 1000 * f <= g
    <2>1. e * (1000 * f) < e * (g + 1)
      BY SMT, <1>0, <1>1, <1>2, <1>3 DEF Product, Reference
    <2>2. 1000 * f < g + 1
      BY SMT, <1>3, <2>1
    <2> QED BY SMT, <1>3, <2>2
  <1> QED BY SMT, <1>a, <1>1, <1>2, <1>5, <1>6 DEF t, h, g

LEMMA MultiplierRange ==
  ASSUME NEW m PROVE m \in Multipliers <=> m \in Nat /\ 2 <= m /\ m <= 257
  BY SMT DEF Multipliers

LEMMA ShiftFacts ==
  ASSUME NEW f \in Nat, NEW d \in Nat, NEW s \in Shifts
  PROVE  /\ Shifted(d, s) = d * Shifted(1, s)
         /\ Shifted(f * d, s) = f * Shifted(d, s)
         /\ Shifted(1, s) \in 1 .. 8
  <1>1. s \in {0, 1, 2, 3}
    BY DEF Shifts
  <1> QED BY <1>1 DEF Shifted

LEMMA ShiftedRange ==
  ASSUME NEW d \in Dividers, NEW s \in Shifts
  PROVE  Shifted(d, s) \in Nat \ {0} /\ 2 <= Shifted(d, s)
  <1>1. d \in Nat /\ 2 <= d
    BY SMT DEF Dividers
  <1>2. s \in {0, 1, 2, 3}
    BY SMT DEF Shifts
  <1> QED BY SMT, <1>1, <1>2 DEF Shifted

\* No multiplier in range reaches the clock f with the divisor e, but one does
\* with e1: then the better of the two roundings for e1 is no farther from f
\* than any multiplier for e.  Half a step of e1 is at most a step of e2.
LEMMA HalfStep ==
  ASSUME NEW f \in Nat, MinClock <= f, f <= MaxClock, NEW e \in Nat \ {0},
         NEW e1 \in Nat \ {0}, NEW e2 \in Nat \ {0},
         e1 <= e2, e2 <= e, e2 <= 2 * e1,
         f * e1 < TooHigh, TooHigh <= f * e2,
         NEW m \in Multipliers
  PROVE  \E k \in {Floor(f, e1), Ceiling(f, e1)} \cap Multipliers :
           Distance(Hertz(k, e1), f * 1000) <= Distance(Hertz(m, e), f * 1000)
  <1> DEFINE q == Floor(f, e1)  c == Ceiling(f, e1)
  <1>1. /\ q \in Nat /\ c \in Nat
        /\ Reference * q <= f * e1 /\ f * e1 < Reference * q + Reference
        /\ c = q \/ c = q + 1
        /\ Hertz(q, e1) <= 1000 * f /\ 1000 * f <= Hertz(c, e1)
    BY SMT, Rounding
  <1>a. TooHigh <= 2 * (f * e1)
    <2>1. f * e2 <= f * (2 * e1)
      BY SMT
    <2>2. f * (2 * e1) = 2 * (f * e1)
      BY SMT
    <2>3. f * e1 \in Nat /\ f * e2 \in Nat
      BY SMT
    <2> QED BY SMT, <2>1, <2>2, <2>3, Sizes
  <1>b. f * e1 \in Nat
    BY SMT
  <1>2. q \in Nat /\ 2 <= q /\ q <= 257
    BY SMT, <1>1, <1>a, <1>b DEF TooHigh, Reference
  <1>m. m \in Nat /\ m <= 257
    BY MultiplierRange
  <1>3. Hertz(m, e) <= Hertz(257, e2) /\ Hertz(m, e) \in Nat
    BY <1>m, HertzOrder, HertzBounds
  <1>4. Hertz(257, e2) <= Hertz(257, e1) /\ Hertz(257, e2) \in Nat
    BY SMT, HertzOrder, HertzBounds
  <1>5. /\ Hertz(q, e1) \in Nat /\ Hertz(c, e1) \in Nat
    BY SMT, <1>1, HertzOrder, HertzBounds
  <1>6. CASE q = 257
    <2>1. Distance(Hertz(q, e1), f * 1000) <= Distance(Hertz(m, e), f * 1000)
      BY SMT, <1>1, <1>3, <1>4, <1>5, <1>6 DEF Distance
    <2> QED BY SMT, <1>2, <2>1, MultiplierRange
  <1>7. CASE q < 257
    <2>1. c \in Nat /\ 2 <= c /\ c <= 257
      BY SMT, <1>1, <1>2, <1>7
    <2> DEFINE X == 1000 * f  H == Hertz(257, e2)  h == Hertz(q, e1)  g == Hertz(c, e1)
    <2>2. /\ e2 * H <= Product(257)
          /\ Product(q) < e1 * h + e1
          /\ e1 * g <= Product(c)
      BY <1>1, HertzBounds
    <2>3. X \in Nat /\ H \in Nat /\ h \in Nat /\ g \in Nat /\ h <= X /\ X <= g
      BY SMT, <1>1, <1>4, <1>5
    <2>4. e1 * X = 1000 * (f * e1) /\ e2 * X = 1000 * (f * e2) /\ f * e2 \in Nat
      BY SMT
    <2> HIDE DEF X, H, h, g, q, c
    <2>5. H <= X
      <3>1. e2 * H <= e2 * X
        BY SMT, <2>2, <2>3, <2>4 DEF Product, TooHigh, Reference
      <3> QED BY SMT, <2>3, <3>1
    \* The distance of 257 / e2 is at least half a step of e1.
    <2>6. Product(1) <= 2 * (e1 * (X - H))
      <3>1. Product(1) <= e2 * (X - H)
        <4>1. e2 * (X - H) = e2 * X - e2 * H
          BY SMT, <2>3
        <4>2. e2 * X \in Nat /\ e2 * H \in Nat
          BY SMT, <2>3
        <4> QED BY SMT, <2>2, <2>4, <4>1, <4>2 DEF Product, TooHigh, Reference
      <3>2. e2 * (X - H) <= (2 * e1) * (X - H)
        BY SMT, <2>3, <2>5
      <3>3. (2 * e1) * (X - H) = 2 * (e1 * (X - H)) /\ e1 * (X - H) \in Int
        BY SMT, <2>3
      <3> QED BY SMT, <2>3, <3>1, <3>2, <3>3 DEF Product
    <2>7. g - X <= X - H \/ X - h <= X - H
      <3> SUFFICES ASSUME g - X > X - H, X - h > X - H PROVE FALSE
        BY SMT, <2>3
      <3>1. g - h >= 2 * (X - H) + 2
        BY SMT, <2>3
      <3>2. e1 * (g - h) >= e1 * (2 * (X - H) + 2)
        BY SMT, <2>3, <3>1
      <3>3. e1 * (2 * (X - H) + 2) = 2 * (e1 * (X - H)) + 2 * e1 /\ e1 * (X - H) \in Int
        BY SMT, <2>3
      <3>4. e1 * (g - h) = e1 * g - e1 * h /\ e1 * g \in Nat /\ e1 * h \in Nat
        BY SMT, <2>3
      <3>5. e1 * g - e1 * h < Product(1) + e1
        BY SMT, <1>1, <2>2, <3>4 DEF Product
      <3> QED BY SMT, <2>6, <3>2, <3>3, <3>4, <3>5 DEF Product
    <2>8. Hertz(m, e) <= X /\ X - H <= X - Hertz(m, e)
      BY SMT, <1>3, <2>3, <2>5 DEF H
    <2>9. CASE g - X <= X - H
      <3>1. Distance(Hertz(c, e1), f * 1000) <= Distance(Hertz(m, e), f * 1000)
        BY SMT, <1>3, <2>3, <2>8, <2>9 DEF Distance, X, g
      <3> QED BY SMT, <2>1, <3>1, MultiplierRange DEF c
    <2>10. CASE X - h <= X - H
      <3>1. Distance(Hertz(q, e1), f * 1000) <= Distance(Hertz(m, e), f * 1000)
        BY SMT, <1>3, <2>3, <2>8, <2>10 DEF Distance, X, h
      <3> QED BY SMT, <1>2, <3>1, MultiplierRange DEF q
    <2> QED BY SMT, <2>7, <2>9, <2>10
  <1> QED BY SMT, <1>2, <1>6, <1>7

\* A divisor that needs a multiplier above the range has a smaller one below
\* it that does not, and the step between the two is small.
LEMMA DivisorBelow ==
  ASSUME NEW f \in Nat, MinClock <= f, f <= MaxClock, NEW d \in Dividers, NEW s \in Shifts,
         TooHigh <= f * Shifted(d, s)
  PROVE  \E d1 \in Dividers, s1 \in Shifts, e2 \in Nat \ {0} :
           /\ Shifted(d1, s1) <= e2 /\ e2 <= Shifted(d, s) /\ e2 <= 2 * Shifted(d1, s1)
           /\ f * Shifted(d1, s1) < TooHigh /\ TooHigh <= f * e2
  <1> USE Sizes
  <1> DEFINE w == Shifted(1, s)  u == f * w
  <1>1. w \in 1 .. 8 /\ \A n \in Nat : Shifted(n, s) = n * w
    BY SMT, ShiftFacts
  <1>2. CASE 2 * u < TooHigh
    <2>1. PICK n \in Nat : n * u < TooHigh /\ TooHigh <= (n + 1) * u
      <3> DEFINE n == (TooHigh - 1) \div u
      <3>1. u \in Nat \ {0}
        BY SMT, <1>1, Sizes
      <3>a. TooHigh - 1 \in Nat
        BY SMT DEF TooHigh, Reference
      <3> HIDE DEF u
      <3>2. n \in Nat /\ u * n <= TooHigh - 1 /\ TooHigh - 1 < u * n + u
        BY <3>1, <3>a, DivBounds
      <3> HIDE DEF n
      <3>3. n * u < TooHigh /\ TooHigh <= (n + 1) * u
        BY SMT, <3>1, <3>2, Sizes
      <3> QED BY SMT, <3>2, <3>3
    <2>2. u \in Nat \ {0} /\ d \in Nat /\ f * Shifted(d, s) = d * u
      BY SMT, <1>1 DEF Dividers
    <2>3. n >= 2
      <3> HIDE DEF u
      <3> SUFFICES ASSUME n + 1 <= 2 PROVE FALSE
        BY SMT
      <3>1. (n + 1) * u <= 2 * u
        BY SMT, <2>2
      <3> QED BY SMT, <1>2, <2>1, <2>2, <3>1
    <2>4. n + 1 <= d
      <3> HIDE DEF u
      <3> SUFFICES ASSUME d <= n PROVE FALSE
        BY SMT, <2>2
      <3>1. d * u <= n * u
        BY SMT, <2>2
      <3> QED BY SMT, <2>1, <2>2, <3>1
    <2>5. n \in Dividers
      BY SMT, <2>3, <2>4 DEF Dividers
    <2>6. /\ Shifted(n, s) = n * w /\ Shifted(n + 1, s) = (n + 1) * w
          /\ Shifted(d, s) = d * w
      BY SMT, <1>1, <2>2
    <2>7. /\ n * w <= (n + 1) * w /\ (n + 1) * w <= d * w
          /\ (n + 1) * w <= 2 * (n * w) /\ (n + 1) * w \in Nat \ {0}
      <3> HIDE DEF w, u
      <3>1. (n + 1) * w = n * w + w /\ n * w >= w
        BY SMT, <1>1, <2>3
      <3>2. (n + 1) * w <= d * w
        BY SMT, <1>1, <2>2, <2>4
      <3> QED BY SMT, <1>1, <2>3, <3>1, <3>2
    <2>8. f * (n * w) = n * u /\ f * ((n + 1) * w) = (n + 1) * u
      BY SMT, <1>1
    <2> QED BY SMT, <2>1, <2>5, <2>6, <2>7, <2>8
  \* Divider 2 is too large with this shift, and was not with a smaller one.
  <1>3. CASE TooHigh <= 2 * u
    <2>1. /\ Shifted(2, 0) = 2 /\ Shifted(2, 1) = 4 /\ Shifted(2, 2) = 8 /\ Shifted(2, 3) = 16
          /\ Shifted(2, s) = 2 * w
      BY SMT, <1>1 DEF Shifted
    <2>2. f * 2 < TooHigh
      BY SMT
    <2>3. f * Shifted(2, s) = 2 * u
      BY SMT, <1>1, <2>1
    <2>4. s # 0
      BY SMT, <1>3, <2>1, <2>2, <2>3
    <2>5. Shifted(2, s) <= Shifted(d, s) /\ 2 \in Dividers
      BY SMT, <1>1, <2>1 DEF Dividers
    <2>6. CASE TooHigh <= f * 4
      <3>1. 4 <= Shifted(2, s)
        BY SMT, <2>1, <2>4 DEF Shifts
      <3>2. Shifted(d, s) \in Nat /\ 4 <= Shifted(d, s)
        BY SMT, <1>1, <2>5, <3>1 DEF Dividers
      <3> QED BY SMT, <2>1, <2>2, <2>5, <2>6, <3>2 DEF Shifts
    <2>7. CASE f * 4 < TooHigh /\ TooHigh <= f * 8
      <3>1. s # 1
        BY SMT, <1>3, <2>1, <2>3, <2>7
      <3>2. 8 <= Shifted(2, s)
        BY SMT, <2>1, <2>4, <3>1 DEF Shifts
      <3>3. Shifted(d, s) \in Nat /\ 8 <= Shifted(d, s)
        BY SMT, <1>1, <2>5, <3>2 DEF Dividers
      <3> QED BY SMT, <2>1, <2>5, <2>7, <3>3 DEF Shifts
    <2>8. CASE f * 8 < TooHigh
      <3>1. s = 3
        <4>1. s # 1 /\ s # 2
          BY SMT, <1>3, <2>1, <2>3, <2>8
        <4> QED BY SMT, <2>4, <4>1 DEF Shifts
      <3>2. TooHigh <= f * 16
        BY SMT, <1>3, <2>1, <2>3, <3>1
      <3>3. Shifted(d, s) \in Nat /\ 16 <= Shifted(d, s)
        BY SMT, <1>1, <2>1, <2>5, <3>1 DEF Dividers
      <3> QED BY SMT, <2>1, <2>5, <2>8, <3>2, <3>3 DEF Shifts
    <2> QED BY SMT, <2>6, <2>7, <2>8
  <1> QED BY SMT, <1>1, <1>2, <1>3

(***************************************************************************)
(* The inductive invariant: the best setting is one the generator has,     *)
(* with its own distance, and no candidate visited so far is nearer.       *)
(***************************************************************************)
Visited(d, s, up) ==
  \/ s < Shift
  \/ s = Shift /\ d < Divider
  \/ s = Shift /\ d = Divider /\ up < RoundUp

BestInv ==
  None \/ /\ BestMultiplier \in Multipliers /\ BestDivider \in Dividers /\ BestShift \in Shifts
          /\ BestDiff = Diff(BestMultiplier, BestDivider, BestShift)

LeastInv ==
  \A d \in Dividers, s \in Shifts, up \in 0 .. 1 :
    Visited(d, s, up) /\ Multiplier(d, s, up) \in Multipliers =>
      BestDivider # 0 /\ BestDiff <= Diff(Multiplier(d, s, up), d, s)

ClockInv == ClockTypeOK /\ BestInv /\ LeastInv

\* A difference is far below INT_MAX, so the first candidate is always taken.
LEMMA DiffBound ==
  ASSUME freq \in Clocks, NEW m \in Multipliers, NEW d \in Dividers, NEW s \in Shifts
  PROVE  Diff(m, d, s) \in Nat /\ Diff(m, d, s) < INT_MAX
  <1>1. freq \in Nat /\ MinClock <= freq /\ freq <= MaxClock
    BY SMT, ClockAssumption
  <1>2. Shifted(d, s) \in Nat \ {0} /\ 2 <= Shifted(d, s)
    BY ShiftedRange
  <1>a. m \in Nat /\ m <= 257 /\ 257 \in Nat /\ 2 \in Nat \ {0}
    BY SMT, MultiplierRange
  <1>3. Hertz(m, Shifted(d, s)) \in Nat /\ Hertz(m, Shifted(d, s)) <= Hertz(257, 2)
    BY <1>2, <1>a, HertzOrder, HertzBounds
  <1>4. Hertz(257, 2) = 1839863000
    BY SMT DEF Hertz, Reference
  <1> QED BY SMT, <1>1, <1>3, <1>4 DEF Diff, Distance, INT_MAX, MinClock, MaxClock

LEMMA ClockInitInv == ClockInit => ClockInv
  <1> SUFFICES ASSUME ClockInit PROVE ClockInv
    BY SMT
  <1>1. ClockTypeOK
    BY SMT DEF ClockInit, ClockTypeOK, Done, None, Dividers, INT_MAX
  <1>2. BestInv /\ LeastInv
    BY SMT DEF ClockInit, BestInv, LeastInv, Visited, Dividers, Shifts
  <1> QED BY SMT, <1>1, <1>2 DEF ClockInv

LEMMA ClockNextInv == ClockInv /\ [ClockNext]_clockVars => ClockInv'
  <1> SUFFICES ASSUME ClockInv, [ClockNext]_clockVars PROVE ClockInv'
    BY SMT
  <1>0. ClockTypeOK /\ BestInv /\ LeastInv
    BY SMT DEF ClockInv
  <1>1. CASE Try
    <2> DEFINE m == Multiplier(Divider, Shift, RoundUp)
               nearer == m \in Multipliers /\ Diff(m, Divider, Shift) < BestDiff
    <2>1. /\ Divider \in Dividers /\ Shift \in Shifts /\ RoundUp \in 0 .. 1 /\ freq' = freq
      BY SMT, <1>0, <1>1 DEF ClockTypeOK, Try, Done, Shifts
    <2>2. /\ Shift' \in 0 .. 4 /\ Divider' \in Dividers /\ RoundUp' \in 0 .. 1
          /\ Done' => Divider' = 2 /\ RoundUp' = 0
      BY SMT, <1>1, <2>1 DEF Try, Advance, Done, Dividers, Shifts
    \* What is visited now and was not before is this candidate.
    <2>3. ASSUME NEW d \in Dividers, NEW s \in Shifts, NEW up \in 0 .. 1,
                 Visited(d, s, up)'
          PROVE  Visited(d, s, up) \/ (d = Divider /\ s = Shift /\ up = RoundUp)
      BY SMT, <1>1, <2>1, <2>3 DEF Try, Advance, Visited, Dividers, Shifts
    <2>4. \A n, d, s, up : /\ Diff(n, d, s)' = Diff(n, d, s)
                           /\ Multiplier(d, s, up)' = Multiplier(d, s, up)
      BY SMT, <2>1 DEF Diff, Multiplier
    <2>5. CASE nearer
      <3>1. /\ BestDiff' = Diff(m, Divider, Shift) /\ BestMultiplier' = m
            /\ BestDivider' = Divider /\ BestShift' = Shift
        BY SMT, <1>1, <2>5 DEF Try
      <3>2. Diff(m, Divider, Shift) \in Nat /\ Diff(m, Divider, Shift) < INT_MAX
        BY SMT, <1>0, <2>1, <2>5, DiffBound DEF ClockTypeOK
      <3>3. BestDiff' \in Nat /\ BestDiff' <= INT_MAX
        BY SMT, <3>1, <3>2 DEF INT_MAX
      <3>4. ClockTypeOK'
        BY SMT, <1>0, <2>1, <2>2, <2>5, <3>1, <3>3 DEF ClockTypeOK
      <3>5. BestInv'
        BY SMT, <2>1, <2>4, <2>5, <3>1 DEF BestInv
      <3>6. LeastInv'
        <4> SUFFICES ASSUME NEW d \in Dividers, NEW s \in Shifts, NEW up \in 0 .. 1,
                            Visited(d, s, up)', Multiplier(d, s, up) \in Multipliers
                     PROVE  BestDivider' # 0 /\ BestDiff' <= Diff(Multiplier(d, s, up), d, s)
          BY SMT, <2>4 DEF LeastInv
        <4>1. BestDivider' # 0
          BY SMT, <2>1, <3>1 DEF Dividers
        <4>2. Diff(Multiplier(d, s, up), d, s) \in Int
          BY SMT, <1>0, DiffBound DEF ClockTypeOK
        <4>3. CASE Visited(d, s, up)
          <5>1. BestDiff <= Diff(Multiplier(d, s, up), d, s)
            BY SMT, <1>0, <4>3 DEF LeastInv
          <5> QED BY SMT, <1>0, <2>5, <3>1, <3>2, <4>1, <4>2, <5>1 DEF ClockTypeOK
        <4>4. CASE d = Divider /\ s = Shift /\ up = RoundUp
          BY SMT, <3>1, <3>2, <4>1, <4>4
        <4> QED BY SMT, <2>3, <4>3, <4>4
      <3> QED BY SMT, <3>4, <3>5, <3>6 DEF ClockInv
    <2>6. CASE ~ nearer
      <3>1. UNCHANGED best
        BY SMT, <1>1, <2>6 DEF Try
      <3>2. ClockTypeOK'
        BY SMT, <1>0, <2>1, <2>2, <3>1 DEF ClockTypeOK, None, best
      <3>3. BestInv'
        BY SMT, <1>0, <2>4, <3>1 DEF BestInv, None, best
      <3>4. LeastInv'
        <4> SUFFICES ASSUME NEW d \in Dividers, NEW s \in Shifts, NEW up \in 0 .. 1,
                            Visited(d, s, up)', Multiplier(d, s, up) \in Multipliers
                     PROVE  BestDivider # 0 /\ BestDiff <= Diff(Multiplier(d, s, up), d, s)
          BY SMT, <2>4, <3>1 DEF LeastInv, best
        <4>1. CASE Visited(d, s, up)
          BY SMT, <1>0, <4>1 DEF LeastInv
        <4>2. CASE d = Divider /\ s = Shift /\ up = RoundUp
          <5>1. Diff(m, Divider, Shift) \in Nat /\ Diff(m, Divider, Shift) < INT_MAX /\ m \in Multipliers
            BY SMT, <1>0, <2>1, <4>2, DiffBound DEF ClockTypeOK
          <5>2. BestDiff <= Diff(m, Divider, Shift)
            BY SMT, <1>0, <2>6, <5>1 DEF ClockTypeOK, INT_MAX
          <5>3. BestDivider # 0
            <6>1. ~ None
              BY SMT, <5>1, <5>2 DEF None, INT_MAX
            <6> QED BY SMT, <1>0, <6>1 DEF BestInv, Dividers
          <5> QED BY SMT, <4>2, <5>2, <5>3
        <4> QED BY SMT, <2>3, <4>1, <4>2
      <3> QED BY SMT, <3>2, <3>3, <3>4 DEF ClockInv
    <2> QED BY SMT, <2>5, <2>6
  <1>2. ASSUME NEW f \in Clocks, Call(f) PROVE ClockInv'
    <2>1. ClockTypeOK'
      BY SMT, <1>2 DEF Call, ClockTypeOK, Done, None, Dividers, INT_MAX
    <2>2. BestInv' /\ LeastInv'
      BY SMT, <1>2 DEF Call, BestInv, LeastInv, Visited, None, Dividers, Shifts
    <2> QED BY SMT, <2>1, <2>2 DEF ClockInv
  <1>3. CASE UNCHANGED clockVars
    <2>1. \A n, d, s, up : /\ Diff(n, d, s)' = Diff(n, d, s)
                           /\ Multiplier(d, s, up)' = Multiplier(d, s, up)
                           /\ Visited(d, s, up)' = Visited(d, s, up)
      BY SMT, <1>3 DEF Diff, Multiplier, Visited, clockVars, loops
    <2>2. ClockTypeOK' /\ BestInv'
      BY SMT, <1>0, <1>3, <2>1 DEF ClockTypeOK, BestInv, None, Done, clockVars, loops, best
    <2>3. LeastInv'
      BY SMT, <1>0, <1>3, <2>1 DEF LeastInv, clockVars, best
    <2> QED BY SMT, <2>2, <2>3 DEF ClockInv
  <1> QED BY SMT, <1>1, <1>2, <1>3 DEF ClockNext

\* The best setting after the search is no worse than the two roundings.
LEMMA Candidates ==
  ASSUME ClockInv, Done, NEW d \in Dividers, NEW s \in Shifts,
         NEW k \in {Floor(freq, Shifted(d, s)), Ceiling(freq, Shifted(d, s))} \cap Multipliers
  PROVE  BestDivider # 0 /\ BestDiff <= Diff(k, d, s)
  <1>1. freq \in Nat /\ \A up \in 0 .. 1 : Visited(d, s, up)
    BY SMT, ClockAssumption DEF ClockInv, ClockTypeOK, Done, Visited, Shifts
  <1>2. Shifted(freq * d, s) = freq * Shifted(d, s)
    BY SMT, <1>1, ShiftFacts DEF Dividers
  <1>3. freq * Shifted(d, s) + 0 = freq * Shifted(d, s)
    <2>1. PICK e \in Nat : e = Shifted(d, s)
      BY ShiftedRange
    <2>2. freq * e + 0 = freq * e
      BY <1>1
    <2> QED BY <2>1, <2>2
  <1>4. PICK up \in 0 .. 1 : k = Multiplier(d, s, up)
    BY SMT, <1>2, <1>3 DEF Multiplier, Floor, Ceiling
  <1> QED BY SMT, <1>1, <1>4 DEF ClockInv, LeastInv

LEMMA InvOptimal == ClockInv => Optimal
  <1> SUFFICES ASSUME ClockInv, Done PROVE
        /\ BestMultiplier \in Multipliers /\ BestDivider \in Dividers /\ BestShift \in Shifts
        /\ \A d \in Dividers, s \in Shifts, m \in Multipliers :
             Diff(BestMultiplier, BestDivider, BestShift) <= Diff(m, d, s)
    BY SMT DEF Optimal
  <1>1. freq \in Nat /\ MinClock <= freq /\ freq <= MaxClock /\ freq \in Clocks
    BY SMT, ClockAssumption DEF ClockInv, ClockTypeOK
  <1>2. \A d \in Dividers, s \in Shifts : Shifted(d, s) \in Nat \ {0} /\ 2 <= Shifted(d, s)
    BY ShiftedRange
  <1>3. ASSUME NEW d \in Dividers, NEW s \in Shifts, NEW m \in Multipliers
        PROVE  BestDivider # 0 /\ BestDiff <= Diff(m, d, s)
    <2> DEFINE e == Shifted(d, s)  q == Floor(freq, e)  c == Ceiling(freq, e)
    <2>0. e \in Nat \ {0} /\ e >= 2
      BY SMT, <1>2
    <2>1. /\ q \in Nat /\ c \in Nat
          /\ Reference * q <= freq * e /\ freq * e < Reference * q + Reference
          /\ freq * e <= Reference * c /\ (c = q \/ c = q + 1)
          /\ Hertz(q, e) <= 1000 * freq /\ 1000 * freq <= Hertz(c, e)
      BY <1>1, <2>0, Rounding
    <2>2. m \in Nat /\ 2 <= m /\ m <= 257 /\ Diff(m, d, s) \in Nat
      BY SMT, <1>1, DiffBound, MultiplierRange DEF INT_MAX
    <2>3. BestDiff \in Nat
      BY SMT DEF ClockInv, ClockTypeOK, INT_MAX
    <2>a. freq * e \in Nat /\ freq * e > Reference
      <3>1. freq * e >= freq * 2
        BY SMT, <1>1, <2>0
      <3> QED BY SMT, <1>1, <2>0, <3>1, Sizes
    <2>4. CASE m <= q /\ q <= 257
      <3>1. q \in Multipliers
        BY SMT, <2>1, <2>2, <2>4, MultiplierRange
      <3>2. Hertz(m, e) <= Hertz(q, e) /\ Hertz(m, e) \in Nat /\ Hertz(q, e) \in Nat
        BY SMT, <2>0, <2>1, <2>2, <2>4, HertzOrder, HertzBounds
      <3>3. Diff(q, d, s) <= Diff(m, d, s) /\ Diff(q, d, s) \in Nat
        BY SMT, <1>1, <2>1, <3>2 DEF Diff, Distance
      <3>4. BestDivider # 0 /\ BestDiff <= Diff(q, d, s)
        BY SMT, <3>1, Candidates
      <3> QED BY SMT, <2>2, <2>3, <3>3, <3>4
    <2>5. CASE q < m
      <3>1. c <= m /\ c >= 2
        BY SMT, <2>1, <2>2, <2>5, <2>a DEF Reference
      <3>2. c \in Multipliers
        BY SMT, <2>1, <2>2, <3>1, MultiplierRange
      <3>3. Hertz(c, e) <= Hertz(m, e) /\ Hertz(m, e) \in Nat /\ Hertz(c, e) \in Nat
        BY SMT, <2>0, <2>1, <2>2, <3>1, HertzOrder, HertzBounds
      <3>4. Diff(c, d, s) <= Diff(m, d, s) /\ Diff(c, d, s) \in Nat
        BY SMT, <1>1, <2>1, <3>3 DEF Diff, Distance
      <3>5. BestDivider # 0 /\ BestDiff <= Diff(c, d, s)
        BY SMT, <3>2, Candidates
      <3> QED BY SMT, <2>2, <2>3, <3>4, <3>5
    <2>6. CASE 257 < q
      <3>1. TooHigh <= freq * e
        BY SMT, <2>1, <2>6, <2>a DEF TooHigh, Reference
      <3>2. PICK d1 \in Dividers, s1 \in Shifts, e2 \in Nat \ {0} :
              /\ Shifted(d1, s1) <= e2 /\ e2 <= e /\ e2 <= 2 * Shifted(d1, s1)
              /\ freq * Shifted(d1, s1) < TooHigh /\ TooHigh <= freq * e2
        BY SMT, <1>1, <3>1, DivisorBelow
      <3>3. Shifted(d1, s1) \in Nat \ {0} /\ e \in Nat \ {0}
        BY SMT, <1>2
      <3>4. PICK k \in {Floor(freq, Shifted(d1, s1)), Ceiling(freq, Shifted(d1, s1))}
                       \cap Multipliers :
              Distance(Hertz(k, Shifted(d1, s1)), freq * 1000)
                <= Distance(Hertz(m, e), freq * 1000)
        BY SMT, <1>1, <3>2, <3>3, HalfStep
      <3>5. BestDivider # 0 /\ BestDiff <= Diff(k, d1, s1)
        BY SMT, Candidates
      <3>6. Diff(k, d1, s1) <= Diff(m, d, s) /\ Diff(k, d1, s1) \in Nat
        BY SMT, <1>1, <3>4, DiffBound DEF Diff, INT_MAX
      <3> QED BY SMT, <2>2, <2>3, <3>5, <3>6
    <2> QED BY SMT, <2>1, <2>2, <2>4, <2>5, <2>6
  <1>4. ~ None
    BY SMT, <1>3, MultiplierRange DEF None, Dividers, Shifts
  <1>5. /\ BestMultiplier \in Multipliers /\ BestDivider \in Dividers /\ BestShift \in Shifts
        /\ BestDiff = Diff(BestMultiplier, BestDivider, BestShift)
    BY SMT, <1>4 DEF ClockInv, BestInv
  <1> QED BY SMT, <1>3, <1>5

\* The loop variables stay in their ranges and the differences in 31 bits.
THEOREM ClockTypeCorrect == ClockSpec => []ClockTypeOK
  <1>1. ClockInv => ClockTypeOK
    BY DEF ClockInv
  <1> QED BY ClockInitInv, ClockNextInv, <1>1, PTL DEF ClockSpec

\* For every pixel clock the search ends with the best setting there is.
THEOREM SearchOptimal == ClockSpec => []Optimal
  BY ClockInitInv, ClockNextInv, InvOptimal, PTL DEF ClockSpec

------------------------------------------------------------------------------
(***************************************************************************)
(* Bits and numbers.                                                       *)
(***************************************************************************)
LEMMA Powers ==
  /\ 2^0 = 1 /\ 2^1 = 2 /\ 2^2 = 4 /\ 2^3 = 8 /\ 2^4 = 16 /\ 2^5 = 32 /\ 2^6 = 64 /\ 2^7 = 128
  /\ 2^8 = 256 /\ 2^14 = 16384 /\ 2^16 = 65536 /\ 2^24 = 16777216
  OBVIOUS

LEMMA BitsOf ==
  ASSUME NEW n \in Nat, NEW b \in 0 .. 7
  PROVE  b \in Bits(n) <=> (n \div 2^b) % 2 = 1
  BY DEF Bits

\* A byte is the number of its bits.
LEMMA NumberBits ==
  ASSUME NEW n \in 0 .. 255
  PROVE  Number(Bits(n)) = n
  <1> DEFINE digit(b) == IF b \in Bits(n) THEN 2^b ELSE 0
  <1>1. /\ digit(0) = n % 2                  /\ digit(1) = 2 * ((n \div 2) % 2)
        /\ digit(2) = 4 * ((n \div 4) % 2)   /\ digit(3) = 8 * ((n \div 8) % 2)
        /\ digit(4) = 16 * ((n \div 16) % 2) /\ digit(5) = 32 * ((n \div 32) % 2)
        /\ digit(6) = 64 * ((n \div 64) % 2) /\ digit(7) = 128 * ((n \div 128) % 2)
    <2>1. \A b \in 0 .. 7 : b \in Bits(n) <=> (n \div 2^b) % 2 = 1
      BY DEF Bits
    <2>2. digit(0) = n % 2
      BY <2>1, Powers
    <2>3. digit(1) = 2 * ((n \div 2) % 2)
      BY <2>1, Powers
    <2>4. digit(2) = 4 * ((n \div 4) % 2)
      BY <2>1, Powers
    <2>5. digit(3) = 8 * ((n \div 8) % 2)
      BY <2>1, Powers
    <2>6. digit(4) = 16 * ((n \div 16) % 2)
      BY <2>1, Powers
    <2>7. digit(5) = 32 * ((n \div 32) % 2)
      BY <2>1, Powers
    <2>8. digit(6) = 64 * ((n \div 64) % 2)
      BY <2>1, Powers
    <2>9. digit(7) = 128 * ((n \div 128) % 2)
      BY <2>1, Powers
    <2> QED BY <2>2, <2>3, <2>4, <2>5, <2>6, <2>7, <2>8, <2>9
  <1>2. Number(Bits(n)) = digit(0) + digit(1) + digit(2) + digit(3) + digit(4) + digit(5)
                            + digit(6) + digit(7)
    BY Zenon DEF Number
  <1> HIDE DEF digit
  <1>3. n = (n % 2) + 2 * ((n \div 2) % 2) + 4 * ((n \div 4) % 2) + 8 * ((n \div 8) % 2)
            + 16 * ((n \div 16) % 2) + 32 * ((n \div 32) % 2) + 64 * ((n \div 64) % 2)
            + 128 * ((n \div 128) % 2)
    OBVIOUS
  <1> QED BY <1>1, <1>2, <1>3

\* A set of bits is a byte.
LEMMA NumberByte == ASSUME NEW bits PROVE Number(bits) \in 0 .. 255
  <1> DEFINE digit(b) == IF b \in bits THEN 2^b ELSE 0
  <1>1. /\ digit(0) \in {0, 1} /\ digit(1) \in {0, 2} /\ digit(2) \in {0, 4} /\ digit(3) \in {0, 8}
        /\ digit(4) \in {0, 16} /\ digit(5) \in {0, 32} /\ digit(6) \in {0, 64} /\ digit(7) \in {0, 128}
    BY Powers
  <1>2. Number(bits) = digit(0) + digit(1) + digit(2) + digit(3) + digit(4) + digit(5)
                         + digit(6) + digit(7)
    BY Zenon DEF Number
  <1> HIDE DEF digit
  <1> QED BY <1>1, <1>2

\* Membership in the bits of a number, bit by bit.
LEMMA EightBits ==
  ASSUME NEW n \in Nat
  PROVE  /\ Bits(n) \subseteq 0 .. 7
         /\ 0 \in Bits(n) <=> n % 2 = 1
         /\ 1 \in Bits(n) <=> (n \div 2) % 2 = 1
         /\ 2 \in Bits(n) <=> (n \div 4) % 2 = 1
         /\ 3 \in Bits(n) <=> (n \div 8) % 2 = 1
         /\ 4 \in Bits(n) <=> (n \div 16) % 2 = 1
         /\ 5 \in Bits(n) <=> (n \div 32) % 2 = 1
         /\ 6 \in Bits(n) <=> (n \div 64) % 2 = 1
         /\ 7 \in Bits(n) <=> (n \div 128) % 2 = 1
  <1>1. Bits(n) \subseteq 0 .. 7 /\ \A b \in 0 .. 7 : b \in Bits(n) <=> (n \div 2^b) % 2 = 1
    BY DEF Bits
  <1>2. n \div 1 = n
    OBVIOUS
  <1> QED BY <1>1, <1>2, Powers

\* The masks and the values of the depths.
LEMMA Masks ==
  /\ Bits(\h00) = {} /\ Bits(\h1c) = {2, 3, 4} /\ Bits(\h04) = {2} /\ Bits(\h14) = {2, 4}
  /\ Bits(\h03) = {0, 1}
  <1>1. ASSUME NEW n \in Nat, NEW b \in Bits(n) PROVE b \in {0, 1, 2, 3, 4, 5, 6, 7}
    BY EightBits
  <1>2. Bits(\h00) = {}
    BY <1>1, EightBits
  <1>3. Bits(\h1c) = {2, 3, 4}
    BY <1>1, EightBits
  <1>4. Bits(\h04) = {2}
    BY <1>1, EightBits
  <1>5. Bits(\h14) = {2, 4}
    BY <1>1, EightBits
  <1>6. Bits(\h03) = {0, 1}
    BY <1>1, EightBits
  <1> QED BY <1>2, <1>3, <1>4, <1>5, <1>6

\* The bits of a mask are replaced by those of the value, and no other is.
LEMMA MaskedBits ==
  ASSUME NEW old \in SUBSET (0 .. 7), NEW v \in Nat, NEW mask \in Nat
  PROVE  /\ Masked(old, v, mask) \in SUBSET (0 .. 7)
         /\ Masked(old, v, mask) \cap Bits(mask) = Bits(v) \cap Bits(mask)
  <1>1. Bits(v) \subseteq 0 .. 7
    BY EightBits
  <1> QED BY <1>1 DEF Masked

\* Bits 0 and 1 alone make a number below 4.
LEMMA TwoBits ==
  ASSUME NEW n \in 0 .. 3
  PROVE  Number(Bits(n) \cap {0, 1}) = n
  <1>1. Bits(n) \cap {0, 1} = Bits(n)
    <2>1. ASSUME NEW b \in Bits(n) PROVE b \in {0, 1, 2, 3, 4, 5, 6, 7}
      BY EightBits
    <2>2. /\ n \div 4 = 0 /\ n \div 8 = 0 /\ n \div 16 = 0 /\ n \div 32 = 0
          /\ n \div 64 = 0 /\ n \div 128 = 0
      OBVIOUS
    <2>3. 2 \notin Bits(n) /\ 3 \notin Bits(n) /\ 4 \notin Bits(n) /\ 5 \notin Bits(n)
          /\ 6 \notin Bits(n) /\ 7 \notin Bits(n)
      BY <2>2, EightBits
    <2> QED BY <2>1, <2>3
  <1>2. Number(Bits(n)) = n
    BY NumberBits
  <1> QED BY <1>1, <1>2

\* Four times a shift is in bits 2 and 3.
LEMMA ShiftBits ==
  ASSUME NEW s \in Shifts
  PROVE  Bits(4 * s) \subseteq {2, 3} /\ Number(Bits(4 * s) \cap {2, 3}) = 4 * s
  <1>1. s \in 0 .. 3 /\ 4 * s \in 0 .. 255 /\ 4 * s \in Nat
    BY DEF Shifts
  <1>2. Bits(4 * s) \subseteq {2, 3}
    <2> DEFINE n == 4 * s
    <2>1. ASSUME NEW b \in Bits(n) PROVE b \in {0, 1, 2, 3, 4, 5, 6, 7}
      BY <1>1, EightBits
    <2>2. /\ n % 2 = 0 /\ (n \div 2) % 2 = 0 /\ n \div 16 = 0 /\ n \div 32 = 0
          /\ n \div 64 = 0 /\ n \div 128 = 0
      BY <1>1
    <2>3. 0 \notin Bits(n) /\ 1 \notin Bits(n) /\ 4 \notin Bits(n) /\ 5 \notin Bits(n)
          /\ 6 \notin Bits(n) /\ 7 \notin Bits(n)
      BY <1>1, <2>2, EightBits
    <2> QED BY <2>1, <2>3
  <1>3. Bits(4 * s) \cap {2, 3} = Bits(4 * s)
    BY <1>2
  <1>4. Number(Bits(4 * s)) = 4 * s
    BY <1>1, NumberBits
  <1> QED BY <1>2, <1>3, <1>4

\* Bit c of n, and which bits n << k has.
Has(n, c) == (n \div 2^c) % 2 = 1

LEMMA BitsAtBits ==
  ASSUME NEW n, NEW k \in Nat, NEW x \in Int, NEW c \in Int, x = c + k
  PROVE  x \in BitsAt(n, k) <=> c \in 0 .. 15 /\ Has(n, c)
  BY DEF BitsAt, Has

LEMMA BitsHas ==
  ASSUME NEW n, NEW b \in 0 .. 7
  PROVE  b \in Bits(n) <=> Has(n, b)
  BY DEF Bits, Has

LEMMA HighPowers ==
  /\ 2^8 = 256 /\ 2^9 = 512 /\ 2^10 = 1024 /\ 2^11 = 2048 /\ 2^12 = 4096
  /\ 2^13 = 8192 /\ 2^14 = 16384 /\ 2^15 = 32768
  OBVIOUS

\* A byte has no bit above the eighth, and a shift none above the second.
LEMMA HighBits ==
  ASSUME NEW n \in 0 .. 255, NEW c \in 8 .. 15
  PROVE  ~ Has(n, c)
  <1>1. /\ n \div 256 = 0 /\ n \div 512 = 0 /\ n \div 1024 = 0 /\ n \div 2048 = 0
        /\ n \div 4096 = 0 /\ n \div 8192 = 0 /\ n \div 16384 = 0 /\ n \div 32768 = 0
    OBVIOUS
  <1>2. c = 8 \/ c = 9 \/ c = 10 \/ c = 11 \/ c = 12 \/ c = 13 \/ c = 14 \/ c = 15
    OBVIOUS
  <1>3. CASE c = 8
    BY <1>1, <1>3, HighPowers DEF Has
  <1>4. CASE c = 9
    BY <1>1, <1>4, HighPowers DEF Has
  <1>5. CASE c = 10
    BY <1>1, <1>5, HighPowers DEF Has
  <1>6. CASE c = 11
    BY <1>1, <1>6, HighPowers DEF Has
  <1>7. CASE c = 12
    BY <1>1, <1>7, HighPowers DEF Has
  <1>8. CASE c = 13
    BY <1>1, <1>8, HighPowers DEF Has
  <1>9. CASE c = 14
    BY <1>1, <1>9, HighPowers DEF Has
  <1>10. CASE c = 15
    BY <1>1, <1>10, HighPowers DEF Has
  <1> QED BY <1>2, <1>3, <1>4, <1>5, <1>6, <1>7, <1>8, <1>9, <1>10

LEMMA ShiftHigh ==
  ASSUME NEW s \in Shifts, NEW c \in 2 .. 15
  PROVE  ~ Has(s, c)
  <1>1. s \in 0 .. 3
    BY DEF Shifts
  <1>2. s \div 4 = 0 /\ s \div 8 = 0 /\ s \div 16 = 0 /\ s \div 32 = 0 /\ s \div 64 = 0 /\ s \div 128 = 0
    BY <1>1
  <1>3. c = 2 \/ c = 3 \/ c = 4 \/ c = 5 \/ c = 6 \/ c = 7 \/ c \in 8 .. 15
    OBVIOUS
  <1>4. CASE c \in 8 .. 15
    BY <1>1, <1>4, HighBits
  <1>5. CASE c = 2
    BY <1>2, <1>5, Powers DEF Has
  <1>6. CASE c = 3
    BY <1>2, <1>6, Powers DEF Has
  <1>7. CASE c = 4
    BY <1>2, <1>7, Powers DEF Has
  <1>8. CASE c = 5
    BY <1>2, <1>8, Powers DEF Has
  <1>9. CASE c = 6
    BY <1>2, <1>9, Powers DEF Has
  <1>10. CASE c = 7
    BY <1>2, <1>10, Powers DEF Has
  <1> QED BY <1>3, <1>4, <1>5, <1>6, <1>7, <1>8, <1>9, <1>10

\* Four times a shift has the two bits of the shift, two places up.
LEMMA ShiftTwice ==
  ASSUME NEW s \in Shifts, NEW b \in 0 .. 7
  PROVE  b \in Bits(4 * s) <=> b - 2 \in 0 .. 15 /\ Has(s, b - 2)
  <1>1. s \in 0 .. 3 /\ 4 * s \in Nat
    BY DEF Shifts
  <1>2. b = 0 \/ b = 1 \/ b = 2 \/ b = 3 \/ b \in 4 .. 7
    OBVIOUS
  <1>3. Bits(4 * s) \subseteq {2, 3}
    BY ShiftBits
  <1>4. CASE b = 0 \/ b = 1
    <2>1. b \notin Bits(4 * s)
      BY <1>4, <1>3
    <2>2. ~ (b - 2 \in 0 .. 15)
      BY <1>4
    <2> QED BY <2>1, <2>2
  <1>5. CASE b = 2
    <2>1. 2 \in Bits(4 * s) <=> ((4 * s) \div 4) % 2 = 1
      BY <1>1, EightBits
    <2>2. Has(s, 0) <=> (s \div 1) % 2 = 1
      BY Powers DEF Has
    <2>3. (4 * s) \div 4 = s \div 1 /\ b - 2 = 0
      BY <1>1, <1>5
    <2> QED BY <1>5, <2>1, <2>2, <2>3
  <1>6. CASE b = 3
    <2>1. 3 \in Bits(4 * s) <=> ((4 * s) \div 8) % 2 = 1
      BY <1>1, EightBits
    <2>2. Has(s, 1) <=> (s \div 2) % 2 = 1
      BY Powers DEF Has
    <2>3. (4 * s) \div 8 = s \div 2 /\ b - 2 = 1
      BY <1>1, <1>6
    <2> QED BY <1>6, <2>1, <2>2, <2>3
  <1>7. CASE b \in 4 .. 7
    <2>1. b \notin Bits(4 * s)
      BY <1>7, <1>3
    <2>2. b - 2 \in 2 .. 15
      BY <1>7
    <2> QED BY <2>1, <2>2, ShiftHigh
  <1> QED BY <1>2, <1>4, <1>5, <1>6, <1>7

\* No field of what CalcPLL() returns runs into the next, and each of its bytes
\* is one field.
LEMMA PackedBytes ==
  ASSUME NEW m \in 0 .. 255, NEW s \in Shifts, NEW d \in 0 .. 255
  PROVE  LET v == BitsAt(d, 16) \cup BitsAt(s, 10) \cup BitsAt(m, 0) IN
         Byte(v, 0) = Bits(m) /\ Byte(v, 1) = Bits(4 * s) /\ Byte(v, 2) = Bits(d)
  <1> DEFINE v == BitsAt(d, 16) \cup BitsAt(s, 10) \cup BitsAt(m, 0)
  <1>1. ASSUME NEW b \in 0 .. 7 PROVE b \in v <=> b \in Bits(m)
    <2>1. b \in BitsAt(d, 16) <=> b - 16 \in 0 .. 15 /\ Has(d, b - 16)
      BY BitsAtBits
    <2>2. b \in BitsAt(s, 10) <=> b - 10 \in 0 .. 15 /\ Has(s, b - 10)
      BY BitsAtBits
    <2>3. b \in BitsAt(m, 0) <=> b \in 0 .. 15 /\ Has(m, b)
      BY BitsAtBits
    <2> QED BY <2>1, <2>2, <2>3, BitsHas
  <1>2. ASSUME NEW b \in 0 .. 7 PROVE b + 8 \in v <=> b \in Bits(4 * s)
    <2>1. b + 8 \in BitsAt(d, 16) <=> b - 8 \in 0 .. 15 /\ Has(d, b - 8)
      BY BitsAtBits
    <2>2. b + 8 \in BitsAt(s, 10) <=> b - 2 \in 0 .. 15 /\ Has(s, b - 2)
      BY BitsAtBits
    <2>3. b + 8 \in BitsAt(m, 0) <=> b + 8 \in 0 .. 15 /\ Has(m, b + 8)
      BY BitsAtBits
    <2>4. ~ Has(m, b + 8)
      BY HighBits
    <2> QED BY <2>1, <2>2, <2>3, <2>4, ShiftTwice
  <1>3. ASSUME NEW b \in 0 .. 7 PROVE b + 16 \in v <=> b \in Bits(d)
    <2>1. b + 16 \in BitsAt(d, 16) <=> b \in 0 .. 15 /\ Has(d, b)
      BY BitsAtBits
    <2>2. b + 16 \in BitsAt(s, 10) <=> b + 6 \in 0 .. 15 /\ Has(s, b + 6)
      BY BitsAtBits
    <2>3. b + 16 \in BitsAt(m, 0) <=> b + 16 \in 0 .. 15 /\ Has(m, b + 16)
      BY BitsAtBits
    <2>4. ~ (b + 6 \in 0 .. 15 /\ Has(s, b + 6))
      BY ShiftHigh
    <2> QED BY <2>1, <2>2, <2>3, <2>4, BitsHas
  <1> HIDE DEF v
  <1>4. \A b \in 0 .. 7 : b + 8 * 0 = b /\ b + 8 * 1 = b + 8 /\ b + 8 * 2 = b + 16
    OBVIOUS
  <1>5. \A n : Bits(n) \subseteq 0 .. 7
    BY DEF Bits
  <1>6. Byte(v, 0) = Bits(m)
    BY <1>1, <1>4, <1>5 DEF Byte
  <1>7. Byte(v, 1) = Bits(4 * s)
    BY <1>2, <1>4, <1>5 DEF Byte
  <1>8. Byte(v, 2) = Bits(d)
    BY <1>3, <1>4, <1>5 DEF Byte
  <1> QED BY <1>6, <1>7, <1>8 DEF v

------------------------------------------------------------------------------
(***************************************************************************)
(* The registers.  The search is part of setting a mode of the CN700, and  *)
(* is over, for the clock of this mode, when the mode is set.              *)
(***************************************************************************)
Registers == [SeqRegs -> SUBSET (0 .. 7)]

SearchInv ==
  chiptype = "CN700" => freq = mode.clock /\ (~ setting => Done)

ModeInv ==
  /\ TypeOK /\ ClockInv /\ SearchInv
  /\ ShowsDepth /\ FetchesLine /\ ClockProgrammed /\ StartShown

\* A register is written.
LEMMA OneWrite ==
  ASSUME NEW old \in Registers, NEW r \in SeqRegs, NEW bits \in SUBSET (0 .. 7)
  PROVE  LET new == [old EXCEPT ![r] = bits] IN new \in Registers /\ new[r] = bits
  BY DEF Registers

\* What the writes of each group leave in the registers checked, and that the
\* others are left alone.
LEMMA ClockWrites ==
  ASSUME NEW old \in Registers, NEW tmp
  PROVE  LET new == ClockRegs(old, tmp) IN
         /\ new \in Registers
         /\ new[\h15] = old[\h15] /\ new[\h1d] = old[\h1d]
         /\ chiptype = "CN700" =>
              /\ new[\h44] = Byte(tmp, 0) /\ new[\h45] = Byte(tmp, 1) /\ new[\h46] = Byte(tmp, 2)
  <1>1. \A k : Byte(tmp, k) \in SUBSET (0 .. 7)
    BY DEF Byte
  <1> QED BY <1>1 DEF ClockRegs, Registers, SeqRegs

LEMMA QueueWrites ==
  ASSUME NEW old \in Registers
  PROVE  LET new == QueueRegs(old) IN
         /\ new \in Registers
         /\ \A r \in {\h15, \h1d, \h44, \h45, \h46} : new[r] = old[r]
  <1>1. \A n : Bits(n) \in SUBSET (0 .. 7)
    BY DEF Bits
  <1>2. \A b \in SUBSET (0 .. 7) : \A v, m : Masked(b, v, m) \in SUBSET (0 .. 7)
    BY <1>1 DEF Masked
  <1> QED BY <1>1, <1>2 DEF QueueRegs, Registers, SeqRegs

LEMMA FetchWrites ==
  ASSUME NEW old \in Registers
  PROVE  LET new == FetchRegs(old)  of == LineBytes(mode) \div 16 IN
         /\ new \in Registers
         /\ \A r \in {\h15, \h44, \h45, \h46} : new[r] = old[r]
         /\ new[\h1c] = Bits(of % 256)
         /\ new[\h1d] = Masked(old[\h1d], of \div 256, \h03)
  <1>1. \A n : Bits(n) \in SUBSET (0 .. 7)
    BY DEF Bits
  <1>2. \A b \in SUBSET (0 .. 7) : \A v, m : Masked(b, v, m) \in SUBSET (0 .. 7)
    BY <1>1 DEF Masked
  <1> QED BY <1>1, <1>2 DEF FetchRegs, Registers, SeqRegs

\* The depth is written into its field and nowhere else.
LEMMA DepthWrites ==
  ASSUME NEW old \in SUBSET (0 .. 7), mode.bpp \in Nat
  PROVE  /\ Depth(old) \in SUBSET (0 .. 7)
         /\ mode.bpp \in {8, 15, 16, 32} =>
              Number(Depth(old) \cap Bits(\h1c)) = DepthOf(mode)
  <1>1. \A v \in Nat : /\ Masked(old, v, \h1c) \in SUBSET (0 .. 7)
                       /\ Masked(old, v, \h1c) \cap Bits(\h1c) = Bits(v) \cap Bits(\h1c)
    <2>1. \h1c \in Nat
      OBVIOUS
    <2> QED BY <2>1, MaskedBits
  <1>2. /\ Bits(\h00) \cap Bits(\h1c) = Bits(\h00) /\ Bits(\h04) \cap Bits(\h1c) = Bits(\h04)
        /\ Bits(\h14) \cap Bits(\h1c) = Bits(\h14) /\ Bits(\h1c) \cap Bits(\h1c) = Bits(\h1c)
    BY Masks
  <1>3. \A v \in {\h00, \h04, \h14, \h1c} : v \in 0 .. 255 /\ Number(Bits(v)) = v
    <2>1. \A v \in {\h00, \h04, \h14, \h1c} : v \in 0 .. 255
      OBVIOUS
    <2> QED BY <2>1, NumberBits
  <1>c. ASSUME NEW v \in {\h00, \h04, \h14, \h1c},
               Depth(old) = Masked(old, v, \h1c), DepthOf(mode) = v
        PROVE  /\ Depth(old) \in SUBSET (0 .. 7)
               /\ Number(Depth(old) \cap Bits(\h1c)) = DepthOf(mode)
    <2>1. v \in Nat /\ Number(Bits(v)) = v
      BY <1>3
    <2>2. Bits(v) \cap Bits(\h1c) = Bits(v)
      BY <1>2
    <2>3. Masked(old, v, \h1c) \cap Bits(\h1c) = Bits(v) /\ Masked(old, v, \h1c) \in SUBSET (0 .. 7)
      BY <1>1, <2>1, <2>2
    <2> QED BY <1>c, <2>1, <2>3
  <1>4. CASE mode.bpp = 8
    <2>1. Depth(old) = Masked(old, \h00, \h1c) /\ DepthOf(mode) = \h00
      BY <1>4 DEF Depth, DepthOf
    <2> QED BY <1>c, <2>1
  <1>5. CASE mode.bpp \in {15, 16} /\ mode.green = 5
    <2>1. Depth(old) = Masked(old, \h04, \h1c) /\ DepthOf(mode) = \h04
      BY <1>5 DEF Depth, DepthOf
    <2> QED BY <1>c, <2>1
  <1>6. CASE mode.bpp \in {15, 16} /\ mode.green # 5
    <2>1. Depth(old) = Masked(old, \h14, \h1c) /\ DepthOf(mode) = \h14
      BY <1>6 DEF Depth, DepthOf
    <2> QED BY <1>c, <2>1
  <1>7. CASE mode.bpp = 32
    <2>1. Depth(old) = Masked(old, \h1c, \h1c) /\ DepthOf(mode) = \h1c
      BY <1>7 DEF Depth, DepthOf
    <2> QED BY <1>c, <2>1
  <1>8. CASE mode.bpp \notin {8, 15, 16, 32}
    <2>1. Depth(old) = old
      BY <1>8 DEF Depth
    <2> QED BY <1>8, <2>1
  <1> QED BY <1>4, <1>5, <1>6, <1>7, <1>8

\* The clock variables move as CalcPLL() moves them, in every step.
LEMMA ClockSteps == TypeOK /\ [Next]_vars => [ClockNext]_clockVars
  <1> SUFFICES ASSUME TypeOK, [Next]_vars PROVE [ClockNext]_clockVars
    OBVIOUS
  <1>1. ASSUME NEW m \in Modes, SetMode(m) PROVE [ClockNext]_clockVars
    BY <1>1, ModeAssumption DEF SetMode, ClockNext
  <1>2. CASE Search
    BY <1>2 DEF Search, ClockNext
  <1>3. CASE unichrome_initializemode
    BY <1>3 DEF unichrome_initializemode
  <1>4. ASSUME NEW a \in Addresses, unichrome_setdisplaystart(a) PROVE [ClockNext]_clockVars
    BY <1>4 DEF unichrome_setdisplaystart
  <1>5. CASE UNCHANGED vars
    BY <1>5 DEF vars
  <1> QED BY <1>1, <1>2, <1>3, <1>4, <1>5 DEF Next

\* A write to another register leaves the start where it is.
LEMMA StartKept ==
  ASSUME StartShown, UNCHANGED <<chiptype, start, moved>>,
         \A r \in {\h0c, \h0d, \h23, \h48} : crt'[r] = crt[r]
  PROVE  StartShown'
  BY DEF StartShown

\* The start address has lost its two lower bytes, and the rest is there still.
LEMMA CrtWritten ==
  ASSUME NEW old \in [CrtRegs -> SUBSET (0 .. 7)]
  PROVE  LET new == CrtWrites(old) IN
         /\ new \in [CrtRegs -> SUBSET (0 .. 7)]
         /\ new[\h0c] = {} /\ new[\h0d] = {}
         /\ \A r \in {\h23, \h48} : new[r] = old[r]
  <1>1. \A b \in SUBSET (0 .. 7) : \A v, m : Masked(b, v, m) \in SUBSET (0 .. 7)
    BY DEF Masked, Bits
  <1> QED BY <1>1 DEF CrtWrites, CrtRegs

\* The third byte of a number.
LEMMA HighByte ==
  ASSUME NEW n \in Nat
  PROVE  (n % 16777216) \div 65536 = (n \div 65536) % 256
  OBVIOUS

\* What the writes to the CRTC leave of an address (unichrome patch 94, 112).
LEMMA StartCleared ==
  ASSUME TypeOK, StartShown, UNCHANGED <<chiptype, start>>, moved' = FALSE,
         crt'[\h0c] = {}, crt'[\h0d] = {}, \A r \in {\h23, \h48} : crt'[r] = crt[r]
  PROVE  StartShown'
  <1> SUFFICES ASSUME start >= 0 PROVE StartShown'
    BY DEF StartShown
  <1>1. start \in Nat
    BY MemoryAssumption DEF TypeOK
  <1>2. PICK told : told = start \div 4
    OBVIOUS
  <1>3. told \in Nat
    BY <1>1, <1>2
  <1>4. PICK a \in 0 .. 255, b \in 0 .. 255, c \in 0 .. 255 :
          a = Number(crt[\h0d]) /\ b = Number(crt[\h0c]) /\ c = Number(crt[\h23])
    BY NumberByte DEF TypeOK, CrtRegs
  <1>5. a + 256 * b + 65536 * c = IF moved THEN told % 16777216 ELSE 65536 * ((told \div 65536) % 256)
    BY <1>1, <1>2, <1>4, Powers DEF StartShown
  <1>6. 65536 * c = 65536 * ((told \div 65536) % 256)
    <2>1. CASE moved
      <3>1. a + 256 * b + 65536 * c = told % 16777216
        BY <1>5, <2>1
      <3>2. (told % 16777216) \div 65536 = (told \div 65536) % 256
        BY <1>3, HighByte
      <3>3. (a + 256 * b + 65536 * c) \div 65536 = c
        OBVIOUS
      <3> QED BY <3>1, <3>2, <3>3
    <2>2. CASE ~ moved
      <3>1. PICK d \in 0 .. 255 : d = (told \div 65536) % 256
        BY <1>3
      <3>2. a + 256 * b + 65536 * c = 65536 * d
        BY <1>5, <2>2, <3>1
      <3>3. c = d
        BY <3>2
      <3> QED BY <3>1, <3>3
    <2> QED BY <2>1, <2>2
  <1>7. Number({}) = 0
    BY DEF Number
  <1>8. 0 + 256 * 0 + 65536 * c = 65536 * ((told \div 65536) % 256)
    BY <1>6
  <1>9. chiptype = "CN700" => Number(crt[\h48]) = told \div 16777216
    BY <1>1, <1>2, Powers DEF StartShown
  <1>10. /\ start' = start /\ chiptype' = chiptype /\ ~ moved'
         /\ Number(crt'[\h0d]) = 0 /\ Number(crt'[\h0c]) = 0 /\ Number(crt'[\h23]) = c
         /\ Number(crt'[\h48]) = Number(crt[\h48])
    BY <1>4, <1>7
  <1> QED BY <1>2, <1>8, <1>9, <1>10, Powers DEF StartShown

\* Setting a mode begins.
LEMMA SetModeStep ==
  ASSUME ModeInv, NEW m \in Modes, SetMode(m)
  PROVE  ModeInv'
  <1>1. ClockInv'
    BY ClockNextInv, ClockSteps DEF ModeInv, Next
  <1>2. /\ mode' = m /\ setting' = TRUE /\ UNCHANGED <<chiptype, seq, crt, start, moved>>
        /\ m.size <= Memory
    BY MemoryAssumption DEF SetMode, unichrome_modeavailable
  <1>3. TypeOK'
    BY <1>1, <1>2 DEF ModeInv, TypeOK, ClockInv
  <1>4. SearchInv'
    BY <1>2 DEF SetMode, Call, SearchInv
  <1>5. StartShown'
    BY <1>2, StartKept DEF ModeInv
  <1>6. ShowsDepth' /\ FetchesLine' /\ ClockProgrammed'
    BY <1>2 DEF ShowsDepth, FetchesLine, ClockProgrammed
  <1> QED BY <1>1, <1>3, <1>4, <1>5, <1>6 DEF ModeInv

\* The search goes on.
LEMMA SearchStep ==
  ASSUME ModeInv, Search
  PROVE  ModeInv'
  <1>1. ClockInv'
    BY ClockNextInv, ClockSteps DEF ModeInv, Next
  <1>2. /\ UNCHANGED <<chiptype, mode, setting, seq, crt, start, moved, freq>> /\ setting
    BY DEF Search, Try, modeVars
  <1>3. TypeOK'
    BY <1>1, <1>2 DEF ModeInv, TypeOK, ClockInv
  <1>4. SearchInv'
    BY <1>2 DEF ModeInv, SearchInv
  <1>5. StartShown'
    BY <1>2, StartKept DEF ModeInv
  <1>6. ShowsDepth' /\ FetchesLine' /\ ClockProgrammed'
    BY <1>2 DEF ShowsDepth, FetchesLine, ClockProgrammed
  <1> QED BY <1>1, <1>3, <1>4, <1>5, <1>6 DEF ModeInv

\* The registers of the mode are written, all of its fields.
LEMMA InitializeStep ==
  ASSUME ModeInv, unichrome_initializemode
  PROVE  ModeInv'
  <1>1. UNCHANGED <<chiptype, mode, start, clockVars>> /\ setting' = FALSE /\ moved' = FALSE
    BY DEF unichrome_initializemode
  <1>2. ClockInv'
    BY ClockNextInv, ClockSteps DEF ModeInv, Next
  <1>3. PICK tmp \in PLL :
       seq' = FetchRegs(QueueRegs(ClockRegs(
                [seq EXCEPT ![\h15] = Depth(Masked(Masked(Masked(@, \h02, \h02), \h00, \h80), \h20, \h20))],
                tmp)))
    BY DEF unichrome_initializemode
  <1>4. PICK m15 : m15 = Masked(Masked(Masked(seq[\h15], \h02, \h02), \h00, \h80), \h20, \h20)
    OBVIOUS
  <1>5. PICK r0 : r0 = [seq EXCEPT ![\h15] = Depth(m15)]
    OBVIOUS
  <1>6. PICK r1 : r1 = ClockRegs(r0, tmp)
    OBVIOUS
  <1>7. PICK r2 : r2 = QueueRegs(r1)
    OBVIOUS
  <1>8. PICK r3 : r3 = FetchRegs(r2)
    OBVIOUS
  <1>9. seq' = r3
    BY <1>3, <1>4, <1>5, <1>6, <1>7, <1>8, Zenon
  <1>10. m15 \in SUBSET (0 .. 7) /\ mode.bpp \in Nat /\ mode.hdisplay \in Nat /\ mode \in Modes
    <2>1. seq[\h15] \in SUBSET (0 .. 7)
      BY DEF ModeInv, TypeOK, SeqRegs
    <2>2. \A b \in SUBSET (0 .. 7) : \A v, m : Masked(b, v, m) \in SUBSET (0 .. 7)
      BY DEF Masked, Bits
    <2> QED BY <1>4, <2>1, <2>2, ModeAssumption DEF ModeInv, TypeOK
  <1>11. r0 \in Registers /\ r0[\h15] = Depth(m15)
    <2>1. Depth(m15) \in SUBSET (0 .. 7)
      BY <1>10, DepthWrites
    <2>2. seq \in Registers /\ \h15 \in SeqRegs
      BY DEF ModeInv, TypeOK, Registers, SeqRegs
    <2>3. PICK old \in Registers, bits \in SUBSET (0 .. 7) : old = seq /\ bits = Depth(m15)
      BY <2>1, <2>2
    <2>4. r0 = [old EXCEPT ![\h15] = bits]
      BY <1>5, <2>3
    <2>5. PICK r \in SeqRegs : r = \h15
      BY <2>2
    <2>6. [old EXCEPT ![r] = bits] \in Registers /\ [old EXCEPT ![r] = bits][r] = bits
      BY OneWrite, Zenon
    <2> QED BY <2>3, <2>4, <2>5, <2>6
  <1>12. /\ r1 \in Registers /\ r1[\h15] = r0[\h15]
         /\ chiptype = "CN700" =>
              /\ r1[\h44] = Byte(tmp, 0) /\ r1[\h45] = Byte(tmp, 1) /\ r1[\h46] = Byte(tmp, 2)
    <2>1. LET new == ClockRegs(r0, tmp) IN
         /\ new \in Registers
         /\ new[\h15] = r0[\h15] /\ new[\h1d] = r0[\h1d]
         /\ chiptype = "CN700" =>
              /\ new[\h44] = Byte(tmp, 0) /\ new[\h45] = Byte(tmp, 1) /\ new[\h46] = Byte(tmp, 2)
      BY <1>11, ClockWrites, Zenon
    <2> QED BY <1>6, <2>1
  <1>13. /\ r2 \in Registers
         /\ \A r \in {\h15, \h1d, \h44, \h45, \h46} : r2[r] = r1[r]
    BY <1>7, <1>12, QueueWrites
  <1>14. PICK of : of = LineBytes(mode) \div 16
    OBVIOUS
  <1>15. /\ r3 \in Registers
         /\ \A r \in {\h15, \h44, \h45, \h46} : r3[r] = r2[r]
         /\ r3[\h1c] = Bits(of % 256)
         /\ r3[\h1d] = Masked(r2[\h1d], of \div 256, \h03)
    BY <1>8, <1>13, <1>14, FetchWrites
  <1>16. ShowsDepth'
    <2>1. seq'[\h15] = Depth(m15)
      BY <1>9, <1>11, <1>12, <1>13, <1>15
    <2>2. mode.bpp \in {8, 15, 16, 32} => Number(Depth(m15) \cap Bits(\h1c)) = DepthOf(mode)
      BY <1>10, DepthWrites
    <2> QED BY <1>1, <2>1, <2>2 DEF ShowsDepth, DepthField
  <1>17. FetchesLine'
    <2>1. PICK n : n = LineBytes(mode)
      OBVIOUS
    <2>2. n \in Nat /\ n < 16384
      <3>1. mode.bpp \div 8 \in Nat
        BY <1>10
      <3>2. \A x, y \in Nat : x * y \in Nat
        OBVIOUS
      <3> QED BY <1>10, <2>1, <3>1, <3>2, LineAssumption, Powers DEF LineBytes
    <2>3. /\ of \in 0 .. 1023 /\ of % 256 \in 0 .. 255 /\ of \div 256 \in 0 .. 3
          /\ of = (of % 256) + 256 * (of \div 256)
          /\ 16 * of <= n /\ n < 16 * (of + 1)
      <3>1. of = n \div 16
        BY <1>14, <2>1
      <3>2. of \in Nat /\ 16 * of <= n /\ n < 16 * (of + 1)
        BY <2>2, <3>1
      <3>3. of \in 0 .. 1023
        BY <2>2, <3>2
      <3>4. /\ of % 256 \in 0 .. 255 /\ of \div 256 \in 0 .. 3
            /\ of = (of % 256) + 256 * (of \div 256)
        BY <3>3
      <3> QED BY <3>2, <3>3, <3>4
    <2>4. Number(seq'[\h1c]) = of % 256
      BY <1>9, <1>15, <2>3, NumberBits
    <2>5. PICK high \in 0 .. 3, old \in SUBSET (0 .. 7) : high = of \div 256 /\ old = r2[\h1d]
      BY <1>13, <2>3 DEF Registers, SeqRegs
    <2>6. Number(seq'[\h1d] \cap {0, 1}) = of \div 256
      <3>1. Masked(old, high, \h03) \cap Bits(\h03) = Bits(high) \cap Bits(\h03)
        BY MaskedBits
      <3>2. seq'[\h1d] = Masked(old, high, \h03)
        BY <1>9, <1>15, <2>5
      <3>3. seq'[\h1d] \cap {0, 1} = Bits(high) \cap {0, 1}
        BY <3>1, <3>2, Masks
      <3> QED BY <2>5, <3>3, TwoBits
    <2> QED BY <1>1, <2>1, <2>3, <2>4, <2>6 DEF FetchesLine, LineBytes
  <1>18. ClockProgrammed'
    <2> SUFFICES ASSUME chiptype = "CN700" PROVE ClockProgrammed'
      BY <1>1 DEF ClockProgrammed
    <2>1. /\ BestMultiplier \in Multipliers /\ BestDivider \in Dividers /\ BestShift \in Shifts
          /\ freq = mode.clock
      BY InvOptimal DEF unichrome_initializemode, ModeInv, Optimal, SearchInv
    <2>2. BestMultiplier - 2 \in 0 .. 255 /\ BestDivider - 2 \in 0 .. 255
          /\ BestMultiplier \in Int /\ BestDivider \in Int
      BY <2>1 DEF Multipliers, Dividers
    <2>3. tmp = BitsAt(BestDivider - 2, 16) \cup BitsAt(BestShift, 10) \cup BitsAt(BestMultiplier - 2, 0)
      BY DEF PLL
    <2>4. /\ seq'[\h44] = Bits(BestMultiplier - 2) /\ seq'[\h45] = Bits(4 * BestShift)
          /\ seq'[\h46] = Bits(BestDivider - 2)
      <3>1. /\ seq'[\h44] = Byte(tmp, 0) /\ seq'[\h45] = Byte(tmp, 1)
            /\ seq'[\h46] = Byte(tmp, 2)
        BY <1>9, <1>12, <1>13, <1>15
      <3>2. PICK m \in 0 .. 255, d \in 0 .. 255 : m = BestMultiplier - 2 /\ d = BestDivider - 2
        BY <2>2
      <3>3. tmp = BitsAt(d, 16) \cup BitsAt(BestShift, 10) \cup BitsAt(m, 0)
        BY <2>3, <3>2
      <3>4. Byte(tmp, 0) = Bits(m) /\ Byte(tmp, 1) = Bits(4 * BestShift) /\ Byte(tmp, 2) = Bits(d)
        BY <2>1, <3>3, PackedBytes
      <3> QED BY <3>1, <3>2, <3>4
    <2>5. Number(seq'[\h44]) = BestMultiplier - 2 /\ Number(seq'[\h46]) = BestDivider - 2
      BY <2>2, <2>4, NumberBits
    <2>6. Number(seq'[\h45] \cap {2, 3}) = 4 * BestShift /\ seq'[\h45] \subseteq {2, 3}
      BY <2>1, <2>4, ShiftBits
    <2>7. /\ freq' = freq /\ mode' = mode
          /\ BestMultiplier' = BestMultiplier /\ BestShift' = BestShift /\ BestDivider' = BestDivider
      BY <1>1 DEF clockVars, best
    <2> QED BY <2>1, <2>2, <2>5, <2>6, <2>7 DEF ClockProgrammed
  <1>19. /\ crt' \in [CrtRegs -> SUBSET (0 .. 7)]
         /\ crt'[\h0c] = {} /\ crt'[\h0d] = {}
         /\ \A r \in {\h23, \h48} : crt'[r] = crt[r]
    BY CrtWritten DEF unichrome_initializemode, ModeInv, TypeOK
  <1>20. StartShown'
    BY <1>1, <1>19, StartCleared DEF ModeInv
  <1>21. TypeOK'
    BY <1>1, <1>2, <1>9, <1>15, <1>19 DEF ModeInv, TypeOK, ClockInv, Registers
  <1>22. SearchInv'
    BY <1>1 DEF unichrome_initializemode, ModeInv, SearchInv, clockVars, loops, Done
  <1> QED BY <1>2, <1>16, <1>17, <1>18, <1>20, <1>21, <1>22 DEF ModeInv

\* The display is moved.
LEMMA StartStep ==
  ASSUME ModeInv, NEW a \in Addresses, unichrome_setdisplaystart(a)
  PROVE  ModeInv'
  <1>1. UNCHANGED <<chiptype, mode, setting, seq, clockVars>> /\ start' = a /\ moved' = TRUE
    BY DEF unichrome_setdisplaystart
  <1>2. ClockInv'
    BY ClockNextInv, ClockSteps DEF ModeInv, Next
  <1>3. PICK p : p = a \div 4
    OBVIOUS
  <1>4. p \in Nat /\ p <= 536870911 /\ a \in Nat
    <2>1. INT_MAX \in Nat /\ INT_MAX < 2147483648
      BY DEF INT_MAX
    <2>2. a \in Nat /\ a <= INT_MAX
      BY <2>1, MemoryAssumption
    <2>3. a < 2147483648
      BY <2>1, <2>2
    <2> QED BY <1>3, <2>2, <2>3
  <1>5. /\ crt'[\h23] = Bits((p \div 65536) % 256) /\ crt'[\h0c] = Bits((p \div 256) % 256)
        /\ crt'[\h0d] = Bits(p % 256)
        /\ chiptype = "CN700" => crt'[\h48] = Bits((p \div 16777216) % 32)
        /\ crt' \in [CrtRegs -> SUBSET (0 .. 7)]
    <2>1. \A n : Bits(n) \in SUBSET (0 .. 7)
      BY DEF Bits
    <2> QED BY <1>3, <2>1, Powers DEF unichrome_setdisplaystart, ModeInv, TypeOK, CrtRegs
  <1>6. /\ Number(crt'[\h23]) = (p \div 65536) % 256
        /\ Number(crt'[\h0c]) = (p \div 256) % 256
        /\ Number(crt'[\h0d]) = p % 256
        /\ chiptype = "CN700" => Number(crt'[\h48]) = (p \div 16777216) % 32
    <2>1. /\ (p \div 65536) % 256 \in 0 .. 255 /\ (p \div 256) % 256 \in 0 .. 255
          /\ p % 256 \in 0 .. 255 /\ (p \div 16777216) % 32 \in 0 .. 255
      BY <1>4
    <2> QED BY <1>5, <2>1, NumberBits
  <1>7. /\ (p % 256) + 256 * ((p \div 256) % 256) + 65536 * ((p \div 65536) % 256) = p % 16777216
        /\ (p \div 16777216) % 32 = p \div 16777216
    BY <1>4
  <1>8. StartShown'
    BY <1>1, <1>3, <1>6, <1>7, Powers DEF StartShown
  <1>9. TypeOK'
    BY <1>1, <1>2, <1>5 DEF ModeInv, TypeOK, ClockInv
  <1>10. SearchInv'
    BY <1>1 DEF ModeInv, SearchInv, clockVars, loops, Done
  <1>11. ShowsDepth' /\ FetchesLine' /\ ClockProgrammed'
    BY <1>1 DEF ModeInv, ShowsDepth, DepthField, FetchesLine, ClockProgrammed, clockVars, best
  <1> QED BY <1>2, <1>8, <1>9, <1>10, <1>11 DEF ModeInv

\* A first mode is being set.
LEMMA InitModeInv == Init => ModeInv
  <1> SUFFICES ASSUME Init PROVE ModeInv
    OBVIOUS
  <1>1. ClockInv
    BY ClockInitInv DEF Init
  <1>2. /\ mode \in Modes /\ mode.size <= Memory /\ mode.clock = freq /\ setting = TRUE
        /\ start = -1 /\ moved = FALSE
    BY MemoryAssumption DEF Init, unichrome_modeavailable
  <1>3. TypeOK
    <2>1. PICK left \in {{}, 0 .. 7} :
       /\ seq = [r \in SeqRegs |-> left]
       /\ crt = [r \in CrtRegs |-> left]
      BY DEF Init
    <2> QED BY <1>1, <1>2, <2>1 DEF Init, TypeOK, ClockInv
  <1>4. SearchInv /\ ShowsDepth /\ FetchesLine /\ ClockProgrammed /\ StartShown
    BY <1>2 DEF SearchInv, ShowsDepth, FetchesLine, ClockProgrammed, StartShown
  <1> QED BY <1>1, <1>3, <1>4 DEF ModeInv

\* No step of the driver breaks the invariant.
LEMMA NextModeInv == ModeInv /\ [Next]_vars => ModeInv'
  <1> SUFFICES ASSUME ModeInv, [Next]_vars PROVE ModeInv'
    OBVIOUS
  <1>1. CASE UNCHANGED vars
    <2>1. ClockInv'
      BY ClockNextInv, ClockSteps DEF ModeInv
    <2>2. UNCHANGED <<chiptype, mode, setting, seq, crt, start, moved, clockVars>>
      BY <1>1 DEF vars, modeVars
    <2>3. TypeOK'
      BY <2>1, <2>2 DEF ModeInv, TypeOK, ClockInv
    <2>4. SearchInv' /\ StartShown'
      BY <2>2 DEF ModeInv, SearchInv, StartShown, clockVars, loops, Done
    <2>5. ShowsDepth' /\ FetchesLine' /\ ClockProgrammed'
      BY <2>2 DEF ModeInv, ShowsDepth, DepthField, FetchesLine, ClockProgrammed, clockVars, best
    <2> QED BY <2>1, <2>3, <2>4, <2>5 DEF ModeInv
  <1> QED BY <1>1, SetModeStep, SearchStep, InitializeStep, StartStep DEF Next

\* The registers, the mode and the clock search keep their types, and a mode
\* that is set fits into the memory.
THEOREM ModeTypeCorrect == Spec => []TypeOK
  <1>1. ModeInv => TypeOK
    BY DEF ModeInv
  <1> QED BY <1>1, InitModeInv, NextModeInv, PTL DEF Spec

\* For all modes, in whatever order they are set and over whatever bits were
\* in the registers, the depth field is that of the mode set last.
THEOREM DepthShown == Spec => []ShowsDepth
  <1>1. ModeInv => ShowsDepth
    BY DEF ModeInv
  <1> QED BY <1>1, InitModeInv, NextModeInv, PTL DEF Spec

\* So is the count of what is fetched for a line, up to LineAssumption.
THEOREM LineFetched == Spec => []FetchesLine
  <1>1. ModeInv => FetchesLine
    BY DEF ModeInv
  <1> QED BY <1>1, InitModeInv, NextModeInv, PTL DEF Spec

\* So is the clock of the CN700: its registers hold what the search found.
THEOREM ClockSet == Spec => []ClockProgrammed
  <1>1. ModeInv => ClockProgrammed
    BY DEF ModeInv
  <1> QED BY <1>1, InitModeInv, NextModeInv, PTL DEF Spec

\* Whatever modes are set and wherever the display is told to start, the
\* registers hold that address until the next mode, and after it the part that
\* setting a mode does not clear, however large the memory.
THEOREM DisplayStart == Spec => []StartShown
  <1>1. ModeInv => StartShown
    BY DEF ModeInv
  <1> QED BY <1>1, InitModeInv, NextModeInv, PTL DEF Spec

\* The search that setting a mode runs ends with the best setting.
THEOREM ModeOptimal == Spec => []Optimal
  <1>1. ModeInv => Optimal
    BY InvOptimal DEF ModeInv
  <1> QED BY <1>1, InitModeInv, NextModeInv, PTL DEF Spec
==============================================================================
